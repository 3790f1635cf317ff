----------------------------- MODULE PriceFiles -----------------------------
(***************************************************************************)
(* The price lists on disk: fetch_cost_info.py writes them, one file for   *)
(* each region and service, and the server reads those of its first region *)
(* when it starts (get_cloud_env, Ec2EmrPricing, DbxPricing).  A file is    *)
(* opened, which truncates it, and then written; the script may be aborted *)
(* at any point and run again.  The installer starts the server when the   *)
(* script has ended, however it ended, and systemd restarts it as often as *)
(* an unreadable file ends it: only a start that succeeds is a step.       *)
(***************************************************************************)
EXTENDS Platform, Integers, Sequences

CONSTANTS
    AwsRegions,  \* AWS_REGIONS of the script, AllClusters.aws_regions
    Default,     \* us-east-1
    NoFile,
    Supplied     \* the lists of names that users set as AWS_REGIONS

ASSUME FilesAssumption ==
    /\ Default \in AwsRegions
    /\ \A s \in Supplied : Len(s) \in Nat
    /\ NoFile \notin AwsRegions \X {"emr", "ec2"}

VARIABLES
    supplied,  \* AWS_REGIONS
    file,      \* what is on disk
    script,    \* where the script is
    todo,      \* the regions it has yet to download
    current,   \* the file it is working on, or NoFile
    torn,      \* files whose writing has been aborted since the last complete one
    up         \* the server has read its price lists

files == <<supplied, file, script, todo, current, torn, up>>
filesVars == <<activated_platform, files>>

Kinds    == {"emr", "ec2"}
AllFiles == AwsRegions \X Kinds
Running  == {"loop", "request", "fetched", "writing"}
Stopped  == {"idle", "aborted", "finished"}

Names(s) == {s[i] : i \in 1 .. Len(s)}

(* main of the script: '' stands for all regions, unknown ones are skipped. *)
asked == IF supplied = <<>> THEN AwsRegions ELSE Names(supplied) \cap AwsRegions

(* get_cloud_env of the server: the first name, if it is known.            *)
active_region ==
    IF supplied # <<>> /\ Head(supplied) \in AwsRegions
    THEN Head(supplied) ELSE Default

KindsUsed == IF activated_platform = "AWS_EMR" THEN Kinds ELSE {"ec2"}

FilesInit ==
    /\ supplied \in Supplied
    /\ file = [k \in AllFiles |-> "absent"]
    /\ script = "idle"
    /\ todo = {}
    /\ current = NoFile
    /\ torn = {}
    /\ up = FALSE

-----------------------------------------------------------------------------
(* Installation, the first or again after a run that was aborted.          *)
RunScript ==
    /\ script \in {"idle", "aborted"} /\ ~up
    /\ script' = "loop"
    /\ todo' = asked
    /\ UNCHANGED <<supplied, file, current, torn, up>>

(* Variant: what is there is not downloaded again.                         *)
NextRegionIfAbsent ==
    /\ script = "loop"
    /\ \E r \in todo :
          /\ todo' = todo \ {r}
          /\ current' = <<r, IF activated_platform = "AWS_EMR" THEN "emr" ELSE "ec2">>
          /\ script' = IF file[current'] = "absent" THEN "request" ELSE "loop"
    /\ UNCHANGED <<supplied, file, torn, up>>

(* The EMR list first, on EMR; EC2 only on Databricks.                     *)
NextRegion ==
    /\ script = "loop"
    /\ \E r \in todo :
          /\ todo' = todo \ {r}
          /\ current' = <<r, IF activated_platform = "AWS_EMR" THEN "emr" ELSE "ec2">>
    /\ script' = "request"
    /\ UNCHANGED <<supplied, file, torn, up>>

(* Variant: the file is open already when its content is requested.        *)
DownloadInto ==
    /\ script = "request"
    /\ script' = "fetched"
    /\ file' = [file EXCEPT ![current] = "truncated"]
    /\ UNCHANGED <<supplied, todo, current, torn, up>>

(* The whole list is in memory before its file is opened.                  *)
Download ==
    /\ script = "request"
    /\ script' = "fetched"
    /\ UNCHANGED <<supplied, file, todo, current, torn, up>>

Open ==
    /\ script = "fetched"
    /\ script' = "writing"
    /\ file' = [file EXCEPT ![current] = "truncated"]
    /\ UNCHANGED <<supplied, todo, current, torn, up>>

Write ==
    /\ script = "writing"
    /\ file' = [file EXCEPT ![current] = "complete"]
    /\ torn' = torn \ {current}
    /\ IF current[2] = "emr"
       THEN script' = "request" /\ current' = <<current[1], "ec2">>
       ELSE script' = "loop" /\ UNCHANGED current
    /\ UNCHANGED <<supplied, todo, up>>

(* Variant: a request that fails is left out.                              *)
AbortOrSkip ==
    /\ script \in Running
    /\ script' = IF script = "request" THEN "loop" ELSE "aborted"
    /\ torn' = IF script = "writing" THEN torn \cup {current} ELSE torn
    /\ UNCHANGED <<supplied, file, todo, current, up>>

(* A request or a write raises, or the script is interrupted.              *)
Abort ==
    /\ script \in Running
    /\ script' = "aborted"
    /\ torn' = IF script = "writing" THEN torn \cup {current} ELSE torn
    /\ todo' = {} /\ current' = NoFile
    /\ UNCHANGED <<supplied, file, up>>

Finish ==
    /\ script = "loop" /\ todo = {}
    /\ script' = "finished"
    /\ current' = NoFile
    /\ UNCHANGED <<supplied, file, todo, torn, up>>

(* Inject.__init__ in the server: a file that is missing is none, one that  *)
(* is truncated raises.                                                     *)
Start ==
    /\ script \in Stopped /\ ~up
    /\ \A k \in KindsUsed : file[<<active_region, k>>] # "truncated"
    /\ up' = TRUE
    /\ script' = "idle"
    /\ UNCHANGED <<supplied, file, todo, current, torn>>

(* The process of the server ends.                                         *)
Stop ==
    /\ up
    /\ up' = FALSE
    /\ UNCHANGED <<supplied, file, script, todo, current, torn>>

ScriptStep == NextRegion \/ Download \/ Open \/ Write \/ Finish

FilesNext ==
    /\ RunScript \/ ScriptStep \/ Abort \/ Start \/ Stop
    /\ UNCHANGED activated_platform

FilesSpec == PlatformInit /\ FilesInit /\ [][FilesNext]_filesVars

-----------------------------------------------------------------------------
(* A run that finishes has installed all lists of every region it was asked *)
(* for, the server's own among them unless the first name is unknown: no    *)
(* failure of this or an earlier run leaves one out or unreadable.          *)
FinishedMeansInstalled ==
    script = "finished" =>
        /\ \A r \in asked, k \in KindsUsed : file[<<r, k>>] = "complete"
        /\ \/ active_region \in asked
           \/ supplied # <<>> /\ Head(supplied) \notin AwsRegions

(* Only a file whose writing was cut short is unreadable: a request that    *)
(* fails leaves the file that is there as it was.                           *)
TornOnlyByWriting ==
    \A k \in AllFiles : file[k] = "truncated" =>
        k \in torn \/ (script = "writing" /\ current = k)

(* Whatever earlier runs left behind, a run of the script that is not        *)
(* aborted ends with the server up.                                          *)
RunBringsServerUp == script \in Running ~> (up \/ script = "aborted")
=============================================================================
