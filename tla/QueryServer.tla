----------------------------- MODULE QueryServer ----------------------------
(***************************************************************************)
(* The server from its installation on: the price lists are downloaded,    *)
(* the server starts with those it finds, and answers the panels of its    *)
(* platform until it is restarted, which loses its caches and its requests *)
(* and reads the lists again.                                              *)
(***************************************************************************)
EXTENDS EmrPanels, DbxPanels, PriceFiles

queryVars == <<emrVars, settings, pricing, files>>

(* DbxPricing takes a list that is complete.                               *)
ListInstalled == file[<<active_region, "ec2">>] = "complete"

QueryInit ==
    /\ WorldInit /\ RequestInit /\ EmrInit /\ DbxInit /\ FilesInit

Install ==
    /\ RunScript \/ ScriptStep \/ Abort
    /\ UNCHANGED <<emrVars, settings, pricing>>

StartServer ==
    /\ Start
    /\ installed' = ListInstalled
    /\ UNCHANGED <<emrVars, labels, pricing>>

(* Requests are served while the server is up.                             *)
EmrProgress(t) ==
    /\ up /\ activated_platform = "AWS_EMR" /\ EmrStep(t)
    /\ UNCHANGED <<world, settings, pricing, files>>

DbxProgress(t) ==
    /\ up /\ activated_platform = "AWS_DBX" /\ DbxStep(t)
    /\ UNCHANGED <<world, listing, cluster_cache, files>>

EmrRequest(t) ==
    /\ up /\ activated_platform = "AWS_EMR"
    /\ EmrAsk(t) \/ Raise(t)
    /\ UNCHANGED <<world, settings, pricing, files>>

DbxRequest(t) ==
    /\ up /\ activated_platform = "AWS_DBX"
    /\ DbxAsk(t) \/ RaiseDbx(t)
    /\ UNCHANGED <<world, listing, cluster_cache, files>>

Pass ==
    /\ up /\ Tick
    /\ UNCHANGED <<requests, faults, listing, cluster_cache, settings, pricing, files>>

(* The process ends and systemd starts it again: Inject.__init__ and the    *)
(* class attributes begin anew.                                             *)
Restart ==
    /\ faults < MaxFaults
    /\ faults' = faults + 1
    /\ Stop /\ Drop /\ DropEmr /\ NoPricing(Threads)
    /\ UNCHANGED <<world, settings>>

QueryNext ==
    \/ Install \/ StartServer \/ Pass \/ Restart
    \/ \E t \in Threads : EmrRequest(t) \/ EmrProgress(t) \/ DbxRequest(t) \/ DbxProgress(t)

(* The script and the service manager keep going, and so does a thread that *)
(* has begun a request, unless it raises.                                   *)
QueryFairness ==
    /\ WF_queryVars(ScriptStep /\ UNCHANGED <<emrVars, settings, pricing>>)
    /\ WF_queryVars(StartServer)
    /\ \A t \in Threads : WF_queryVars(EmrProgress(t)) /\ WF_queryVars(DbxProgress(t))

QuerySpec == QueryInit /\ [][QueryNext]_queryVars /\ QueryFairness
=============================================================================
