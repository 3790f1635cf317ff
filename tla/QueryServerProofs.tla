-------------------------- MODULE QueryServerProofs -------------------------
(***************************************************************************)
(* Proofs about the price files, for any regions and services, and about   *)
(* the paging of QueryServer, for any clusters, spans, ranges, page size,  *)
(* lookback hour and number of threads.                                    *)
(***************************************************************************)
EXTENDS QueryServer, SumTheorems

FileTypes ==
    /\ activated_platform \in {"AWS_EMR", "AWS_DBX"}
    /\ supplied \in Supplied
    /\ file \in [AllFiles -> {"absent", "truncated", "complete"}]
    /\ script \in Running \cup Stopped
    /\ todo \subseteq AwsRegions
    /\ current \in AllFiles \cup {NoFile}
    /\ script \in {"request", "fetched", "writing"} => current \in AllFiles
    /\ torn \subseteq AllFiles
    /\ up \in BOOLEAN

(* In a run, what is not to do any more is written, except for the region   *)
(* that the script works on, of which the lists before `current` are.       *)
Done(r) == \A k \in KindsUsed : file[<<r, k>>] = "complete"

Progress ==
    /\ script \in Running => todo \subseteq asked
    /\ script \in {"loop", "finished"} => \A r \in asked \ todo : Done(r)
    /\ script \in {"request", "fetched", "writing"} =>
        /\ \A r \in asked \ (todo \cup {current[1]}) : Done(r)
        /\ current[2] = "ec2" /\ activated_platform = "AWS_EMR"
             => file[<<current[1], "emr">>] = "complete"
        /\ current[2] = "emr" => activated_platform = "AWS_EMR"
        /\ current[1] \notin todo
    /\ script = "finished" => todo = {}

USE FilesAssumption

LEMMA FileTypesHold == FilesSpec => []FileTypes
<1>1. PlatformInit /\ FilesInit => FileTypes
  BY DEF PlatformInit, FilesInit, FileTypes, AllFiles, Kinds, Stopped, Running
<1>2. FileTypes /\ [FilesNext]_filesVars => FileTypes'
  <2> SUFFICES ASSUME FileTypes, [FilesNext]_filesVars PROVE FileTypes'
    OBVIOUS
  <2> USE DEF FileTypes, AllFiles, Kinds, Running, Stopped
  <2>1. CASE RunScript /\ UNCHANGED activated_platform
    BY <2>1 DEF RunScript, asked
  <2>2. CASE NextRegion /\ UNCHANGED activated_platform
    BY <2>2 DEF NextRegion
  <2>3. CASE Download /\ UNCHANGED activated_platform
    BY <2>3 DEF Download
  <2>4. CASE Open /\ UNCHANGED activated_platform
    BY <2>4 DEF Open
  <2>5. CASE Write /\ UNCHANGED activated_platform
    BY <2>5 DEF Write
  <2>6. CASE Finish /\ UNCHANGED activated_platform
    BY <2>6 DEF Finish
  <2>7. CASE Abort /\ UNCHANGED activated_platform
    BY <2>7 DEF Abort
  <2>8. CASE (Start \/ Stop) /\ UNCHANGED activated_platform
    BY <2>8 DEF Start, Stop
  <2>9. CASE UNCHANGED filesVars
    BY <2>9 DEF filesVars, files
  <2>10. QED
    BY <2>1, <2>2, <2>3, <2>4, <2>5, <2>6, <2>7, <2>8, <2>9
    DEF FilesNext, ScriptStep
<1>3. QED
  BY <1>1, <1>2, PTL DEF FilesSpec

(* A truncated file is one whose writing was cut short, or is being written: *)
(* it is opened only when its content is there (fetch_cost_info.py:49-52).   *)
THEOREM TornByWriting == FilesSpec => []TornOnlyByWriting
<1>1. PlatformInit /\ FilesInit => TornOnlyByWriting
  BY DEF FilesInit, TornOnlyByWriting
<1>2. FileTypes /\ TornOnlyByWriting /\ [FilesNext]_filesVars => TornOnlyByWriting'
  <2> SUFFICES ASSUME FileTypes, TornOnlyByWriting, [FilesNext]_filesVars
               PROVE  TornOnlyByWriting'
    OBVIOUS
  <2> USE DEF FileTypes, TornOnlyByWriting, Running, Stopped
  <2>1. CASE RunScript \/ NextRegion \/ Download \/ Finish \/ Start \/ Stop
    BY <2>1 DEF RunScript, NextRegion, Download, Finish, Start, Stop
  <2>2. CASE Open
    BY <2>2 DEF Open
  <2>3. CASE Write
    BY <2>3 DEF Write
  <2>4. CASE Abort
    BY <2>4 DEF Abort
  <2>5. CASE UNCHANGED filesVars
    BY <2>5 DEF filesVars, files
  <2>6. QED
    BY <2>1, <2>2, <2>3, <2>4, <2>5 DEF FilesNext, ScriptStep
<1>3. QED
  BY <1>1, <1>2, FileTypesHold, PTL DEF FilesSpec

LEMMA ProgressHolds == FilesSpec => []Progress
<1>1. PlatformInit /\ FilesInit => Progress
  BY DEF FilesInit, Progress, Running
<1>2. FileTypes /\ Progress /\ [FilesNext]_filesVars => Progress'
  <2> SUFFICES ASSUME FileTypes, Progress, [FilesNext]_filesVars PROVE Progress'
    OBVIOUS
  <2> USE DEF FileTypes, Progress, Running, Stopped, Done, KindsUsed, asked
  <2>1. CASE RunScript /\ UNCHANGED activated_platform
    BY <2>1 DEF RunScript
  <2>2. CASE NextRegion /\ UNCHANGED activated_platform
    BY <2>2 DEF NextRegion, AllFiles
  <2>3. CASE Download /\ UNCHANGED activated_platform
    BY <2>3 DEF Download
  <2>4. CASE Open /\ UNCHANGED activated_platform
    BY <2>4 DEF Open, AllFiles, Kinds
  <2>5. CASE Write /\ UNCHANGED activated_platform
    BY <2>5 DEF Write, AllFiles, Kinds
  <2>6. CASE Finish /\ UNCHANGED activated_platform
    BY <2>6 DEF Finish
  <2>7. CASE Abort /\ UNCHANGED activated_platform
    BY <2>7 DEF Abort
  <2>8. CASE (Start \/ Stop) /\ UNCHANGED activated_platform
    BY <2>8 DEF Start, Stop
  <2>9. CASE UNCHANGED filesVars
    BY <2>9 DEF filesVars, files
  <2>10. QED
    BY <2>1, <2>2, <2>3, <2>4, <2>5, <2>6, <2>7, <2>8, <2>9
    DEF FilesNext, ScriptStep
<1>3. QED
  BY <1>1, <1>2, FileTypesHold, PTL DEF FilesSpec

(* A run that finishes has installed the lists of every region it was asked *)
(* for, the server's own among them if the first name is known.             *)
THEOREM Installed == FilesSpec => []FinishedMeansInstalled
<1>1. FileTypes /\ Progress => FinishedMeansInstalled
  <2> SUFFICES ASSUME FileTypes, Progress, script = "finished"
               PROVE  FinishedMeansInstalled
    BY DEF FinishedMeansInstalled
  <2>1. \A r \in asked, k \in KindsUsed : file[<<r, k>>] = "complete"
    BY DEF Progress, Done, Running
  <2>2. active_region \in asked \/ (supplied # <<>> /\ Head(supplied) \notin AwsRegions)
    <3>1. CASE supplied = <<>>
      BY <3>1 DEF active_region, asked
    <3>2. CASE supplied # <<>> /\ Head(supplied) \in AwsRegions
      <4>1. Len(supplied) \in Nat /\ Len(supplied) # 0 /\ Head(supplied) = supplied[1]
        BY <3>2 DEF FileTypes
      <4>2. Head(supplied) \in Names(supplied)
        BY <4>1 DEF Names
      <4>3. QED
        BY <3>2, <4>2 DEF active_region, asked
    <3>3. QED
      BY <3>1, <3>2
  <2>3. QED
    BY <2>1, <2>2 DEF FinishedMeansInstalled
<1>2. QED
  BY <1>1, FileTypesHold, ProgressHolds, PTL

-----------------------------------------------------------------------------
(* The panels.                                                             *)
Panels == {"none", "Variable", "ClusterList", "ActiveResources", "AppList", "Utilization",
           "DbxCost"}
Phases == {"idle", "list", "page", "apps", "gaps", "rows", "answered", "failed"}

ServerTypes ==
    /\ activated_platform \in {"AWS_EMR", "AWS_DBX"}
    /\ now \in Nat /\ span \in Spans
    /\ panel \in [Threads -> Panels]
    /\ phase \in [Threads -> Phases]
    /\ range \in [Threads -> Ranges]
    /\ count \in [Threads -> [Clusters -> {0, 1}]]
    /\ gap \in [Threads -> [Clusters -> Int]]
    /\ lost \in [Threads -> SUBSET Clusters]
    /\ marker \in [Threads -> Nat]
    /\ active_state_args \in Nat
    /\ page \in [Threads -> SUBSET Clusters]
    /\ next \in [Threads -> {0} \cup Clusters]
    /\ cluster_cache \subseteq Clusters
    /\ known \in [Threads -> SUBSET Clusters]
    /\ apps \in [Threads -> SUBSET Apps]
    /\ listed \in [Threads -> SUBSET Apps]

(* Where the rows of a request in progress are, with respect to the page it  *)
(* is on: the page and its Marker are below what has been collected.        *)
Paging ==
    \A t \in Threads : panel[t] # "ActiveResources" =>
        /\ phase[t] = "page" => page[t] \cap Rows(t) = {}
        /\ phase[t] = "list" => \A c \in Rows(t) : marker[t] <= c
        /\ phase[t] = "page" /\ next[t] # 0 =>
             \A c \in page[t] \cup Rows(t) : next[t] <= c

PagingInv == ServerTypes /\ Paging

USE PanelAssumption, PageAssumption, HourAssumption

LEMMA LookbackBound ==
  ASSUME NEW start \in Nat, NEW end \in Nat
  PROVE  /\ get_lookback(start, end) \in Nat \ {0}
         /\ start <= end => get_lookback(start, end) >= end - start
<1>1. CASE start > end
  BY <1>1 DEF get_lookback
<1>2. CASE start <= end /\ end - start <= Hour
  BY <1>2 DEF get_lookback
<1>3. CASE start <= end /\ end - start > Hour
  <2> DEFINE x == end - start + Hour - 1
             q == x \div Hour
  <2>1. x \in Nat /\ x >= Hour
    BY <1>3
  <2>2. q \in Int /\ Hour * q <= x /\ x < Hour * q + Hour
    BY <2>1, Z3
  <2>3. q >= 1
    BY <2>1, <2>2
  <2>4. get_lookback(start, end) = Hour * q
    BY <1>3 DEF get_lookback
  <2>5. QED
    BY <2>1, <2>2, <2>3, <2>4
<1>4. QED
  BY <1>1, <1>2, <1>3

LEMMA LabelValues ==
  ASSUME NEW spans, NEW start, NEW end, NEW ids \in get_label_values(spans, start, end)
  PROVE  /\ ids \subseteq DOMAIN spans
         /\ \A x \in DOMAIN spans : Scraped(spans[x], start, end) => x \in ids
BY DEF get_label_values

LEMMA TrackedSpansAre ==
  /\ DOMAIN TrackedSpans = {d \in Tracked : span[d].first <= now}
  /\ \A d \in DOMAIN TrackedSpans : TrackedSpans[d] = span[d]
BY DEF TrackedSpans

(* The applications of an answer of get_app_cluster_ids, and their clusters. *)
LEMMA AppIds ==
  ASSUME NEW r, NEW ids \in get_app_cluster_ids(r)
  PROVE  ids \subseteq Apps /\ {RunsOn[a] : a \in ids} \subseteq Tracked
<1>1. PICK some \in get_label_values(AppSpans, r.start, r.end) :
        ids = {a \in some : TFirst(AppSpans[a], r.start, r.end) # 0}
  BY DEF get_app_cluster_ids
<1>2. some \subseteq DOMAIN AppSpans
  BY LabelValues
<1>3. DOMAIN AppSpans \subseteq Apps
  BY DEF AppSpans
<1>4. ids \subseteq Apps
  BY <1>1, <1>2, <1>3
<1>5. QED
  BY <1>4, PageAssumption

LEMMA SpanTypes ==
  ASSUME ServerTypes, NEW c \in Clusters
  PROVE  /\ span[c].first \in Nat \ {0} /\ span[c].last \in Nat \ {0}
         /\ span[c].first <= span[c].last
BY DEF ServerTypes

LEMMA RangeTypes ==
  ASSUME NEW r \in Ranges
  PROVE  /\ r.start \in Nat \ {0} /\ r.end \in Nat \ {0}
         /\ WindowStart(r.start, r.end) \in Int
         /\ WindowStart(r.start, r.end) <= r.end
         /\ r.start <= r.end => WindowStart(r.start, r.end) <= r.start + 1
<1>1. r.start \in Nat \ {0} /\ r.end \in Nat \ {0}
  OBVIOUS
<1>2. /\ get_lookback(r.start, r.end) \in Nat \ {0}
      /\ r.start <= r.end => get_lookback(r.start, r.end) >= r.end - r.start
  BY <1>1, LookbackBound
<1>3. QED
  BY <1>1, <1>2 DEF WindowStart

(* What the code makes of the first scrape, for a cluster whose query has    *)
(* not failed.                                                              *)
LEMMA FirstScrape ==
  ASSUME ServerTypes, NEW c \in Clusters, NEW r \in Ranges
  PROVE  LET ws == WindowStart(r.start, r.end)
             f  == TFirst(span[c], r.start, r.end)
         IN  /\ f \in Int
             /\ f = 0 \/ f = span[c].first \/ (f = ws /\ span[c].first <= ws)
             /\ Scraped(span[c], ws, r.end) => f = Later(span[c].first, ws) /\ f # 0
BY SpanTypes, RangeTypes DEF TFirst, Later, Scraped

LEMMA NextTypes == \A x \in {0} \cup Clusters : x \in Nat
BY PanelAssumption

LEMMA PageBelow ==
  ASSUME NEW S \in SUBSET Clusters, NEW m \in Nat
  PROVE  /\ Page(S, m) \subseteq {c \in S : c < m}
         /\ ~More(S, m) => Page(S, m) = {c \in S : c < m}
BY DEF Page, More

(* The cases of a step, with what each leaves alone.                       *)
LEMMA ServerSteps ==
  ASSUME [QueryNext]_queryVars
  PROVE  \/ UNCHANGED emrVars
         \/ Tick /\ UNCHANGED <<requests, faults, listing, cluster_cache>>
         \/ Drop /\ DropEmr /\ faults' = faults + 1 /\ UNCHANGED world
         \/ \E t \in Threads :
              /\ activated_platform = "AWS_EMR" /\ UNCHANGED world
              /\ EmrAsk(t) \/ EmrStep(t) \/ Raise(t)
         \/ \E t \in Threads :
              /\ activated_platform = "AWS_DBX" /\ UNCHANGED <<world, listing, cluster_cache>>
              /\ DbxAsk(t) \/ DbxStep(t) \/ RaiseDbx(t)
<1>1. CASE Install \/ StartServer \/ Pass
  BY <1>1 DEF Install, StartServer, Pass
<1>2. CASE Restart
  BY <1>2 DEF Restart
<1>3. CASE \E t \in Threads : EmrRequest(t) \/ EmrProgress(t)
  BY <1>3 DEF EmrRequest, EmrProgress
<1>4. CASE \E t \in Threads : DbxRequest(t) \/ DbxProgress(t)
  BY <1>4 DEF DbxRequest, DbxProgress
<1>5. CASE UNCHANGED queryVars
  BY <1>5 DEF queryVars
<1>6. QED
  BY <1>1, <1>2, <1>3, <1>4, <1>5 DEF QueryNext

(* fill_api_gaps adds rows of clusters that have none.                     *)
GapStep(t, ids, failing, fill) ==
    /\ fill = {c \in ids \ Rows(t) : InRange(range[t], cluster_first(c, range[t], failing))}
    /\ lost' = [lost EXCEPT ![t] = failing]
    /\ count' = [count EXCEPT ![t] = [c \in Clusters |->
                     IF c \in fill THEN 1 ELSE count[t][c]]]
    /\ gap' = [gap EXCEPT ![t] = [c \in Clusters |->
                   IF c \in fill THEN cluster_first(c, range[t], failing) ELSE 0]]

LEMMA GapRows ==
  ASSUME ServerTypes, NEW t \in Threads, FillGaps(t)
  PROVE  \E ids \in get_label_values(TrackedSpans, range[t].start, range[t].end),
            failing \in SUBSET Clusters, fill \in SUBSET Clusters :
              GapStep(t, ids, failing, fill)
<1> DEFINE r == range[t]
<1>1. PICK ids \in get_label_values(TrackedSpans, r.start, r.end), failing \in SUBSET Clusters :
        LET fill == {c \in NotListed(t, ids) : InRange(r, cluster_first(c, r, failing))}
        IN  /\ lost' = [lost EXCEPT ![t] = failing]
            /\ count' = [count EXCEPT ![t] = [c \in Clusters |->
                            count[t][c] + IF c \in fill THEN 1 ELSE 0]]
            /\ gap' = [gap EXCEPT ![t] = [c \in Clusters |->
                          IF c \in fill THEN cluster_first(c, r, failing) ELSE 0]]
  BY DEF FillGaps
<1> DEFINE fill == {c \in ids \ Rows(t) : InRange(r, cluster_first(c, r, failing))}
<1>2. ids \subseteq Clusters
  BY LabelValues, TrackedSpansAre
<1>3. fill \in SUBSET Clusters
  BY <1>2
<1>4. [c \in Clusters |-> count[t][c] + IF c \in fill THEN 1 ELSE 0]
        = [c \in Clusters |-> IF c \in fill THEN 1 ELSE count[t][c]]
  <2>1. \A c \in Clusters : count[t][c] \in {0, 1} /\ (c \in fill => count[t][c] = 0)
    BY DEF Rows, ServerTypes
  <2>2. QED
    BY <2>1
<1>5. gap' = [gap EXCEPT ![t] = [c \in Clusters |->
                IF c \in fill THEN cluster_first(c, r, failing) ELSE 0]]
  BY <1>1 DEF NotListed
<1>6. count' = [count EXCEPT ![t] = [c \in Clusters |-> IF c \in fill THEN 1 ELSE count[t][c]]]
  BY <1>1, <1>4 DEF NotListed
<1>7. GapStep(t, ids, failing, fill)
  BY <1>1, <1>5, <1>6 DEF GapStep
<1>8. QED
  BY <1>3, <1>7

(* What that leaves of the types.                                          *)
LEMMA GapTypes ==
  ASSUME ServerTypes, NEW t \in Threads, FillGaps(t)
  PROVE  /\ phase[t] = "gaps" /\ phase' = [phase EXCEPT ![t] = "rows"]
         /\ count' \in [Threads -> [Clusters -> {0, 1}]]
         /\ gap' \in [Threads -> [Clusters -> Int]]
         /\ lost' \in [Threads -> SUBSET Clusters]
         /\ \A u \in Threads \ {t} : count'[u] = count[u] /\ gap'[u] = gap[u] /\ lost'[u] = lost[u]
         /\ UNCHANGED <<panel, range>>
<1>1. PICK ids \in get_label_values(TrackedSpans, range[t].start, range[t].end),
           failing \in SUBSET Clusters, fill \in SUBSET Clusters : GapStep(t, ids, failing, fill)
  BY GapRows
<1>2. count' \in [Threads -> [Clusters -> {0, 1}]]
  BY <1>1 DEF ServerTypes, GapStep
<1>3. lost' \in [Threads -> SUBSET Clusters]
  BY <1>1 DEF ServerTypes, GapStep
<1>4. \A c \in Clusters : cluster_first(c, range[t], failing) \in Int
  BY FirstScrape DEF cluster_first, ServerTypes
<1>5. gap' \in [Threads -> [Clusters -> Int]]
  BY <1>1, <1>4 DEF ServerTypes, GapStep
<1>6. \A u \in Threads \ {t} : count'[u] = count[u] /\ gap'[u] = gap[u] /\ lost'[u] = lost[u]
  BY <1>1 DEF ServerTypes, GapStep
<1>7. /\ phase[t] = "gaps" /\ phase' = [phase EXCEPT ![t] = "rows"]
      /\ UNCHANGED <<panel, range>>
  BY DEF FillGaps, Goto
<1>8. QED
  BY <1>2, <1>3, <1>5, <1>6, <1>7

(* What a request that fails leaves.                                       *)
LEMMA DiscardTypes ==
  ASSUME ServerTypes, NEW t \in Threads, Discard(t)
  PROVE  /\ phase' = [phase EXCEPT ![t] = "failed"]
         /\ count' \in [Threads -> [Clusters -> {0, 1}]]
         /\ gap' \in [Threads -> [Clusters -> Int]]
         /\ lost' \in [Threads -> SUBSET Clusters]
         /\ \A u \in Threads \ {t} : Rows(u)' = Rows(u)
         /\ UNCHANGED <<panel, range>>
<1>1. NoRows \in [Clusters -> {0, 1}] /\ NoRows \in [Clusters -> Int]
  BY DEF NoRows
<1>2. /\ phase' = [phase EXCEPT ![t] = "failed"] /\ UNCHANGED <<panel, range>>
      /\ count' = [count EXCEPT ![t] = NoRows] /\ gap' = [gap EXCEPT ![t] = NoRows]
      /\ lost' = [lost EXCEPT ![t] = {}]
  BY DEF Discard
<1>3. QED
  BY <1>1, <1>2 DEF ServerTypes, Rows

LEMMA NoListingTypes ==
  ASSUME ServerTypes, NEW t \in Threads, NoListing({t})
  PROVE  /\ marker' \in [Threads -> Nat] /\ page' \in [Threads -> SUBSET Clusters]
         /\ next' \in [Threads -> {0} \cup Clusters] /\ known' \in [Threads -> SUBSET Clusters]
         /\ apps' \in [Threads -> SUBSET Apps] /\ listed' \in [Threads -> SUBSET Apps]
         /\ \A u \in Threads \ {t} :
              /\ marker'[u] = marker[u] /\ page'[u] = page[u] /\ next'[u] = next[u]
              /\ known'[u] = known[u] /\ apps'[u] = apps[u] /\ listed'[u] = listed[u]
BY DEF NoListing, ServerTypes

LEMMA RaisesPaging ==
  ASSUME PagingInv, NEW t \in Threads, Discard(t), NoListing({t}),
         UNCHANGED world, UNCHANGED <<active_state_args, cluster_cache>>
  PROVE  PagingInv'
<1> USE DEF PagingInv
<1>1. ServerTypes'
  BY DiscardTypes, NoListingTypes DEF ServerTypes, world, Phases
<1>2. ASSUME NEW u \in Threads
      PROVE  \/ phase'[u] = "failed"
             \/ /\ panel'[u] = panel[u] /\ phase'[u] = phase[u] /\ Rows(u)' = Rows(u)
                /\ page'[u] = page[u] /\ marker'[u] = marker[u] /\ next'[u] = next[u]
  <2>1. CASE u = t
    BY <2>1, DiscardTypes DEF ServerTypes
  <2>2. CASE u # t
    <3>1. Rows(u)' = Rows(u) /\ panel' = panel /\ phase'[u] = phase[u]
      BY <2>2, DiscardTypes DEF ServerTypes
    <3>2. page'[u] = page[u] /\ marker'[u] = marker[u] /\ next'[u] = next[u]
      BY <2>2, NoListingTypes
    <3>3. QED
      BY <3>1, <3>2
  <2>3. QED
    BY <2>1, <2>2
<1>3. Paging'
  BY <1>2 DEF Paging
<1>4. QED
  BY <1>1, <1>3

LEMMA DiscardPaging ==
  ASSUME PagingInv, NEW t \in Threads, Discard(t),
         UNCHANGED world, UNCHANGED listing, UNCHANGED cluster_cache
  PROVE  PagingInv'
<1> USE DEF PagingInv, listing, paging, appList
<1>1. ServerTypes'
  BY DiscardTypes DEF ServerTypes, world, Phases
<1>2. ASSUME NEW u \in Threads
      PROVE  \/ phase'[u] = "failed"
             \/ /\ panel'[u] = panel[u] /\ phase'[u] = phase[u] /\ Rows(u)' = Rows(u)
                /\ page'[u] = page[u] /\ marker'[u] = marker[u] /\ next'[u] = next[u]
  BY DiscardTypes DEF ServerTypes
<1>3. Paging'
  BY <1>2 DEF Paging
<1>4. QED
  BY <1>1, <1>3

LEMMA PagingStep == PagingInv /\ [QueryNext]_queryVars => PagingInv'
<1> SUFFICES ASSUME PagingInv, [QueryNext]_queryVars PROVE PagingInv'
  OBVIOUS
<1> USE DEF PagingInv, ServerTypes, Paging, Rows, Panels, Phases
<1>1. CASE UNCHANGED emrVars
  BY <1>1 DEF emrVars, baseVars, world, requests, listing, paging, appList
<1>2. CASE Tick /\ UNCHANGED <<requests, faults, listing, cluster_cache>>
  BY <1>2 DEF Tick, requests, listing, paging, appList
<1>3. CASE Drop /\ DropEmr /\ faults' = faults + 1 /\ UNCHANGED world
  <2>1. AnyRange \in Ranges
    BY DEF AnyRange
  <2>2. QED
    BY <1>3, <2>1 DEF Drop, DropEmr, NoListing, world, NoRows
<1>4. ASSUME NEW t \in Threads, UNCHANGED world, EmrAsk(t) \/ EmrStep(t) \/ Raise(t)
      PROVE  PagingInv'
  <2> USE <1>4 DEF world
  <2>1. CASE \E p \in {"Variable", "ClusterList", "ActiveResources"} : BeginListing(t, p)
    BY <2>1 DEF BeginListing, Begin, NoRows, Rest, Active
  <2>2. CASE AskAppList(t)
    <3>1. PICK ids \in get_app_cluster_ids(range'[t]) : apps' = [apps EXCEPT ![t] = ids]
      BY <2>2 DEF AskAppList
    <3>2. apps' \in [Threads -> SUBSET Apps]
      BY <3>1, AppIds
    <3>3. QED
      BY <2>2, <3>2 DEF AskAppList, Begin, NoRows, Rest
  <2>3. CASE AskUtilization(t)
    <3>1. PICK ids \in get_app_cluster_ids(range'[t]) :
            page' = [page EXCEPT ![t] = {RunsOn[a] : a \in ids}]
      BY <2>3 DEF AskUtilization
    <3>2. {RunsOn[a] : a \in ids} \in SUBSET Clusters
      BY AppIds
    <3>3. page' \in [Threads -> SUBSET Clusters]
      BY <3>1, <3>2
    <3>4. QED
      BY <2>3, <3>3 DEF AskUtilization, Begin, NoRows, Rest
  <2>4. CASE ListPage(t)
    <3> DEFINE S == Matching(t)
               m == ArgsMarker(t)
    <3>1. S \in SUBSET Clusters /\ m \in Nat
      BY DEF Matching, Active, Covered, Launched, ArgsMarker
    <3>2. Page(S, m) \subseteq {c \in S : c < m}
      BY <3>1, PageBelow
    <3>3. /\ phase' = [phase EXCEPT ![t] = "page"] /\ phase[t] = "list"
          /\ page' = [page EXCEPT ![t] = Page(S, m)]
          /\ \/ next' = [next EXCEPT ![t] = 0]
             \/ \E c \in Page(S, m) : /\ \A d \in Page(S, m) : c <= d
                                    /\ next' = [next EXCEPT ![t] = c]
          /\ UNCHANGED <<panel, range, count, gap, lost, marker, active_state_args,
                         known, apps, listed, cluster_cache>>
      BY <2>4 DEF ListPage, Goto, appList
    <3> HIDE DEF S
    <3>4. panel[t] # "ActiveResources" => m = marker[t]
      BY DEF ArgsMarker
    <3> HIDE DEF m
    <3>5. ServerTypes'
      BY <3>1, <3>2, <3>3
    <3>6. Paging'
      <4> SUFFICES ASSUME NEW u \in Threads, panel[u] # "ActiveResources"
                   PROVE  (/\ phase[u] = "page" => page[u] \cap Rows(u) = {}
                           /\ phase[u] = "list" => \A c \in Rows(u) : marker[u] <= c
                           /\ phase[u] = "page" /\ next[u] # 0 =>
                                \A c \in page[u] \cup Rows(u) : next[u] <= c)'
        BY <3>3
      <4>1. CASE u # t
        BY <4>1, <3>3
      <4>2. CASE u = t
        <5>1. \A c \in Rows(t) : c \in Clusters /\ m <= c
          BY <4>2, <3>3, <3>4
        <5>2. page'[t] = Page(S, m) /\ \A c \in Page(S, m) : c \in Clusters /\ c < m
          BY <3>1, <3>2, <3>3
        <5> HIDE DEF Rows, ServerTypes, Paging
        <5>3. page'[t] \cap Rows(t) = {}
          <6>1. \A c \in Page(S, m) : ~(c \in Rows(t))
            <7> SUFFICES ASSUME NEW c \in Page(S, m), c \in Rows(t) PROVE FALSE
              OBVIOUS
            <7>1. c \in Nat /\ c < m /\ m <= c /\ m \in Nat
              BY <3>1, <5>1, <5>2
            <7>2. QED
              BY <7>1
          <6>2. QED
            BY <5>2, <6>1
        <5>4. next'[t] # 0 => \A c \in page'[t] \cup Rows(t) : next'[t] <= c
          <6>1. CASE next' = [next EXCEPT ![t] = 0]
            BY <6>1 DEF ServerTypes
          <6>2. ASSUME NEW e \in Page(S, m), \A d \in Page(S, m) : e <= d,
                       next' = [next EXCEPT ![t] = e]
                PROVE  \A c \in page'[t] \cup Rows(t) : next'[t] <= c
            <7>1. next'[t] = e
              BY <6>2 DEF ServerTypes
            <7>2. ASSUME NEW c \in Rows(t) PROVE e <= c
              <8>1. e \in Nat /\ c \in Nat /\ m \in Nat /\ e < m /\ m <= c
                BY <3>1, <5>1, <5>2
              <8>2. QED
                BY <8>1
            <7>3. QED
              BY <7>1, <7>2, <6>2, <5>2
          <6>3. QED
            BY <3>3, <6>1, <6>2
        <5> USE DEF Rows, ServerTypes, Paging
        <5>5. QED
          BY <3>3, <4>2, <5>3, <5>4
      <4>3. QED
        BY <4>1, <4>2
    <3>7. QED
      BY <3>5, <3>6
  <2>5. CASE YieldPage(t)
    <3>1. /\ page[t] # {} /\ phase[t] = "page" /\ panel[t] = "Variable"
          /\ page' = [page EXCEPT ![t] = page[t] \ page[t]]
          /\ count' = [count EXCEPT ![t] = WithRows(t, page[t])]
          /\ UNCHANGED <<phase, panel, range, gap, lost, marker, active_state_args, next,
                         known, apps, listed, cluster_cache>>
      BY <2>5 DEF YieldPage, Take, appList
    <3>2. WithRows(t, page[t]) = [c \in Clusters |-> IF c \in page[t] THEN 1 ELSE count[t][c]]
      <4>1. \A c \in page[t] : count[t][c] = 0
        <5>1. page[t] \cap Rows(t) = {}
          BY <3>1
        <5>2. \A c \in page[t] : c \in Clusters /\ ~(count[t][c] > 0)
          BY <5>1
        <5>3. QED
          BY <5>2
      <4>2. QED
        BY <3>1, <4>1 DEF WithRows
    <3>3. ServerTypes'
      BY <3>1, <3>2
    <3>4. Rows(t)' = Rows(t) \cup page[t] /\ \A u \in Threads \ {t} : Rows(u)' = Rows(u)
      BY <3>1, <3>2
    <3>5. page'[t] = {} /\ \A u \in Threads \ {t} : page'[u] = page[u]
      BY <3>1
    <3> HIDE DEF Rows
    <3>6. Paging'
      BY <3>1, <3>4, <3>5
    <3>7. QED
      BY <3>3, <3>6
  <2>6. CASE YieldListed(t)
    <3>1. PICK bad \in SUBSET page[t] :
            /\ lost' = [lost EXCEPT ![t] = @ \cup bad]
            /\ page' = [page EXCEPT ![t] = {}]
            /\ count' = [count EXCEPT ![t] = WithRows(t, page[t] \ bad)]
      BY <2>6 DEF YieldListed
    <3>2. /\ panel[t] = "ActiveResources"
          /\ UNCHANGED <<phase, panel, range, gap, marker, active_state_args, next, known,
                         apps, listed, cluster_cache>>
      BY <2>6 DEF YieldListed, appList
    <3>3. WithRows(t, page[t] \ bad) \in [Clusters -> {0, 1}]
      BY <3>2 DEF WithRows
    <3>4. ServerTypes'
      BY <3>1, <3>2, <3>3
    <3>5. \A u \in Threads \ {t} : Rows(u)' = Rows(u) /\ page'[u] = page[u]
      BY <3>1
    <3> HIDE DEF Rows
    <3>6. Paging'
      <4>1. ASSUME NEW u \in Threads \ {t}
            PROVE  /\ Rows(u)' = Rows(u) /\ page'[u] = page[u] /\ panel'[u] = panel[u]
                   /\ phase'[u] = phase[u] /\ marker'[u] = marker[u] /\ next'[u] = next[u]
        BY <3>2, <3>5
      <4>2. panel'[t] = "ActiveResources"
        BY <3>2
      <4> HIDE DEF ServerTypes
      <4>3. QED
        BY <4>1, <4>2
    <3>7. QED
      BY <3>4, <3>6
  <2>7. CASE DescribeCluster(t)
    BY <2>7 DEF DescribeCluster, Describe, Take, WithRows, appList
  <2>8. CASE DescribeApp(t)
    <3>1. cluster_cache' \subseteq Clusters
      <4>1. PICK a \in apps[t] : Describe(RunsOn[a])
        BY <2>8 DEF DescribeApp
      <4>2. RunsOn[a] \in Clusters
        BY <4>1
      <4>3. QED
        BY <4>1, <4>2 DEF Describe
    <3>2. UNCHANGED <<requests, paging>>
      BY <2>8 DEF DescribeApp
    <3>3. apps' \in [Threads -> SUBSET Apps] /\ listed' \in [Threads -> SUBSET Apps]
      BY <2>8 DEF DescribeApp
    <3>4. QED
      BY <3>1, <3>2, <3>3 DEF requests, paging
  <2>9. CASE DescribeRaises(t)
    BY <2>9, RaisesPaging DEF DescribeRaises
  <2>10. CASE NextPage(t)
    <3>1. AfterListing(t) \in {"answered", "gaps", "rows"}
      BY DEF AfterListing
    <3>2. UNCHANGED <<panel, range, count, gap, lost, page, next, known, apps, listed,
                      cluster_cache>>
      BY <2>10 DEF NextPage, appList
    <3> HIDE DEF Rows
    <3>3. \A u \in Threads : Rows(u)' = Rows(u)
      BY <3>2 DEF Rows
    <3>4. CASE next[t] = 0
      <4>1. /\ phase' = [phase EXCEPT ![t] = AfterListing(t)]
            /\ UNCHANGED <<marker, active_state_args>>
        BY <2>10, <3>4 DEF NextPage
      <4>2. ServerTypes'
        BY <3>1, <3>2, <4>1
      <4>3. Paging'
        BY <3>1, <3>2, <3>3, <4>1
      <4>4. QED
        BY <4>2, <4>3
    <3>5. CASE next[t] # 0
      <4>1. /\ phase[t] = "page" /\ phase' = [phase EXCEPT ![t] = "list"]
            /\ IF panel[t] = "ActiveResources"
               THEN active_state_args' = next[t] /\ UNCHANGED marker
               ELSE marker' = [marker EXCEPT ![t] = next[t]] /\ UNCHANGED active_state_args
        BY <2>10, <3>5 DEF NextPage
      <4>2. next[t] \in Nat
        <5> HIDE DEF Paging
        <5>1. next[t] \in {0} \cup Clusters
          OBVIOUS
        <5> HIDE DEF ServerTypes
        <5>2. QED
          BY <5>1, NextTypes
      <4>3. ServerTypes'
        BY <3>2, <4>1, <4>2
      <4>4. Paging'
        <5> SUFFICES ASSUME NEW u \in Threads, panel[u] # "ActiveResources"
                     PROVE  (/\ phase[u] = "page" => page[u] \cap Rows(u) = {}
                             /\ phase[u] = "list" => \A c \in Rows(u) : marker[u] <= c
                             /\ phase[u] = "page" /\ next[u] # 0 =>
                                  \A c \in page[u] \cup Rows(u) : next[u] <= c)'
          BY <3>2
        <5>1. CASE u # t
          BY <5>1, <3>2, <3>3, <4>1
        <5>2. CASE u = t
          <6>1. phase'[t] = "list" /\ marker'[t] = next[t]
            BY <4>1, <5>2
          <6>2. \A c \in Rows(t) : next[t] <= c
            BY <3>5, <4>1, <5>2
          <6>3. QED
            BY <3>3, <5>2, <6>1, <6>2
        <5>3. QED
          BY <5>1, <5>2
      <4>5. QED
        BY <4>3, <4>4
    <3>6. QED
      BY <3>4, <3>5
  <2>11. CASE FillEmrGaps(t)
    <3>1. FillGaps(t)
      BY <2>11 DEF FillEmrGaps
    <3>2. /\ phase[t] = "gaps" /\ phase' = [phase EXCEPT ![t] = "rows"]
          /\ count' \in [Threads -> [Clusters -> {0, 1}]]
          /\ gap' \in [Threads -> [Clusters -> Int]]
          /\ lost' \in [Threads -> SUBSET Clusters]
          /\ \A u \in Threads \ {t} : count'[u] = count[u]
          /\ UNCHANGED <<panel, range>>
      BY <3>1, GapTypes
    <3>3. UNCHANGED <<marker, active_state_args, page, next, known, apps, listed,
                      cluster_cache>>
      BY <2>11 DEF FillEmrGaps, listing, paging, appList
    <3> HIDE DEF Rows
    <3>4. ServerTypes'
      BY <3>2, <3>3
    <3>5. \A u \in Threads \ {t} : Rows(u)' = Rows(u)
      BY <3>2 DEF Rows
    <3>6. Paging'
      BY <3>2, <3>3, <3>5
    <3>7. QED
      BY <3>4, <3>6
  <2>12. CASE Answer(t)
    BY <2>12 DEF Answer, Goto, listing, paging, appList
  <2>13. CASE AnswerApps(t)
    BY <2>13 DEF AnswerApps, Goto, listing, paging, appList
  <2>14. CASE Raise(t)
    BY <2>14, RaisesPaging DEF Raise, Fail
  <2>15. QED
    BY <2>1, <2>2, <2>3, <2>4, <2>5, <2>6, <2>7, <2>8, <2>9, <2>10, <2>11, <2>12, <2>13, <2>14
    DEF EmrAsk, EmrStep
<1>5. ASSUME NEW t \in Threads, UNCHANGED <<world, listing, cluster_cache>>,
             DbxAsk(t) \/ DbxStep(t) \/ RaiseDbx(t)
      PROVE  PagingInv'
  <2> USE <1>5 DEF world, listing, paging, appList
  <2>1. CASE AskCost(t)
    BY <2>1 DEF AskCost, Begin, NoRows
  <2>2. CASE AskDbxList(t)
    BY <2>2 DEF AskDbxList, Begin, NoRows
  <2>3. CASE FilterClusters(t)
    BY <2>3 DEF FilterClusters, Goto
  <2>4. CASE FillDbxGaps(t)
    <3>1. FillGaps(t)
      BY <2>4 DEF FillDbxGaps
    <3>2. /\ phase[t] = "gaps" /\ phase' = [phase EXCEPT ![t] = "rows"]
          /\ count' \in [Threads -> [Clusters -> {0, 1}]]
          /\ gap' \in [Threads -> [Clusters -> Int]]
          /\ lost' \in [Threads -> SUBSET Clusters]
          /\ \A u \in Threads \ {t} : count'[u] = count[u]
          /\ UNCHANGED <<panel, range>>
      BY <3>1, GapTypes
    <3>3. UNCHANGED <<marker, active_state_args, page, next, known, apps, listed,
                      cluster_cache>>
      BY <2>4 DEF FillDbxGaps
    <3> HIDE DEF Rows
    <3>4. ServerTypes'
      BY <3>2, <3>3
    <3>5. \A u \in Threads \ {t} : Rows(u)' = Rows(u)
      BY <3>2 DEF Rows
    <3>6. Paging'
      BY <3>2, <3>3, <3>5
    <3>7. QED
      BY <3>4, <3>6
  <2>5. CASE AnswerCosts(t)
    BY <2>5 DEF AnswerCosts, Goto
  <2>6. CASE \E c \in Clusters : PriceCluster(t, c)
    BY <2>6 DEF PriceCluster
  <2>7. CASE \E c \in Clusters : UnsupportedRuntime(t, c)
    BY <2>7, DiscardPaging DEF UnsupportedRuntime
  <2>8. CASE RaiseDbx(t)
    BY <2>8, DiscardPaging DEF RaiseDbx, Fail
  <2>9. QED
    BY <2>1, <2>2, <2>3, <2>4, <2>5, <2>6, <2>7, <2>8 DEF DbxAsk, DbxStep
<1>6. QED
  BY <1>1, <1>2, <1>3, <1>4, <1>5, ServerSteps

THEOREM PagingHolds == QuerySpec => []PagingInv
<1>1. QueryInit => PagingInv
  <2> SUFFICES ASSUME QueryInit PROVE PagingInv
    OBVIOUS
  <2> USE DEF QueryInit, WorldInit, PlatformInit, RequestInit, EmrInit, NoRows,
              PagingInv, ServerTypes, Panels, Phases
  <2>1. AnyRange \in Ranges
    BY DEF AnyRange
  <2>2. ServerTypes
    BY <2>1
  <2>3. Paging
    BY DEF Paging
  <2>4. QED
    BY <2>2, <2>3
<1>2. QED
  BY <1>1, PagingStep, PTL DEF QuerySpec

(* No answer shows a cluster twice: the rows of a request are of clusters    *)
(* above the Marker, the page below it, and fill_api_gaps adds only those    *)
(* without a row (cloud.py:92-105, tsdb.py:308-316).                         *)
THEOREM OneRowEach == QuerySpec => []RowsOnce
<1>1. PagingInv => RowsOnce
  <2> SUFFICES ASSUME PagingInv, NEW t \in Threads, NEW c \in Clusters
               PROVE  count[t][c] <= 1
    BY DEF RowsOnce
  <2>1. count[t][c] \in {0, 1}
    BY DEF PagingInv, ServerTypes
  <2>2. QED
    BY <2>1
<1>2. QED
  BY <1>1, PagingHolds, PTL

(* The server's own files are those of PriceFiles, so that its theorems hold *)
(* of the server, too: no step of a panel touches them.                      *)
LEMMA ServerFiles == QuerySpec => FilesSpec
<1>1. QueryInit => PlatformInit /\ FilesInit
  BY DEF QueryInit, WorldInit
<1>2. [QueryNext]_queryVars => [FilesNext]_filesVars
  <2> SUFFICES ASSUME [QueryNext]_queryVars PROVE [FilesNext]_filesVars
    OBVIOUS
  <2> USE DEF filesVars, world
  <2>1. CASE Install
    BY <2>1 DEF Install, FilesNext, emrVars, baseVars
  <2>2. CASE StartServer
    BY <2>2 DEF StartServer, FilesNext, emrVars, baseVars
  <2>3. CASE Pass
    BY <2>3 DEF Pass, Tick
  <2>4. CASE Restart
    BY <2>4 DEF Restart, FilesNext
  <2>5. CASE \E t \in Threads : EmrRequest(t) \/ EmrProgress(t) \/ DbxRequest(t) \/ DbxProgress(t)
    BY <2>5 DEF EmrRequest, EmrProgress, DbxRequest, DbxProgress
  <2>6. CASE UNCHANGED queryVars
    BY <2>6 DEF queryVars, emrVars, baseVars
  <2>7. QED
    BY <2>1, <2>2, <2>3, <2>4, <2>5, <2>6 DEF QueryNext
<1>3. QED
  BY <1>1, <1>2, PTL DEF QuerySpec, FilesSpec

(* A run of the script that finishes has installed every list it was asked   *)
(* for, in the server as a whole (fetch_cost_info.py:64-83).                  *)
THEOREM ServerInstalled == QuerySpec => []FinishedMeansInstalled
BY ServerFiles, Installed, PTL

(* Only a file whose writing was cut short is unreadable, in the server as a  *)
(* whole (fetch_cost_info.py:49-52).                                          *)
THEOREM ServerTorn == QuerySpec => []TornOnlyByWriting
BY ServerFiles, TornByWriting, PTL
=============================================================================
