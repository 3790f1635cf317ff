--------------------------- MODULE PanelListProofs --------------------------
(***************************************************************************)
(* Proofs about what the panels of QueryServer answer: each property is a   *)
(* part of ListInv, which says of every request how far it has come, for    *)
(* any clusters, spans, ranges, page size, lookback hour and threads.  The  *)
(* second half is about the costs of Databricks clusters, for any nodes,    *)
(* labels and price lists.                                                  *)
(***************************************************************************)
EXTENDS QueryServerProofs

Wanted(t)  == Covered \cap Launched(range[t])
Sampled(t) == {a \in Apps : Scraped(span[RunsOn[a]], range[t].start + 1, range[t].end)}
Ran(t)     == {RunsOn[a] : a \in Sampled(t)}
InTime(t)  == {c \in Tracked \ lost[t] :
                   range[t].start < span[c].first /\ span[c].first <= range[t].end}

(* No request is for the future.                                           *)
PastOnly(t) == phase[t] # "idle" => range[t].end <= now

GapTrue(t) ==
    \A c \in Clusters : gap[t][c] # 0 =>
        \/ gap[t][c] = span[c].first
        \/ WindowStart(range[t].start, range[t].end) >= range[t].start

TrackedIn(t) ==
    panel[t] = "ClusterList" /\ phase[t] \in {"rows", "answered"} => InTime(t) \subseteq Rows(t)

(* What the API covers is in the rows, on the page, or on a later page.    *)
CoveredIn(t) ==
    panel[t] \in {"Variable", "ClusterList"} =>
        /\ phase[t] = "list" /\ activated_platform = "AWS_EMR" =>
             \A c \in Wanted(t) : marker[t] <= c => c \in Rows(t)
        /\ phase[t] = "page" =>
             \A c \in Wanted(t) : next[t] <= c => c \in page[t] \cup Rows(t)
        /\ phase[t] \in {"gaps", "rows", "answered"} => Wanted(t) \subseteq Rows(t)

(* Only an application list goes through applications.                     *)
AppPhase(t) == phase[t] = "apps" => panel[t] = "AppList"

(* What has been sampled is in the answer, or still to be described.       *)
WholeList(t) ==
    panel[t] = "AppList" =>
        /\ phase[t] \notin {"list", "page", "gaps", "rows"}
        /\ phase[t] = "apps" => Sampled(t) \subseteq apps[t] \cup listed[t]
        /\ phase[t] = "answered" => Sampled(t) \subseteq listed[t]

WholeTotal(t) ==
    panel[t] = "Utilization" =>
        /\ phase[t] \notin {"list", "gaps"}
        /\ phase[t] = "page" => next[t] = 0 /\ Ran(t) \subseteq page[t] \cup Rows(t)
        /\ phase[t] \in {"rows", "answered"} => Ran(t) \subseteq Rows(t)

WholeIn(t) == WholeList(t) /\ WholeTotal(t)

ActiveIn(t) ==
    panel[t] = "ActiveResources" /\ phase[t] \notin {"idle", "failed"} =>
        /\ activated_platform = "AWS_EMR" /\ phase[t] # "gaps"
        /\ \A c \in known[t] : span[c].first <= now
        /\ active_state_args = NoMarker =>
             /\ phase[t] = "page" /\ next[t] = 0 =>
                  known[t] \cap Active \subseteq page[t] \cup Rows(t) \cup lost[t]
             /\ phase[t] \in {"rows", "answered"} =>
                  known[t] \cap Active \subseteq Rows(t) \cup lost[t]

Listed(t) ==
    /\ PastOnly(t) /\ AppPhase(t) /\ GapTrue(t) /\ TrackedIn(t)
    /\ CoveredIn(t) /\ WholeIn(t) /\ ActiveIn(t)
ListInv   == \A t \in Threads : Listed(t)

-----------------------------------------------------------------------------
(* What a step of any thread, the clock or a restart may do to the request  *)
(* of thread u.                                                             *)
OthersStep(u) ==
    /\ UNCHANGED <<activated_platform, span>> /\ now' \in {now, now + 1}
    /\ panel'[u] = panel[u] /\ phase'[u] = phase[u] /\ range'[u] = range[u]
    /\ count'[u] = count[u] /\ gap'[u] = gap[u] /\ lost'[u] = lost[u]
    /\ marker'[u] = marker[u] /\ page'[u] = page[u] /\ next'[u] = next[u]
    /\ known'[u] = known[u] /\ apps'[u] = apps[u] /\ listed'[u] = listed[u]
    /\ active_state_args' = NoMarker => active_state_args = NoMarker

EndsStep(u) ==
    /\ UNCHANGED <<activated_platform, span>>
    /\ gap'[u] = NoRows
    /\ \/ phase'[u] = "idle"
       \/ phase'[u] = "failed" /\ phase[u] # "idle" /\ range'[u] = range[u] /\ now' = now

OwnEmr(u) ==
    /\ activated_platform = "AWS_EMR" /\ UNCHANGED world
    /\ \/ \E p \in {"Variable", "ClusterList", "ActiveResources"} : BeginListing(u, p)
       \/ AskAppList(u) \/ AskUtilization(u) \/ ListPage(u) \/ YieldPage(u) \/ YieldListed(u)
       \/ DescribeCluster(u) \/ DescribeApp(u) \/ NextPage(u) \/ FillEmrGaps(u)
       \/ AnswerApps(u) \/ Answer(u)

OwnDbx(u) ==
    /\ activated_platform = "AWS_DBX" /\ UNCHANGED <<world, listing, cluster_cache>>
    /\ AskCost(u) \/ AskDbxList(u) \/ FilterClusters(u) \/ FillDbxGaps(u) \/ AnswerCosts(u)

LEMMA ThreadSteps ==
  ASSUME PagingInv, [QueryNext]_queryVars, NEW u \in Threads
  PROVE  OthersStep(u) \/ EndsStep(u) \/ OwnEmr(u) \/ OwnDbx(u)
<1> USE DEF PagingInv, ServerTypes
<1>1. CASE UNCHANGED emrVars
  BY <1>1 DEF emrVars, baseVars, world, requests, listing, paging, appList, OthersStep
<1>2. CASE Tick /\ UNCHANGED <<requests, faults, listing, cluster_cache>>
  BY <1>2 DEF Tick, requests, listing, paging, appList, OthersStep
<1>3. CASE Drop /\ DropEmr /\ faults' = faults + 1 /\ UNCHANGED world
  BY <1>3 DEF Drop, world, EndsStep, NoRows
<1>4. ASSUME NEW t \in Threads, activated_platform = "AWS_EMR", UNCHANGED world,
             EmrAsk(t) \/ EmrStep(t) \/ Raise(t)
      PROVE  OthersStep(u) \/ EndsStep(u) \/ OwnEmr(u)
  <2> USE DEF world
  <2>1. CASE u # t
    <3>1. CASE EmrAsk(t)
      BY <3>1, <2>1, <1>4 DEF EmrAsk, BeginListing, AskAppList, AskUtilization, Begin, OthersStep
    <3>2. CASE ListPage(t)
      BY <3>2, <2>1, <1>4 DEF ListPage, Goto, appList, OthersStep
    <3>3. CASE YieldPage(t)
      BY <3>3, <2>1, <1>4 DEF YieldPage, Take, appList, OthersStep
    <3>4. CASE DescribeCluster(t)
      BY <3>4, <2>1, <1>4 DEF DescribeCluster, Take, appList, OthersStep
    <3>5. CASE DescribeRaises(t) \/ Raise(t)
      BY <3>5, <2>1, <1>4 DEF DescribeRaises, Raise, Fail, Discard, NoListing, OthersStep
    <3>6. CASE NextPage(t)
      <4>1. \A c \in {0} \cup Clusters : c = NoMarker => c = 0
        BY PageAssumption, PanelAssumption
      <4>2. next[t] # 0 => next[t] # NoMarker
        BY <4>1
      <4>3. QED
        BY <3>6, <2>1, <1>4, <4>2 DEF NextPage, appList, OthersStep
    <3>7. CASE FillEmrGaps(t)
      BY <3>7, <2>1, <1>4, GapTypes DEF FillEmrGaps, listing, paging, appList, OthersStep
    <3>8. CASE Answer(t)
      BY <3>8, <2>1, <1>4 DEF Answer, Goto, listing, paging, appList, OthersStep
    <3>9. CASE YieldListed(t)
      BY <3>9, <2>1, <1>4 DEF YieldListed, appList, OthersStep
    <3>10. CASE DescribeApp(t)
      BY <3>10, <2>1, <1>4 DEF DescribeApp, requests, paging, OthersStep
    <3>11. CASE AnswerApps(t)
      BY <3>11, <2>1, <1>4 DEF AnswerApps, Goto, listing, paging, appList, OthersStep
    <3>12. QED
      BY <1>4, <3>1, <3>2, <3>3, <3>4, <3>5, <3>6, <3>7, <3>8, <3>9, <3>10, <3>11 DEF EmrStep
  <2>2. CASE u = t
    <3>1. CASE DescribeRaises(t) \/ Raise(t)
      BY <3>1, <2>2, <1>4 DEF DescribeRaises, Raise, Fail, Discard, EndsStep, Rest
    <3>2. QED
      BY <2>2, <3>1, <1>4 DEF EmrAsk, EmrStep, OwnEmr
  <2>3. QED
    BY <2>1, <2>2
<1>5. ASSUME NEW t \in Threads, activated_platform = "AWS_DBX",
             UNCHANGED <<world, listing, cluster_cache>>,
             DbxAsk(t) \/ DbxStep(t) \/ RaiseDbx(t)
      PROVE  OthersStep(u) \/ EndsStep(u) \/ OwnDbx(u)
  <2>1. CASE \E c \in Clusters : PriceCluster(t, c)
    BY <2>1, <1>5 DEF PriceCluster, OthersStep, world, listing, paging, appList
  <2>2. CASE u # t
    <3> USE DEF world, listing, paging, appList
    <3>1. CASE DbxAsk(t)
      BY <3>1, <2>2, <1>5 DEF DbxAsk, AskCost, AskDbxList, Begin, OthersStep
    <3>2. CASE FilterClusters(t) \/ AnswerCosts(t)
      BY <3>2, <2>2, <1>5 DEF FilterClusters, AnswerCosts, Goto, OthersStep
    <3>3. CASE FillDbxGaps(t)
      BY <3>3, <2>2, <1>5, GapTypes DEF FillDbxGaps, OthersStep
    <3>4. CASE RaiseDbx(t) \/ \E c \in Clusters : UnsupportedRuntime(t, c)
      BY <3>4, <2>2, <1>5 DEF RaiseDbx, UnsupportedRuntime, Fail, Discard, OthersStep
    <3>5. QED
      BY <1>5, <2>1, <3>1, <3>2, <3>3, <3>4 DEF DbxStep
  <2>3. CASE u = t
    <3>1. CASE RaiseDbx(t) \/ \E c \in Clusters : UnsupportedRuntime(t, c)
      BY <3>1, <2>3, <1>5 DEF RaiseDbx, UnsupportedRuntime, Fail, Discard, EndsStep, Rest, world
    <3>2. QED
      BY <2>1, <2>3, <3>1, <1>5 DEF DbxAsk, DbxStep, OwnDbx
  <2>4. QED
    BY <2>2, <2>3
<1>6. QED
  BY <1>1, <1>2, <1>3, <1>4, <1>5, ServerSteps

(* What the actions of a thread's own request have in common: it begins, or   *)
(* goes on with what it has collected, or fills the gaps.                     *)
Begins(u) ==
    /\ range'[u].end <= now /\ gap'[u] = NoRows /\ phase'[u] \in {"list", "page", "apps", "rows"}
    /\ phase'[u] = "apps" => panel'[u] = "AppList"
    /\ panel'[u] = "ClusterList" => phase'[u] = "list"

GoesOn(u) ==
    /\ phase[u] # "idle" /\ panel'[u] = panel[u] /\ range'[u] = range[u]
    /\ gap'[u] = gap[u] /\ (phase'[u] = "page" \/ lost'[u] = lost[u])
    /\ phase'[u] = "apps" => phase[u] = "apps"
    /\ phase'[u] = "rows" => panel[u] # "ClusterList"
    /\ phase'[u] = "answered" =>
         (phase[u] = "rows" /\ count'[u] = count[u]) \/ panel[u] \in {"Variable", "AppList"}

LEMMA OwnSteps ==
  ASSUME PagingInv, NEW u \in Threads, AppPhase(u), OwnEmr(u) \/ OwnDbx(u)
  PROVE  /\ UNCHANGED activated_platform /\ UNCHANGED now /\ UNCHANGED span
         /\ Begins(u) \/ GoesOn(u) \/ FillGaps(u)
<1> USE DEF PagingInv, ServerTypes, world, Begins, GoesOn
<1>1. CASE OwnEmr(u)
  <2> USE <1>1 DEF OwnEmr
  <2>1. CASE (\E p \in {"Variable", "ClusterList", "ActiveResources"} : BeginListing(u, p))
            \/ AskAppList(u) \/ AskUtilization(u)
    BY <2>1 DEF BeginListing, AskAppList, AskUtilization, Begin
  <2>2. CASE ListPage(u)
    BY <2>2 DEF ListPage, Goto
  <2>3. CASE YieldPage(u)
    BY <2>3 DEF YieldPage, Take
  <2>4. CASE DescribeCluster(u)
    BY <2>4 DEF DescribeCluster, Take
  <2>5. CASE NextPage(u)
    BY <2>5 DEF NextPage, AfterListing
  <2>6. CASE FillEmrGaps(u)
    BY <2>6 DEF FillEmrGaps, FillGaps, Goto
  <2>7. CASE Answer(u)
    BY <2>7 DEF Answer, Goto
  <2>8. CASE YieldListed(u)
    BY <2>8 DEF YieldListed
  <2>9. CASE DescribeApp(u)
    BY <2>9 DEF DescribeApp, requests
  <2>10. CASE AnswerApps(u)
    BY <2>10 DEF AnswerApps, Goto, AppPhase
  <2>11. QED
    BY <2>1, <2>2, <2>3, <2>4, <2>5, <2>6, <2>7, <2>8, <2>9, <2>10
<1>2. CASE OwnDbx(u)
  <2> USE <1>2 DEF OwnDbx
  <2>1. CASE AskCost(u) \/ AskDbxList(u)
    BY <2>1 DEF AskCost, AskDbxList, Begin
  <2>2. CASE FilterClusters(u)
    BY <2>2 DEF FilterClusters, Goto
  <2>3. CASE FillDbxGaps(u)
    BY <2>3 DEF FillDbxGaps, FillGaps, Goto
  <2>4. CASE AnswerCosts(u)
    BY <2>4 DEF AnswerCosts, Goto
  <2>5. QED
    BY <2>1, <2>2, <2>3, <2>4
<1>3. QED
  BY <1>1, <1>2

LEMMA PastStep ==
  ASSUME PagingInv, [QueryNext]_queryVars, NEW u \in Threads, PastOnly(u), AppPhase(u)
  PROVE  PastOnly(u)'
<1>1. CASE OthersStep(u)
  <2>1. now \in Nat /\ now' >= now /\ range[u].end \in Nat
    BY <1>1, RangeTypes DEF OthersStep, PagingInv, ServerTypes
  <2>2. QED
    BY <1>1, <2>1 DEF OthersStep, PastOnly
<1>2. CASE EndsStep(u)
  BY <1>2 DEF EndsStep, PastOnly
<1>3. CASE OwnEmr(u) \/ OwnDbx(u)
  BY <1>3, OwnSteps DEF PastOnly, Begins, GoesOn, FillGaps, Goto
<1>4. QED
  BY <1>1, <1>2, <1>3, ThreadSteps

(* fill_api_gaps takes no row away.                                          *)
LEMMA GapKeeps ==
  ASSUME ServerTypes, NEW u \in Threads, FillGaps(u)
  PROVE  /\ Rows(u) \subseteq Rows(u)'
         /\ phase[u] = "gaps" /\ phase'[u] = "rows"
<1>1. PICK ids \in get_label_values(TrackedSpans, range[u].start, range[u].end),
           failing \in SUBSET Clusters, fill \in SUBSET Clusters : GapStep(u, ids, failing, fill)
  BY GapRows
<1>2. Rows(u) \subseteq Rows(u)'
  BY <1>1 DEF GapStep, Rows, ServerTypes
<1>3. QED
  BY <1>2 DEF FillGaps, Goto, ServerTypes

LEMMA AppPhaseStep ==
  ASSUME PagingInv, [QueryNext]_queryVars, NEW u \in Threads, AppPhase(u)
  PROVE  AppPhase(u)'
<1>1. CASE OthersStep(u)
  BY <1>1 DEF OthersStep, AppPhase
<1>2. CASE EndsStep(u)
  BY <1>2 DEF EndsStep, AppPhase
<1>3. CASE OwnEmr(u) \/ OwnDbx(u)
  <2>1. CASE Begins(u) \/ GoesOn(u)
    BY <2>1 DEF Begins, GoesOn, AppPhase
  <2>2. CASE FillGaps(u)
    BY <2>2, GapKeeps DEF AppPhase, PagingInv
  <2>3. QED
    BY <1>3, <2>1, <2>2, OwnSteps
<1>4. QED
  BY <1>1, <1>2, <1>3, ThreadSteps

LEMMA GapTrueStep ==
  ASSUME PagingInv, [QueryNext]_queryVars, NEW u \in Threads, GapTrue(u), AppPhase(u)
  PROVE  GapTrue(u)'
<1>1. CASE OthersStep(u)
  BY <1>1 DEF OthersStep, GapTrue
<1>2. CASE gap'[u] = NoRows
  BY <1>2 DEF GapTrue, NoRows
<1>3. CASE FillGaps(u) /\ UNCHANGED <<now, span>>
  <2>1. PICK ids \in get_label_values(TrackedSpans, range[u].start, range[u].end),
             failing \in SUBSET Clusters, fill \in SUBSET Clusters : GapStep(u, ids, failing, fill)
    BY <1>3, GapRows DEF PagingInv
  <2> SUFFICES ASSUME NEW c \in Clusters, gap'[u][c] # 0
               PROVE  \/ gap'[u][c] = span[c].first
                      \/ WindowStart(range[u].start, range[u].end) >= range[u].start
    BY <1>3 DEF GapTrue, FillGaps
  <2>2. /\ InRange(range[u], cluster_first(c, range[u], failing))
        /\ gap'[u][c] = cluster_first(c, range[u], failing)
    BY <2>1 DEF GapStep, PagingInv, ServerTypes
  <2>3. range[u] \in Ranges
    BY DEF PagingInv, ServerTypes
  <2>4. cluster_first(c, range[u], failing) = TFirst(span[c], range[u].start, range[u].end)
    BY <2>2 DEF cluster_first
  <2>5. QED
    BY <2>2, <2>3, <2>4, FirstScrape, RangeTypes DEF InRange, PagingInv
<1>4. CASE gap'[u] = gap[u] /\ range'[u] = range[u] /\ UNCHANGED span
  BY <1>4 DEF GapTrue
<1>5. CASE OwnEmr(u) \/ OwnDbx(u)
  <2>1. UNCHANGED now /\ UNCHANGED span
    BY <1>5, OwnSteps
  <2>2. Begins(u) \/ GoesOn(u) \/ FillGaps(u)
    BY <1>5, OwnSteps
  <2>3. QED
    BY <1>2, <1>3, <1>4, <2>1, <2>2 DEF Begins, GoesOn
<1>6. QED
  BY <1>1, <1>2, <1>5, ThreadSteps DEF EndsStep

LEMMA TrackedStep ==
  ASSUME PagingInv, [QueryNext]_queryVars, NEW u \in Threads, PastOnly(u), AppPhase(u),
         TrackedIn(u)
  PROVE  TrackedIn(u)'
<1>1. CASE OthersStep(u)
  BY <1>1 DEF OthersStep, TrackedIn, InTime, Rows
<1>2. CASE EndsStep(u)
  BY <1>2 DEF EndsStep, TrackedIn
<1>3. CASE FillGaps(u) /\ UNCHANGED <<now, span>>
  <2>1. PICK ids \in get_label_values(TrackedSpans, range[u].start, range[u].end),
             failing \in SUBSET Clusters, fill \in SUBSET Clusters : GapStep(u, ids, failing, fill)
    BY <1>3, GapRows DEF PagingInv
  <2> SUFFICES ASSUME NEW c \in Tracked, c \notin lost'[u],
                      range[u].start < span[c].first, span[c].first <= range[u].end
               PROVE  count'[u][c] > 0
    BY <1>3, PanelAssumption DEF TrackedIn, FillGaps, InTime, Rows
  <2> DEFINE r == range[u]
             ws == WindowStart(r.start, r.end)
  <2>2. c \in Clusters /\ r \in Ranges /\ c \notin failing
    BY <2>1, PanelAssumption DEF PagingInv, ServerTypes, GapStep
  <2>3. /\ r.end <= now
        /\ now \in Nat
    BY <1>3 DEF FillGaps, Goto, PastOnly, PagingInv, ServerTypes
  <2>4. /\ span[c].first \in Nat /\ span[c].last \in Nat /\ span[c].first <= span[c].last
        /\ r.start \in Nat /\ r.end \in Nat /\ ws \in Int /\ ws <= r.start + 1
    BY <2>2, SpanTypes, RangeTypes DEF PagingInv
  <2>5. Scraped(span[c], r.start, r.end) /\ Scraped(span[c], ws, r.end) /\ span[c].first <= now
    BY <2>3, <2>4 DEF Scraped
  <2>6. c \in ids
    BY <2>5, LabelValues, TrackedSpansAre
  <2>7. cluster_first(c, r, failing) = span[c].first
    BY <2>2, <2>4, <2>5 DEF cluster_first, TFirst, Later
  <2>8. InRange(r, cluster_first(c, r, failing))
    BY <2>4, <2>7 DEF InRange
  <2>9. c \in fill \/ c \in Rows(u)
    BY <2>1, <2>6, <2>8 DEF GapStep
  <2>10. QED
    BY <2>1, <2>2, <2>9 DEF GapStep, Rows, PagingInv, ServerTypes
<1>4. CASE /\ UNCHANGED span /\ panel'[u] = panel[u] /\ range'[u] = range[u]
           /\ lost'[u] = lost[u] /\ count'[u] = count[u] /\ phase[u] = "rows"
  BY <1>4 DEF TrackedIn, InTime, Rows
<1>5. CASE panel'[u] # "ClusterList" \/ phase'[u] \notin {"rows", "answered"}
  BY <1>5 DEF TrackedIn
<1>6. CASE OwnEmr(u) \/ OwnDbx(u)
  <2>1. UNCHANGED now /\ UNCHANGED span
    BY <1>6, OwnSteps
  <2>2. Begins(u) \/ GoesOn(u) \/ FillGaps(u)
    BY <1>6, OwnSteps
  <2>3. QED
    BY <1>3, <1>4, <1>5, <2>1, <2>2 DEF Begins, GoesOn
<1>7. QED
  BY <1>1, <1>2, <1>6, ThreadSteps

(* A page of the API is the newest part of what is left.                     *)
LEMMA PageAbove ==
  ASSUME NEW S \in SUBSET Clusters, NEW m \in Nat, NEW e \in Page(S, m),
         NEW c \in S, e <= c, c < m
  PROVE  c \in Page(S, m)
<1> DEFINE above(x) == {d \in S : x < d /\ d < m}
<1>1. IsFiniteSet(S)
  BY PanelAssumption, FS_Subset
<1>2. IsFiniteSet(above(e)) /\ above(e) \subseteq S
  BY <1>1, FS_Subset
<1>3. above(c) \subseteq above(e)
  <2>1. e \in Nat /\ c \in Nat /\ \A d \in S : d \in Nat
    BY PanelAssumption DEF Page
  <2>2. \A d \in S : c < d => e < d
    BY <2>1
  <2>3. QED
    BY <2>2
<1>4. Cardinality(above(c)) <= Cardinality(above(e))
  BY <1>2, <1>3, FS_Subset
<1>5. Cardinality(above(e)) < PageSize
  BY DEF Page
<1>6. Cardinality(above(c)) \in Nat /\ Cardinality(above(e)) \in Nat
  BY <1>2, <1>3, FS_Subset, FS_CardinalityType
<1>7. Cardinality(above(c)) < PageSize
  BY <1>4, <1>5, <1>6, PageAssumption
<1>8. QED
  BY <1>7 DEF Page

(* What ListPage takes: everything below the Marker down to the next one.    *)
LEMMA ListedPage ==
  ASSUME PagingInv, NEW u \in Threads, ListPage(u)
  PROVE  /\ phase[u] = "list" /\ phase'[u] = "page"
         /\ panel'[u] = panel[u] /\ range'[u] = range[u] /\ count'[u] = count[u]
         /\ known'[u] = known[u] /\ active_state_args' = active_state_args
         /\ \A c \in Matching(u) : next'[u] <= c /\ c < ArgsMarker(u) => c \in page'[u]
<1> USE DEF PagingInv, ServerTypes
<1> DEFINE S == Matching(u)
           m == ArgsMarker(u)
<1>1. S \in SUBSET Clusters /\ m \in Nat
  BY DEF Matching, Active, Covered, Launched, ArgsMarker
<1>2. /\ page'[u] = Page(S, m)
      /\ \/ \E c \in Page(S, m) : next'[u] = c
         \/ ~More(S, m)
  BY DEF ListPage
<1>3. ASSUME NEW c \in S, next'[u] <= c, c < m
      PROVE  c \in Page(S, m)
  <2> HIDE DEF S, m
  <2>1. CASE ~More(S, m)
    BY <2>1, <1>1, <1>3, PageBelow
  <2>2. ASSUME NEW e \in Page(S, m), next'[u] = e PROVE c \in Page(S, m)
    BY <2>2, <1>1, <1>3, PageAbove
  <2>3. QED
    BY <1>2, <2>1, <2>2
<1>4. QED
  BY <1>2, <1>3 DEF ListPage, Goto

(* While a request waits, what it has to list can only shrink.               *)
LEMMA WantedShrinks ==
  ASSUME PagingInv, NEW u \in Threads, PastOnly(u), phase[u] # "idle", range'[u] = range[u],
         UNCHANGED span, now' \in {now, now + 1}
  PROVE  Wanted(u)' \subseteq Wanted(u)
<1>1. now \in Nat /\ range[u].end \in Nat /\ range[u].end <= now
  BY RangeTypes DEF PagingInv, ServerTypes, PastOnly
<1>2. ASSUME NEW c \in Clusters PROVE c \in Wanted(u)' => c \in Wanted(u)
  <2>1. span[c].first - Boot \in Int /\ span[c].last + Retention \in Int
    BY SpanTypes, PanelAssumption DEF PagingInv
  <2>2. QED
    BY <1>1, <2>1 DEF Wanted, Covered, Launched, Created
<1>3. QED
  BY <1>2 DEF Wanted, Covered

(* Nothing is lost between the page and the rows.                            *)
LEMMA TakeKeeps ==
  ASSUME ServerTypes, NEW u \in Threads, NEW S, Take(u, S), S \subseteq page[u]
  PROVE  page'[u] \cup Rows(u)' = page[u] \cup Rows(u)
<1>1. page'[u] = page[u] \ S /\ count'[u] = WithRows(u, S)
  BY DEF Take, ServerTypes
<1>2. ASSUME NEW c \in Clusters
      PROVE  WithRows(u, S)[c] > 0 <=> c \in S \/ count[u][c] > 0
  <2>1. count[u][c] \in {0, 1}
    BY DEF ServerTypes
  <2>2. WithRows(u, S)[c] = IF c \notin S THEN count[u][c]
                            ELSE IF panel[u] = "ActiveResources" THEN 1 ELSE count[u][c] + 1
    BY DEF WithRows
  <2>3. QED
    BY <2>1, <2>2
<1>3. Rows(u)' = (S \cap Clusters) \cup Rows(u)
  BY <1>1, <1>2 DEF Rows
<1>4. QED
  BY <1>1, <1>3 DEF ServerTypes

LEMMA CoveredStep ==
  ASSUME PagingInv, [QueryNext]_queryVars, NEW u \in Threads, PastOnly(u), AppPhase(u),
         CoveredIn(u)
  PROVE  CoveredIn(u)'
<1>1. CASE OthersStep(u)
  <2>1. CASE phase[u] = "idle"
    BY <1>1, <2>1 DEF OthersStep, CoveredIn
  <2>2. CASE phase[u] # "idle"
    <3>1. Wanted(u)' \subseteq Wanted(u)
      BY <1>1, <2>2, WantedShrinks DEF OthersStep
    <3>2. Rows(u)' = Rows(u)
      BY <1>1 DEF OthersStep, Rows
    <3> HIDE DEF Wanted, Rows
    <3>3. QED
      BY <1>1, <3>1, <3>2 DEF OthersStep, CoveredIn
  <2>3. QED
    BY <2>1, <2>2
<1>2. CASE EndsStep(u)
  BY <1>2 DEF EndsStep, CoveredIn
<1>3. CASE OwnEmr(u)
  <2>1. CASE \E p \in {"Variable", "ClusterList", "ActiveResources"} : BeginListing(u, p)
    <3>1. phase'[u] = "list" /\ marker'[u] = NoMarker
      BY <2>1 DEF BeginListing, Begin, PagingInv, ServerTypes
    <3>2. \A c \in Clusters : ~(NoMarker <= c)
      BY PageAssumption, PanelAssumption
    <3>3. Wanted(u)' \subseteq Clusters
      BY DEF Wanted, Covered
    <3>4. QED
      BY <3>1, <3>2, <3>3 DEF CoveredIn
  <2>2. CASE AskAppList(u) \/ AskUtilization(u)
    BY <2>2 DEF AskAppList, AskUtilization, Begin, PagingInv, ServerTypes, CoveredIn
  <2>3. Wanted(u)' = Wanted(u) \/ range'[u] # range[u]
    BY <1>3 DEF OwnEmr, world, Wanted, Covered, Launched, Created
  <2>4. CASE ListPage(u)
    <3>1. \A c \in Wanted(u) : c \in Clusters /\ (marker[u] <= c \/ c < marker[u])
      BY PanelAssumption DEF Wanted, Covered, PagingInv, ServerTypes
    <3>2. panel[u] # "ActiveResources" => Matching(u) = Wanted(u) /\ ArgsMarker(u) = marker[u]
      BY DEF Matching, ArgsMarker, Wanted
    <3>3. Rows(u)' = Rows(u)
      BY <2>4, ListedPage DEF Rows
    <3> HIDE DEF Wanted, Rows
    <3>4. QED
      BY <2>3, <2>4, <3>1, <3>2, <3>3, ListedPage, <1>3 DEF CoveredIn, OwnEmr
  <2>5. CASE YieldPage(u) \/ DescribeCluster(u)
    <3>1. page'[u] \cup Rows(u)' = page[u] \cup Rows(u)
      BY <2>5, TakeKeeps DEF YieldPage, DescribeCluster, PagingInv
    <3>2. /\ phase[u] = "page" /\ phase'[u] = "page" /\ next'[u] = next[u]
          /\ panel'[u] = panel[u] /\ range'[u] = range[u]
      BY <2>5 DEF YieldPage, DescribeCluster, Take
    <3> HIDE DEF Wanted, Rows
    <3>3. QED
      BY <2>3, <3>1, <3>2 DEF CoveredIn
  <2>6. CASE NextPage(u)
    <3>1. /\ phase[u] = "page" /\ page[u] = {} /\ panel'[u] = panel[u] /\ range'[u] = range[u]
          /\ count'[u] = count[u] /\ page'[u] = page[u]
          /\ next[u] # 0 => phase'[u] = "list"
          /\ panel[u] # "ActiveResources" /\ next[u] # 0 => marker'[u] = next[u]
      BY <2>6 DEF NextPage, PagingInv, ServerTypes
    <3>2. phase'[u] # "page"
      BY <2>6 DEF NextPage, AfterListing, PagingInv, ServerTypes
    <3>3. Rows(u)' = Rows(u) /\ \A c \in Wanted(u) : 0 <= c
      BY <3>1, PanelAssumption DEF Rows, Wanted, Covered
    <3> HIDE DEF Wanted, Rows
    <3>4. QED
      BY <2>3, <3>1, <3>2, <3>3 DEF CoveredIn
  <2>7. CASE FillEmrGaps(u)
    <3>1. Rows(u) \subseteq Rows(u)' /\ phase[u] = "gaps" /\ phase'[u] = "rows"
      BY <2>7, GapKeeps DEF FillEmrGaps, PagingInv
    <3>2. panel'[u] = panel[u] /\ range'[u] = range[u]
      BY <2>7 DEF FillEmrGaps, FillGaps
    <3> HIDE DEF Wanted, Rows
    <3>3. QED
      BY <2>3, <3>1, <3>2 DEF CoveredIn
  <2>8. CASE Answer(u)
    <3>1. Rows(u)' = Rows(u) /\ phase[u] = "rows" /\ phase'[u] = "answered"
      BY <2>8 DEF Answer, Goto, Rows, PagingInv, ServerTypes
    <3>2. panel'[u] = panel[u] /\ range'[u] = range[u]
      BY <2>8 DEF Answer
    <3> HIDE DEF Wanted, Rows
    <3>3. QED
      BY <2>3, <3>1, <3>2 DEF CoveredIn
  <2>9. CASE YieldListed(u)
    BY <2>9 DEF YieldListed, CoveredIn
  <2>10. CASE DescribeApp(u) \/ AnswerApps(u)
    BY <2>10 DEF DescribeApp, AnswerApps, Goto, requests, AppPhase, CoveredIn
  <2>11. QED
    BY <1>3, <2>1, <2>2, <2>4, <2>5, <2>6, <2>7, <2>8, <2>9, <2>10 DEF OwnEmr
<1>4. CASE OwnDbx(u)
  <2>1. CASE AskCost(u) \/ AskDbxList(u)
    BY <2>1, <1>4 DEF AskCost, AskDbxList, Begin, CoveredIn, OwnDbx, world, PagingInv, ServerTypes
  <2>2. Wanted(u)' = Wanted(u) \/ range'[u] # range[u]
    BY <1>4 DEF OwnDbx, world, Wanted, Covered, Launched, Created
  <2>3. CASE FilterClusters(u)
    <3>1. phase'[u] = "gaps" /\ range'[u] = range[u]
      BY <2>3 DEF FilterClusters, Goto, PagingInv, ServerTypes
    <3>2. Wanted(u) \subseteq Rows(u)'
      BY <2>3 DEF FilterClusters, Rows, Wanted, Covered, PagingInv, ServerTypes
    <3> HIDE DEF Wanted, Rows
    <3>3. QED
      BY <2>2, <3>1, <3>2 DEF CoveredIn
  <2>4. CASE FillDbxGaps(u)
    <3>1. Rows(u) \subseteq Rows(u)' /\ phase[u] = "gaps" /\ phase'[u] = "rows"
      BY <2>4, GapKeeps DEF FillDbxGaps, PagingInv
    <3>2. panel'[u] = panel[u] /\ range'[u] = range[u]
      BY <2>4 DEF FillDbxGaps, FillGaps
    <3> HIDE DEF Wanted, Rows
    <3>3. QED
      BY <2>2, <3>1, <3>2 DEF CoveredIn
  <2>5. CASE AnswerCosts(u)
    <3>1. Rows(u)' = Rows(u) /\ phase[u] = "rows" /\ phase'[u] = "answered"
      BY <2>5 DEF AnswerCosts, Goto, Rows, PagingInv, ServerTypes
    <3>2. panel'[u] = panel[u] /\ range'[u] = range[u]
      BY <2>5 DEF AnswerCosts
    <3> HIDE DEF Wanted, Rows
    <3>3. QED
      BY <2>2, <3>1, <3>2 DEF CoveredIn
  <2>6. QED
    BY <1>4, <2>1, <2>3, <2>4, <2>5 DEF OwnDbx
<1>5. QED
  BY <1>1, <1>2, <1>3, <1>4, ThreadSteps

(* The database knows of every application sampled within the range.        *)
LEMMA SampledAsked ==
  ASSUME PagingInv, NEW r \in Ranges, r.end <= now, NEW ids \in get_app_cluster_ids(r),
         NEW a \in Apps, Scraped(span[RunsOn[a]], r.start + 1, r.end)
  PROVE  a \in ids
<1> DEFINE c  == RunsOn[a]
           ws == WindowStart(r.start, r.end)
<1>1. c \in Tracked /\ c \in Clusters
  BY PageAssumption, PanelAssumption
<1> HIDE DEF c
<1>2. PICK some \in get_label_values(AppSpans, r.start, r.end) :
        ids = {b \in some : TFirst(AppSpans[b], r.start, r.end) # 0}
  BY DEF get_app_cluster_ids
<1>3. /\ span[c].first \in Nat /\ span[c].last \in Nat /\ span[c].first <= span[c].last
      /\ r.start \in Nat /\ r.end \in Nat /\ ws \in Int /\ ws <= r.end
      /\ r.start <= r.end => ws <= r.start + 1
      /\ now \in Nat /\ r.end <= now
  BY <1>1, SpanTypes, RangeTypes DEF PagingInv, ServerTypes
<1>4. Scraped(span[c], r.start + 1, r.end)
  BY DEF c
<1>5. Scraped(span[c], r.start, r.end) /\ Scraped(span[c], ws, r.end) /\ span[c].first <= now
  BY <1>3, <1>4 DEF Scraped
<1>6. a \in DOMAIN AppSpans /\ AppSpans[a] = span[c]
  <2>1. c \in DOMAIN TrackedSpans
    BY <1>1, <1>5, TrackedSpansAre
  <2>2. QED
    BY <2>1 DEF AppSpans, c
<1>7. a \in some
  BY <1>5, <1>6, LabelValues
<1>8. TFirst(span[c], r.start, r.end) # 0
  BY <1>1, <1>5, FirstScrape DEF PagingInv
<1>9. QED
  BY <1>2, <1>6, <1>7, <1>8

LEMMA WholeListStep ==
  ASSUME PagingInv, [QueryNext]_queryVars, NEW u \in Threads, WholeList(u)
  PROVE  WholeList(u)'
<1>1. CASE OthersStep(u)
  BY <1>1 DEF OthersStep, WholeList, Sampled
<1>2. CASE EndsStep(u)
  BY <1>2 DEF EndsStep, WholeList
<1>3. CASE panel'[u] # "AppList"
  BY <1>3 DEF WholeList
<1>4. CASE panel'[u] = panel[u] /\ phase[u] \in {"list", "page", "gaps", "rows"}
  BY <1>4 DEF WholeList
<1>5. CASE OwnEmr(u)
  <2>1. CASE AskAppList(u)
    <3>1. /\ phase'[u] = "apps" /\ range'[u] \in Ranges /\ range'[u].end <= now
          /\ UNCHANGED span
      BY <2>1, <1>5 DEF AskAppList, Begin, PagingInv, ServerTypes, OwnEmr, world
    <3>2. PICK ids : ids \in get_app_cluster_ids(range'[u]) /\ apps' = [apps EXCEPT ![u] = ids]
      BY <2>1 DEF AskAppList
    <3>3. PICK r \in Ranges : range'[u] = r
      BY <3>1
    <3>4. ASSUME NEW a \in Apps, Scraped(span[RunsOn[a]], r.start + 1, r.end)
          PROVE  a \in ids
      BY <3>1, <3>2, <3>3, <3>4, SampledAsked
    <3>5. apps'[u] = ids
      BY <3>2 DEF PagingInv, ServerTypes
    <3>6. Sampled(u)' \subseteq apps'[u]
      BY <3>1, <3>3, <3>4, <3>5 DEF Sampled
    <3> HIDE DEF Sampled
    <3>7. QED
      BY <3>1, <3>6 DEF WholeList
  <2>2. CASE DescribeApp(u) \/ AnswerApps(u)
    <3>1. /\ phase[u] = "apps" /\ panel'[u] = panel[u] /\ Sampled(u)' = Sampled(u)
          /\ apps'[u] \cup listed'[u] = apps[u] \cup listed[u]
          /\ \/ phase'[u] = "apps"
             \/ phase'[u] = "answered" /\ apps'[u] = {}
      BY <2>2, <1>5 DEF DescribeApp, AnswerApps, Goto, requests, paging, listing, appList,
                        OwnEmr, world, Sampled, PagingInv, ServerTypes
    <3> HIDE DEF Sampled
    <3>2. QED
      BY <3>1 DEF WholeList
  <2>3. CASE (\E p \in {"Variable", "ClusterList", "ActiveResources"} : BeginListing(u, p))
             \/ AskUtilization(u)
    BY <2>3, <1>3 DEF BeginListing, AskUtilization, Begin, PagingInv, ServerTypes
  <2>4. CASE \/ ListPage(u) \/ YieldPage(u) \/ YieldListed(u) \/ DescribeCluster(u)
             \/ NextPage(u) \/ FillEmrGaps(u) \/ Answer(u)
    BY <2>4, <1>4 DEF ListPage, YieldPage, YieldListed, DescribeCluster, Take, NextPage,
                      FillEmrGaps, FillGaps, Answer, Goto
  <2>5. QED
    BY <1>5, <2>1, <2>2, <2>3, <2>4 DEF OwnEmr
<1>6. CASE OwnDbx(u)
  <2>1. CASE AskCost(u) \/ AskDbxList(u)
    BY <2>1, <1>3 DEF AskCost, AskDbxList, Begin, PagingInv, ServerTypes
  <2>2. CASE FilterClusters(u) \/ FillDbxGaps(u) \/ AnswerCosts(u)
    BY <2>2, <1>4 DEF FilterClusters, FillDbxGaps, FillGaps, AnswerCosts, Goto
  <2>3. QED
    BY <1>6, <2>1, <2>2 DEF OwnDbx
<1>7. QED
  BY <1>1, <1>2, <1>5, <1>6, ThreadSteps

LEMMA WholeTotalStep ==
  ASSUME PagingInv, [QueryNext]_queryVars, NEW u \in Threads, AppPhase(u), WholeTotal(u)
  PROVE  WholeTotal(u)'
<1>1. CASE OthersStep(u)
  BY <1>1 DEF OthersStep, WholeTotal, Ran, Sampled, Rows
<1>2. CASE EndsStep(u)
  BY <1>2 DEF EndsStep, WholeTotal
<1>3. CASE OwnEmr(u)
  <2>1. CASE (\E p \in {"Variable", "ClusterList", "ActiveResources"} : BeginListing(u, p))
             \/ AskAppList(u)
    BY <2>1 DEF BeginListing, AskAppList, Begin, PagingInv, ServerTypes, WholeTotal
  <2>2. CASE AskUtilization(u)
    <3>1. /\ phase'[u] = "page" /\ next'[u] = 0 /\ range'[u] \in Ranges /\ range'[u].end <= now
          /\ UNCHANGED span
      BY <2>2, <1>3 DEF AskUtilization, Begin, PagingInv, ServerTypes, OwnEmr, world
    <3>2. PICK ids : /\ ids \in get_app_cluster_ids(range'[u])
                    /\ page' = [page EXCEPT ![u] = {RunsOn[a] : a \in ids}]
      BY <2>2 DEF AskUtilization
    <3>3. PICK r \in Ranges : range'[u] = r
      BY <3>1
    <3>4. ASSUME NEW a \in Apps, Scraped(span[RunsOn[a]], r.start + 1, r.end)
          PROVE  a \in ids
      BY <3>1, <3>2, <3>3, <3>4, SampledAsked
    <3>5. page'[u] = {RunsOn[a] : a \in ids}
      BY <3>2 DEF PagingInv, ServerTypes
    <3>6. Sampled(u)' \subseteq ids
      BY <3>1, <3>3, <3>4 DEF Sampled
    <3> HIDE DEF Sampled
    <3>7. Ran(u)' \subseteq page'[u]
      BY <3>5, <3>6 DEF Ran
    <3> HIDE DEF Ran
    <3>8. QED
      BY <3>1, <3>7 DEF WholeTotal
  <2>3. Ran(u)' = Ran(u) \/ range'[u] # range[u]
    BY <1>3 DEF OwnEmr, world, Ran, Sampled
  <2>4. CASE ListPage(u)
    BY <2>4, ListedPage DEF WholeTotal
  <2>5. CASE YieldPage(u) \/ DescribeCluster(u)
    <3>1. page'[u] \cup Rows(u)' = page[u] \cup Rows(u)
      BY <2>5, TakeKeeps DEF YieldPage, DescribeCluster, PagingInv
    <3>2. /\ phase[u] = "page" /\ phase'[u] = "page" /\ next'[u] = next[u]
          /\ panel'[u] = panel[u] /\ range'[u] = range[u]
      BY <2>5 DEF YieldPage, DescribeCluster, Take
    <3> HIDE DEF Ran, Rows
    <3>3. QED
      BY <2>3, <3>1, <3>2 DEF WholeTotal
  <2>6. CASE NextPage(u)
    <3>1. /\ phase[u] = "page" /\ page[u] = {} /\ panel'[u] = panel[u] /\ range'[u] = range[u]
          /\ count'[u] = count[u]
          /\ next[u] = 0 => phase'[u] = AfterListing(u)
      BY <2>6 DEF NextPage, PagingInv, ServerTypes
    <3>2. Rows(u)' = Rows(u)
      BY <3>1 DEF Rows
    <3> HIDE DEF Ran, Rows
    <3>3. QED
      BY <2>3, <3>1, <3>2 DEF WholeTotal, AfterListing
  <2>7. CASE FillEmrGaps(u)
    BY <2>7 DEF FillEmrGaps, FillGaps, Goto, WholeTotal
  <2>8. CASE Answer(u)
    <3>1. Rows(u)' = Rows(u) /\ phase[u] = "rows" /\ phase'[u] = "answered"
      BY <2>8 DEF Answer, Goto, Rows, PagingInv, ServerTypes
    <3>2. panel'[u] = panel[u] /\ range'[u] = range[u]
      BY <2>8 DEF Answer
    <3> HIDE DEF Ran, Rows
    <3>3. QED
      BY <2>3, <3>1, <3>2 DEF WholeTotal
  <2>9. CASE YieldListed(u) \/ DescribeApp(u) \/ AnswerApps(u)
    BY <2>9 DEF YieldListed, DescribeApp, AnswerApps, Goto, requests, AppPhase, WholeTotal
  <2>10. QED
    BY <1>3, <2>1, <2>2, <2>4, <2>5, <2>6, <2>7, <2>8, <2>9 DEF OwnEmr
<1>4. CASE OwnDbx(u)
  <2>1. CASE AskCost(u) \/ AskDbxList(u)
    BY <2>1 DEF AskCost, AskDbxList, Begin, WholeTotal, PagingInv, ServerTypes
  <2>2. CASE FilterClusters(u) \/ FillDbxGaps(u)
    BY <2>2 DEF FilterClusters, FillDbxGaps, FillGaps, Goto, WholeTotal
  <2>3. CASE AnswerCosts(u)
    BY <2>3, <1>4 DEF AnswerCosts, Goto, Ran, Sampled, Rows, WholeTotal, OwnDbx, world,
                      PagingInv, ServerTypes
  <2>4. QED
    BY <1>4, <2>1, <2>2, <2>3 DEF OwnDbx
<1>5. QED
  BY <1>1, <1>2, <1>3, <1>4, ThreadSteps

LEMMA ActiveStep ==
  ASSUME PagingInv, [QueryNext]_queryVars, NEW u \in Threads, AppPhase(u), ActiveIn(u)
  PROVE  ActiveIn(u)'
<1>1. CASE OthersStep(u)
  <2>1. ASSUME NEW c \in Clusters, span[c].first <= now
        PROVE  span[c].first <= now' /\ (c \in Active' => c \in Active)
    <3>1. now \in Nat /\ span[c].first \in Nat /\ span[c].last \in Nat
      BY SpanTypes DEF PagingInv, ServerTypes
    <3>2. QED
      BY <1>1, <2>1, <3>1 DEF OthersStep, Active, Ended
  <2>2. Rows(u)' = Rows(u)
    BY <1>1 DEF OthersStep, Rows
  <2>3. known[u] \subseteq Clusters
    BY DEF PagingInv, ServerTypes
  <2>4. ActiveIn(u) /\ UNCHANGED span
    BY <1>1 DEF OthersStep
  <2>5. CASE panel[u] = "ActiveResources" /\ phase[u] \notin {"idle", "failed"}
    <3>1. \A c \in known[u] : span[c].first <= now' /\ (c \in Active' => c \in Active)
      BY <2>1, <2>3, <2>4, <2>5 DEF ActiveIn
    <3>2. known[u] \cap Active' \subseteq known[u] \cap Active
      BY <3>1
    <3> HIDE DEF Active, Rows
    <3>3. QED
      BY <1>1, <2>2, <2>4, <2>5, <3>1, <3>2 DEF ActiveIn, OthersStep
  <2>6. CASE ~(panel[u] = "ActiveResources" /\ phase[u] \notin {"idle", "failed"})
    BY <1>1, <2>6 DEF ActiveIn, OthersStep
  <2>7. QED
    BY <2>5, <2>6
<1>2. CASE EndsStep(u)
  BY <1>2 DEF EndsStep, ActiveIn
<1>3. CASE OwnEmr(u)
  <2>1. CASE \E p \in {"Variable", "ClusterList", "ActiveResources"} : BeginListing(u, p)
    <3>1. /\ phase'[u] = "list" /\ UNCHANGED world
          /\ panel'[u] = "ActiveResources" => known'[u] = Active
      BY <2>1, <1>3 DEF BeginListing, Begin, PagingInv, ServerTypes, OwnEmr
    <3>2. QED
      BY <3>1, <1>3 DEF ActiveIn, Active, world, OwnEmr
  <2>2. CASE AskAppList(u) \/ AskUtilization(u)
    BY <2>2 DEF AskAppList, AskUtilization, Begin, PagingInv, ServerTypes, ActiveIn
  <2>3. Active' = Active /\ UNCHANGED <<span, now, activated_platform>>
    BY <1>3 DEF OwnEmr, world, Active, Ended
  <2>4. CASE ListPage(u)
    <3>1. panel[u] = "ActiveResources" => Matching(u) = Active /\ ArgsMarker(u) = active_state_args
      BY DEF Matching, ArgsMarker
    <3>2. \A c \in Active : c \in Clusters /\ 0 <= c /\ c < NoMarker
      <4>1. \A c \in Clusters : 0 <= c /\ c < NoMarker
        BY PageAssumption, PanelAssumption
      <4>2. QED
        BY <4>1 DEF Active
    <3> HIDE DEF Active, Rows
    <3>3. QED
      BY <2>3, <2>4, <3>1, <3>2, ListedPage DEF ActiveIn
  <2>5. CASE YieldPage(u) \/ DescribeCluster(u)
    <3>1. page'[u] \cup Rows(u)' = page[u] \cup Rows(u)
      BY <2>5, TakeKeeps DEF YieldPage, DescribeCluster, PagingInv
    <3>2. /\ phase[u] = "page" /\ phase'[u] = "page" /\ next'[u] = next[u]
          /\ panel'[u] = panel[u] /\ known'[u] = known[u] /\ active_state_args' = active_state_args
          /\ lost'[u] = lost[u]
      BY <2>5 DEF YieldPage, DescribeCluster, Take
    <3> HIDE DEF Active, Rows
    <3>3. QED
      BY <2>3, <3>1, <3>2 DEF ActiveIn
  <2>6. CASE NextPage(u)
    <3>1. /\ phase[u] = "page" /\ page[u] = {} /\ panel'[u] = panel[u]
          /\ count'[u] = count[u] /\ known'[u] = known[u] /\ lost'[u] = lost[u]
          /\ next[u] # 0 => phase'[u] = "list"
          /\ next[u] = 0 => active_state_args' = active_state_args
      BY <2>6 DEF NextPage, PagingInv, ServerTypes
    <3>2. phase'[u] # "page" /\ (panel[u] = "ActiveResources" => phase'[u] # "gaps")
      BY <2>6 DEF NextPage, AfterListing, PagingInv, ServerTypes
    <3>3. Rows(u)' = Rows(u)
      BY <3>1 DEF Rows
    <3> HIDE DEF Active, Rows
    <3>4. QED
      BY <2>3, <3>1, <3>2, <3>3 DEF ActiveIn
  <2>7. CASE FillEmrGaps(u)
    BY <2>7 DEF FillEmrGaps, FillGaps, Goto, ActiveIn
  <2>8. CASE Answer(u)
    <3>1. Rows(u)' = Rows(u) /\ phase[u] = "rows" /\ phase'[u] = "answered"
      BY <2>8 DEF Answer, Goto, Rows, PagingInv, ServerTypes
    <3>2. /\ panel'[u] = panel[u] /\ known'[u] = known[u] /\ lost'[u] = lost[u]
          /\ active_state_args' = active_state_args
      BY <2>8 DEF Answer, listing, paging
    <3> HIDE DEF Active, Rows
    <3>3. QED
      BY <2>3, <3>1, <3>2 DEF ActiveIn
  <2>9. CASE YieldListed(u)
    <3>1. PICK bad \in SUBSET page[u] :
            /\ lost'[u] = lost[u] \cup bad /\ page'[u] = {}
            /\ count'[u] = WithRows(u, page[u] \ bad)
      BY <2>9 DEF YieldListed, PagingInv, ServerTypes
    <3>2. /\ phase[u] = "page" /\ phase'[u] = "page" /\ next'[u] = next[u]
          /\ panel'[u] = panel[u] /\ known'[u] = known[u] /\ active_state_args' = active_state_args
          /\ panel[u] = "ActiveResources"
      BY <2>9 DEF YieldListed
    <3>3. Rows(u)' = Rows(u) \cup (page[u] \ bad)
      <4>1. \A c \in Clusters : count'[u][c] = IF c \in page[u] \ bad THEN 1 ELSE count[u][c]
        BY <3>1, <3>2 DEF WithRows
      <4>2. page[u] \subseteq Clusters
        BY DEF PagingInv, ServerTypes
      <4>3. QED
        BY <4>1, <4>2 DEF Rows
    <3>4. page'[u] \cup Rows(u)' \cup lost'[u] = page[u] \cup Rows(u) \cup lost[u]
      BY <3>1, <3>3
    <3> HIDE DEF Active, Rows
    <3>5. QED
      BY <2>3, <3>2, <3>4 DEF ActiveIn
  <2>10. CASE DescribeApp(u) \/ AnswerApps(u)
    BY <2>10 DEF DescribeApp, AnswerApps, Goto, requests, AppPhase, ActiveIn
  <2>11. QED
    BY <1>3, <2>1, <2>2, <2>4, <2>5, <2>6, <2>7, <2>8, <2>9, <2>10 DEF OwnEmr
<1>4. CASE OwnDbx(u)
  <2>1. CASE AskCost(u) \/ AskDbxList(u)
    BY <2>1 DEF AskCost, AskDbxList, Begin, ActiveIn, PagingInv, ServerTypes
  <2>2. CASE FilterClusters(u) \/ FillDbxGaps(u) \/ AnswerCosts(u)
    <3>1. panel[u] # "ActiveResources"
      BY <2>2, <1>4 DEF ActiveIn, OwnDbx, FilterClusters, FillDbxGaps, AnswerCosts, FillGaps, Goto
    <3>2. QED
      BY <2>2, <3>1 DEF ActiveIn, FilterClusters, FillDbxGaps, AnswerCosts, FillGaps
  <2>3. QED
    BY <1>4, <2>1, <2>2 DEF OwnDbx
<1>5. QED
  BY <1>1, <1>2, <1>3, <1>4, ThreadSteps

LEMMA ListHolds == QuerySpec => []ListInv
<1>1. QueryInit => ListInv
  BY DEF QueryInit, RequestInit, NoRows, ListInv, Listed, PastOnly, GapTrue, TrackedIn,
         AppPhase, CoveredIn, WholeIn, WholeList, WholeTotal, ActiveIn
<1>2. PagingInv /\ ListInv /\ [QueryNext]_queryVars => ListInv'
  <2> SUFFICES ASSUME PagingInv, ListInv, [QueryNext]_queryVars, NEW u \in Threads
               PROVE  Listed(u)'
    BY DEF ListInv
  <2>1. Listed(u)
    BY DEF ListInv
  <2>2. QED
    BY <2>1, PastStep, AppPhaseStep, GapTrueStep, TrackedStep, CoveredStep, WholeListStep,
       WholeTotalStep, ActiveStep DEF Listed, WholeIn
<1>3. QED
  BY <1>1, <1>2, PagingHolds, PTL DEF QuerySpec

-----------------------------------------------------------------------------
(* A tracked cluster first scraped within the range has a row in the cluster *)
(* list, unless its own query failed: the window reaches back at least to    *)
(* the start of the range (tsdb.py:184-194, 304-316).                        *)
THEOREM TrackedListed == QuerySpec => []TrackedAreListed
<1>1. PagingInv /\ ListInv => TrackedAreListed
  <2> SUFFICES ASSUME PagingInv, ListInv, NEW t \in Threads, AnswersList(t),
                      NEW c \in Tracked \ lost[t],
                      range[t].start < span[c].first, span[c].first <= range[t].end
               PROVE  count[t][c] = 1
    BY DEF TrackedAreListed
  <2>1. c \in Rows(t)
    BY DEF ListInv, Listed, TrackedIn, AnswersList, InTime
  <2>2. QED
    BY <2>1 DEF Rows, PagingInv, ServerTypes
<1>2. QED
  BY <1>1, PagingHolds, ListHolds, PTL

(* The start shown in a row from the database is the first scrape, as long    *)
(* as the window starts no earlier than the range (tsdb.py:266-316).          *)
THEOREM GapStarts == QuerySpec => []GapStartIsTrue
<1>1. ListInv => GapStartIsTrue
  BY DEF ListInv, Listed, GapTrue, GapStartIsTrue
<1>2. QED
  BY <1>1, ListHolds, PTL

(* Every cluster launched in the range that the API covers is in an answered  *)
(* list, however the pages fall (cloud.py:71-105).                            *)
THEOREM CoveredListed == QuerySpec => []CoveredAreListed
<1>1. PagingInv /\ ListInv => CoveredAreListed
  <2> SUFFICES ASSUME PagingInv, ListInv, NEW t \in Threads, phase[t] = "answered",
                      panel[t] \in {"Variable", "ClusterList"}, NEW c \in Covered \cap Launched(range[t])
               PROVE  count[t][c] = 1
    BY DEF CoveredAreListed
  <2>1. c \in Rows(t)
    BY DEF ListInv, Listed, CoveredIn, Wanted
  <2>2. QED
    BY <2>1 DEF Rows, PagingInv, ServerTypes
<1>2. QED
  BY <1>1, PagingHolds, ListHolds, PTL

(* An application list that is answered has every application sampled in the *)
(* range, and a total utilisation all of their clusters (cloud.py:182-208).   *)
THEOREM OverviewWhole == QuerySpec => []OverviewIsWhole
<1>1. PagingInv /\ ListInv => OverviewIsWhole
  <2> SUFFICES ASSUME PagingInv, ListInv, NEW t \in Threads, NEW a \in Apps,
                      phase[t] = "answered",
                      Scraped(span[RunsOn[a]], range[t].start + 1, range[t].end)
               PROVE  /\ panel[t] = "AppList" => a \in listed[t]
                      /\ panel[t] = "Utilization" => count[t][RunsOn[a]] = 1
    BY DEF OverviewIsWhole
  <2>1. a \in Sampled(t) /\ RunsOn[a] \in Ran(t)
    BY DEF Sampled, Ran
  <2>2. panel[t] = "AppList" => a \in listed[t]
    BY <2>1 DEF ListInv, Listed, WholeIn, WholeList
  <2>3. ASSUME panel[t] = "Utilization" PROVE count[t][RunsOn[a]] = 1
    <3>1. RunsOn[a] \in Rows(t)
      BY <2>1, <2>3 DEF ListInv, Listed, WholeIn, WholeTotal
    <3>2. QED
      BY <3>1 DEF Rows, PagingInv, ServerTypes
  <2>4. QED
    BY <2>2, <2>3
<1>2. QED
  BY <1>1, PagingHolds, ListHolds, PTL

(* Until a list of active clusters has needed a second page, every cluster    *)
(* that is active all the while and whose entry can be read is in it          *)
(* (cloud.py:88-112).                                                         *)
THEOREM ActiveListed == QuerySpec => []ActiveUntilPaged
<1>1. PagingInv /\ ListInv => ActiveUntilPaged
  <2> SUFFICES ASSUME PagingInv, ListInv, NEW t \in Threads, phase[t] = "answered",
                      panel[t] = "ActiveResources", active_state_args = NoMarker,
                      NEW c \in (known[t] \cap Active) \ lost[t]
               PROVE  count[t][c] = 1
    BY DEF ActiveUntilPaged
  <2>1. c \in Rows(t)
    BY DEF ListInv, Listed, ActiveIn
  <2>2. QED
    BY <2>1 DEF Rows, PagingInv, ServerTypes
<1>2. QED
  BY <1>1, PagingHolds, ListHolds, PTL
-----------------------------------------------------------------------------
(* What the clusters of Databricks cost.  A rate is the price of a node for *)
(* one scrape.                                                              *)
Ec2Rate(ty)    == IF installed /\ ty \in DOMAIN Ec2Price THEN Ec2Price[ty] ELSE 0
DbuRate(ty, k) == IF <<ty, k>> \in DOMAIN DbuPrice THEN DbuPrice[<<ty, k>>] ELSE 0

LEMMA RateTypes ==
  ASSUME NEW ty, NEW k
  PROVE  /\ Ec2Rate(ty) \in Nat /\ DbuRate(ty, k) \in Nat
         /\ DbuRate(ty, "None") = 0
         /\ \A time \in Int : /\ ec2_cost(ty, time) = Ec2Rate(ty) * time
                              /\ dbu_cost(ty, time, k) = DbuRate(ty, k) * time
<1>1. Ec2Rate(ty) \in Nat /\ DbuRate(ty, k) \in Nat
  BY DbxAssumption DEF Ec2Rate, DbuRate
<1>2. <<ty, "None">> \notin DOMAIN DbuPrice
  BY DbxAssumption DEF ClusterTypes
<1>3. DbuRate(ty, "None") = 0
  BY <1>2 DEF DbuRate
<1>4. \A time \in Int : ec2_cost(ty, time) = Ec2Rate(ty) * time
  BY DEF ec2_cost, Ec2Rate
<1>5. \A time \in Int : dbu_cost(ty, time, k) = DbuRate(ty, k) * time
  BY DEF dbu_cost, DbuRate
<1>6. QED
  BY <1>1, <1>3, <1>4, <1>5

LEMMA CostTypes ==
  ASSUME NEW ty, NEW k, NEW a \in Nat, NEW b \in Nat, a <= b
  PROVE  /\ ec2_cost(ty, a) \in Nat /\ dbu_cost(ty, a, k) \in Nat
         /\ ec2_cost(ty, a) <= ec2_cost(ty, b)
         /\ dbu_cost(ty, a, k) <= dbu_cost(ty, b, k)
<1>1. \A r \in Nat : r * a \in Nat /\ r * b \in Nat /\ r * a <= r * b
  OBVIOUS
<1>2. QED
  <2>1. /\ ec2_cost(ty, a) = Ec2Rate(ty) * a /\ ec2_cost(ty, b) = Ec2Rate(ty) * b
        /\ dbu_cost(ty, a, k) = DbuRate(ty, k) * a /\ dbu_cost(ty, b, k) = DbuRate(ty, k) * b
        /\ Ec2Rate(ty) \in Nat /\ DbuRate(ty, k) \in Nat
    <3>1. a \in Int /\ b \in Int
      OBVIOUS
    <3>2. QED
      BY <3>1, RateTypes, Zenon
  <2>2. QED
    BY <1>1, <2>1

LEMMA TypesFinite == IsFiniteSet(Types)
<1> DEFINE T == {TypeOf[n] : n \in Nodes}
           f == [n \in Nodes |-> TypeOf[n]]
<1>1. f \in Surjection(Nodes, T)
  BY DEF Surjection
<1>2. IsFiniteSet(T)
  BY <1>1, DbxAssumption, FS_Surjection
<1>3. QED
  BY <1>2, FS_Subset DEF Types

LEMMA KindsFinite == IsFiniteSet({"EC2", "DBU"})
<1>1. {"EC2", "DBU"} = ({} \cup {"EC2"}) \cup {"DBU"}
  OBVIOUS
<1>2. IsFiniteSet({} \cup {"EC2"})
  BY FS_EmptySet, FS_AddElement
<1>3. QED
  BY <1>1, <1>2, FS_AddElement

(* A node is scraped after its cluster is, if it is at all.                 *)
LEMMA NodeSpanTypes ==
  ASSUME ServerTypes, NEW n \in Nodes
  PROVE  /\ NodeSpan(n).first \in Nat /\ NodeSpan(n).last \in Nat
         /\ span[ClusterOf[n]].first <= NodeSpan(n).first
         /\ NodeSpan(n).last = span[ClusterOf[n]].last
<1>1. ClusterOf[n] \in Clusters /\ Joins[n] \in Nat
  BY DbxAssumption, PanelAssumption
<1>2. QED
  BY <1>1, SpanTypes DEF NodeSpan

LEMMA UptimeTypes ==
  ASSUME ServerTypes, NEW n \in Nodes, NEW from \in Int, NEW to \in Int
  PROVE  Uptime(n, from, to) \in Nat
BY NodeSpanTypes DEF Uptime, Later, Earlier

(* The runtime of a node is its uptime in the window, which is no less than *)
(* that in the range.                                                       *)
LEMMA RuntimeBounds ==
  ASSUME ServerTypes, NEW n \in Nodes, NEW r \in Ranges,
         NodeSpan(n).first <= NodeSpan(n).last
  PROVE  /\ node_runtime(n, r) \in Nat
         /\ Uptime(n, r.start + 1, r.end) <= node_runtime(n, r)
         /\ node_runtime(n, r) <= Uptime(n, WindowStart(r.start, r.end), r.end)
<1> DEFINE s  == NodeSpan(n)
           ws == WindowStart(r.start, r.end)
<1>1. s.first \in Nat /\ s.last \in Nat /\ s.first <= s.last
  BY NodeSpanTypes
<1>2. /\ r.start \in Nat /\ r.end \in Nat /\ ws \in Int /\ ws <= r.end
      /\ r.start <= r.end => ws <= r.start + 1
  BY RangeTypes
<1>3. node_runtime(n, r) = TLast(s, r.start, r.end) - TFirst(s, r.start, r.end)
  BY DEF node_runtime
<1>4. /\ Uptime(n, r.start + 1, r.end)
           = Later(0, Earlier(s.last, r.end) - Later(s.first, r.start + 1))
      /\ Uptime(n, ws, r.end) = Later(0, Earlier(s.last, r.end) - Later(s.first, ws))
  BY DEF Uptime
<1> HIDE DEF s
<1>5. CASE Scraped(s, ws, r.end)
  <2>1. node_runtime(n, r) = Earlier(s.last, r.end) - Later(s.first, ws)
    BY <1>3, <1>5 DEF TLast, TFirst
  <2>2. QED
    BY <1>1, <1>2, <1>4, <1>5, <2>1 DEF Earlier, Later, Scraped
<1>6. CASE ~Scraped(s, ws, r.end)
  <2>1. node_runtime(n, r) = 0
    BY <1>3, <1>6 DEF TLast, TFirst
  <2>2. QED
    BY <1>1, <1>2, <1>4, <1>6, <2>1 DEF Earlier, Later, Scraped
<1>7. QED
  BY <1>5, <1>6

(* The cost between two scrapes as one sum, of one function.                *)
Charge(from, to) == [n \in Nodes |-> CostOf(n, Uptime(n, from, to))]
Typed(nodes)     == {n \in nodes : TypeOf[n] # NoLabel}

LEMMA ChargeTypes ==
  ASSUME ServerTypes, NEW from \in Int, NEW to \in Int
  PROVE  \A n \in Nodes : Charge(from, to)[n] \in Nat
<1>1. ASSUME NEW n \in Nodes PROVE Charge(from, to)[n] \in Nat
  <2>1. Uptime(n, from, to) \in Nat
    BY UptimeTypes
  <2>2. CostOf(n, Uptime(n, from, to)) \in Nat
    <3> DEFINE u == Uptime(n, from, to)
    <3> HIDE DEF u
    <3>1. u \in Nat /\ u <= u
      BY <2>1 DEF u
    <3>2. CostOf(n, u) \in Nat
      BY <3>1, CostTypes DEF CostOf
    <3>3. QED
      BY <3>2 DEF u
  <2>3. QED
    BY <2>2 DEF Charge
<1>2. QED
  BY <1>1

LEMMA CostBetweenIsSum ==
  ASSUME ServerTypes, NEW nodes \in SUBSET Nodes, NEW from \in Int, NEW to \in Int
  PROVE  /\ IsFiniteSet(Typed(nodes))
         /\ CostBetween(nodes, from, to) = SumFunctionOnSet(Charge(from, to), Typed(nodes))
<1> DEFINE f == [n \in Typed(nodes) |-> CostOf(n, Uptime(n, from, to))]
<1>1. IsFiniteSet(Typed(nodes))
  BY DbxAssumption, FS_Subset DEF Typed
<1>2. CostBetween(nodes, from, to) = SumFunctionOnSet(f, Typed(nodes))
  BY Zenon DEF CostBetween, Typed, SumFunction
<1>3. \A n \in Typed(nodes) : f[n] = Charge(from, to)[n] /\ f[n] \in Int
  BY ChargeTypes DEF Charge, Typed
<1> HIDE DEF f
<1>4. SumFunctionOnSet(f, Typed(nodes)) = SumFunctionOnSet(Charge(from, to), Typed(nodes))
  BY <1>1, <1>3, SumEqual
<1>5. QED
  BY <1>1, <1>2, <1>4

LEMMA CostBetweenNat ==
  ASSUME ServerTypes, NEW nodes \in SUBSET Nodes, NEW from \in Int, NEW to \in Int
  PROVE  CostBetween(nodes, from, to) \in Nat
<1>1. \A n \in Typed(nodes) : Charge(from, to)[n] \in Nat
  BY ChargeTypes DEF Typed
<1>2. QED
  BY <1>1, CostBetweenIsSum, SumNat

LEMMA CostBetweenUnion ==
  ASSUME ServerTypes, NEW some \in SUBSET Nodes, NEW more \in SUBSET Nodes,
         some \cap more = {}, NEW from \in Int, NEW to \in Int
  PROVE  CostBetween(some \cup more, from, to)
           = CostBetween(some, from, to) + CostBetween(more, from, to)
<1> DEFINE f == Charge(from, to)
<1>1. /\ Typed(some \cup more) = Typed(some) \cup Typed(more)
      /\ Typed(some) \cap Typed(more) = {}
      /\ some \cup more \in SUBSET Nodes
  BY DEF Typed
<1>2. \A n \in Typed(some) \cup Typed(more) : f[n] \in Int
  BY ChargeTypes DEF Typed
<1> HIDE DEF f
<1>3. IsFiniteSet(Typed(some)) /\ IsFiniteSet(Typed(more))
  BY CostBetweenIsSum
<1>4. SumFunctionOnSet(f, Typed(some) \cup Typed(more))
        = SumFunctionOnSet(f, Typed(some)) + SumFunctionOnSet(f, Typed(more))
  BY <1>1, <1>2, <1>3, SumUnion
<1>5. QED
  BY <1>1, <1>4, CostBetweenIsSum DEF f

(* The costs by type and kind that _estimate_cost adds up are those of the  *)
(* nodes: grouping the runtimes by type loses and repeats none.             *)
LEMMA ItemsAreNodes ==
  ASSUME NEW nodes \in SUBSET Nodes, NEW r, NEW k, NEW m,
         \A n \in nodes : /\ node_runtime(n, r) \in Nat
                          /\ m[n] = ec2_cost(TypeOf[n], node_runtime(n, r))
                                      + dbu_cost(TypeOf[n], node_runtime(n, r), k)
  PROVE  SumFunctionOnSet(Cost(instance_times(nodes, r), k), Items)
           = SumFunctionOnSet(m, Typed(nodes))
<1> DEFINE T == Typed(nodes)
           Of(ty) == {n \in T : TypeOf[n] = ty}
           rt == [n \in nodes |-> node_runtime(n, r)]
           times == instance_times(nodes, r)
           cost == Cost(times, k)
           h == [ty \in Types |-> SumFunctionOnSet(m, Of(ty))]
<1>1. IsFiniteSet(T) /\ IsFiniteSet(Types) /\ \A ty : IsFiniteSet(Of(ty))
  BY DbxAssumption, TypesFinite, FS_Subset DEF Typed
<1>2. \A n \in T : n \in nodes /\ TypeOf[n] \in Types
  BY DEF Typed, Types
<1>3. \A n \in nodes : m[n] \in Int
  BY CostTypes
<1>4. SumFunctionOnSet(m, T) = SumFunctionOnSet(h, Types)
  <2>1. \A n \in T : m[n] \in Int
    BY <1>2, <1>3
  <2> HIDE DEF T
  <2>2. QED
    BY <1>1, <1>2, <2>1, SumByKey
<1>5. ASSUME NEW ty \in Types
      PROVE  /\ times[ty] = SumFunctionOnSet(rt, Of(ty)) /\ times[ty] \in Nat
             /\ h[ty] = (Ec2Rate(ty) + DbuRate(ty, k)) * times[ty]
  <2> DEFINE G == {n \in nodes : TypeOf[n] = ty}
             g == [n \in G |-> node_runtime(n, r)]
  <2>1. Of(ty) = G
    BY DEF Typed, Types
  <2>2. times[ty] = SumFunctionOnSet(g, G)
    BY Zenon DEF instance_times, SumFunction
  <2>3. \A n \in G : g[n] = rt[n] /\ g[n] \in Nat /\ rt[n] \in Nat
    OBVIOUS
  <2>4. \A n \in G : m[n] = (Ec2Rate(ty) + DbuRate(ty, k)) * rt[n]
    <3> SUFFICES ASSUME NEW n \in G PROVE m[n] = (Ec2Rate(ty) + DbuRate(ty, k)) * rt[n]
      OBVIOUS
    <3>1. m[n] = ec2_cost(ty, rt[n]) + dbu_cost(ty, rt[n], k)
      OBVIOUS
    <3>2. rt[n] \in Int /\ Ec2Rate(ty) \in Int /\ DbuRate(ty, k) \in Int
      BY <2>3, RateTypes
    <3>3. ec2_cost(ty, rt[n]) = Ec2Rate(ty) * rt[n] /\ dbu_cost(ty, rt[n], k) = DbuRate(ty, k) * rt[n]
      BY <3>2, RateTypes, Zenon
    <3>4. \A a, b, c \in Int : a * c + b * c = (a + b) * c
      OBVIOUS
    <3> HIDE DEF rt
    <3>5. QED
      BY <3>1, <3>2, <3>3, <3>4
  <2>5. IsFiniteSet(G)
    BY <1>1, <2>1
  <2>6. h[ty] = SumFunctionOnSet(m, G)
    BY <2>1
  <2> HIDE DEF G, g, rt
  <2>7. SumFunctionOnSet(g, G) = SumFunctionOnSet(rt, G) /\ SumFunctionOnSet(g, G) \in Nat
    BY <2>3, <2>5, SumEqual, SumNat
  <2>8. SumFunctionOnSet(m, G) = (Ec2Rate(ty) + DbuRate(ty, k)) * SumFunctionOnSet(rt, G)
    <3>1. Ec2Rate(ty) + DbuRate(ty, k) \in Int
      BY RateTypes
    <3>2. \A n \in G : rt[n] \in Int
      BY <2>3
    <3>3. QED
      BY <2>4, <2>5, <3>1, <3>2, SumScale
  <2> HIDE DEF h, times, Of
  <2>9. QED
    BY <2>1, <2>2, <2>6, <2>7, <2>8
<1> HIDE DEF times, h, rt, Of, T
<1>6. ASSUME NEW ty \in Types
      PROVE  /\ cost[<<ty, "EC2">>] = Ec2Rate(ty) * times[ty]
             /\ cost[<<ty, "DBU">>] = DbuRate(ty, k) * times[ty]
  <2>1. <<ty, "EC2">> \in Items /\ <<ty, "DBU">> \in Items
    BY DEF Items
  <2>2. times[ty] \in Int
    BY <1>5
  <2>3. /\ cost[<<ty, "EC2">>] = ec2_cost(ty, times[ty])
        /\ cost[<<ty, "DBU">>] = dbu_cost(ty, times[ty], k)
    BY <2>1 DEF Cost
  <2>4. /\ ec2_cost(ty, times[ty]) = Ec2Rate(ty) * times[ty]
        /\ dbu_cost(ty, times[ty], k) = DbuRate(ty, k) * times[ty]
    BY <2>2, RateTypes, Zenon
  <2>5. QED
    BY <2>3, <2>4
<1>7. ASSUME NEW ty \in Types
      PROVE  /\ cost[<<ty, "EC2">>] \in Int /\ cost[<<ty, "DBU">>] \in Int
             /\ h[ty] = cost[<<ty, "EC2">>] + cost[<<ty, "DBU">>]
  <2> HIDE DEF cost
  <2>1. times[ty] \in Int /\ Ec2Rate(ty) \in Int /\ DbuRate(ty, k) \in Int
    <3>1. times[ty] \in Nat
      BY <1>5
    <3>2. Ec2Rate(ty) \in Nat /\ DbuRate(ty, k) \in Nat
      BY RateTypes
    <3>3. QED
      BY <3>1, <3>2
  <2>2. \A a, b, c \in Int : a * c + b * c = (a + b) * c /\ a * c \in Int
    OBVIOUS
  <2>3. QED
    BY <1>5, <1>6, <2>1, <2>2
<1>8. SumFunctionOnSet(cost, Items) = SumFunctionOnSet(h, Types)
  <2> DEFINE type == [i \in Items |-> i[1]]
             Pair(ty) == {i \in Items : type[i] = ty}
             g == [ty \in Types |-> SumFunctionOnSet(cost, Pair(ty))]
  <2> HIDE DEF cost
  <2>1. ASSUME NEW i \in Items PROVE cost[i] \in Int /\ type[i] \in Types
    <3>1. PICK ty \in Types : i = <<ty, "EC2">> \/ i = <<ty, "DBU">>
      BY DEF Items
    <3>2. cost[<<ty, "EC2">>] \in Int /\ cost[<<ty, "DBU">>] \in Int
      BY <1>7
    <3>3. cost[i] \in Int
      BY <3>1, <3>2
    <3>4. type[i] = ty
      BY <3>1
    <3>5. QED
      BY <3>3, <3>4
  <2>2. IsFiniteSet({"EC2", "DBU"})
    BY KindsFinite
  <2>3. IsFiniteSet(Items)
    BY <1>1, <2>2, FS_Product DEF Items
  <2>4. SumFunctionOnSet(cost, Items) = SumFunctionOnSet(g, Types)
    <3>1. \A i \in Items : type[i] \in Types
      BY <2>1
    <3>2. \A i \in Items : cost[i] \in Int
      BY <2>1
    <3> HIDE DEF type
    <3>3. QED
      BY <1>1, <2>3, <3>1, <3>2, SumByKey
  <2>5. ASSUME NEW ty \in Types PROVE g[ty] = h[ty] /\ h[ty] \in Int
    <3>1. PICK e, d : e = <<ty, "EC2">> /\ d = <<ty, "DBU">>
      OBVIOUS
    <3>2. Pair(ty) = {e, d} /\ e # d
      BY <3>1 DEF Items
    <3>3. g[ty] = SumFunctionOnSet(cost, Pair(ty))
      OBVIOUS
    <3>4. cost[e] \in Int /\ cost[d] \in Int /\ h[ty] = cost[e] + cost[d]
      BY <1>7, <3>1
    <3> HIDE DEF g, Pair
    <3>5. SumFunctionOnSet(cost, {e, d}) = cost[e] + cost[d]
      BY <3>2, <3>4, SumTwo
    <3>6. QED
      BY <3>2, <3>3, <3>4, <3>5
  <2> HIDE DEF g
  <2>6. QED
    BY <1>1, <2>4, <2>5, SumEqual
<1>9. QED
  BY <1>4, <1>8 DEF times, T

(* What a cluster adds to TOTAL, its failing nodes aside.                   *)
LEMMA ClusterBounds ==
  ASSUME ServerTypes, NEW c \in Clusters, NEW r \in Ranges, r.end <= now,
         NEW nodes \in get_label_values(NodeSpans(c), r.start, r.end),
         NEW driver \in get_label_values(DriverSpan(c), r.start, r.end),
         NEW failing \in SUBSET nodes,
         NEW k, k = IF driver = {} THEN "None" ELSE determine_cluster_type(labels[c])
  PROVE  LET added == SumFunctionOnSet(Cost(instance_times(nodes \ failing, r), k), Items)
             these == NodesOf(c) \ failing
         IN  /\ added \in Nat
             /\ CostBetween(these, r.start + 1, r.end) <= added
             /\ added <= CostBetween(these, WindowStart(r.start, r.end), r.end)
<1> DEFINE ws == WindowStart(r.start, r.end)
           S == nodes \ failing
           these == NodesOf(c) \ failing
           N == Typed(these)
           T == Typed(S)
           m == [n \in Nodes |-> IF n \in S THEN ec2_cost(TypeOf[n], node_runtime(n, r))
                                                   + dbu_cost(TypeOf[n], node_runtime(n, r), k)
                                 ELSE 0]
           low == Charge(r.start + 1, r.end)
           high == Charge(ws, r.end)
           added == SumFunctionOnSet(Cost(instance_times(S, r), k), Items)
<1>1. /\ DOMAIN NodeSpans(c) = {n \in NodesOf(c) : NodeSpan(n).first <= NodeSpan(n).last}
      /\ \A n \in DOMAIN NodeSpans(c) : NodeSpans(c)[n] = NodeSpan(n)
  BY DEF NodeSpans
<1>2. /\ nodes \subseteq DOMAIN NodeSpans(c)
      /\ \A n \in DOMAIN NodeSpans(c) : Scraped(NodeSpan(n), r.start, r.end) => n \in nodes
  BY <1>1, LabelValues
<1>3. /\ \A n \in NodesOf(c) : n \in Nodes /\ ClusterOf[n] = c
      /\ S \in SUBSET Nodes /\ these \in SUBSET Nodes
  BY <1>1, <1>2 DEF NodesOf
<1>4. /\ r.start \in Int /\ r.end \in Int /\ ws \in Int /\ r.start + 1 \in Int
      /\ ws <= r.end /\ (r.start <= r.end => ws <= r.start + 1)
  BY RangeTypes
<1>5. ASSUME NEW n \in S
      PROVE  /\ node_runtime(n, r) \in Nat
             /\ Uptime(n, r.start + 1, r.end) <= node_runtime(n, r)
             /\ node_runtime(n, r) <= Uptime(n, ws, r.end)
  BY <1>1, <1>2, <1>3, RuntimeBounds
(* A node that is not returned has not run within the range, and neither    *)
(* has one whose driver is not returned.                                    *)
<1>6. ASSUME NEW n \in NodesOf(c), n \notin nodes \/ driver = {}
      PROVE  Uptime(n, r.start + 1, r.end) = 0
  <2> DEFINE s == NodeSpan(n)
  <2>1. /\ s.first \in Int /\ s.last \in Int
        /\ span[c].first <= s.first /\ s.last = span[c].last
        /\ span[c].first \in Int /\ span[c].last \in Int
    BY <1>3, NodeSpanTypes, SpanTypes
  <2>2. Uptime(n, r.start + 1, r.end)
          = Later(0, Earlier(s.last, r.end) - Later(s.first, r.start + 1))
    BY DEF Uptime
  <2>3. \/ s.first > s.last \/ ~Scraped(s, r.start, r.end)
    <3>1. CASE n \notin nodes
      BY <1>1, <1>2, <2>1, <3>1
    <3>2. CASE driver = {}
      <4>1. c \in Tracked
        BY <1>3, DbxAssumption
      <4>2. ~(c \in DOMAIN TrackedSpans /\ Scraped(span[c], r.start, r.end))
        <5>1. /\ c \in DOMAIN TrackedSpans =>
                   c \in DOMAIN DriverSpan(c) /\ DriverSpan(c)[c] = span[c]
          BY DEF DriverSpan
        <5>2. \A x \in DOMAIN DriverSpan(c) :
                ~Scraped(DriverSpan(c)[x], r.start, r.end)
          BY <3>2, LabelValues
        <5>3. QED
          BY <5>1, <5>2
      <4>3. c \in DOMAIN TrackedSpans \/ span[c].first > r.end
        <5>1. now \in Int
          BY DEF ServerTypes
        <5>2. QED
          BY <1>4, <2>1, <4>1, <5>1, TrackedSpansAre
      <4> HIDE DEF s
      <4>4. QED
        BY <1>4, <2>1, <4>2, <4>3 DEF Scraped
    <3>3. QED
      BY <1>6, <3>1, <3>2
  <2> HIDE DEF s
  <2>4. QED
    BY <1>4, <2>1, <2>2, <2>3 DEF Later, Earlier, Scraped
<1>7. ASSUME NEW n \in N
      PROVE  /\ low[n] \in Nat /\ m[n] \in Nat /\ high[n] \in Nat
             /\ low[n] <= m[n] /\ m[n] <= high[n]
  <2> DEFINE ty == TypeOf[n]
             d == determine_cluster_type(labels[c])
             lo == Uptime(n, r.start + 1, r.end)
             hi == Uptime(n, ws, r.end)
             rt == node_runtime(n, r)
  <2>1. n \in Nodes /\ ClusterOf[n] = c /\ n \in NodesOf(c)
    BY <1>3 DEF Typed
  <2>2. /\ low[n] = ec2_cost(ty, lo) + dbu_cost(ty, lo, d)
        /\ high[n] = ec2_cost(ty, hi) + dbu_cost(ty, hi, d)
    BY <2>1 DEF Charge, CostOf
  <2>3. lo \in Nat /\ hi \in Nat
    BY <1>4, <2>1, UptimeTypes
  <2>4. /\ ec2_cost(ty, lo) \in Nat /\ dbu_cost(ty, lo, d) \in Nat
        /\ ec2_cost(ty, hi) \in Nat /\ dbu_cost(ty, hi, d) \in Nat
    <3> HIDE DEF lo, hi, d
    <3>1. lo <= lo /\ hi <= hi
      BY <2>3
    <3>2. QED
      BY <2>3, <3>1, CostTypes
  <2>5. lo = 0 => ec2_cost(ty, lo) = 0 /\ dbu_cost(ty, lo, d) = 0
    <3> HIDE DEF lo, d
    <3>1. \A time \in Int : /\ ec2_cost(ty, time) = Ec2Rate(ty) * time
                            /\ dbu_cost(ty, time, d) = DbuRate(ty, d) * time
      BY RateTypes
    <3>2. Ec2Rate(ty) * 0 = 0 /\ DbuRate(ty, d) * 0 = 0
      BY RateTypes
    <3>3. 0 \in Int
      OBVIOUS
    <3>4. QED
      BY <3>1, <3>2, <3>3, Zenon
  <2>6. CASE n \notin S
    <3>1. n \notin nodes
      BY <2>6 DEF Typed
    <3>2. lo = 0 /\ m[n] = 0
      BY <1>6, <2>1, <2>6, <3>1
    <3> HIDE DEF low, high, m, lo, hi, d
    <3>3. QED
      BY <2>2, <2>4, <2>5, <3>2
  <2>7. CASE n \in S
    <3>1. m[n] = ec2_cost(ty, rt) + dbu_cost(ty, rt, k)
      BY <2>1, <2>7
    <3>2. rt \in Nat /\ lo <= rt /\ rt <= hi
      BY <1>5, <2>7
    <3>3. /\ ec2_cost(ty, rt) \in Nat /\ dbu_cost(ty, rt, k) \in Nat
          /\ ec2_cost(ty, lo) <= ec2_cost(ty, rt)
          /\ ec2_cost(ty, rt) <= ec2_cost(ty, hi)
          /\ dbu_cost(ty, lo, k) <= dbu_cost(ty, rt, k)
          /\ dbu_cost(ty, rt, k) <= dbu_cost(ty, hi, k)
      <4> HIDE DEF lo, hi, rt
      <4>1. QED
        BY <2>3, <3>2, CostTypes
    <3>4. CASE driver # {}
      <4>1. k = d
        BY <3>4
      <4> HIDE DEF low, high, m, lo, hi, rt, d
      <4>2. QED
        BY <2>2, <2>4, <3>1, <3>3, <4>1
    <3>5. CASE driver = {}
      <4>1. lo = 0
        BY <1>6, <2>1, <3>5
      <4>2. dbu_cost(ty, rt, k) = 0
        <5> HIDE DEF rt
        <5>1. k = "None" /\ rt \in Int
          BY <3>2, <3>5
        <5>2. dbu_cost(ty, rt, "None") = DbuRate(ty, "None") * rt /\ DbuRate(ty, "None") = 0
          BY <5>1, RateTypes, Zenon
        <5>3. QED
          BY <5>1, <5>2
      <4> HIDE DEF low, high, m, lo, hi, rt, d
      <4>3. QED
        BY <2>2, <2>4, <2>5, <3>1, <3>3, <4>1, <4>2
    <3>6. QED
      BY <3>4, <3>5
  <2>8. QED
    BY <2>6, <2>7
<1>8. IsFiniteSet(N) /\ IsFiniteSet(T) /\ IsFiniteSet(N \ T)
  BY <1>3, DbxAssumption, FS_Subset DEF Typed
<1>9. added = SumFunctionOnSet(m, T)
  <2>1. \A n \in S : /\ node_runtime(n, r) \in Nat
                     /\ m[n] = ec2_cost(TypeOf[n], node_runtime(n, r))
                                 + dbu_cost(TypeOf[n], node_runtime(n, r), k)
    BY <1>3, <1>5
  <2> HIDE DEF m, S
  <2>2. QED
    BY <1>3, <2>1, ItemsAreNodes
<1>10. SumFunctionOnSet(m, N) = SumFunctionOnSet(m, T) + SumFunctionOnSet(m, N \ T)
  <2>1. N = T \cup (N \ T) /\ T \cap (N \ T) = {} /\ \A n \in N : m[n] \in Int
    BY <1>1, <1>2, <1>7 DEF Typed
  <2>2. \A n \in T \cup (N \ T) : m[n] \in Int
    BY <2>1
  <2> HIDE DEF m, N, T
  <2>3. SumFunctionOnSet(m, T \cup (N \ T)) = SumFunctionOnSet(m, T) + SumFunctionOnSet(m, N \ T)
    BY <1>8, <2>1, <2>2, SumUnion
  <2>4. QED
    BY <2>1, <2>3
<1>11. SumFunctionOnSet(m, N \ T) = 0
  <2>1. \A n \in N \ T : m[n] = 0
    BY <1>3 DEF Typed
  <2> HIDE DEF m, N, T
  <2>2. QED
    BY <1>8, <2>1, SumZero
<1>12. /\ SumFunctionOnSet(low, N) <= SumFunctionOnSet(m, N)
       /\ SumFunctionOnSet(m, N) <= SumFunctionOnSet(high, N)
       /\ SumFunctionOnSet(m, N) \in Nat
  <2> HIDE DEF m, N, low, high
  <2>1. \A n \in N : low[n] \in Int /\ m[n] \in Int /\ high[n] \in Int
    BY <1>7
  <2>2. QED
    BY <1>7, <1>8, <2>1, SumLeq, SumNat
<1>13. SumFunctionOnSet(m, T) = SumFunctionOnSet(m, N)
  <2>1. SumFunctionOnSet(m, T) \in Int
    <3>1. \A n \in T : m[n] \in Int
      BY <1>1, <1>2, <1>7 DEF Typed
    <3>2. QED
      BY <1>8, <3>1, SumInt
  <2>2. QED
    BY <1>10, <1>11, <2>1
<1>14. /\ CostBetween(these, r.start + 1, r.end) = SumFunctionOnSet(low, N)
       /\ CostBetween(these, ws, r.end) = SumFunctionOnSet(high, N)
  BY <1>3, <1>4, CostBetweenIsSum
<1> HIDE DEF added, m, low, high, N, T
<1>15. /\ added \in Nat
       /\ CostBetween(these, r.start + 1, r.end) <= added
       /\ added <= CostBetween(these, ws, r.end)
  BY <1>9, <1>12, <1>13, <1>14
<1>16. QED
  BY <1>15 DEF added

(* What a request has added up is within the bounds of what it has priced.   *)
(* The parameters are values, so that they are the same after a step.        *)
Within(nodes, r, sum) ==
    /\ CostBetween(nodes, r.start + 1, r.end) <= sum
    /\ sum <= CostBetween(nodes, WindowStart(r.start, r.end), r.end)

PricedNodes(t) == {n \in Nodes : ClusterOf[n] \in priced[t]}

Summed(t, nodes, r, sum) ==
    nodes = PricedNodes(t) \ skipped[t] /\ r = range[t] /\ sum = total[t]

PricedIn(t) ==
    activated_platform = "AWS_DBX" =>
        /\ phase[t] \in {"list", "gaps"} => priced[t] = {} /\ skipped[t] = {} /\ total[t] = 0
        /\ phase[t] \in {"rows", "answered"} =>
            /\ skipped[t] \subseteq PricedNodes(t)
            /\ priced[t] \subseteq Rows(t)
            /\ phase[t] = "answered" => Rows(t) \subseteq priced[t]
            /\ \E nodes \in SUBSET Nodes, r \in Ranges, sum \in Nat :
                 Summed(t, nodes, r, sum) /\ Within(nodes, r, sum)

(* A price list is installed only when no request is in progress.            *)
DownIsIdle == up \in BOOLEAN /\ (~up => \A t \in Threads : phase[t] = "idle")

PriceTypes ==
    /\ priced \in [Threads -> SUBSET Clusters]
    /\ skipped \in [Threads -> SUBSET Nodes]
    /\ total \in [Threads -> Nat]

PricedInv == PriceTypes /\ DownIsIdle /\ \A t \in Threads : PricedIn(t)

LEMMA WithinKept ==
  ASSUME UNCHANGED <<span, settings>>, NEW nodes, NEW r, NEW sum
  PROVE  Within(nodes, r, sum)' <=> Within(nodes, r, sum)
<1>1. ASSUME NEW from, NEW to
      PROVE  CostBetween(nodes, from, to)' = CostBetween(nodes, from, to)
  <2>1. \A n : CostOf(n, Uptime(n, from, to))' = CostOf(n, Uptime(n, from, to))
    BY DEF settings, CostOf, Uptime, NodeSpan, ec2_cost, dbu_cost
  <2>2. [n \in {m \in nodes : TypeOf[m] # NoLabel} |-> CostOf(n, Uptime(n, from, to))]'
          = [n \in {m \in nodes : TypeOf[m] # NoLabel} |-> CostOf(n, Uptime(n, from, to))]
    BY <2>1
  <2>3. QED
    BY <2>2, Zenon DEF CostBetween
<1>2. QED
  BY <1>1 DEF Within

LEMMA WithinNothing == ASSUME NEW r PROVE Within({}, r, 0) /\ Within({}, r, 0)'
<1>1. ASSUME NEW from, NEW to
      PROVE  CostBetween({}, from, to) = 0 /\ CostBetween({}, from, to)' = 0
  <2>1. \A f : DOMAIN f = {} => SumFunction(f) = 0
    BY SumEmpty, Zenon DEF SumFunction
  <2>2. {m \in {} : TypeOf[m] # NoLabel} = {}
    OBVIOUS
  <2>3. QED
    BY <2>1, <2>2 DEF CostBetween
<1>2. QED
  BY <1>1 DEF Within

LEMMA WithinUnion ==
  ASSUME ServerTypes, NEW r \in Ranges, NEW some \in SUBSET Nodes, NEW more \in SUBSET Nodes,
         some \cap more = {}, NEW x \in Nat, NEW y \in Nat, Within(some, r, x), Within(more, r, y)
  PROVE  Within(some \cup more, r, x + y)
<1>1. PICK lo \in Int, ws \in Int, hi \in Int :
        lo = r.start + 1 /\ hi = r.end /\ ws = WindowStart(r.start, r.end)
  BY RangeTypes
<1>2. ASSUME NEW from \in Int
      PROVE  /\ CostBetween(some, from, hi) \in Nat /\ CostBetween(more, from, hi) \in Nat
             /\ CostBetween(some \cup more, from, hi)
                  = CostBetween(some, from, hi) + CostBetween(more, from, hi)
  BY CostBetweenNat, CostBetweenUnion
<1>3. /\ CostBetween(some, lo, hi) <= x /\ x <= CostBetween(some, ws, hi)
      /\ CostBetween(more, lo, hi) <= y /\ y <= CostBetween(more, ws, hi)
  BY <1>1 DEF Within
<1>4. /\ CostBetween(some \cup more, lo, hi) <= x + y
      /\ x + y <= CostBetween(some \cup more, ws, hi)
  <2>1. \A a, b, c \in Nat : a <= x /\ b <= y /\ c = a + b => c <= x + y
    OBVIOUS
  <2>2. \A a, b, c \in Nat : x <= a /\ y <= b /\ c = a + b => x + y <= c
    OBVIOUS
  <2>3. CostBetween(some \cup more, lo, hi) \in Nat /\ CostBetween(some \cup more, ws, hi) \in Nat
    BY CostBetweenNat
  <2>4. QED
    BY <1>2, <1>3, <2>1, <2>2, <2>3
<1>5. QED
  BY <1>1, <1>4 DEF Within

(* What PriceCluster does to the sums.                                       *)
LEMMA ClusterPriced ==
  ASSUME PagingInv, ListInv, NEW t \in Threads, NEW c \in Clusters, PriceCluster(t, c)
  PROVE  \E failing \in SUBSET NodesOf(c), added \in Nat :
            /\ skipped' = [skipped EXCEPT ![t] = @ \cup failing]
            /\ total' = [total EXCEPT ![t] = @ + added]
            /\ Within(NodesOf(c) \ failing, range[t], added)
<1>1. PICK r \in Ranges : r = range[t]
  BY DEF PagingInv, ServerTypes
<1>2. r.end <= now
  BY <1>1 DEF PriceCluster, ListInv, Listed, PastOnly
<1>3. PICK nodes \in get_label_values(NodeSpans(c), r.start, r.end),
           driver \in get_label_values(DriverSpan(c), r.start, r.end) :
             \E failing \in SUBSET nodes :
               LET clusterType == IF driver = {} THEN "None"
                                  ELSE determine_cluster_type(labels[c])
               IN  /\ skipped' = [skipped EXCEPT ![t] = @ \cup failing]
                   /\ AddTotal(t, Cost(instance_times(nodes \ failing, r), clusterType))
  BY <1>1 DEF PriceCluster
<1>4. PICK k : k = IF driver = {} THEN "None" ELSE determine_cluster_type(labels[c])
  OBVIOUS
<1>5. PICK failing \in SUBSET nodes :
         /\ skipped' = [skipped EXCEPT ![t] = @ \cup failing]
         /\ AddTotal(t, Cost(instance_times(nodes \ failing, r), k))
  BY <1>3, <1>4
<1>6. PICK added : added = SumFunctionOnSet(Cost(instance_times(nodes \ failing, r), k), Items)
  OBVIOUS
<1>7. /\ added \in Nat
      /\ CostBetween(NodesOf(c) \ failing, r.start + 1, r.end) <= added
      /\ added <= CostBetween(NodesOf(c) \ failing, WindowStart(r.start, r.end), r.end)
  BY <1>2, <1>4, <1>6, ClusterBounds DEF PagingInv
<1>8. total' = [total EXCEPT ![t] = @ + added]
  BY <1>5, <1>6, Zenon DEF AddTotal
<1>9. failing \in SUBSET NodesOf(c)
  BY LabelValues DEF NodeSpans
<1>10. QED
  BY <1>1, <1>5, <1>7, <1>8, <1>9 DEF Within

(* What a step does to the sums of the request of thread u: they stay, begin *)
(* anew, grow by a cluster, or are answered; or the request has ended.       *)
SumsKept(u) ==
    /\ UNCHANGED <<activated_platform, span>>
    /\ phase[u] # "idle" => UNCHANGED settings
    /\ phase'[u] = phase[u] /\ range'[u] = range[u] /\ count'[u] = count[u]
    /\ priced'[u] = priced[u] /\ skipped'[u] = skipped[u] /\ total'[u] = total[u]

SumsBegin(u) ==
    /\ phase'[u] \in {"list", "gaps", "rows"}
    /\ priced'[u] = {} /\ skipped'[u] = {} /\ total'[u] = 0

LEMMA SumSteps ==
  ASSUME PagingInv, PricedInv, [QueryNext]_queryVars, NEW u \in Threads
  PROVE  \/ SumsKept(u) \/ SumsBegin(u)
         \/ phase'[u] \in {"idle", "failed"} \/ activated_platform' = "AWS_EMR"
         \/ /\ UNCHANGED <<activated_platform, span, settings>>
            /\ AnswerCosts(u) \/ \E c \in Clusters : PriceCluster(u, c)
<1> USE DEF PagingInv, ServerTypes, PricedInv, PriceTypes
<1>1. CASE Install \/ Pass \/ UNCHANGED queryVars
  BY <1>1 DEF Install, Pass, Tick, queryVars, emrVars, baseVars, world, requests, pricing, settings, SumsKept
<1>2. CASE StartServer
  <2>1. phase[u] = "idle" /\ UNCHANGED <<emrVars, pricing>>
    BY <1>2 DEF StartServer, Start, DownIsIdle
  <2>2. QED
    BY <2>1 DEF emrVars, baseVars, world, requests, pricing, SumsKept
<1>3. CASE Restart
  BY <1>3 DEF Restart, Drop
<1>4. CASE \E t \in Threads : EmrRequest(t) \/ EmrProgress(t)
  BY <1>4 DEF EmrRequest, EmrProgress, world
<1>5. ASSUME NEW t \in Threads, DbxRequest(t) \/ DbxProgress(t)
      PROVE  \/ SumsKept(u) \/ SumsBegin(u) \/ phase'[u] = "failed"
             \/ /\ UNCHANGED <<activated_platform, span, settings>>
                /\ AnswerCosts(u) \/ \E c \in Clusters : PriceCluster(u, c)
  <2>1. /\ activated_platform = "AWS_DBX" /\ UNCHANGED world
        /\ AskCost(t) \/ AskDbxList(t) \/ FilterClusters(t) \/ FillDbxGaps(t) \/ AnswerCosts(t)
             \/ RaiseDbx(t) \/ \E c \in Clusters : PriceCluster(t, c) \/ UnsupportedRuntime(t, c)
    BY <1>5 DEF DbxRequest, DbxProgress, DbxAsk, DbxStep
  <2> USE <2>1 DEF world, SumsKept, SumsBegin
  <2>2. CASE AskCost(t) \/ AskDbxList(t)
    BY <2>2 DEF AskCost, AskDbxList, Begin, NoPricing
  <2>3. CASE FilterClusters(t)
    BY <2>3 DEF FilterClusters, Goto, pricing, PricedIn
  <2>4. CASE FillDbxGaps(t)
    <3>1. /\ phase[t] = "gaps" /\ phase' = [phase EXCEPT ![t] = "rows"]
          /\ \A v \in Threads \ {t} : count'[v] = count[v]
          /\ UNCHANGED <<range, settings, pricing>>
      BY <2>4, GapTypes DEF FillDbxGaps
    <3>2. QED
      BY <3>1 DEF pricing, PricedIn
  <2>5. CASE AnswerCosts(t)
    BY <2>5 DEF AnswerCosts, Goto, pricing
  <2>6. CASE RaiseDbx(t) \/ \E c \in Clusters : UnsupportedRuntime(t, c)
    BY <2>6 DEF RaiseDbx, UnsupportedRuntime, Fail, Discard, NoPricing
  <2>7. ASSUME NEW c \in Clusters, PriceCluster(t, c)
        PROVE  SumsKept(u) \/ (UNCHANGED settings /\ PriceCluster(u, c))
    <3>1. /\ UNCHANGED <<phase, range, count, settings>>
          /\ u # t => priced'[u] = priced[u] /\ skipped'[u] = skipped[u] /\ total'[u] = total[u]
      BY <2>7 DEF PriceCluster, AddTotal
    <3>2. QED
      BY <2>7, <3>1
  <2>8. QED
    BY <2>2, <2>3, <2>4, <2>5, <2>6, <2>7
<1>6. QED
  BY <1>1, <1>2, <1>3, <1>4, <1>5 DEF QueryNext

LEMMA PricedStep ==
  ASSUME PagingInv, ListInv, PricedInv, [QueryNext]_queryVars, NEW u \in Threads
  PROVE  PricedIn(u)'
<1>0. PricedIn(u)
  BY DEF PricedInv
<1>1. CASE SumsKept(u)
  <2>1. CASE phase[u] \notin {"rows", "answered"} \/ activated_platform # "AWS_DBX"
    BY <1>0, <1>1, <2>1 DEF SumsKept, PricedIn
  <2>2. CASE phase[u] \in {"rows", "answered"} /\ activated_platform = "AWS_DBX"
    <3>1. PICK nodes \in SUBSET Nodes, r \in Ranges, sum \in Nat :
            Summed(u, nodes, r, sum) /\ Within(nodes, r, sum)
      BY <1>0, <2>2 DEF PricedIn
    <3>2. Summed(u, nodes, r, sum)'
      BY <1>1, <3>1 DEF SumsKept, Summed, PricedNodes
    <3>3. Within(nodes, r, sum)'
      BY <1>1, <2>2, <3>1, WithinKept DEF SumsKept
    <3>4. QED
      BY <1>0, <1>1, <2>2, <3>2, <3>3 DEF SumsKept, PricedIn, PricedNodes, Rows
  <2>3. QED
    BY <2>1, <2>2
<1>2. CASE SumsBegin(u)
  <2>1. PICK r \in Ranges : r = range'[u]
    <3>1. PagingInv'
      BY PagingStep
    <3>2. QED
      BY <3>1 DEF PagingInv, ServerTypes
  <2>2. Summed(u, {}, r, 0)' /\ Within({}, r, 0)'
    BY <1>2, <2>1, WithinNothing DEF SumsBegin, Summed, PricedNodes
  <2>3. QED
    BY <1>2, <2>2 DEF SumsBegin, PricedIn
<1>3. CASE phase'[u] \in {"idle", "failed"} \/ activated_platform' = "AWS_EMR"
  BY <1>3 DEF PricedIn
<1>4. CASE UNCHANGED <<activated_platform, span, settings>> /\ AnswerCosts(u)
  <2>1. /\ phase[u] = "rows" /\ phase'[u] = "answered" /\ Rows(u) \subseteq priced[u]
        /\ UNCHANGED <<range, count, pricing>>
    BY <1>4 DEF AnswerCosts, Goto, PagingInv, ServerTypes
  <2>2. CASE activated_platform = "AWS_DBX"
    <3>1. PICK nodes \in SUBSET Nodes, r \in Ranges, sum \in Nat :
            Summed(u, nodes, r, sum) /\ Within(nodes, r, sum)
      BY <1>0, <2>1, <2>2 DEF PricedIn
    <3>2. Summed(u, nodes, r, sum)'
      BY <2>1, <3>1 DEF pricing, Summed, PricedNodes
    <3>3. Within(nodes, r, sum)'
      BY <1>4, <3>1, WithinKept
    <3>4. QED
      BY <1>0, <2>1, <2>2, <3>2, <3>3 DEF pricing, PricedIn, PricedNodes, Rows
  <2>3. QED
    BY <1>4, <2>2 DEF PricedIn
<1>5. ASSUME NEW c \in Clusters, PriceCluster(u, c), UNCHANGED <<activated_platform, span, settings>>
      PROVE  PricedIn(u)'
  <2> SUFFICES ASSUME activated_platform = "AWS_DBX" PROVE PricedIn(u)'
    BY <1>5 DEF PricedIn
  <2>1. /\ phase[u] = "rows" /\ c \in Rows(u) /\ c \notin priced[u]
        /\ UNCHANGED <<phase, range, count>> /\ priced'[u] = priced[u] \cup {c}
    BY <1>5 DEF PriceCluster, PricedInv, PriceTypes
  <2>2. PICK nodes \in SUBSET Nodes, r \in Ranges, sum \in Nat :
          Summed(u, nodes, r, sum) /\ Within(nodes, r, sum)
    BY <1>0, <2>1 DEF PricedIn
  <2>3. PICK failing \in SUBSET NodesOf(c), added \in Nat :
          /\ skipped' = [skipped EXCEPT ![u] = @ \cup failing]
          /\ total' = [total EXCEPT ![u] = @ + added]
          /\ Within(NodesOf(c) \ failing, range[u], added)
    BY <1>5, ClusterPriced
  <2>4. PICK more \in SUBSET Nodes : more = NodesOf(c) \ failing
    BY DEF NodesOf
  <2>5. skipped[u] \subseteq PricedNodes(u) /\ PricedNodes(u) \cap NodesOf(c) = {}
    BY <1>0, <2>1 DEF PricedIn, PricedNodes, NodesOf
  <2>6. /\ PricedNodes(u)' = PricedNodes(u) \cup NodesOf(c)
        /\ skipped'[u] = skipped[u] \cup failing /\ total'[u] = total[u] + added
    BY <2>1, <2>3 DEF PricedNodes, NodesOf, PricedInv, PriceTypes
  <2>7. Summed(u, nodes \cup more, r, sum + added)'
    BY <2>1, <2>2, <2>4, <2>5, <2>6 DEF Summed
  <2>8. nodes \cap more = {}
    BY <2>2, <2>4, <2>5 DEF Summed
  <2>9. Within(nodes \cup more, r, sum + added)
    BY <2>2, <2>3, <2>4, <2>8, WithinUnion DEF Summed, PagingInv
  <2>10. Within(nodes \cup more, r, sum + added)'
    BY <1>5, <2>9, WithinKept
  <2>11. skipped'[u] \subseteq PricedNodes(u)'
    BY <2>5, <2>6
  <2>12. priced'[u] \subseteq Rows(u)'
    BY <1>0, <2>1 DEF PricedIn, Rows
  <2>13. nodes \cup more \in SUBSET Nodes /\ sum + added \in Nat
    OBVIOUS
  <2>14. QED
    BY <2>1, <2>7, <2>10, <2>11, <2>12, <2>13 DEF PricedIn
<1>6. QED
  BY <1>1, <1>2, <1>3, <1>4, <1>5, SumSteps

LEMMA DownIdleStep ==
  ASSUME PagingInv, DownIsIdle, [QueryNext]_queryVars PROVE DownIsIdle'
<1> USE DEF DownIsIdle
<1>1. CASE Install
  BY <1>1 DEF Install, RunScript, ScriptStep, NextRegion, Download, Open, Write, Finish, Abort,
              emrVars, baseVars, requests
<1>2. CASE StartServer
  BY <1>2 DEF StartServer, Start
<1>3. CASE Restart
  BY <1>3 DEF Restart, Stop, Drop
<1>4. CASE \/ Pass \/ UNCHANGED queryVars
           \/ \E t \in Threads : EmrRequest(t) \/ EmrProgress(t) \/ DbxRequest(t) \/ DbxProgress(t)
  <2>1. up' = up /\ (~up => phase' = phase)
    BY <1>4 DEF Pass, EmrRequest, EmrProgress, DbxRequest, DbxProgress, files, requests,
                queryVars, emrVars, baseVars
  <2>2. QED
    BY <2>1
<1>5. QED
  BY <1>1, <1>2, <1>3, <1>4 DEF QueryNext

LEMMA PriceTypesStep ==
  ASSUME PagingInv, ListInv, PriceTypes, [QueryNext]_queryVars PROVE PriceTypes'
<1> USE DEF PriceTypes
<1>1. CASE \/ Install \/ StartServer \/ Pass \/ UNCHANGED queryVars
           \/ \E t \in Threads : EmrRequest(t) \/ EmrProgress(t)
  BY <1>1 DEF Install, StartServer, Pass, EmrRequest, EmrProgress, queryVars, pricing
<1>2. ASSUME NEW T \in SUBSET Threads, NoPricing(T) PROVE PriceTypes'
  BY <1>2 DEF NoPricing
<1>3. CASE Restart
  BY <1>2, <1>3 DEF Restart
<1>4. ASSUME NEW t \in Threads, DbxRequest(t) \/ DbxProgress(t)
      PROVE  PriceTypes'
  <2>1. CASE NoPricing({t})
    BY <1>2, <2>1
  <2>2. CASE UNCHANGED pricing
    BY <2>2 DEF pricing
  <2>3. ASSUME NEW c \in Clusters, PriceCluster(t, c) PROVE PriceTypes'
    <3>1. PICK failing \in SUBSET NodesOf(c), added \in Nat :
            /\ skipped' = [skipped EXCEPT ![t] = @ \cup failing]
            /\ total' = [total EXCEPT ![t] = @ + added]
      BY <2>3, ClusterPriced
    <3>2. failing \in SUBSET Nodes /\ priced' = [priced EXCEPT ![t] = @ \cup {c}]
      BY <2>3 DEF NodesOf, PriceCluster
    <3>3. QED
      BY <3>1, <3>2
  <2>4. QED
    BY <1>4, <2>1, <2>2, <2>3
       DEF DbxRequest, DbxProgress, DbxAsk, DbxStep, AskCost, AskDbxList, FilterClusters,
           FillDbxGaps, AnswerCosts, RaiseDbx, UnsupportedRuntime
<1>5. QED
  BY <1>1, <1>3, <1>4 DEF QueryNext

LEMMA PricedHolds == QuerySpec => []PricedInv
<1>1. QueryInit => PricedInv
  <2> SUFFICES ASSUME QueryInit PROVE PricedInv
    OBVIOUS
  <2>1. \A t \in Threads : phase[t] = "idle"
    BY DEF QueryInit, RequestInit
  <2>2. PriceTypes
    BY DEF QueryInit, DbxInit, PriceTypes
  <2>3. up \in BOOLEAN
    BY DEF QueryInit, FilesInit
  <2>4. QED
    BY <2>1, <2>2, <2>3 DEF PricedInv, DownIsIdle, PricedIn
<1>2. PagingInv /\ ListInv /\ PricedInv /\ [QueryNext]_queryVars => PricedInv'
  <2> SUFFICES ASSUME PagingInv, ListInv, PricedInv, [QueryNext]_queryVars PROVE PricedInv'
    OBVIOUS
  <2>1. PriceTypes' /\ DownIsIdle'
    BY PriceTypesStep, DownIdleStep DEF PricedInv
  <2>2. ASSUME NEW u \in Threads PROVE PricedIn(u)'
    BY PricedStep
  <2>3. QED
    BY <2>1, <2>2 DEF PricedInv
<1>3. QED
  BY <1>1, <1>2, PagingHolds, ListHolds, PTL DEF QuerySpec

(* Every answered cost of a list of Databricks clusters is no less than what  *)
(* their nodes cost within the range, and no more than within the window:     *)
(* grouping the runtimes by type and the clusters by query neither loses a    *)
(* node nor counts one twice (cloud.py:213-347, estimator.py:177-207).        *)
THEOREM CostsInWindow == QuerySpec => []CostWithinWindow
<1>1. PagingInv /\ PricedInv => CostWithinWindow
  <2> SUFFICES ASSUME PagingInv, PricedInv, NEW t \in Threads,
                      phase[t] = "answered", activated_platform = "AWS_DBX"
               PROVE  LET r     == range[t]
                          nodes == {n \in Nodes : ClusterOf[n] \in Rows(t)}
                      IN  /\ CostBetween(nodes \ skipped[t], r.start + 1, r.end) <= total[t]
                          /\ total[t] <= CostBetween(nodes \ skipped[t],
                                                     WindowStart(r.start, r.end), r.end)
    BY DEF CostWithinWindow
  <2>1. PICK nodes \in SUBSET Nodes, r \in Ranges, sum \in Nat :
          Summed(t, nodes, r, sum) /\ Within(nodes, r, sum)
    BY DEF PricedInv, PricedIn
  <2>2. Rows(t) = priced[t]
    BY DEF PricedInv, PricedIn
  <2>3. nodes = {n \in Nodes : ClusterOf[n] \in Rows(t)} \ skipped[t]
    BY <2>1, <2>2 DEF Summed, PricedNodes
  <2>4. QED
    BY <2>1, <2>3 DEF Summed, Within
<1>2. QED
  BY <1>1, PagingHolds, PricedHolds, PTL

=============================================================================
