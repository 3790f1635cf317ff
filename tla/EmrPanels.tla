----------------------------- MODULE EmrPanels ------------------------------
(***************************************************************************)
(* The panels and the variable query that list EMR clusters: paging        *)
(* through list_clusters with a Marker, describing each cluster through    *)
(* cluster_cache, and the rows from the database after that.               *)
(*                                                                         *)
(* list_clusters sends the newest clusters first, PageSize at a time; its  *)
(* Marker stands for the last cluster sent, and 0 for a page without one.  *)
(* get_active_cluster_ids passes the class attribute active_state_args,    *)
(* where _get_cluster_info writes the Marker, the others a dictionary of   *)
(* their own.                                                              *)
(***************************************************************************)
EXTENDS PanelRequests

CONSTANTS
    PageSize,
    NoMarker,  \* no 'Marker' in kwargs: above every cluster
    Apps,      \* the applications with samples in the database
    RunsOn     \* the cluster of each, sampled as long as the cluster is

ASSUME PageAssumption ==
    /\ RunsOn \in [Apps -> Tracked]
    /\ PageSize \in Nat \ {0}
    /\ NoMarker \in Nat /\ \A c \in Clusters : c < NoMarker

VARIABLES
    marker,             \* kwargs['Marker'] of each request
    active_state_args,  \* the Marker in EmrUtils.active_state_args
    page,               \* what a request has yet to handle of a page or list
    next,               \* the Marker that came with the page
    cluster_cache,      \* Inject.cluster_cache
    known,              \* the clusters active when the request began
    apps,               \* the applications a list has yet to describe
    listed              \* those it has

paging  == <<marker, active_state_args, page, next, known>>
appList == <<apps, listed>>
listing == <<paging, appList>>
emrVars == <<baseVars, listing, cluster_cache>>

EmrInit ==
    /\ marker = [t \in Threads |-> NoMarker]
    /\ active_state_args = NoMarker
    /\ page = [t \in Threads |-> {}]
    /\ next = [t \in Threads |-> 0]
    /\ cluster_cache = {}
    /\ known = [t \in Threads |-> {}]
    /\ apps = [t \in Threads |-> {}]
    /\ listed = [t \in Threads |-> {}]

-----------------------------------------------------------------------------
(* The locals of the requests of threads T end with them.                   *)
NoListing(T) ==
    /\ marker' = [t \in Threads |-> IF t \in T THEN NoMarker ELSE marker[t]]
    /\ page' = [t \in Threads |-> IF t \in T THEN {} ELSE page[t]]
    /\ next' = [t \in Threads |-> IF t \in T THEN 0 ELSE next[t]]
    /\ known' = [t \in Threads |-> IF t \in T THEN {} ELSE known[t]]
    /\ apps' = [t \in Threads |-> IF t \in T THEN {} ELSE apps[t]]
    /\ listed' = [t \in Threads |-> IF t \in T THEN {} ELSE listed[t]]

(* Clusters created in the range, or, for the panel on active resources,    *)
(* those in state RUNNING or WAITING.                                       *)
Matching(t) ==
    IF panel[t] = "ActiveResources" THEN Active ELSE Covered \cap Launched(range[t])

ArgsMarker(t) ==
    IF panel[t] = "ActiveResources" THEN active_state_args ELSE marker[t]

Page(S, m) ==
    {c \in S : c < m /\ Cardinality({d \in S : c < d /\ d < m}) < PageSize}
More(S, m) == {c \in S : c < m} # Page(S, m)

BeginListing(t, p) ==
    /\ Begin(t, p, "list", {})
    /\ marker' = [marker EXCEPT ![t] = NoMarker]
    /\ known' = [known EXCEPT ![t] = IF p = "ActiveResources" THEN Active ELSE {}]
    /\ listed' = [listed EXCEPT ![t] = {}]
    /\ UNCHANGED <<active_state_args, page, next, apps, cluster_cache>>

ListPage(t) ==
    /\ Goto(t, "list", "page")
    /\ LET S == Matching(t)
           m == ArgsMarker(t)
       IN  /\ page' = [page EXCEPT ![t] = Page(S, m)]
           /\ \/ /\ More(S, m)
                 /\ \E c \in Page(S, m) : /\ \A d \in Page(S, m) : c <= d
                                        /\ next' = [next EXCEPT ![t] = c]
              \/ ~More(S, m) /\ next' = [next EXCEPT ![t] = 0]
    /\ UNCHANGED <<panel, range, count, gap, lost, faults, marker,
                   active_state_args, known, appList, cluster_cache>>

(* What is described next: clusters that were listed in the order of the    *)
(* list, the set of a total utilisation in any.                             *)
IsNext(t, c) ==
    c \in page[t] /\ (panel[t] = "ClusterList" => \A d \in page[t] : d <= c)

(* One row more of each cluster of S; get_active_cluster_ids makes a set.   *)
WithRows(t, S) ==
    [c \in Clusters |->
        IF c \notin S THEN count[t][c]
        ELSE IF panel[t] = "ActiveResources" THEN 1 ELSE count[t][c] + 1]

Take(t, S) ==
    /\ page' = [page EXCEPT ![t] = @ \ S]
    /\ count' = [count EXCEPT ![t] = WithRows(t, S)]
    /\ UNCHANGED <<panel, range, gap, marker, active_state_args, next, known,
                   appList>>

(* get_cluster_ids takes the IDs as listed.                                *)
YieldPage(t) ==
    /\ phase[t] = "page" /\ page[t] # {}
    /\ panel[t] = "Variable"
    /\ Take(t, page[t])
    /\ UNCHANGED <<phase, lost, faults, cluster_cache>>

(* _get_cluster_info skips, with a warning, what it cannot make a            *)
(* ListedCluster of.                                                        *)
YieldListed(t) ==
    /\ phase[t] = "page" /\ page[t] # {}
    /\ panel[t] = "ActiveResources"
    /\ \E bad \in SUBSET page[t] :
          /\ faults + Cardinality(bad) <= MaxFaults
          /\ faults' = faults + Cardinality(bad)
          /\ lost' = [lost EXCEPT ![t] = @ \cup bad]
          /\ page' = [page EXCEPT ![t] = {}]
          /\ count' = [count EXCEPT ![t] = WithRows(t, page[t] \ bad)]
    /\ UNCHANGED <<panel, phase, range, gap, marker, active_state_args, next,
                   known, appList, cluster_cache>>

(* check_cluster_cache: from the cache, or described and cached if it has   *)
(* terminated.                                                              *)
Describe(c) ==
    /\ c \in cluster_cache \cup Covered
    /\ cluster_cache' = cluster_cache \cup (IF Ended(c) THEN {c} ELSE {})

(* get_cluster_descriptions and get_total_utilization describe one cluster  *)
(* after the other.                                                         *)
DescribeCluster(t) ==
    /\ phase[t] = "page"
    /\ panel[t] \in {"ClusterList", "Utilization"}
    /\ \E c \in page[t] :
          /\ IsNext(t, c)
          /\ Describe(c)
          /\ Take(t, {c})
    /\ UNCHANGED <<phase, lost, faults>>

(* get_app_list does so for the cluster of each application: a cluster of    *)
(* several has a row for each.                                              *)
DescribeApp(t) ==
    /\ phase[t] = "apps"
    /\ \E a \in apps[t] :
          /\ Describe(RunsOn[a])
          /\ apps' = [apps EXCEPT ![t] = @ \ {a}]
          /\ listed' = [listed EXCEPT ![t] = @ \cup {a}]
    /\ UNCHANGED <<requests, faults, paging>>

(* Variant: what cannot be described is left out.                          *)
SkipUndescribed(t) ==
    /\ phase[t] = "page"
    /\ panel[t] \in {"ClusterList", "Utilization"}
    /\ \E c \in page[t] \ (cluster_cache \cup Covered) :
          IsNext(t, c) /\ page' = [page EXCEPT ![t] = @ \ {c}]
    /\ UNCHANGED <<panel, phase, range, count, gap, lost, faults, marker,
                   active_state_args, next, known, appList, cluster_cache>>

(* Variant: it is asked for again and again.                               *)
RetryUndescribed(t) ==
    /\ phase[t] = "page"
    /\ panel[t] \in {"ClusterList", "Utilization"}
    /\ \E c \in page[t] \ (cluster_cache \cup Covered) : IsNext(t, c)
    /\ UNCHANGED <<requests, faults, listing, cluster_cache>>

(* The API does not know the cluster (any more) and describe_cluster raises *)
(* out of the loop: nothing at all is answered.                             *)
DescribeRaises(t) ==
    /\ \/ /\ phase[t] = "page"
          /\ panel[t] \in {"ClusterList", "Utilization"}
          /\ \E c \in page[t] \ (cluster_cache \cup Covered) : IsNext(t, c)
       \/ /\ phase[t] = "apps"
          /\ \E a \in apps[t] : RunsOn[a] \notin cluster_cache \cup Covered
    /\ Discard(t)
    /\ NoListing({t})
    /\ UNCHANGED <<faults, active_state_args, cluster_cache>>

AfterListing(t) ==
    CASE panel[t] = "Variable"    -> "answered"
      [] panel[t] = "ClusterList" -> "gaps"
      [] OTHER                    -> "rows"

(* Variant: one page only.                                                 *)
LastPage(t) ==
    /\ phase[t] = "page" /\ page[t] = {}
    /\ phase' = [phase EXCEPT ![t] = AfterListing(t)]
    /\ UNCHANGED <<panel, range, count, gap, lost, faults, listing, cluster_cache>>

(* kwargs['Marker'] = cluster_list['Marker'], or the end on a KeyError.    *)
NextPage(t) ==
    /\ phase[t] = "page" /\ page[t] = {}
    /\ IF next[t] = 0
       THEN /\ phase' = [phase EXCEPT ![t] = AfterListing(t)]
            /\ UNCHANGED <<marker, active_state_args>>
       ELSE /\ phase' = [phase EXCEPT ![t] = "list"]
            /\ IF panel[t] = "ActiveResources"
               THEN active_state_args' = next[t] /\ UNCHANGED marker
               ELSE marker' = [marker EXCEPT ![t] = next[t]]
                    /\ UNCHANGED active_state_args
    /\ UNCHANGED <<panel, range, count, gap, lost, faults, page, next, known,
                   appList, cluster_cache>>

FillEmrGaps(t) == FillGaps(t) /\ UNCHANGED <<listing, cluster_cache>>

(* get_app_cluster_ids: the applications with samples in the window.        *)
AppSpans ==
    [a \in {b \in Apps : RunsOn[b] \in DOMAIN TrackedSpans} |-> span[RunsOn[a]]]

get_app_cluster_ids(r) ==
    {{a \in ids : TFirst(AppSpans[a], r.start, r.end) # 0} :
        ids \in get_label_values(AppSpans, r.start, r.end)}

(* The application list goes through the applications, the total utilisation *)
(* through the set of their clusters.                                       *)
AskAppList(t) ==
    /\ Begin(t, "AppList", "apps", {})
    /\ \E ids \in get_app_cluster_ids(range'[t]) :
          apps' = [apps EXCEPT ![t] = ids]
    /\ marker' = [marker EXCEPT ![t] = NoMarker]
    /\ known' = [known EXCEPT ![t] = {}]
    /\ listed' = [listed EXCEPT ![t] = {}]
    /\ UNCHANGED <<active_state_args, page, next, cluster_cache>>

AskUtilization(t) ==
    /\ Begin(t, "Utilization", "page", {})
    /\ \E ids \in get_app_cluster_ids(range'[t]) :
          page' = [page EXCEPT ![t] = {RunsOn[a] : a \in ids}]
    /\ marker' = [marker EXCEPT ![t] = NoMarker]
    /\ next' = [next EXCEPT ![t] = 0]
    /\ known' = [known EXCEPT ![t] = {}]
    /\ listed' = [listed EXCEPT ![t] = {}]
    /\ UNCHANGED <<active_state_args, apps, cluster_cache>>

AnswerApps(t) ==
    /\ apps[t] = {}
    /\ Goto(t, "apps", "answered")
    /\ UNCHANGED <<panel, range, count, gap, lost, faults, listing, cluster_cache>>

(* The rest of the panel: a cost (check_cost_cache, which never raises and  *)
(* may cache descriptions) and the utilisation of each row.                 *)
Answer(t) ==
    /\ Goto(t, "rows", "answered")
    /\ \E some \in SUBSET {c \in Covered \cap Rows(t) : Ended(c)} :
          /\ panel[t] = "ActiveResources" => some = {}
          /\ cluster_cache' = cluster_cache \cup some
    /\ UNCHANGED <<panel, range, count, gap, lost, faults, listing>>

Raise(t) ==
    Fail(t) /\ NoListing({t}) /\ UNCHANGED <<active_state_args, cluster_cache>>

DropEmr ==
    /\ NoListing(Threads)
    /\ active_state_args' = NoMarker
    /\ cluster_cache' = {}

-----------------------------------------------------------------------------
EmrAsk(t) ==
    \/ \E p \in {"Variable", "ClusterList", "ActiveResources"} : BeginListing(t, p)
    \/ AskAppList(t) \/ AskUtilization(t)

EmrStep(t) ==
    \/ ListPage(t) \/ YieldPage(t) \/ YieldListed(t) \/ NextPage(t)
    \/ DescribeCluster(t) \/ DescribeApp(t) \/ DescribeRaises(t)
    \/ FillEmrGaps(t) \/ AnswerApps(t) \/ Answer(t)

-----------------------------------------------------------------------------
(* The list of a range has every cluster launched in it that the API still  *)
(* covers, whatever ends, is forgotten or is asked for by others meanwhile. *)
CoveredAreListed ==
    \A t \in Threads :
        phase[t] = "answered" /\ panel[t] \in {"Variable", "ClusterList"} =>
            \A c \in Covered \cap Launched(range[t]) : count[t][c] = 1

(* An application list that is answered at all has a row for every           *)
(* application in the range, and a total utilisation is of all of their     *)
(* clusters: none is left out that cannot be described.                     *)
OverviewIsWhole ==
    \A t \in Threads, a \in Apps :
        phase[t] = "answered"
            /\ Scraped(span[RunsOn[a]], range[t].start + 1, range[t].end) =>
        /\ panel[t] = "AppList" => a \in listed[t]
        /\ panel[t] = "Utilization" => count[t][RunsOn[a]] = 1

(* Until a list of active clusters has needed a second page, the panel on   *)
(* active resources counts every cluster that is active all the while and   *)
(* whose entry can be read.                                                 *)
ActiveUntilPaged ==
    \A t \in Threads :
        /\ phase[t] = "answered" /\ panel[t] = "ActiveResources"
        /\ active_state_args = NoMarker
        => \A c \in (known[t] \cap Active) \ lost[t] : count[t][c] = 1

(* What cloud.py:109 says: "Return IDs of active EMR clusters."  The Marker *)
(* that stays in active_state_args violates it.                             *)
ActiveAreListed ==
    \A t \in Threads :
        phase[t] = "answered" /\ panel[t] = "ActiveResources" =>
            \A c \in (known[t] \cap Active) \ lost[t] : count[t][c] = 1

(* Every request is answered or fails.                                     *)
EveryRequestEnds ==
    \A t \in Threads : phase[t] \notin Rest ~> phase[t] \in Rest
=============================================================================
