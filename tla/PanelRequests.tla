--------------------------- MODULE PanelRequests ----------------------------
(***************************************************************************)
(* What the panels on lists of clusters have in common on both platforms:  *)
(* the clusters, as the cloud's API and the database know them, and        *)
(* requests that collect rows, fill the gaps of the API from the database  *)
(* (TsdbUtils.fill_api_gaps) and answer or fail as a whole.                *)
(*                                                                         *)
(* A cluster is its number in order of creation.  Rows are counted, so     *)
(* that a row too many shows; their layout is left out.                    *)
(***************************************************************************)
EXTENDS Platform, PromQueries, FiniteSets

CONSTANTS
    Clusters,   \* 1 .. n, later ones created later
    Tracked,    \* those bootstrapped with an exporter
    Spans,      \* the spans of scrapes the clusters may have
    Boot,       \* scrapes that a cluster misses while it starts
    Retention,  \* how long the API remembers a terminated cluster
    Ranges,     \* the time ranges users select
    Threads, MaxTime, MaxFaults

ASSUME PanelAssumption ==
    /\ Clusters \subseteq Nat \ {0} /\ IsFiniteSet(Clusters)
    /\ Tracked \subseteq Clusters
    /\ Spans \subseteq [Clusters -> [first : Nat \ {0}, last : Nat \ {0}]]
    /\ \A s \in Spans, c \in Clusters : s[c].first <= s[c].last
    /\ Ranges \subseteq [start : Nat \ {0}, end : Nat \ {0}] /\ Ranges # {}
    /\ Boot \in Nat /\ Retention \in Nat /\ MaxTime \in Nat /\ MaxFaults \in Nat

VARIABLES
    now, span,  \* the clock; first and last scrape of each cluster's master
    panel,      \* what each thread's request asks for
    phase,      \* where it is
    range,      \* start_sec and end_sec
    count,      \* how many rows it has of each cluster
    gap,        \* the start shown in a row filled from the database, or 0
    lost,       \* clusters whose own query failed, or entry could not be read
    faults      \* calls that have failed

world    == <<activated_platform, now, span>>
requests == <<panel, phase, range, count, gap, lost>>
baseVars == <<world, requests, faults>>

Rest  == {"idle", "answered", "failed"}
NoRows == [c \in Clusters |-> 0]
AnyRange == CHOOSE r \in Ranges : TRUE

Created(c) == span[c].first - Boot
Ended(c)   == now > span[c].last
Active     == {c \in Clusters : span[c].first <= now /\ ~Ended(c)}
Covered    == {c \in Clusters : Created(c) <= now /\ now <= span[c].last + Retention}
Launched(r) == {c \in Clusters : r.start <= Created(c) /\ Created(c) <= r.end}
TrackedSpans == [c \in {d \in Tracked : span[d].first <= now} |-> span[c]]
Rows(t)    == {c \in Clusters : count[t][c] > 0}

WorldInit ==
    /\ PlatformInit
    /\ now = 1
    /\ span \in Spans

RequestInit ==
    /\ panel = [t \in Threads |-> "none"]
    /\ phase = [t \in Threads |-> "idle"]
    /\ range = [t \in Threads |-> AnyRange]
    /\ count = [t \in Threads |-> NoRows]
    /\ gap = [t \in Threads |-> NoRows]
    /\ lost = [t \in Threads |-> {}]
    /\ faults = 0

Tick ==
    /\ now < MaxTime
    /\ now' = now + 1
    /\ UNCHANGED <<activated_platform, span>>

Goto(t, from, to) == phase[t] = from /\ phase' = [phase EXCEPT ![t] = to]

-----------------------------------------------------------------------------
(* A request for a range that does not reach into the future.  `some` are   *)
(* clusters the user has selected.                                          *)
Begin(t, p, first, some) ==
    /\ phase[t] \in Rest
    /\ \E r \in Ranges : r.end <= now /\ range' = [range EXCEPT ![t] = r]
    /\ panel' = [panel EXCEPT ![t] = p]
    /\ phase' = [phase EXCEPT ![t] = first]
    /\ count' = [count EXCEPT
                    ![t] = [c \in Clusters |-> IF c \in some THEN 1 ELSE 0]]
    /\ gap' = [gap EXCEPT ![t] = NoRows]
    /\ lost' = [lost EXCEPT ![t] = {}]
    /\ UNCHANGED faults

(* What has been collected is dropped: main_loop logs the exception and      *)
(* answers with no table at all, /variable answers with an error.            *)
Discard(t) ==
    /\ phase' = [phase EXCEPT ![t] = "failed"]
    /\ count' = [count EXCEPT ![t] = NoRows]
    /\ gap' = [gap EXCEPT ![t] = NoRows]
    /\ lost' = [lost EXCEPT ![t] = {}]
    /\ UNCHANGED <<panel, range>>

(* Any call to the API or the database raises, or what it returns cannot be *)
(* parsed.                                                                  *)
Fail(t) ==
    /\ phase[t] \notin Rest
    /\ faults < MaxFaults
    /\ faults' = faults + 1
    /\ Discard(t)

(* get_cluster_times: the first scrape in the window, 0 if a query fails.   *)
cluster_first(c, r, failing) ==
    IF c \in failing THEN 0 ELSE TFirst(span[c], r.start, r.end)

(* Variants: all that the database knows; without the second filter.       *)
AllFromDb(t, ids) == ids
WheneverScraped(r, first) == first # 0

(* id_db not in clusters_from_api                                          *)
NotListed(t, ids) == ids \ Rows(t)

(* "preceding label values call not always precise => filter again"        *)
InRange(r, first) == r.start <= first /\ first <= r.end

(* fill_api_gaps: a row, TERMINATED, for each cluster of the database that  *)
(* the API has not listed and whose first scrape in the window is in range. *)
FillGaps(t) ==
    /\ Goto(t, "gaps", "rows")
    /\ \E ids \in get_label_values(TrackedSpans, range[t].start, range[t].end),
          failing \in SUBSET Clusters :
         LET r    == range[t]
             gaps == NotListed(t, ids)
             fill == {c \in gaps : InRange(r, cluster_first(c, r, failing))}
         IN  /\ failing \subseteq gaps
             /\ faults + Cardinality(failing) <= MaxFaults
             /\ faults' = faults + Cardinality(failing)
             /\ lost' = [lost EXCEPT ![t] = failing]
             /\ count' = [count EXCEPT ![t] = [c \in Clusters |->
                             count[t][c] + IF c \in fill THEN 1 ELSE 0]]
             /\ gap' = [gap EXCEPT ![t] = [c \in Clusters |->
                             IF c \in fill THEN cluster_first(c, r, failing) ELSE 0]]
    /\ UNCHANGED <<panel, range>>

(* The process ends, and the requests with it.                             *)
Drop ==
    /\ panel' = [t \in Threads |-> "none"]
    /\ phase' = [t \in Threads |-> "idle"]
    /\ range' = [t \in Threads |-> AnyRange]
    /\ count' = [t \in Threads |-> NoRows]
    /\ gap' = [t \in Threads |-> NoRows]
    /\ lost' = [t \in Threads |-> {}]

-----------------------------------------------------------------------------
AnswersList(t) == phase[t] = "answered" /\ panel[t] = "ClusterList"

(* No answer shows a cluster twice: neither the paging of the API, nor the  *)
(* rows from the database next to those of the API, repeat one.             *)
RowsOnce ==
    \A t \in Threads, c \in Clusters : phase[t] = "answered" => count[t][c] <= 1

(* A tracked cluster that was first scraped within the range is in the list *)
(* whether the API still covers it or not, unless its own query failed: no  *)
(* cluster falls into the gap between fill_api_gaps and the API's filter.   *)
TrackedAreListed ==
    \A t \in Threads : AnswersList(t) =>
        \A c \in Tracked \ lost[t] :
            range[t].start < span[c].first /\ span[c].first <= range[t].end
                => count[t][c] = 1

(* The start shown for a row from the database is the true first scrape of  *)
(* its cluster, as long as the lookback window, which is in whole hours,    *)
(* reaches back by two scrapes before the range.                            *)
GapStartIsTrue ==
    \A t \in Threads, c \in Clusters :
        AnswersList(t) /\ gap[t][c] # 0 =>
            \/ gap[t][c] = span[c].first
            \/ WindowStart(range[t].start, range[t].end) >= range[t].start

(* What docs/usage.md:26 says of the list: its clusters were launched in    *)
(* the selected range.  Ranges that their lookback window does not reach    *)
(* back before violate it: whole hours, such as "Last 1 hour", or one       *)
(* scrape short of them.                                                    *)
ListedWereLaunchedInRange ==
    \A t \in Threads, c \in Clusters :
        AnswersList(t) /\ gap[t][c] # 0 => range[t].start <= span[c].first
=============================================================================
