-------------------------- MODULE DashboardServer ---------------------------
(***************************************************************************)
(* The backend as it runs: every request goes through the region block of  *)
(* main_loop (RegionSwitch) and then, for the cost panels, through         *)
(* check_cost_cache or check_cluster_cache for each of its clusters        *)
(* (EmrCosts), on the same threads and the same shared Inject object.      *)
(***************************************************************************)
EXTENDS RegionSwitch, Naturals

CONSTANTS Clusters, MaxUsage, Home, SpotFaults, Empty, None

VARIABLES state, usage, elapsed, cluster_cache, cost_cache, stage, wants,
          subject, client, desc, bound, begun, result, asked

Costs == INSTANCE EmrCosts

ASSUME ServerAssumption ==
    Costs!MaxUsageAssumption /\ Costs!CostsAssumption

cloud      == <<state, usage, elapsed>>
queries    == <<cluster_cache, cost_cache, stage, wants, subject, client, desc,
                bound, begun, result, asked>>
cacheVars  == <<cloud, queries>>
serverVars == <<regionVars, cacheVars>>

ServerInit == Init /\ Costs!Init

(* main_loop past the region block: the panel asks for the clusters of its *)
(* page one after the other, looks inj.calc up for those that it estimates *)
(* and answers when it has them all.                                       *)
PanelStep(t) ==
    /\ pc[t] = "serve"
    /\ \/ Costs!AskSome(t) \/ Costs!Advance(t) \/ Costs!Reply(t)
    /\ \/ stage[t] = "bind" /\ Lookup(t)
       \/ stage[t] # "bind" /\ UNCHANGED regionVars

AnswerPanel(t) ==
    /\ stage[t] = "idle"
    /\ Answer(t)
    /\ UNCHANGED cacheVars

RegionStep ==
    /\ \/ \E r \in Regions : SelectRegion(r)
       \/ \E t \in Threads : RegionBlock(t)
    /\ UNCHANGED cacheVars

ServerNext ==
    \/ RegionStep
    \/ \E t \in Threads : PanelStep(t) \/ AnswerPanel(t)
    \/ Costs!CloudStep /\ UNCHANGED <<regionVars, queries>>

ServerSpec == ServerInit /\ [][ServerNext]_serverVars

-----------------------------------------------------------------------------
(* The region block gives the cost methods what EmrCosts assumes of it: one *)
(* region's estimator at a time.  So whatever EmrCosts keeps, the server    *)
(* keeps, switches in the middle of a cost query included.                  *)
ImplementsEmrCosts == Costs!Spec

(* The server never caches, for good, a cost in another region's prices     *)
(* (main.py:109-113 and cloud.py:176 share inj with no lock).               *)
CachedCostAtHome ==
    \A c \in DOMAIN cost_cache : cost_cache[c].prices = Home[c]
=============================================================================
