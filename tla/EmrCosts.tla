------------------------------ MODULE EmrCosts ------------------------------
(***************************************************************************)
(* EmrUtils.check_cluster_cache and EmrUtils.check_cost_cache over the two *)
(* caches of the shared Inject object, run by any number of threads while  *)
(* clusters run and terminate, AWS calls fail, and the region switch       *)
(* replaces the clients and the estimator between any two steps.           *)
(*                                                                         *)
(* Inject.client_emr and Inject.calc change here in one action, to any     *)
(* client and any estimator of one region: that is what RegionSwitch lets  *)
(* a thread see (EstimatorCoherent) and DashboardServer shows it by        *)
(* refinement.  A cost map is abstracted to the usage it adds up, the      *)
(* region of its price lists, and whether its spot instances are priced.   *)
(* The calls of one estimate are one step that ends it, with any usage that *)
(* EstimateCluster lets an estimate find which began in BindEstimator: the  *)
(* cluster works, stops instances and terminates in between.  A query for   *)
(* several clusters asks for one after the other.                           *)
(***************************************************************************)
EXTENDS EmrCloud

CONSTANTS
    Regions, Threads,
    Home,         \* the region each cluster runs in
    SpotFaults,   \* TRUE: the spot price API may fail
    Empty,        \* EmrUtils._empty_costmap()
    None          \* a local variable of a thread that runs no query

ASSUME CostsAssumption ==
    /\ Home \in [Clusters -> Regions]
    /\ SpotFaults \in BOOLEAN
    /\ None \notin {"cost", "description"}

VARIABLES
    client_emr,     \* Inject.client_emr
    calc,           \* Inject.calc
    cluster_cache,  \* Inject.cluster_cache: the described state, by cluster
    cost_cache,     \* Inject.cost_cache: the cost map, by cluster
    stage,          \* where each thread is in the two methods
    wants,          \* "cost": check_cost_cache; "description": check_cluster_cache
    subject,        \* cluster_id
    client,         \* the EMR client that describe_cluster was looked up on
    desc,           \* cluster_desc.Status.State
    bound,          \* the estimator that estimate_cluster_cost was looked up on
    begun,          \* the cluster's progress when estimate_cluster_cost began
    result,         \* what is returned to the panel
    asked           \* its progress when the panel asked, for the refinement

shared    == <<client_emr, calc>>
caches    == <<cluster_cache, cost_cache>>
question  == <<wants, subject, asked>>
call      == <<bound, begun>>
thread    == <<stage, question, client, desc, call, result>>
costsVars == <<cloudVars, shared, caches, thread>>

Stages == {"idle", "lookupCost", "lookupCluster", "describe", "storeCluster",
           "bind", "estimate", "storeCost", "reply"}

EstimatorFor(r) == [emr |-> r, ec2 |-> r, prices |-> r]
CostNow(c) == [usage |-> usage[c], prices |-> Home[c], spot |-> TRUE]

(* Variant: tests for 'TERMINAT', which is in TERMINATING too.             *)
IsTerminating(s) == s # "RUNNING"

(* 'TERMINATED' in State                                                   *)
IsTerminated(s) == s \in {"TERMINATED", "TERMINATED_WITH_ERRORS"}

(* d[k] = v on a dictionary, a function on the set of its keys.            *)
Put(d, k, v) == [x \in DOMAIN d \cup {k} |-> IF x = k THEN v ELSE d[x]]

Goto(t, from, to) == stage[t] = from /\ stage' = [stage EXCEPT ![t] = to]

Init ==
    /\ CloudInit
    /\ \E r \in Regions :
        /\ client_emr = r
        /\ calc = EstimatorFor(r)
    /\ cluster_cache = [c \in {} |-> "RUNNING"]
    /\ cost_cache = [c \in {} |-> Empty]
    /\ stage = [t \in Threads |-> "idle"]
    /\ wants = [t \in Threads |-> None]
    /\ subject = [t \in Threads |-> None]
    /\ client = [t \in Threads |-> None]
    /\ desc = [t \in Threads |-> None]
    /\ bound = [t \in Threads |-> None]
    /\ begun = [t \in Threads |-> None]
    /\ result = [t \in Threads |-> Empty]
    /\ asked = [t \in Threads |-> None]

-----------------------------------------------------------------------------
(* A step of the region switch, seen from the two methods.                 *)
RegionChange ==
    /\ client_emr' \in Regions
    /\ calc' \in {EstimatorFor(r) : r \in Regions}
    /\ UNCHANGED <<cloudVars, caches, thread>>

AskCost(t, c) ==
    /\ Goto(t, "idle", "lookupCost")
    /\ wants' = [wants EXCEPT ![t] = "cost"]
    /\ subject' = [subject EXCEPT ![t] = c]
    /\ asked' = [asked EXCEPT ![t] = Progress(c)]
    /\ UNCHANGED <<cloudVars, shared, caches, client, desc, call, result>>

AskDescription(t, c) ==
    /\ Goto(t, "idle", "lookupCluster")
    /\ wants' = [wants EXCEPT ![t] = "description"]
    /\ subject' = [subject EXCEPT ![t] = c]
    /\ UNCHANGED <<asked, cloudVars, shared, caches, client, desc, call, result>>

(* if cluster_id in inj.cost_cache                                         *)
CostHit(t) ==
    /\ Goto(t, "lookupCost", "reply")
    /\ subject[t] \in DOMAIN cost_cache
    /\ result' = [result EXCEPT ![t] = cost_cache[subject[t]]]
    /\ UNCHANGED <<cloudVars, shared, caches, question, client, desc, call>>

CostMiss(t) ==
    /\ Goto(t, "lookupCost", "lookupCluster")
    /\ subject[t] \notin DOMAIN cost_cache
    /\ UNCHANGED <<cloudVars, shared, caches, question, client, desc, call,
                   result>>

(* Where check_cluster_cache returns to.                                   *)
AfterDescription(t) == IF wants[t] = "cost" THEN "bind" ELSE "reply"

(* if cluster_id in inj.cluster_cache                                      *)
ClusterHit(t) ==
    /\ Goto(t, "lookupCluster", AfterDescription(t))
    /\ subject[t] \in DOMAIN cluster_cache
    /\ desc' = [desc EXCEPT ![t] = cluster_cache[subject[t]]]
    /\ UNCHANGED <<cloudVars, shared, caches, question, client, call, result>>

ClusterMiss(t) ==
    /\ Goto(t, "lookupCluster", "describe")
    /\ subject[t] \notin DOMAIN cluster_cache
    /\ client' = [client EXCEPT ![t] = client_emr]
    /\ UNCHANGED <<cloudVars, shared, caches, question, desc, call, result>>

(* describe_cluster succeeds in the cluster's own region only.             *)
Describe(t) ==
    /\ Goto(t, "describe", "storeCluster")
    /\ client[t] = Home[subject[t]]
    /\ desc' = [desc EXCEPT ![t] = state[subject[t]]]
    /\ UNCHANGED <<cloudVars, shared, caches, question, client, call, result>>

StoreCluster(t) ==
    /\ Goto(t, "storeCluster", AfterDescription(t))
    /\ cluster_cache' = IF IsTerminated(desc[t])
                        THEN Put(cluster_cache, subject[t], desc[t])
                        ELSE cluster_cache
    /\ UNCHANGED <<cloudVars, shared, cost_cache, question, client, desc,
                   call, result>>

(* inj.calc.estimate_cluster_cost is looked up once and called; a later     *)
(* switch does not reach the call in progress.                              *)
BindEstimator(t) ==
    /\ Goto(t, "bind", "estimate")
    /\ bound' = [bound EXCEPT ![t] = calc]
    /\ begun' = [begun EXCEPT ![t] = Progress(subject[t])]
    /\ UNCHANGED <<cloudVars, shared, caches, question, client, desc, result>>

(* The call returns.  The EMR client must know the cluster.  A spot price   *)
(* that cannot be had counts as 0.0, whether the EC2 client is another      *)
(* region's or the API fails: _get_ec2_cost swallows every exception.       *)
Estimate(t) ==
    /\ Goto(t, "estimate", "storeCost")
    /\ bound[t].emr = Home[subject[t]]
    /\ \E u \in UsageSince(subject[t], begun[t]),
          fault \in IF SpotFaults THEN BOOLEAN ELSE {FALSE} :
        result' = [result EXCEPT ![t] =
            [usage  |-> u,
             prices |-> bound[t].prices,
             spot   |-> bound[t].ec2 = Home[subject[t]] /\ ~fault]]
    /\ UNCHANGED <<cloudVars, shared, caches, question, client, desc, call>>

(* Variants: the cluster is described after its cost has been estimated;    *)
(* every cost is kept.                                                      *)
StoreCostIf(t, final) ==
    /\ Goto(t, "storeCost", "reply")
    /\ cost_cache' = IF final THEN Put(cost_cache, subject[t], result[t])
                     ELSE cost_cache
    /\ UNCHANGED <<cloudVars, shared, cluster_cache, question, client, desc,
                   call, result>>

StoreCostDescribedLate(t) == StoreCostIf(t, IsTerminated(state[subject[t]]))
StoreCostAlways(t) == StoreCostIf(t, TRUE)

StoreCost(t) ==
    /\ Goto(t, "storeCost", "reply")
    /\ cost_cache' = IF IsTerminated(desc[t])
                     THEN Put(cost_cache, subject[t], result[t])
                     ELSE cost_cache
    /\ UNCHANGED <<cloudVars, shared, cluster_cache, question, client, desc,
                   call, result>>

(* Variant: the handler of the exception returns nothing.                   *)
GiveUpWithNothing(t) ==
    /\ stage[t] \in {"describe", "estimate"}
    /\ stage' = [stage EXCEPT ![t] = "reply"]
    /\ result' = [result EXCEPT ![t] = None]
    /\ UNCHANGED <<cloudVars, shared, caches, question, client, desc, call>>

(* An AWS call fails for good, or the cluster had no instances: the panel   *)
(* gets the empty cost map (or, for a description, no rows) and nothing is  *)
(* cached.                                                                  *)
GiveUp(t) ==
    /\ stage[t] \in {"describe", "estimate"}
    /\ stage' = [stage EXCEPT ![t] = "reply"]
    /\ result' = [result EXCEPT ![t] = Empty]
    /\ UNCHANGED <<cloudVars, shared, caches, question, client, desc, call>>

Reply(t) ==
    /\ Goto(t, "reply", "idle")
    /\ wants' = [wants EXCEPT ![t] = None]
    /\ subject' = [subject EXCEPT ![t] = None]
    /\ asked' = [asked EXCEPT ![t] = None]
    /\ client' = [client EXCEPT ![t] = None]
    /\ desc' = [desc EXCEPT ![t] = None]
    /\ bound' = [bound EXCEPT ![t] = None]
    /\ begun' = [begun EXCEPT ![t] = None]
    /\ result' = [result EXCEPT ![t] = Empty]
    /\ UNCHANGED <<cloudVars, shared, caches>>

-----------------------------------------------------------------------------
(* One step of a method between the question and the answer.               *)
Advance(t) ==
    \/ CostHit(t) \/ CostMiss(t) \/ ClusterHit(t) \/ ClusterMiss(t)
    \/ Describe(t) \/ StoreCluster(t) \/ BindEstimator(t) \/ Estimate(t)
    \/ StoreCost(t) \/ GiveUp(t)

AskSome(t) == \E c \in Clusters : AskCost(t, c) \/ AskDescription(t, c)

Next ==
    \/ CloudStep /\ UNCHANGED <<shared, caches, thread>>
    \/ RegionChange
    \/ \E t \in Threads : AskSome(t) \/ Advance(t) \/ Reply(t)

Spec == Init /\ [][Next]_costsVars

-----------------------------------------------------------------------------
Estimator == [emr : Regions, ec2 : Regions, prices : Regions]
Cost == [usage : Nat, prices : Regions, spot : BOOLEAN] \cup {Empty}

(* Every variable holds a value of its kind (Inject's attributes and the    *)
(* locals of the two methods).                                              *)
TypeOK ==
    /\ CloudTypeOK
    /\ client_emr \in Regions
    /\ calc \in Estimator
    /\ DOMAIN cluster_cache \subseteq Clusters
    /\ \A c \in DOMAIN cluster_cache : cluster_cache[c] \in ClusterStates
    /\ DOMAIN cost_cache \subseteq Clusters
    /\ \A c \in DOMAIN cost_cache : cost_cache[c] \in Cost
    /\ stage \in [Threads -> Stages]
    /\ wants \in [Threads -> {"cost", "description", None}]
    /\ subject \in [Threads -> Clusters \cup {None}]
    /\ client \in [Threads -> Regions \cup {None}]
    /\ desc \in [Threads -> ClusterStates \cup {None}]
    /\ bound \in [Threads -> Estimator \cup {None}]
    /\ begun \in [Threads -> ProgressValues \cup {None}]
    /\ asked \in [Threads -> ProgressValues \cup {None}]
    /\ result \in [Threads -> Cost]

(* A cached cost is the cluster's final one: the cluster has terminated,    *)
(* its whole usage is counted and it is priced in its own region.  It holds *)
(* because check_cost_cache describes the cluster before it estimates       *)
(* (cloud.py:169-176): the other order would keep a running cluster's cost. *)
CachedCostFinal ==
    \A c \in DOMAIN cost_cache :
        state[c] \in TerminalStates /\ cost_cache[c] = CostNow(c)

(* A cached description is one of a terminated cluster and still current.   *)
CachedDescriptionFinal ==
    \A c \in DOMAIN cluster_cache :
        state[c] \in TerminalStates /\ cluster_cache[c] = state[c]

(* Whatever went wrong while a terminated cluster's cost was estimated, the *)
(* cost that is kept for it has its spot instances in it: the retry of      *)
(* estimate_cluster_cost is documented to see "AWS API issues like          *)
(* throttling" (estimator.py:36), so that none ends up in the cost.         *)
CachedCostHasSpot == \A c \in DOMAIN cost_cache : cost_cache[c].spot

(* No thread ever overwrites, with something else, or drops an entry that   *)
(* another has put into a cache (check_cost_cache and check_cluster_cache   *)
(* test for the key and store under it in different steps).                 *)
CacheEntriesStable ==
    [][/\ \A c \in DOMAIN cost_cache :
            c \in DOMAIN cost_cache' /\ cost_cache'[c] = cost_cache[c]
       /\ \A c \in DOMAIN cluster_cache :
            c \in DOMAIN cluster_cache' /\ cluster_cache'[c] = cluster_cache[c]
      ]_costsVars

(* check_cost_cache implements CostService: with its caches, its failures   *)
(* and the region switch it answers as if it computed every cost afresh,    *)
(* and no cached answer is older than the question.  A query is answered,   *)
(* in the abstract, when its cost is found.                                 *)
PhaseOf(t) ==
    IF wants[t] # "cost" THEN "idle"
    ELSE IF stage[t] \in {"storeCost", "reply"} THEN "answered" ELSE "asked"

PhaseMap   == [t \in Threads |-> PhaseOf(t)]
SubjectMap == [t \in Threads |-> IF wants[t] = "cost" THEN subject[t] ELSE None]

Service == INSTANCE CostService WITH
    phase <- PhaseMap, subject <- SubjectMap, since <- asked, value <- result

ImplementsCostService == Service!Spec
=============================================================================
