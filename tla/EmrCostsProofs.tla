--------------------------- MODULE EmrCostsProofs ---------------------------
(***************************************************************************)
(* Safety of the two EMR caches for any clusters, regions and number of    *)
(* threads, while the spot price API answers: cached entries are final and *)
(* never change, and the cost queries implement CostService.               *)
(***************************************************************************)
EXTENDS EmrCosts, TLAPS

(* What a thread has established at each stage.                             *)
ThreadInv ==
    \A t \in Threads :
        /\ wants[t] = None <=> stage[t] = "idle"
        /\ stage[t] # "idle" => subject[t] \in Clusters
        /\ stage[t] \in {"lookupCost", "bind", "estimate", "storeCost"} =>
               wants[t] = "cost"
        /\ wants[t] # "cost" \/ stage[t] \notin {"storeCost", "reply"} =>
               result[t] = Empty

(* A description that says TERMINATED stays true.                           *)
DescriptionInv ==
    \A t \in Threads :
        /\ desc[t] \in TerminalStates
        /\ stage[t] \in {"storeCluster", "bind", "estimate", "storeCost"}
        => state[subject[t]] = desc[t]

(* The cluster has not cost less since the panel asked, and since the       *)
(* estimate was called; what was over then is over.                         *)
ProgressInv ==
    \A t \in Threads :
        /\ wants[t] = "cost" =>
            /\ asked[t] \in ProgressValues
            /\ asked[t].usage <= usage[subject[t]]
            /\ asked[t].over => state[subject[t]] \in TerminalStates
        /\ wants[t] # "cost" => asked[t] = None
        /\ stage[t] = "estimate" =>
            /\ begun[t] \in ProgressValues
            /\ asked[t].usage <= begun[t].usage
            /\ asked[t].over \/ desc[t] \in TerminalStates => begun[t].over

(* The estimator in use, and the one a thread holds, are of one region, and *)
(* an estimate made after a TERMINATED description is final.                *)
EstimateInv ==
    /\ calc = EstimatorFor(calc.prices)
    /\ \A t \in Threads :
        /\ stage[t] = "estimate" =>
               bound[t] \in Estimator /\ bound[t] = EstimatorFor(bound[t].prices)
        /\ stage[t] = "storeCost" /\ desc[t] \in TerminalStates =>
               result[t] = CostNow(subject[t])

(* The inductive invariant: the two facts a reader wants, and what the      *)
(* threads in the middle of a query know.                                   *)
QueryInv ==
    /\ TypeOK
    /\ ThreadInv
    /\ DescriptionInv
    /\ EstimateInv
    /\ CachedCostFinal
    /\ CachedDescriptionFinal

CacheInv == QueryInv /\ ProgressInv

-----------------------------------------------------------------------------
LEMMA InitialCaches == Init => CacheInv
  BY CostsAssumption
  DEF Init, CloudInit, CacheInv, TypeOK, CloudTypeOK, ThreadInv, DescriptionInv,
      EstimateInv, CachedCostFinal, CachedDescriptionFinal, QueryInv, ProgressInv,
      Stages, ClusterStates, TerminalStates, Estimator, EstimatorFor, Cost

(* What a thread knows of the progress of its cluster stays true, whoever   *)
(* steps.                                                                   *)
LEMMA ProgressKeeps ==
    ASSUME CacheInv, [Next]_costsVars PROVE ProgressInv'
<1> USE CostsAssumption
    DEF CacheInv, QueryInv, ProgressInv, ProgressValues, TypeOK, CloudTypeOK,
        ThreadInv, ClusterStates, TerminalStates, Goto, cloudVars, question, call
<1>1. CASE CloudStep /\ UNCHANGED <<shared, caches, thread>>
  BY <1>1 DEF CloudStep, Work, Shutdown, Terminate, thread
<1>2. CASE RegionChange
  BY <1>2 DEF RegionChange, thread
<1> DEFINE Now(c, p) == /\ p \in ProgressValues
                        /\ p.usage = usage[c]
                        /\ p.over <=> state[c] \in TerminalStates
<1>0. \A c \in Clusters : Now(c, Progress(c))
  <2> SUFFICES ASSUME NEW c \in Clusters PROVE Now(c, Progress(c))
    OBVIOUS
  <2> DEFINE over == state[c] \in TerminalStates
  <2>1. Progress(c) = [usage |-> usage[c], over |-> over]
    BY DEF Progress
  <2>2. over \in BOOLEAN /\ usage[c] \in Nat
    OBVIOUS
  <2> HIDE DEF over
  <2>3. /\ Progress(c) \in ProgressValues
        /\ Progress(c).usage = usage[c] /\ Progress(c).over = over
    BY <2>1, <2>2
  <2> QED
    BY <2>3 DEF over
<1>3. ASSUME NEW t \in Threads, AskSome(t) \/ Reply(t) PROVE ProgressInv'
  <2>1. ASSUME NEW c \in Clusters, AskCost(t, c) PROVE ProgressInv'
    BY <1>0, <2>1 DEF AskCost
  <2>2. ASSUME NEW c \in Clusters, AskDescription(t, c) PROVE ProgressInv'
    BY <2>2 DEF AskDescription
  <2>3. CASE Reply(t)
    BY <2>3 DEF Reply
  <2> QED
    BY <1>3, <2>1, <2>2, <2>3 DEF AskSome
<1>4. ASSUME NEW t \in Threads, BindEstimator(t) PROVE ProgressInv'
  <2>1. /\ begun' = [begun EXCEPT ![t] = Progress(subject[t])]
        /\ Now(subject[t], Progress(subject[t]))
        /\ desc[t] \in TerminalStates => state[subject[t]] \in TerminalStates
        /\ wants[t] = "cost"
    BY <1>0, <1>4 DEF BindEstimator, DescriptionInv
  <2> QED
    BY <1>4, <2>1 DEF BindEstimator
<1>5. ASSUME NEW t \in Threads, Advance(t), ~BindEstimator(t) PROVE ProgressInv'
  <2>2. CASE CostHit(t) \/ CostMiss(t) \/ ClusterMiss(t)
    BY <2>2 DEF CostHit, CostMiss, ClusterMiss
  <2>3. CASE ClusterHit(t)
    BY <2>3 DEF ClusterHit, AfterDescription
  <2>4. CASE Describe(t)
    BY <2>4 DEF Describe
  <2>5. CASE Estimate(t)
    BY <2>5 DEF Estimate
  <2>6. CASE StoreCost(t) \/ GiveUp(t)
    BY <2>6 DEF StoreCost, GiveUp
  <2>7. CASE StoreCluster(t)
    BY <2>7 DEF StoreCluster, AfterDescription
  <2> QED
    BY <1>5, <2>2, <2>3, <2>4, <2>5, <2>6, <2>7 DEF Advance
<1>6. CASE UNCHANGED costsVars
  BY <1>6 DEF costsVars, thread
<1> QED
  BY <1>1, <1>2, <1>3, <1>4, <1>5, <1>6 DEF Next

(* A step of AWS: a terminated cluster neither works nor changes state.     *)
LEMMA CloudKeeps ==
    ASSUME QueryInv, CloudStep, UNCHANGED <<shared, caches, thread>>
    PROVE  QueryInv'
<1> USE DEF QueryInv, CloudStep, Work, Shutdown, Terminate, shared, caches,
            thread, question, call
<1>1. CloudTypeOK'
  BY DEF TypeOK, CloudTypeOK, ClusterStates, TerminalStates
<1>2. \A c \in Clusters : state[c] \in TerminalStates =>
          state'[c] = state[c] /\ usage'[c] = usage[c]
  BY DEF TypeOK, CloudTypeOK, TerminalStates
<1>3. TypeOK' /\ ThreadInv'
  BY <1>1 DEF TypeOK, ThreadInv, Estimator, Cost
<1>4. DescriptionInv'
  BY <1>2 DEF DescriptionInv, ThreadInv
<1>5. CachedCostFinal' /\ CachedDescriptionFinal'
  BY <1>2 DEF CachedCostFinal, CachedDescriptionFinal, CostNow, TypeOK
<1>6. EstimateInv'
  <2>1. \A t \in Threads : stage[t] = "storeCost" /\ desc[t] \in TerminalStates =>
            CostNow(subject[t])' = CostNow(subject[t])
    BY <1>2 DEF DescriptionInv, ThreadInv, CostNow
  <2> HIDE DEF CloudStep
  <2> QED
    BY <2>1 DEF EstimateInv
<1> QED
  BY <1>3, <1>4, <1>5, <1>6

(* A region switch replaces a coherent estimator by another.                *)
LEMMA RegionChangeKeeps ==
    ASSUME QueryInv, RegionChange PROVE QueryInv'
  BY DEF QueryInv, RegionChange, cloudVars, caches, thread, question, call, TypeOK,
     CloudTypeOK, ThreadInv, DescriptionInv, EstimateInv, CachedCostFinal, CostNow,
     CachedDescriptionFinal, Estimator, EstimatorFor

(* An estimate by a coherent estimator that knows the cluster is in the     *)
(* prices of its region, and one that is used to fill the cache is final.   *)
LEMMA EstimateAtHome ==
    ASSUME CacheInv, SpotFaults = FALSE, NEW t \in Threads, Estimate(t)
    PROVE  \E u \in UsageSince(subject[t], begun[t]) :
               result' = [result EXCEPT ![t] =
                   [usage |-> u, prices |-> Home[subject[t]], spot |-> TRUE]]
<1>1. /\ bound[t].emr = Home[subject[t]]
      /\ bound[t] = EstimatorFor(bound[t].prices)
  BY DEF Estimate, Goto, CacheInv, QueryInv, EstimateInv
<1>2. PICK u \in UsageSince(subject[t], begun[t]), fault \in {FALSE} :
          result' = [result EXCEPT ![t] =
              [usage  |-> u,
               prices |-> bound[t].prices,
               spot   |-> bound[t].ec2 = Home[subject[t]] /\ ~fault]]
  BY DEF Estimate
<1>3. /\ bound[t].prices = Home[subject[t]]
      /\ (bound[t].ec2 = Home[subject[t]] /\ ~fault) = TRUE
  BY <1>1, <1>2 DEF EstimatorFor
<1> QED
  BY <1>2, <1>3

LEMMA EstimateIsFinal ==
    ASSUME CacheInv, SpotFaults = FALSE, NEW t \in Threads, Estimate(t),
           desc[t] \in TerminalStates
    PROVE  result' = [result EXCEPT ![t] = CostNow(subject[t])]
  BY EstimateAtHome
  DEF CacheInv, ProgressInv, Estimate, Goto, UsageSince, CostNow

(* A step of a query that stores nothing keeps what all threads know.       *)
LEMMA QuietKeeps ==
    ASSUME CacheInv, SpotFaults = FALSE, NEW t \in Threads,
           \/ AskSome(t) \/ CostHit(t) \/ CostMiss(t) \/ ClusterHit(t)
           \/ ClusterMiss(t) \/ Describe(t) \/ BindEstimator(t)
           \/ Estimate(t) \/ GiveUp(t) \/ Reply(t)
    PROVE  QueryInv'
<1> USE CostsAssumption
    DEF CacheInv, QueryInv, TypeOK, CloudTypeOK, ThreadInv, DescriptionInv, EstimateInv,
        CachedCostFinal, CachedDescriptionFinal, CostNow,
        Stages, ClusterStates, TerminalStates, Estimator, EstimatorFor, Cost,
        Goto, AfterDescription, cloudVars, shared, caches, question, call
<1>1. ASSUME NEW c \in Clusters, AskCost(t, c) PROVE QueryInv'
  <2>1. Progress(c) \in ProgressValues
    BY DEF Progress, ProgressValues
  <2>2. TypeOK'
    BY <1>1, <2>1 DEF AskCost
  <2>3. ThreadInv' /\ DescriptionInv' /\ EstimateInv'
    BY <1>1 DEF AskCost
  <2> QED
    BY <1>1, <2>2, <2>3 DEF AskCost
<1>2. ASSUME NEW c \in Clusters, AskDescription(t, c) PROVE QueryInv'
  BY <1>2 DEF AskDescription
<1>3. CASE CostHit(t)
  <2>1. TypeOK'
    BY <1>3 DEF CostHit
  <2>2. ThreadInv'
    BY <1>3 DEF CostHit
  <2>3. DescriptionInv'
    BY <1>3 DEF CostHit
  <2>4. EstimateInv'
    <3>1. \A c \in Clusters : CostNow(c)' = CostNow(c)
      BY <1>3 DEF CostHit
    <3> HIDE DEF CachedCostFinal, CachedDescriptionFinal,
                 DescriptionInv, CostNow, Estimator, EstimatorFor, Cost
    <3> QED
      BY <1>3, <3>1 DEF CostHit
  <2>5. CachedCostFinal' /\ CachedDescriptionFinal'
    BY <1>3 DEF CostHit
  <2> QED
    BY <2>1, <2>2, <2>3, <2>4, <2>5
<1>4. CASE CostMiss(t)
  BY <1>4 DEF CostMiss
<1>5. CASE ClusterHit(t)
  BY <1>5 DEF ClusterHit
<1>6. CASE ClusterMiss(t)
  BY <1>6 DEF ClusterMiss
<1>7. CASE Describe(t)
  BY <1>7 DEF Describe
<1>8. CASE BindEstimator(t)
  <2>1. Progress(subject[t]) \in ProgressValues
    BY <1>8 DEF BindEstimator, Progress, ProgressValues
  <2>2. TypeOK'
    BY <1>8, <2>1 DEF BindEstimator
  <2>3. ThreadInv' /\ DescriptionInv' /\ EstimateInv'
    BY <1>8 DEF BindEstimator
  <2> QED
    BY <1>8, <2>2, <2>3 DEF BindEstimator
<1>9. CASE Estimate(t)
  <2>1. TypeOK'
    BY <1>9 DEF Estimate, UsageSince, ProgressInv, ProgressValues
  <2>2. ThreadInv'
    BY <1>9 DEF Estimate
  <2>3. DescriptionInv'
    BY <1>9 DEF Estimate
  <2>4. EstimateInv'
    <3>1. desc[t] \in TerminalStates =>
              result' = [result EXCEPT ![t] = CostNow(subject[t])]
      BY <1>9, EstimateIsFinal DEF TerminalStates
    <3> HIDE DEF CachedCostFinal, CachedDescriptionFinal,
                 DescriptionInv, CostNow, Estimator, EstimatorFor, Cost
    <3>2. \A c \in Clusters : CostNow(c)' = CostNow(c)
      BY <1>9 DEF Estimate, CostNow
    <3> QED
      BY <1>9, <3>1, <3>2 DEF Estimate
  <2>5. CachedCostFinal' /\ CachedDescriptionFinal'
    BY <1>9 DEF Estimate
  <2> QED
    BY <2>1, <2>2, <2>3, <2>4, <2>5
<1>10. CASE GiveUp(t)
  <2>1. TypeOK'
    BY <1>10 DEF GiveUp
  <2>2. ThreadInv'
    BY <1>10 DEF GiveUp
  <2>3. DescriptionInv'
    BY <1>10 DEF GiveUp
  <2>4. EstimateInv'
    <3>1. \A c \in Clusters : CostNow(c)' = CostNow(c)
      BY <1>10 DEF GiveUp
    <3> HIDE DEF CachedCostFinal, CachedDescriptionFinal,
                 DescriptionInv, CostNow, Estimator, EstimatorFor, Cost
    <3> QED
      BY <1>10, <3>1 DEF GiveUp
  <2>5. CachedCostFinal' /\ CachedDescriptionFinal'
    BY <1>10 DEF GiveUp
  <2> QED
    BY <2>1, <2>2, <2>3, <2>4, <2>5
<1>11. CASE Reply(t)
  BY <1>11 DEF Reply
<1> QED
  BY <1>1, <1>2, <1>3, <1>4, <1>5, <1>6, <1>7, <1>8, <1>9, <1>10, <1>11 DEF AskSome

(* The description that is stored is that of a terminated cluster.          *)
LEMMA StoreClusterKeeps ==
    ASSUME QueryInv, NEW t \in Threads, StoreCluster(t) PROVE QueryInv'
<1> USE DEF QueryInv, StoreCluster, Goto, AfterDescription, cloudVars, shared, question, call
<1>1. CASE ~IsTerminated(desc[t])
  BY <1>1, CostsAssumption
  DEF TypeOK, CloudTypeOK, ThreadInv, DescriptionInv, EstimateInv,
      CachedCostFinal, CachedDescriptionFinal, CostNow,
      Stages, TerminalStates, IsTerminated
<1>2. CASE IsTerminated(desc[t])
  <2> DEFINE c == subject[t]
  <2>1. /\ cluster_cache' = Put(cluster_cache, c, desc[t])
        /\ c \in Clusters
        /\ desc[t] \in TerminalStates
        /\ state[c] = desc[t]
    BY <1>2 DEF IsTerminated, TerminalStates, DescriptionInv, ThreadInv
  <2>2. DOMAIN cluster_cache' = DOMAIN cluster_cache \cup {c}
    BY <2>1 DEF Put
  <2>3. \A x \in DOMAIN cluster_cache' : cluster_cache'[x] =
            IF x = c THEN desc[t] ELSE cluster_cache[x]
    BY <2>1 DEF Put
  <2> HIDE DEF c
  <2>4. CachedDescriptionFinal'
    BY <2>1, <2>2, <2>3 DEF CachedDescriptionFinal
  <2>5. CachedCostFinal' /\ EstimateInv'
    BY <2>2, CostsAssumption
    DEF CachedCostFinal, CostNow, EstimateInv, TypeOK,
        ThreadInv
  <2>6. TypeOK'
    BY <2>1, <2>2, <2>3
    DEF TypeOK, CloudTypeOK, ClusterStates, TerminalStates, Stages
  <2>7. ThreadInv'
    BY CostsAssumption DEF ThreadInv, TypeOK
  <2>8. DescriptionInv'
    BY <2>2 DEF DescriptionInv, TypeOK, c
  <2> QED
    BY <2>4, <2>5, <2>6, <2>7, <2>8
<1> QED
  BY <1>1, <1>2

(* The cost that is stored is the terminated cluster's final one.           *)
LEMMA StoreCostKeeps ==
    ASSUME QueryInv, NEW t \in Threads, StoreCost(t) PROVE QueryInv'
<1> USE DEF QueryInv, StoreCost, Goto, cloudVars, shared, question, call
<1>1. TypeOK' /\ ThreadInv' /\ DescriptionInv' /\ EstimateInv'
      /\ CachedDescriptionFinal'
  <2>1. subject[t] \in Clusters /\ result[t] \in Cost
    BY DEF ThreadInv, TypeOK
  <2>2. /\ DOMAIN cost_cache' \subseteq Clusters
        /\ \A x \in DOMAIN cost_cache' : cost_cache'[x] \in Cost
    BY <2>1 DEF TypeOK, Put
  <2>3. TypeOK'
    BY <2>2 DEF TypeOK, CloudTypeOK, Stages
  <2>4. ThreadInv' /\ DescriptionInv' /\ EstimateInv'
    BY CostsAssumption
    DEF TypeOK, ThreadInv, DescriptionInv, EstimateInv, CostNow
  <2> QED
    BY <2>3, <2>4 DEF CachedDescriptionFinal
<1>2. CachedCostFinal'
  <2>1. CASE ~IsTerminated(desc[t])
    BY <2>1 DEF CachedCostFinal, CostNow
  <2>2. CASE IsTerminated(desc[t])
    <3> DEFINE c == subject[t]
    <3>1. /\ cost_cache' = Put(cost_cache, c, result[t])
          /\ desc[t] \in TerminalStates
          /\ state[c] \in TerminalStates
          /\ result[t] = CostNow(c)
      BY <2>2 DEF IsTerminated, TerminalStates, DescriptionInv, EstimateInv
    <3>2. DOMAIN cost_cache' = DOMAIN cost_cache \cup {c}
      BY <3>1 DEF Put
    <3>3. \A x \in DOMAIN cost_cache' : cost_cache'[x] =
              IF x = c THEN result[t] ELSE cost_cache[x]
      BY <3>1 DEF Put
    <3> HIDE DEF c
    <3> QED
      BY <3>1, <3>2, <3>3 DEF CachedCostFinal, CostNow
  <2> QED
    BY <2>1, <2>2
<1> QED
  BY <1>1, <1>2

(* Every step keeps the invariant as long as spot prices can be had.        *)
LEMMA CachesInvariant ==
    ASSUME SpotFaults = FALSE PROVE Spec => []CacheInv
<1>1. CacheInv /\ [Next]_costsVars => CacheInv'
  <2> SUFFICES ASSUME CacheInv, [Next]_costsVars PROVE QueryInv'
    BY ProgressKeeps DEF CacheInv
  <2>1. CASE CloudStep /\ UNCHANGED <<shared, caches, thread>>
    BY <2>1, CloudKeeps DEF CacheInv
  <2>2. CASE RegionChange
    BY <2>2, RegionChangeKeeps DEF CacheInv
  <2>3. ASSUME NEW t \in Threads, AskSome(t) \/ Advance(t) \/ Reply(t)
        PROVE  QueryInv'
    BY <2>3, QuietKeeps, StoreClusterKeeps, StoreCostKeeps DEF Advance, CacheInv
  <2>4. CASE UNCHANGED costsVars
    BY <2>4
    DEF costsVars, cloudVars, shared, caches, thread, question, call, CacheInv,
        QueryInv, TypeOK, CloudTypeOK, ThreadInv, DescriptionInv, EstimateInv,
        CachedCostFinal, CachedDescriptionFinal, CostNow
  <2> QED
    BY <2>1, <2>2, <2>3, <2>4 DEF Next
<1> QED
  BY <1>1, InitialCaches, PTL DEF Spec

(* A cached cost is final and priced at home, whatever interleaving of      *)
(* queries, terminations, failures and region switches produced it.         *)
THEOREM CostsFinal ==
    ASSUME SpotFaults = FALSE PROVE Spec => []CachedCostFinal
<1>1. CacheInv => CachedCostFinal
  BY DEF CacheInv, QueryInv
<1> QED
  BY <1>1, CachesInvariant, PTL

(* The attributes of Inject and the locals of the two methods keep their     *)
(* types, for any clusters, regions and number of threads.                  *)
THEOREM TypeCorrect ==
    ASSUME SpotFaults = FALSE PROVE Spec => []TypeOK
<1>1. CacheInv => TypeOK
  BY DEF CacheInv, QueryInv
<1> QED
  BY <1>1, CachesInvariant, PTL

(* A cached description is that of a terminated cluster, and current.       *)
THEOREM DescriptionsFinal ==
    ASSUME SpotFaults = FALSE PROVE Spec => []CachedDescriptionFinal
<1>1. CacheInv => CachedDescriptionFinal
  BY DEF CacheInv, QueryInv
<1> QED
  BY <1>1, CachesInvariant, PTL

(* No step drops or changes a cache entry: a thread that stores over        *)
(* another's entry stores the same value.                                   *)
THEOREM EntriesStable ==
    ASSUME SpotFaults = FALSE PROVE Spec => CacheEntriesStable
<1> DEFINE Stable ==
        /\ \A c \in DOMAIN cost_cache :
             c \in DOMAIN cost_cache' /\ cost_cache'[c] = cost_cache[c]
        /\ \A c \in DOMAIN cluster_cache :
             c \in DOMAIN cluster_cache' /\ cluster_cache'[c] = cluster_cache[c]
<1>1. CacheInv /\ [Next]_costsVars => [Stable]_costsVars
  <2> SUFFICES ASSUME CacheInv, Next PROVE Stable
    OBVIOUS
  <2>1. CASE UNCHANGED caches
    BY <2>1 DEF caches
  <2>2. ASSUME NEW t \in Threads, StoreCluster(t) PROVE Stable
    <3>1. IsTerminated(desc[t]) => state[subject[t]] = desc[t]
      BY <2>2 DEF StoreCluster, Goto, CacheInv, QueryInv, DescriptionInv, IsTerminated,
         TerminalStates
    <3> QED
      BY <2>2, <3>1 DEF StoreCluster, CacheInv, QueryInv, CachedDescriptionFinal, Put
  <2>3. ASSUME NEW t \in Threads, StoreCost(t) PROVE Stable
    <3>1. IsTerminated(desc[t]) => result[t] = CostNow(subject[t])
      BY <2>3 DEF StoreCost, Goto, CacheInv, QueryInv, EstimateInv, IsTerminated,
         TerminalStates
    <3> QED
      BY <2>3, <3>1 DEF StoreCost, CacheInv, QueryInv, CachedCostFinal, Put
  <2> QED
    BY <2>1, <2>2, <2>3
    DEF Next, RegionChange, AskSome, AskCost, AskDescription, Advance, CostHit,
        CostMiss, ClusterHit, ClusterMiss, Describe, BindEstimator, Estimate,
        GiveUp, Reply, caches
<1> QED
  BY <1>1, CachesInvariant, PTL DEF Spec, CacheEntriesStable

-----------------------------------------------------------------------------
(* EmrCosts starts where CostService does.                                  *)
LEMMA ServiceInit == Init => Service!Init
  BY CostsAssumption DEF Init, Service!Init, CloudInit, Service!CloudInit, PhaseOf,
     PhaseMap, SubjectMap

(* A query that goes from a stage before its cost is found to one after it, *)
(* with a cost since the question or nothing, takes a cost in CostService.  *)
LEMMA TakeStep ==
    ASSUME CacheInv, NEW t \in Threads, wants[t] = "cost",
           stage[t] \notin {"idle", "storeCost", "reply"},
           NEW s \in {"storeCost", "reply"}, stage' = [stage EXCEPT ![t] = s],
           NEW v, result' = [result EXCEPT ![t] = v],
           \/ v = Empty
           \/ \E u \in UsageSince(subject[t], asked[t]) :
                  v = [usage |-> u, prices |-> Home[subject[t]], spot |-> TRUE],
           UNCHANGED <<cloudVars, question>>
    PROVE  Service!Take(t)
<1> USE DEF CacheInv, QueryInv, TypeOK, PhaseMap, SubjectMap, PhaseOf, question
<1>1. PhaseMap[t] = "asked"
  OBVIOUS
<1>2. PhaseMap' = [PhaseMap EXCEPT ![t] = "answered"]
  OBVIOUS
<1>3. SubjectMap[t] = subject[t] /\ UNCHANGED SubjectMap
  OBVIOUS
<1>4. \A u : Service!CostOf(subject[t], u) =
               [usage |-> u, prices |-> Home[subject[t]], spot |-> TRUE]
  BY DEF Service!CostOf
<1>5. Service!UsageSince(subject[t], asked[t]) = UsageSince(subject[t], asked[t])
  BY DEF Service!UsageSince, UsageSince
<1>6. \/ result' = [result EXCEPT ![t] = Empty]
      \/ \E u \in Service!UsageSince(SubjectMap[t], asked[t]) :
             result' = [result EXCEPT ![t] = Service!CostOf(SubjectMap[t], u)]
  <2> HIDE DEF SubjectMap
  <2> QED
    BY <1>3, <1>4, <1>5
<1> QED
  BY <1>1, <1>2, <1>3, <1>6 DEF Service!Take, Service!cloudVars, cloudVars

(* The cost that a call of the estimator finds is one since the question.   *)
LEMMA EstimateSinceAsked ==
    ASSUME CacheInv, NEW t \in Threads, stage[t] = "estimate",
           NEW u \in UsageSince(subject[t], begun[t])
    PROVE  u \in UsageSince(subject[t], asked[t])
<1>1. /\ asked[t] \in ProgressValues /\ begun[t] \in ProgressValues
      /\ asked[t].usage <= begun[t].usage
      /\ asked[t].over => begun[t].over
      /\ elapsed[subject[t]] \in Nat
  BY DEF CacheInv, QueryInv, ProgressInv, ThreadInv, TypeOK, CloudTypeOK
<1> QED
  BY <1>1 DEF UsageSince, ProgressValues

(* So is the cost of the moment, which the cache keeps.                     *)
LEMMA NowSinceAsked ==
    ASSUME CacheInv, NEW t \in Threads, wants[t] = "cost"
    PROVE  usage[subject[t]] \in UsageSince(subject[t], asked[t])
<1>1. /\ asked[t] \in ProgressValues
      /\ asked[t].usage <= usage[subject[t]]
      /\ elapsed[subject[t]] \in Nat /\ usage[subject[t]] \in Nat
      /\ usage[subject[t]] <= elapsed[subject[t]]
  BY CostsAssumption
  DEF CacheInv, QueryInv, ProgressInv, ThreadInv, TypeOK, CloudTypeOK
<1> QED
  BY <1>1 DEF UsageSince, ProgressValues

(* Every step of EmrCosts is a step of CostService or none at all.          *)
LEMMA ServiceStep ==
    ASSUME CacheInv, CacheInv', SpotFaults = FALSE, [Next]_costsVars
    PROVE  [Service!Next]_(Service!serviceVars)
<1> USE CostsAssumption DEF Service!serviceVars, Service!cloudVars, PhaseOf,
        PhaseMap, SubjectMap, cloudVars, shared, caches, thread, question, call
<1>1. CASE CloudStep /\ UNCHANGED <<shared, caches, thread>>
  BY <1>1
  DEF Service!Next, Service!CloudStep, Service!Work, Service!Shutdown,
      Service!Terminate, Service!TerminalStates, CloudStep, Work, Shutdown,
      Terminate, TerminalStates
<1>2. CASE RegionChange
  BY <1>2 DEF RegionChange
<1>3. ASSUME NEW t \in Threads, AskSome(t) \/ Advance(t) \/ Reply(t)
      PROVE  [Service!Next]_(Service!serviceVars)
  <2> USE DEF CacheInv, QueryInv, TypeOK, ThreadInv, Goto, AfterDescription
  <2>1. ASSUME NEW c \in Clusters, AskCost(t, c)
        PROVE  Service!Ask(t, c)
    BY <2>1 DEF AskCost, Service!Ask, Progress, Service!Progress, TerminalStates,
       Service!TerminalStates
  <2>2. ASSUME NEW c \in Clusters, AskDescription(t, c)
        PROVE  UNCHANGED Service!serviceVars
    BY <2>2 DEF AskDescription
  <2>3. CASE CostHit(t)
    <3>1. cost_cache[subject[t]] = CostNow(subject[t])
      BY <2>3 DEF CostHit, CachedCostFinal
    <3>2. \E u \in UsageSince(subject[t], asked[t]) : cost_cache[subject[t]] =
             [usage |-> u, prices |-> Home[subject[t]], spot |-> TRUE]
      BY <2>3, <3>1, NowSinceAsked DEF CostHit, CostNow
    <3> QED
      BY <2>3, <3>2, TakeStep DEF CostHit, Service!Next
  <2>4. CASE CostMiss(t) \/ ClusterMiss(t) \/ ClusterHit(t) \/ Describe(t)
             \/ StoreCluster(t) \/ BindEstimator(t) \/ StoreCost(t)
    BY <2>4 DEF CostMiss, ClusterMiss, ClusterHit, Describe, StoreCluster,
       BindEstimator, StoreCost
  <2>5. CASE Estimate(t)
    <3>1. PICK u \in UsageSince(subject[t], begun[t]) :
              result' = [result EXCEPT ![t] =
                  [usage |-> u, prices |-> Home[subject[t]], spot |-> TRUE]]
      BY <2>5, EstimateAtHome
    <3>2. u \in UsageSince(subject[t], asked[t])
      BY <2>5, <3>1, EstimateSinceAsked DEF Estimate
    <3> QED
      BY <2>5, <3>1, <3>2, TakeStep DEF Estimate, Service!Next
  <2>6. CASE GiveUp(t) /\ wants[t] = "cost"
    BY <2>6, TakeStep DEF GiveUp, Service!Next
  <2>7. CASE GiveUp(t) /\ wants[t] # "cost"
    BY <2>7 DEF GiveUp
  <2>8. CASE Reply(t) /\ wants[t] = "cost"
    <3>1. PhaseMap' = [PhaseMap EXCEPT ![t] = "idle"]
      BY <2>8 DEF Reply
    <3>2. SubjectMap' = [SubjectMap EXCEPT ![t] = None]
      BY <2>8 DEF Reply
    <3> QED
      BY <2>8, <3>1, <3>2 DEF Reply, Service!Next, Service!Reply
  <2>9. CASE Reply(t) /\ wants[t] # "cost"
    BY <2>9 DEF Reply, ProgressInv
  <2> QED
    BY <1>3, <2>1, <2>2, <2>3, <2>4, <2>5, <2>6, <2>7, <2>8, <2>9
    DEF AskSome, Advance, Service!Next
<1>4. CASE UNCHANGED costsVars
  BY <1>4 DEF costsVars
<1> QED
  BY <1>1, <1>2, <1>3, <1>4 DEF Next

(* check_cost_cache, with its caches, its failures and the region switch,   *)
(* implements a service that computes every cost afresh, where a cost takes *)
(* as many calls as it takes and the cluster goes on in between.            *)
THEOREM CostsImplementService ==
    ASSUME SpotFaults = FALSE PROVE Spec => ImplementsCostService
  BY ServiceInit, ServiceStep, CachesInvariant, PTL
  DEF Spec, ImplementsCostService, Service!Spec
=============================================================================
