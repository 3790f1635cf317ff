----------------------- MODULE DashboardServerProofs ------------------------
(***************************************************************************)
(* The composition of the region switch with the caches, for any regions,  *)
(* clusters and number of threads: with patient users the region block     *)
(* gives the cost methods one region's estimator at a time, so that the    *)
(* server implements EmrCosts and keeps whatever EmrCosts keeps.           *)
(***************************************************************************)
EXTENDS DashboardServer, RegionSwitchProofs

CostsProofs == INSTANCE EmrCostsProofs

ClientThere == client_emr \in Regions

(* The region block runs in the server as it does alone.                    *)
THEOREM ServerSwitches == ServerSpec => Spec
<1>1. ServerInit => Init
  BY DEF ServerInit
<1>2. [ServerNext]_serverVars => [Next]_regionVars
  <2> SUFFICES ASSUME [ServerNext]_serverVars PROVE [Next]_regionVars
    OBVIOUS
  <2>1. CASE RegionStep
    BY <2>1 DEF RegionStep, Next
  <2>2. ASSUME NEW t \in Threads, PanelStep(t) PROVE [Next]_regionVars
    BY <2>2 DEF PanelStep, Next
  <2>3. ASSUME NEW t \in Threads, AnswerPanel(t) PROVE [Next]_regionVars
    BY <2>3 DEF AnswerPanel, Next
  <2>4. CASE Costs!CloudStep /\ UNCHANGED <<regionVars, queries>>
    BY <2>4
  <2>5. CASE UNCHANGED serverVars
    BY <2>5 DEF serverVars
  <2> QED
    BY <2>1, <2>2, <2>3, <2>4, <2>5 DEF ServerNext
<1> QED
  BY <1>1, <1>2, PTL DEF ServerSpec, Spec

(* A step of the region block is a RegionChange of EmrCosts: a client and   *)
(* an estimator of one region each.                                         *)
LEMMA SwitchIsRegionChange ==
    ASSUME Platform = "AWS_EMR", TypeOK', EstimatorCoherent', ClientThere',
           UNCHANGED cacheVars
    PROVE  Costs!RegionChange
<1>1. calc'.prices \in Regions /\ calc' = Costs!EstimatorFor(calc'.prices)
  BY DEF TypeOK, Estimator, EstimatorCoherent, EstimatorOf, ClientOf, Costs!EstimatorFor
<1> QED
  BY <1>1 DEF ClientThere, Costs!RegionChange, cacheVars, cloud, queries, Costs!cloudVars,
              Costs!caches, Costs!thread, Costs!question, Costs!call

(* On EMR the clients are always there.                                     *)
LEMMA ClientsThere ==
    ASSUME Platform = "AWS_EMR" PROVE Spec => []ClientThere
<1>1. Init => ClientThere
  BY DEF Init, ClientOf, ClientThere
<1>2. TypeOK /\ ClientThere /\ [Next]_regionVars => ClientThere'
  BY DEF ClientThere, TypeOK, Next, SelectRegion, RegionBlock, Request, Switch, CheckActive, SetActive,
         CallReinitialize, ReinitializeGuard, SetCurrent, ReadRegionForEmr, SetClientEmr,
         ReadRegionForEc2, SetClientEc2, ReadArgEmr, ReadArgEc2, ReadArgRegion, SetCalc,
         Raise, Lookup, Answer, inject, regionVars
<1> QED
  BY <1>1, <1>2, TypeCorrect, PTL DEF Spec

(* The server implements EmrCosts: whatever the threads that switch do in   *)
(* the middle of a cost query, the query sees no more than a region change. *)
THEOREM ServerImplementsCosts ==
    ASSUME Platform = "AWS_EMR", PatientUser PROVE ServerSpec => ImplementsEmrCosts
<1>1. ServerInit => Costs!Init
  BY DEF ServerInit
<1>2. /\ [ServerNext]_serverVars
      /\ TypeOK' /\ EstimatorCoherent' /\ ClientThere'
      => [Costs!Next]_(Costs!costsVars)
  <2> SUFFICES ASSUME [ServerNext]_serverVars,
                      TypeOK', EstimatorCoherent', ClientThere'
               PROVE  [Costs!Next]_(Costs!costsVars)
    OBVIOUS
  <2> USE DEF Costs!costsVars, Costs!cloudVars, Costs!shared, Costs!caches, Costs!thread, Costs!question, Costs!call
  <2>1. CASE RegionStep
    BY <2>1, SwitchIsRegionChange DEF RegionStep, Costs!Next
  <2>2. ASSUME NEW t \in Threads, PanelStep(t) PROVE Costs!Next
    BY <2>2 DEF PanelStep, Costs!Next
  <2>3. ASSUME NEW t \in Threads, AnswerPanel(t) PROVE UNCHANGED Costs!costsVars
    BY <2>3 DEF AnswerPanel, Answer, inject, cacheVars, cloud, queries
  <2>4. CASE Costs!CloudStep /\ UNCHANGED <<regionVars, queries>>
    BY <2>4 DEF regionVars, inject, queries, Costs!Next
  <2>5. CASE UNCHANGED serverVars
    BY <2>5 DEF serverVars, regionVars, inject, cacheVars, cloud, queries
  <2> QED
    BY <2>1, <2>2, <2>3, <2>4, <2>5 DEF ServerNext
<1>3. ServerSpec => [](TypeOK /\ EstimatorCoherent /\ ClientThere)
  BY ServerSwitches, TypeCorrect, CoherentEstimator, ClientsThere, PTL
<1> QED
  BY <1>1, <1>2, <1>3, PTL DEF ServerSpec, ImplementsEmrCosts, Costs!Spec

(* The two instances of EmrCosts, with and without its theorems, are one.   *)
LEMMA SameCosts == Costs!Spec => CostsProofs!Spec
<1> USE DEF Costs!cloudVars, CostsProofs!cloudVars, Costs!shared, CostsProofs!shared,
            Costs!caches, CostsProofs!caches, Costs!thread, CostsProofs!thread,
            Costs!costsVars, CostsProofs!costsVars,
            Costs!question, CostsProofs!question, Costs!call, CostsProofs!call,
            Costs!Progress, CostsProofs!Progress, Costs!UsageSince, CostsProofs!UsageSince,
            Costs!EstimatorFor, CostsProofs!EstimatorFor, Costs!Goto, CostsProofs!Goto,
            Costs!AfterDescription, CostsProofs!AfterDescription,
            Costs!IsTerminated, CostsProofs!IsTerminated, Costs!Put, CostsProofs!Put,
            Costs!TerminalStates, CostsProofs!TerminalStates
<1>1. Costs!Init => CostsProofs!Init
  BY DEF Costs!Init, CostsProofs!Init, Costs!CloudInit, CostsProofs!CloudInit
<1>2. Costs!CloudStep => CostsProofs!CloudStep
  BY DEF Costs!CloudStep, CostsProofs!CloudStep, Costs!Work, CostsProofs!Work,
         Costs!Shutdown, CostsProofs!Shutdown, Costs!Terminate, CostsProofs!Terminate
<1>3. Costs!RegionChange => CostsProofs!RegionChange
  BY DEF Costs!RegionChange, CostsProofs!RegionChange
<1>4. ASSUME NEW t \in Threads, Costs!AskSome(t) PROVE CostsProofs!AskSome(t)
  BY <1>4 DEF Costs!AskSome, CostsProofs!AskSome, Costs!AskCost, CostsProofs!AskCost,
              Costs!AskDescription, CostsProofs!AskDescription
<1>5. ASSUME NEW t \in Threads, Costs!Advance(t) PROVE CostsProofs!Advance(t)
  <2>1. CASE Costs!CostHit(t) \/ Costs!CostMiss(t)
    BY <2>1 DEF Costs!CostHit, CostsProofs!CostHit, Costs!CostMiss, CostsProofs!CostMiss,
                CostsProofs!Advance
  <2>2. CASE Costs!ClusterHit(t) \/ Costs!ClusterMiss(t) \/ Costs!Describe(t)
    BY <2>2 DEF Costs!ClusterHit, CostsProofs!ClusterHit, Costs!ClusterMiss,
                CostsProofs!ClusterMiss, Costs!Describe, CostsProofs!Describe,
                CostsProofs!Advance
  <2>3. CASE Costs!StoreCluster(t) \/ Costs!StoreCost(t)
    BY <2>3 DEF Costs!StoreCluster, CostsProofs!StoreCluster, Costs!StoreCost,
                CostsProofs!StoreCost, CostsProofs!Advance
  <2>4. CASE Costs!BindEstimator(t) \/ Costs!Estimate(t) \/ Costs!GiveUp(t)
    BY <2>4 DEF Costs!BindEstimator, CostsProofs!BindEstimator, Costs!Estimate,
                CostsProofs!Estimate, Costs!GiveUp, CostsProofs!GiveUp,
                CostsProofs!Advance
  <2> QED
    BY <1>5, <2>1, <2>2, <2>3, <2>4 DEF Costs!Advance
<1>6. ASSUME NEW t \in Threads, Costs!Reply(t) PROVE CostsProofs!Reply(t)
  BY <1>6 DEF Costs!Reply, CostsProofs!Reply
<1>7. [Costs!Next]_(Costs!costsVars) => [CostsProofs!Next]_(CostsProofs!costsVars)
  BY <1>2, <1>3, <1>4, <1>5, <1>6 DEF Costs!Next, CostsProofs!Next
<1> QED
  BY <1>1, <1>7, PTL DEF Costs!Spec, CostsProofs!Spec

(* No cost is cached in another region's prices, switches in the middle of  *)
(* an estimate included.                                                    *)
THEOREM ServerCostsAtHome ==
    ASSUME Platform = "AWS_EMR", PatientUser, SpotFaults = FALSE
    PROVE  ServerSpec => []CachedCostAtHome
<1>1. ServerSpec => CostsProofs!Spec
  BY ServerImplementsCosts, SameCosts, PTL DEF ImplementsEmrCosts
<1>2. CostsProofs!MaxUsageAssumption /\ CostsProofs!CostsAssumption
  BY ServerAssumption
  DEF Costs!MaxUsageAssumption, Costs!CostsAssumption,
      CostsProofs!MaxUsageAssumption, CostsProofs!CostsAssumption
<1>3. CostsProofs!Spec => []CostsProofs!CachedCostFinal
  BY <1>2, CostsProofs!CostsFinal
<1>4. CostsProofs!CachedCostFinal => CachedCostAtHome
  BY DEF CostsProofs!CachedCostFinal, CachedCostAtHome, CostsProofs!CostNow
<1> QED
  BY <1>1, <1>3, <1>4, PTL
=============================================================================
