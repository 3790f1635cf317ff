------------------------- MODULE RegionSwitchProofs -------------------------
(***************************************************************************)
(* Safety of the region switch for any regions, any number of threads and  *)
(* either platform, as long as the drop-down changes between page loads.   *)
(***************************************************************************)
EXTENDS RegionSwitch, TLAPS

(* The program points that only AWS_EMR visits, and those at which a thread *)
(* has already assigned the attribute each set is named for.                *)
EmrPoints     == {"readEmr", "setEmr", "readEc2", "setEc2", "argEmr", "argEc2"}
BeforeCurrent == {"call", "guard", "setCurrent"}
PastCurrent   == Reinitializing \ BeforeCurrent
PastEmr       == PastCurrent \ {"readEmr", "setEmr"}
PastEc2       == PastEmr \ {"readEc2", "setEc2"}

(* AWS_DBX never makes a client.                                            *)
PlatformInv ==
    Platform # "AWS_EMR" =>
        /\ client_emr = NoClient
        /\ client_ec2 = NoClient
        /\ \A t \in Threads :
            /\ pc[t] \notin EmrPoints
            /\ built[t].emr = NoClient
            /\ built[t].ec2 = NoClient

(* What a thread knows at its program point: all requests in flight carry   *)
(* the dashboard's region, and what the thread assigned cannot have been    *)
(* assigned anything else since.                                            *)
ThreadInv ==
    \A t \in Threads :
        /\ pc[t] # "idle" => sel[t] = dashboard
        /\ pc[t] \in Reinitializing \cup {"serve"} => active_region = dashboard
        /\ pc[t] \in Reinitializing \ {"call"} => arg[t] = dashboard
        /\ pc[t] \in PastCurrent => current_region = dashboard
        /\ pc[t] \in {"setEmr", "setEc2"} => tmp[t] = dashboard
        /\ pc[t] \in PastEmr => client_emr = ClientOf(dashboard)
        /\ pc[t] \in PastEc2 => client_ec2 = ClientOf(dashboard)
        /\ pc[t] \in {"argEc2", "argRegion", "setCalc"} =>
               built[t].emr = ClientOf(dashboard)
        /\ pc[t] \in {"argRegion", "setCalc"} =>
               built[t].ec2 = ClientOf(dashboard)
        /\ pc[t] = "setCalc" => built[t].prices = dashboard

(* The inductive invariant behind EstimatorCoherent.                        *)
CoherenceInv == TypeOK /\ PlatformInv /\ ThreadInv /\ EstimatorCoherent

InstalledFor(r) ==
    /\ client_emr = ClientOf(r)
    /\ client_ec2 = ClientOf(r)
    /\ calc = EstimatorOf(r)

(* The region the server is in is fully installed, or some thread is still  *)
(* installing it, unless its constructors may raise.                        *)
InstallInv ==
    current_region \notin FaultyRegions =>
        InstalledFor(current_region) \/ \E t \in Threads : pc[t] \in PastCurrent

-----------------------------------------------------------------------------
(* What stands in the locals of an idle thread is a region.                 *)
LEMMA SomeRegion == ASSUME NEW r \in Regions PROVE NoRegion \in Regions
  BY DEF NoRegion

(* Every variable keeps a value of its kind, with any user and any fault.   *)
THEOREM TypeCorrect == Spec => []TypeOK
<1>1. Init => TypeOK
  BY RegionsAssumption, SomeRegion DEF Init, TypeOK, Client, Estimator,
     ClientOf, EstimatorOf, Points
<1>2. TypeOK /\ [Next]_regionVars => TypeOK'
  <2> SUFFICES ASSUME TypeOK, [Next]_regionVars PROVE TypeOK'
    OBVIOUS
  <2>0. EstimatorOf(NoRegion) \in Estimator /\ NoRegion \in Regions
    BY SomeRegion DEF TypeOK, EstimatorOf, ClientOf, Client, Estimator
  <2> USE DEF TypeOK, Goto, PassBy, LocalsGone, inject, locals, panel, Client, Estimator, Points,
              Reinitializing
  <2>1. ASSUME NEW r \in Regions, SelectRegion(r) PROVE TypeOK'
    BY <2>1 DEF SelectRegion
  <2>2. ASSUME NEW t \in Threads, RegionBlock(t) PROVE TypeOK'
    <3>1. CASE Request(t)
      BY <3>1 DEF Request
    <3>2. CASE CheckActive(t)
      BY <3>2 DEF CheckActive
    <3>3. CASE SetActive(t)
      BY <3>3 DEF SetActive
    <3>4. CASE CallReinitialize(t)
      BY <3>4 DEF CallReinitialize
    <3>5. CASE ReinitializeGuard(t)
      BY <3>5 DEF ReinitializeGuard
    <3>6. CASE SetCurrent(t)
      BY <3>6 DEF SetCurrent
    <3>7. CASE ReadRegionForEmr(t)
      BY <3>7 DEF ReadRegionForEmr
    <3>8. CASE SetClientEmr(t)
      BY <3>8 DEF SetClientEmr
    <3>9. CASE ReadRegionForEc2(t)
      BY <3>9 DEF ReadRegionForEc2
    <3>10. CASE SetClientEc2(t)
      BY <3>10 DEF SetClientEc2
    <3>11. CASE ReadArgEmr(t)
      BY <3>11 DEF ReadArgEmr
    <3>12. CASE ReadArgEc2(t)
      BY <3>12 DEF ReadArgEc2
    <3>13. CASE ReadArgRegion(t)
      BY <3>13 DEF ReadArgRegion
    <3>14. CASE SetCalc(t)
      BY <3>14 DEF SetCalc
    <3>15. CASE Raise(t)
      BY <2>0, <3>15 DEF Raise
    <3> QED
      BY <2>2, <3>1, <3>2, <3>3, <3>4, <3>5, <3>6, <3>7, <3>8, <3>9, <3>10,
         <3>11, <3>12, <3>13, <3>14, <3>15 DEF RegionBlock, Switch
  <2>3. ASSUME NEW t \in Threads, Lookup(t) \/ Answer(t) PROVE TypeOK'
    <3> HIDE DEF Estimator, Client
    <3>1. CASE Lookup(t)
      BY <3>1 DEF Lookup
    <3>2. CASE Answer(t)
      BY <2>0, <3>2 DEF Answer
    <3> QED
      BY <2>3, <3>1, <3>2
  <2>4. CASE UNCHANGED regionVars
    BY <2>4 DEF regionVars
  <2> QED
    BY <2>1, <2>2, <2>3, <2>4 DEF Next
<1> QED
  BY <1>1, <1>2, PTL DEF Spec

(* One step of one thread keeps what every thread knows.                    *)
LEMMA ThreadStep ==
    ASSUME TypeOK, PlatformInv, ThreadInv,
           NEW t \in Threads, RegionBlock(t) \/ Lookup(t) \/ Answer(t)
    PROVE  PlatformInv' /\ ThreadInv'
<1> USE RegionsAssumption
    DEF TypeOK, PlatformInv, ThreadInv, Goto, PassBy, LocalsGone, inject, locals, panel, ClientOf,
        Estimator, EmrPoints, BeforeCurrent, PastCurrent, PastEmr, PastEc2,
        Points, Reinitializing
<1>1. CASE Request(t)
  BY <1>1 DEF Request
<1>2. CASE CheckActive(t)
  BY <1>2 DEF CheckActive
<1>3. CASE SetActive(t)
  BY <1>3 DEF SetActive
<1>4. CASE CallReinitialize(t)
  BY <1>4 DEF CallReinitialize
<1>5. CASE ReinitializeGuard(t)
  BY <1>5 DEF ReinitializeGuard
<1>6. CASE SetCurrent(t)
  BY <1>6 DEF SetCurrent
<1>7. CASE ReadRegionForEmr(t)
  BY <1>7 DEF ReadRegionForEmr
<1>8. CASE SetClientEmr(t)
  BY <1>8 DEF SetClientEmr
<1>9. CASE ReadRegionForEc2(t)
  BY <1>9 DEF ReadRegionForEc2
<1>10. CASE SetClientEc2(t)
  BY <1>10 DEF SetClientEc2
<1>11. CASE ReadArgEmr(t)
  BY <1>11 DEF ReadArgEmr
<1>12. CASE ReadArgEc2(t)
  BY <1>12 DEF ReadArgEc2
<1>13. CASE ReadArgRegion(t)
  BY <1>13 DEF ReadArgRegion
<1>14. CASE SetCalc(t)
  BY <1>14 DEF SetCalc
<1>15. CASE Raise(t)
  BY <1>15 DEF Raise, EstimatorOf
<1>16. CASE Answer(t)
  BY <1>16 DEF Answer, EstimatorOf
<1>17. CASE Lookup(t)
  BY <1>17 DEF Lookup
<1> QED
  BY <1>1, <1>2, <1>3, <1>4, <1>5, <1>6, <1>7, <1>8, <1>9, <1>10, <1>11, <1>12,
     <1>13, <1>14, <1>15, <1>16, <1>17 DEF RegionBlock, Switch

(* Neither guard touches what is injected.                                  *)
LEMMA GuardsAssignNothing ==
    ASSUME NEW t \in Threads, CheckActive(t) \/ ReinitializeGuard(t)
    PROVE  /\ UNCHANGED inject
           /\ pc[t] \in {"check", "guard"}
           /\ \/ pc' = [pc EXCEPT ![t] = "serve"]
              \/ pc[t] = "check" /\ pc' = [pc EXCEPT ![t] = "setActive"]
              \/ pc[t] = "guard" /\ pc' = [pc EXCEPT ![t] = "setCurrent"]
<1>1. CASE CheckActive(t)
  BY <1>1, Zenon DEF CheckActive, PassBy, Goto, inject
<1>2. CASE ReinitializeGuard(t)
  BY <1>2, Zenon DEF ReinitializeGuard, PassBy, Goto, inject
<1> QED
  BY <1>1, <1>2

(* A thread that leaves reinitialize has installed the region, or its       *)
(* region is faulty.                                                        *)
LEMMA InstallStep ==
    ASSUME TypeOK, PlatformInv, ThreadInv, InstallInv,
           NEW t \in Threads, RegionBlock(t) \/ Lookup(t) \/ Answer(t)
    PROVE  InstallInv'
<1> USE RegionsAssumption
    DEF TypeOK, PlatformInv, ThreadInv, InstallInv, InstalledFor, Goto, inject,
        locals, ClientOf, EstimatorOf, Estimator, EmrPoints, BeforeCurrent,
        PastCurrent, PastEmr, PastEc2, Points, Reinitializing
<1>1. CASE Request(t)
  BY <1>1 DEF Request
<1>2. CASE CheckActive(t)
  BY <1>2, GuardsAssignNothing
<1>3. CASE SetActive(t)
  BY <1>3 DEF SetActive
<1>4. CASE CallReinitialize(t)
  BY <1>4 DEF CallReinitialize
<1>5. CASE ReinitializeGuard(t)
  BY <1>5, GuardsAssignNothing
<1>6. CASE SetCurrent(t)
  BY <1>6 DEF SetCurrent
<1>7. CASE ReadRegionForEmr(t)
  BY <1>7 DEF ReadRegionForEmr
<1>8. CASE SetClientEmr(t)
  BY <1>8 DEF SetClientEmr
<1>9. CASE ReadRegionForEc2(t)
  BY <1>9 DEF ReadRegionForEc2
<1>10. CASE SetClientEc2(t)
  BY <1>10 DEF SetClientEc2
<1>11. CASE ReadArgEmr(t)
  BY <1>11 DEF ReadArgEmr
<1>12. CASE ReadArgEc2(t)
  BY <1>12 DEF ReadArgEc2
<1>13. CASE ReadArgRegion(t)
  BY <1>13 DEF ReadArgRegion
<1>14. CASE SetCalc(t)
  BY <1>14 DEF SetCalc
<1>15. CASE Raise(t)
  BY <1>15 DEF Raise
<1>16. CASE Answer(t)
  BY <1>16 DEF Answer
<1>17. CASE Lookup(t)
  BY <1>17 DEF Lookup
<1> QED
  BY <1>1, <1>2, <1>3, <1>4, <1>5, <1>6, <1>7, <1>8, <1>9, <1>10, <1>11, <1>12,
     <1>13, <1>14, <1>15, <1>16, <1>17 DEF RegionBlock, Switch

(* The estimator stays coherent: only SetCalc replaces it.                  *)
LEMMA CoherentStep ==
    ASSUME TypeOK, PlatformInv, ThreadInv, EstimatorCoherent,
           NEW t \in Threads, RegionBlock(t) \/ Lookup(t) \/ Answer(t)
    PROVE  EstimatorCoherent'
<1>1. CASE SetCalc(t)
  <2>1. built[t] = EstimatorOf(dashboard)
    BY <1>1 DEF SetCalc, Goto, TypeOK, ThreadInv, Estimator, EstimatorOf
  <2> QED
    BY <1>1, <2>1 DEF SetCalc, EstimatorCoherent, EstimatorOf
<1>2. CASE ~SetCalc(t)
  BY <1>2 DEF RegionBlock, Switch, EstimatorCoherent, inject, Request, CheckActive,
     SetActive, CallReinitialize, ReinitializeGuard, SetCurrent,
     ReadRegionForEmr, SetClientEmr, ReadRegionForEc2, SetClientEc2,
     ReadArgEmr, ReadArgEc2, ReadArgRegion, Raise, Answer, Lookup, PassBy
<1> QED
  BY <1>1, <1>2

(* A patient user changes the region only when every thread is idle.        *)
LEMMA CoherenceInvariant ==
    ASSUME PatientUser PROVE Spec => []CoherenceInv
<1>1. Init => CoherenceInv
  <2>1. Init => TypeOK
    BY RegionsAssumption, SomeRegion DEF Init, TypeOK, Client, Estimator,
       ClientOf, EstimatorOf, Points
  <2>2. Init => PlatformInv /\ ThreadInv /\ EstimatorCoherent
    BY DEF Init, ClientOf, EstimatorOf, PlatformInv, EmrPoints, ThreadInv,
       EstimatorCoherent, BeforeCurrent, PastCurrent, PastEmr, PastEc2,
       Reinitializing
  <2> QED
    BY <2>1, <2>2 DEF CoherenceInv
<1>2. TypeOK' /\ CoherenceInv /\ [Next]_regionVars => CoherenceInv'
  <2> SUFFICES ASSUME TypeOK', CoherenceInv, [Next]_regionVars
               PROVE  CoherenceInv'
    OBVIOUS
  <2>1. ASSUME NEW r \in Regions, SelectRegion(r) PROVE CoherenceInv'
    BY <2>1, PatientUser
    DEF SelectRegion, CoherenceInv, PlatformInv, ThreadInv, EstimatorCoherent,
        inject, locals, PastCurrent, PastEmr, PastEc2, Reinitializing
  <2>2. ASSUME NEW t \in Threads, RegionBlock(t) \/ Lookup(t) \/ Answer(t)
        PROVE  CoherenceInv'
    BY <2>2, ThreadStep, CoherentStep DEF CoherenceInv
  <2>3. CASE UNCHANGED regionVars
    BY <2>3 DEF regionVars, inject, locals, panel, CoherenceInv, PlatformInv,
       ThreadInv, EstimatorCoherent
  <2> QED
    BY <2>1, <2>2, <2>3 DEF Next
<1> QED
  BY <1>1, <1>2, TypeCorrect, PTL DEF Spec

(* The estimator never mixes two regions, whichever threads switch at once  *)
(* and whether or not a switch fails (dependencies.py:71).                  *)
THEOREM CoherentEstimator ==
    ASSUME PatientUser PROVE Spec => []EstimatorCoherent
<1>1. CoherenceInv => EstimatorCoherent
  BY DEF CoherenceInv
<1> QED
  BY <1>1, CoherenceInvariant, PTL

(* The two records of the region agree between switches, failed ones        *)
(* included: they differ only while a thread is on its way from assigning   *)
(* the one (main.py:112) to assigning the other (dependencies.py:67).       *)
THEOREM Records ==
    ASSUME PatientUser PROVE Spec => []RecordsAgree
<1> DEFINE RecordsInv ==
        active_region # current_region => \E t \in Threads : pc[t] \in BeforeCurrent
<1>1. Init => RecordsInv
  BY DEF Init
<1>2. CoherenceInv /\ RecordsInv /\ [Next]_regionVars => RecordsInv'
  <2> SUFFICES ASSUME CoherenceInv, RecordsInv, [Next]_regionVars
               PROVE  RecordsInv'
    OBVIOUS
  <2>1. ASSUME NEW r \in Regions, SelectRegion(r) PROVE RecordsInv'
    BY <2>1 DEF SelectRegion, inject
  <2>2. ASSUME NEW t \in Threads, SetActive(t) PROVE RecordsInv'
    BY <2>2 DEF SetActive, Goto, BeforeCurrent, CoherenceInv, TypeOK
  <2>3. ASSUME NEW t \in Threads, RegionBlock(t) \/ Lookup(t) \/ Answer(t), ~SetActive(t)
        PROVE  RecordsInv'
    <3> USE DEF CoherenceInv, TypeOK, ThreadInv, BeforeCurrent, PastCurrent,
                Reinitializing, Goto, PassBy, LocalsGone, inject, locals, panel
    <3>1. CASE CallReinitialize(t)
      BY <3>1 DEF CallReinitialize
    <3>2. CASE ReinitializeGuard(t)
      BY <3>2 DEF ReinitializeGuard
    <3>3. CASE SetCurrent(t)
      BY <3>3 DEF SetCurrent
    <3>4. CASE Request(t) \/ CheckActive(t) \/ Lookup(t) \/ Answer(t)
      BY <3>4 DEF Request, CheckActive, Lookup, Answer
    <3>5. CASE \/ ReadRegionForEmr(t) \/ SetClientEmr(t)
               \/ ReadRegionForEc2(t) \/ SetClientEc2(t)
      BY <3>5 DEF ReadRegionForEmr, SetClientEmr, ReadRegionForEc2, SetClientEc2
    <3>6. CASE \/ ReadArgEmr(t) \/ ReadArgEc2(t) \/ ReadArgRegion(t)
               \/ SetCalc(t) \/ Raise(t)
      BY <3>6 DEF ReadArgEmr, ReadArgEc2, ReadArgRegion, SetCalc, Raise
    <3> QED
      BY <2>3, <3>1, <3>2, <3>3, <3>4, <3>5, <3>6 DEF RegionBlock, Switch
  <2>4. CASE UNCHANGED regionVars
    BY <2>4 DEF regionVars, inject
  <2> QED
    BY <2>1, <2>2, <2>3, <2>4 DEF Next
<1>3. RecordsInv => RecordsAgree
  BY DEF RecordsAgree, BeforeCurrent, Reinitializing
<1> QED
  BY <1>1, <1>2, <1>3, CoherenceInvariant, PTL DEF Spec

LEMMA InstallInvariant ==
    ASSUME PatientUser PROVE Spec => []InstallInv
<1>1. Init => InstallInv
  BY DEF Init, InstallInv, InstalledFor
<1>2. CoherenceInv /\ InstallInv /\ [Next]_regionVars => InstallInv'
  <2> SUFFICES ASSUME CoherenceInv, InstallInv, [Next]_regionVars
               PROVE  InstallInv'
    OBVIOUS
  <2>1. ASSUME NEW r \in Regions, SelectRegion(r) PROVE InstallInv'
    BY <2>1, PatientUser
    DEF SelectRegion, InstallInv, InstalledFor, inject, locals, BeforeCurrent,
        PastCurrent, Reinitializing
  <2>2. ASSUME NEW t \in Threads, RegionBlock(t) \/ Lookup(t) \/ Answer(t)
        PROVE  InstallInv'
    BY <2>2, InstallStep DEF CoherenceInv
  <2>3. CASE UNCHANGED regionVars
    BY <2>3 DEF regionVars, inject, locals, panel, InstallInv, InstalledFor
  <2> QED
    BY <2>1, <2>2, <2>3 DEF Next
<1> QED
  BY <1>1, <1>2, CoherenceInvariant, PTL DEF Spec

(* When no thread is switching, the global, the current region, the clients *)
(* and the estimator agree, for any number of concurrent switches and after *)
(* any failed ones, in every region whose constructors do not raise.        *)
THEOREM Settled ==
    ASSUME PatientUser PROVE Spec => []SettledAgreement
<1>1. InstallInv /\ RecordsAgree => SettledAgreement
  BY DEF InstallInv, RecordsAgree, SettledAgreement, InstalledFor, BeforeCurrent,
     PastCurrent, Reinitializing
<1> QED
  BY <1>1, InstallInvariant, Records, PTL

(* A panel that is not early found its own region's estimator in place, and *)
(* whatever it looks up, now and until it answers, is that estimator: only  *)
(* SetCalc replaces it, and every thread in flight switches to one region.  *)
ServedInv ==
    \A t \in Threads :
        pc[t] = "serve" /\ ~early[t] /\ sel[t] \notin FaultyRegions =>
            /\ calc = EstimatorOf(dashboard)
            /\ used[t] \subseteq {EstimatorOf(dashboard)}

LEMMA ServedStep ==
    ASSUME CoherenceInv, InstallInv, RecordsAgree, ServedInv,
           \A t \in Threads : pc[t] # "serve" => used[t] = {},
           NEW t \in Threads, RegionBlock(t) \/ Lookup(t) \/ Answer(t)
    PROVE  ServedInv'
<1> USE DEF CoherenceInv, TypeOK, ThreadInv, ServedInv, Goto, inject, locals, panel
<1>1. CASE SetCalc(t)
  <2>1. built[t] = EstimatorOf(dashboard)
    BY <1>1 DEF SetCalc, Estimator, EstimatorOf
  <2> QED
    BY <1>1, <2>1 DEF SetCalc
<1>2. ASSUME NEW from, PassBy(t, from), from \in {"check", "guard"},
             UNCHANGED <<dashboard, active_region, inject, locals, used>>,
             from = "check" => active_region = sel[t],
             from = "guard" => arg[t] = current_region
      PROVE  ServedInv'
  <2>1. ~early'[t] /\ sel[t] \notin FaultyRegions => calc = EstimatorOf(dashboard)
    <3> SUFFICES ASSUME ~early'[t], sel[t] \notin FaultyRegions
                 PROVE  calc = EstimatorOf(dashboard)
      OBVIOUS
    <3>1. \A u \in Threads \ {t} : pc[u] \notin Reinitializing
      BY <1>2 DEF PassBy
    <3>2. sel[t] = dashboard /\ pc[t] \notin PastCurrent
      BY <1>2 DEF PassBy, PastCurrent, BeforeCurrent, Reinitializing
    <3>3. current_region = dashboard
      BY <1>2, <3>1, <3>2 DEF PassBy, RecordsAgree, Reinitializing
    <3> QED
      BY <3>1, <3>2, <3>3 DEF InstallInv, InstalledFor, PastCurrent
  <2> QED
    BY <1>2, <2>1 DEF PassBy
<1>3. CASE CheckActive(t) \/ ReinitializeGuard(t)
  BY <1>2, <1>3 DEF CheckActive, ReinitializeGuard
<1>4. CASE Lookup(t)
  BY <1>4 DEF Lookup
<1>5. CASE Answer(t)
  BY <1>5 DEF Answer, LocalsGone
<1>6. CASE Raise(t)
  BY <1>6 DEF Raise, LocalsGone
<1>7. CASE Request(t) \/ SetActive(t) \/ CallReinitialize(t)
  BY <1>7 DEF Request, SetActive, CallReinitialize
<1>8. CASE SetCurrent(t)
  BY <1>8 DEF SetCurrent
<1>9. CASE \/ ReadRegionForEmr(t) \/ SetClientEmr(t)
           \/ ReadRegionForEc2(t) \/ SetClientEc2(t)
  BY <1>9 DEF ReadRegionForEmr, SetClientEmr, ReadRegionForEc2, SetClientEc2
<1>10. CASE ReadArgEmr(t) \/ ReadArgEc2(t) \/ ReadArgRegion(t)
  BY <1>10 DEF ReadArgEmr, ReadArgEc2, ReadArgRegion
<1> QED
  BY <1>1, <1>3, <1>4, <1>5, <1>6, <1>7, <1>8, <1>9, <1>10
  DEF RegionBlock, Switch

(* A panel that switched itself, or that passed a guard while nobody was    *)
(* switching, looks up the estimator of its own region and no other, if the *)
(* constructors of that region do not raise.                                *)
THEOREM OwnRegionPrices ==
    ASSUME PatientUser PROVE Spec => []PricedInOwnRegion
<1> DEFINE NothingUsed == \A t \in Threads :
               pc[t] # "serve" => used[t] = {} /\ ~early[t]
<1>1. Init => ServedInv /\ NothingUsed
  BY DEF Init, ServedInv
<1>2. TypeOK /\ NothingUsed /\ [Next]_regionVars => NothingUsed'
  <2> SUFFICES ASSUME TypeOK, NothingUsed, [Next]_regionVars PROVE NothingUsed'
    OBVIOUS
  <2> USE DEF TypeOK, Goto, PassBy, LocalsGone, panel
  <2>1. ASSUME NEW r \in Regions, SelectRegion(r) PROVE NothingUsed'
    BY <2>1 DEF SelectRegion
  <2>2. ASSUME NEW t \in Threads, Lookup(t) \/ Answer(t) PROVE NothingUsed'
    BY <2>2 DEF Lookup, Answer
  <2>3. ASSUME NEW t \in Threads, CheckActive(t) \/ ReinitializeGuard(t)
        PROVE  NothingUsed'
    BY <2>3 DEF CheckActive, ReinitializeGuard
  <2>4. ASSUME NEW t \in Threads, Raise(t) PROVE NothingUsed'
    BY <2>4 DEF Raise
  <2>5. ASSUME NEW t \in Threads, RegionBlock(t),
               ~CheckActive(t), ~ReinitializeGuard(t), ~Raise(t)
        PROVE  NothingUsed'
    <3>1. UNCHANGED panel /\ \E from, to : from # "serve" /\ Goto(t, from, to)
      BY <2>5 DEF RegionBlock, Switch, Request, SetActive, CallReinitialize,
         SetCurrent, ReadRegionForEmr, SetClientEmr, ReadRegionForEc2, SetClientEc2,
         ReadArgEmr, ReadArgEc2, ReadArgRegion, SetCalc
    <3> QED
      BY <3>1
  <2>6. CASE UNCHANGED regionVars
    BY <2>6 DEF regionVars
  <2> QED
    BY <2>1, <2>2, <2>3, <2>4, <2>5, <2>6 DEF Next
<1>3. /\ CoherenceInv /\ InstallInv /\ RecordsAgree /\ ServedInv /\ NothingUsed
      /\ [Next]_regionVars
      => ServedInv'
  <2> SUFFICES ASSUME CoherenceInv, InstallInv, RecordsAgree, ServedInv, NothingUsed,
                      [Next]_regionVars
               PROVE  ServedInv'
    OBVIOUS
  <2>1. ASSUME NEW r \in Regions, SelectRegion(r) PROVE ServedInv'
    BY <2>1, PatientUser DEF SelectRegion, ServedInv
  <2>2. ASSUME NEW t \in Threads, RegionBlock(t) \/ Lookup(t) \/ Answer(t)
        PROVE  ServedInv'
    BY <2>2, ServedStep
  <2>3. CASE UNCHANGED regionVars
    BY <2>3 DEF regionVars, inject, locals, panel, ServedInv
  <2> QED
    BY <2>1, <2>2, <2>3 DEF Next
<1>4. CoherenceInv /\ ServedInv => PricedInOwnRegion
  BY DEF CoherenceInv, ThreadInv, ServedInv, PricedInOwnRegion
<1> QED
  BY <1>1, <1>2, <1>3, <1>4, CoherenceInvariant, InstallInvariant, Records,
     TypeCorrect, PTL DEF Spec
=============================================================================
