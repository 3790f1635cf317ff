----------------------- MODULE EstimateClusterProofs ------------------------
(***************************************************************************)
(* estimate_cluster_cost call by call, for any instances, groups, rates    *)
(* and failures: what a generator holds are instances of the group it was  *)
(* asked for, no part of a cost is ever negative, and what a call returns  *)
(* is the cost of each instance once, until a time within the call.        *)
(***************************************************************************)
EXTENDS EstimateCluster, SumTheorems

(* An instance is launched before now, and ends only after that.            *)
LifeInv ==
    \A i \in Instances :
        /\ created[i] # None => created[i] <= now
        /\ ended[i] # None =>
             created[i] # None /\ created[i] <= ended[i] /\ ended[i] <= now

EstimateInv == TypeOK /\ LifeInv

LEMMA InitialEstimate == Init => EstimateInv
<1> USE EstimateAssumption DEF Times
<1> SUFFICES ASSUME Init PROVE EstimateInv
  OBVIOUS
<1>1. LifeInv
  BY DEF Init, LifeInv
<1>2. /\ created \in [Instances -> Times \cup {None}]
      /\ ended \in [Instances -> Times \cup {None}]
  BY DEF Init
<1>3. DOMAIN instance_list = {} /\ DOMAIN cost_dict = {} /\ yielded = {}
  BY DEF Init, Empty
<1>4. begun.over \in BOOLEAN /\ terminated \in BOOLEAN /\ fleets \in BOOLEAN
      /\ unpriced \in BOOLEAN
  BY DEF Init
<1>5. /\ now \in Times /\ faults \in 0 .. MaxFaults
      /\ pc \in Points /\ branch \in {"groups", "fleets"}
      /\ todo \subseteq ResGroups /\ group \in ResGroups \cup {None}
      /\ error \in Codes \cup {None} /\ fault \in Codes \cup {None}
  BY DEF Init, Points
<1>6. TypeOK
  BY <1>2, <1>3, <1>4, <1>5 DEF TypeOK
<1> QED
  BY <1>1, <1>6 DEF EstimateInv

(* The cluster: launched instances and their ends are set once.             *)
LEMMA CloudKeeps ==
    ASSUME EstimateInv, CloudStep PROVE EstimateInv'
<1> USE EstimateAssumption
    DEF EstimateInv, TypeOK, LifeInv, Times, Members, Exists, CloudStep, loop, notes
<1>1. CASE Tick
  BY <1>1 DEF Tick
<1>2. ASSUME NEW j \in Instances, Launch(j) PROVE EstimateInv'
  BY <1>2 DEF Launch
<1>3. ASSUME NEW j \in Instances, Stop(j) PROVE EstimateInv'
  BY <1>3 DEF Stop
<1>4. CASE Terminate
  BY <1>4 DEF Terminate, EndOf
<1> QED
  BY <1>1, <1>2, <1>3, <1>4

(* The steps of a call that neither list nor price an instance.             *)
LEMMA CallKeeps ==
    ASSUME EstimateInv,
           \/ Call \/ DescribeCluster \/ ListInstanceGroups \/ FallBackToFleets
           \/ ListInstanceFleets \/ NextGroup \/ EndOfGroup \/ Return \/ Retry \/ Raise
           \/ \E code \in Codes : Fault(code)
    PROVE  EstimateInv'
<1> USE EstimateAssumption
    DEF EstimateInv, TypeOK, LifeInv, Members, Exists, LocalsGone, Points, Codes,
        cloud, loop, notes
<1>1. CASE Call
  BY <1>1 DEF Call, Empty
<1>2. CASE DescribeCluster \/ ListInstanceGroups \/ FallBackToFleets
  BY <1>2 DEF DescribeCluster, ListInstanceGroups, FallBackToFleets
<1>3. CASE ListInstanceFleets \/ EndOfGroup
  BY <1>3 DEF ListInstanceFleets, EndOfGroup
<1>4. CASE NextGroup
  BY <1>4 DEF NextGroup, Empty
<1>5. CASE Return \/ Retry \/ Raise
  <2>1. DOMAIN Empty = {}
    BY DEF Empty
  <2>2. CASE Return
    BY <2>1, <2>2 DEF Return
  <2>3. CASE Retry
    BY <2>1, <2>3 DEF Retry
  <2>4. CASE Raise
    BY <2>1, <2>4 DEF Raise
  <2> QED
    BY <1>5, <2>2, <2>3, <2>4
<1>6. ASSUME NEW code \in Codes, Fault(code) PROVE EstimateInv'
  BY <1>6 DEF Fault
<1> QED
  BY <1>1, <1>2, <1>3, <1>4, <1>5, <1>6

(* A page brings instances of the group that was asked for.                 *)
LEMMA PageKeeps ==
    ASSUME EstimateInv, ListInstances PROVE EstimateInv'
<1> USE EstimateAssumption
    DEF EstimateInv, TypeOK, LifeInv, Members, Exists, Points, cloud, notes
<1>1. PICK page \in SUBSET (Members(group) \ DOMAIN instance_list) :
          instance_list' = [i \in DOMAIN instance_list \cup page |->
              IF i \in page THEN ended[i] ELSE instance_list[i]]
  BY DEF ListInstances
<1>2. \A i \in DOMAIN instance_list' :
          i \in Members(group) /\ instance_list'[i] \in {ended[i], None}
  BY <1>1
<1>3. yielded \subseteq DOMAIN instance_list'
  BY <1>1
<1>4. pc' \in Points
  BY DEF ListInstances
<1> QED
  BY <1>2, <1>3, <1>4 DEF ListInstances

(* An instance adds what it has run, which is not negative, to keys of its  *)
(* own group.                                                               *)
LEMMA AddKeeps ==
    ASSUME EstimateInv, NEW i \in Instances, NEW ec2 \in Nat, Add(i, ec2),
           faults' \in 0 .. MaxFaults, unpriced' \in BOOLEAN
    PROVE  EstimateInv'
<1> DEFINE type == GroupType[group]
           hours == end_date_time(i) - created[i]
           part == [p \in Parts |-> IF p = "EC2" THEN ec2 * hours
                                                 ELSE Rate[i][p] * hours]
           Added(k) == IF k = Total THEN part["EC2"] + part["EMR"] + part["EBS"]
                       ELSE IF k[1] = type THEN part[k[2]] ELSE 0
           Before(k) == IF k \in DOMAIN cost_dict THEN cost_dict[k] ELSE 0
<1>1. /\ i \in Members(group) /\ instance_list[i] \in {ended[i], None}
      /\ i \in DOMAIN instance_list
  BY DEF Add, EstimateInv, TypeOK
<1>2. type \in Types /\ type = GroupType[GroupOf[i]]
  BY <1>1, EstimateAssumption DEF Members, Types
<1>3. hours \in Nat
  <2>1. created[i] \in Times /\ created[i] <= now /\ now \in Times
    BY <1>1 DEF Members, Exists, EstimateInv, TypeOK, LifeInv
  <2>2. ended[i] # None => ended[i] \in Times /\ created[i] <= ended[i]
    BY DEF EstimateInv, TypeOK, LifeInv
  <2> QED
    BY <1>1, <2>1, <2>2, EstimateAssumption DEF end_date_time, Times
<1>4. \A p \in Parts : part[p] \in Nat
  <2>1. \A a, b \in Nat : a * b \in Nat
    OBVIOUS
  <2>2. \A p \in Parts : Rate[i][p] \in Nat
    BY EstimateAssumption
  <2> HIDE DEF hours
  <2> QED
    BY <1>3, <2>1, <2>2
<1>5. cost_dict' = [k \in DOMAIN cost_dict \cup ({type} \X Parts) \cup {Total} |->
                        Before(k) + Added(k)]
  BY DEF Add
<1> HIDE DEF type, hours, part
<1>6. DOMAIN cost_dict' \subseteq Keys
  BY <1>2, <1>5 DEF Keys, EstimateInv, TypeOK
<1>7. \A k \in Keys : Added(k) \in Nat
  BY <1>4 DEF Keys, Parts
<1>8. \A k \in DOMAIN cost_dict' : cost_dict'[k] \in Nat
  <2> SUFFICES ASSUME NEW k \in DOMAIN cost_dict' PROVE cost_dict'[k] \in Nat
    OBVIOUS
  <2>1. Before(k) \in Nat
    BY DEF EstimateInv, TypeOK
  <2> HIDE DEF Added, Before
  <2> QED
    BY <1>5, <1>6, <1>7, <2>1
<1>9. yielded' \subseteq DOMAIN instance_list'
  BY <1>1 DEF Add, EstimateInv, TypeOK
<1>10. UNCHANGED <<cloud, pc, branch, todo, group, instance_list, error, fault, begun>>
  BY DEF Add
<1> QED
  BY <1>6, <1>8, <1>9, <1>10
  DEF EstimateInv, TypeOK, LifeInv, Members, Exists, cloud

LEMMA EstimateIsInductive ==
    EstimateInv /\ [Next]_estimateVars => EstimateInv'
<1> SUFFICES ASSUME EstimateInv, [Next]_estimateVars PROVE EstimateInv'
  OBVIOUS
<1>1. CASE CloudStep
  BY <1>1, CloudKeeps
<1>2. ASSUME NEW i \in Instances, AddPriced(i) PROVE EstimateInv'
  <2>1. Rate[i]["EC2"] \in Nat
    BY EstimateAssumption DEF Parts
  <2> QED
    BY <1>2, <2>1, AddKeeps DEF AddPriced, EstimateInv, TypeOK
<1>3. ASSUME NEW i \in Instances, AddUnpriced(i) PROVE EstimateInv'
  <2>1. faults' \in 0 .. MaxFaults /\ unpriced' \in BOOLEAN
    BY <1>3, EstimateAssumption DEF AddUnpriced, EstimateInv, TypeOK
  <2> QED
    BY <1>3, <2>1, AddKeeps DEF AddUnpriced
<1>4. CASE Call \/ (Step /\ ~ListInstances
                     /\ ~\E i \in Instances : AddPriced(i) \/ AddUnpriced(i))
  BY <1>4, CallKeeps DEF Step
<1>5. CASE ListInstances
  BY <1>5, PageKeeps
<1>6. CASE UNCHANGED estimateVars
  BY <1>6 DEF estimateVars, cloud, loop, notes, EstimateInv, TypeOK, LifeInv,
              Members, Exists
<1> QED
  BY <1>1, <1>2, <1>3, <1>4, <1>5, <1>6 DEF Next, Step

(* Every variable keeps its type, and pages and costs are of the group and  *)
(* the keys they belong to.                                                 *)
THEOREM TypeCorrect == Spec => []TypeOK
<1>1. EstimateInv => TypeOK
  BY DEF EstimateInv
<1> QED
  BY <1>1, InitialEstimate, EstimateIsInductive, PTL DEF Spec

-----------------------------------------------------------------------------
(* Times until which some instances are charged.  They fit the cluster when *)
(* each lies between the creation of its instance and the present.          *)
Charges == UNION {[D -> Times] : D \in SUBSET Instances}

Fits(until) ==
    \A i \in DOMAIN until : Exists(i) /\ created[i] <= until[i] /\ until[i] <= now

ChargeOf(k, i, t) == RateOf(k, i) * (t - created[i])
ChargesOf(k, until) ==
    [i \in {j \in DOMAIN until : IsOf(k, j)} |-> ChargeOf(k, i, until[i])]

LEMMA CostIsSum ==
    ASSUME NEW k, NEW until
    PROVE  CostUntil(k, until) =
             SumFunctionOnSet(ChargesOf(k, until), {j \in DOMAIN until : IsOf(k, j)})
  BY Zenon DEF CostUntil, ChargesOf, ChargeOf, SumFunction

LEMMA PartsFinite ==
    IsFiniteSet({"EC2"}) /\ IsFiniteSet({"EC2", "EMR"}) /\ IsFiniteSet(Parts)
<1>1. IsFiniteSet({} \cup {"EC2"})
  BY FS_EmptySet, FS_AddElement
<1>2. {} \cup {"EC2"} = {"EC2"} /\ {"EC2"} \cup {"EMR"} = {"EC2", "EMR"}
      /\ {"EC2", "EMR"} \cup {"EBS"} = Parts
  BY DEF Parts
<1>3. IsFiniteSet({"EC2"} \cup {"EMR"})
  BY <1>1, <1>2, FS_AddElement
<1> QED
  BY <1>1, <1>2, <1>3, FS_AddElement

(* A rate of an instance, and its charge once it exists, is not negative.   *)
LEMMA RateNat ==
    ASSUME NEW k \in Keys, NEW i \in Instances PROVE RateOf(k, i) \in Nat
<1>1. CASE k = Total
  <2>2. DOMAIN Rate[i] = Parts /\ \A p \in Parts : Rate[i][p] \in Nat
    BY EstimateAssumption
  <2>3. SumFunctionOnSet(Rate[i], Parts) \in Nat
    BY PartsFinite, <2>2, SumNat
  <2> QED
    BY <1>1, <2>2, <2>3 DEF RateOf, SumFunction
<1>2. CASE k # Total
  BY <1>2, EstimateAssumption DEF RateOf, Keys
<1> QED
  BY <1>1, <1>2

LEMMA TotalRate ==
    ASSUME NEW i \in Instances
    PROVE  RateOf(Total, i) = Rate[i]["EC2"] + Rate[i]["EMR"] + Rate[i]["EBS"]
<1> DEFINE f == Rate[i]
<1>1. DOMAIN f = Parts /\ \A p \in Parts : f[p] \in Nat
  BY EstimateAssumption
<1>3. SumFunctionOnSet(f, {"EC2"}) = f["EC2"]
  BY <1>1, SumSingleton DEF Parts
<1> HIDE DEF f
<1>4. SumFunctionOnSet(f, {"EC2", "EMR"}) = f["EMR"] + f["EC2"]
  <2>1. {"EC2", "EMR"} = {"EC2"} \cup {"EMR"} /\ "EMR" \notin {"EC2"}
    OBVIOUS
  <2>2. \A x \in {"EC2"} \cup {"EMR"} : f[x] \in Int
    BY <1>1 DEF Parts
  <2> QED
    BY PartsFinite, <1>3, <2>1, <2>2, SumAdd
<1>5. SumFunctionOnSet(f, Parts) = f["EBS"] + (f["EMR"] + f["EC2"])
  <2>1. Parts = {"EC2", "EMR"} \cup {"EBS"} /\ "EBS" \notin {"EC2", "EMR"}
    BY DEF Parts
  <2>2. \A x \in Parts : f[x] \in Int
    BY <1>1
  <2> QED
    BY PartsFinite, <1>4, <2>1, <2>2, SumAdd
<1>6. RateOf(Total, i) = SumFunctionOnSet(f, Parts)
  BY <1>1 DEF f, RateOf, SumFunction
<1> QED
  BY <1>1, <1>5, <1>6 DEF f, Parts

LEMMA ChargesNat ==
    ASSUME TypeOK, NEW k \in Keys, NEW until \in Charges, Fits(until)
    PROVE  /\ IsFiniteSet({j \in DOMAIN until : IsOf(k, j)})
           /\ \A i \in DOMAIN until : ChargeOf(k, i, until[i]) \in Nat
<1>1. IsFiniteSet({j \in DOMAIN until : IsOf(k, j)})
  BY EstimateAssumption, FS_Subset DEF Charges
<1>2. ASSUME NEW i \in DOMAIN until PROVE ChargeOf(k, i, until[i]) \in Nat
  <2>1. RateOf(k, i) \in Nat
    BY RateNat DEF Charges
  <2>2. created[i] \in Nat /\ until[i] \in Nat /\ until[i] - created[i] \in Nat
    BY EstimateAssumption DEF Charges, Fits, TypeOK, Exists, Times
  <2>3. \A a, b \in Nat : a * b \in Nat
    OBVIOUS
  <2> QED
    BY <2>1, <2>2, <2>3 DEF ChargeOf
<1> QED
  BY <1>1, <1>2

LEMMA CostNat ==
    ASSUME TypeOK, NEW k \in Keys, NEW until \in Charges, Fits(until)
    PROVE  CostUntil(k, until) \in Nat
  BY ChargesNat, CostIsSum, SumNat DEF ChargesOf

LEMMA CostOfNothing == \A k : CostUntil(k, Empty) = 0
<1> SUFFICES ASSUME NEW k PROVE CostUntil(k, Empty) = 0
  OBVIOUS
<1>1. {j \in DOMAIN Empty : IsOf(k, j)} = {}
  BY DEF Empty
<1> QED
  BY <1>1, CostIsSum, SumEmpty

(* One more instance adds its charge, to the keys it belongs to.            *)
LEMMA CostOfOneMore ==
    ASSUME TypeOK, NEW k \in Keys, NEW until \in Charges, Fits(until),
           NEW more \in Charges, Fits(more),
           NEW i, i \notin DOMAIN until, DOMAIN more = DOMAIN until \cup {i},
           \A j \in DOMAIN until : more[j] = until[j]
    PROVE  CostUntil(k, more) =
             CostUntil(k, until) + (IF IsOf(k, i) THEN ChargeOf(k, i, more[i]) ELSE 0)
<1> DEFINE S == {j \in DOMAIN until : IsOf(k, j)}
           M == {j \in DOMAIN more : IsOf(k, j)}
           f == ChargesOf(k, until)
           g == ChargesOf(k, more)
<1>1. CostUntil(k, until) = SumFunctionOnSet(f, S) /\ CostUntil(k, more) = SumFunctionOnSet(g, M)
  BY CostIsSum
<1>2. IsFiniteSet(S) /\ \A j \in M : g[j] \in Int
  BY ChargesNat DEF ChargesOf
<1>3. \A j \in S : f[j] = g[j] /\ f[j] \in Int
  <2> SUFFICES ASSUME NEW j \in S PROVE f[j] = g[j] /\ f[j] \in Int
    OBVIOUS
  <2>1. f[j] = ChargeOf(k, j, until[j]) /\ g[j] = ChargeOf(k, j, more[j])
    BY DEF ChargesOf
  <2>2. f[j] \in Nat
    BY <2>1, ChargesNat
  <2> QED
    BY <2>1, <2>2
<1>4. SumFunctionOnSet(f, S) = SumFunctionOnSet(g, S)
  BY <1>2, <1>3, SumEqual
<1>5. CASE IsOf(k, i)
  <2>1. M = S \cup {i} /\ i \notin S /\ g[i] = ChargeOf(k, i, more[i])
    BY <1>5 DEF ChargesOf
  <2>2. SumFunctionOnSet(g, M) = g[i] + SumFunctionOnSet(g, S)
    BY <1>2, <2>1, SumAdd
  <2>3. SumFunctionOnSet(g, S) \in Int /\ g[i] \in Int
    BY <1>2, <1>3, <2>1, SumInt
  <2> HIDE DEF S, M, f, g
  <2> QED
    BY <1>1, <1>4, <1>5, <2>1, <2>2, <2>3
<1>6. CASE ~IsOf(k, i)
  <2>1. M = S
    BY <1>6
  <2>2. SumFunctionOnSet(g, S) \in Int
    BY <1>2, <1>3, SumInt
  <2> HIDE DEF S, M, f, g
  <2> QED
    BY <1>1, <1>4, <1>6, <2>1, <2>2
<1> QED
  BY <1>5, <1>6

(* More instances, each until a later time, do not cost less.               *)
LEMMA CostGrows ==
    ASSUME TypeOK, NEW k \in Keys, NEW until \in Charges, Fits(until),
           NEW more \in Charges, Fits(more), DOMAIN until \subseteq DOMAIN more,
           \A i \in DOMAIN until : until[i] <= more[i]
    PROVE  CostUntil(k, until) <= CostUntil(k, more)
<1> DEFINE S == {j \in DOMAIN until : IsOf(k, j)}
           M == {j \in DOMAIN more : IsOf(k, j)}
           f == ChargesOf(k, until)
           g == ChargesOf(k, more)
<1>1. CostUntil(k, until) = SumFunctionOnSet(f, S) /\ CostUntil(k, more) = SumFunctionOnSet(g, M)
  BY CostIsSum
<1>2. IsFiniteSet(S) /\ IsFiniteSet(M) /\ \A j \in M : g[j] \in Nat
  BY ChargesNat DEF ChargesOf
<1>3. ASSUME NEW j \in S PROVE f[j] \in Int /\ g[j] \in Int /\ f[j] <= g[j]
  <2>1. f[j] = ChargeOf(k, j, until[j]) /\ g[j] = ChargeOf(k, j, more[j])
    BY DEF ChargesOf
  <2>2. f[j] \in Nat /\ g[j] \in Nat
    BY <2>1, ChargesNat
  <2>3. RateOf(k, j) \in Nat
    BY RateNat DEF Charges
  <2>4. /\ until[j] - created[j] \in Nat /\ more[j] - created[j] \in Nat
        /\ until[j] - created[j] <= more[j] - created[j]
    BY EstimateAssumption DEF Charges, Fits, TypeOK, Exists, Times
  <2>5. \A r, a, b \in Nat : a <= b => r * a <= r * b
    OBVIOUS
  <2>6. ChargeOf(k, j, until[j]) <= ChargeOf(k, j, more[j])
    BY <2>3, <2>4, <2>5 DEF ChargeOf
  <2> QED
    BY <2>1, <2>2, <2>6
<1>4. SumFunctionOnSet(f, S) <= SumFunctionOnSet(g, S)
  BY <1>2, <1>3, SumLeq
<1>5. SumFunctionOnSet(g, M) = SumFunctionOnSet(g, S) + SumFunctionOnSet(g, M \ S)
  <2>1. S \cup (M \ S) = M /\ S \cap (M \ S) = {} /\ IsFiniteSet(M \ S)
    BY <1>2, FS_Subset
  <2> HIDE DEF S, M, f, g
  <2>2. \A x \in S \cup (M \ S) : g[x] \in Int
    BY <1>2, <2>1
  <2>3. SumFunctionOnSet(g, S \cup (M \ S))
          = SumFunctionOnSet(g, S) + SumFunctionOnSet(g, M \ S)
    BY <1>2, <2>1, <2>2, SumUnion
  <2> QED
    BY <2>1, <2>3
<1>6. /\ SumFunctionOnSet(g, M \ S) \in Nat
      /\ SumFunctionOnSet(f, S) \in Int /\ SumFunctionOnSet(g, S) \in Int
  <2>1. IsFiniteSet(M \ S) /\ \A x \in M \ S : g[x] \in Nat
    BY <1>2, FS_Subset
  <2> QED
    BY <1>2, <1>3, <2>1, SumNat, SumInt
<1> HIDE DEF S, M, f, g
<1> QED
  BY <1>1, <1>4, <1>5, <1>6

(* The cost of instances is the same as long as their creation is.          *)
LEMMA CostKept ==
    ASSUME NEW k, NEW until, \A i \in DOMAIN until : created'[i] = created[i]
    PROVE  CostUntil(k, until)' = CostUntil(k, until)
<1>1. [i \in {j \in DOMAIN until : IsOf(k, j)} |-> RateOf(k, i) * (until[i] - created'[i])]
        = [i \in {j \in DOMAIN until : IsOf(k, j)} |-> RateOf(k, i) * (until[i] - created[i])]
  OBVIOUS
<1> QED
  BY <1>1, Zenon DEF CostUntil, IsOf, RateOf

-----------------------------------------------------------------------------
(* Where a call is: the branch it is in, and what is left of a failed       *)
(* attempt.                                                                 *)
CallInv ==
    /\ terminated => \A i \in Instances : Exists(i) => ended[i] # None
    /\ begun.over => terminated
    /\ pc \in {"next", "list", "price"} => ((branch = "fleets") <=> fleets)
    /\ pc \in {"describe", "groups"} => branch = "groups"
    /\ pc = "fleets" => branch = "fleets"
    /\ pc \in {"describe", "groups"} \/ (fleets /\ pc = "fleets") => DOMAIN cost_dict = {}
    /\ pc \in {"list", "price"} => group \in ResGroups \ todo
    /\ pc \in {"list", "price"} /\ begun.over =>
         \A i \in DOMAIN instance_list : instance_list[i] # None
    /\ pc = "list" => yielded = {}
    /\ pc \in {"idle", "returned", "raised"} => branch = "groups"

(* The cost when the call began is that of some instances until some time   *)
(* each, which is not after their end; of all instances if the cluster had  *)
(* terminated.                                                              *)
Begun(since) ==
    /\ Fits(since)
    /\ begun.cost = [k \in Keys |-> CostUntil(k, since)]
    /\ \A i \in DOMAIN since : ended[i] # None => since[i] <= ended[i]
    /\ begun.over => \A i \in Instances : Exists(i) => i \in DOMAIN since

Counting == {"next", "list", "price", "returned"}

(* The instances the call is about to charge for in the present group.      *)
Here(i) == \/ pc = "list" /\ GroupOf[i] = group
           \/ pc = "price" /\ i \in DOMAIN instance_list \ yielded

(* What is in cost_dict is the cost of the instances charged so far, each   *)
(* until no earlier than when the call began.  An instance that there was   *)
(* then is charged or still to come, and never both.                        *)
Accounts(since, charged) ==
    /\ Fits(charged)
    /\ \A i \in DOMAIN charged \cap DOMAIN since : since[i] <= charged[i]
    /\ begun.over => \A i \in DOMAIN charged : charged[i] = ended[i]
    /\ \A k \in PricedKeys : Returned(k) = CostUntil(k, charged)
    /\ \A i \in DOMAIN charged :
        pc # "returned" => GroupOf[i] \notin todo /\ ~Here(i)
    /\ \A i \in DOMAIN since \ DOMAIN charged :
        pc # "returned" /\ (GroupOf[i] \in todo \/ Here(i))

AccountInv ==
    \E since \in Charges :
        /\ Begun(since)
        /\ pc \in Counting => \E charged \in Charges : Accounts(since, charged)

LEMMA EmptyIsCharge == Empty \in Charges /\ DOMAIN Empty = {}
<1>1. Empty \in [{} -> Times] /\ {} \in SUBSET Instances
  BY DEF Empty
<1> QED
  BY <1>1 DEF Charges, Empty

LEMMA InitialAccount == Init => CallInv /\ AccountInv
<1> SUFFICES ASSUME Init PROVE CallInv /\ AccountInv
  OBVIOUS
<1>1. CallInv
  BY DEF Init, CallInv, Empty
<1>2. Fits(Empty)
  BY EmptyIsCharge DEF Fits
<1>3. begun.cost = [k \in Keys |-> CostUntil(k, Empty)]
  <2>1. [k \in Keys |-> CostUntil(k, Empty)] = NoCost
    BY CostOfNothing DEF NoCost
  <2> QED
    BY <2>1 DEF Init
<1>4. Begun(Empty)
  BY <1>2, <1>3, EmptyIsCharge DEF Init, Begun
<1>5. pc \notin Counting
  BY DEF Init, Counting
<1> QED
  BY <1>1, <1>4, <1>5, EmptyIsCharge DEF AccountInv

(* What happens to the cluster changes neither the creation nor the end of  *)
(* an instance that had one, and nothing once it has terminated.            *)
LEMMA CloudGrows ==
    ASSUME EstimateInv, CallInv, CloudStep
    PROVE  /\ now' >= now /\ (terminated => terminated')
           /\ \A i \in Instances :
                /\ Exists(i) => created'[i] = created[i]
                /\ ended'[i] \in {ended[i], now}
                /\ ended[i] # None => ended'[i] = ended[i]
                /\ terminated => created'[i] = created[i] /\ ended'[i] = ended[i]
           /\ terminated' => \A i \in Instances : Exists(i)' => ended'[i] # None
<1> USE EstimateAssumption
    DEF EstimateInv, TypeOK, LifeInv, CallInv, Times, Exists, CloudStep
<1>1. CASE Tick
  BY <1>1 DEF Tick
<1>2. ASSUME NEW j \in Instances, Launch(j) PROVE created' = [created EXCEPT ![j] = now]
    /\ now' = now /\ ~terminated /\ ~Exists(j) /\ ended' = ended /\ terminated' = terminated
  BY <1>2 DEF Launch
<1>3. ASSUME NEW j \in Instances, Stop(j) PROVE ended' = [ended EXCEPT ![j] = now]
    /\ now' = now /\ ~terminated /\ ended[j] = None /\ created' = created
    /\ terminated' = terminated
  BY <1>3 DEF Stop
<1>4. CASE Terminate
  BY <1>4 DEF Terminate, EndOf
<1> QED
  BY <1>1, <1>2, <1>3, <1>4

LEMMA CallInvKeeps ==
    ASSUME EstimateInv, CallInv, Next PROVE CallInv'
<1> USE DEF EstimateInv, TypeOK, CallInv, cloud, loop, notes, Points
<1>1. CASE CloudStep
  <2>1. UNCHANGED <<pc, loop, cost_dict, notes>> /\ fleets' = fleets
    BY <1>1 DEF CloudStep, Tick, Terminate, Launch, Stop
  <2> QED
    BY <1>1, <2>1, CloudGrows
<1>2. CASE Call
  BY <1>2 DEF Call, Empty, Exists
<1>3. CASE DescribeCluster \/ ListInstanceGroups \/ FallBackToFleets
  BY <1>3 DEF DescribeCluster, ListInstanceGroups, FallBackToFleets, Exists
<1>4. CASE ListInstanceFleets \/ EndOfGroup
  BY <1>4 DEF ListInstanceFleets, EndOfGroup, Exists
<1>5. CASE NextGroup
  BY <1>5 DEF NextGroup, Empty, Exists
<1>6. CASE Return \/ Retry \/ Raise
  BY <1>6 DEF Return, Retry, Raise, LocalsGone, Empty, Exists
<1>7. CASE ListInstances
  <2>1. PICK page \in SUBSET (Members(group) \ DOMAIN instance_list) :
            instance_list' = [i \in DOMAIN instance_list \cup page |->
                IF i \in page THEN ended[i] ELSE instance_list[i]]
    BY <1>7 DEF ListInstances
  <2>2. /\ pc = "list" /\ pc' \in {"list", "price"}
        /\ UNCHANGED <<cloud, branch, todo, group, yielded, cost_dict, notes>>
    BY <1>7 DEF ListInstances
  <2>3. begun.over => \A i \in page : ended[i] # None
    BY DEF Members
  <2>4. begun.over => \A i \in DOMAIN instance_list' : instance_list'[i] # None
    BY <2>1, <2>2, <2>3
  <2> QED
    BY <2>2, <2>4 DEF Exists
<1>8. ASSUME NEW i \in Instances, AddPriced(i) \/ AddUnpriced(i) PROVE CallInv'
  <2>1. /\ pc = "price"
        /\ UNCHANGED <<cloud, pc, branch, todo, group, instance_list, begun>>
    BY <1>8 DEF AddPriced, AddUnpriced, Add
  <2> QED
    BY <2>1 DEF Exists
<1>9. ASSUME NEW code \in Codes, Fault(code) PROVE CallInv'
  BY <1>9 DEF Fault, Exists
<1> QED
  BY <1>1, <1>2, <1>3, <1>4, <1>5, <1>6, <1>7, <1>8, <1>9 DEF Next, Step

(* What the call began with still holds as the cluster goes on.             *)
LEMMA BegunKept ==
    ASSUME EstimateInv, CallInv, NEW since \in Charges, Begun(since),
           CloudStep \/ UNCHANGED <<cloud, begun>>
    PROVE  Begun(since)'
<1>1. CASE UNCHANGED <<cloud, begun>>
  <2>1. [k \in Keys |-> CostUntil(k, since)]' = [k \in Keys |-> CostUntil(k, since)]
    BY <1>1, CostKept DEF cloud
  <2> QED
    BY <1>1, <2>1 DEF cloud, Begun, Fits, Exists
<1>2. CASE CloudStep
  <2>1. begun' = begun /\ DOMAIN since \subseteq Instances
    BY <1>2 DEF CloudStep, notes, Charges
  <2>2. \A i \in DOMAIN since : created'[i] = created[i] /\ since[i] \in Nat
    BY <1>2, <2>1, CloudGrows, EstimateAssumption DEF Begun, Fits, Charges, Times
  <2>3. [k \in Keys |-> CostUntil(k, since)]' = [k \in Keys |-> CostUntil(k, since)]
    BY <2>2, CostKept
  <2>4. now \in Nat /\ now' \in Nat /\ now' >= now
    <3>1. now' \in Times
      BY <1>2, CloudKeeps DEF EstimateInv, TypeOK
    <3> QED
      BY <1>2, <3>1, CloudGrows, EstimateAssumption DEF EstimateInv, TypeOK, Times
  <2>5. Fits(since)'
    BY <2>2, <2>4 DEF Begun, Fits, Exists
  <2>6. \A i \in DOMAIN since : ended'[i] # None => since[i] <= ended'[i]
    BY <1>2, <2>1, <2>4, CloudGrows DEF Begun, Fits
  <2>7. begun.over => \A i \in Instances : Exists(i)' => i \in DOMAIN since
    BY <1>2, CloudGrows DEF Begun, CallInv, Exists
  <2> QED
    BY <2>1, <2>3, <2>5, <2>6, <2>7 DEF Begun
<1> QED
  BY <1>1, <1>2

(* Also what has been charged.                                              *)
LEMMA AccountsKeptByCloud ==
    ASSUME EstimateInv, CallInv, NEW since \in Charges, NEW charged \in Charges,
           Accounts(since, charged), CloudStep
    PROVE  Accounts(since, charged)'
<1>1. UNCHANGED <<pc, todo, group, instance_list, yielded, cost_dict, begun, unpriced>>
      /\ DOMAIN charged \subseteq Instances
  BY DEF CloudStep, loop, notes, Charges
<1>2. \A i \in DOMAIN charged : created'[i] = created[i] /\ charged[i] \in Nat
  BY <1>1, CloudGrows, EstimateAssumption DEF Accounts, Fits, Charges, Times
<1>3. \A k : CostUntil(k, charged)' = CostUntil(k, charged)
  BY <1>2, CostKept
<1>4. now \in Nat /\ now' \in Nat /\ now' >= now
  <2>1. now' \in Times
    BY CloudKeeps DEF EstimateInv, TypeOK
  <2> QED
    BY <2>1, CloudGrows, EstimateAssumption DEF EstimateInv, TypeOK, Times
<1>5. Fits(charged)'
  BY <1>2, <1>4 DEF Accounts, Fits, Exists
<1>6. begun.over => \A i \in DOMAIN charged : charged[i] = ended'[i]
  BY <1>1, CloudGrows DEF Accounts, CallInv
<1>7. \A k : Returned(k)' = Returned(k)
  BY <1>1 DEF Returned
<1>8. PricedKeys' = PricedKeys /\ \A i : Here(i)' = Here(i)
  BY <1>1 DEF PricedKeys, Here
<1> QED
  BY <1>1, <1>3, <1>5, <1>6, <1>7, <1>8 DEF Accounts

(* A loop over the groups or fleets begins with nothing charged.            *)
LEMMA AccountsAtStart ==
    ASSUME EstimateInv, CallInv, NEW since \in Charges, Begun(since),
           ListInstanceGroups \/ (ListInstanceFleets /\ fleets)
    PROVE  Accounts(since, Empty)'
<1>1. /\ pc' = "next" /\ todo' = ResGroups
      /\ UNCHANGED cost_dict /\ DOMAIN cost_dict = {}
  BY DEF ListInstanceGroups, ListInstanceFleets, CallInv
<1>2. \A k : Returned(k)' = CostUntil(k, Empty)'
  <2>1. \A k : CostUntil(k, Empty)' = CostUntil(k, Empty)
    BY CostKept, EmptyIsCharge
  <2> QED
    BY <1>1, <2>1, CostOfNothing DEF Returned
<1>3. \A i \in DOMAIN since : GroupOf[i] \in todo'
  BY <1>1, EstimateAssumption DEF Charges
<1> QED
  BY <1>1, <1>2, <1>3, EmptyIsCharge DEF Accounts, Fits

(* Within the loop, the steps that charge nothing: an instance to come is   *)
(* of a group to come, of the group to be listed, or listed.                *)
LEMMA AccountsKept ==
    ASSUME EstimateInv, CallInv, NEW since \in Charges, NEW charged \in Charges,
           Begun(since), Accounts(since, charged),
           NextGroup \/ ListInstances \/ EndOfGroup \/ Return
    PROVE  Accounts(since, charged)'
<1>1. /\ UNCHANGED <<cloud, cost_dict, begun, unpriced>>
      /\ DOMAIN charged \subseteq Instances /\ DOMAIN since \subseteq Instances
  BY DEF NextGroup, ListInstances, EndOfGroup, Return, notes, Charges
<1>2. /\ Fits(charged)' /\ PricedKeys' = PricedKeys
      /\ \A k : Returned(k)' = Returned(k)
  BY <1>1 DEF cloud, Accounts, Fits, Exists, Returned, PricedKeys
<1>3. \A k : CostUntil(k, charged)' = CostUntil(k, charged)
  BY <1>1, CostKept DEF cloud
<1>4. begun.over => \A i \in DOMAIN charged : charged[i] = ended'[i]
  BY <1>1 DEF cloud, Accounts
<1>5. /\ \A i \in DOMAIN charged :
           pc' # "returned" => GroupOf[i] \notin todo' /\ ~Here(i)'
      /\ \A i \in DOMAIN since \ DOMAIN charged :
           pc' # "returned" /\ (GroupOf[i] \in todo' \/ Here(i)')
  <2>1. CASE NextGroup
    BY <2>1 DEF NextGroup, Accounts, Here
  <2>2. CASE EndOfGroup
    BY <2>2 DEF EndOfGroup, loop, Accounts, Here
  <2>3. CASE Return
    BY <2>3 DEF Return, Accounts, Here
  <2>4. CASE ListInstances
    <3>1. PICK page \in SUBSET (Members(group) \ DOMAIN instance_list) :
            /\ instance_list' = [i \in DOMAIN instance_list \cup page |->
                   IF i \in page THEN ended[i] ELSE instance_list[i]]
            /\ pc' = IF page = Members(group) \ DOMAIN instance_list
                     THEN "price" ELSE "list"
      BY <2>4 DEF ListInstances
    <3>2. /\ pc = "list" /\ yielded = {}
          /\ UNCHANGED <<todo, group, yielded>>
      BY <2>4 DEF ListInstances, CallInv
    <3>3. DOMAIN instance_list' \subseteq Members(group)
      BY <3>1 DEF EstimateInv, TypeOK
    <3>4. pc' = "price" => Members(group) \subseteq DOMAIN instance_list'
      BY <3>1
    <3>5. pc' \in {"list", "price"}
      BY <3>1
    <3>6. \A i \in DOMAIN since : GroupOf[i] = group => i \in Members(group)
      BY <1>1 DEF Members, Begun, Fits
    <3>7. \A i \in DOMAIN charged : GroupOf[i] \notin todo' /\ ~Here(i)'
      BY <3>2, <3>3 DEF Accounts, Here, Members
    <3>8. \A i \in DOMAIN since \ DOMAIN charged : GroupOf[i] \in todo' \/ Here(i)'
      BY <3>2, <3>4, <3>5, <3>6 DEF Accounts, Here
    <3> QED
      BY <3>5, <3>7, <3>8
  <2> QED
    BY <2>1, <2>2, <2>3, <2>4
<1> QED
  BY <1>1, <1>2, <1>3, <1>4, <1>5 DEF Accounts

(* What an instance adds to a key is its charge until its end, if the key   *)
(* is one of its own and no part of it is missing.                          *)
LEMMA AddedIsCharge ==
    ASSUME EstimateInv, NEW i \in Instances, NEW ec2 \in Nat, Add(i, ec2),
           NEW k \in Keys, ec2 = Rate[i]["EC2"] \/ k \in Types \X {"EMR", "EBS"}
    PROVE  Returned(k)' =
             Returned(k) + (IF IsOf(k, i) THEN ChargeOf(k, i, end_date_time(i)) ELSE 0)
<1> DEFINE type == GroupType[group]
           hours == end_date_time(i) - created[i]
           part == [p \in Parts |-> IF p = "EC2" THEN ec2 * hours
                                                 ELSE Rate[i][p] * hours]
           Added(j) == IF j = Total THEN part["EC2"] + part["EMR"] + part["EBS"]
                       ELSE IF j[1] = type THEN part[j[2]] ELSE 0
           Before(j) == IF j \in DOMAIN cost_dict THEN cost_dict[j] ELSE 0
           New == DOMAIN cost_dict \cup ({type} \X Parts) \cup {Total}
<1>1. type = GroupType[GroupOf[i]]
  BY DEF Add, EstimateInv, TypeOK, Members
<1>2. cost_dict' = [j \in New |-> Before(j) + Added(j)]
  BY DEF Add
<1>3. Before(k) = Returned(k) /\ Returned(k) \in Nat
  BY DEF Returned, EstimateInv, TypeOK
<1>4. k \notin New => k # Total /\ k[1] # type
  BY DEF Keys
<1>5. Returned(k)' = Returned(k) + Added(k)
  <2> HIDE DEF Added, type, New
  <2>1. CASE k \in New
    <3> HIDE DEF Before
    <3> QED
      BY <1>2, <1>3, <2>1 DEF Returned
  <2>2. CASE k \notin New
    <3>1. k \notin DOMAIN cost_dict /\ Added(k) = 0
      BY <1>4, <2>2 DEF New, Added
    <3>2. k \notin DOMAIN cost_dict'
      BY <1>2, <2>2
    <3> QED
      BY <3>1, <3>2 DEF Returned
  <2> QED
    BY <2>1, <2>2
<1>6. hours \in Int
  <2>1. /\ i \in Members(group) /\ i \in DOMAIN instance_list
        /\ instance_list[i] \in {ended[i], None}
    BY DEF Add, EstimateInv, TypeOK
  <2> QED
    BY <2>1, EstimateAssumption
    DEF Members, Exists, end_date_time, EstimateInv, TypeOK, Times
<1>7. Added(k) = IF IsOf(k, i) THEN ChargeOf(k, i, end_date_time(i)) ELSE 0
  <2>1. CASE k = Total
    <3>1. ec2 = Rate[i]["EC2"]
      BY <2>1 DEF Total
    <3>2. /\ part["EC2"] = Rate[i]["EC2"] * hours
          /\ part["EMR"] = Rate[i]["EMR"] * hours
          /\ part["EBS"] = Rate[i]["EBS"] * hours
      BY <3>1 DEF Parts
    <3>3. \A p \in Parts : Rate[i][p] \in Nat
      BY EstimateAssumption
    <3>4. \A a, b, c, h \in Int : a * h + b * h + c * h = (a + b + c) * h
      OBVIOUS
    <3>5. Added(k) = (Rate[i]["EC2"] + Rate[i]["EMR"] + Rate[i]["EBS"]) * hours
      <4>1. Added(k) = part["EC2"] + part["EMR"] + part["EBS"]
        BY <2>1
      <4> HIDE DEF hours, part, Added
      <4> QED
        BY <1>6, <3>2, <3>3, <3>4, <4>1 DEF Parts
    <3> HIDE DEF Added
    <3> QED
      BY <2>1, <3>5, TotalRate DEF IsOf, ChargeOf
  <2>2. CASE k # Total
    <3>1. k \in Types \X Parts
      BY <2>2 DEF Keys
    <3>2. IsOf(k, i) <=> k[1] = type
      BY <1>1, <2>2 DEF IsOf
    <3>3. part[k[2]] = Rate[i][k[2]] * hours
      <4>1. k[2] \in Parts /\ (k[2] = "EC2" => ec2 = Rate[i]["EC2"])
        BY <3>1
      <4> HIDE DEF hours
      <4> QED
        BY <4>1
    <3>4. RateOf(k, i) = Rate[i][k[2]]
      BY <2>2 DEF RateOf
    <3> HIDE DEF part
    <3> QED
      BY <2>2, <3>2, <3>3, <3>4 DEF ChargeOf
  <2> QED
    BY <2>1, <2>2
<1> HIDE DEF Added
<1> QED
  BY <1>5, <1>7

(* The instance that is priced was to come, and is charged from then on.    *)
LEMMA AccountsAdd ==
    ASSUME EstimateInv, EstimateInv', CallInv, NEW since \in Charges, NEW charged \in Charges,
           Begun(since), Accounts(since, charged),
           NEW i \in Instances, AddPriced(i) \/ AddUnpriced(i)
    PROVE  \E more \in Charges : Accounts(since, more)'
<1> DEFINE t == end_date_time(i)
<1>1. PICK ec2 \in Nat : /\ Add(i, ec2)
                         /\ \/ ec2 = Rate[i]["EC2"] /\ unpriced' = unpriced
                            \/ unpriced' = TRUE
  <2>1. Rate[i]["EC2"] \in Nat /\ 0 \in Nat
    BY EstimateAssumption DEF Parts
  <2> QED
    BY <2>1 DEF AddPriced, AddUnpriced
<1>2. /\ pc = "price" /\ i \in DOMAIN instance_list \ yielded
      /\ yielded' = yielded \cup {i}
      /\ UNCHANGED <<cloud, pc, todo, group, instance_list, begun>>
  BY <1>1 DEF Add
<1>3. /\ i \in Members(group) /\ GroupOf[i] = group
      /\ instance_list[i] \in {ended[i], None}
  BY <1>2 DEF EstimateInv, TypeOK, Members
<1>4. i \notin DOMAIN charged
  BY <1>2 DEF Accounts, Here
<1>5. /\ t \in Times /\ Exists(i) /\ created[i] <= t /\ t <= now
      /\ i \in DOMAIN since => since[i] <= t
      /\ begun.over => t = ended[i]
  <2>1. begun.over => instance_list[i] # None
    BY <1>2 DEF CallInv
  <2>2. Exists(i) /\ created[i] <= now /\ now \in Times
    BY <1>3 DEF Members, EstimateInv, TypeOK, LifeInv, Exists
  <2>3. i \in DOMAIN since => since[i] <= now
                              /\ (ended[i] # None => since[i] <= ended[i])
    BY DEF Begun, Fits
  <2>4. ended[i] # None => ended[i] \in Times /\ created[i] <= ended[i] /\ ended[i] <= now
    BY DEF EstimateInv, TypeOK, LifeInv
  <2>5. now <= now
    BY <2>2, EstimateAssumption DEF Times
  <2> QED
    BY <1>3, <2>1, <2>2, <2>3, <2>4, <2>5 DEF end_date_time
<1> HIDE DEF t
<1>6. PICK more \in Charges : /\ DOMAIN more = DOMAIN charged \cup {i}
                              /\ more[i] = t
                              /\ \A j \in DOMAIN charged : more[j] = charged[j]
  <2> DEFINE m == [j \in DOMAIN charged \cup {i} |-> IF j = i THEN t ELSE charged[j]]
  <2>1. /\ DOMAIN charged \cup {i} \in SUBSET Instances
        /\ \A j \in DOMAIN charged : charged[j] \in Times
    BY DEF Charges
  <2>2. m \in [DOMAIN charged \cup {i} -> Times]
    BY <1>5, <2>1
  <2>3. m \in Charges
    BY <2>1, <2>2 DEF Charges
  <2> QED
    BY <1>4, <2>3
<1>7. Fits(more) /\ Fits(charged)
  BY <1>5, <1>6 DEF Accounts, Fits
<1>8. ASSUME NEW k \in PricedKeys' PROVE Returned(k)' = CostUntil(k, more)'
  <2>1. k \in Keys /\ k \in PricedKeys
    BY <1>1 DEF PricedKeys, Keys, Parts
  <2>2. ec2 = Rate[i]["EC2"] \/ k \in Types \X {"EMR", "EBS"}
    BY <1>1 DEF PricedKeys
  <2>3. Returned(k)' = Returned(k) + (IF IsOf(k, i) THEN ChargeOf(k, i, t) ELSE 0)
    BY <1>1, <2>1, <2>2, AddedIsCharge DEF t
  <2>4. CostUntil(k, more)
          = CostUntil(k, charged) + (IF IsOf(k, i) THEN ChargeOf(k, i, more[i]) ELSE 0)
    <3>1. TypeOK
      BY DEF EstimateInv
    <3> QED
      BY <1>4, <1>6, <1>7, <2>1, <3>1, CostOfOneMore
  <2>5. Returned(k) = CostUntil(k, charged)
    BY <2>1 DEF Accounts
  <2>6. CostUntil(k, more)' = CostUntil(k, more)
    BY <1>2, CostKept DEF cloud
  <2> QED
    BY <1>6, <2>3, <2>4, <2>5, <2>6, Zenon
<1>9. /\ Fits(more)'
      /\ \A j \in DOMAIN more \cap DOMAIN since : since[j] <= more[j]
      /\ begun.over => \A j \in DOMAIN more : more[j] = ended'[j]
  BY <1>2, <1>5, <1>6, <1>7 DEF cloud, Accounts, Fits, Exists
<1>10. \A j \in DOMAIN more : GroupOf[j] \notin todo' /\ ~Here(j)'
  BY <1>2, <1>3, <1>6 DEF Accounts, Here, CallInv
<1>11. \A j \in DOMAIN since \ DOMAIN more :
         pc' # "returned" /\ (GroupOf[j] \in todo' \/ Here(j)')
  BY <1>2, <1>6 DEF Accounts, Here
<1>12. Accounts(since, more)'
  BY <1>2, <1>8, <1>9, <1>10, <1>11 DEF Accounts
<1> QED
  BY <1>6, <1>12

(* The call begins with what the cluster has cost.                          *)
LEMMA BegunAtCall ==
    ASSUME EstimateInv, CallInv, Call PROVE AccountInv'
<1>1. PICK since \in Charges : since = Ends
  <2>1. Ends \in [{i \in Instances : Exists(i)} -> Times]
    BY DEF Ends, EndOf, EstimateInv, TypeOK
  <2> QED
    BY <2>1 DEF Charges
<1>2. /\ DOMAIN since = {i \in Instances : Exists(i)}
      /\ \A i \in DOMAIN since : since[i] = EndOf(i)
  BY <1>1 DEF Ends
<1>3. /\ UNCHANGED cloud /\ pc' = "describe"
      /\ begun' = [over |-> terminated, cost |-> ActualCost]
  BY DEF Call
<1>4. Fits(since)'
  <2>1. now <= now
    BY EstimateAssumption DEF EstimateInv, TypeOK, Times
  <2> QED
    BY <1>2, <1>3, <2>1 DEF cloud, Fits, EndOf, Exists, EstimateInv, LifeInv
<1>5. [k \in Keys |-> CostUntil(k, since)]' = ActualCost
  <2>1. [k \in Keys |-> CostUntil(k, since)]' = [k \in Keys |-> CostUntil(k, since)]
    BY <1>3, CostKept DEF cloud
  <2> QED
    BY <1>1, <2>1 DEF ActualCost
<1>6. \A i \in DOMAIN since : ended'[i] # None => since[i] <= ended'[i]
  BY <1>2, <1>3, EstimateAssumption
  DEF cloud, EndOf, EstimateInv, TypeOK, Times
<1>7. Begun(since)'
  BY <1>2, <1>3, <1>4, <1>5, <1>6 DEF Begun, cloud, Exists
<1> QED
  BY <1>3, <1>7 DEF AccountInv, Counting

LEMMA AccountKeeps ==
    ASSUME EstimateInv, EstimateInv', CallInv, AccountInv, Next PROVE AccountInv'
<1>1. CASE Call
  BY <1>1, BegunAtCall
<1>2. CASE ~Call
  <2>1. PICK since \in Charges :
          /\ Begun(since)
          /\ pc \in Counting => \E charged \in Charges : Accounts(since, charged)
    BY DEF AccountInv
  <2>2. CloudStep \/ UNCHANGED <<cloud, begun>>
    BY <1>2
    DEF Next, Step, DescribeCluster, ListInstanceGroups, FallBackToFleets,
        ListInstanceFleets, NextGroup, ListInstances, AddPriced, AddUnpriced, Add,
        EndOfGroup, Return, Retry, Raise, Fault, notes
  <2>3. Begun(since)'
    BY <2>1, <2>2, BegunKept
  <2> SUFFICES pc' \in Counting => \E charged \in Charges : Accounts(since, charged)'
    BY <2>3 DEF AccountInv
  <2>4. CASE CloudStep
    <3>1. pc' = pc
      BY <2>4 DEF CloudStep
    <3> QED
      BY <2>1, <2>4, <3>1, AccountsKeptByCloud
  <2>5. CASE ListInstanceGroups \/ ListInstanceFleets
    <3>1. ListInstanceFleets /\ ~fleets => pc' \notin Counting
      BY DEF ListInstanceFleets, Counting
    <3> QED
      BY <2>1, <2>5, <3>1, AccountsAtStart, EmptyIsCharge
  <2>6. CASE NextGroup \/ ListInstances \/ EndOfGroup \/ Return
    <3>1. pc \in Counting
      BY <2>6 DEF NextGroup, ListInstances, EndOfGroup, Return, Counting
    <3> QED
      BY <2>1, <2>6, <3>1, AccountsKept
  <2>7. ASSUME NEW i \in Instances, AddPriced(i) \/ AddUnpriced(i)
        PROVE  \E charged \in Charges : Accounts(since, charged)'
    <3>1. pc \in Counting
      BY <2>7 DEF AddPriced, AddUnpriced, Add, Counting
    <3> QED
      BY <2>1, <2>7, <3>1, AccountsAdd
  <2>8. CASE DescribeCluster \/ FallBackToFleets \/ Retry \/ Raise
    BY <2>8 DEF DescribeCluster, FallBackToFleets, Retry, Raise, Counting
  <2>9. ASSUME NEW code \in Codes, Fault(code) PROVE pc' \notin Counting
    BY <2>9 DEF Fault, Counting
  <2> QED
    BY <1>2, <2>4, <2>5, <2>6, <2>7, <2>8, <2>9 DEF Next, Step
<1> QED
  BY <1>1, <1>2

LEMMA AccountIsInductive ==
    EstimateInv /\ CallInv /\ AccountInv /\ [Next]_estimateVars
      => CallInv' /\ AccountInv'
<1> SUFFICES ASSUME EstimateInv, CallInv, AccountInv, [Next]_estimateVars
             PROVE  CallInv' /\ AccountInv'
  OBVIOUS
<1>1. CASE Next
  BY <1>1, EstimateIsInductive, CallInvKeeps, AccountKeeps
<1>2. CASE UNCHANGED estimateVars
  <2>1. UNCHANGED <<cloud, begun, pc, todo, group, instance_list, yielded, cost_dict,
                    unpriced, branch>>
    BY <1>2 DEF estimateVars, loop, notes
  <2>2. CallInv'
    BY <2>1 DEF CallInv, cloud, Exists
  <2>3. PICK since \in Charges :
          /\ Begun(since)
          /\ pc \in Counting => \E charged \in Charges : Accounts(since, charged)
    BY DEF AccountInv
  <2>4. Begun(since)'
    BY <2>1, <2>3, BegunKept
  <2>5. ASSUME NEW charged \in Charges, Accounts(since, charged)
        PROVE  Accounts(since, charged)'
    <3>1. \A k : CostUntil(k, charged)' = CostUntil(k, charged)
      BY <2>1, CostKept DEF cloud
    <3>2. PricedKeys' = PricedKeys /\ \A k : Returned(k)' = Returned(k)
      BY <2>1 DEF PricedKeys, Returned
    <3>3. Fits(charged)' /\ \A i : Here(i)' = Here(i)
      BY <2>1, <2>5 DEF Accounts, Fits, cloud, Exists, Here
    <3> QED
      BY <2>1, <2>5, <3>1, <3>2, <3>3 DEF Accounts, cloud
  <2> QED
    BY <2>1, <2>2, <2>3, <2>4, <2>5 DEF AccountInv
<1> QED
  BY <1>1, <1>2

LEMMA AccountIsInvariant == Spec => [](EstimateInv /\ CallInv /\ AccountInv)
  BY InitialEstimate, InitialAccount, EstimateIsInductive, AccountIsInductive, PTL DEF Spec

(* When a call returns, it has charged for every instance there was when it *)
(* began, and for each until a time between then and now.                   *)
LEMMA ReturnedIsCharged ==
    ASSUME AccountInv, pc = "returned"
    PROVE  \E since, charged \in Charges :
             Begun(since) /\ Accounts(since, charged) /\ DOMAIN since \subseteq DOMAIN charged
<1>1. PICK since \in Charges : /\ Begun(since)
                               /\ \E charged \in Charges : Accounts(since, charged)
  BY DEF AccountInv, Counting
<1>2. PICK charged \in Charges : Accounts(since, charged)
  BY <1>1
<1>3. DOMAIN since \subseteq DOMAIN charged
  BY <1>2 DEF Accounts
<1> QED
  BY <1>1, <1>2, <1>3

(* A call that began after the cluster had terminated returns its cost,     *)
(* part by part, whatever failed on the way: what check_cost_cache keeps is *)
(* the cost.                                                                *)
THEOREM ExactOnce == Spec => []ExactOnceTerminated
<1>1. EstimateInv /\ CallInv /\ AccountInv => ExactOnceTerminated
  <2> SUFFICES ASSUME EstimateInv, CallInv, AccountInv, pc = "returned", begun.over,
                      NEW k \in PricedKeys
               PROVE  Returned(k) = ActualCost[k]
    BY DEF ExactOnceTerminated
  <2>1. PICK since, charged \in Charges :
          Begun(since) /\ Accounts(since, charged) /\ DOMAIN since \subseteq DOMAIN charged
    BY ReturnedIsCharged
  <2>2. DOMAIN charged = {i \in Instances : Exists(i)}
    BY <2>1 DEF Begun, Accounts, Fits, Charges
  <2>3. \A i \in DOMAIN charged : charged[i] = EndOf(i)
    BY <2>1, <2>2 DEF Accounts, CallInv, EndOf
  <2>4. charged = Ends
    <3>1. charged = [i \in DOMAIN charged |-> charged[i]]
      BY DEF Charges
    <3> QED
      BY <2>2, <2>3, <3>1 DEF Ends
  <2>5. k \in Keys
    BY DEF PricedKeys, Keys, Parts
  <2> QED
    BY <2>1, <2>4, <2>5 DEF Accounts, ActualCost
<1> QED
  BY <1>1, AccountIsInvariant, PTL

(* What a call returns is no less than the cost when it began, and no more  *)
(* than if nothing had been stopped since its creation: an instance is      *)
(* neither forgotten nor counted twice as the cluster changes under the     *)
(* call.                                                                    *)
THEOREM WithinBounds == Spec => []CostWithinBounds
<1>1. EstimateInv /\ CallInv /\ AccountInv => CostWithinBounds
  <2> SUFFICES ASSUME EstimateInv, AccountInv, pc = "returned", NEW k \in PricedKeys
               PROVE  /\ begun.cost[k] <= Returned(k)
                      /\ Returned(k) <= CostUntil(k, RunUntilNow)
    BY DEF CostWithinBounds
  <2>1. PICK since, charged \in Charges :
          Begun(since) /\ Accounts(since, charged) /\ DOMAIN since \subseteq DOMAIN charged
    BY ReturnedIsCharged
  <2>2. k \in Keys /\ TypeOK
    BY DEF PricedKeys, Keys, Parts, EstimateInv
  <2>3. begun.cost[k] = CostUntil(k, since) /\ Returned(k) = CostUntil(k, charged)
    BY <2>1, <2>2 DEF Begun, Accounts
  <2>4. Fits(since) /\ Fits(charged) /\ \A i \in DOMAIN since : since[i] <= charged[i]
    BY <2>1 DEF Begun, Accounts
  <2>5. CostUntil(k, since) <= CostUntil(k, charged)
    BY <2>1, <2>2, <2>4, CostGrows
  <2>6. /\ RunUntilNow \in Charges /\ Fits(RunUntilNow)
        /\ DOMAIN charged \subseteq DOMAIN RunUntilNow
        /\ \A i \in DOMAIN charged : charged[i] <= RunUntilNow[i]
    <3>1. now \in Times /\ now <= now
      BY <2>2, EstimateAssumption DEF TypeOK, Times
    <3>2. RunUntilNow \in [{i \in Instances : Exists(i)} -> Times]
      BY <3>1 DEF RunUntilNow
    <3>3. RunUntilNow \in Charges
      BY <3>2 DEF Charges
    <3>4. Fits(RunUntilNow)
      BY <3>1 DEF RunUntilNow, Fits, Exists, EstimateInv, LifeInv
    <3>5. DOMAIN charged \subseteq Instances
      BY DEF Charges
    <3> QED
      BY <2>4, <3>3, <3>4, <3>5 DEF Fits, RunUntilNow
  <2>7. CostUntil(k, charged) <= CostUntil(k, RunUntilNow)
    BY <2>2, <2>4, <2>6, CostGrows
  <2> QED
    BY <2>3, <2>5, <2>7
<1> QED
  BY <1>1, AccountIsInvariant, PTL
=============================================================================
