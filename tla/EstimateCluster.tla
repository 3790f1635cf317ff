--------------------------- MODULE EstimateCluster --------------------------
(***************************************************************************)
(* EmrCostEstimator.estimate_cluster_cost for one cluster, call by call:   *)
(* the description, the groups or the fleets, the pages of the instances   *)
(* of each, the price of each instance, with the fallback from groups to   *)
(* fleets and the retry, while instances come and go, the cluster          *)
(* terminates and API calls fail.                                          *)
(*                                                                         *)
(* Prices and EBS volumes are a rate per instance, part of the cost and    *)
(* unit of time.  A ResGroup is an instance group or a fleet.              *)
(***************************************************************************)
EXTENDS Integers, FiniteSets, Functions

CONSTANTS
    Instances, ResGroups,
    GroupOf,        \* the group or fleet of each instance
    GroupType,      \* its InstanceGroupType or InstanceFleetType
    Spot,           \* the instances of the spot market
    Rate,           \* Rate[i][p]: the price of an instance, by part
    MaxTime,        \* bound: the last point in time
    MaxFaults,      \* bound: how many API calls fail
    None

Times == 0 .. MaxTime
Parts == {"EC2", "EMR", "EBS"}
Types == {GroupType[g] : g \in ResGroups}
Total == <<"ALL", "TOTAL">>
Keys  == (Types \X Parts) \cup {Total}

ASSUME EstimateAssumption ==
    /\ IsFiniteSet(Instances)
    /\ GroupOf \in [Instances -> ResGroups]
    /\ Spot \subseteq Instances
    /\ Rate \in [Instances -> [Parts -> Nat]]
    /\ MaxTime \in Nat /\ MaxFaults \in Nat
    /\ None \notin Times \cup Instances \cup ResGroups

VARIABLES
    now, terminated,   \* the clock, and whether the cluster has terminated
    created, ended,    \* CreationDateTime and EndDateTime of each instance
    fleets,            \* whether the cluster has fleets instead of groups
    faults,            \* how many API calls have failed
    pc,                \* where the call is
    branch,            \* "groups": in the try; "fleets": in the except
    todo,              \* the groups or fleets the loop has not reached
    group,             \* instance_group or instance_fleet
    instance_list,     \* EndDateTime of the instances _get_instances received
    yielded,           \* the instances the generator has yielded
    cost_dict,
    error,             \* Error.Code of the exception that is raised
    fault,             \* that of the last failing call, for the properties
    begun,             \* the cost when the call began, for the properties
    unpriced           \* whether a spot price failed, for the properties

cloud == <<now, terminated, created, ended, fleets>>
loop  == <<branch, todo, group, instance_list, yielded>>
notes == <<begun, unpriced>>
estimateVars == <<cloud, faults, pc, loop, cost_dict, error, fault, notes>>

Points == {"idle", "describe", "groups", "fleets", "next", "list", "price",
           "raise", "returned", "raised"}

(* What AWS puts into Error.Code: the HTTP status of an answer without a    *)
(* body, or a name.                                                         *)
Codes == {"503", "ThrottlingException", "InvalidRequestException"}

is_error_retrieable(code) == code = "503"

Empty == [x \in {} |-> None]
Exists(i) == created[i] # None
Members(g) == {i \in Instances : GroupOf[i] = g /\ Exists(i)}

(* The cost of instances, each until a time of its own.                     *)
IsOf(k, i)   == k = Total \/ GroupType[GroupOf[i]] = k[1]
RateOf(k, i) == IF k = Total THEN SumFunction(Rate[i]) ELSE Rate[i][k[2]]
CostUntil(k, until) ==
    SumFunction([i \in {j \in DOMAIN until : IsOf(k, j)} |->
                    RateOf(k, i) * (until[i] - created[i])])

NoCost == [k \in Keys |-> 0]

EndOf(i) == IF ended[i] = None THEN now ELSE ended[i]
Ends     == [i \in {j \in Instances : Exists(j)} |-> EndOf(i)]
ActualCost == [k \in Keys |-> CostUntil(k, Ends)]

Init ==
    /\ now = 0 /\ terminated = FALSE
    /\ created \in [Instances -> {None, 0}]
    /\ ended = [i \in Instances |-> None]
    /\ fleets \in BOOLEAN
    /\ faults = 0
    /\ pc = "idle"
    /\ branch = "groups" /\ todo = {} /\ group = None
    /\ instance_list = Empty /\ yielded = {}
    /\ cost_dict = Empty
    /\ error = None /\ fault = None
    /\ begun = [over |-> FALSE, cost |-> NoCost] /\ unpriced = FALSE

-----------------------------------------------------------------------------
(* The cluster: instances are launched and stopped, all of them stop when   *)
(* it terminates.                                                           *)
Tick ==
    /\ now < MaxTime
    /\ now' = now + 1
    /\ UNCHANGED <<terminated, created, ended, fleets>>

Launch(i) ==
    /\ ~terminated /\ ~Exists(i)
    /\ created' = [created EXCEPT ![i] = now]
    /\ UNCHANGED <<now, terminated, ended, fleets>>

Stop(i) ==
    /\ Exists(i) /\ ended[i] = None
    /\ ended' = [ended EXCEPT ![i] = now]
    /\ UNCHANGED <<now, terminated, created, fleets>>

Terminate ==
    /\ ~terminated
    /\ terminated' = TRUE
    /\ ended' = [i \in Instances |-> IF Exists(i) THEN EndOf(i) ELSE None]
    /\ UNCHANGED <<now, created, fleets>>

CloudStep ==
    /\ Tick \/ Terminate \/ \E i \in Instances : Launch(i) \/ Stop(i)
    /\ UNCHANGED <<faults, pc, loop, cost_dict, error, fault, notes>>

-----------------------------------------------------------------------------
Call ==
    /\ pc \in {"idle", "returned", "raised"}
    /\ pc' = "describe"
    /\ cost_dict' = Empty
    /\ begun' = [over |-> terminated, cost |-> ActualCost]
    /\ unpriced' = FALSE
    /\ error' = None /\ fault' = None
    /\ UNCHANGED <<cloud, faults, loop>>

(* _get_avail_zone                                                          *)
DescribeCluster ==
    /\ pc = "describe"
    /\ pc' = "groups" /\ branch' = "groups"
    /\ UNCHANGED <<cloud, faults, todo, group, instance_list, yielded,
                   cost_dict, error, fault, notes>>

(* _get_instance_groups                                                     *)
ListInstanceGroups ==
    /\ pc = "groups" /\ ~fleets
    /\ pc' = "next" /\ todo' = ResGroups
    /\ UNCHANGED <<cloud, faults, branch, group, instance_list, yielded,
                   cost_dict, error, fault, notes>>

(* ListInstanceGroups does not support clusters with fleets.                *)
FallBackToFleets ==
    /\ pc = "groups" /\ fleets
    /\ pc' = "fleets" /\ branch' = "fleets"
    /\ UNCHANGED <<cloud, faults, todo, group, instance_list, yielded,
                   cost_dict, error, fault, notes>>

(* _get_instance_fleets, which a cluster with groups does not support.      *)
ListInstanceFleets ==
    /\ pc = "fleets"
    /\ IF fleets THEN pc' = "next" /\ todo' = ResGroups /\ UNCHANGED error
                 ELSE pc' = "raise" /\ error' = "InvalidRequestException"
                      /\ UNCHANGED todo
    /\ UNCHANGED <<cloud, faults, branch, group, instance_list, yielded,
                   cost_dict, fault, notes>>

(* The next turn of the loop over the groups or fleets: _get_instances      *)
(* begins with an empty list and no Marker.                                 *)
NextGroup ==
    /\ pc = "next"
    /\ \E g \in todo :
        /\ group' = g
        /\ todo' = todo \ {g}
    /\ pc' = "list"
    /\ instance_list' = Empty /\ yielded' = {}
    /\ UNCHANGED <<cloud, faults, branch, cost_dict, error, fault, notes>>

(* The locals of a call that is over.                                       *)
LocalsGone ==
    /\ branch' = "groups" /\ todo' = {} /\ group' = None
    /\ instance_list' = Empty /\ yielded' = {}

(* Variant: the first page is taken for all.                                *)
ListFirstPage ==
    /\ pc = "list"
    /\ \E page \in SUBSET Members(group) :
        /\ page = {} => Members(group) = {}
        /\ instance_list' = [i \in page |-> ended[i]]
    /\ pc' = "price"
    /\ UNCHANGED <<cloud, faults, branch, todo, group, yielded, cost_dict,
                   error, fault, notes>>

(* Variant: the Marker of a page is not passed on.                          *)
ListSamePage ==
    /\ pc = "list"
    /\ \E page \in SUBSET Members(group) :
        /\ page = {} => Members(group) = {}
        /\ instance_list' = [i \in page |-> ended[i]]
        /\ pc' = IF page = Members(group) THEN "price" ELSE "list"
    /\ UNCHANGED <<cloud, faults, branch, todo, group, yielded, cost_dict,
                   error, fault, notes>>

(* Variant: asks for the instances of the cluster, not of the group.        *)
ListAnyGroup ==
    /\ pc = "list"
    /\ instance_list' = [i \in {j \in Instances : Exists(j)} |-> ended[i]]
    /\ pc' = "price"
    /\ UNCHANGED <<cloud, faults, branch, todo, group, yielded, cost_dict,
                   error, fault, notes>>

(* A page of the instances of the group, ended ones included, and a Marker  *)
(* unless it is the last.                                                   *)
ListInstances ==
    /\ pc = "list"
    /\ LET unsent == Members(group) \ DOMAIN instance_list IN
       \E page \in SUBSET unsent :
        /\ page = {} => unsent = {}
        /\ instance_list' =
               [i \in DOMAIN instance_list \cup page |->
                   IF i \in page THEN ended[i] ELSE instance_list[i]]
        /\ pc' = IF page = unsent THEN "price" ELSE "list"
    /\ UNCHANGED <<cloud, faults, branch, todo, group, yielded, cost_dict,
                   error, fault, notes>>

(* Variant: EndDateTime is not looked at.                                   *)
EndIsNow(i) == now

(* The end of an instance that the generator yields: its EndDateTime in the *)
(* list, else the present.                                                  *)
end_date_time(i) ==
    IF instance_list[i] = None THEN now ELSE instance_list[i]

(* The generator yields an instance, and the body of the loop adds its      *)
(* parts.                                                                   *)
Add(i, ec2) ==
    LET type == GroupType[group]
        hours == end_date_time(i) - created[i]
        part == [p \in Parts |-> IF p = "EC2" THEN ec2 * hours
                                              ELSE Rate[i][p] * hours]
        Added(k) == IF k = Total
                    THEN part["EC2"] + part["EMR"] + part["EBS"]
                    ELSE IF k[1] = type THEN part[k[2]] ELSE 0
        Before(k) == IF k \in DOMAIN cost_dict THEN cost_dict[k] ELSE 0
    IN  /\ pc = "price"
        /\ i \in DOMAIN instance_list \ yielded
        /\ yielded' = yielded \cup {i}
        /\ cost_dict' =
               [k \in DOMAIN cost_dict \cup ({type} \X Parts) \cup {Total} |->
                   Before(k) + Added(k)]
        /\ UNCHANGED <<cloud, pc, branch, todo, group, instance_list,
                       error, fault, begun>>

AddPriced(i) == Add(i, Rate[i]["EC2"]) /\ UNCHANGED <<faults, unpriced>>

(* _get_ec2_cost catches what estimate_price_for_period raises.             *)
AddUnpriced(i) ==
    /\ i \in Spot /\ faults < MaxFaults
    /\ Add(i, 0)
    /\ faults' = faults + 1 /\ unpriced' = TRUE

EndOfGroup ==
    /\ pc = "price" /\ DOMAIN instance_list = yielded
    /\ pc' = "next"
    /\ UNCHANGED <<cloud, faults, loop, cost_dict, error, fault, notes>>

Return ==
    /\ pc = "next" /\ todo = {}
    /\ pc' = "returned"
    /\ LocalsGone
    /\ UNCHANGED <<cloud, faults, cost_dict, error, fault, notes>>

(* An API call fails.  Within the try, whatever the reason, the fleets are  *)
(* listed next.                                                             *)
Fault(code) ==
    /\ pc \in {"describe", "groups", "fleets", "list"} /\ faults < MaxFaults
    /\ faults' = faults + 1 /\ fault' = code
    /\ IF branch = "groups" /\ pc \in {"groups", "list"}
       THEN pc' = "fleets" /\ branch' = "fleets" /\ UNCHANGED error
       ELSE pc' = "raise" /\ error' = code /\ UNCHANGED branch
    /\ UNCHANGED <<cloud, todo, group, instance_list, yielded, cost_dict, notes>>

(* @retry, after a wait: without a bound on the attempts.                   *)
Retry ==
    /\ pc = "raise" /\ is_error_retrieable(error)
    /\ pc' = "describe"
    /\ LocalsGone
    /\ cost_dict' = Empty /\ unpriced' = FALSE
    /\ error' = None /\ fault' = None
    /\ UNCHANGED <<cloud, faults, begun>>

Raise ==
    /\ pc = "raise" /\ ~is_error_retrieable(error)
    /\ pc' = "raised"
    /\ LocalsGone
    /\ cost_dict' = Empty
    /\ UNCHANGED <<cloud, faults, error, fault, notes>>

-----------------------------------------------------------------------------
Step ==
    \/ DescribeCluster \/ ListInstanceGroups \/ FallBackToFleets
    \/ ListInstanceFleets \/ NextGroup \/ ListInstances
    \/ \E i \in Instances : AddPriced(i) \/ AddUnpriced(i)
    \/ EndOfGroup \/ Return \/ Retry \/ Raise
    \/ \E code \in Codes \ {"InvalidRequestException"} : Fault(code)

Next == CloudStep \/ Call \/ Step

Spec == Init /\ [][Next]_estimateVars

(* A thread that prices a cluster keeps running.                            *)
FairSpec == Spec /\ WF_estimateVars(Step)

-----------------------------------------------------------------------------
(* Every variable holds a value of its kind; what _get_instances has        *)
(* received are instances of the group it was asked for.                    *)
TypeOK ==
    /\ now \in Times /\ terminated \in BOOLEAN /\ fleets \in BOOLEAN
    /\ created \in [Instances -> Times \cup {None}]
    /\ ended \in [Instances -> Times \cup {None}]
    /\ faults \in 0 .. MaxFaults
    /\ pc \in Points
    /\ branch \in {"groups", "fleets"}
    /\ todo \subseteq ResGroups
    /\ group \in ResGroups \cup {None}
    /\ \A i \in DOMAIN instance_list :
        i \in Members(group) /\ instance_list[i] \in {ended[i], None}
    /\ yielded \subseteq DOMAIN instance_list
    /\ DOMAIN cost_dict \subseteq Keys
    /\ \A k \in DOMAIN cost_dict : cost_dict[k] \in Nat
    /\ error \in Codes \cup {None} /\ fault \in Codes \cup {None}
    /\ begun.over \in BOOLEAN /\ unpriced \in BOOLEAN

Returned(k) == IF k \in DOMAIN cost_dict THEN cost_dict[k] ELSE 0

(* The parts of the cost that a failing spot price leaves alone.            *)
PricedKeys == IF unpriced THEN Types \X {"EMR", "EBS"} ELSE Keys

(* A call that began after the cluster terminated returns its cost, part by *)
(* part, whatever failed before and however often it was tried again: each  *)
(* instance is counted once and no part of a failed attempt is.  This is    *)
(* what check_cost_cache relies on to keep it for good.                     *)
ExactOnceTerminated ==
    pc = "returned" /\ begun.over =>
        \A k \in PricedKeys : Returned(k) = ActualCost[k]

(* While the cluster runs, a call returns no less than what it had cost     *)
(* when the call began, and no more than if nothing had been stopped since  *)
(* its creation.                                                            *)
RunUntilNow == [i \in {j \in Instances : Exists(j)} |-> now]
CostWithinBounds ==
    pc = "returned" =>
        \A k \in PricedKeys :
            /\ begun.cost[k] <= Returned(k)
            /\ Returned(k) <= CostUntil(k, RunUntilNow)

(* A call ends, as API calls do not fail forever: paging, the fallback and  *)
(* the unbounded retry all come to an end.                                  *)
EveryCallEnds == pc \notin {"idle", "returned", "raised"} ~> pc \in {"returned", "raised"}
=============================================================================
