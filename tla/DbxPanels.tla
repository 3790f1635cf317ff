----------------------------- MODULE DbxPanels ------------------------------
(***************************************************************************)
(* The panels on Databricks clusters: the cluster list, and their cost     *)
(* from the scrape times of their nodes, the node labels and the price     *)
(* lists (DbxUtils, DbxPricing).                                           *)
(*                                                                         *)
(* A driver is scraped as long as its cluster is, a worker that joins late *)
(* only from then on.  What is queried lies in the past and does not       *)
(* change, so that the queries for one cluster are one step, in which any  *)
(* of them may fail.  Prices are for one scrape.                           *)
(***************************************************************************)
EXTENDS PanelRequests, Functions

CONSTANTS
    Nodes,       \* the instances
    ClusterOf,   \* the cluster of each
    Joins,       \* scrapes after which each has joined its cluster
    TypeOf,      \* its instance_type label, or NoLabel
    NoLabel,
    LabelSets,   \* the labels job_cluster and spark_version of all drivers
    Ec2Price,    \* DbxPricing.ec2_prices, once installed
    DbuPrice     \* DbxPricing.dbu_info: the cost, by type and cluster type

Types == {TypeOf[n] : n \in Nodes} \ {NoLabel}
Items == Types \X {"EC2", "DBU"}

(* DbxClusterType                                                          *)
ClusterTypes == {"JOB_BASIC", "JOB_LIGHT", "JOB_PHOTON",
                 "ALL_PURPOSE_BASIC", "ALL_PURPOSE_PHOTON"}

ASSUME DbxAssumption ==
    /\ IsFiniteSet(Nodes)
    /\ ClusterOf \in [Nodes -> Tracked] /\ Joins \in [Nodes -> Nat]
    /\ LabelSets \subseteq [Clusters -> [job : STRING, runtime : STRING]]
    /\ \A ty \in DOMAIN Ec2Price : Ec2Price[ty] \in Nat
    /\ \A k \in DOMAIN DbuPrice : k[2] \in ClusterTypes /\ DbuPrice[k] \in Nat

VARIABLES
    labels,     \* one of LabelSets
    installed,  \* an EC2 price list has been read at start-up
    priced,     \* the clusters a request has priced
    skipped,    \* the nodes whose runtime query failed
    total       \* the entry TOTAL of the cost map it has added up so far

pricing == <<priced, skipped, total>>
settings == <<labels, installed>>

(* An EMR cluster has none.                                                *)
NoLabels == [c \in Clusters |-> [job |-> "", runtime |-> ""]]

DbxInit ==
    /\ labels \in (IF activated_platform = "AWS_DBX" THEN LabelSets ELSE {NoLabels})
    /\ installed = FALSE
    /\ priced = [t \in Threads |-> {}]
    /\ skipped = [t \in Threads |-> {}]
    /\ total = [t \in Threads |-> 0]

-----------------------------------------------------------------------------
(* DbxClusterType.determine_cluster_type                                   *)
determine_cluster_type(l) ==
    CASE l.job = "true" /\ l.runtime = "photon"  -> "JOB_PHOTON"
      [] l.job = "true" /\ l.runtime = "light"   -> "JOB_LIGHT"
      [] l.job = "true" /\ l.runtime = "plain"   -> "JOB_BASIC"
      [] l.job = "false" /\ l.runtime = "photon" -> "ALL_PURPOSE_PHOTON"
      [] l.job = "false" /\ l.runtime # "photon" -> "ALL_PURPOSE_BASIC"
      [] OTHER                                   -> "ValueError"

NodeSpan(n) == LET s == span[ClusterOf[n]]
               IN  [first |-> s.first + Joins[n], last |-> s.last]
DriverSpan(c) == [x \in {c} \cap DOMAIN TrackedSpans |-> span[x]]
NodesOf(c)  == {n \in Nodes : ClusterOf[n] = c}
NodeSpans(c) == [n \in {m \in NodesOf(c) : NodeSpan(m).first <= NodeSpan(m).last}
                    |-> NodeSpan(n)]

(* Variant: until the end of the range, whenever the node was last scraped. *)
RuntimeToEnd(n, r) == r.end - TFirst(NodeSpan(n), r.start, r.end)

(* _get_node_runtime: tlast_over_time - tfirst_over_time                   *)
node_runtime(n, r) ==
    TLast(NodeSpan(n), r.start, r.end) - TFirst(NodeSpan(n), r.start, r.end)

(* _get_instance_times: the sum of the runtimes of the nodes of each type.  *)
instance_times(nodes, r) ==
    [ty \in Types |->
        SumFunction([n \in {m \in nodes : TypeOf[m] = ty} |-> node_runtime(n, r)])]

(* _get_cost_info: unknown types are left out; without a cluster type       *)
(* there are no DBUs.                                                       *)
ec2_cost(ty, time) ==
    IF installed /\ ty \in DOMAIN Ec2Price THEN Ec2Price[ty] * time ELSE 0
dbu_cost(ty, time, clusterType) ==
    IF <<ty, clusterType>> \in DOMAIN DbuPrice
    THEN DbuPrice[<<ty, clusterType>>] * time ELSE 0

Cost(times, clusterType) ==
    [i \in Items |-> IF i[2] = "EC2" THEN ec2_cost(i[1], times[i[1]])
                     ELSE dbu_cost(i[1], times[i[1]], clusterType)]

-----------------------------------------------------------------------------
NoPricing(T) ==
    /\ priced' = [t \in Threads |-> IF t \in T THEN {} ELSE priced[t]]
    /\ skipped' = [t \in Threads |-> IF t \in T THEN {} ELSE skipped[t]]
    /\ total' = [t \in Threads |-> IF t \in T THEN 0 ELSE total[t]]

(* The panels DbxCost and Breakdown, for the clusters selected in the       *)
(* dashboard, and the compute costs of those with applications.            *)
AskCost(t) ==
    /\ \E some \in SUBSET Tracked : some # {} /\ Begin(t, "DbxCost", "rows", some)
    /\ NoPricing({t})
    /\ UNCHANGED settings

(* The cluster lists; of their costs, one for each row, the sum is kept.    *)
AskDbxList(t) ==
    /\ Begin(t, "ClusterList", "list", {})
    /\ NoPricing({t})
    /\ UNCHANGED settings

(* client_dbx.clusters.list() and filter_clusters, by start_time           *)
FilterClusters(t) ==
    /\ Goto(t, "list", "gaps")
    /\ count' = [count EXCEPT ![t] = [c \in Clusters |->
                    IF c \in Covered \cap Launched(range[t]) THEN 1 ELSE 0]]
    /\ UNCHANGED <<panel, range, gap, lost, faults, settings, pricing>>

FillDbxGaps(t) == FillGaps(t) /\ UNCHANGED <<settings, pricing>>

(* Variant: TOTAL without the DBU items.                                    *)
AddWithoutDbus(t, cost) ==
    total' = [total EXCEPT ![t] = @ + SumFunctionOnSet(cost, Types \X {"EC2"})]

(* _estimate_cost and add_costs: the entries of TOTAL add up as the items.  *)
AddTotal(t, cost) ==
    total' = [total EXCEPT ![t] = @ + SumFunctionOnSet(cost, Items)]

PriceCluster(t, c) ==
    /\ phase[t] = "rows"
    /\ c \in Rows(t) \ priced[t]
    /\ LET r == range[t]
       IN  \E nodes \in get_label_values(NodeSpans(c), r.start, r.end),
              driver \in get_label_values(DriverSpan(c), r.start, r.end) :
           \E failing \in SUBSET nodes :
             LET clusterType == IF driver = {} THEN "None"
                                ELSE determine_cluster_type(labels[c])
                 cost == Cost(instance_times(nodes \ failing, r), clusterType)
             IN  /\ clusterType # "ValueError"
                 /\ faults + Cardinality(failing) <= MaxFaults
                 /\ faults' = faults + Cardinality(failing)
                 /\ skipped' = [skipped EXCEPT ![t] = @ \cup failing]
                 /\ AddTotal(t, cost)
    /\ priced' = [priced EXCEPT ![t] = @ \cup {c}]
    /\ UNCHANGED <<panel, phase, range, count, gap, lost, settings>>

(* A job_cluster label that is neither true nor false: nothing is answered. *)
UnsupportedRuntime(t, c) ==
    /\ phase[t] = "rows"
    /\ c \in Rows(t) \ priced[t]
    /\ c \in DOMAIN TrackedSpans /\ span[c].first <= range[t].end
    /\ determine_cluster_type(labels[c]) = "ValueError"
    /\ Discard(t)
    /\ NoPricing({t})
    /\ UNCHANGED <<faults, settings>>

AnswerCosts(t) ==
    /\ Goto(t, "rows", "answered")
    /\ Rows(t) \subseteq priced[t]
    /\ UNCHANGED <<panel, range, count, gap, lost, faults, settings, pricing>>

RaiseDbx(t) == Fail(t) /\ NoPricing({t}) /\ UNCHANGED settings

-----------------------------------------------------------------------------
DbxAsk(t) == AskCost(t) \/ AskDbxList(t)

DbxStep(t) ==
    \/ FilterClusters(t) \/ FillDbxGaps(t) \/ AnswerCosts(t)
    \/ \E c \in Clusters : PriceCluster(t, c) \/ UnsupportedRuntime(t, c)

-----------------------------------------------------------------------------
(* The scrapes between two of [from, to], and what they cost in full.      *)
Uptime(n, from, to) ==
    LET s == NodeSpan(n)
    IN  Later(0, Earlier(s.last, to) - Later(s.first, from))
CostOf(n, time) ==
    ec2_cost(TypeOf[n], time)
      + dbu_cost(TypeOf[n], time, determine_cluster_type(labels[ClusterOf[n]]))
CostBetween(nodes, from, to) ==
    SumFunction([n \in {m \in nodes : TypeOf[m] # NoLabel} |->
                    CostOf(n, Uptime(n, from, to))])

(* The cost of a range is no less than that of what ran within it, nodes     *)
(* whose query failed aside, and no more than that of what ran in the whole  *)
(* hours that end with it: no node is missed or counted twice, whichever     *)
(* labels the database returns.                                              *)
CostWithinWindow ==
    \A t \in Threads : phase[t] = "answered" /\ activated_platform = "AWS_DBX" =>
        LET r     == range[t]
            nodes == {n \in Nodes : ClusterOf[n] \in Rows(t)}
        IN  /\ CostBetween(nodes \ skipped[t], r.start + 1, r.end) <= total[t]
            /\ total[t] <= CostBetween(nodes \ skipped[t],
                                       WindowStart(r.start, r.end), r.end)
=============================================================================
