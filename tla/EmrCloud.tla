------------------------------ MODULE EmrCloud ------------------------------
(***************************************************************************)
(* The part of AWS EMR that the backend asks about: the life cycle of each *)
(* cluster and what the cluster has used so far.  External: modelled from  *)
(* the fields that utils/cloud.py and cost_estimation/estimator.py read.   *)
(***************************************************************************)
EXTENDS Naturals

CONSTANTS
    Clusters,
    MaxUsage    \* bound: the units of time that go by for a cluster

ASSUME MaxUsageAssumption == MaxUsage \in Nat

VARIABLES
    state,      \* Cluster.Status.State; "RUNNING" stands for STARTING..WAITING
    usage,      \* instance time so far, what a cost estimation adds up
    elapsed     \* what usage would be if no instance had been stopped since
                \* the cluster was created

cloudVars == <<state, usage, elapsed>>

TerminalStates == {"TERMINATED", "TERMINATED_WITH_ERRORS"}
ClusterStates  == {"RUNNING", "TERMINATING"} \cup TerminalStates

CloudTypeOK ==
    /\ state \in [Clusters -> ClusterStates]
    /\ usage \in [Clusters -> Nat]
    /\ elapsed \in [Clusters -> Nat]
    /\ \A c \in Clusters : usage[c] <= elapsed[c]

CloudInit ==
    /\ state = [c \in Clusters |-> "RUNNING"]
    /\ usage = [c \in Clusters |-> 0]
    /\ elapsed = [c \in Clusters |-> 0]

(* Time goes by.  Instances may accrue it until their cluster has           *)
(* terminated; those that were stopped accrue none.                         *)
Work(c) ==
    /\ elapsed[c] < MaxUsage
    /\ elapsed' = [elapsed EXCEPT ![c] = @ + 1]
    /\ \/ /\ state[c] \notin TerminalStates
          /\ usage' = [usage EXCEPT ![c] = @ + 1]
       \/ UNCHANGED usage
    /\ UNCHANGED state

Shutdown(c) ==
    /\ state[c] = "RUNNING"
    /\ state' = [state EXCEPT ![c] = "TERMINATING"]
    /\ UNCHANGED <<usage, elapsed>>

Terminate(c) ==
    /\ state[c] = "TERMINATING"
    /\ \E s \in TerminalStates : state' = [state EXCEPT ![c] = s]
    /\ UNCHANGED <<usage, elapsed>>

(* What a call that begins now knows of a cluster: what it has cost so far, *)
(* and whether it is over, so that it will never cost more.                 *)
Progress(c) == [usage |-> usage[c], over |-> state[c] \in TerminalStates]
ProgressValues == [usage : Nat, over : BOOLEAN]

(* The usages that a call which began at a progress can find: its instances *)
(* are listed page by page while others are launched and stopped, and one   *)
(* that was running when it was listed is charged until it is priced.       *)
(* EstimateCluster checks that a call stays within these bounds.            *)
UsageSince(c, began) ==
    {u \in began.usage .. elapsed[c] : began.over => u = usage[c]}

CloudStep == \E c \in Clusters : Work(c) \/ Shutdown(c) \/ Terminate(c)
=============================================================================
