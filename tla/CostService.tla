---------------------------- MODULE CostService -----------------------------
(***************************************************************************)
(* What the cost panels are promised of EmrUtils.check_cost_cache, with no *)
(* cache, no price list to choose and no client to fail in sight: a query  *)
(* finds no less than what the cluster had cost when it was asked and no   *)
(* more than it can have cost when it is answered, exactly the final cost  *)
(* if the cluster had terminated before, in the prices of the cluster's    *)
(* own region; or it gets the empty cost map.                              *)
(***************************************************************************)
EXTENDS EmrCloud

CONSTANTS
    Threads,    \* the worker threads that serve queries
    Home,       \* the region each cluster runs in
    Empty,      \* EmrUtils._empty_costmap()
    None        \* the cluster of a thread that is not asked

VARIABLES
    phase,      \* "idle", "asked" or "answered", per thread
    subject,    \* the cluster asked about
    since,      \* the cluster's progress when it was asked about
    value       \* the cost that was found, Empty before

serviceVars == <<cloudVars, phase, subject, since, value>>

CostOf(c, u) == [usage |-> u, prices |-> Home[c], spot |-> TRUE]

Init ==
    /\ CloudInit
    /\ phase = [t \in Threads |-> "idle"]
    /\ subject = [t \in Threads |-> None]
    /\ since = [t \in Threads |-> None]
    /\ value = [t \in Threads |-> Empty]

Ask(t, c) ==
    /\ phase[t] = "idle"
    /\ phase' = [phase EXCEPT ![t] = "asked"]
    /\ subject' = [subject EXCEPT ![t] = c]
    /\ since' = [since EXCEPT ![t] = Progress(c)]
    /\ UNCHANGED <<cloudVars, value>>

Take(t) ==
    /\ phase[t] = "asked"
    /\ phase' = [phase EXCEPT ![t] = "answered"]
    /\ \/ \E u \in UsageSince(subject[t], since[t]) :
             value' = [value EXCEPT ![t] = CostOf(subject[t], u)]
       \/ value' = [value EXCEPT ![t] = Empty]
    /\ UNCHANGED <<cloudVars, subject, since>>

Reply(t) ==
    /\ phase[t] = "answered"
    /\ phase' = [phase EXCEPT ![t] = "idle"]
    /\ subject' = [subject EXCEPT ![t] = None]
    /\ since' = [since EXCEPT ![t] = None]
    /\ value' = [value EXCEPT ![t] = Empty]
    /\ UNCHANGED cloudVars

Next ==
    \/ CloudStep /\ UNCHANGED <<phase, subject, since, value>>
    \/ \E t \in Threads :
        \/ \E c \in Clusters : Ask(t, c)
        \/ Take(t)
        \/ Reply(t)

Spec == Init /\ [][Next]_serviceVars
=============================================================================
