------------------------- MODULE MCDashboardServer --------------------------
(* Small instances of DashboardServer for TLC.                             *)
EXTENDS DashboardServer, TLC

CONSTANTS r1, r2, c1, t1, t2

TwoRegions == {r1, r2}
OneCluster == {c1}
OneThread  == {t1}
TwoThreads == {t1, t2}
HomeOne    == [c \in {c1} |-> r1]
NoRegions  == {}
Faulty     == {r2}

ThreadSymmetry == Permutations(Threads)
=============================================================================
