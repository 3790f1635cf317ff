----------------------------- MODULE MCEmrCosts -----------------------------
(* Small instances of EmrCosts for TLC.                                    *)
EXTENDS EmrCosts, TLC

CONSTANTS r1, r2, c1, c2, t1, t2

TwoRegions   == {r1, r2}
OneCluster   == {c1}
TwoClusters  == {c1, c2}
OneThread    == {t1}
TwoThreads   == {t1, t2}
HomeOne      == [c \in {c1} |-> r1]
HomeTwo      == (c1 :> r1) @@ (c2 :> r2)

ThreadSymmetry == Permutations(Threads)
=============================================================================
