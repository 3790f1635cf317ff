--------------------------- MODULE MCSpotPricing ----------------------------
(* Small instances of SpotPricing for TLC.                                 *)
EXTENDS SpotPricing, TLC

CONSTANTS t1, t2

OneThread  == {t1}
TwoThreads == {t1, t2}

(* Prices that no mistake in the order of price points leaves unnoticed.   *)
LongTable == [x \in 0 .. 5 |-> <<1, 10, 4, 30, 7, 100>>[x + 1]]
PriceTable == [x \in 0 .. 4 |-> LongTable[x]]

ThreadSymmetry == Permutations(Threads)
=============================================================================
