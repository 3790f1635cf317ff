--------------------------- MODULE MCRegionSwitch ---------------------------
(* Small instances of RegionSwitch for TLC.                                *)
EXTENDS RegionSwitch

CONSTANTS r1, r2, t1, t2, t3

TwoRegions   == {r1, r2}
OneThread    == {t1}
ThreeThreads == {t1, t2, t3}
Faulty       == {r2}
=============================================================================
