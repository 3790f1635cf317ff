--------------------------- MODULE MCQueryServer ----------------------------
(* Small instances of QueryServer for TLC.                                 *)
EXTENDS QueryServer, TLC

CONSTANTS t1, r1, r2, unknown

OneThread  == {t1}

(* Cluster 2 has no exporter.                                              *)
ThreeClusters == 1 .. 3
TwoTracked    == {1, 3}

(* Clusters that start before, in or after a range, outlive it, end within  *)
(* it or are forgotten before it is asked for; ranges of less than an hour,  *)
(* an hour, and more.                                                        *)
Span(f, l)   == [first |-> f, last |-> l]
Window(s, e) == [start |-> s, end |-> e]
SomeSpans  == {<<Span(1, 5), Span(2, 4), Span(3, 3)>>,
               <<Span(1, 2), Span(3, 6), Span(4, 6)>>,
               <<Span(2, 6), Span(3, 4), Span(4, 5)>>,
               <<Span(1, 6), Span(1, 2), Span(2, 3)>>}
SomeRanges == {Window(3, 4), Window(2, 4), Window(2, 5), Window(2, 6)}

TwoRegions == {r1, r2}
SomeNames  == {<<r2>>, <<unknown, r2>>}

(* Two applications on one cluster, one on another.                        *)
ThreeApps == {"a1", "a2", "a3"}
AppCluster == [a \in ThreeApps |-> IF a = "a3" THEN 3 ELSE 1]

(* A driver, a worker that joins late, and one without a type.             *)
FourNodes   == {"d1", "w1", "v1", "d3"}
NodeCluster == [n \in FourNodes |-> IF n = "d3" THEN 3 ELSE 1]
NodeJoins   == [n \in FourNodes |-> IF n = "w1" THEN 1 ELSE 0]
NodeType    == [n \in FourNodes |-> CASE n = "w1" -> "big"
                                      [] n = "v1" -> "none"
                                      [] OTHER    -> "small"]
Label(j, r) == [job |-> j, runtime |-> r]
SomeLabels  == {<<l, Label("", ""), Label("false", "photon")>> :
                    l \in {Label("true", "light"), Label("maybe", "plain")}}

Ec2Table == [ty \in {"small", "big"} |-> IF ty = "big" THEN 7 ELSE 3]
DbuTable == [k \in {<<"small", "JOB_LIGHT">>, <<"big", "JOB_LIGHT">>,
                    <<"small", "ALL_PURPOSE_PHOTON">>} |->
                IF k[1] = "big" THEN 50 ELSE 11]
=============================================================================
