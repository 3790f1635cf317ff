------------------------- MODULE MCEstimateCluster --------------------------
(* Small instances of EstimateCluster for TLC: two groups, one of them with *)
(* two instances, of which one is a spot instance.                          *)
EXTENDS EstimateCluster, TLC

CONSTANTS i1, i2, i3, g1, g2

ThreeInstances == {i1, i2, i3}
TwoGroups      == {g1, g2}
InGroup        == i1 :> g1 @@ i2 :> g1 @@ i3 :> g2
TypeOfGroup    == g1 :> "CORE" @@ g2 :> "TASK"
OneSpot        == {i2}

Rates(ec2, emr, ebs) == "EC2" :> ec2 @@ "EMR" :> emr @@ "EBS" :> ebs
RateTable == i1 :> Rates(7, 3, 1) @@ i2 :> Rates(60, 20, 2) @@ i3 :> Rates(100, 30, 5)
=============================================================================
