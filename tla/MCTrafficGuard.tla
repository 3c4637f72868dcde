---------------------------- MODULE MCTrafficGuard ----------------------------
(* Instances of TrafficGuard for TLC: the threshold and the points of the   *)
(* gateway, and a bucket that, as there, fills up well within a cooldown    *)
(* and brings a token in less than a second.                                *)
EXTENDS TrafficGuard, TLC

CONSTANTS r1, r2, r3, r4

FourRequests == {r1, r2, r3, r4}
GatewayPoints == {1, 3}
RequestSymmetry == Permutations(Requests)
==============================================================================
