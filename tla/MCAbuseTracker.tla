--------------------------- MODULE MCAbuseTracker ----------------------------
(* Instances of AbuseTracker for TLC: the threshold and the points of the   *)
(* gateway (5; 1 for a rate-limited request, 3 for a security block), and   *)
(* one length for cooldown and decay interval, as main.go has it.           *)
EXTENDS AbuseTracker, TLC

CONSTANTS r1, r2, r3, r4

FourRequests == {r1, r2, r3, r4}
GatewayPoints == {1, 3}
RequestSymmetry == Permutations(Requests)
==============================================================================
