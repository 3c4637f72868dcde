------------------------- MODULE MCApprovalExecution -------------------------
(* Instances of ApprovalExecution for TLC. *)
EXTENDS ApprovalExecution, TLC

CONSTANTS a1, a2, alice, bob, t1, t2, t3

OneApproval   == {a1}
TwoApprovals  == {a1, a2}
OneAdmin      == {alice}
TwoAdmins     == {alice, bob}
OneAttempt    == {t1}
TwoAttempts   == {t1, t2}
ThreeAttempts == {t1, t2, t3}

\* Calls of one kind differ in nothing but their name.
CallSymmetry == Permutations(Admins) \cup Permutations(Attempts)
==============================================================================
