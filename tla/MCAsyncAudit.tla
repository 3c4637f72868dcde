---------------------------- MODULE MCAsyncAudit -----------------------------
(* Instances of AsyncAudit for TLC. *)
EXTENDS AsyncAudit, TLC

CONSTANTS e1, e2, e3, e4, c1, c2

FourEvents == {e1, e2, e3, e4}
ThreeEvents == {e1, e2, e3}
TwoEvents == {e1, e2}
OneCloser == {c1}
TwoClosers == {c1, c2}

\* The events (and the callers of Close) are interchangeable; used only where
\* no liveness property is checked.
CallerSymmetry == Permutations({e1, e2, e3, e4}) \cup Permutations({c1, c2})
=============================================================================
