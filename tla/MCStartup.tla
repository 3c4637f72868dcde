------------------------------ MODULE MCStartup -------------------------------
(* Instances of Startup for TLC.  The seed key, and a second process that *)
(* seeds, race with the one creation as a second creation would.          *)
EXTENDS Startup

CONSTANTS i1, i2, c1, v1, v2, own, admin, seed

TwoInstances == {i1, i2}
OneCreation == {c1}
TwoRevocations == {v1, v2}
TwoNames == {own, admin}
==============================================================================
