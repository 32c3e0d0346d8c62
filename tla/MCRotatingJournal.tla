------------------------- MODULE MCRotatingJournal -------------------------
(* RotatingJournal for TLC: the bounds are in the configurations.           *)
EXTENDS RotatingJournal

MCLogicalTimes == {1, 2}
=============================================================================
