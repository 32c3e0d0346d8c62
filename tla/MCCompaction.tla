---------------------------- MODULE MCCompaction ----------------------------
(* Compaction for TLC: the bounds are in the configurations.                 *)
EXTENDS Compaction

MCLogicalTimes == {1, 2}

OneLogicalTime == {1}
=============================================================================
