------------------------------- MODULE Words -------------------------------
(* The range of the 64-bit words that sequences, times and notionals are.  *)
EXTENDS Integers

CONSTANT MaxValue     \* the largest 64-bit value

ASSUME WordAssumption == MaxValue \in Nat \ {0}

Word == 0 .. MaxValue

=============================================================================
