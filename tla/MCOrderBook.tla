---------------------------- MODULE MCOrderBook ----------------------------
(* Instances of OrderBook for TLC.                                         *)
EXTENDS OrderBook, TLC

\* The slots are interchangeable: acquire may hand out any free one.
SlotSymmetry == Permutations(Slots)

=============================================================================
