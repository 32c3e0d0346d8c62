--------------------------- MODULE MCBookStorage ---------------------------
(* Instances of BookStorage for TLC.                                       *)
EXTENDS BookStorage

\* Levels in three words under two summary words under one: the last level,
\* alone in its word, and the last of the word before it.
MCPlaces == {[side |-> "buy", level |-> 0], [side |-> "buy", level |-> TickCount - 2],
             [side |-> "sell", level |-> TickCount - 1]}

\* An iceberg that is replenished once.
MCSizes == {[quantity |-> 2, display |-> 1]}

MCStopOrders == [side : {"sell"}, trigger : Triggers, limit : {{}, {price_at(1)}},
                 quantity : {1}]

=============================================================================
