---------------------------- MODULE BookUpdates ----------------------------
(***************************************************************************)
(* What the storage of an order book promises the matching code: a book    *)
(* that changes by the updates of BookOps and by nothing else.  A step     *)
(* names the slot it changes and takes its other arguments from the book   *)
(* that results.                                                           *)
(***************************************************************************)
EXTENDS BookOps

VARIABLE book

Init == book = [orders |-> [s \in Slots |-> FreeSlot],
                queue |-> [side \in Sides |-> [l \in Levels |-> <<>>]],
                aggregate_quantity |-> [side \in Sides |-> [l \in Levels |-> 0]],
                occupancy |-> [side \in Sides |-> {}],
                stops |-> <<>>]

\* A free slot, or that of a stop that has left its list, joins a level.
Rest(b, after, slot) ==
  LET order == after.orders[slot]
  IN  /\ b.orders[slot].kind \in {"free", "stop"} /\ slot \notin Range(b.stops)
      /\ order.kind = "resting"
      /\ after = rest(b, slot, order.trader, order.side, order.level, order.remaining,
                      order.display)

Reduce(b, after, slot) ==
  LET execution == b.orders[slot].remaining - after.orders[slot].remaining
  IN  /\ b.orders[slot].kind = "resting"
      /\ execution \in 1 .. b.orders[slot].displayed
      /\ after = reduce(b, slot, execution)

Unlink(b, after, slot) ==
  /\ b.orders[slot].kind = "resting"
  /\ after = unlink(b, slot, b.orders[slot].remaining)

Amend(b, after, slot) ==
  /\ b.orders[slot].kind # "free"
  /\ after.orders[slot].remaining \in 1 .. b.orders[slot].remaining - 1
  /\ after = amend(b, slot, after.orders[slot].remaining)

RestStop(b, after, slot) ==
  LET order == after.orders[slot]
  IN  /\ b.orders[slot].kind = "free" /\ order.kind = "stop"
      /\ after = rest_stop(b, slot, order.side, order.trigger, order.level, order.remaining)

DetachStop(b, after, slot) ==
  /\ slot \in Range(b.stops)
  /\ after = detach_stop(b, slot)

UnlinkStop(b, after, slot) ==
  /\ slot \in Range(b.stops)
  /\ after = unlink_stop(b, slot)

\* A stop that has left its list and rests nothing gives up its slot.
Release(b, after, slot) ==
  /\ b.orders[slot].kind = "stop" /\ slot \notin Range(b.stops)
  /\ after = [b EXCEPT !.orders[slot] = FreeSlot]

Updates(b, after) ==
  \E slot \in Slots :
    \/ Rest(b, after, slot) \/ Reduce(b, after, slot) \/ Unlink(b, after, slot)
    \/ Amend(b, after, slot) \/ RestStop(b, after, slot) \/ DetachStop(b, after, slot)
    \/ UnlinkStop(b, after, slot) \/ Release(b, after, slot)

Next == \E b \in {book}, after \in {book'} : Updates(b, after)

Spec == Init /\ [][Next]_book

=============================================================================
