------------------------------ MODULE BookOps ------------------------------
(***************************************************************************)
(* The data structure of the order book of src/src/order_book.cpp: the     *)
(* orders in their arena slots, the queue, the aggregate and the occupancy *)
(* bit of every price level and the list of dormant stops, the queries on  *)
(* them and the updates that rest, reduce and unlink an order.             *)
(*                                                                         *)
(* Abstractions.  An order is identified by its arena slot; order ids,     *)
(* generations and the free list are OrderArena's.  A price in the domain  *)
(* is its level index, any other price is outside Levels.  The intrusive   *)
(* list of a level is the sequence of its slots, a std::optional level is  *)
(* a set of at most one level.                                             *)
(***************************************************************************)
EXTENDS Queues

CONSTANTS
  Slots,            \* the arena's slots
  NoSlot,           \* kInvalidIndex
  TickCount,        \* domain_.tick_count()
  MaxQuantity,      \* max_order_quantity_
  QuantityRange,    \* 2^64: quantities are unsigned and wrap
  Traders,          \* trader ids; 0 is the id of calls that name none
  Triggers,         \* stop trigger prices
  SelfTradePolicy,  \* "none" or "cancel_taker"
  AllocationMode,   \* "fifo" or "threshold_pro_rata"
  ProRataMinimum,   \* pro_rata_minimum_
  InitialState,     \* "continuous" or "opening_auction"
  Commands          \* the calls the client uses

Sides == {"buy", "sell"}
Levels == 0 .. TickCount - 1
NoLevel == -1
Quantity == 0 .. QuantityRange - 1
TimeInForce == {"gtc", "ioc", "fok"}

ASSUME SlotsAssumption ==
  NoSlot \notin Slots /\ IsFiniteSet(Slots) /\ Cardinality(Slots) \in Nat
ASSUME DomainAssumption == TickCount \in Nat \ {0}
\* checked_max_quantity: a maximum fits 32 bits, and so do the slots, so that
\* no sum over a level overflows 64 bits.
ASSUME QuantityAssumption ==
  /\ MaxQuantity \in Nat \ {0}
  /\ QuantityRange \in Nat
  /\ QuantityRange > MaxQuantity
  /\ QuantityRange > Cardinality(Slots) * MaxQuantity
ASSUME InputAssumption == 0 \in Traders /\ Triggers \subseteq Int
ASSUME ConfigAssumption ==
  /\ SelfTradePolicy \in {"none", "cancel_taker"}
  /\ AllocationMode \in {"fifo", "threshold_pro_rata"}
  /\ ProRataMinimum \in 1 .. MaxQuantity
  /\ InitialState \in {"continuous", "opening_auction"}

-----------------------------------------------------------------------------
(* State.                                                                  *)

\* One arena slot with its parallel arrays.  level is a resting order's level,
\* or a dormant stop's limit (NoLevel: a stop-market order).
Order == [kind : {"free", "resting", "stop"},
          side : Sides,
          level : Levels \cup {NoLevel},
          remaining : Quantity,
          trader : Traders,
          display : Quantity,      \* display_quantities_
          displayed : Quantity,    \* displayed_remaining_
          trigger : Triggers \cup {0}]

FreeSlot == [kind |-> "free", side |-> "buy", level |-> NoLevel, remaining |-> 0,
             trader |-> 0, display |-> 0, displayed |-> 0, trigger |-> 0]

Book == [orders : [Slots -> Order],
         queue : [Sides -> [Levels -> Seq(Slots)]],   \* head .. tail of a level
         aggregate_quantity : [Sides -> [Levels -> Quantity]],
         occupancy : [Sides -> SUBSET Levels],
         stops : Seq(Slots)]                          \* stop_head_ .. stop_tail_

\* Unsigned subtraction and addition of quantities.
minus(a, b) == IF b <= a THEN a - b ELSE a - b + QuantityRange
plus(a, b) == IF a + b < QuantityRange THEN a + b ELSE a + b - QuantityRange

-----------------------------------------------------------------------------
(* Queries.                                                                *)

opposite_side(side) == IF side = "buy" THEN "sell" ELSE "buy"

crosses(side, maker_level, limit) ==
  IF side = "buy" THEN maker_level <= limit ELSE maker_level >= limit

best_index(b, side) ==
  {l \in b.occupancy[side] :
     \A k \in b.occupancy[side] : crosses(opposite_side(side), l, k)}

has_crossing_order(b, side, limit) ==
  \E l \in best_index(b, opposite_side(side)) : crosses(side, l, limit)

\* The levels that next_level walks from the best one to the limit.
crossing_levels(b, side, limit) ==
  {l \in b.occupancy[opposite_side(side)] : crosses(side, l, limit)}

\* Mutant of can_fully_fill: it counts levels beyond the limit.
can_fully_fill_any_level(b, side, limit, quantity) ==
  quantity <= SumFunctionOnSet(b.aggregate_quantity[opposite_side(side)],
                               b.occupancy[opposite_side(side)])

can_fully_fill(b, side, limit, quantity) ==
  quantity <= SumFunctionOnSet(b.aggregate_quantity[opposite_side(side)],
                               crossing_levels(b, side, limit))

would_self_trade(b, trader, side, limit) ==
  \E l \in crossing_levels(b, side, limit) :
    \E s \in Range(b.queue[opposite_side(side)][l]) : b.orders[s].trader = trader

self_trade_prevented(b, trader, side, limit) ==
  SelfTradePolicy = "cancel_taker" /\ would_self_trade(b, trader, side, limit)

FreeSlots(b) == {s \in Slots : b.orders[s].kind = "free"}
DormantStops(b) == Len(b.stops)

-----------------------------------------------------------------------------
(* Updates of the book.                                                    *)

\* rest() and rest_existing(): an order joins the tail of its level.
rest(b, slot, trader, side, level, remaining, display) ==
  [b EXCEPT
    !.orders[slot] = [kind |-> "resting", side |-> side, level |-> level,
                      remaining |-> remaining, trader |-> trader,
                      display |-> display, displayed |-> display, trigger |-> 0],
    !.queue[side][level] = Append(@, slot),
    !.aggregate_quantity[side][level] = plus(@, remaining),
    !.occupancy[side] = IF b.queue[side][level] = <<>> THEN @ \cup {level} ELSE @]

unlink(b, slot, reduction) ==
  LET side == b.orders[slot].side
      level == b.orders[slot].level
      queue == RemoveFirst(b.queue[side][level], slot)
  IN  [b EXCEPT
        !.orders[slot] = FreeSlot,
        !.queue[side][level] = queue,
        !.aggregate_quantity[side][level] = minus(@, reduction),
        !.occupancy[side] = IF queue = <<>> THEN @ \ {level} ELSE @]

move_to_tail(queue, slot) == Append(RemoveFirst(queue, slot), slot)

\* Mutant of displayed_after: an iceberg is not replenished.
displayed_after_unreplenished(order, execution) == minus(order.displayed, execution)

\* What an order displays after an execution: an iceberg whose displayed part is
\* used up shows the next part.
displayed_after(order, execution) ==
  IF execution = order.displayed
  THEN Min({order.display, minus(order.remaining, execution)})
  ELSE minus(order.displayed, execution)

\* What one execution does to a resting order, in execute_match() and in the
\* reduce() of execute_auction_match(): an order filled in full leaves, a
\* replenished one joins the tail.
reduce(b, slot, execution) ==
  LET order == b.orders[slot]
  IN  IF execution = order.remaining
      THEN unlink(b, slot, execution)
      ELSE [b EXCEPT
             !.orders[slot] = [order EXCEPT
                                !.remaining = minus(order.remaining, execution),
                                !.displayed = displayed_after(order, execution)],
             !.queue[order.side][order.level] =
                IF execution = order.displayed THEN move_to_tail(@, slot) ELSE @,
             !.aggregate_quantity[order.side][order.level] = minus(@, execution)]

\* Mutants of amend: the displayed part is not capped; the order loses its place.
amend_uncapped(b, slot, quantity) ==
  LET order == b.orders[slot]
  IN  [b EXCEPT !.orders[slot] = [order EXCEPT !.remaining = quantity],
                !.aggregate_quantity[order.side][order.level] =
                   minus(@, order.remaining - quantity)]
amend_to_tail(b, slot, quantity) ==
  LET order == b.orders[slot]
  IN  [b EXCEPT !.orders[slot] = [order EXCEPT
                                   !.remaining = quantity,
                                   !.displayed = Min({order.displayed, quantity})],
                !.queue[order.side][order.level] = move_to_tail(@, slot),
                !.aggregate_quantity[order.side][order.level] =
                   minus(@, order.remaining - quantity)]

amend(b, slot, quantity) ==
  LET order == b.orders[slot]
  IN  IF order.kind = "stop"
      THEN [b EXCEPT !.orders[slot] = [order EXCEPT !.remaining = quantity]]
      ELSE [b EXCEPT
             !.orders[slot] = [order EXCEPT
                                !.remaining = quantity,
                                !.displayed = Min({order.displayed, quantity})],
             !.aggregate_quantity[order.side][order.level] =
                minus(@, order.remaining - quantity)]

rest_stop(b, slot, side, trigger, limit, quantity) ==
  [b EXCEPT
    !.orders[slot] = [FreeSlot EXCEPT !.kind = "stop", !.side = side, !.level = limit,
                                      !.remaining = quantity, !.trigger = trigger],
    !.stops = Append(@, slot)]

detach_stop(b, slot) == [b EXCEPT !.stops = RemoveFirst(@, slot)]

\* Mutant of unlink_stop: the slot is freed, the list still holds it.
unlink_stop_attached(b, slot) == [b EXCEPT !.orders[slot] = FreeSlot]

unlink_stop(b, slot) == [detach_stop(b, slot) EXCEPT !.orders[slot] = FreeSlot]

-----------------------------------------------------------------------------
(* How the links belong together.                                          *)

\* A level's queue holds its resting orders, each once, and its bit says so.
QueueLinked(b, side, l) ==
  /\ IsInjective(b.queue[side][l])
  /\ Range(b.queue[side][l]) = {s \in Slots : /\ b.orders[s].kind = "resting"
                                              /\ b.orders[s].side = side
                                              /\ b.orders[s].level = l}
  /\ l \in b.occupancy[side] <=> b.queue[side][l] # <<>>

\* The stop list holds the dormant stops, but not the one being activated.
StopsLinked(b, active) ==
  /\ IsInjective(b.stops)
  /\ Range(b.stops) = {s \in Slots : b.orders[s].kind = "stop"} \ {active}

=============================================================================
