---------------------------- MODULE StorageOps -----------------------------
(***************************************************************************)
(* How src/src/order_book.cpp stores a book: orders in arena slots linked  *)
(* by prev_index and next_index under the head and tail of their level,    *)
(* dormant stops linked by parallel arrays, an aggregate and a count per   *)
(* level and a bitmap of occupied levels per side.  BookOps has the same   *)
(* updates over sequences and sets.                                        *)
(*                                                                         *)
(* A store is one record; the parallel arrays (traders, display, stop      *)
(* prices and links) are fields of the order in the slot.  Order ids are   *)
(* left out: an order is its handle.                                       *)
(***************************************************************************)
EXTENDS OrderArena, HierarchicalBitmap, Functions

CONSTANTS
  MinimumPrice,   \* domain_.minimum()
  SideMask        \* kOrderSideMask: the bit above every level

ASSUME EncodingAssumption ==
  /\ MinimumPrice \in Int
  /\ SideMask \in Nat
  /\ TickCount <= SideMask    \* is_encodable_tick_count()

Sides == {"buy", "sell"}
Levels == 0 .. TickCount - 1

index_of(price) == {l \in Levels : price = MinimumPrice + l}
price_at(level) == MinimumPrice + level

encode_level_side(level, side) == IF side = "sell" THEN level + SideMask ELSE level
decode_level(encoded) == encoded % SideMask
decode_side(encoded) == IF encoded \div SideMask = 0 THEN "buy" ELSE "sell"

EmptyLevel == [head |-> NoSlot, tail |-> NoSlot, aggregate_quantity |-> 0, order_count |-> 0]

EmptyStore ==
  [arena |-> EmptyArena,
   level |-> [side \in Sides |-> [l \in Levels |-> EmptyLevel]],
   occupancy |-> [side \in Sides |-> EmptyBitmap],
   stop_head |-> NoSlot,
   stop_tail |-> NoSlot,
   dormant_stop_count |-> 0]

order_at(st, index) == st.arena.slot[index].order
dormant(order) == "dormant_stop" \in order.flags

best_index(st, side) ==
  IF side = "buy" THEN last_set(st.occupancy["buy"]) ELSE first_set(st.occupancy["sell"])

-----------------------------------------------------------------------------
(* Resting orders.                                                         *)

resting_order(trader, side, level, remaining, display, tail) ==
  [remaining |-> remaining, prev |-> tail, next |-> NoSlot,
   level_side |-> encode_level_side(level, side), flags |-> {}, trader |-> trader,
   display |-> display, displayed |-> display,
   trigger |-> 0, limit |-> 0, stop_prev |-> 0, stop_next |-> 0]

\* The order in slot index, whose prev is the tail, becomes the tail.
link(st, index, side, level, remaining) ==
  LET tail == st.level[side][level].tail
  IN  [st EXCEPT
        !.arena.slot = IF tail = NoSlot THEN @ ELSE [@ EXCEPT ![tail].order.next = index],
        !.level[side][level] =
           [head |-> IF tail = NoSlot THEN index ELSE @.head,
            tail |-> index,
            aggregate_quantity |-> @.aggregate_quantity + remaining,
            order_count |-> @.order_count + 1],
        !.occupancy[side] = IF tail = NoSlot THEN set(@, level) ELSE @]

rest(st, trader, side, level, remaining, display) ==
  LET order == resting_order(trader, side, level, remaining, display,
                             st.level[side][level].tail)
  IN  link([st EXCEPT !.arena = acquire(@, order)],
           st.arena.free_head, side, level, remaining)

rest_existing(st, index, trader, side, level, remaining, display) ==
  LET order == resting_order(trader, side, level, remaining, display,
                             st.level[side][level].tail)
  IN  link([st EXCEPT !.arena.slot[index].order = order], index, side, level, remaining)

\* The neighbours of an order are linked to each other.
bypass(slot, order) ==
  [s \in Slots |->
     IF s = order.prev THEN [slot[s] EXCEPT !.order.next = order.next]
     ELSE IF s = order.next THEN [slot[s] EXCEPT !.order.prev = order.prev]
     ELSE slot[s]]

unlink(st, index, reduction) ==
  LET order == order_at(st, index)
      side == decode_side(order.level_side)
      level == decode_level(order.level_side)
      count == st.level[side][level].order_count - 1
  IN  [st EXCEPT
        !.arena = release([@ EXCEPT !.slot = bypass(@, order)], handle_at(@, index)),
        !.level[side][level] =
           [head |-> IF order.prev = NoSlot THEN order.next ELSE @.head,
            tail |-> IF order.next = NoSlot THEN order.prev ELSE @.tail,
            aggregate_quantity |-> @.aggregate_quantity - reduction,
            order_count |-> count],
        !.occupancy[side] = IF count = 0 THEN clear(@, level) ELSE @]

move_to_tail(st, index) ==
  LET order == order_at(st, index)
      side == decode_side(order.level_side)
      level == decode_level(order.level_side)
      tail == st.level[side][level].tail
  IN  IF tail = index THEN st
      ELSE [st EXCEPT
             !.arena.slot = [bypass(@, order) EXCEPT ![tail].order.next = index,
                                                     ![index].order.prev = tail,
                                                     ![index].order.next = NoSlot],
             !.level[side][level] =
                [@ EXCEPT !.head = IF order.prev = NoSlot THEN order.next ELSE @,
                          !.tail = index]]

\* Mutant of reduce: an iceberg that shows its next part keeps its place.
reduce_in_place(st, index, execution) ==
  LET order == order_at(st, index)
      side == decode_side(order.level_side)
      level == decode_level(order.level_side)
      remaining == order.remaining - execution
      shown == order.displayed - execution
      reduced(displayed) ==
        [st EXCEPT !.level[side][level].aggregate_quantity = @ - execution,
                   !.arena.slot[index].order = [@ EXCEPT !.remaining = remaining,
                                                         !.displayed = displayed]]
  IN  IF remaining = 0 THEN unlink(st, index, execution)
      ELSE reduced(IF shown # 0 THEN shown ELSE Min({order.display, remaining}))

\* What execute_match() and the reduce() of execute_auction_match() do to the
\* order they execute.
reduce(st, index, execution) ==
  LET order == order_at(st, index)
      side == decode_side(order.level_side)
      level == decode_level(order.level_side)
      remaining == order.remaining - execution
      shown == order.displayed - execution
      reduced(displayed) ==
        [st EXCEPT !.level[side][level].aggregate_quantity = @ - execution,
                   !.arena.slot[index].order = [@ EXCEPT !.remaining = remaining,
                                                         !.displayed = displayed]]
  IN  IF remaining = 0 THEN unlink(st, index, execution)
      ELSE IF shown # 0 THEN reduced(shown)
      ELSE move_to_tail(reduced(Min({order.display, remaining})), index)

amend(st, index, quantity) ==
  LET order == order_at(st, index)
      reduction == order.remaining - quantity
  IN  IF dormant(order)
      THEN [st EXCEPT !.arena.slot[index].order.remaining = quantity]
      ELSE [st EXCEPT
             !.arena.slot[index].order = [@ EXCEPT !.remaining = quantity,
                                                   !.displayed = Min({@, quantity})],
             !.level[decode_side(order.level_side)][decode_level(order.level_side)]
                .aggregate_quantity = @ - reduction]

-----------------------------------------------------------------------------
(* Dormant stops.                                                          *)

\* limit is {} for a stop-market order.
rest_stop(st, side, trigger, limit, quantity) ==
  LET index == st.arena.free_head
      order == [remaining |-> quantity, prev |-> NoSlot, next |-> NoSlot,
                level_side |-> encode_level_side(0, side),
                flags |-> {"dormant_stop"} \cup (IF limit = {} THEN {"stop_market"} ELSE {}),
                trader |-> 0, display |-> 0, displayed |-> 0, trigger |-> trigger,
                limit |-> IF limit = {} THEN 0 ELSE CHOOSE price \in limit : TRUE,
                stop_prev |-> st.stop_tail, stop_next |-> NoSlot]
      acquired == acquire(st.arena, order)
  IN  [st EXCEPT
        !.arena = IF st.stop_tail = NoSlot THEN acquired
                  ELSE [acquired EXCEPT !.slot[st.stop_tail].order.stop_next = index],
        !.stop_head = IF st.stop_tail = NoSlot THEN index ELSE @,
        !.stop_tail = index,
        !.dormant_stop_count = @ + 1]

detach_stop(st, index) ==
  LET order == order_at(st, index)
  IN  [st EXCEPT
        !.arena.slot =
           [s \in Slots |->
              IF s = order.stop_prev THEN [@[s] EXCEPT !.order.stop_next = order.stop_next]
              ELSE IF s = order.stop_next THEN [@[s] EXCEPT !.order.stop_prev = order.stop_prev]
              ELSE @[s]],
        !.stop_head = IF order.stop_prev = NoSlot THEN order.stop_next ELSE @,
        !.stop_tail = IF order.stop_next = NoSlot THEN order.stop_prev ELSE @,
        !.dormant_stop_count = @ - 1]

release_index(st, index) == [st EXCEPT !.arena = release(@, handle_at(@, index))]

unlink_stop(st, index) == release_index(detach_stop(st, index), index)

-----------------------------------------------------------------------------
(* check_invariants().                                                     *)

LiveSlots(st) == {s \in Slots : st.arena.slot[s].live}

\* The list that starts at head and follows a link of the orders.
walk(st, head, link_field) ==
  list([s \in Slots |-> IF st.arena.slot[s].live THEN order_at(st, s)[link_field] ELSE NoSlot],
       head)

\* Every order of a walk is live and points back to the one before it.
chained(st, queue, back_field) ==
  /\ Range(queue) \subseteq LiveSlots(st)
  /\ \A i \in DOMAIN queue :
       order_at(st, queue[i])[back_field] = IF i = 1 THEN NoSlot ELSE queue[i - 1]

last_of(queue) == IF queue = <<>> THEN NoSlot ELSE queue[Len(queue)]

check_stops(st) ==
  LET stops == walk(st, st.stop_head, "stop_next")
  IN  /\ chained(st, stops, "stop_prev")
      /\ \A s \in Range(stops) : dormant(order_at(st, s)) /\ order_at(st, s).remaining # 0
      /\ last_of(stops) = st.stop_tail
      /\ Len(stops) = st.dormant_stop_count

check_side_invariants(st, side) ==
  \A l \in Levels :
    LET level == st.level[side][l]
        queue == walk(st, level.head, "next")
    IN  /\ test(st.occupancy[side], l) <=> level.order_count # 0
        /\ chained(st, queue, "prev")
        /\ \A s \in Range(queue) :
             LET order == order_at(st, s)
             IN  /\ decode_side(order.level_side) = side
                 /\ decode_level(order.level_side) = l
                 /\ order.remaining # 0
                 /\ order.flags = {}
                 /\ order.displayed \in 1 .. Min({order.display, order.remaining})
        /\ last_of(queue) = level.tail
        /\ Len(queue) = level.order_count
        /\ level.aggregate_quantity =
             MapThenSumSet(LAMBDA s : order_at(st, s).remaining, Range(queue))

\* Every live order is in one of the lists, and in one only.
check_reachable(st) ==
  LET stops == walk(st, st.stop_head, "stop_next")
      queues == {walk(st, st.level[side][l].head, "next") : side \in Sides, l \in Levels}
  IN  /\ LiveSlots(st) = Range(stops) \cup UNION {Range(queue) : queue \in queues}
      /\ st.arena.size = Cardinality(LiveSlots(st))

check_invariants(st, trading_state) ==
  /\ \A side \in Sides : hierarchy_consistent(st.occupancy[side])
  /\ check_stops(st)
  /\ \A side \in Sides : check_side_invariants(st, side)
  /\ check_reachable(st)
  /\ trading_state = "continuous" =>
       \A bid \in best_index(st, "buy"), ask \in best_index(st, "sell") : bid < ask

=============================================================================
