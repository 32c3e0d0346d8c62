---------------------------- MODULE BookStorage ----------------------------
(***************************************************************************)
(* The storage of the order book at work: the updates the matching code    *)
(* makes to it, one action each, the handles that clients keep, and the    *)
(* snapshots taken between two calls.                                      *)
(*                                                                         *)
(* The guards are what the callers of the private updates have established *)
(* when they make them: a slot is free (RestHasSlot of OrderBook), an      *)
(* execution takes at most what the order displays, an order rests only    *)
(* where it does not cross.                                                *)
(***************************************************************************)
EXTENDS SnapshotCodec

CONSTANTS
  Traders,         \* trader ids; 0 is the id of calls that name none
  Triggers,        \* stop trigger prices
  QuantityRange,   \* 2^64
  Places,          \* where the clients rest orders: sides and levels
  Sizes,           \* what they rest: quantities and displayed quantities
  StopOrders       \* the stops they submit

VARIABLES
  store,     \* the book as it is stored
  active,    \* the slot of the stop being activated, or NoSlot
  retired    \* the generations that each slot last had and gave up

vars == <<store, active, retired>>

\* The slots start as if they had been used before: every generation but the
\* first is retired.
Init ==
  /\ store = EmptyStore
  /\ active = NoSlot
  /\ retired = [s \in Slots |-> [i \in 1 .. MaxGeneration - 1 |-> i + 1]]

\* Handles stay distinct for as long as generations do not repeat.
RetireReleased ==
  retired' = [s \in Slots |->
    IF store.arena.slot[s].live /\ ~store'.arena.slot[s].live
    THEN Tail(Append(retired[s], store.arena.slot[s].generation))
    ELSE retired[s]]

Update(st) == store' = st /\ RetireReleased

RestingSlots == {s \in LiveSlots(store) : ~dormant(order_at(store, s))}

-----------------------------------------------------------------------------
(* The updates.                                                            *)

\* Where an order of this side rests in continuous trading.
passive(side, level) ==
  IF side = "buy" THEN \A ask \in best_index(store, "sell") : level < ask
  ELSE \A bid \in best_index(store, "buy") : level > bid

submit_rest(trader, side, level, remaining, display) ==
  /\ active = NoSlot
  /\ store.arena.free_head # NoSlot
  /\ TradingState = "continuous" => passive(side, level)
  /\ Update(rest(store, trader, side, level, remaining, display))
  /\ UNCHANGED active

submit_stop(side, trigger, limit, quantity) ==
  /\ active = NoSlot
  /\ store.arena.free_head # NoSlot
  /\ Update(rest_stop(store, side, trigger, limit, quantity))
  /\ UNCHANGED active

execute_match(index, execution) ==
  /\ index \in RestingSlots
  /\ execution <= order_at(store, index).displayed
  /\ Update(reduce(store, index, execution))
  /\ UNCHANGED active

cancel(handle) ==
  /\ active = NoSlot
  /\ is_live_handle(store.arena, handle)
  /\ LET order == order_at(store, handle.index)
     IN  Update(IF dormant(order) THEN unlink_stop(store, handle.index)
                ELSE unlink(store, handle.index, order.remaining))
  /\ UNCHANGED active

amend_quantity(handle, quantity) ==
  /\ active = NoSlot
  /\ is_live_handle(store.arena, handle)
  /\ quantity \in 1 .. order_at(store, handle.index).remaining - 1
  /\ Update(amend(store, handle.index, quantity))
  /\ UNCHANGED active

\* activate_stop(): the stop leaves its list before it matches.
detach(index) ==
  /\ active = NoSlot
  /\ index \in LiveSlots(store) \ RestingSlots
  /\ Update(detach_stop(store, index))
  /\ active' = index

\* Its remainder rests in the stop's own slot, or the slot is released.
settle_stop(remaining) ==
  /\ active # NoSlot
  /\ LET order == order_at(store, active)
         side == decode_side(order.level_side)
     IN  /\ remaining \in 0 .. order.remaining
         /\ IF remaining # 0 /\ "stop_market" \notin order.flags
            THEN \E level \in index_of(order.limit) :
                   /\ TradingState = "continuous" => passive(side, level)
                   /\ Update(rest_existing(store, active, 0, side, level, remaining, remaining))
            ELSE Update(release_index(store, active))
  /\ active' = NoSlot

Quantities == 1 .. MaxQuantity

Next ==
  \/ \E trader \in Traders, place \in Places, size \in Sizes :
       submit_rest(trader, place.side, place.level, size.quantity, size.display)
  \/ \E stop \in StopOrders : submit_stop(stop.side, stop.trigger, stop.limit, stop.quantity)
  \/ \E index \in Slots, execution \in Quantities : execute_match(index, execution)
  \/ \E handle \in Handles : cancel(handle)
  \/ \E handle \in Handles, quantity \in Quantities : amend_quantity(handle, quantity)
  \/ \E index \in Slots : detach(index)
  \/ \E remaining \in 0 .. MaxQuantity : settle_stop(remaining)

Spec == Init /\ [][Next]_vars

-----------------------------------------------------------------------------
(* Properties.                                                             *)

\* The handle of a live order resolves to it, and no handle of an earlier order
\* of the slot does, as far back as generations are distinct.
HandlesIdentify ==
  \A s \in Slots :
    /\ s \in LiveSlots(store) => is_live_handle(store.arena, handle_at(store.arena, s))
    /\ \A g \in Range(retired[s]) :
         ~is_live_handle(store.arena, [index |-> s, generation |-> g])

\* The searches of the bitmap, which climb and descend its summaries, find what
\* a scan of the levels would.
SearchesExact ==
  \A side \in Sides :
    LET bitmap == store.occupancy[side]
        occupied == {l \in Levels : store.level[side][l].order_count # 0}
        least(levels) == {l \in levels : \A k \in levels : l <= k}
        greatest(levels) == {l \in levels : \A k \in levels : k <= l}
    IN  /\ first_set(bitmap) = least(occupied)
        /\ last_set(bitmap) = greatest(occupied)
        /\ \A l \in Levels :
             /\ next_set(bitmap, l) = least({k \in occupied : k >= l})
             /\ previous_set(bitmap, l) = greatest({k \in occupied : k <= l})

-----------------------------------------------------------------------------
(* The storage implements the book that OrderBook uses.                    *)

NoLevel == -1

AbstractOrder(st, index) ==
  LET order == order_at(st, index)
  IN  IF ~st.arena.slot[index].live
      THEN [kind |-> "free", side |-> "buy", level |-> NoLevel, remaining |-> 0,
            trader |-> 0, display |-> 0, displayed |-> 0, trigger |-> 0]
      ELSE [kind |-> IF dormant(order) THEN "stop" ELSE "resting",
            side |-> decode_side(order.level_side),
            level |-> IF ~dormant(order) THEN decode_level(order.level_side)
                      ELSE IF "stop_market" \in order.flags THEN NoLevel
                      ELSE CHOOSE l \in Levels : l \in index_of(order.limit),
            remaining |-> order.remaining,
            trader |-> order.trader,
            display |-> order.display,
            displayed |-> order.displayed,
            trigger |-> order.trigger]

AbstractBook(st) ==
  [orders |-> [s \in Slots |-> AbstractOrder(st, s)],
   queue |-> [side \in Sides |-> [l \in Levels |-> walk(st, st.level[side][l].head, "next")]],
   aggregate_quantity |-> [side \in Sides |-> [l \in Levels |->
                             st.level[side][l].aggregate_quantity]],
   occupancy |-> [side \in Sides |-> {l \in Levels : test(st.occupancy[side], l)}],
   stops |-> walk(st, st.stop_head, "stop_next")]

B == INSTANCE BookUpdates WITH book <- AbstractBook(store), InitialState <- TradingState,
                               Commands <- {}

\* Read head to tail, the linked lists are the sequences of BookOps: every
\* update of the links is the update of the sequences it stands for.  A match
\* is a reduction, which can leave the quantities of an amendment but not
\* always the same places.
ImplementsBook ==
  /\ B!Spec
  /\ [][\A index \in Slots, execution \in Quantities :
          execute_match(index, execution) =>
            B!Reduce(AbstractBook(store), AbstractBook(store'), index)]_vars

-----------------------------------------------------------------------------
(* Snapshots.                                                              *)

\* An engine that has applied commands, and one that has used up its sequence.
SomeCounters ==
  [next_sequence : 2 .. MaxSequence, exhausted : {FALSE},
   last_logical_time : {7}, last_execution_price : {{}, {MinimumPrice}}]
  \cup [next_sequence : {MaxSequence}, exhausted : {TRUE},
        last_logical_time : {7}, last_execution_price : {{}}]

PointOf(counters) ==
  [sequence |-> IF counters.exhausted THEN MaxSequence ELSE counters.next_sequence - 1,
   logical_time |-> counters.last_logical_time]

\* The image of an older version, and the books that one can hold.
as_version(version, content) ==
  [content EXCEPT
    !.version = version,
    !.slot = [s \in Slots |-> [@[s] EXCEPT
      !.order = [@ EXCEPT !.display = IF version < 3 THEN 0 ELSE @,
                          !.displayed = IF version < 3 THEN 0 ELSE @]]]]

expressible(version, content) ==
  \A s \in Slots :
    LET order == content.slot[s].order
    IN  /\ version < 4 => ~dormant(order) /\ content.counters.last_execution_price = {}
        /\ version < 3 => order.display = order.remaining /\ order.displayed = order.remaining
        /\ version < 2 => order.trader = 0 /\ SelfTradePolicy = "none"

\* Every image of one of the versions that can hold this state is accepted and gives the
\* state back.
restores(st, counters, versions) ==
  \E image \in encode(st, counters, PointOf(counters)) :
    \A version \in versions :
      expressible(version, image.content) =>
        decode(seal(as_version(version, image.content)))
          = {[store |-> st, counters |-> counters, point |-> PointOf(counters)]}

CountersRestored == \A counters \in SomeCounters : restores(EmptyStore, counters, 1 .. FormatVersion)

\* A snapshot can be taken of every state between two calls (check_invariants()
\* finds nothing), and loading it gives back that state: slots, generations,
\* links and free list as saved, and levels, aggregates, bitmaps and the stop
\* list's ends as rebuilt; older formats restore the states they can express.
SnapshotRestores ==
  active = NoSlot =>
    /\ restores(store, CHOOSE counters \in SomeCounters : counters.last_execution_price = {},
                {1, 2, 3, FormatVersion})
    /\ CountersRestored

\* Images with one link, end, flag or count changed and the checksum made good.
Damaged(content) ==
  LET indices == Slots \cup {NoSlot}
      with(s, field, value) == [content EXCEPT !.slot[s].order = [@ EXCEPT ![field] = value]]
  IN  {with(s, field, i) : s \in Slots, i \in indices,
                           field \in {"prev", "next", "stop_prev", "stop_next"}}
      \cup {with(s, "level_side", encode_level_side(l, side)) :
              s \in Slots, l \in {0, TickCount - 1}, side \in Sides}
      \cup {[content EXCEPT !.slot[s].free_next = i] : s \in Slots, i \in indices}
      \cup {[content EXCEPT !.slot[s].live = ~@] : s \in Slots}
      \cup {[content EXCEPT !.free_head = i] : i \in indices}
      \cup {[content EXCEPT !.live_count = n] : n \in 0 .. Cardinality(Slots)}

\* The free list holds every slot that is not live, once.
FreeListComplete(st) ==
  LET free == list([s \in Slots |-> st.arena.slot[s].free_next], st.arena.free_head)
  IN  /\ IsInjective(free)
      /\ Range(free) = Slots \ LiveSlots(st)

\* The sequences of a store hold its orders: the consistency of links that
\* OrderBook's proofs establish, and a complete free list.
IsBook(st) ==
  LET book == AbstractBook(st)
  IN  /\ \A side \in Sides, l \in Levels : B!QueueLinked(book, side, l)
      /\ B!StopsLinked(book, NoSlot)
      /\ FreeListComplete(st)

\* Whatever decode() accepts is a book: a damaged image whose checksum fits is
\* refused, or describes another sound book.  Generations play no part, so the
\* states where all are 1 stand for the others.
DecodeAcceptsOnlyBooks ==
  active = NoSlot /\ (\A s \in Slots : store.arena.slot[s].generation = 1) =>
    \A counters \in SomeCounters :
      counters.last_execution_price = {} /\ ~counters.exhausted =>
        \A image \in encode(store, counters, PointOf(counters)) :
          \A content \in Damaged(image.content) \ {image.content} :
            \A restored \in decode(seal(content)) : IsBook(restored.store)

=============================================================================
