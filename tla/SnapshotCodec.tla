--------------------------- MODULE SnapshotCodec ---------------------------
(***************************************************************************)
(* encode() and decode() of src/src/snapshot.cpp: an engine's state to the *)
(* image of a snapshot and back.  The image holds the arena slot by slot;  *)
(* the levels, the occupancy, the aggregates and the stop list's ends are  *)
(* not in it: decode() rebuilds them while it validates the slots.         *)
(*                                                                         *)
(* An image is a record of its fields; offsets, widths and byte order are  *)
(* left out.  The checksum is taken to tell any two images apart.  A       *)
(* std::expected is a set of at most one result: which error a refused     *)
(* image gets is left out.                                                 *)
(***************************************************************************)
EXTENDS StorageOps

CONSTANTS
  MaxQuantity,      \* max_order_quantity_
  MaxSequence,      \* the largest 64-bit sequence
  SelfTradePolicy,  \* "none" or "cancel_taker"
  AllocationMode,   \* "fifo" or "threshold_pro_rata"
  ProRataMinimum,   \* pro_rata_minimum_, 0 under "fifo"
  TradingState      \* "continuous" or "opening_auction"

FormatVersion == 6

ZeroOrder == [remaining |-> 0, prev |-> 0, next |-> 0, level_side |-> 0, flags |-> {},
              trader |-> 0, display |-> 0, displayed |-> 0, trigger |-> 0, limit |-> 0,
              stop_prev |-> 0, stop_next |-> 0]

snapshot_crc(content) == content

seal(content) == [content |-> content, checksum |-> snapshot_crc(content)]

\* The counters are what the engine holds beside the book: its next sequence, the
\* time of its last command and the last execution price, {} when there was none.
\* point is the sequence and the time the caller names as the snapshot's: the
\* last command applied, or the last sequence there is.
point_agrees(counters, point) ==
  /\ point.logical_time = counters.last_logical_time
  /\ IF counters.exhausted
     THEN point.sequence = MaxSequence /\ counters.next_sequence = MaxSequence
     ELSE point.sequence # MaxSequence /\ counters.next_sequence = point.sequence + 1

encode(st, counters, point) ==
  IF ~check_invariants(st, TradingState) \/ ~point_agrees(counters, point) THEN {}
  ELSE {seal([version |-> FormatVersion,
              self_trade_policy |-> SelfTradePolicy,
              tick_count |-> TickCount,
              max_quantity |-> MaxQuantity,
              capacity |-> Cardinality(Slots),
              live_count |-> st.arena.size,
              free_head |-> st.arena.free_head,
              counters |-> counters,
              point |-> point,
              allocation_mode |-> AllocationMode,
              pro_rata_minimum |-> ProRataMinimum,
              trading_state |-> TradingState,
              slot |-> [s \in Slots |->
                          [st.arena.slot[s] EXCEPT !.order = IF st.arena.slot[s].live
                                                             THEN @ ELSE ZeroOrder]]])}

-----------------------------------------------------------------------------
(* Decoding.  Versions 1 to 5 lack the fields that later ones added.       *)

\* The fields an image of an older version does not have, as decode() sets them.
header_defaults(c) ==
  [c EXCEPT !.allocation_mode = IF c.version < 5 THEN "fifo" ELSE @,
            !.pro_rata_minimum = IF c.version < 5 THEN 0 ELSE @,
            !.trading_state = IF c.version < 6 THEN "continuous" ELSE @]

\* Mutant of order_defaults: version 2 is taken to have the display.
order_defaults_early(version, order) ==
  LET stops == [order EXCEPT !.trigger = IF version < 4 THEN 0 ELSE @,
                             !.limit = IF version < 4 THEN 0 ELSE @,
                             !.stop_prev = IF version < 4 THEN 0 ELSE @,
                             !.stop_next = IF version < 4 THEN 0 ELSE @]
  IN  [stops EXCEPT !.trader = IF version = 1 THEN 0 ELSE @,
                    !.display = IF version < 2 THEN order.remaining ELSE @,
                    !.displayed = IF version < 2 THEN order.remaining ELSE @]

order_defaults(version, order) ==
  LET stops == [order EXCEPT !.trigger = IF version < 4 THEN 0 ELSE @,
                             !.limit = IF version < 4 THEN 0 ELSE @,
                             !.stop_prev = IF version < 4 THEN 0 ELSE @,
                             !.stop_next = IF version < 4 THEN 0 ELSE @]
  IN  [stops EXCEPT !.trader = IF version = 1 THEN 0 ELSE @,
                    !.display = IF version < 3 THEN order.remaining ELSE @,
                    !.displayed = IF version < 3 THEN order.remaining ELSE @]

header_valid(c) ==
  /\ c.version \in 1 .. FormatVersion
  /\ c.version = 1 => c.self_trade_policy = "none"
  /\ c.version < 4 => c.counters.last_execution_price = {}
  /\ c.tick_count # 0
  /\ c.live_count <= c.capacity
  /\ c.max_quantity # 0
  /\ IF c.allocation_mode = "fifo" THEN c.pro_rata_minimum = 0
     ELSE c.pro_rata_minimum \in 1 .. c.max_quantity
  /\ c.counters.next_sequence # 0
  /\ point_agrees(c.counters, c.point)

IndexOrNone(c) == 0 .. c.capacity - 1 \cup {NoSlot}

dormant_valid(c, order) ==
  /\ c.version >= 4
  /\ order.remaining \in 1 .. c.max_quantity
  /\ order.prev = NoSlot /\ order.next = NoSlot
  /\ decode_level(order.level_side) = 0
  /\ order.trader = 0 /\ order.display = 0 /\ order.displayed = 0
  /\ "stop_market" \in order.flags => order.limit = 0
  /\ {order.stop_prev, order.stop_next} \subseteq IndexOrNone(c)

resting_valid(c, order) ==
  /\ order.remaining \in 1 .. c.max_quantity
  /\ order.displayed \in 1 .. Min({order.display, order.remaining})
  /\ decode_level(order.level_side) < c.tick_count
  /\ order.flags = {}
  /\ order.trigger = 0 /\ order.limit = 0 /\ order.stop_prev = 0 /\ order.stop_next = 0
  /\ {order.prev, order.next} \subseteq IndexOrNone(c)

slot_valid(c, slot) ==
  /\ slot.generation # 0
  /\ IF ~slot.live THEN slot.order = ZeroOrder
     ELSE LET order == order_defaults(c.version, slot.order)
          IN  IF dormant(order) THEN dormant_valid(c, order) ELSE resting_valid(c, order)

\* The ends of a list: its slots that have no neighbour on that side.  Two of
\* them refuse the image.
ends(members, neighbour) == {s \in members : neighbour[s] = NoSlot}
end_of(slots) == IF slots = {} THEN NoSlot ELSE CHOOSE s \in slots : TRUE

\* Mutant of free_list_valid: the list may pass a slot twice or miss one.
free_list_unchecked(c) ==
  LET free == list([s \in Slots |-> c.slot[s].free_next], c.free_head)
  IN  \A s \in Range(free) : s \in Slots /\ ~c.slot[s].live

free_list_valid(c) ==
  LET free == list([s \in Slots |-> c.slot[s].free_next], c.free_head)
  IN  /\ \A s \in Range(free) : s \in Slots /\ ~c.slot[s].live
      /\ IsInjective(free)
      /\ Len(free) = c.capacity - c.live_count

\* The store the slots of an image describe.
rebuild(c) ==
  LET order == [s \in Slots |-> order_defaults(c.version, c.slot[s].order)]
      live == {s \in Slots : c.slot[s].live}
      stops == {s \in live : dormant(order[s])}
      at(side, l) == {s \in live \ stops : order[s].level_side = encode_level_side(l, side)}
      stop_heads == ends(stops, [s \in Slots |-> order[s].stop_prev])
      stop_tails == ends(stops, [s \in Slots |-> order[s].stop_next])
      heads(side, l) == ends(at(side, l), [s \in Slots |-> order[s].prev])
      tails(side, l) == ends(at(side, l), [s \in Slots |-> order[s].next])
      occupied(side) == {l \in Levels : at(side, l) # {}}
      single(slots) == Cardinality(slots) <= 1
  IN  {st \in {[arena |-> [slot |-> [s \in Slots |->
                                       [c.slot[s] EXCEPT !.order = IF c.slot[s].live
                                                                   THEN order[s] ELSE Forgotten]],
                           free_head |-> c.free_head,
                           size |-> c.live_count],
                level |-> [side \in Sides |-> [l \in Levels |->
                            [head |-> end_of(heads(side, l)),
                             tail |-> end_of(tails(side, l)),
                             aggregate_quantity |->
                               MapThenSumSet(LAMBDA s : order[s].remaining, at(side, l)),
                             order_count |-> Cardinality(at(side, l))]]],
                occupancy |-> [side \in Sides |->
                                FoldSet(LAMBDA l, bitmap : set(bitmap, l), EmptyBitmap,
                                        occupied(side))],
                stop_head |-> end_of(stop_heads),
                stop_tail |-> end_of(stop_tails),
                dormant_stop_count |-> Cardinality(stops)]} :
         /\ single(stop_heads) /\ single(stop_tails)
         /\ \A side \in Sides, l \in Levels : single(heads(side, l)) /\ single(tails(side, l))
         /\ Cardinality(live) = c.live_count}

decode(image) ==
  LET c == header_defaults(image.content)
  IN  IF \/ image.checksum # snapshot_crc(image.content)
         \/ ~header_valid(c)
         \/ \E s \in Slots : ~slot_valid(c, c.slot[s])
      THEN {}
      ELSE {[store |-> st, counters |-> c.counters, point |-> c.point] :
              st \in {st \in rebuild(c) : /\ free_list_valid(c)
                                          /\ check_invariants(st, c.trading_state)}}

=============================================================================
