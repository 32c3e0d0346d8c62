----------------------------- MODULE OrderBook -----------------------------
(***************************************************************************)
(* The central limit order book of src/src/order_book.cpp: limit, post-    *)
(* only, iceberg, market, stop and stop-limit submissions, cancel, amend,  *)
(* replace and the opening auction.                                        *)
(*                                                                         *)
(* A call is a sequence of steps: the handler's action admits or rejects   *)
(* it, then "phase" walks through the loops of the handler (match, the two *)
(* allocation passes, settling the remainder, the stop cascade) one        *)
(* iteration per step.  The book is single-threaded: a new call starts     *)
(* only when the phase is idle.                                            *)
(*                                                                         *)
(* The caller's trade span always has the required_trade_capacity, as      *)
(* SequencedEngine's does.                                                 *)
(***************************************************************************)
EXTENDS BookOps

VARIABLES
  book,                  \* what check_invariants ranges over, see Book
  last_execution_price,  \* last_execution_price_, NoLevel before the first trade
  trading_state,
  phase,                 \* the loop the running call is in
  taker,                 \* the order being matched: locals of match()
  pass,                  \* locals of match_level
  auction,               \* locals of uncross_opening_auction()
  trades,                \* the reports written to the caller's trade span
  reports,               \* slot -> index of its report in this match(), or 0
  activations,           \* stop_activation_count_
  event_capacity         \* what SequencedEngine reserved for this command

vars == <<book, last_execution_price, trading_state, phase, taker, pass,
          auction, trades, reports, activations, event_capacity>>

callVars == <<taker, pass, auction, trades, reports, activations, event_capacity>>

-----------------------------------------------------------------------------
(* The locals of a call.                                                   *)

Taker == [slot : Slots \cup {NoSlot},   \* the activated stop, NoSlot for a submission
          side : Sides,
          limit : Levels \cup {NoLevel},
          remaining : Quantity,
          trader : Traders,
          tif : TimeInForce,
          display : Quantity]

NoTaker == [slot |-> NoSlot, side |-> "buy", limit |-> NoLevel, remaining |-> 0,
            trader |-> 0, tif |-> "ioc", display |-> 0]

Pass == [level : Levels \cup {NoLevel},
         total : Nat,                   \* total_displayed
         quantity : Quantity,           \* pro_rata_quantity
         cursor : Slots \cup {NoSlot},
         end : Slots \cup {NoSlot}]     \* end_index

NoPass == [level |-> NoLevel, total |-> 0, quantity |-> 0,
           cursor |-> NoSlot, end |-> NoSlot]

Auction == [level : Nat,                      \* level_index of the running loop
            eligible_bids : Quantity,
            eligible_asks : Quantity,
            clearing_level : Levels \cup {NoLevel},
            maximum_executable : Quantity,
            minimum_imbalance : Quantity,
            remaining : Quantity]

NoAuction == [level |-> 0, eligible_bids |-> 0, eligible_asks |-> 0,
              clearing_level |-> NoLevel, maximum_executable |-> 0,
              minimum_imbalance |-> QuantityRange - 1, remaining |-> 0]

\* submit_limit rests its whole remainder in the open.
Uncapped == QuantityRange - 1

NoReports == [s \in Slots |-> 0]

stop_is_triggered(side, trigger) ==
  /\ last_execution_price # NoLevel
  /\ crosses(side, trigger, last_execution_price)

-----------------------------------------------------------------------------
(* Admission: preflight(), and the preflight of each kind of call.         *)

preflight(quantity) == quantity \in 1 .. MaxQuantity

\* Mutant of preflight_limit: without the check of the arena.
preflight_limit_no_capacity(b, side, price, quantity, tif) ==
  /\ preflight(quantity)
  /\ price \in Levels
  /\ tif = "fok" => can_fully_fill(b, side, price, quantity)

preflight_limit(b, side, price, quantity, tif) ==
  /\ preflight(quantity)
  /\ price \in Levels
  /\ trading_state = "opening_auction" => tif = "gtc"
  /\ tif = "fok" => can_fully_fill(b, side, price, quantity)
  /\ tif = "gtc" /\ FreeSlots(b) = {} =>
       trading_state = "continuous" /\ has_crossing_order(b, side, price)

preflight_post_only(b, side, price, quantity) ==
  /\ trading_state = "continuous"
  /\ preflight(quantity)
  /\ price \in Levels
  /\ ~has_crossing_order(b, side, price)
  /\ FreeSlots(b) # {}

preflight_market(quantity) == trading_state = "continuous" /\ preflight(quantity)

preflight_stop(b, limit, quantity) ==
  /\ trading_state = "continuous"
  /\ preflight(quantity)
  /\ limit \in Levels \cup {NoLevel}
  /\ FreeSlots(b) # {}

preflight_replace(b, slot, price, quantity) ==
  /\ b.orders[slot].kind = "resting"
  /\ preflight(quantity)
  /\ price \in Levels

\* Mutant of matching_capacity: no room for the activations.
matching_capacity_no_stops(b) == Cardinality(Slots) + 1

\* SequencedEngine::required_event_capacity of a call that matches.
matching_capacity(b) == Cardinality(Slots) + 1 + DormantStops(b)

-----------------------------------------------------------------------------
(* Calls: the part before the loops.                                       *)

Rejected == UNCHANGED vars

\* match() starts: a new report epoch, so that no maker has a report yet.
StartMatch(order) == taker' = order /\ reports' = NoReports

submit_limit(side, price, quantity, tif, trader) ==
  /\ phase = "idle"
  /\ IF \/ ~preflight_limit(book, side, price, quantity, tif)
        \/ self_trade_prevented(book, trader, side, price)
     THEN Rejected
     ELSE /\ StartMatch([slot |-> NoSlot, side |-> side, limit |-> price,
                         remaining |-> quantity, trader |-> trader, tif |-> tif,
                         display |-> Uncapped])
          /\ phase' = IF trading_state = "continuous" THEN "match" ELSE "settle"
          /\ event_capacity' = matching_capacity(book)
          /\ UNCHANGED <<book, last_execution_price, auction, trading_state, pass, trades,
                         activations>>

submit_post_only(side, price, quantity) ==
  /\ phase = "idle"
  /\ IF preflight_post_only(book, side, price, quantity)
     THEN submit_limit(side, price, quantity, "gtc", 0)
     ELSE Rejected

submit_iceberg(side, price, quantity, display, trader) ==
  /\ phase = "idle"
  /\ IF \/ trading_state = "opening_auction"
        \/ display \notin 1 .. quantity
        \/ ~preflight_limit(book, side, price, quantity, "gtc")
        \/ self_trade_prevented(book, trader, side, price)
     THEN Rejected
     ELSE /\ StartMatch([slot |-> NoSlot, side |-> side, limit |-> price,
                         remaining |-> quantity, trader |-> trader, tif |-> "gtc",
                         display |-> display])
          /\ phase' = "match"
          /\ event_capacity' = matching_capacity(book)
          /\ UNCHANGED <<book, last_execution_price, auction, trading_state, pass, trades,
                         activations>>

submit_market(side, quantity) ==
  /\ phase = "idle"
  /\ IF ~preflight_market(quantity)
     THEN Rejected
     ELSE /\ StartMatch([NoTaker EXCEPT !.side = side, !.remaining = quantity])
          /\ phase' = "match"
          /\ event_capacity' = matching_capacity(book)
          /\ UNCHANGED <<book, last_execution_price, auction, trading_state, pass, trades,
                         activations>>

\* A stop as a taker; what is left of a stop-limit order rests.
StopTaker(b, slot) ==
  LET stop == b.orders[slot]
  IN  [slot |-> slot, side |-> stop.side, limit |-> stop.level,
       remaining |-> stop.remaining, trader |-> 0,
       tif |-> IF stop.level = NoLevel THEN "ioc" ELSE "gtc", display |-> Uncapped]

\* Mutant of activate_stop: a triggered stop-limit rests without being matched.
activate_stop_unmatched(b, slot) ==
  /\ book' = detach_stop(b, slot)
  /\ StartMatch(StopTaker(b, slot))
  /\ phase' = "settle"

\* activate_stop() up to its call of match().
activate_stop(b, slot) ==
  /\ book' = detach_stop(b, slot)
  /\ StartMatch(StopTaker(b, slot))
  /\ phase' = "match"

\* submit_stop() and submit_stop_limit(): a stop the last execution already
\* triggers is activated at once.
submit_stop(side, trigger, limit, quantity) ==
  /\ phase = "idle"
  /\ IF ~preflight_stop(book, limit, quantity)
     THEN Rejected
     ELSE \E slot \in FreeSlots(book) :
            LET b == rest_stop(book, slot, side, trigger, limit, quantity)
            IN  IF stop_is_triggered(side, trigger)
                THEN /\ activate_stop(b, slot)
                     /\ event_capacity' = matching_capacity(book) + 1
                     /\ UNCHANGED <<last_execution_price, auction, trading_state, pass, trades,
                                    activations>>
                ELSE /\ book' = b
                     /\ UNCHANGED <<last_execution_price, trading_state, phase, callVars>>

cancel(slot) ==
  /\ phase = "idle"
  /\ book' = CASE book.orders[slot].kind = "free" -> book
               [] book.orders[slot].kind = "stop" -> unlink_stop(book, slot)
               [] book.orders[slot].kind = "resting" ->
                    unlink(book, slot, book.orders[slot].remaining)
  /\ UNCHANGED <<last_execution_price, trading_state, phase, callVars>>

amend_quantity(slot, quantity) ==
  LET order == book.orders[slot]
  IN  /\ phase = "idle"
      /\ IF order.kind = "free" \/ ~preflight(quantity) \/ quantity >= order.remaining
         THEN Rejected
         ELSE /\ book' = amend(book, slot, quantity)
              /\ UNCHANGED <<last_execution_price, trading_state, phase, callVars>>

\* The order is unlinked first; submit_limit() then works on what is left, with
\* the trader id 0, and may still reject.
replace(slot, price, quantity) ==
  /\ phase = "idle"
  /\ IF ~preflight_replace(book, slot, price, quantity)
     THEN Rejected
     ELSE LET order == book.orders[slot]
              b == unlink(book, slot, order.remaining)
          IN  /\ book' = b
              /\ IF \/ ~preflight_limit(b, order.side, price, quantity, "gtc")
                    \/ self_trade_prevented(b, 0, order.side, price)
                 THEN UNCHANGED <<last_execution_price, trading_state, phase, callVars>>
                 ELSE /\ StartMatch([slot |-> NoSlot, side |-> order.side, limit |-> price,
                                     remaining |-> quantity, trader |-> 0, tif |-> "gtc",
                                     display |-> Uncapped])
                      /\ phase' = IF trading_state = "continuous" THEN "match" ELSE "settle"
                      /\ event_capacity' = Cardinality(Slots) + DormantStops(book)
                      /\ UNCHANGED <<last_execution_price, auction, trading_state, pass, trades,
                                     activations>>

-----------------------------------------------------------------------------
(* The loops: match() and the two allocation passes over a level.          *)

MakerSide == opposite_side(taker.side)
LevelQueue == book.queue[MakerSide][pass.level]

\* Mutant of protected: no order is.
protected_none(slot) == FALSE

protected(slot) ==
  SelfTradePolicy = "cancel_taker" /\ book.orders[slot].trader = taker.trader

next_index(queue, slot) ==
  LET i == SelectInSeq(queue, LAMBDA s : s = slot)
  IN  IF i \in 1 .. Len(queue) - 1 THEN queue[i + 1] ELSE NoSlot

\* One iteration of match(): leave the loop, or enter the best level.
match ==
  /\ phase = "match"
  /\ LET reachable == {l \in best_index(book, MakerSide) :
                         taker.limit = NoLevel \/ crosses(taker.side, l, taker.limit)}
     IN  \/ /\ taker.remaining = 0 \/ reachable = {}
            /\ phase' = "settle"
            /\ UNCHANGED pass
         \/ /\ taker.remaining # 0
            /\ \E level \in reachable :
                 /\ pass' = [NoPass EXCEPT
                               !.level = level,
                               !.cursor = Head(book.queue[MakerSide][level])]
                 /\ phase' = IF AllocationMode = "threshold_pro_rata"
                             THEN "tally" ELSE "fifo"
  /\ UNCHANGED <<book, last_execution_price, auction, trading_state, taker, trades, reports,
                 activations, event_capacity>>

\* Mutant of report: a second execution overwrites the report.
report_overwrites(maker, execution) ==
  IF reports[maker] # 0
  THEN /\ trades' = [trades EXCEPT ![reports[maker]].quantity = execution]
       /\ UNCHANGED reports
  ELSE /\ trades' = Append(trades, [maker |-> maker, quantity |-> execution])
       /\ reports' = [reports EXCEPT ![maker] = Len(trades) + 1]

\* A maker has one report per match(): later executions add to it.
report(maker, execution) ==
  IF reports[maker] # 0
  THEN /\ trades' = [trades EXCEPT ![reports[maker]].quantity = plus(@, execution)]
       /\ UNCHANGED reports
  ELSE /\ trades' = Append(trades, [maker |-> maker, quantity |-> execution])
       /\ reports' = [reports EXCEPT ![maker] = Len(trades) + 1]

execute_match(maker, execution) ==
  /\ report(maker, execution)
  /\ last_execution_price' = pass.level
  /\ taker' = [taker EXCEPT !.remaining = minus(@, execution)]
  /\ book' = reduce(book, maker, execution)
  /\ UNCHANGED <<trading_state, auction, activations, event_capacity>>

\* The first loop of match_level_threshold_pro_rata: the pass will cover the
\* queue up to the first protected order.
tally_displayed ==
  /\ phase = "tally"
  /\ \/ /\ pass.cursor = NoSlot \/ (pass.cursor # NoSlot /\ protected(pass.cursor))
        /\ pass' = [pass EXCEPT !.end = pass.cursor,
                                !.cursor = Head(LevelQueue),
                                !.quantity = taker.remaining]
        /\ phase' = IF pass.total = 0 THEN "fifo" ELSE "pro_rata"
     \/ /\ pass.cursor # NoSlot
        /\ ~protected(pass.cursor)
        /\ pass' = [pass EXCEPT !.total = @ + book.orders[pass.cursor].displayed,
                                !.cursor = next_index(LevelQueue, pass.cursor)]
        /\ UNCHANGED phase
  /\ UNCHANGED <<book, last_execution_price, trading_state, taker, auction, trades, reports,
                 activations, event_capacity>>

\* Mutant of pro_rata_share: it rounds up.
pro_rata_share_up(maker) ==
  LET displayed == book.orders[maker].displayed
  IN  Min({(displayed * pass.quantity + pass.total - 1) \div pass.total, displayed})

pro_rata_share(maker) ==
  LET displayed == book.orders[maker].displayed
      execution == Min({(displayed * pass.quantity) \div pass.total, displayed})
  IN  IF execution < ProRataMinimum THEN 0 ELSE execution

match_level_threshold_pro_rata ==
  /\ phase = "pro_rata"
  /\ \/ /\ pass.cursor \in {pass.end, NoSlot} \/ taker.remaining = 0
        /\ phase' = "fifo"
        /\ UNCHANGED <<book, last_execution_price, auction, trading_state, taker, pass, trades,
                       reports, activations, event_capacity>>
     \/ /\ pass.cursor \notin {pass.end, NoSlot} /\ taker.remaining # 0
        /\ pass' = [pass EXCEPT !.cursor = next_index(LevelQueue, pass.cursor)]
        /\ UNCHANGED phase
        /\ IF pro_rata_share(pass.cursor) # 0
           THEN execute_match(pass.cursor, pro_rata_share(pass.cursor))
           ELSE UNCHANGED <<book, last_execution_price, auction, trading_state, taker, trades,
                            reports, activations, event_capacity>>

fifo_execution(maker) == Min({taker.remaining, book.orders[maker].displayed})

match_level_fifo ==
  /\ phase = "fifo"
  /\ \/ /\ \/ taker.remaining = 0
           \/ LevelQueue = <<>>
           \/ LevelQueue # <<>> /\ protected(Head(LevelQueue))
        /\ phase' = "match"
        /\ pass' = NoPass
        /\ UNCHANGED <<book, last_execution_price, auction, trading_state, taker, trades,
                       reports, activations, event_capacity>>
     \/ /\ taker.remaining # 0
        /\ LevelQueue # <<>>
        /\ LET maker == Head(LevelQueue)
           IN  /\ ~protected(maker)
               /\ execute_match(maker, fifo_execution(maker))
        /\ UNCHANGED <<phase, pass>>

-----------------------------------------------------------------------------
(* After match(): the remainder, the stop cascade and the end of the call. *)

\* A submission rests its remainder in a fresh slot.
settle_submission ==
  /\ phase = "settle" /\ taker.slot = NoSlot
  /\ IF taker.tif = "gtc" /\ taker.remaining # 0
     THEN \E slot \in FreeSlots(book) :
            book' = rest(book, slot, taker.trader, taker.side, taker.limit,
                         taker.remaining, Min({taker.display, taker.remaining}))
     ELSE UNCHANGED book
  /\ phase' = "stops"
  /\ taker' = NoTaker
  /\ UNCHANGED <<last_execution_price, auction, trading_state, pass, trades, reports, activations,
                 event_capacity>>

\* The end of activate_stop(): a stop-limit rests its remainder in its own slot.
settle_stop ==
  /\ phase = "settle" /\ taker.slot # NoSlot
  /\ book' = IF taker.tif = "gtc" /\ taker.remaining # 0
             THEN rest(book, taker.slot, 0, taker.side, taker.limit,
                       taker.remaining, taker.remaining)
             ELSE [book EXCEPT !.orders[taker.slot] = FreeSlot]
  /\ activations' = activations + 1
  /\ phase' = "stops"
  /\ taker' = NoTaker
  /\ UNCHANGED <<last_execution_price, auction, trading_state, pass, trades, reports, event_capacity>>

EndCall ==
  /\ phase' = "idle"
  /\ trades' = <<>>
  /\ reports' = NoReports
  /\ activations' = 0
  /\ event_capacity' = 0

\* Mutant of first_triggered: a trade at the trigger price itself does not count.
first_triggered_strict ==
  SelectInSeq(book.stops, LAMBDA slot : /\ stop_is_triggered(book.orders[slot].side,
                                                             book.orders[slot].trigger)
                                        /\ book.orders[slot].trigger # last_execution_price)

\* The position of the first triggered stop in list order, or 0.
first_triggered ==
  SelectInSeq(book.stops, LAMBDA slot : stop_is_triggered(book.orders[slot].side,
                                                          book.orders[slot].trigger))

\* One iteration of trigger_stops(): activate a stop, or return to the caller.
trigger_stops ==
  /\ phase = "stops"
  /\ \/ /\ first_triggered # 0
        /\ activate_stop(book, book.stops[first_triggered])
        /\ UNCHANGED <<trades, activations, event_capacity>>
     \/ /\ first_triggered = 0
        /\ EndCall
        /\ UNCHANGED <<book, taker>>
  /\ UNCHANGED <<last_execution_price, auction, trading_state, pass>>

-----------------------------------------------------------------------------
(* The opening auction.                                                    *)

Distance(i, j) == IF i > j THEN i - j ELSE j - i

\* Mutant of CrossedRange: a locked book does not count as crossed.
CrossedRange_strict(b) ==
  {range \in best_index(b, "sell") \X best_index(b, "buy") : range[1] < range[2]}

\* The best levels, when the book is crossed or locked.
CrossedRange(b) ==
  {range \in best_index(b, "sell") \X best_index(b, "buy") : range[1] <= range[2]}

uncross_opening_auction ==
  /\ phase = "idle"
  /\ IF trading_state # "opening_auction"
     THEN Rejected
     ELSE \/ /\ CrossedRange(book) = {}
             /\ trading_state' = "continuous"
             /\ UNCHANGED <<book, last_execution_price, phase, callVars>>
          \/ /\ \E range \in CrossedRange(book) :
                  auction' = [NoAuction EXCEPT !.level = range[1]]
             /\ phase' = "auction_bids"
             /\ event_capacity' = Cardinality(Slots) + 1
             /\ UNCHANGED <<book, last_execution_price, trading_state, taker, pass, trades,
                            reports, activations>>

\* The bids of the crossed range.
sum_eligible_bids ==
  /\ phase = "auction_bids"
  /\ \E range \in CrossedRange(book) :
       IF auction.level <= range[2]
       THEN /\ auction' = [auction EXCEPT
                            !.level = @ + 1,
                            !.eligible_bids =
                               plus(@, book.aggregate_quantity["buy"][auction.level])]
            /\ UNCHANGED phase
       ELSE /\ auction' = [auction EXCEPT !.level = range[1]]
            /\ phase' = "auction_scan"
  /\ UNCHANGED <<book, last_execution_price, trading_state, taker, pass, trades, reports,
                 activations, event_capacity>>

\* Mutant of better_clearing: any level with as much executable is better.
better_clearing_last(level, executable, imbalance, reference) ==
  executable >= auction.maximum_executable

\* Is this level better than the best one so far: more executable, then less
\* imbalance, then nearer to the middle of the range, then higher?
better_clearing(level, executable, imbalance, reference) ==
  \/ executable > auction.maximum_executable
  \/ /\ executable = auction.maximum_executable
     /\ \/ imbalance < auction.minimum_imbalance
        \/ /\ imbalance = auction.minimum_imbalance
           /\ \/ auction.clearing_level = NoLevel
              \/ Distance(level, reference) < Distance(auction.clearing_level, reference)
              \/ /\ Distance(level, reference) = Distance(auction.clearing_level, reference)
                 /\ level > auction.clearing_level

\* The quantities that would trade at the scanned level, and the bids above it.
asks_at(level) == plus(auction.eligible_asks, book.aggregate_quantity["sell"][level])
bids_above(level) == minus(auction.eligible_bids, book.aggregate_quantity["buy"][level])

\* One level of the scan for the clearing price, from the best ask up; after
\* the last one continuous trading starts, whether or not anything executes.
scan_clearing_level ==
  /\ phase = "auction_scan"
  /\ \E range \in CrossedRange(book) :
       IF auction.level <= range[2]
       THEN LET level == auction.level
                bids == auction.eligible_bids
                asks == asks_at(level)
                executable == Min({bids, asks})
                imbalance == Distance(bids, asks)
                reference == range[1] + ((range[2] - range[1]) \div 2)
                better == better_clearing(level, executable, imbalance, reference)
            IN  /\ auction' =
                     [auction EXCEPT
                       !.level = @ + 1,
                       !.eligible_bids = bids_above(level),
                       !.eligible_asks = asks,
                       !.clearing_level = IF better THEN level ELSE @,
                       !.maximum_executable = IF better THEN executable ELSE @,
                       !.minimum_imbalance = IF better THEN imbalance ELSE @]
                /\ UNCHANGED <<trading_state, phase>>
       ELSE /\ trading_state' = "continuous"
            /\ auction' = [auction EXCEPT !.remaining = auction.maximum_executable]
            /\ phase' = "auction_match"
  /\ UNCHANGED <<book, last_execution_price, taker, pass, trades, reports, activations,
                 event_capacity>>

\* One pair of the auction: the heads of the best levels trade at the clearing
\* price; the last iteration records that price.  Stops are not triggered.
execute_auction_match ==
  /\ phase = "auction_match"
  /\ LET clearing == auction.clearing_level
         pairs == {range \in CrossedRange(book) : range[1] <= clearing /\ clearing <= range[2]}
     IN  \/ /\ auction.remaining = 0 \/ pairs = {}
            /\ last_execution_price' = IF auction.maximum_executable = 0
                                       THEN last_execution_price ELSE clearing
            /\ EndCall
            /\ auction' = NoAuction
            /\ UNCHANGED book
         \/ /\ auction.remaining # 0
            /\ \E range \in pairs :
                 LET ask == Head(book.queue["sell"][range[1]])
                     bid == Head(book.queue["buy"][range[2]])
                     execution == Min({auction.remaining, book.orders[bid].displayed,
                                       book.orders[ask].displayed})
                 IN  /\ trades' = Append(trades, [maker |-> bid, quantity |-> execution])
                     /\ book' = reduce(reduce(book, bid, execution), ask, execution)
                     /\ auction' = [auction EXCEPT !.remaining = minus(@, execution)]
            /\ UNCHANGED <<last_execution_price, phase, reports, activations, event_capacity>>
  /\ UNCHANGED <<trading_state, taker, pass>>

-----------------------------------------------------------------------------
(* The specification.                                                      *)

Init ==
  /\ book = [orders |-> [s \in Slots |-> FreeSlot],
             queue |-> [side \in Sides |-> [l \in Levels |-> <<>>]],
             aggregate_quantity |-> [side \in Sides |-> [l \in Levels |-> 0]],
             occupancy |-> [side \in Sides |-> {}],
             stops |-> <<>>]
  /\ last_execution_price = NoLevel
  /\ trading_state = InitialState
  /\ phase = "idle"
  /\ taker = NoTaker
  /\ pass = NoPass
  /\ auction = NoAuction
  /\ trades = <<>>
  /\ reports = NoReports
  /\ activations = 0
  /\ event_capacity = 0

\* Inputs reach one past every limit the code checks.
InputQuantities == 0 .. MaxQuantity + 1
InputPrices == 0 .. TickCount

Call ==
  \/ /\ "limit" \in Commands
     /\ \E side \in Sides, price \in InputPrices, quantity \in InputQuantities,
           tif \in TimeInForce, trader \in Traders :
          submit_limit(side, price, quantity, tif, trader)
  \/ /\ "post_only" \in Commands
     /\ \E side \in Sides, price \in InputPrices, quantity \in InputQuantities :
          submit_post_only(side, price, quantity)
  \/ /\ "iceberg" \in Commands
     /\ \E side \in Sides, price \in InputPrices, quantity \in InputQuantities,
           display \in InputQuantities, trader \in Traders :
          submit_iceberg(side, price, quantity, display, trader)
  \/ /\ "market" \in Commands
     /\ \E side \in Sides, quantity \in InputQuantities : submit_market(side, quantity)
  \/ /\ "stop" \in Commands
     /\ \E side \in Sides, trigger \in Triggers, limit \in InputPrices \cup {NoLevel},
           quantity \in InputQuantities :
          submit_stop(side, trigger, limit, quantity)
  \/ /\ "cancel" \in Commands
     /\ \E slot \in Slots : cancel(slot)
  \/ /\ "amend" \in Commands
     /\ \E slot \in Slots, quantity \in InputQuantities : amend_quantity(slot, quantity)
  \/ /\ "replace" \in Commands
     /\ \E slot \in Slots, price \in InputPrices, quantity \in InputQuantities :
          replace(slot, price, quantity)
  \/ /\ "uncross" \in Commands
     /\ uncross_opening_auction

\* The loops of the running call.
Step ==
  \/ match
  \/ tally_displayed
  \/ match_level_threshold_pro_rata
  \/ match_level_fifo
  \/ settle_submission
  \/ settle_stop
  \/ trigger_stops
  \/ sum_eligible_bids
  \/ scan_clearing_level
  \/ execute_auction_match

Next == Call \/ Step

\* The thread that runs a call keeps running it.
Spec == Init /\ [][Next]_vars /\ WF_vars(Step)

-----------------------------------------------------------------------------
(* Properties.                                                             *)

Phases == {"idle", "match", "tally", "pro_rata", "fifo", "settle", "stops",
           "auction_bids", "auction_scan", "auction_match"}
Trade == [maker : Slots, quantity : Quantity]

\* Every variable has its type; the quantities are unsigned 64-bit values.
TypeOK ==
  /\ book \in Book
  /\ last_execution_price \in Levels \cup {NoLevel}
  /\ trading_state \in {"continuous", "opening_auction"}
  /\ phase \in Phases
  /\ taker \in Taker
  /\ pass \in Pass
  /\ auction \in Auction
  /\ trades \in Seq(Trade)
  /\ reports \in [Slots -> Nat]
  /\ activations \in Nat
  /\ event_capacity \in Nat

\* The links of the book: a level's queue holds exactly the resting orders of
\* that side and level, each once; the stop list holds exactly the dormant
\* stops, except the one being activated; and a level is marked occupied
\* exactly when its queue is not empty.
LinksConsistent ==
  /\ \A s \in Slots : book.orders[s].kind = "resting" => book.orders[s].level \in Levels
  /\ \A side \in Sides, l \in Levels : QueueLinked(book, side, l)
  /\ StopsLinked(book, taker.slot)

\* The quantities of the book: a live order has something left and shows some
\* of it, and a level's aggregate is the sum of its orders, hidden parts
\* included, with no wrap-around.
QuantitiesConsistent ==
  /\ \A s \in Slots :
       LET order == book.orders[s]
       IN  /\ order.kind # "free" => order.remaining > 0
           /\ order.kind = "resting" => order.displayed \in 1 .. order.remaining
  /\ \A side \in Sides, l \in Levels :
       book.aggregate_quantity[side][l] =
         MapThenSumSet(LAMBDA s : book.orders[s].remaining, Range(book.queue[side][l]))

\* In continuous trading the book is never crossed, not even between two
\* executions of a call: every bid is below every ask.  Only the auction's own
\* pairing starts from a crossed book, and it ends with an uncrossed one.
Uncrossed ==
  trading_state = "continuous" /\ phase # "auction_match" =>
    \A bid \in book.occupancy["buy"], ask \in book.occupancy["sell"] : bid < ask

\* When a call returns no dormant stop is triggered by the last execution: the
\* cascade of trigger_stops() ran to its end.
StopsSettled ==
  phase = "idle" =>
    \A i \in DOMAIN book.stops :
      LET stop == book.orders[book.stops[i]]
      IN  ~stop_is_triggered(stop.side, stop.trigger)

\* preflight_limit() admits a good-till-cancel order to a full arena only when it
\* crosses; the slot it then needs for a remainder is always free.
RestHasSlot ==
  phase = "settle" /\ taker.slot = NoSlot /\ taker.tif = "gtc" /\ taker.remaining # 0 =>
    FreeSlots(book) # {}

\* A fill-or-kill order that was admitted is filled in full.
FokFills == phase = "settle" /\ taker.tif = "fok" => taker.remaining = 0

\* The reports of a call fit the trade span: required_trade_capacity().
TradesFit == Len(trades) <= Cardinality(Slots)

\* The events of a call (its result, one per report, one per activated stop)
\* fit what required_event_capacity() reserved before it was applied.
EventsFit == phase # "idle" => 1 + Len(trades) + activations <= event_capacity

Matching == phase \in {"match", "tally", "pro_rata", "fifo"}

\* No order is executed beyond its quantity: what is left of the taker never grows.
NoOverfill == [][Matching => taker'.remaining <= taker.remaining]_vars

Reported(ts) == MapThenSumSet(LAMBDA i : ts[i].quantity, DOMAIN ts)
Resting(b, side) == SumFunctionOnSet([s \in Slots |-> b.orders[s].remaining],
                      {s \in Slots : b.orders[s].kind = "resting" /\ b.orders[s].side = side})

\* Every step of the matching loops takes the same quantity from the taker and
\* from the other side of the book, and adds it to the reports; the taker's own
\* side is not touched.
QuantityConserved ==
  [][Matching =>
       LET filled == taker.remaining - taker'.remaining
       IN  /\ Reported(trades') - Reported(trades) = filled
           /\ Resting(book, MakerSide) - Resting(book', MakerSide) = filled
           /\ Resting(book', taker.side) = Resting(book, taker.side)]_vars

\* Two orders of a level keep their order; only an order whose displayed part
\* was just executed in full, and which shows its next part, is overtaken.
TimePriority ==
  [][\A side \in Sides, l \in Levels :
       LET before == book.queue[side][l]
           after == book'.queue[side][l]
       IN  \A i, j \in DOMAIN before, m, n \in DOMAIN after :
             i < j /\ after[m] = before[i] /\ after[n] = before[j] =>
               \/ m < n
               \/ book.orders[before[i]].remaining - book'.orders[before[i]].remaining
                    = book.orders[before[i]].displayed]_vars

\* A match() reports each maker once, under the index that reports holds.
OneReportPerMaker ==
  \A s \in Slots : reports[s] # 0 =>
    reports[s] \in DOMAIN trades /\ trades[reports[s]].maker = s

\* Under cancel_taker no order trades with an order of its own trader.
NoSelfTrade ==
  [][Matching /\ SelfTradePolicy = "cancel_taker" =>
       \A s \in Slots :
         /\ book.orders[s].kind = "resting"
         /\ book'.orders[s].remaining # book.orders[s].remaining
         => book.orders[s].trader # taker.trader]_vars

\* The reference for the clearing price: the executable quantity is largest,
\* then the imbalance smallest, then the distance to the middle of the crossed
\* range smallest, then the price highest.
AuctionOptimal ==
  phase = "auction_match" /\ trades = <<>> =>
    \A range \in CrossedRange(book) :
      LET Sum(side, from, to) ==
            SumFunctionOnSet(book.aggregate_quantity[side], from .. to)
          bids(l) == Sum("buy", l, TickCount - 1)
          asks(l) == Sum("sell", 0, l)
          rank(l) == <<0 - Min({bids(l), asks(l)}), Distance(bids(l), asks(l)),
                       Distance(l, (range[1] + range[2]) \div 2), 0 - l>>
          Before(u, v) == \E i \in 1 .. 4 : u[i] < v[i] /\ \A j \in 1 .. i - 1 : u[j] = v[j]
          clearing == auction.clearing_level
      IN  /\ auction.remaining = Min({bids(clearing), asks(clearing)})
          /\ \A l \in Levels \ {clearing} : Before(rank(clearing), rank(l))

\* Every call returns: the loops of the book terminate.
CallReturns == phase # "idle" ~> phase = "idle"

\* A client that never cancels keeps its order when a replace is rejected.
ReplaceKeepsOrder ==
  [][phase = "idle" /\ phase' = "idle" =>
       \A s \in Slots : book.orders[s].kind = "resting" =>
                          book'.orders[s].kind = "resting"]_vars

=============================================================================
