-------------------------- MODULE OrderBookProofs --------------------------
(***************************************************************************)
(* Proofs about the order book of OrderBook.tla, for any number of slots   *)
(* and levels and any quantities: the inductive invariant, the initial     *)
(* state, and the calls up to their first loop.                            *)
(***************************************************************************)
EXTENDS OrderBook, BookOpsProofs

-----------------------------------------------------------------------------
(* The inductive invariant.                                                *)

Loops == {"tally", "pro_rata", "fifo"}

\* What the running call may rely on: outside match() there is no taker; a
\* remainder that may rest has a level; the stop being activated still holds
\* its slot; an allocation pass is at a level the taker crosses, and its cursor
\* is an order of that level.
CallOK ==
  /\ phase \notin Loops \cup {"match", "settle"} => taker = NoTaker
  /\ taker.tif = "gtc" => taker.limit \in Levels
  /\ taker.slot # NoSlot => book.orders[taker.slot].kind = "stop"
  /\ phase \in Loops =>
       /\ pass.level \in Levels
       /\ taker.limit = NoLevel \/ crosses(taker.side, pass.level, taker.limit)
  /\ phase \in {"tally", "pro_rata"} /\ pass.cursor # NoSlot =>
       pass.cursor \in Range(LevelQueue)
  /\ phase = "tally" => LevelQueue # <<>>
  /\ phase = "pro_rata" => pass.total # 0

Inv ==
  /\ TypeOK
  /\ BookOK(book, taker.slot)
  /\ CallOK
  /\ OneReportPerMaker

-----------------------------------------------------------------------------
(* Facts about constants and helpers.                                      *)

\* The idle taker is a taker.
LEMMA NoTakerType == NoTaker \in Taker
BY QuantityAssumption, InputAssumption DEF NoTaker, Taker, Sides, Quantity, TimeInForce

\* The idle pro-rata pass is a pass.
LEMMA NoPassType == NoPass \in Pass
BY QuantityAssumption DEF NoPass, Pass, Quantity

\* The idle auction is an auction.
LEMMA NoAuctionType == NoAuction \in Auction
BY QuantityAssumption DEF NoAuction, Auction, Quantity

\* An empty report counts no trade for any slot.
LEMMA NoReportsType == NoReports \in [Slots -> Nat]
BY DEF NoReports

\* The arena size and the number of dormant stops, of which the event capacity is
\* made, are natural numbers.
LEMMA CapacityType ==
  ASSUME NEW b \in Book
  PROVE  Cardinality(Slots) \in Nat /\ DormantStops(b) \in Nat
BY SlotsAssumption DEF DormantStops, Book

\* opposite_side maps each side to the other one.
LEMMA OppositeSide ==
  ASSUME NEW side \in Sides
  PROVE  opposite_side(side) \in Sides /\ opposite_side(side) # side
BY DEF Sides, opposite_side

\* An admitted quantity is a quantity.
LEMMA PreflightType ==
  ASSUME NEW quantity, preflight(quantity)
  PROVE  quantity \in Quantity /\ quantity # 0 /\ Uncapped \in Quantity
BY QuantityAssumption DEF preflight, Quantity, Uncapped

\* The successor of an order in its queue is another order of the queue.
LEMMA NextIndex ==
  ASSUME NEW queue \in Seq(Slots), IsInjective(queue), NEW slot
  PROVE  next_index(queue, slot) # NoSlot =>
           next_index(queue, slot) \in Range(queue) \ {slot}
<1> DEFINE I == {i \in 1 .. Len(queue) : queue[i] = slot}
           i == IF I # {} THEN Min(I) ELSE 0
<1>1. next_index(queue, slot) = IF i \in 1 .. Len(queue) - 1 THEN queue[i + 1] ELSE NoSlot
  BY DEF next_index, SelectInSeq
<1>2. CASE I = {}
  BY <1>1, <1>2
<1>3. CASE I # {}
  <2>1. I \in SUBSET Nat
    OBVIOUS
  <2>2. Min(I) \in I
    BY <1>3, <2>1, MinOfNats
  <2> HIDE DEF I
  <2>3. i \in 1 .. Len(queue) /\ queue[i] = slot
    BY <1>3, <2>2 DEF I
  <2> HIDE DEF i
  <2> QED BY <1>1, <2>3 DEF IsInjective, Range
<1> QED BY <1>2, <1>3

\* The first order of an occupied level rests there.
LEMMA HeadRests ==
  ASSUME NEW b, NEW active, BookOK(b, active), NEW side \in Sides, NEW l \in Levels,
         NEW s \in Range(b.queue[side][l])
  PROVE  /\ s \in Slots /\ b.orders[s].kind = "resting"
         /\ b.orders[s].side = side /\ b.orders[s].level = l
         /\ l \in b.occupancy[side]
         /\ b.orders[s].remaining \in Quantity /\ b.orders[s].displayed \in Quantity
<1>1. QueueLinked(b, side, l) /\ b.queue[side][l] \in Seq(Slots)
  BY DEF BookOK, Book
<1>2. b.queue[side][l] # <<>>
  BY <1>1, EmptyElements
<1>3. s \in Slots /\ b.orders[s] \in Order
  BY <1>1 DEF QueueLinked, BookOK, Book
<1> QED BY <1>1, <1>2, <1>3 DEF QueueLinked, Order

\* An occupied level has a first order.
LEMMA HeadOf ==
  ASSUME NEW b, NEW active, BookOK(b, active), NEW side \in Sides,
         NEW l \in b.occupancy[side]
  PROVE  /\ l \in Levels /\ b.queue[side][l] # <<>>
         /\ Head(b.queue[side][l]) \in Range(b.queue[side][l])
<1>1. l \in Levels
  BY DEF BookOK, Book
<1>2. QueueLinked(b, side, l) /\ b.queue[side][l] \in Seq(Slots)
  BY <1>1 DEF BookOK, Book
<1>3. b.queue[side][l] # <<>>
  BY <1>1, <1>2 DEF QueueLinked
<1> QED BY <1>1, <1>2, <1>3, EmptyElements

-----------------------------------------------------------------------------
(* The initial state and the calls.                                        *)

\* An empty book, as its constructor leaves it, satisfies the inductive
\* invariant.
LEMMA InitInv == Init => Inv
<1> SUFFICES ASSUME Init PROVE Inv
  OBVIOUS
<1>1. book \in Book
  BY FreeSlotType, QuantityAssumption DEF Init, Book, Quantity
<1>2. TypeOK
  BY <1>1, NoTakerType, NoPassType, NoAuctionType, NoReportsType, ConfigAssumption
  DEF Init, TypeOK, Phases
<1>3. /\ \A s \in Slots : book.orders[s].kind = "free"
      /\ \A side \in Sides, l \in Levels : book.queue[side][l] = <<>>
      /\ \A side \in Sides : book.occupancy[side] = {}
      /\ book.stops = <<>>
  BY DEF Init, FreeSlot
<1>4. Range(<<>>) = {} /\ IsInjective(<<>>)
  BY DEF Range, IsInjective
<1>5. BookOK(book, taker.slot)
  BY <1>1, <1>3, <1>4 DEF BookOK, QueueLinked, StopsLinked
<1>6. CallOK /\ OneReportPerMaker
  BY DEF Init, CallOK, OneReportPerMaker, NoTaker, NoReports, Loops
<1> QED BY <1>2, <1>5, <1>6 DEF Inv

\* No level of the new book was empty in the old one.
Narrowed == \A d \in Sides : book'.occupancy[d] \subseteq book.occupancy[d]

\* A call that only changes the book.  A stop it adds is not triggered.
BookCall ==
  /\ phase = "idle"
  /\ BookOK(book', NoSlot)
  /\ Narrowed
  /\ \A s \in Range(book'.stops) :
       \/ /\ trading_state = "continuous"
          /\ ~stop_is_triggered(book'.orders[s].side, book'.orders[s].trigger)
       \/ /\ s \in Range(book.stops)
          /\ book'.orders[s].side = book.orders[s].side
          /\ book'.orders[s].trigger = book.orders[s].trigger
  /\ UNCHANGED <<last_execution_price, trading_state, phase, callVars>>

\* A call that ends at once (cancel, amend_quantity, replace that only cancels, a
\* stop that goes dormant) preserves the invariant.
LEMMA BookCallInv == Inv /\ BookCall => Inv'
<1> SUFFICES ASSUME Inv, BookCall PROVE Inv'
  OBVIOUS
<1>1. taker = NoTaker /\ taker.slot = NoSlot
  BY DEF Inv, CallOK, BookCall, NoTaker, Loops
<1>2. TypeOK'
  BY DEF Inv, TypeOK, BookCall, callVars, BookOK
<1>3. BookOK(book', taker'.slot)
  BY <1>1 DEF BookCall, callVars
<1>4. CallOK'
  BY <1>1 DEF Inv, CallOK, BookCall, callVars, NoTaker, Loops
<1>5. OneReportPerMaker'
  BY DEF Inv, OneReportPerMaker, BookCall, callVars
<1> QED BY <1>2, <1>3, <1>4, <1>5 DEF Inv

\* A call that starts to match, or in the opening auction to rest, an order.  An
\* order that may rest finds a slot, or an order to trade with.
OrderCall ==
  /\ phase = "idle"
  /\ BookOK(book', NoSlot)
  /\ Narrowed
  /\ book'.stops = book.stops
  /\ phase' = "settle" => trading_state = "opening_auction"
  /\ taker'.tif = "gtc" =>
       \/ FreeSlots(book') # {}
       \/ /\ phase' = "match"
          /\ crossing_levels(book', taker'.side, taker'.limit) # {}
  /\ taker' \in Taker /\ taker'.slot = NoSlot
  /\ taker'.tif = "gtc" => taker'.limit \in Levels
  /\ reports' = NoReports
  /\ phase' \in {"match", "settle"}
  /\ event_capacity' \in Nat
  /\ UNCHANGED <<last_execution_price, auction, trading_state, pass, trades, activations>>

\* A call that hands an incoming order to the matching loop, or to rest in the
\* auction, preserves the invariant.
LEMMA OrderCallInv == Inv /\ OrderCall => Inv'
<1> SUFFICES ASSUME Inv, OrderCall PROVE Inv'
  OBVIOUS
<1>1. TypeOK'
  BY NoReportsType DEF Inv, TypeOK, OrderCall, BookOK, Phases
<1>2. BookOK(book', taker'.slot)
  BY DEF OrderCall
<1>3. CallOK'
  BY DEF CallOK, OrderCall, Loops
<1>4. OneReportPerMaker'
  BY DEF OneReportPerMaker, OrderCall, NoReports
<1> QED BY <1>1, <1>2, <1>3, <1>4 DEF Inv

\* In an idle book there is no taker.
LEMMA IdleBook == ASSUME Inv, phase = "idle"
                  PROVE  BookOK(book, NoSlot) /\ book \in Book /\ taker = NoTaker
BY DEF Inv, CallOK, NoTaker, BookOK, Loops

\* A step that changes nothing preserves the invariant.
LEMMA StutterInv == Inv /\ UNCHANGED vars => Inv'
<1> SUFFICES ASSUME Inv, UNCHANGED vars PROVE Inv'
  OBVIOUS
<1>1. TypeOK'
  BY DEF vars, Inv, TypeOK
<1>2. CallOK'
  BY DEF vars, Inv, CallOK, LevelQueue, MakerSide
<1>3. BookOK(book, taker.slot)' /\ OneReportPerMaker'
  BY DEF vars, Inv, OneReportPerMaker
<1> QED BY <1>1, <1>2, <1>3 DEF Inv

\* An admitted limit order in b.
LEMMA LimitAdmitted ==
  ASSUME NEW b \in Book, NEW side \in Sides, NEW price, NEW quantity, NEW tif,
         preflight_limit(b, side, price, quantity, tif)
  PROVE  /\ preflight(quantity) /\ price \in Levels
         /\ tif = "gtc" => \/ FreeSlots(b) # {}
                           \/ /\ trading_state = "continuous"
                              /\ crossing_levels(b, side, price) # {}
<1>1. has_crossing_order(b, side, price) => crossing_levels(b, side, price) # {}
  BY DEF has_crossing_order, best_index, crossing_levels
<1> QED BY <1>1 DEF preflight_limit

\* submit_limit hands its order to the matching loop or is rejected.
LEMMA SubmitLimitInv ==
  ASSUME Inv, NEW side \in Sides, NEW price, NEW quantity, NEW tif \in TimeInForce,
         NEW trader \in Traders, submit_limit(side, price, quantity, tif, trader)
  PROVE  OrderCall \/ UNCHANGED vars
<1> SUFFICES ASSUME ~UNCHANGED vars PROVE OrderCall
  OBVIOUS
<1> DEFINE order == [slot |-> NoSlot, side |-> side, limit |-> price,
                     remaining |-> quantity, trader |-> trader, tif |-> tif,
                     display |-> Uncapped]
<1>1. /\ phase = "idle" /\ preflight_limit(book, side, price, quantity, tif)
      /\ taker' = order /\ reports' = NoReports
      /\ phase' = IF trading_state = "continuous" THEN "match" ELSE "settle"
      /\ event_capacity' = matching_capacity(book)
      /\ UNCHANGED <<book, last_execution_price, auction, trading_state, pass, trades,
                     activations>>
  BY Zenon DEF submit_limit, Rejected, StartMatch
<1>2. /\ preflight(quantity) /\ price \in Levels /\ BookOK(book', NoSlot)
      /\ tif = "gtc" => \/ FreeSlots(book') # {}
                        \/ /\ trading_state = "continuous"
                           /\ crossing_levels(book', side, price) # {}
  BY <1>1, IdleBook, LimitAdmitted
<1>3. order \in Taker
  BY <1>2, PreflightType DEF Taker
<1>4. event_capacity' \in Nat
  BY <1>1, IdleBook, CapacityType DEF matching_capacity
<1>5. trading_state \in {"continuous", "opening_auction"}
  BY DEF Inv, TypeOK
<1> QED BY <1>1, <1>2, <1>3, <1>4, <1>5 DEF OrderCall, Narrowed

\* submit_post_only hands its order on as submit_limit does or is rejected.
LEMMA SubmitPostOnlyInv ==
  ASSUME Inv, NEW side \in Sides, NEW price, NEW quantity,
         submit_post_only(side, price, quantity)
  PROVE  OrderCall \/ UNCHANGED vars
BY SubmitLimitInv, InputAssumption DEF submit_post_only, Rejected, TimeInForce

\* submit_iceberg hands its order to the matching loop or is rejected.
LEMMA SubmitIcebergInv ==
  ASSUME Inv, NEW side \in Sides, NEW price, NEW quantity, NEW display \in Nat,
         NEW trader \in Traders, submit_iceberg(side, price, quantity, display, trader)
  PROVE  OrderCall \/ UNCHANGED vars
<1> SUFFICES ASSUME ~UNCHANGED vars PROVE OrderCall
  OBVIOUS
<1> DEFINE order == [slot |-> NoSlot, side |-> side, limit |-> price,
                     remaining |-> quantity, trader |-> trader, tif |-> "gtc",
                     display |-> display]
<1>1. /\ phase = "idle" /\ preflight_limit(book, side, price, quantity, "gtc")
      /\ display \in 1 .. quantity
      /\ taker' = order /\ reports' = NoReports
      /\ phase' = "match"
      /\ event_capacity' = matching_capacity(book)
      /\ UNCHANGED <<book, last_execution_price, auction, trading_state, pass, trades,
                     activations>>
  BY Zenon DEF submit_iceberg, Rejected, StartMatch
<1>2. /\ preflight(quantity) /\ price \in Levels /\ BookOK(book', NoSlot)
      /\ \/ FreeSlots(book') # {}
         \/ /\ trading_state = "continuous"
            /\ crossing_levels(book', side, price) # {}
  BY <1>1, IdleBook, LimitAdmitted
<1>3. order \in Taker
  <2>1. display \in Quantity
    BY <1>1, <1>2, PreflightType, QuantityAssumption DEF Quantity
  <2> QED BY <1>2, <2>1, PreflightType DEF Taker, TimeInForce
<1>4. event_capacity' \in Nat
  BY <1>1, IdleBook, CapacityType DEF matching_capacity
<1> QED BY <1>1, <1>2, <1>3, <1>4 DEF OrderCall, Narrowed

\* submit_market hands its order to the matching loop or is rejected.
LEMMA SubmitMarketInv ==
  ASSUME Inv, NEW side \in Sides, NEW quantity, submit_market(side, quantity)
  PROVE  OrderCall \/ UNCHANGED vars
<1> SUFFICES ASSUME ~UNCHANGED vars PROVE OrderCall
  OBVIOUS
<1> DEFINE order == [NoTaker EXCEPT !.side = side, !.remaining = quantity]
<1>1. /\ phase = "idle" /\ preflight(quantity)
      /\ taker' = order /\ reports' = NoReports
      /\ phase' = "match"
      /\ event_capacity' = matching_capacity(book)
      /\ UNCHANGED <<book, last_execution_price, auction, trading_state, pass, trades,
                     activations>>
  BY Zenon DEF submit_market, Rejected, StartMatch, preflight_market
<1>2. order \in Taker /\ order.slot = NoSlot /\ order.tif = "ioc"
  BY <1>1, NoTakerType, PreflightType DEF Taker, NoTaker
<1>3. event_capacity' \in Nat /\ BookOK(book', NoSlot)
  BY <1>1, IdleBook, CapacityType DEF matching_capacity
<1> QED BY <1>1, <1>2, <1>3 DEF OrderCall, Narrowed

\* A stop leaves the list of b and becomes the taker.
LEMMA ActivateStopInv ==
  ASSUME Inv, NEW b, BookOK(b, NoSlot), NEW slot \in Range(b.stops),
         activate_stop(b, slot), event_capacity' \in Nat,
         UNCHANGED <<last_execution_price, auction, trading_state, pass, trades,
                     activations>>
  PROVE  /\ Inv'
         /\ taker'.slot = slot /\ slot # NoSlot /\ phase' = "match"
         /\ book'.occupancy = b.occupancy
         /\ Range(book'.stops) \subseteq Range(b.stops)
<1> DEFINE order == [slot |-> slot, side |-> b.orders[slot].side,
                     limit |-> b.orders[slot].level,
                     remaining |-> b.orders[slot].remaining, trader |-> 0,
                     tif |-> IF b.orders[slot].level = NoLevel THEN "ioc" ELSE "gtc",
                     display |-> Uncapped]
<1>1. /\ book' = detach_stop(b, slot) /\ taker' = order /\ reports' = NoReports
      /\ phase' = "match"
  BY Zenon DEF activate_stop, StartMatch, StopTaker
<1>2. /\ BookOK(book', slot) /\ book'.orders = b.orders /\ book'.occupancy = b.occupancy
      /\ slot \in Slots /\ b.orders[slot].kind = "stop" /\ slot # NoSlot
  BY <1>1, DetachStopLinks, SlotsAssumption
<1>3. b.orders[slot] \in Order
  BY <1>2 DEF BookOK, Book
<1>4. order \in Taker
  BY <1>2, <1>3, InputAssumption, QuantityAssumption, SMTT(30)
  DEF Order, Taker, TimeInForce, Uncapped, Quantity
<1>5. TypeOK'
  BY <1>1, <1>2, <1>4, NoReportsType DEF Inv, TypeOK, BookOK, Phases
<1>6. CallOK'
  <2>1. order.tif = "gtc" => order.limit \in Levels
    BY <1>3 DEF Order
  <2> QED BY <1>1, <1>2, <2>1 DEF CallOK, Loops
<1>7. OneReportPerMaker'
  BY <1>1 DEF OneReportPerMaker, NoReports
<1>8. Range(book'.stops) \subseteq Range(b.stops)
  BY <1>2, SlotsAssumption DEF BookOK, StopsLinked
<1> QED BY <1>1, <1>2, <1>5, <1>6, <1>7, <1>8 DEF Inv

\* A stop that its call activates at once.
StopCall ==
  /\ phase = "idle" /\ phase' = "match"
  /\ taker'.slot # NoSlot
  /\ book'.occupancy = book.occupancy
  /\ trading_state = "continuous"
  /\ UNCHANGED <<last_execution_price, trading_state>>

\* submit_stop and submit_stop_limit leave a dormant stop, activate it at once
\* with the invariant preserved, or are rejected.
LEMMA SubmitStopInv ==
  ASSUME Inv, NEW side \in Sides, NEW trigger \in Triggers, NEW limit, NEW quantity,
         submit_stop(side, trigger, limit, quantity)
  PROVE  \/ BookCall
         \/ UNCHANGED vars
         \/ Inv' /\ StopCall
<1> SUFFICES ASSUME ~UNCHANGED vars PROVE BookCall \/ (Inv' /\ StopCall)
  OBVIOUS
<1>1. phase = "idle" /\ preflight_stop(book, limit, quantity)
  BY Zenon DEF submit_stop, Rejected
<1>2. PICK slot \in FreeSlots(book) :
        LET b == rest_stop(book, slot, side, trigger, limit, quantity)
        IN  IF stop_is_triggered(side, trigger)
            THEN /\ activate_stop(b, slot)
                 /\ event_capacity' = matching_capacity(book) + 1
                 /\ UNCHANGED <<last_execution_price, auction, trading_state, pass, trades,
                                activations>>
            ELSE /\ book' = b
                 /\ UNCHANGED <<last_execution_price, trading_state, phase, callVars>>
  BY <1>1, Zenon DEF submit_stop
<1> DEFINE b == rest_stop(book, slot, side, trigger, limit, quantity)
<1>3. limit \in Levels \cup {NoLevel} /\ quantity \in Quantity
      /\ trading_state = "continuous"
  BY <1>1, PreflightType DEF preflight_stop
<1>4. /\ BookOK(b, NoSlot) /\ SameQueues(book, b) /\ slot \in Range(b.stops)
      /\ b.orders[slot].kind = "stop"
  BY <1>1, <1>3, IdleBook, RestStopLinks
<1>5. /\ b.orders[slot].side = side /\ b.orders[slot].trigger = trigger
      /\ \A s \in Slots \ {slot} : b.orders[s] = book.orders[s]
  BY <1>1, IdleBook DEF rest_stop, Book, FreeSlots, FreeSlot
<1>6. CASE stop_is_triggered(side, trigger)
  <2>1. /\ activate_stop(b, slot) /\ event_capacity' \in Nat
        /\ UNCHANGED <<last_execution_price, auction, trading_state, pass, trades,
                       activations>>
    BY <1>1, <1>2, <1>6, IdleBook, CapacityType DEF matching_capacity
  <2> HIDE DEF b
  <2>2. Inv' /\ taker'.slot # NoSlot /\ phase' = "match" /\ book'.occupancy = b.occupancy
    BY <1>4, <2>1, ActivateStopInv
  <2> QED BY <1>1, <1>3, <1>4, <2>1, <2>2 DEF StopCall, SameQueues
<1>7. CASE ~stop_is_triggered(side, trigger)
  <2>1. book' = b /\ UNCHANGED <<last_execution_price, trading_state, phase, callVars>>
    BY <1>2, <1>7
  <2> HIDE DEF b
  <2>2. \A s \in Range(b.stops) \ {slot} : s \in Range(book.stops) /\ s \in Slots \ {slot}
    BY <1>1, <1>4, <1>5, IdleBook, SlotsAssumption DEF BookOK, StopsLinked
  <2> QED BY <1>1, <1>3, <1>4, <1>5, <1>7, <2>1, <2>2
      DEF BookCall, Narrowed, SameQueues, stop_is_triggered
<1> QED BY <1>6, <1>7

\* cancel removes a resting order or a dormant stop and ends, or is rejected.
LEMMA CancelInv ==
  ASSUME Inv, NEW slot \in Slots, cancel(slot)
  PROVE  BookCall \/ UNCHANGED vars
<1>1. /\ phase = "idle"
      /\ UNCHANGED <<last_execution_price, trading_state, phase, callVars>>
      /\ BookOK(book, NoSlot) /\ book \in Book
  BY IdleBook DEF cancel
<1>2. book.orders[slot].kind \in {"free", "stop", "resting"}
  BY <1>1 DEF Book, Order
<1>3. CASE book.orders[slot].kind = "free"
  BY <1>1, <1>3 DEF cancel, vars, callVars
<1>4. CASE book.orders[slot].kind = "stop"
  <2>1. book' = unlink_stop(book, slot)
    BY <1>4 DEF cancel
  <2>2. /\ BookOK(book', NoSlot) /\ book'.occupancy = book.occupancy
        /\ Range(book'.stops) \subseteq Range(book.stops) \ {slot}
        /\ \A s \in Slots \ {slot} : book'.orders[s] = book.orders[s]
    BY <1>1, <1>4, <2>1, UnlinkStopLinks
  <2>3. Range(book.stops) \subseteq Slots
    BY <1>1 DEF BookOK, StopsLinked
  <2> QED BY <1>1, <2>2, <2>3 DEF BookCall, Narrowed
<1>5. CASE book.orders[slot].kind = "resting"
  <2>1. book' = unlink(book, slot, book.orders[slot].remaining)
    BY <1>5 DEF cancel
  <2>2. book.orders[slot].remaining \in Quantity
    BY <1>1 DEF Book, Order
  <2>3. BookOK(book', NoSlot) /\ Shrunk(book, book', slot)
    BY <1>1, <1>5, <2>1, <2>2, UnlinkLinks
  <2>4. Range(book.stops) \subseteq Slots \ {slot}
    BY <1>1, <1>5 DEF BookOK, StopsLinked
  <2> QED BY <1>1, <2>3, <2>4 DEF BookCall, Narrowed, Shrunk
<1> QED BY <1>2, <1>3, <1>4, <1>5

\* amend_quantity changes a resting order and ends, or is rejected.
LEMMA AmendInv ==
  ASSUME Inv, NEW slot \in Slots, NEW quantity, amend_quantity(slot, quantity)
  PROVE  BookCall \/ UNCHANGED vars
<1> SUFFICES ASSUME ~UNCHANGED vars PROVE BookCall
  OBVIOUS
<1>1. /\ phase = "idle" /\ book.orders[slot].kind # "free" /\ preflight(quantity)
      /\ ~(quantity >= book.orders[slot].remaining)
      /\ book' = amend(book, slot, quantity)
      /\ UNCHANGED <<last_execution_price, trading_state, phase, callVars>>
  BY Zenon DEF amend_quantity, Rejected
<1>2. BookOK(book, NoSlot) /\ book.orders[slot] \in Order
  BY <1>1, IdleBook DEF Book
<1>3. quantity \in Quantity /\ quantity <= book.orders[slot].remaining
  BY <1>1, <1>2, PreflightType, QuantityAssumption DEF Order, Quantity
<1>4. /\ BookOK(book', NoSlot) /\ book'.occupancy = book.occupancy
      /\ book'.stops = book.stops
      /\ \A s \in Slots : /\ book'.orders[s].side = book.orders[s].side
                          /\ book'.orders[s].trigger = book.orders[s].trigger
  <2>1. book.orders[slot].kind # "free" /\ book' = amend(book, slot, quantity)
    BY <1>1
  <2> QED BY <1>2, <1>3, <2>1, AmendLinks, Zenon
<1>5. Range(book.stops) \subseteq Slots
  BY <1>2 DEF BookOK, StopsLinked
<1> QED BY <1>1, <1>4, <1>5 DEF BookCall, Narrowed

\* replace removes the old order and hands the new one on, or is rejected before
\* or after the removal.
LEMMA ReplaceInv ==
  ASSUME Inv, NEW slot \in Slots, NEW price, NEW quantity, replace(slot, price, quantity)
  PROVE  BookCall \/ OrderCall \/ UNCHANGED vars
<1> SUFFICES ASSUME ~UNCHANGED vars PROVE BookCall \/ OrderCall
  OBVIOUS
<1> DEFINE side == book.orders[slot].side
           b == unlink(book, slot, book.orders[slot].remaining)
           order == [slot |-> NoSlot, side |-> side, limit |-> price,
                     remaining |-> quantity, trader |-> 0, tif |-> "gtc",
                     display |-> Uncapped]
<1>1. phase = "idle" /\ preflight_replace(book, slot, price, quantity) /\ book' = b
  BY Zenon DEF replace, Rejected
<1>2. \/ UNCHANGED <<last_execution_price, trading_state, phase, callVars>>
      \/ /\ taker' = order /\ reports' = NoReports
         /\ phase' = IF trading_state = "continuous" THEN "match" ELSE "settle"
         /\ event_capacity' = Cardinality(Slots) + DormantStops(book)
         /\ UNCHANGED <<last_execution_price, auction, trading_state, pass, trades,
                        activations>>
  BY <1>1, Zenon DEF replace, StartMatch
<1>3. /\ BookOK(book, NoSlot) /\ book \in Book
      /\ book.orders[slot].kind = "resting" /\ preflight(quantity) /\ price \in Levels
  BY <1>1, IdleBook DEF preflight_replace
<1>4. book.orders[slot].remaining \in Quantity /\ side \in Sides
  BY <1>3 DEF Book, Order
<1>5. BookOK(b, NoSlot) /\ Shrunk(book, b, slot) /\ b.orders[slot] = FreeSlot
  BY <1>3, <1>4, UnlinkLinks
<1> HIDE DEF b
<1>6. CASE UNCHANGED <<last_execution_price, trading_state, phase, callVars>>
  <2>1. Range(book.stops) \subseteq Slots \ {slot}
    BY <1>3 DEF BookOK, StopsLinked
  <2> QED BY <1>1, <1>5, <1>6, <2>1 DEF BookCall, Narrowed, Shrunk
<1>7. CASE ~UNCHANGED <<last_execution_price, trading_state, phase, callVars>>
  <2>1. order \in Taker
    BY <1>3, <1>4, PreflightType, InputAssumption DEF Taker, TimeInForce
  <2>2. Cardinality(Slots) + DormantStops(book) \in Nat
    BY <1>3, CapacityType
  <2>3. FreeSlots(b) # {}
    BY <1>5 DEF FreeSlots, FreeSlot
  <2>4. trading_state \in {"continuous", "opening_auction"}
    BY DEF Inv, TypeOK
  <2>5. Narrowed
    BY <1>1, <1>5 DEF Narrowed, Shrunk
  <2>6. /\ taker' = order /\ reports' = NoReports /\ event_capacity' \in Nat
        /\ phase' = IF trading_state = "continuous" THEN "match" ELSE "settle"
        /\ UNCHANGED <<last_execution_price, auction, trading_state, pass, trades, activations>>
    BY <1>2, <1>7, <2>2
  <2>7. order.slot = NoSlot /\ order.limit \in Levels
    BY <1>3
  <2> HIDE DEF order
  <2>8. phase = "idle" /\ BookOK(book', NoSlot) /\ book'.stops = book.stops
        /\ FreeSlots(book') # {}
    BY <1>1, <1>5, <2>3 DEF Shrunk
  <2> QED BY <2>1, <2>4, <2>5, <2>6, <2>7, <2>8 DEF OrderCall
<1> QED BY <1>6, <1>7

\* The opening auction ends at once, or its loops start.
UncrossCall ==
  /\ phase = "idle" /\ trading_state = "opening_auction"
  /\ \/ /\ phase' = "idle" /\ trading_state' = "continuous"
        /\ CrossedRange(book) = {}
     \/ phase' = "auction_bids" /\ trading_state' = trading_state
  /\ UNCHANGED <<book, last_execution_price, taker>>

\* uncross_opening_auction starts its scans with the invariant preserved, or is
\* rejected.
LEMMA UncrossInv ==
  ASSUME Inv, uncross_opening_auction
  PROVE  UNCHANGED vars \/ (Inv' /\ UncrossCall)
<1> SUFFICES ASSUME ~UNCHANGED vars PROVE Inv' /\ UncrossCall
  OBVIOUS
<1>1. CASE /\ CrossedRange(book) = {}
           /\ trading_state' = "continuous"
           /\ UNCHANGED <<book, last_execution_price, phase, callVars>>
  <2>1. UncrossCall
    BY <1>1 DEF UncrossCall, uncross_opening_auction, Rejected, callVars
  <2>2. TypeOK'
    BY <1>1 DEF callVars, Inv, TypeOK
  <2>3. CallOK'
    BY <1>1 DEF callVars, Inv, CallOK, LevelQueue, MakerSide
  <2>4. BookOK(book, taker.slot)' /\ OneReportPerMaker'
    BY <1>1 DEF callVars, Inv, OneReportPerMaker
  <2> QED BY <2>1, <2>2, <2>3, <2>4 DEF Inv
<1>2. CASE /\ \E range \in CrossedRange(book) :
                auction' = [NoAuction EXCEPT !.level = range[1]]
           /\ phase' = "auction_bids"
           /\ event_capacity' = Cardinality(Slots) + 1
           /\ UNCHANGED <<book, last_execution_price, trading_state, taker, pass, trades,
                          reports, activations>>
  <2>1. UncrossCall
    BY <1>2 DEF UncrossCall, uncross_opening_auction, Rejected
  <2>2. book \in Book /\ taker = NoTaker
    BY <2>1, IdleBook DEF UncrossCall
  <2>3. PICK range \in CrossedRange(book) : auction' = [NoAuction EXCEPT !.level = range[1]]
    BY <1>2
  <2>4. range[1] \in Nat
    BY <2>2, DomainAssumption DEF CrossedRange, best_index, Book, Sides, Levels
  <2>5. auction' \in Auction
    BY <2>3, <2>4, NoAuctionType DEF Auction
  <2>6. event_capacity' \in Nat
    BY <1>2, <2>2, CapacityType
  <2>7. TypeOK'
    BY <1>2, <2>5, <2>6 DEF Inv, TypeOK, Phases
  <2>8. CallOK'
    BY <1>2, <2>2 DEF Inv, CallOK, Loops
  <2> QED BY <1>2, <2>1, <2>7, <2>8 DEF Inv, OneReportPerMaker
<1> QED BY <1>1, <1>2 DEF uncross_opening_auction, Rejected

\* Every call is one of these.
LEMMA CallCases ==
  ASSUME Inv, Call
  PROVE  Inv' /\ (BookCall \/ OrderCall \/ StopCall \/ UncrossCall \/ UNCHANGED vars)
<1>1. InputQuantities \subseteq Nat
  BY QuantityAssumption DEF InputQuantities
<1>2. \/ BookCall \/ OrderCall \/ UNCHANGED vars
      \/ Inv' /\ (StopCall \/ UncrossCall)
  BY <1>1, SubmitLimitInv, SubmitPostOnlyInv, SubmitIcebergInv, SubmitMarketInv,
     SubmitStopInv, CancelInv, AmendInv, ReplaceInv, UncrossInv DEF Call
<1> QED BY <1>2, BookCallInv, OrderCallInv, StutterInv

=============================================================================
