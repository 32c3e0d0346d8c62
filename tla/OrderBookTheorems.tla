------------------------- MODULE OrderBookTheorems --------------------------
(***************************************************************************)
(* The steps of the opening auction preserve the invariant, with the other *)
(* steps it holds of every behaviour, and what is proved of the order book *)
(* follows.                                                                *)
(***************************************************************************)
EXTENDS OrderBookStepProofs

-----------------------------------------------------------------------------
(* The opening auction, and the invariant.                                 *)

\* The bounds of the crossed range are occupied levels.
LEMMA RangeLevels ==
  ASSUME NEW b \in Book, NEW range \in CrossedRange(b)
  PROVE  /\ range[1] \in b.occupancy["sell"] /\ range[2] \in b.occupancy["buy"]
         /\ range[1] \in Levels /\ range[2] \in Levels
         /\ \A n \in Nat : n <= range[2] => n \in Levels
BY DomainAssumption DEF CrossedRange, best_index, Book, Sides, Levels

\* A step that only moves the auction's own counters.
AuctionStep ==
  /\ phase \in {"auction_bids", "auction_scan"}
  /\ phase' \in {"auction_bids", "auction_scan", "auction_match"}
  /\ auction' \in Auction
  /\ trading_state' \in {trading_state, "continuous"}
  /\ trading_state' # trading_state => phase' = "auction_match"
  /\ UNCHANGED <<book, last_execution_price, taker, pass, trades, reports, activations,
                 event_capacity>>

\* A step of the scans of uncross_opening_auction preserves the invariant.
LEMMA AuctionStepInv == Inv /\ AuctionStep => Inv'
<1> SUFFICES ASSUME Inv, AuctionStep PROVE Inv'
  OBVIOUS
<1>1. TypeOK'
  BY DEF Inv, TypeOK, AuctionStep, Phases
<1>2. CallOK'
  BY DEF Inv, CallOK, AuctionStep, Loops
<1> QED BY <1>1, <1>2 DEF Inv, AuctionStep, OneReportPerMaker

\* Summing the eligible bids is a step of the scans.
LEMMA SumEligibleBidsInv ==
  ASSUME Inv, sum_eligible_bids
  PROVE  AuctionStep
<1>1. book \in Book /\ auction \in Auction
  BY DEF Inv, TypeOK
<1>2. PICK range \in CrossedRange(book) :
        IF auction.level <= range[2]
        THEN /\ auction' = [auction EXCEPT
                             !.level = @ + 1,
                             !.eligible_bids =
                                plus(@, book.aggregate_quantity["buy"][auction.level])]
             /\ UNCHANGED phase
        ELSE /\ auction' = [auction EXCEPT !.level = range[1]]
             /\ phase' = "auction_scan"
  BY DEF sum_eligible_bids
<1>3. auction.level \in Nat /\ auction.eligible_bids \in Quantity /\ range[1] \in Nat
  BY <1>1, RangeLevels, DomainAssumption DEF Auction, Levels
<1>4. auction' \in Auction
  <2>1. CASE auction.level <= range[2]
    <3> DEFINE bids == plus(auction.eligible_bids,
                            book.aggregate_quantity["buy"][auction.level])
    <3>1. book.aggregate_quantity["buy"][auction.level] \in Quantity
      BY <1>1, <1>3, <2>1, RangeLevels DEF Book, Sides
    <3>2. bids \in Quantity
      BY <1>3, <3>1, QuantityOps
    <3> DEFINE next == auction.level + 1
    <3>3. auction' = [auction EXCEPT !.level = next, !.eligible_bids = bids]
      BY <1>2, <2>1
    <3>4. next \in Nat
      BY <1>3
    <3> HIDE DEF bids, next
    <3> QED BY <1>1, <3>2, <3>3, <3>4 DEF Auction
  <2>2. CASE ~(auction.level <= range[2])
    BY <1>1, <1>2, <1>3, <2>2 DEF Auction
  <2> QED BY <2>1, <2>2
<1> QED BY <1>2, <1>4 DEF sum_eligible_bids, AuctionStep

\* Looking at one clearing price is a step of the scans.
LEMMA ScanClearingLevelInv ==
  ASSUME Inv, scan_clearing_level
  PROVE  AuctionStep
<1>1. /\ book \in Book /\ auction \in Auction /\ auction.level \in Nat
      /\ auction.eligible_bids \in Quantity /\ auction.eligible_asks \in Quantity
      /\ auction.maximum_executable \in Quantity /\ auction.minimum_imbalance \in Quantity
      /\ auction.clearing_level \in Levels \cup {NoLevel}
  BY DEF Inv, TypeOK, Auction
<1> DEFINE level == auction.level
           bids == auction.eligible_bids
           asks == plus(auction.eligible_asks, book.aggregate_quantity["sell"][level])
           executable == Min({bids, asks})
           imbalance == Distance(bids, asks)
           left == minus(bids, book.aggregate_quantity["buy"][level])
<1>2. PICK range \in CrossedRange(book) :
        IF auction.level <= range[2]
        THEN /\ \E better \in BOOLEAN :
                  auction' = [auction EXCEPT
                               !.level = level + 1,
                               !.eligible_bids = left,
                               !.eligible_asks = asks,
                               !.clearing_level = IF better THEN level ELSE @,
                               !.maximum_executable = IF better THEN executable ELSE @,
                               !.minimum_imbalance = IF better THEN imbalance ELSE @]
             /\ UNCHANGED <<trading_state, phase>>
        ELSE /\ trading_state' = "continuous"
             /\ auction' = [auction EXCEPT !.remaining = auction.maximum_executable]
             /\ phase' = "auction_match"
  BY DEF scan_clearing_level, better_clearing, asks_at, bids_above
<1>3. auction' \in Auction
  <2>1. CASE auction.level <= range[2]
    <3>1. level \in Levels
      BY <1>1, <2>1, RangeLevels
    <3>2. /\ book.aggregate_quantity["sell"][level] \in Quantity
          /\ book.aggregate_quantity["buy"][level] \in Quantity
      BY <1>1, <3>1 DEF Book, Sides
    <3>3. asks \in Quantity /\ left \in Quantity
      BY <1>1, <3>2, QuantityOps
    <3> HIDE DEF asks, left
    <3>4. executable \in Quantity
      BY <1>1, <3>3, MinOfPair DEF Quantity
    <3>5. imbalance \in Quantity
      BY <1>1, <3>3, QuantityAssumption DEF Quantity, Distance
    <3> HIDE DEF executable, imbalance
    <3>6. PICK better \in BOOLEAN :
            auction' = [auction EXCEPT
                         !.level = level + 1,
                         !.eligible_bids = left,
                         !.eligible_asks = asks,
                         !.clearing_level = IF better THEN level ELSE @,
                         !.maximum_executable = IF better THEN executable ELSE @,
                         !.minimum_imbalance = IF better THEN imbalance ELSE @]
      BY <1>2, <2>1
    <3> DEFINE next == level + 1
               chosen == IF better THEN level ELSE auction.clearing_level
               most == IF better THEN executable ELSE auction.maximum_executable
               least == IF better THEN imbalance ELSE auction.minimum_imbalance
    <3>7. /\ next \in Nat /\ chosen \in Levels \cup {NoLevel}
          /\ most \in Quantity /\ least \in Quantity
      BY <1>1, <3>1, <3>4, <3>5
    <3>8. auction' = [auction EXCEPT !.level = next, !.eligible_bids = left,
                        !.eligible_asks = asks, !.clearing_level = chosen,
                        !.maximum_executable = most, !.minimum_imbalance = least]
      BY <3>6
    <3> HIDE DEF next, chosen, most, least
    <3> QED BY <1>1, <3>3, <3>7, <3>8 DEF Auction
  <2>2. CASE ~(auction.level <= range[2])
    BY <1>1, <1>2, <2>2 DEF Auction
  <2> QED BY <2>1, <2>2
<1>4. trading_state \in {"continuous", "opening_auction"}
  BY DEF Inv, TypeOK
<1> HIDE DEF asks, left, executable, imbalance
<1> QED BY <1>2, <1>3, <1>4 DEF scan_clearing_level, AuctionStep

\* execute_auction_match preserves the invariant on both sides of its trade.
LEMMA AuctionMatchInv ==
  ASSUME Inv, execute_auction_match
  PROVE  /\ Inv'
         /\ phase = "auction_match" /\ phase' \in {"auction_match", "idle"}
         /\ book'.stops = book.stops /\ UNCHANGED <<taker, trading_state>>
<1>1. phase = "auction_match" /\ UNCHANGED <<trading_state, taker, pass>>
  BY DEF execute_auction_match
<1>2. /\ taker = NoTaker /\ taker.slot = NoSlot /\ BookOK(book, NoSlot) /\ book \in Book
      /\ auction \in Auction
  <2>1. taker = NoTaker /\ BookOK(book, taker.slot) /\ book \in Book /\ auction \in Auction
    BY <1>1 DEF Inv, TypeOK, CallOK, Loops
  <2> QED BY <2>1 DEF NoTaker
<1> DEFINE clearing == auction.clearing_level
           pairs == {range \in CrossedRange(book) : range[1] <= clearing /\ clearing <= range[2]}
<1>3. CASE /\ last_execution_price' = IF auction.maximum_executable = 0
                                      THEN last_execution_price ELSE clearing
           /\ EndCall
           /\ auction' = NoAuction
           /\ UNCHANGED book
  <2>1. last_execution_price' \in Levels \cup {NoLevel}
    BY <1>2, <1>3 DEF Auction, Inv, TypeOK
  <2>2. Inv'
    BY <1>1, <1>2, <1>3, <2>1, EndCallInv, NoAuctionType
  <2> QED BY <1>1, <1>3, <2>2 DEF EndCall
<1>4. ASSUME NEW range \in pairs,
             LET ask == Head(book.queue["sell"][range[1]])
                 bid == Head(book.queue["buy"][range[2]])
                 execution == Min({auction.remaining, book.orders[bid].displayed,
                                   book.orders[ask].displayed})
             IN  /\ trades' = Append(trades, [maker |-> bid, quantity |-> execution])
                 /\ book' = reduce(reduce(book, bid, execution), ask, execution)
                 /\ auction' = [auction EXCEPT !.remaining = minus(@, execution)],
             UNCHANGED <<last_execution_price, phase, reports, activations, event_capacity>>
      PROVE  Inv' /\ phase' = "auction_match" /\ book'.stops = book.stops
  <2> DEFINE ask == Head(book.queue["sell"][range[1]])
             bid == Head(book.queue["buy"][range[2]])
             execution == Min({auction.remaining, book.orders[bid].displayed,
                               book.orders[ask].displayed})
             middle == reduce(book, bid, execution)
  <2>1. /\ trades' = Append(trades, [maker |-> bid, quantity |-> execution])
        /\ book' = reduce(middle, ask, execution)
        /\ auction' = [auction EXCEPT !.remaining = minus(@, execution)]
    BY <1>4
  <2>2. /\ range[1] \in book.occupancy["sell"] /\ range[2] \in book.occupancy["buy"]
        /\ range[1] \in Levels /\ range[2] \in Levels
        /\ "buy" \in Sides /\ "sell" \in Sides
    BY <1>2, RangeLevels DEF Sides
  <2> HIDE DEF pairs
  <2>3. /\ ask \in Range(book.queue["sell"][range[1]])
        /\ bid \in Range(book.queue["buy"][range[2]])
    BY <1>2, <2>2, HeadOf
  <2> HIDE DEF ask, bid
  <2>4. /\ ask \in Slots /\ book.orders[ask].kind = "resting"
        /\ book.orders[ask].side = "sell" /\ book.orders[ask].displayed \in Quantity
    BY <1>2, <2>2, <2>3, HeadRests, SMTT(30)
  <2>5. /\ bid \in Slots /\ book.orders[bid].kind = "resting"
        /\ book.orders[bid].side = "buy" /\ book.orders[bid].displayed \in Quantity
    BY <1>2, <2>2, <2>3, HeadRests, SMTT(30)
  <2>6. execution \in Quantity
    <3> DEFINE S == {auction.remaining, book.orders[bid].displayed,
                     book.orders[ask].displayed}
    <3>1. S \in SUBSET Quantity /\ S # {}
      BY <1>2, <2>4, <2>5 DEF Auction
    <3>2. S \in SUBSET Nat
      BY <3>1 DEF Quantity
    <3> HIDE DEF S
    <3>3. Min(S) \in S
      BY <3>1, <3>2, MinOfNats
    <3> QED BY <3>1, <3>3 DEF S
  <2> HIDE DEF execution
  <2>7. BookOK(middle, NoSlot) /\ Shrunk(book, middle, bid)
    BY <1>2, <2>5, <2>6, ReduceLinks
  <2> HIDE DEF middle
  <2>8. middle.orders[ask].kind = "resting" /\ middle.stops = book.stops
    BY <2>4, <2>5, <2>7 DEF Shrunk
  <2>9. BookOK(book', NoSlot) /\ book'.stops = middle.stops
    BY <2>1, <2>4, <2>6, <2>7, <2>8, ReduceLinks DEF Shrunk
  <2>10. auction' \in Auction
    BY <1>2, <2>1, <2>6, QuantityOps DEF Auction
  <2>11. trades \in Seq(Trade) /\ [maker |-> bid, quantity |-> execution] \in Trade
    BY <2>5, <2>6 DEF Inv, TypeOK, Trade
  <2>12. /\ trades' \in Seq(Trade)
         /\ \A n \in DOMAIN trades : trades'[n] = trades[n] /\ n \in DOMAIN trades'
    BY <2>1, <2>11
  <2>13. TypeOK'
    BY <1>1, <1>4, <2>9, <2>10, <2>12 DEF Inv, TypeOK, BookOK
  <2>14. CallOK'
    BY <1>1, <1>2, <1>4 DEF Inv, CallOK, Loops
  <2>15. OneReportPerMaker'
    BY <1>4, <2>12 DEF Inv, OneReportPerMaker
  <2> QED BY <1>1, <1>2, <1>4, <2>8, <2>9, <2>13, <2>14, <2>15 DEF Inv
<1> QED BY <1>1, <1>3, <1>4 DEF execute_auction_match

-----------------------------------------------------------------------------
(* The steps, by what the theorems need to know of them.                   *)

\* match() goes on with its best level, or stops at a level it does not cross.
MatchStep ==
  /\ phase = "match" /\ phase' \in Loops \cup {"settle"}
  /\ AllocationMode = "fifo" => phase' \in {"fifo", "settle"}
  /\ UNCHANGED <<book, taker, trading_state>>
  /\ phase' = "settle" /\ taker.remaining # 0 =>
       \A l \in best_index(book, MakerSide) :
         taker.limit # NoLevel /\ ~crosses(taker.side, l, taker.limit)

QuietStep ==
  /\ phase \in Loops /\ phase' \in Loops \cup {"match"}
  /\ phase = "fifo" => phase' = "match"
  /\ UNCHANGED <<book, taker, trading_state>>

ExecutionStep ==
  /\ phase \in {"pro_rata", "fifo"} /\ phase' = phase /\ taker.remaining # 0
  /\ \E maker \in Slots, execution \in Quantity :
       /\ phase = "fifo" => execution <= taker.remaining /\ ~protected(maker)
       /\ Execution(maker, execution)

StopsStep ==
  /\ phase = "stops"
  /\ book'.occupancy = book.occupancy
  /\ UNCHANGED <<last_execution_price, trading_state>>
  /\ \/ phase' = "match" /\ taker'.slot # NoSlot /\ book.stops # <<>>
     \/ /\ phase' = "idle" /\ UNCHANGED book
        /\ \A i \in DOMAIN book.stops :
             ~stop_is_triggered(book.orders[book.stops[i]].side,
                                book.orders[book.stops[i]].trigger)

AuctionMatchStep ==
  /\ phase = "auction_match" /\ phase' \in {"auction_match", "idle"}
  /\ book'.stops = book.stops /\ UNCHANGED <<taker, trading_state>>

\* Every step of a call under way is one of the named cases and preserves the
\* invariant.
LEMMA StepCases ==
  ASSUME Inv, Step
  PROVE  /\ Inv'
         /\ \/ MatchStep \/ QuietStep \/ ExecutionStep \/ Settled \/ StopsStep
            \/ AuctionStep \/ AuctionMatchStep
<1>1. CASE match
  BY <1>1, MatchInv DEF MatchStep, match
<1>2. CASE tally_displayed
  BY <1>2, TallyInv DEF QuietStep, Loops
<1>3. CASE match_level_threshold_pro_rata
  <2>1. /\ Inv' /\ phase = "pro_rata"
        /\ \/ phase' \in Loops /\ UNCHANGED <<book, taker, trading_state>>
           \/ /\ phase' = phase /\ taker.remaining # 0
              /\ \E maker \in Slots, execution \in Quantity : Execution(maker, execution)
    BY <1>3, ProRataInv
  <2> QED BY <2>1 DEF QuietStep, ExecutionStep, Loops
<1>4. CASE match_level_fifo
  <2>1. /\ Inv' /\ phase = "fifo"
        /\ \/ phase' = "match" /\ UNCHANGED <<book, taker, trading_state>>
           \/ /\ phase' = phase /\ taker.remaining # 0
              /\ \E maker \in Slots, execution \in Quantity :
                   /\ execution <= taker.remaining /\ ~protected(maker)
                   /\ Execution(maker, execution)
    BY <1>4, FifoInv
  <2> QED BY <2>1 DEF QuietStep, ExecutionStep, Loops
<1>5. CASE settle_submission
  BY <1>5, SettleSubmissionInv
<1>6. CASE settle_stop
  BY <1>6, SettleStopInv
<1>7. CASE trigger_stops
  BY <1>7, TriggerStopsInv DEF StopsStep
<1>8. CASE sum_eligible_bids
  BY <1>8, SumEligibleBidsInv, AuctionStepInv
<1>9. CASE scan_clearing_level
  BY <1>9, ScanClearingLevelInv, AuctionStepInv
<1>10. CASE execute_auction_match
  BY <1>10, AuctionMatchInv DEF AuctionMatchStep
<1> QED BY <1>1, <1>2, <1>3, <1>4, <1>5, <1>6, <1>7, <1>8, <1>9, <1>10 DEF Step

\* One step of the book, whatever it is.
AnyCase ==
  \/ BookCall \/ OrderCall \/ StopCall \/ UncrossCall
  \/ MatchStep \/ QuietStep \/ ExecutionStep \/ Settled \/ StopsStep
  \/ AuctionStep \/ AuctionMatchStep
  \/ UNCHANGED vars

\* Every step of the book is one of the named cases and preserves the invariant.
LEMMA NextCases == Inv /\ [Next]_vars => Inv' /\ AnyCase
<1> SUFFICES ASSUME Inv, [Next]_vars PROVE Inv' /\ AnyCase
  OBVIOUS
<1>1. CASE Call
  BY <1>1, CallCases DEF AnyCase
<1>2. CASE Step
  BY <1>2, StepCases DEF AnyCase
<1>3. CASE UNCHANGED vars
  BY <1>3, StutterInv DEF AnyCase
<1> QED BY <1>1, <1>2, <1>3 DEF Next

\* The inductive invariant holds in every state of the book.
LEMMA InvHolds == Spec => []Inv
<1>1. Init => Inv
  BY InitInv
<1>2. Inv /\ [Next]_vars => Inv'
  BY NextCases
<1> QED BY <1>1, <1>2, PTL DEF Spec

-----------------------------------------------------------------------------
(* The theorems.                                                           *)

\* Every variable keeps its type: no step of a call computes a quantity outside
\* 64 bits or leaves a level outside the domain.
THEOREM TypeCorrect == Spec => []TypeOK
<1>1. Inv => TypeOK
  BY DEF Inv
<1> QED BY <1>1, InvHolds, PTL

\* check_invariants() of the links holds after every step, between two
\* executions of a call included: queues, stop list and occupancy bits agree
\* with the orders.
THEOREM LinksAlwaysConsistent == Spec => []LinksConsistent
<1>1. Inv => LinksConsistent
  BY DEF Inv, BookOK, LinksConsistent
<1> QED BY <1>1, InvHolds, PTL

\* A maker has one report per match(), at the index that execute_match() keeps.
THEOREM OneReport == Spec => []OneReportPerMaker
<1>1. Inv => OneReportPerMaker
  BY DEF Inv
<1> QED BY <1>1, InvHolds, PTL

-----------------------------------------------------------------------------
(* A remainder finds a slot.                                               *)

\* The best level crosses the limit whenever any level does.
LEMMA BestCrosses ==
  ASSUME NEW b \in Book, NEW side \in Sides, NEW limit \in Levels,
         crossing_levels(b, side, limit) # {}
  PROVE  \E l \in best_index(b, opposite_side(side)) : crosses(side, l, limit)
<1> DEFINE maker == opposite_side(side)
<1>1. PICK k \in b.occupancy[maker] : crosses(side, k, limit)
  BY DEF crossing_levels
<1>2. maker \in Sides /\ opposite_side(maker) = side
  BY DEF opposite_side, Sides
<1>3. PICK l \in best_index(b, maker) : \A n \in b.occupancy[maker] : crosses(side, l, n)
  BY <1>1, <1>2, BestIndexExists
<1>4. l \in Levels /\ k \in Levels
  BY <1>2, <1>1, <1>3 DEF best_index, Book
<1> QED BY <1>1, <1>3, <1>4, DomainAssumption DEF crosses, Levels

\* A submission whose remainder may rest: a slot is free, or the loop still has
\* a maker to trade with, whose slot is free before the loop ends.
RestInv ==
  /\ phase \in Loops \cup {"match", "settle"}
  /\ taker.slot = NoSlot /\ taker.tif = "gtc" /\ taker.remaining # 0
  => \/ FreeSlots(book) # {}
     \/ phase # "settle" /\ crossing_levels(book, taker.side, taker.limit) # {}

\* No step of the book breaks the strengthening of RestHasSlot.
LEMMA RestStep == ASSUME Inv, Inv', RestInv, AnyCase PROVE RestInv'
<1>1. CASE BookCall \/ UncrossCall \/ Settled \/ AuctionStep \/ AuctionMatchStep
  BY <1>1 DEF RestInv, BookCall, UncrossCall, Settled, AuctionStep, AuctionMatchStep, Loops
<1>2. CASE OrderCall
  BY <1>2 DEF RestInv, OrderCall
<1>3. CASE StopCall \/ StopsStep
  BY <1>3 DEF RestInv, StopCall, StopsStep, Loops
<1>4. CASE QuietStep
  BY <1>4 DEF RestInv, QuietStep, Loops
<1>5. CASE MatchStep
  <2> SUFFICES ASSUME taker.slot = NoSlot, taker.tif = "gtc", taker.remaining # 0,
                      phase' = "settle"
               PROVE  FreeSlots(book) # {}
    BY <1>5 DEF RestInv, MatchStep, Loops
  <2>1. taker.limit \in Levels /\ taker.side \in Sides /\ book \in Book
    BY DEF Inv, CallOK, TypeOK, Taker
  <2>2. crossing_levels(book, taker.side, taker.limit) = {}
    BY <1>5, <2>1, BestCrosses DEF MatchStep, MakerSide
  <2> QED BY <1>5, <2>2 DEF RestInv, MatchStep
<1>6. CASE ExecutionStep
  <2> SUFFICES ASSUME taker'.slot = NoSlot, taker'.tif = "gtc"
               PROVE  \/ FreeSlots(book') # {}
                      \/ crossing_levels(book', taker'.side, taker'.limit) # {}
    BY <1>6 DEF RestInv, ExecutionStep, Loops
  <2>1. PICK maker \in Slots, execution \in Quantity : Execution(maker, execution)
    BY <1>6 DEF ExecutionStep
  <2>2. taker'.slot = taker.slot /\ taker'.limit = taker.limit
        /\ taker'.side = taker.side /\ taker'.tif = taker.tif
    BY <2>1 DEF Execution, Inv, TypeOK, Taker
  <2>3. CASE book'.orders[maker] = FreeSlot
    BY <2>3 DEF FreeSlots, FreeSlot
  <2>4. CASE book'.occupancy = book.occupancy
    <3>1. FreeSlots(book) \subseteq FreeSlots(book')
      BY <2>1 DEF Execution, Shrunk, FreeSlots
    <3>2. crossing_levels(book', taker'.side, taker'.limit)
            = crossing_levels(book, taker.side, taker.limit)
      BY <2>2, <2>4 DEF crossing_levels
    <3>3. \/ FreeSlots(book) # {}
          \/ crossing_levels(book, taker.side, taker.limit) # {}
      BY <1>6, <2>2 DEF RestInv, ExecutionStep, Loops
    <3> QED BY <3>1, <3>2, <3>3
  <2> QED BY <2>1, <2>3, <2>4 DEF Execution, Executed
<1>7. CASE UNCHANGED vars
  BY <1>7 DEF RestInv, vars
<1> QED BY <1>1, <1>2, <1>3, <1>4, <1>5, <1>6, <1>7 DEF AnyCase

\* preflight_limit() may admit a good-till-cancel order to a full arena: by the
\* time the remainder is to rest, a slot is always free.
THEOREM RestAlwaysHasSlot == Spec => []RestHasSlot
<1>1. Init => RestInv
  BY DEF Init, RestInv, Loops
<1>2. Inv /\ RestInv /\ [Next]_vars => RestInv'
  BY NextCases, RestStep
<1>3. RestInv => RestHasSlot
  BY DEF RestInv, RestHasSlot
<1> QED BY <1>1, <1>2, <1>3, InvHolds, PTL DEF Spec

-----------------------------------------------------------------------------
(* The book does not cross.                                                *)

Uncrossable(b) == \A bid \in b.occupancy["buy"], ask \in b.occupancy["sell"] : bid < ask

\* In a book without an opening auction, match() leaves a remainder only when
\* nothing it crosses is left; that is what lets the remainder rest.
UncrossedInv ==
  /\ trading_state = "continuous"
  /\ phase \notin {"auction_bids", "auction_scan", "auction_match"}
  /\ phase = "settle" /\ taker.tif = "gtc" /\ taker.remaining # 0 =>
       crossing_levels(book, taker.side, taker.limit) = {}
  /\ Uncrossable(book)

\* No step of the book breaks the strengthening of Uncrossed.
LEMMA UncrossedStep == ASSUME Inv, Inv', UncrossedInv, AnyCase PROVE UncrossedInv'
<1>1. CASE BookCall
  BY <1>1 DEF UncrossedInv, BookCall, Narrowed, Uncrossable, Sides
<1>2. CASE OrderCall
  BY <1>2 DEF UncrossedInv, OrderCall, Narrowed, Uncrossable, Sides
<1>3. CASE StopCall \/ StopsStep
  BY <1>3 DEF UncrossedInv, StopCall, StopsStep, Uncrossable
<1>4. CASE UncrossCall \/ AuctionStep \/ AuctionMatchStep
  BY <1>4 DEF UncrossedInv, UncrossCall, AuctionStep, AuctionMatchStep
<1>5. CASE QuietStep
  BY <1>5 DEF UncrossedInv, QuietStep, Loops
<1>6. CASE MatchStep
  <2>1. taker.tif = "gtc" => taker.limit \in Levels /\ taker.side \in Sides /\ book \in Book
    BY DEF Inv, CallOK, TypeOK, Taker
  <2>2. phase' = "settle" /\ taker.tif = "gtc" /\ taker.remaining # 0 =>
          crossing_levels(book, taker.side, taker.limit) = {}
    BY <1>6, <2>1, BestCrosses DEF MatchStep, MakerSide
  <2> QED BY <1>6, <2>2 DEF UncrossedInv, MatchStep, Loops
<1>7. CASE ExecutionStep
  <2>1. PICK maker \in Slots, execution \in Quantity : Execution(maker, execution)
    BY <1>7 DEF ExecutionStep
  <2>2. Uncrossable(book')
    BY <2>1 DEF UncrossedInv, Uncrossable, Execution, Shrunk, Sides
  <2>3. UNCHANGED trading_state
    BY <2>1 DEF Execution
  <2> QED BY <1>7, <2>2, <2>3 DEF UncrossedInv, ExecutionStep
<1>8. CASE Settled
  <2>1. CASE book'.occupancy = book.occupancy
    BY <1>8, <2>1 DEF UncrossedInv, Settled, Uncrossable
  <2>2. CASE Rests
    <3>1. /\ taker.side \in Sides /\ book.occupancy \in [Sides -> SUBSET Levels]
          /\ taker.limit \in Levels
      BY <2>2 DEF Inv, TypeOK, Taker, Book, Rests
    <3>2. \A l \in book.occupancy[opposite_side(taker.side)] :
            ~crosses(taker.side, l, taker.limit)
      BY <1>8, <2>2 DEF UncrossedInv, Settled, Rests, crossing_levels
    <3>3. CASE taker.side = "buy"
      <4>1. /\ book'.occupancy["buy"] = book.occupancy["buy"] \cup {taker.limit}
            /\ book'.occupancy["sell"] = book.occupancy["sell"]
        BY <2>2, <3>1, <3>3 DEF Rests, Sides
      <4>2. \A ask \in book.occupancy["sell"] : taker.limit < ask
        BY <3>1, <3>2, <3>3, DomainAssumption DEF opposite_side, crosses, Levels, Sides
      <4> QED BY <1>8, <4>1, <4>2 DEF UncrossedInv, Settled, Uncrossable
    <3>4. CASE taker.side = "sell"
      <4>1. /\ book'.occupancy["sell"] = book.occupancy["sell"] \cup {taker.limit}
            /\ book'.occupancy["buy"] = book.occupancy["buy"]
        BY <2>2, <3>1, <3>4 DEF Rests, Sides
      <4>2. \A bid \in book.occupancy["buy"] : bid < taker.limit
        BY <3>1, <3>2, <3>4, DomainAssumption DEF opposite_side, crosses, Levels, Sides
      <4> QED BY <1>8, <4>1, <4>2 DEF UncrossedInv, Settled, Uncrossable
    <3> QED BY <3>1, <3>3, <3>4 DEF Sides
  <2> QED BY <1>8, <2>1, <2>2 DEF Settled
<1>9. CASE UNCHANGED vars
  BY <1>9 DEF UncrossedInv, vars
<1> QED BY <1>1, <1>2, <1>3, <1>4, <1>5, <1>6, <1>7, <1>8, <1>9 DEF AnyCase

\* A book that opens in continuous trading is never crossed, whatever orders
\* rest, trade, trigger, are amended or are replaced.
THEOREM NeverCrossed ==
  ASSUME InitialState = "continuous"
  PROVE  Spec => []Uncrossed
<1>1. Init => UncrossedInv
  BY DEF Init, UncrossedInv, Uncrossable, Sides
<1>2. Inv /\ UncrossedInv /\ [Next]_vars => UncrossedInv'
  BY NextCases, UncrossedStep
<1>3. UncrossedInv => Uncrossed
  BY DEF UncrossedInv, Uncrossable, Uncrossed
<1> QED BY <1>1, <1>2, <1>3, InvHolds, PTL DEF Spec

-----------------------------------------------------------------------------
(* The cascade of stops.                                                   *)

\* An opening auction changes the last price without triggering stops; it can,
\* because no stop is accepted before it.
StopsInv ==
  /\ StopsSettled
  /\ \/ trading_state = "opening_auction"
     \/ phase \in {"auction_bids", "auction_scan", "auction_match"}
     => book.stops = <<>>

\* No step of the book breaks the strengthening of StopsSettled.
LEMMA StopsStepInv == ASSUME Inv, Inv', StopsInv, AnyCase PROVE StopsInv'
<1>1. book.stops \in Seq(Slots) /\ book'.stops \in Seq(Slots)
  BY DEF Inv, TypeOK, Book
<1>2. CASE BookCall
  <2>1. \A s \in Range(book.stops) :
          ~stop_is_triggered(book.orders[s].side, book.orders[s].trigger)
    BY <1>2 DEF StopsInv, StopsSettled, BookCall, Range
  <2>2. \A s \in Range(book'.stops) :
          ~stop_is_triggered(book'.orders[s].side, book'.orders[s].trigger)
    BY <1>2, <2>1 DEF BookCall
  <2>3. StopsSettled'
    BY <1>2, <2>2 DEF StopsSettled, Range, BookCall, stop_is_triggered
  <2>4. trading_state = "opening_auction" => book'.stops = <<>>
    <3>1. trading_state = "opening_auction" => Range(book.stops) = {}
      BY <1>1, EmptyElements DEF StopsInv
    <3>2. trading_state = "opening_auction" => Range(book'.stops) = {}
      BY <1>2, <3>1 DEF BookCall
    <3> QED BY <1>1, <3>2, EmptyElements
  <2> QED BY <1>2, <2>3, <2>4 DEF StopsInv, BookCall
<1>3. CASE OrderCall \/ StopCall
  BY <1>3 DEF StopsInv, StopsSettled, OrderCall, StopCall
<1>4. CASE UncrossCall
  BY <1>4 DEF StopsInv, StopsSettled, UncrossCall
<1>5. CASE MatchStep \/ QuietStep
  BY <1>5 DEF StopsInv, StopsSettled, MatchStep, QuietStep, Loops
<1>6. CASE ExecutionStep
  BY <1>6 DEF StopsInv, StopsSettled, ExecutionStep, Execution, Shrunk
<1>7. CASE Settled
  BY <1>7 DEF StopsInv, StopsSettled, Settled
<1>8. CASE StopsStep
  BY <1>8 DEF StopsInv, StopsSettled, StopsStep, stop_is_triggered
<1>9. CASE AuctionStep
  BY <1>9 DEF StopsInv, StopsSettled, AuctionStep
<1>10. CASE AuctionMatchStep
  BY <1>10 DEF StopsInv, StopsSettled, AuctionMatchStep
<1>11. CASE UNCHANGED vars
  BY <1>11 DEF StopsInv, StopsSettled, vars, stop_is_triggered
<1> QED BY <1>2, <1>3, <1>4, <1>5, <1>6, <1>7, <1>8, <1>9, <1>10, <1>11 DEF AnyCase

\* When a call returns, no dormant stop is triggered by the last execution.
THEOREM StopsAlwaysSettled == Spec => []StopsSettled
<1>1. Init => StopsInv
  BY DEF Init, StopsInv, StopsSettled
<1>2. Inv /\ StopsInv /\ [Next]_vars => StopsInv'
  BY NextCases, StopsStepInv
<1>3. StopsInv => StopsSettled
  BY DEF StopsInv
<1> QED BY <1>1, <1>2, <1>3, InvHolds, PTL DEF Spec

-----------------------------------------------------------------------------
(* First-in-first-out allocation.                                          *)

\* Without proportional allocation its two passes never run.
FifoPhases == phase \notin {"tally", "pro_rata"}

\* A book that allocates by FIFO never enters a phase of the proportional pass.
LEMMA FifoPhasesHold ==
  ASSUME AllocationMode = "fifo"
  PROVE  Spec => []FifoPhases
<1>1. Init => FifoPhases
  BY DEF Init, FifoPhases
<1>2. Inv /\ FifoPhases /\ [Next]_vars => FifoPhases'
  <2> SUFFICES ASSUME AnyCase, FifoPhases PROVE FifoPhases'
    BY NextCases
  <2>1. CASE BookCall \/ OrderCall \/ StopCall \/ UncrossCall \/ UNCHANGED vars
    BY <2>1 DEF FifoPhases, BookCall, OrderCall, StopCall, UncrossCall, vars
  <2>2. CASE MatchStep \/ QuietStep \/ ExecutionStep
    BY <2>2 DEF FifoPhases, MatchStep, QuietStep, ExecutionStep, Loops
  <2>3. CASE Settled \/ StopsStep \/ AuctionStep \/ AuctionMatchStep
    BY <2>3 DEF FifoPhases, Settled, StopsStep, AuctionStep, AuctionMatchStep
  <2> QED BY <2>1, <2>2, <2>3 DEF AnyCase
<1> QED BY <1>1, <1>2, InvHolds, PTL DEF Spec

\* A step of the matching loops under first-in-first-out allocation.
LEMMA FifoMatching ==
  ASSUME Inv, FifoPhases, AnyCase, Matching
  PROVE  \/ UNCHANGED <<book, taker>>
         \/ \E maker \in Slots, execution \in Quantity :
              /\ execution <= taker.remaining /\ ~protected(maker)
              /\ Execution(maker, execution)
<1>1. ~(BookCall \/ OrderCall \/ StopCall \/ UncrossCall \/ Settled \/ StopsStep
          \/ AuctionStep \/ AuctionMatchStep)
  BY DEF Matching, BookCall, OrderCall, StopCall, UncrossCall, Settled, StopsStep,
         AuctionStep, AuctionMatchStep
<1>2. CASE MatchStep \/ QuietStep \/ UNCHANGED vars
  BY <1>2 DEF MatchStep, QuietStep, vars
<1>3. CASE ExecutionStep
  BY <1>3 DEF ExecutionStep, FifoPhases
<1> QED BY <1>1, <1>2, <1>3 DEF AnyCase

\* Under first-in-first-out allocation no call executes more than was asked for.
THEOREM FifoNeverOverfills ==
  ASSUME AllocationMode = "fifo"
  PROVE  Spec => NoOverfill
<1>1. Inv /\ FifoPhases /\ [Next]_vars =>
        [Matching => taker'.remaining <= taker.remaining]_vars
  <2> SUFFICES ASSUME Inv, FifoPhases, AnyCase, Matching
               PROVE  taker'.remaining <= taker.remaining
    BY NextCases
  <2>1. taker \in Taker /\ taker.remaining \in Quantity
    BY DEF Inv, TypeOK, Taker
  <2>2. CASE UNCHANGED <<book, taker>>
    BY <2>1, <2>2 DEF Quantity
  <2>3. ASSUME NEW maker \in Slots, NEW execution \in Quantity,
               execution <= taker.remaining, Execution(maker, execution)
        PROVE  taker'.remaining <= taker.remaining
    <3>1. taker'.remaining = minus(taker.remaining, execution)
      BY <2>1, <2>3 DEF Execution, Taker
    <3> QED BY <2>1, <2>3, <3>1 DEF Quantity, minus
  <2> QED BY <2>2, <2>3, FifoMatching
<1> QED BY <1>1, InvHolds, FifoPhasesHold, PTL DEF Spec, NoOverfill

\* Under first-in-first-out allocation and cancel_taker no order trades with an
\* order of its own trader.
THEOREM FifoNeverSelfTrades ==
  ASSUME AllocationMode = "fifo"
  PROVE  Spec => NoSelfTrade
<1> DEFINE Kept == Matching /\ SelfTradePolicy = "cancel_taker" =>
                     \A s \in Slots :
                       /\ book.orders[s].kind = "resting"
                       /\ book'.orders[s].remaining # book.orders[s].remaining
                       => book.orders[s].trader # taker.trader
<1>1. Inv /\ FifoPhases /\ [Next]_vars => Kept
  <2> SUFFICES ASSUME Inv, FifoPhases, AnyCase, Matching, SelfTradePolicy = "cancel_taker",
                      NEW s \in Slots, book'.orders[s].remaining # book.orders[s].remaining
               PROVE  book.orders[s].trader # taker.trader
    BY NextCases
  <2>1. CASE UNCHANGED <<book, taker>>
    BY <2>1
  <2>2. ASSUME NEW maker \in Slots, NEW execution \in Quantity, ~protected(maker),
               Execution(maker, execution)
        PROVE  book.orders[s].trader # taker.trader
    <3>1. s = maker
      BY <2>2 DEF Execution, Shrunk
    <3> QED BY <2>2, <3>1 DEF protected
  <2> QED BY <2>1, <2>2, FifoMatching
<1> QED BY <1>1, InvHolds, FifoPhasesHold, PTL DEF Spec, NoSelfTrade
=============================================================================
