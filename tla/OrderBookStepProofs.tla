------------------------ MODULE OrderBookStepProofs -------------------------
(* The steps of the matching loops and of the stop cascade preserve the    *)
(* invariant.                                                              *)
EXTENDS OrderBookProofs

\* What one execution changes: one order of the level, the taker's remainder
\* and the reports.
Execution(maker, execution) ==
  /\ BookOK(book', taker.slot)
  /\ maker \in Slots /\ book.orders[maker].kind = "resting"
  /\ Shrunk(book, book', maker)
  /\ Executed(book, book', maker, execution)
  /\ taker' \in Taker
  /\ taker' = [taker EXCEPT !.remaining = minus(taker.remaining, execution)]
  /\ trades' \in Seq(Trade)
  /\ reports' \in [Slots -> Nat]
  /\ OneReportPerMaker'
  /\ last_execution_price' \in Levels
  /\ taker.slot # NoSlot => book'.orders[taker.slot].kind = "stop"
  /\ UNCHANGED <<trading_state, auction, activations, event_capacity>>

\* execute_match of a maker at the best level is one execution: the maker is
\* filled, reduced or replenished, and reported.
LEMMA ExecuteMatchInv ==
  ASSUME Inv, phase \in Loops, NEW maker \in Range(LevelQueue), NEW execution \in Quantity,
         execute_match(maker, execution)
  PROVE  Execution(maker, execution)
<1>1. /\ BookOK(book, taker.slot) /\ taker \in Taker /\ pass.level \in Levels
      /\ trades \in Seq(Trade) /\ reports \in [Slots -> Nat] /\ OneReportPerMaker
      /\ MakerSide \in Sides
  BY OppositeSide DEF Inv, TypeOK, CallOK, MakerSide, Taker
<1>2. maker \in Slots /\ book.orders[maker].kind = "resting"
  BY <1>1, HeadRests DEF LevelQueue
<1>3. /\ book' = reduce(book, maker, execution)
      /\ taker' = [taker EXCEPT !.remaining = minus(taker.remaining, execution)]
      /\ last_execution_price' = pass.level
      /\ UNCHANGED <<trading_state, auction, activations, event_capacity>>
  BY DEF execute_match
<1>4. BookOK(book', taker.slot) /\ Shrunk(book, book', maker)
      /\ Executed(book, book', maker, execution)
  BY <1>1, <1>2, <1>3, ReduceLinks
<1>5. taker' \in Taker
  BY <1>1, <1>3, QuantityOps DEF Taker
<1>6. taker.slot # NoSlot => book'.orders[taker.slot].kind = "stop"
  BY <1>1, <1>2, <1>4 DEF Inv, CallOK, Shrunk, Taker
<1>7. trades' \in Seq(Trade) /\ reports' \in [Slots -> Nat] /\ OneReportPerMaker'
  <2>1. CASE reports[maker] # 0
    <3> DEFINE i == reports[maker]
               entry == [trades[i] EXCEPT !.quantity = plus(trades[i].quantity, execution)]
    <3>1. trades' = [trades EXCEPT ![i] = entry] /\ reports' = reports
      BY <2>1 DEF execute_match, report
    <3>2. i \in 1 .. Len(trades) /\ trades[i] \in Trade
      BY <1>1, <1>2, <2>1 DEF OneReportPerMaker
    <3>3. entry \in Trade /\ entry.maker = trades[i].maker
      BY <3>2, QuantityOps DEF Trade
    <3> HIDE DEF entry, i
    <3>4. trades' \in Seq(Trade) /\ DOMAIN trades' = DOMAIN trades
      BY <1>1, <3>1, <3>2, <3>3
    <3>5. \A n \in DOMAIN trades : trades'[n].maker = trades[n].maker
      BY <1>1, <3>1, <3>2, <3>3
    <3> QED BY <1>1, <3>1, <3>4, <3>5 DEF OneReportPerMaker
  <2>2. CASE reports[maker] = 0
    <3> DEFINE entry == [maker |-> maker, quantity |-> execution]
    <3>1. trades' = Append(trades, entry) /\ reports' = [reports EXCEPT ![maker] = Len(trades) + 1]
      BY <2>2 DEF execute_match, report
    <3>2. entry \in Trade /\ entry.maker = maker
      BY <1>2 DEF Trade
    <3> HIDE DEF entry
    <3>3. /\ trades' \in Seq(Trade) /\ DOMAIN trades' = 1 .. Len(trades) + 1
          /\ trades'[Len(trades) + 1] = entry
          /\ \A n \in DOMAIN trades : trades'[n] = trades[n] /\ n \in DOMAIN trades'
          /\ Len(trades) \in Nat
      BY <1>1, <3>1, <3>2
    <3>4. ASSUME NEW s \in Slots, reports'[s] # 0
          PROVE  reports'[s] \in DOMAIN trades' /\ trades'[reports'[s]].maker = s
      <4>1. CASE s = maker
        BY <1>1, <1>2, <3>1, <3>2, <3>3, <4>1
      <4>2. CASE s # maker
        BY <1>1, <1>2, <3>1, <3>3, <3>4, <4>2 DEF OneReportPerMaker
      <4> QED BY <4>1, <4>2
    <3> QED BY <1>1, <1>2, <3>1, <3>3, <3>4 DEF OneReportPerMaker
  <2> QED BY <2>1, <2>2
<1> QED BY <1>1, <1>2, <1>3, <1>4, <1>5, <1>6, <1>7 DEF Execution

\* The level a match() loop enters: occupied, and crossed by the taker.
LEMMA MatchInv ==
  ASSUME Inv, match
  PROVE  /\ Inv'
         /\ UNCHANGED <<book, taker, trading_state>>
         /\ phase' \in Loops \cup {"settle"}
         /\ AllocationMode = "fifo" => phase' \in {"fifo", "settle"}
         /\ phase' = "settle" /\ taker.remaining # 0 =>
              \A l \in best_index(book, MakerSide) :
                taker.limit # NoLevel /\ ~crosses(taker.side, l, taker.limit)
<1>1. /\ phase = "match" /\ UNCHANGED <<book, last_execution_price, auction, trading_state,
                                        taker, trades, reports, activations, event_capacity>>
  BY DEF match
<1>2. BookOK(book, taker.slot) /\ MakerSide \in Sides
  BY OppositeSide DEF Inv, TypeOK, MakerSide, Taker
<1>3. CASE phase' = "settle" /\ UNCHANGED pass
  <2>1. TypeOK'
    BY <1>1, <1>3 DEF Inv, TypeOK, Phases
  <2>2. CallOK'
    BY <1>1, <1>3 DEF Inv, CallOK, Loops
  <2>3. BookOK(book', taker'.slot) /\ OneReportPerMaker'
    BY <1>1 DEF Inv, OneReportPerMaker
  <2> QED BY <1>1, <1>3, <2>1, <2>2, <2>3 DEF Inv, match
<1>4. CASE ~(phase' = "settle" /\ UNCHANGED pass)
  <2>1. PICK level \in best_index(book, MakerSide) :
          /\ taker.limit = NoLevel \/ crosses(taker.side, level, taker.limit)
          /\ pass' = [NoPass EXCEPT !.level = level,
                                    !.cursor = Head(book.queue[MakerSide][level])]
          /\ phase' = IF AllocationMode = "threshold_pro_rata" THEN "tally" ELSE "fifo"
    BY <1>4 DEF match
  <2> DEFINE head == Head(book.queue[MakerSide][level])
  <2>2. level \in book.occupancy[MakerSide]
    BY <2>1 DEF best_index
  <2>3. level \in Levels /\ book.queue[MakerSide][level] # <<>>
        /\ head \in Range(book.queue[MakerSide][level])
    BY <1>2, <2>2, HeadOf
  <2>4. head \in Slots
    BY <1>2, <2>3, HeadRests, SMTT(30)
  <2> HIDE DEF head
  <2>5. /\ pass' \in Pass /\ pass'.level = level /\ pass'.cursor = head
    BY <2>1, <2>3, <2>4, NoPassType DEF Pass, head
  <2>6. TypeOK'
    BY <1>1, <2>1, <2>5 DEF Inv, TypeOK, Phases
  <2>7. LevelQueue' = book.queue[MakerSide][level] /\ MakerSide' = MakerSide
    BY <1>1, <2>5 DEF LevelQueue, MakerSide
  <2>8. CallOK'
    BY <1>1, <2>1, <2>3, <2>5, <2>7 DEF Inv, CallOK, Loops
  <2>9. BookOK(book', taker'.slot) /\ OneReportPerMaker'
    BY <1>1 DEF Inv, OneReportPerMaker
  <2> QED BY <1>1, <2>1, <2>6, <2>8, <2>9 DEF Inv, Loops
<1> QED BY <1>3, <1>4

\* Counting the displayed quantity of a level preserves the invariant and changes
\* no order.
LEMMA TallyInv ==
  ASSUME Inv, tally_displayed
  PROVE  /\ Inv'
         /\ phase = "tally" /\ phase' \in Loops
         /\ UNCHANGED <<book, taker, trading_state>>
<1>1. /\ phase = "tally"
      /\ UNCHANGED <<book, last_execution_price, trading_state, taker, auction, trades,
                     reports, activations, event_capacity>>
  BY DEF tally_displayed
<1>2. /\ BookOK(book, taker.slot) /\ MakerSide \in Sides /\ pass \in Pass
      /\ pass.level \in Levels /\ taker \in Taker
      /\ pass.cursor # NoSlot => pass.cursor \in Range(LevelQueue)
      /\ LevelQueue # <<>>
  BY <1>1, OppositeSide DEF Inv, TypeOK, MakerSide, Taker, CallOK, Loops
<1>3. /\ LevelQueue \in Seq(Slots) /\ IsInjective(LevelQueue)
      /\ Range(LevelQueue) \subseteq Slots
  BY <1>2, EmptyElements, SMTT(30) DEF BookOK, Book, QueueLinked, LevelQueue
<1>4. Head(LevelQueue) \in Range(LevelQueue)
  BY <1>2, <1>3, EmptyElements
<1>5. /\ pass' \in Pass /\ pass'.level = pass.level
      /\ pass'.cursor # NoSlot => pass'.cursor \in Range(LevelQueue)
      /\ \/ phase' = "fifo"
         \/ phase' = "pro_rata" /\ pass'.total # 0
         \/ phase' = "tally"
  <2>1. CASE /\ pass' = [pass EXCEPT !.end = pass.cursor,
                                     !.cursor = Head(LevelQueue),
                                     !.quantity = taker.remaining]
             /\ phase' = IF pass.total = 0 THEN "fifo" ELSE "pro_rata"
    BY <1>2, <1>3, <1>4, <2>1 DEF Pass, Taker
  <2>2. CASE /\ pass.cursor # NoSlot
             /\ pass' = [pass EXCEPT !.total = @ + book.orders[pass.cursor].displayed,
                                     !.cursor = next_index(LevelQueue, pass.cursor)]
             /\ UNCHANGED phase
    <3>1. book.orders[pass.cursor].displayed \in Nat
      BY <1>2, <2>2, HeadRests, QuantityAssumption DEF LevelQueue, Quantity
    <3>2. next_index(LevelQueue, pass.cursor) # NoSlot =>
            next_index(LevelQueue, pass.cursor) \in Range(LevelQueue)
      BY <1>3, NextIndex
    <3> DEFINE next == next_index(LevelQueue, pass.cursor)
               total == pass.total + book.orders[pass.cursor].displayed
    <3>3. next \in Slots \cup {NoSlot} /\ total \in Nat
      BY <1>2, <1>3, <3>1, <3>2, SMTT(30) DEF Pass
    <3>4. pass' = [pass EXCEPT !.total = total, !.cursor = next]
      BY <2>2
    <3> HIDE DEF next, total
    <3>5. pass' \in Pass /\ pass'.level = pass.level /\ pass'.cursor = next
      BY <1>2, <3>3, <3>4 DEF Pass
    <3> QED BY <1>1, <2>2, <3>2, <3>5 DEF next
  <2> QED BY <2>1, <2>2 DEF tally_displayed
<1>6. LevelQueue' = LevelQueue
  BY <1>1, <1>5 DEF LevelQueue, MakerSide
<1>7. TypeOK'
  BY <1>1, <1>5 DEF Inv, TypeOK, Phases
<1>8. CallOK'
  BY <1>1, <1>2, <1>5, <1>6 DEF Inv, CallOK, Loops
<1> QED BY <1>1, <1>5, <1>7, <1>8 DEF Inv, OneReportPerMaker, Loops

\* A proportional share is at most what the maker displays.
LEMMA ShareType ==
  ASSUME Inv, phase = "pro_rata", pass.cursor # NoSlot
  PROVE  pro_rata_share(pass.cursor) \in Quantity
<1>1. /\ BookOK(book, taker.slot) /\ MakerSide \in Sides /\ pass \in Pass
      /\ pass.level \in Levels /\ pass.cursor \in Range(LevelQueue) /\ pass.total # 0
  BY OppositeSide DEF Inv, TypeOK, MakerSide, Taker, CallOK, Loops
<1> DEFINE displayed == book.orders[pass.cursor].displayed
           quotient == (displayed * pass.quantity) \div pass.total
<1>2. displayed \in Quantity
  BY <1>1, HeadRests DEF LevelQueue
<1>3. displayed \in Nat /\ pass.quantity \in Nat /\ pass.total \in Nat \ {0}
  BY <1>1, <1>2 DEF Pass, Quantity
<1> HIDE DEF displayed
<1>4. quotient \in Nat
  <2>1. displayed * pass.quantity \in Nat
    BY <1>3
  <2> QED BY <1>3, <2>1
<1> HIDE DEF quotient
<1>5. Min({quotient, displayed}) \in 0 .. displayed
  BY <1>3, <1>4, MinOfPair
<1>6. 0 .. displayed \subseteq Quantity /\ 0 \in Quantity
  BY <1>2, QuantityAssumption DEF Quantity
<1> QED BY <1>5, <1>6 DEF pro_rata_share, displayed, quotient

\* A step of the proportional pass preserves the invariant: it executes one maker
\* or moves on.
LEMMA ProRataInv ==
  ASSUME Inv, match_level_threshold_pro_rata
  PROVE  /\ Inv'
         /\ phase = "pro_rata"
         /\ \/ phase' \in Loops /\ UNCHANGED <<book, taker, trading_state>>
            \/ /\ phase' = phase /\ taker.remaining # 0
               /\ \E maker \in Slots, execution \in Quantity : Execution(maker, execution)
<1>1. phase = "pro_rata"
  BY DEF match_level_threshold_pro_rata
<1>2. /\ BookOK(book, taker.slot) /\ MakerSide \in Sides /\ pass \in Pass
      /\ pass.level \in Levels
      /\ pass.cursor # NoSlot => pass.cursor \in Range(LevelQueue)
  BY <1>1, OppositeSide DEF Inv, TypeOK, MakerSide, Taker, CallOK, Loops
<1>3. CASE /\ phase' = "fifo"
           /\ UNCHANGED <<book, last_execution_price, auction, trading_state, taker, pass,
                          trades, reports, activations, event_capacity>>
  <2>1. TypeOK' /\ CallOK'
    BY <1>1, <1>3 DEF Inv, TypeOK, Phases, CallOK, Loops
  <2> QED BY <1>1, <1>3, <2>1 DEF Inv, OneReportPerMaker, Loops
<1>4. CASE /\ pass.cursor # NoSlot /\ taker.remaining # 0
           /\ pass' = [pass EXCEPT !.cursor = next_index(LevelQueue, pass.cursor)]
           /\ UNCHANGED phase
           /\ IF pro_rata_share(pass.cursor) # 0
              THEN execute_match(pass.cursor, pro_rata_share(pass.cursor))
              ELSE UNCHANGED <<book, last_execution_price, auction, trading_state, taker,
                               trades, reports, activations, event_capacity>>
  <2> DEFINE next == next_index(LevelQueue, pass.cursor)
  <2>1. /\ LevelQueue \in Seq(Slots) /\ IsInjective(LevelQueue)
        /\ Range(LevelQueue) \subseteq Slots
    BY <1>2, EmptyElements, SMTT(30) DEF BookOK, Book, QueueLinked, LevelQueue
  <2>2. next # NoSlot => next \in Range(LevelQueue) \ {pass.cursor}
    BY <2>1, NextIndex
  <2> HIDE DEF next
  <2>3. /\ pass' \in Pass /\ pass'.level = pass.level /\ pass'.cursor = next
        /\ pass'.total = pass.total
    BY <1>2, <1>4, <2>1, <2>2 DEF Pass, next
  <2>4. CASE UNCHANGED <<book, last_execution_price, auction, trading_state, taker,
                         trades, reports, activations, event_capacity>>
    <3>1. LevelQueue' = LevelQueue
      BY <2>3, <2>4 DEF LevelQueue, MakerSide
    <3>2. TypeOK' /\ CallOK'
      BY <1>1, <1>4, <2>2, <2>3, <2>4, <3>1 DEF Inv, TypeOK, Phases, CallOK, Loops
    <3> QED BY <1>1, <1>4, <2>4, <3>2 DEF Inv, OneReportPerMaker, Loops
  <2>5. CASE execute_match(pass.cursor, pro_rata_share(pass.cursor))
    <3>1. Execution(pass.cursor, pro_rata_share(pass.cursor))
      BY <1>1, <1>2, <1>4, <2>5, ExecuteMatchInv, ShareType DEF Loops
    <3>2. pro_rata_share(pass.cursor) \in Quantity /\ pass.cursor \in Slots
      BY <1>1, <1>2, <1>4, <2>1, ShareType
    <3>3. taker'.slot = taker.slot /\ taker'.limit = taker.limit
          /\ taker'.side = taker.side /\ taker'.tif = taker.tif
      BY <3>1 DEF Execution, Inv, TypeOK, Taker
    <3>4. next # NoSlot => next \in Range(LevelQueue')
      <4>1. LevelQueue' = book'.queue[MakerSide][pass.level] /\ MakerSide' = MakerSide
        BY <2>3, <3>3 DEF LevelQueue, MakerSide
      <4>2. next # NoSlot => book'.orders[next] = book.orders[next] /\ next \in Slots
        BY <2>1, <2>2, <3>1 DEF Execution, Shrunk
      <4>3. QueueLinked(book, MakerSide, pass.level) /\ QueueLinked(book', MakerSide, pass.level)
        BY <1>2, <3>1 DEF Execution, BookOK
      <4> QED BY <2>2, <4>1, <4>2, <4>3 DEF QueueLinked, LevelQueue
    <3>5. TypeOK'
      BY <1>1, <1>4, <2>3, <3>1 DEF Execution, Inv, TypeOK, Phases, BookOK
    <3>6. CallOK'
      BY <1>1, <1>4, <2>3, <3>1, <3>3, <3>4 DEF Execution, Inv, CallOK, Loops
    <3> QED BY <1>1, <1>4, <3>1, <3>2, <3>3, <3>5, <3>6 DEF Execution, Inv, Loops
  <2> QED BY <1>4, <2>4, <2>5
<1> QED BY <1>3, <1>4, Zenon DEF match_level_threshold_pro_rata

\* A step of the FIFO pass preserves the invariant: it executes an unprotected
\* maker for no more than the taker has left, or moves on.
LEMMA FifoInv ==
  ASSUME Inv, match_level_fifo
  PROVE  /\ Inv'
         /\ phase = "fifo"
         /\ \/ phase' = "match" /\ UNCHANGED <<book, taker, trading_state>>
            \/ /\ phase' = phase /\ taker.remaining # 0
               /\ \E maker \in Slots, execution \in Quantity :
                    /\ execution <= taker.remaining /\ ~protected(maker)
                    /\ Execution(maker, execution)
<1>1. phase = "fifo"
  BY DEF match_level_fifo
<1>2. /\ BookOK(book, taker.slot) /\ MakerSide \in Sides /\ pass \in Pass
      /\ pass.level \in Levels /\ taker.remaining \in Quantity
  BY <1>1, OppositeSide DEF Inv, TypeOK, MakerSide, Taker, CallOK, Loops
<1>3. CASE /\ phase' = "match" /\ pass' = NoPass
           /\ UNCHANGED <<book, last_execution_price, auction, trading_state, taker,
                          trades, reports, activations, event_capacity>>
  <2>1. TypeOK' /\ CallOK'
    BY <1>1, <1>3, NoPassType DEF Inv, TypeOK, Phases, CallOK, Loops
  <2> QED BY <1>1, <1>3, <2>1 DEF Inv, OneReportPerMaker, Loops
<1>4. CASE ~(phase' = "match" /\ pass' = NoPass)
  <2> DEFINE maker == Head(LevelQueue)
             execution == Min({taker.remaining, book.orders[maker].displayed})
  <2>1. /\ LevelQueue # <<>> /\ execute_match(maker, execution) /\ UNCHANGED <<phase, pass>>
        /\ taker.remaining # 0 /\ ~protected(maker)
    BY <1>4 DEF match_level_fifo, fifo_execution
  <2>2. LevelQueue \in Seq(Slots)
    BY <1>2 DEF BookOK, Book, LevelQueue
  <2>3. maker \in Range(LevelQueue) /\ Range(LevelQueue) \subseteq Slots
    BY <2>1, <2>2, EmptyElements
  <2>4. book.orders[maker].displayed \in Quantity
    BY <1>2, <2>3, HeadRests DEF LevelQueue
  <2>5. execution \in Quantity /\ execution <= taker.remaining
    BY <1>2, <2>4, MinOfPair DEF Quantity
  <2> HIDE DEF maker, execution
  <2>6. Execution(maker, execution)
    BY <1>1, <2>1, <2>3, <2>5, ExecuteMatchInv DEF Loops
  <2>7. taker'.slot = taker.slot /\ taker'.limit = taker.limit
        /\ taker'.side = taker.side /\ taker'.tif = taker.tif
    BY <2>6 DEF Execution, Inv, TypeOK, Taker
  <2>8. TypeOK'
    BY <1>1, <2>1, <2>6 DEF Execution, Inv, TypeOK, Phases, BookOK
  <2>9. CallOK'
    BY <1>1, <2>1, <2>6, <2>7 DEF Execution, Inv, CallOK, Loops
  <2> QED BY <1>1, <2>1, <2>3, <2>5, <2>6, <2>7, <2>8, <2>9 DEF Execution, Inv, Loops
<1> QED BY <1>3, <1>4, Zenon DEF match_level_fifo

\* The remainder of the taker rests at its limit.
Rests ==
  /\ taker.limit \in Levels /\ taker.tif = "gtc" /\ taker.remaining # 0
  /\ book'.occupancy = [book.occupancy EXCEPT ![taker.side] = @ \cup {taker.limit}]

Settled ==
  /\ phase = "settle" /\ phase' = "stops"
  /\ book'.stops = book.stops
  /\ book'.occupancy = book.occupancy \/ Rests
  /\ UNCHANGED <<last_execution_price, trading_state>>

\* Resting or dropping what a submission has left preserves the invariant; only
\* resting adds to the occupancy.
LEMMA SettleSubmissionInv ==
  ASSUME Inv, settle_submission
  PROVE  Inv' /\ Settled
<1>1. /\ phase = "settle" /\ phase' = "stops" /\ taker' = NoTaker /\ taker.slot = NoSlot
      /\ UNCHANGED <<last_execution_price, auction, trading_state, pass, trades, reports,
                     activations, event_capacity>>
  BY DEF settle_submission
<1>2. BookOK(book, NoSlot) /\ taker \in Taker
  BY <1>1 DEF Inv, TypeOK
<1>3. /\ BookOK(book', NoSlot) /\ book'.stops = book.stops
      /\ book'.occupancy = book.occupancy \/ Rests
  <2>1. CASE taker.tif = "gtc" /\ taker.remaining # 0
    <3> DEFINE display == Min({taker.display, taker.remaining})
    <3>1. PICK slot \in FreeSlots(book) :
            book' = rest(book, slot, taker.trader, taker.side, taker.limit,
                         taker.remaining, display)
      BY <2>1 DEF settle_submission
    <3>2. display \in Quantity
      BY <1>2, MinOfPair DEF Taker, Quantity
    <3> HIDE DEF display
    <3>3. slot \in Slots /\ book.orders[slot].kind = "free" /\ slot \notin Range(book.stops)
      BY <1>2 DEF FreeSlots, BookOK, StopsLinked
    <3>4. /\ taker.limit \in Levels /\ taker.side \in Sides /\ taker.trader \in Traders
          /\ taker.remaining \in Quantity
      BY <1>2, <2>1 DEF Inv, CallOK, Taker
    <3>5. /\ BookOK(book', NoSlot) /\ book'.stops = book.stops
          /\ book'.occupancy = [book.occupancy EXCEPT ![taker.side] = @ \cup {taker.limit}]
      BY <1>2, <3>1, <3>2, <3>3, <3>4, RestDone, SMTT(30)
    <3> QED BY <2>1, <3>3, <3>4, <3>5 DEF Rests
  <2>2. CASE ~(taker.tif = "gtc" /\ taker.remaining # 0)
    BY <1>2, <2>2 DEF settle_submission
  <2> QED BY <2>1, <2>2
<1>4. TypeOK'
  BY <1>1, <1>3, NoTakerType DEF Inv, TypeOK, Phases, BookOK
<1>5. CallOK' /\ BookOK(book', taker'.slot)
  BY <1>1, <1>3 DEF CallOK, NoTaker, Loops
<1> QED BY <1>1, <1>3, <1>4, <1>5 DEF Inv, OneReportPerMaker, Settled

\* Resting or dropping what an activated stop has left preserves the invariant;
\* only resting adds to the occupancy.
LEMMA SettleStopInv ==
  ASSUME Inv, settle_stop
  PROVE  Inv' /\ Settled
<1>1. /\ phase = "settle" /\ phase' = "stops" /\ taker' = NoTaker /\ taker.slot # NoSlot
      /\ activations' = activations + 1
      /\ UNCHANGED <<last_execution_price, auction, trading_state, pass, trades, reports,
                     event_capacity>>
  BY DEF settle_stop
<1>2. /\ BookOK(book, taker.slot) /\ taker \in Taker /\ taker.slot \in Slots
      /\ book.orders[taker.slot].kind = "stop" /\ taker.slot \notin Range(book.stops)
  BY <1>1 DEF Inv, TypeOK, Taker, CallOK, BookOK, StopsLinked
<1>3. /\ BookOK(book', NoSlot) /\ book'.stops = book.stops
      /\ book'.occupancy = book.occupancy \/ Rests
  <2>1. CASE taker.tif = "gtc" /\ taker.remaining # 0
    <3>1. book' = rest(book, taker.slot, 0, taker.side, taker.limit,
                       taker.remaining, taker.remaining)
      BY <2>1 DEF settle_stop
    <3>2. /\ taker.limit \in Levels /\ taker.side \in Sides /\ 0 \in Traders
          /\ taker.remaining \in Quantity
      BY <1>2, <2>1, InputAssumption DEF Inv, CallOK, Taker
    <3>3. /\ BookOK(book', NoSlot) /\ book'.stops = book.stops
          /\ book'.occupancy = [book.occupancy EXCEPT ![taker.side] = @ \cup {taker.limit}]
      <4>1. /\ taker.slot \in Slots /\ BookOK(book, taker.slot)
            /\ taker.slot \in {NoSlot, taker.slot} /\ taker.slot \notin Range(book.stops)
            /\ book.orders[taker.slot].kind # "resting"
        BY <1>2
      <4> QED BY <3>1, <3>2, <4>1, RestDone
    <3> QED BY <1>2, <2>1, <3>2, <3>3 DEF Rests
  <2>2. CASE ~(taker.tif = "gtc" /\ taker.remaining # 0)
    <3>1. book' = [book EXCEPT !.orders[taker.slot] = FreeSlot]
      BY <2>2 DEF settle_stop
    <3> QED BY <1>2, <3>1, ReleaseActiveLinks DEF SameQueues
  <2> QED BY <2>1, <2>2
<1>4. TypeOK'
  BY <1>1, <1>3, NoTakerType, SMTT(30) DEF Inv, TypeOK, Phases, BookOK
<1>5. CallOK' /\ BookOK(book', taker'.slot)
  BY <1>1, <1>3 DEF CallOK, NoTaker, Loops
<1> QED BY <1>1, <1>3, <1>4, <1>5 DEF Inv, OneReportPerMaker, Settled

\* The end of a call leaves nothing of it.
LEMMA EndCallInv ==
  ASSUME Inv, EndCall, BookOK(book', NoSlot), taker = NoTaker, auction' \in Auction,
         last_execution_price' \in Levels \cup {NoLevel},
         UNCHANGED <<trading_state, taker, pass>>
  PROVE  Inv'
<1>1. taker'.slot = NoSlot /\ taker'.tif = "ioc"
  BY DEF NoTaker
<1>2. TypeOK'
  <2>1. <<>> \in Seq(Trade)
    OBVIOUS
  <2> QED BY <2>1, NoReportsType DEF Inv, TypeOK, EndCall, Phases, BookOK
<1>3. CallOK'
  BY <1>1 DEF CallOK, EndCall, Loops
<1> QED BY <1>1, <1>2, <1>3 DEF Inv, OneReportPerMaker, EndCall, NoReports

\* trigger_stops preserves the invariant: it activates a stop, or ends the call
\* with no triggered stop left.
LEMMA TriggerStopsInv ==
  ASSUME Inv, trigger_stops
  PROVE  /\ Inv' /\ phase = "stops"
         /\ book'.occupancy = book.occupancy
         /\ UNCHANGED <<last_execution_price, trading_state>>
         /\ \/ /\ phase' = "match" /\ taker'.slot # NoSlot
               /\ book.stops # <<>>
            \/ /\ phase' = "idle" /\ UNCHANGED book
               /\ \A i \in DOMAIN book.stops :
                    ~stop_is_triggered(book.orders[book.stops[i]].side,
                                       book.orders[book.stops[i]].trigger)
<1> DEFINE I == {i \in 1 .. Len(book.stops) :
                   stop_is_triggered(book.orders[book.stops[i]].side,
                                     book.orders[book.stops[i]].trigger)}
           first == IF I = {} THEN 0 ELSE Min(I)
<1>1. /\ phase = "stops" /\ UNCHANGED <<last_execution_price, auction, trading_state, pass>>
      /\ \/ /\ first # 0
            /\ activate_stop(book, book.stops[first])
            /\ UNCHANGED <<trades, activations, event_capacity>>
         \/ /\ first = 0
            /\ EndCall
            /\ UNCHANGED <<book, taker>>
  BY DEF trigger_stops, first_triggered, SelectInSeq
<1>2. /\ taker = NoTaker /\ BookOK(book, NoSlot) /\ book.stops \in Seq(Slots)
      /\ event_capacity \in Nat
  <2>1. phase = "stops"
    BY DEF trigger_stops
  <2>2. taker = NoTaker /\ BookOK(book, taker.slot) /\ event_capacity \in Nat
    BY <2>1 DEF Inv, TypeOK, CallOK, Loops
  <2> QED BY <2>2 DEF NoTaker, BookOK, Book
<1>3. I \in SUBSET Nat /\ 0 \notin I
  OBVIOUS
<1>4. I # {} => Min(I) \in I
  BY <1>3, MinOfNats
<1>5. CASE first # 0
  <2>1. first \in 1 .. Len(book.stops)
    <3>1. I # {} /\ first \in I
      BY <1>4, <1>5
    <3> HIDE DEF first
    <3> QED BY <3>1
  <2> HIDE DEF first, I
  <2>2. book.stops[first] \in Range(book.stops) /\ book.stops # <<>>
    BY <1>2, <2>1 DEF Range
  <2> QED BY <1>1, <1>2, <1>5, <2>2, ActivateStopInv
<1>6. CASE first = 0
  <2>1. I = {}
    BY <1>3, <1>4, <1>6
  <2>2. \A i \in DOMAIN book.stops :
          ~stop_is_triggered(book.orders[book.stops[i]].side,
                             book.orders[book.stops[i]].trigger)
    BY <1>2, <2>1
  <2> HIDE DEF first, I
  <2>3. Inv'
    BY <1>1, <1>2, <1>6, EndCallInv DEF Inv, TypeOK
  <2> QED BY <1>1, <1>6, <2>2, <2>3 DEF EndCall
<1> QED BY <1>5, <1>6

=============================================================================
