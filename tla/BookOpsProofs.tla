--------------------------- MODULE BookOpsProofs ----------------------------
(***************************************************************************)
(* Every update of BookOps.tla keeps the links of the book: those that     *)
(* change a queue, and those that leave the queues alone.                  *)
(***************************************************************************)
EXTENDS BookOps, WellFoundedInduction, TLAPS

-----------------------------------------------------------------------------
(* Minima, and sequences without duplicates: the form in which the order   *)
(* book keeps the queue of a price level and the list of dormant stops.    *)

\* Every non-empty set of naturals has a minimum.
LEMMA NatHasMin ==
  ASSUME NEW S \in SUBSET Nat, S # {}
  PROVE  \E m \in S : \A n \in S : m <= n
<1> DEFINE R == OpToRel(<, Nat)
<1>1. \E m \in S : \A n \in S : ~ (<<n, m>> \in R)
  BY NatLessThanWellFounded, WFMin
<1>2. \A m, n \in S : ~ (<<n, m>> \in R) => m <= n
  BY DEF OpToRel
<1> QED BY <1>1, <1>2

\* A nonempty set of natural numbers has the minimum that Min picks: the level
\* scans of the book rely on it.
LEMMA MinOfNats ==
  ASSUME NEW S \in SUBSET Nat, S # {}
  PROVE  Min(S) \in S /\ \A n \in S : Min(S) <= n
BY NatHasMin DEF Min

\* The minimum of two numbers is one of them and exceeds neither (std::min in the
\* matching loops).
LEMMA MinOfPair ==
  ASSUME NEW a \in Nat, NEW b \in Nat
  PROVE  Min({a, b}) \in {a, b} /\ Min({a, b}) <= a /\ Min({a, b}) <= b
<1>1. {a, b} \in SUBSET Nat /\ {a, b} # {}
  OBVIOUS
<1> QED BY <1>1, MinOfNats

-----------------------------------------------------------------------------
(* Positions.                                                              *)

\* The first position of an element of a sequence.
Position(q, e) == Min({i \in 1 .. Len(q) : q[i] = e})

\* An order of a queue is found at its position: where unlink and move_to_tail
\* cut the links.
LEMMA PositionOf ==
  ASSUME NEW S, NEW q \in Seq(S), NEW e, e \in Range(q)
  PROVE  /\ Position(q, e) \in DOMAIN q
         /\ q[Position(q, e)] = e
<1> DEFINE I == {i \in 1 .. Len(q) : q[i] = e}
<1>1. I \in SUBSET Nat /\ I # {}
  BY DEF Range
<1>2. Min(I) \in I
  BY <1>1, MinOfNats
<1> QED BY <1>2 DEF Position

\* Removing a position closes the gap and keeps the order of the others, as
\* relinking previous and next does.
LEMMA RemoveAtElements ==
  ASSUME NEW S, NEW q \in Seq(S), NEW i \in DOMAIN q
  PROVE  /\ RemoveAt(q, i) \in Seq(S)
         /\ Len(RemoveAt(q, i)) = Len(q) - 1
         /\ \A k \in 1 .. Len(q) - 1 :
              RemoveAt(q, i)[k] = IF k < i THEN q[k] ELSE q[k + 1]
<1>1. i \in 1 .. Len(q) /\ Len(q) \in Nat
  OBVIOUS
<1>2. \A k \in 1 .. Len(q) - 1 : (IF k < i THEN q[k] ELSE q[k + 1]) \in S
  BY <1>1
<1> QED BY <1>1, <1>2 DEF RemoveAt

\* Removing an element of a duplicate-free sequence removes it, and nothing else.
LEMMA RemoveFirstElements ==
  ASSUME NEW S, NEW q \in Seq(S), IsInjective(q), NEW e
  PROVE  /\ RemoveFirst(q, e) \in Seq(S)
         /\ IsInjective(RemoveFirst(q, e))
         /\ Range(RemoveFirst(q, e)) = Range(q) \ {e}
<1>1. CASE e \notin Range(q)
  <2>1. ~ \E i \in 1 .. Len(q) : q[i] = e
    BY <1>1 DEF Range
  <2>2. RemoveFirst(q, e) = q
    BY <2>1 DEF RemoveFirst, SelectInSeq
  <2> QED BY <1>1, <2>2
<1>2. CASE e \in Range(q)
  <2> DEFINE i == Position(q, e)
             r == RemoveAt(q, i)
  <2>1. i \in DOMAIN q /\ q[i] = e
    BY <1>2, PositionOf
  <2>2. RemoveFirst(q, e) = r
    BY <1>2, <2>1 DEF RemoveFirst, SelectInSeq, Position, Range
  <2> HIDE DEF i
  <2>3. /\ r \in Seq(S)
        /\ Len(r) = Len(q) - 1
        /\ \A k \in 1 .. Len(q) - 1 : r[k] = IF k < i THEN q[k] ELSE q[k + 1]
    BY <2>1, RemoveAtElements
  <2> HIDE DEF r
  <2>4. \A j, k \in 1 .. Len(q) : q[j] = q[k] => j = k
    BY DEF IsInjective
  <2>5. IsInjective(r)
    BY <2>1, <2>3, <2>4 DEF IsInjective
  <2>6. Range(r) \subseteq Range(q) \ {e}
    BY <2>1, <2>3, <2>4 DEF Range
  <2>7. ASSUME NEW j \in 1 .. Len(q), q[j] # e
        PROVE  q[j] \in Range(r)
    <3>1. CASE j < i
      <4>1. j \in 1 .. Len(r) /\ r[j] = q[j]
        BY <3>1, <2>1, <2>3
      <4> QED BY <4>1, <2>3 DEF Range
    <3>2. CASE j > i
      <4>1. j - 1 \in 1 .. Len(r) /\ r[j - 1] = q[j]
        BY <3>2, <2>1, <2>3
      <4> QED BY <4>1, <2>3 DEF Range
    <3> QED BY <3>1, <3>2, <2>1, <2>7
  <2>8. Range(q) \ {e} \subseteq Range(r)
    BY <2>7 DEF Range
  <2> QED BY <2>2, <2>3, <2>5, <2>6, <2>8
<1> QED BY <1>1, <1>2

\* Appending a new element keeps a sequence duplicate-free.
LEMMA AppendElements ==
  ASSUME NEW S, NEW q \in Seq(S), NEW e \in S
  PROVE  /\ Append(q, e) \in Seq(S)
         /\ Append(q, e) # <<>>
         /\ Range(Append(q, e)) = Range(q) \cup {e}
         /\ IsInjective(q) /\ e \notin Range(q) => IsInjective(Append(q, e))
<1> DEFINE r == Append(q, e)
<1>1. /\ r \in Seq(S) /\ Len(r) = Len(q) + 1 /\ r # <<>>
      /\ \A k \in 1 .. Len(q) : r[k] = q[k]
      /\ r[Len(q) + 1] = e
  OBVIOUS
<1> HIDE DEF r
<1>2. Range(r) \subseteq Range(q) \cup {e}
  BY <1>1 DEF Range
<1>3. Range(q) \subseteq Range(r)
  BY <1>1 DEF Range
<1>4. e \in Range(r)
  BY <1>1 DEF Range
<1>5. IsInjective(q) /\ e \notin Range(q) => IsInjective(r)
  BY <1>1 DEF Range, IsInjective
<1>6. Range(r) = Range(q) \cup {e}
  BY <1>2, <1>3, <1>4
<1> QED BY <1>1, <1>5, <1>6 DEF r

\* A sequence is empty exactly when it has no element.
LEMMA EmptyElements ==
  ASSUME NEW S, NEW q \in Seq(S)
  PROVE  /\ q = <<>> <=> Range(q) = {}
         /\ q # <<>> => Head(q) \in Range(q)
         /\ Range(q) \subseteq S
<1>1. q # <<>> => 1 \in DOMAIN q /\ Head(q) = q[1]
  OBVIOUS
<1>2. q = <<>> => DOMAIN q = {}
  OBVIOUS
<1>3. \A i \in DOMAIN q : q[i] \in S
  OBVIOUS
<1> QED BY <1>1, <1>2, <1>3 DEF Range

-----------------------------------------------------------------------------
(* Levels.                                                                 *)

\* Every non-empty set of levels has a highest and a lowest one.
LEMMA LevelsHaveExtremes ==
  ASSUME NEW S \in SUBSET Levels, S # {}
  PROVE  /\ \E m \in S : \A n \in S : m <= n
         /\ \E m \in S : \A n \in S : n <= m
<1>1. S \in SUBSET Nat
  BY DomainAssumption DEF Levels
<1>2. \E m \in S : \A n \in S : m <= n
  BY <1>1, NatHasMin
<1> DEFINE T == {n \in Nat : \E l \in S : n = TickCount - l}
<1>0. \A l \in S : TickCount - l \in Nat
  BY DomainAssumption DEF Levels
<1>3. T \in SUBSET Nat /\ T # {}
  BY <1>0
<1>4. PICK t \in T : \A u \in T : t <= u
  BY <1>3, NatHasMin
<1>5. PICK m \in S : t = TickCount - m
  BY <1>4
<1>6. \A n \in S : n <= m
  BY <1>4, <1>5, <1>1, <1>0, DomainAssumption
<1> QED BY <1>2, <1>6

\* A side that is not empty has a best level, at least as good as any other.
LEMMA BestIndexExists ==
  ASSUME NEW b \in Book, NEW side \in Sides, b.occupancy[side] # {}
  PROVE  \E l \in best_index(b, side) :
           \A k \in b.occupancy[side] : crosses(opposite_side(side), l, k)
<1>1. b.occupancy[side] \in SUBSET Levels
  BY DEF Book
<1>2. /\ \E m \in b.occupancy[side] : \A n \in b.occupancy[side] : m <= n
      /\ \E m \in b.occupancy[side] : \A n \in b.occupancy[side] : n <= m
  BY <1>1, LevelsHaveExtremes
<1> QED BY <1>2, <1>1 DEF best_index, crosses, opposite_side, Sides, Levels

-----------------------------------------------------------------------------
(* The updates of the book keep its links.                                 *)

\* The part of the inductive invariant that is about the book alone.
BookOK(b, active) ==
  /\ b \in Book
  /\ \A s \in Slots : b.orders[s].kind = "resting" => b.orders[s].level \in Levels
  /\ \A side \in Sides, l \in Levels : QueueLinked(b, side, l)
  /\ StopsLinked(b, active)

\* Quantity arithmetic, which wraps at its width, stays within the quantities.
LEMMA QuantityOps ==
  ASSUME NEW m \in Quantity, NEW n \in Quantity
  PROVE  minus(m, n) \in Quantity /\ plus(m, n) \in Quantity
BY QuantityAssumption DEF Quantity, minus, plus

\* The content of a released arena slot is an order record.
LEMMA FreeSlotType == FreeSlot \in Order
BY QuantityAssumption, InputAssumption DEF FreeSlot, Order, Sides, Quantity

\* One order, its level's queue, aggregate and occupancy bit change together.
Updated(b, slot, order, side, level, queue, aggregate, occupied) ==
  [b EXCEPT !.orders[slot] = order,
            !.queue[side][level] = queue,
            !.aggregate_quantity[side][level] = aggregate,
            !.occupancy[side] = occupied]

\* The new queue holds the order exactly if it is resting, and the other orders
\* of the level as before.
UpdateOK(b, slot, order, side, level, queue, aggregate, occupied) ==
  /\ b \in Book
  /\ \A d \in Sides, l \in Levels : QueueLinked(b, d, l)
  /\ slot \in Slots /\ side \in Sides /\ level \in Levels
  /\ order \in Order /\ queue \in Seq(Slots) /\ aggregate \in Quantity
  /\ occupied \in SUBSET Levels
  /\ b.orders[slot].kind = "resting" =>
       b.orders[slot].side = side /\ b.orders[slot].level = level
  /\ order.kind = "resting" => order.side = side /\ order.level = level
  /\ IsInjective(queue)
  /\ Range(queue) = (Range(b.queue[side][level]) \ {slot})
                      \cup (IF order.kind = "resting" THEN {slot} ELSE {})
  /\ \A l \in Levels : l \in occupied <=> IF l = level THEN queue # <<>>
                                          ELSE l \in b.occupancy[side]

\* What such an update leaves.
UpdateDone(b, r, slot, order, side, level, queue, occupied) ==
  /\ r \in Book
  /\ \A d \in Sides, l \in Levels : QueueLinked(r, d, l)
  /\ r.orders = [b.orders EXCEPT ![slot] = order]
  /\ r.stops = b.stops
  /\ r.queue = [b.queue EXCEPT ![side][level] = queue]
  /\ r.occupancy = [b.occupancy EXCEPT ![side] = occupied]

\* An update of one order and of the queue, aggregate and occupancy bit of its
\* level keeps every queue linked, provided the new queue holds exactly the
\* orders that rest there: the form of unlink, rest, move_to_tail, amend and the
\* executions.
LEMMA UpdatedLinks ==
  ASSUME NEW b, NEW slot, NEW order, NEW side, NEW level, NEW queue, NEW aggregate,
         NEW occupied, UpdateOK(b, slot, order, side, level, queue, aggregate, occupied)
  PROVE  UpdateDone(b, Updated(b, slot, order, side, level, queue, aggregate, occupied),
                    slot, order, side, level, queue, occupied)
<1> DEFINE r == Updated(b, slot, order, side, level, queue, aggregate, occupied)
<1>1. /\ b.orders \in [Slots -> Order]
      /\ b.queue \in [Sides -> [Levels -> Seq(Slots)]]
      /\ b.aggregate_quantity \in [Sides -> [Levels -> Quantity]]
      /\ b.occupancy \in [Sides -> SUBSET Levels]
      /\ b.stops \in Seq(Slots)
  BY DEF Book, UpdateOK
<1>2. /\ r.orders = [b.orders EXCEPT ![slot] = order]
      /\ r.queue = [b.queue EXCEPT ![side][level] = queue]
      /\ r.aggregate_quantity = [b.aggregate_quantity EXCEPT ![side][level] = aggregate]
      /\ r.occupancy = [b.occupancy EXCEPT ![side] = occupied]
      /\ r.stops = b.stops
  BY DEF Updated, Book, UpdateOK
<1>3. r \in Book
  <2>1. r \in [orders : {r.orders}, queue : {r.queue},
               aggregate_quantity : {r.aggregate_quantity},
               occupancy : {r.occupancy}, stops : {r.stops}]
    BY DEF Updated, Book, UpdateOK
  <2> HIDE DEF r
  <2>2. r.orders \in [Slots -> Order]
    BY <1>1, <1>2 DEF UpdateOK
  <2>3. r.queue \in [Sides -> [Levels -> Seq(Slots)]]
    BY <1>1, <1>2 DEF UpdateOK
  <2>4. r.aggregate_quantity \in [Sides -> [Levels -> Quantity]]
    BY <1>1, <1>2 DEF UpdateOK
  <2>5. r.occupancy \in [Sides -> SUBSET Levels]
    BY <1>1, <1>2 DEF UpdateOK
  <2> QED BY <1>1, <1>2, <2>1, <2>2, <2>3, <2>4, <2>5 DEF Book
<1>4. ASSUME NEW d \in Sides, NEW l \in Levels
      PROVE  QueueLinked(r, d, l)
  <2> HIDE DEF r
  <2>1. QueueLinked(b, d, l)
    BY DEF UpdateOK
  <2>2. \A s \in Slots : r.orders[s] = IF s = slot THEN order ELSE b.orders[s]
    BY <1>1, <1>2 DEF UpdateOK
  <2>3. CASE d = side /\ l = level
    <3>1. r.queue[d][l] = queue /\ r.occupancy[d] = occupied
      BY <1>1, <1>2, <2>3 DEF UpdateOK
    <3>2. Range(queue) = {s \in Slots : /\ r.orders[s].kind = "resting"
                                        /\ r.orders[s].side = d
                                        /\ r.orders[s].level = l}
      BY <2>1, <2>2, <2>3 DEF QueueLinked, UpdateOK
    <3> QED BY <2>3, <3>1, <3>2 DEF QueueLinked, UpdateOK
  <2>4. CASE ~(d = side /\ l = level)
    <3>1. /\ r.queue[d][l] = b.queue[d][l]
          /\ l \in r.occupancy[d] <=> l \in b.occupancy[d]
      BY <1>1, <1>2, <2>4 DEF UpdateOK
    <3>2. Range(b.queue[d][l]) = {s \in Slots : /\ r.orders[s].kind = "resting"
                                                /\ r.orders[s].side = d
                                                /\ r.orders[s].level = l}
      BY <2>1, <2>2, <2>4 DEF QueueLinked, UpdateOK
    <3> QED BY <2>1, <3>1, <3>2 DEF QueueLinked, UpdateOK
  <2> QED BY <2>3, <2>4
<1> QED BY <1>2, <1>3, <1>4 DEF UpdateDone

\* An order that is not linked joins its level at the tail.
LEMMA RestLinks ==
  ASSUME NEW slot \in Slots, NEW b, NEW active \in {NoSlot, slot}, BookOK(b, active),
         b.orders[slot].kind # "resting", slot \notin Range(b.stops),
         NEW trader \in Traders, NEW side \in Sides, NEW level \in Levels,
         NEW remaining \in Quantity, NEW display \in Quantity
  PROVE  LET r == rest(b, slot, trader, side, level, remaining, display)
         IN  /\ BookOK(r, NoSlot)
             /\ r.occupancy = [b.occupancy EXCEPT ![side] = @ \cup {level}]
             /\ r.stops = b.stops
             /\ \A s \in Slots \ {slot} : r.orders[s] = b.orders[s]
<1> DEFINE r == rest(b, slot, trader, side, level, remaining, display)
           order == [kind |-> "resting", side |-> side, level |-> level,
                     remaining |-> remaining, trader |-> trader,
                     display |-> display, displayed |-> display, trigger |-> 0]
           old == b.queue[side][level]
           new == Append(old, slot)
           aggregate == plus(b.aggregate_quantity[side][level], remaining)
           occupied == b.occupancy[side] \cup {level}
<1>1. /\ b \in Book /\ QueueLinked(b, side, level)
      /\ old \in Seq(Slots) /\ b.aggregate_quantity[side][level] \in Quantity
      /\ b.occupancy[side] \in SUBSET Levels
  BY DEF BookOK, Book
<1>2. order \in Order /\ aggregate \in Quantity
  BY <1>1, QuantityOps DEF Order, Levels
<1>3. slot \notin Range(old) /\ IsInjective(old)
  BY <1>1 DEF QueueLinked
<1>4. /\ new \in Seq(Slots) /\ IsInjective(new)
      /\ Range(new) = Range(old) \cup {slot} /\ new # <<>>
  BY <1>1, <1>3, AppendElements
<1>5. r = Updated(b, slot, order, side, level, new, aggregate, occupied)
  <2>1. (IF old = <<>> THEN b.occupancy[side] \cup {level} ELSE b.occupancy[side]) = occupied
    BY <1>1 DEF QueueLinked
  <2> QED BY <2>1 DEF rest, Updated
<1>6. UpdateDone(b, r, slot, order, side, level, new, occupied)
  <2> HIDE DEF r, occupied, aggregate, old, new
  <2>1. \A l \in Levels : l \in occupied <=> IF l = level THEN new # <<>>
                                             ELSE l \in b.occupancy[side]
    BY <1>4 DEF occupied
  <2>2. occupied \in SUBSET Levels
    BY <1>1 DEF occupied
  <2>3. Range(new) = (Range(b.queue[side][level]) \ {slot})
                                     \cup (IF order.kind = "resting" THEN {slot} ELSE {})
    BY <1>3, <1>4 DEF old
  <2>4. order.kind = "resting" => order.side = side /\ order.level = level
    OBVIOUS
  <2>5. /\ \A d \in Sides, l \in Levels : QueueLinked(b, d, l)
        /\ b.orders[slot].kind = "resting" =>
             b.orders[slot].side = side /\ b.orders[slot].level = level
    BY DEF BookOK
  <2> HIDE DEF order
  <2>6. UpdateOK(b, slot, order, side, level, new, aggregate, occupied)
    BY <1>1, <1>2, <1>4, <2>1, <2>2, <2>3, <2>4, <2>5 DEF UpdateOK
  <2> QED BY <1>5, <2>6, UpdatedLinks
<1>7. StopsLinked(r, NoSlot)
  <2> HIDE DEF r
  <2>1. b.orders \in [Slots -> Order]
    BY DEF BookOK, Book
  <2>2. \A s \in Slots : r.orders[s] = IF s = slot THEN order ELSE b.orders[s]
    BY <1>6, <2>1 DEF UpdateDone
  <2> QED BY <1>6, <2>2, SlotsAssumption DEF BookOK, StopsLinked, UpdateDone
<1> HIDE DEF r
<1>8. \A s \in Slots \ {slot} : r.orders[s] = b.orders[s]
  BY <1>6 DEF BookOK, Book, UpdateDone
<1>9. \A s \in Slots : r.orders[s].kind = "resting" => r.orders[s].level \in Levels
  BY <1>6, <1>8 DEF BookOK, Book, UpdateDone
<1> QED BY <1>6, <1>7, <1>8, <1>9 DEF BookOK, UpdateDone, r

\* The same of the book that results, as the steps of a call use it.
LEMMA RestDone ==
  ASSUME NEW slot \in Slots, NEW b, NEW active \in {NoSlot, slot}, BookOK(b, active),
         b.orders[slot].kind # "resting", slot \notin Range(b.stops),
         NEW trader \in Traders, NEW side \in Sides, NEW level \in Levels,
         NEW remaining \in Quantity, NEW display \in Quantity,
         NEW r, r = rest(b, slot, trader, side, level, remaining, display)
  PROVE  /\ BookOK(r, NoSlot) /\ r.stops = b.stops
         /\ r.occupancy = [b.occupancy EXCEPT ![side] = @ \cup {level}]
BY RestLinks

\* The stop list depends on nothing but which orders are dormant stops.
LEMMA StopsKept ==
  ASSUME NEW b, NEW r, NEW active, StopsLinked(b, active), r.stops = b.stops,
         \A s \in Slots : r.orders[s].kind = "stop" <=> b.orders[s].kind = "stop"
  PROVE  StopsLinked(r, active)
BY DEF StopsLinked

\* What the removal or the reduction of a resting order leaves alone.
Shrunk(b, r, slot) ==
  /\ r.stops = b.stops
  /\ \A s \in Slots \ {slot} : r.orders[s] = b.orders[s]
  /\ \A d \in Sides : r.occupancy[d] \subseteq b.occupancy[d]

\* A resting order leaves its level, and the level's occupancy bit follows.
LEMMA UnlinkLinks ==
  ASSUME NEW b, NEW active, BookOK(b, active),
         NEW slot \in Slots, b.orders[slot].kind = "resting", NEW reduction \in Quantity
  PROVE  /\ BookOK(unlink(b, slot, reduction), active)
         /\ Shrunk(b, unlink(b, slot, reduction), slot)
         /\ unlink(b, slot, reduction).orders[slot] = FreeSlot
<1> DEFINE r == unlink(b, slot, reduction)
           side == b.orders[slot].side
           level == b.orders[slot].level
           old == b.queue[side][level]
           new == RemoveFirst(old, slot)
           aggregate == minus(b.aggregate_quantity[side][level], reduction)
           occupied == IF new = <<>> THEN b.occupancy[side] \ {level} ELSE b.occupancy[side]
<1>1. /\ b \in Book /\ b.orders \in [Slots -> Order]
      /\ side \in Sides /\ level \in Levels
  BY DEF BookOK, Book, Order
<1>2. /\ QueueLinked(b, side, level)
      /\ old \in Seq(Slots) /\ b.aggregate_quantity[side][level] \in Quantity
      /\ b.occupancy[side] \in SUBSET Levels
  BY <1>1 DEF BookOK, Book
<1>3. r = Updated(b, slot, FreeSlot, side, level, new, aggregate, occupied)
  BY DEF unlink, Updated
<1>4. UpdateOK(b, slot, FreeSlot, side, level, new, aggregate, occupied)
  <2>1. aggregate \in Quantity
    BY <1>2, QuantityOps
  <2>2. slot \in Range(old) /\ IsInjective(old) /\ old # <<>>
    <3>1. slot \in Range(old) /\ IsInjective(old)
      BY <1>1, <1>2 DEF QueueLinked
    <3> QED BY <1>2, <3>1, EmptyElements
  <2> HIDE DEF old
  <2>3. /\ new \in Seq(Slots) /\ IsInjective(new) /\ Range(new) = Range(old) \ {slot}
    BY <1>2, <2>2, RemoveFirstElements
  <2> HIDE DEF new, aggregate
  <2>4. level \in b.occupancy[side]
    BY <1>2, <2>2 DEF QueueLinked, old
  <2>5. \A l \in Levels : l \in occupied <=> IF l = level THEN new # <<>>
                                             ELSE l \in b.occupancy[side]
    BY <2>4
  <2>6. occupied \in SUBSET Levels
    BY <1>2
  <2>7. Range(new) = (Range(b.queue[side][level]) \ {slot})
                       \cup (IF FreeSlot.kind = "resting" THEN {slot} ELSE {})
    BY <2>3 DEF FreeSlot, old
  <2>8. FreeSlot.kind # "resting"
    BY DEF FreeSlot
  <2> HIDE DEF occupied
  <2> QED BY <1>1, <2>1, <2>3, <2>5, <2>6, <2>7, <2>8, FreeSlotType DEF UpdateOK, BookOK
<1>5. UpdateDone(b, r, slot, FreeSlot, side, level, new, occupied)
  BY <1>3, <1>4, UpdatedLinks, Zenon
<1>6. \A s \in Slots : r.orders[s] = IF s = slot THEN FreeSlot ELSE b.orders[s]
  BY <1>1, <1>5 DEF UpdateDone
<1>7. Shrunk(b, r, slot)
  <2>1. b.occupancy \in [Sides -> SUBSET Levels] /\ occupied \subseteq b.occupancy[side]
    BY <1>1 DEF Book
  <2> HIDE DEF occupied, r
  <2> QED BY <1>5, <1>6, <2>1 DEF UpdateDone, Shrunk
<1>8. StopsLinked(r, active)
  <2>1. \A s \in Slots : r.orders[s].kind = "stop" <=> b.orders[s].kind = "stop"
    BY <1>6 DEF FreeSlot
  <2>2. r.stops = b.stops
    BY <1>5 DEF UpdateDone
  <2> QED BY <2>1, <2>2, StopsKept DEF BookOK
<1>9. \A s \in Slots : r.orders[s].kind = "resting" => r.orders[s].level \in Levels
  BY <1>6 DEF BookOK, FreeSlot
<1> HIDE DEF r
<1> QED BY <1>5, <1>6, <1>7, <1>8, <1>9 DEF BookOK, UpdateDone, r

\* Moving an order to the tail of a queue keeps the queue's orders.
LEMMA MoveToTailElements ==
  ASSUME NEW queue \in Seq(Slots), IsInjective(queue), NEW slot \in Range(queue)
  PROVE  /\ move_to_tail(queue, slot) \in Seq(Slots)
         /\ IsInjective(move_to_tail(queue, slot))
         /\ Range(move_to_tail(queue, slot)) = Range(queue)
         /\ move_to_tail(queue, slot) # <<>>
<1> DEFINE others == RemoveFirst(queue, slot)
<1>1. others \in Seq(Slots) /\ IsInjective(others) /\ Range(others) = Range(queue) \ {slot}
  BY RemoveFirstElements
<1>2. Range(queue) \subseteq Slots
  BY DEF Range
<1>3. slot \in Slots /\ slot \notin Range(others)
  BY <1>1, <1>2
<1> HIDE DEF others
<1>4. /\ Append(others, slot) \in Seq(Slots) /\ IsInjective(Append(others, slot))
      /\ Range(Append(others, slot)) = Range(others) \cup {slot}
      /\ Append(others, slot) # <<>>
  BY <1>1, <1>3, AppendElements
<1> QED BY <1>1, <1>4 DEF move_to_tail, others

\* What an execution does to the order itself.
Executed(b, r, slot, execution) ==
  IF execution = b.orders[slot].remaining
  THEN r.orders[slot] = FreeSlot
  ELSE /\ r.orders[slot].kind = "resting"
       /\ r.orders[slot].side = b.orders[slot].side
       /\ r.orders[slot].level = b.orders[slot].level
       /\ r.occupancy = b.occupancy

\* An execution keeps the links: the order leaves its level, or it stays in it
\* and in its queue.
LEMMA ReduceLinks ==
  ASSUME NEW b, NEW active, BookOK(b, active),
         NEW slot \in Slots, b.orders[slot].kind = "resting", NEW execution \in Quantity
  PROVE  /\ BookOK(reduce(b, slot, execution), active)
         /\ Shrunk(b, reduce(b, slot, execution), slot)
         /\ Executed(b, reduce(b, slot, execution), slot, execution)
<1> DEFINE r == reduce(b, slot, execution)
<1>1. CASE execution = b.orders[slot].remaining
  <2>1. r = unlink(b, slot, execution)
    BY <1>1 DEF reduce
  <2> QED BY <1>1, <2>1, UnlinkLinks DEF Executed
<1>2. CASE execution # b.orders[slot].remaining
  <2> DEFINE side == b.orders[slot].side
             level == b.orders[slot].level
             old == b.queue[side][level]
             remaining == minus(b.orders[slot].remaining, execution)
             displayed == displayed_after(b.orders[slot], execution)
             order == [b.orders[slot] EXCEPT !.remaining = remaining, !.displayed = displayed]
             new == IF execution = b.orders[slot].displayed
                    THEN move_to_tail(old, slot) ELSE old
             aggregate == minus(b.aggregate_quantity[side][level], execution)
             occupied == b.occupancy[side]
  <2>1. /\ b \in Book /\ b.orders \in [Slots -> Order] /\ b.orders[slot] \in Order
        /\ side \in Sides /\ level \in Levels
    BY DEF BookOK, Book, Order
  <2>2. /\ QueueLinked(b, side, level)
        /\ old \in Seq(Slots) /\ b.aggregate_quantity[side][level] \in Quantity
        /\ b.occupancy \in [Sides -> SUBSET Levels]
    BY <2>1 DEF BookOK, Book
  <2>3. /\ b.orders[slot].remaining \in Quantity /\ b.orders[slot].display \in Quantity
        /\ b.orders[slot].displayed \in Quantity
    BY <2>1 DEF Order
  <2>4. remaining \in Quantity /\ aggregate \in Quantity
    BY <2>2, <2>3, QuantityOps
  <2>5. displayed \in Quantity
    <3>1. \A m, n \in Quantity : Min({m, n}) \in Quantity
      BY MinOfPair DEF Quantity
    <3>2. minus(b.orders[slot].displayed, execution) \in Quantity
      BY <2>3, QuantityOps
    <3> QED BY <2>3, <2>4, <3>1, <3>2 DEF displayed_after
  <2>6. slot \in Range(old) /\ IsInjective(old)
    BY <2>1, <2>2 DEF QueueLinked
  <2>7. old # <<>> /\ level \in b.occupancy[side]
    <3>1. old # <<>>
      BY <2>2, <2>6, EmptyElements
    <3> QED BY <2>1, <2>2, <3>1 DEF QueueLinked
  <2>8. /\ new \in Seq(Slots) /\ IsInjective(new) /\ Range(new) = Range(old) /\ new # <<>>
    <3> HIDE DEF old
    <3> QED BY <2>2, <2>6, <2>7, MoveToTailElements
  <2>9. r = Updated(b, slot, order, side, level, new, aggregate, occupied)
    <3>1. r = [b EXCEPT !.orders[slot] = order, !.queue[side][level] = new,
                        !.aggregate_quantity[side][level] = aggregate]
      BY <1>2, Zenon DEF reduce
    <3> HIDE DEF r, order, new, aggregate
    <3>2. [b.occupancy EXCEPT ![side] = b.occupancy[side]] = b.occupancy
      BY <2>1, <2>2
    <3> QED BY <2>1, <3>1, <3>2 DEF Updated, Book
  <2>10. order \in Order /\ order.kind = "resting" /\ order.side = side /\ order.level = level
    <3> HIDE DEF displayed, remaining
    <3> QED BY <2>1, <2>4, <2>5 DEF Order
  <2>11. UpdateOK(b, slot, order, side, level, new, aggregate, occupied)
    <3> HIDE DEF order, new, aggregate
    <3>1. level \in occupied /\ occupied \in SUBSET Levels
      BY <2>1, <2>2, <2>7
    <3>2. Range(new) = (Range(b.queue[side][level]) \ {slot})
                         \cup (IF order.kind = "resting" THEN {slot} ELSE {})
      BY <2>6, <2>8, <2>10
    <3> HIDE DEF occupied
    <3>3. \A l \in Levels : l \in occupied <=> IF l = level THEN new # <<>>
                                               ELSE l \in b.occupancy[side]
      BY <2>8, <3>1 DEF occupied
    <3> HIDE DEF old
    <3> QED BY <2>1, <2>4, <2>8, <2>10, <3>1, <3>2, <3>3 DEF UpdateOK, BookOK
  <2>12. UpdateDone(b, r, slot, order, side, level, new, occupied)
    <3> HIDE DEF r, order, new, aggregate, occupied, side, level
    <3> QED BY <2>9, <2>11, UpdatedLinks, Zenon
  <2>13. \A s \in Slots : r.orders[s] = IF s = slot THEN order ELSE b.orders[s]
    BY <2>1, <2>12 DEF UpdateDone
  <2>14. r.stops = b.stops /\ r.occupancy = b.occupancy
    BY <2>1, <2>2, <2>12 DEF UpdateDone
  <2> HIDE DEF r, order
  <2>15. StopsLinked(r, active)
    <3>1. \A s \in Slots : r.orders[s].kind = "stop" <=> b.orders[s].kind = "stop"
      BY <2>10, <2>13
    <3> QED BY <2>14, <3>1, StopsKept DEF BookOK
  <2>16. \A s \in Slots : r.orders[s].kind = "resting" => r.orders[s].level \in Levels
    BY <2>1, <2>10, <2>13 DEF BookOK
  <2>17. BookOK(r, active)
    BY <2>12, <2>15, <2>16 DEF BookOK, UpdateDone
  <2>18. Shrunk(b, r, slot)
    BY <2>13, <2>14 DEF Shrunk
  <2>19. Executed(b, r, slot, execution)
    BY <1>2, <2>10, <2>13, <2>14 DEF Executed
  <2> QED BY <2>17, <2>18, <2>19 DEF r
<1> QED BY <1>1, <1>2

-----------------------------------------------------------------------------
(* The updates that leave the queues alone, those of stops among them.     *)

\* The queues depend on nothing but which orders rest, and where.
SameQueues(b, r) ==
  /\ r \in Book
  /\ r.queue = b.queue
  /\ r.occupancy = b.occupancy
  /\ \A s \in Slots : \/ r.orders[s].kind # "resting" /\ b.orders[s].kind # "resting"
                      \/ /\ r.orders[s].kind = b.orders[s].kind
                         /\ r.orders[s].side = b.orders[s].side
                         /\ r.orders[s].level = b.orders[s].level

\* An update that leaves the queues and the resting orders alone, as those of
\* stops do, keeps the book consistent when the stop list is.
LEMMA QueuesKept ==
  ASSUME NEW b, NEW r, NEW active, NEW now, BookOK(b, active), SameQueues(b, r),
         StopsLinked(r, now)
  PROVE  BookOK(r, now)
<1>1. ASSUME NEW d \in Sides, NEW l \in Levels
      PROVE  QueueLinked(r, d, l)
  <2>1. QueueLinked(b, d, l)
    BY DEF BookOK
  <2>2. {s \in Slots : b.orders[s].kind = "resting" /\ b.orders[s].side = d
                         /\ b.orders[s].level = l}
        = {s \in Slots : r.orders[s].kind = "resting" /\ r.orders[s].side = d
                           /\ r.orders[s].level = l}
    BY DEF SameQueues
  <2> QED BY <2>1, <2>2 DEF SameQueues, QueueLinked
<1>2. \A s \in Slots : r.orders[s].kind = "resting" => r.orders[s].level \in Levels
  BY DEF SameQueues, BookOK
<1> QED BY <1>1, <1>2 DEF BookOK, SameQueues

\* A new stop joins the list of dormant stops.
LEMMA RestStopLinks ==
  ASSUME NEW b, BookOK(b, NoSlot), NEW slot \in FreeSlots(b), NEW side \in Sides,
         NEW trigger \in Triggers, NEW limit \in Levels \cup {NoLevel},
         NEW quantity \in Quantity
  PROVE  LET r == rest_stop(b, slot, side, trigger, limit, quantity)
         IN  /\ BookOK(r, NoSlot)
             /\ SameQueues(b, r)
             /\ slot \in Range(r.stops)
             /\ r.orders[slot].kind = "stop"
<1> DEFINE r == rest_stop(b, slot, side, trigger, limit, quantity)
           order == [FreeSlot EXCEPT !.kind = "stop", !.side = side, !.level = limit,
                                     !.remaining = quantity, !.trigger = trigger]
<1>1. /\ b \in Book /\ b.orders \in [Slots -> Order] /\ b.stops \in Seq(Slots)
      /\ slot \in Slots /\ b.orders[slot].kind = "free"
  BY DEF BookOK, Book, FreeSlots
<1>2. order \in Order /\ order.kind = "stop"
  BY FreeSlotType DEF Order
<1>3. /\ r.orders = [b.orders EXCEPT ![slot] = order]
      /\ r.queue = b.queue /\ r.occupancy = b.occupancy
      /\ r.aggregate_quantity = b.aggregate_quantity
      /\ r.stops = Append(b.stops, slot)
      /\ r \in [orders : {r.orders}, queue : {r.queue},
                aggregate_quantity : {r.aggregate_quantity},
                occupancy : {r.occupancy}, stops : {r.stops}]
  BY <1>1 DEF rest_stop, Book
<1> HIDE DEF r, order
<1>4. slot \notin Range(b.stops) /\ IsInjective(b.stops)
  BY <1>1 DEF BookOK, StopsLinked
<1>5. /\ r.stops \in Seq(Slots) /\ IsInjective(r.stops)
      /\ Range(r.stops) = Range(b.stops) \cup {slot}
  BY <1>1, <1>3, <1>4, AppendElements
<1>6. r \in Book
  BY <1>1, <1>2, <1>3, <1>5 DEF Book
<1>7. \A s \in Slots : r.orders[s] = IF s = slot THEN order ELSE b.orders[s]
  BY <1>1, <1>3
<1>8. SameQueues(b, r)
  BY <1>1, <1>2, <1>3, <1>6, <1>7 DEF SameQueues
<1>9. StopsLinked(r, NoSlot)
  BY <1>1, <1>2, <1>5, <1>7, SlotsAssumption DEF BookOK, StopsLinked
<1>10. BookOK(r, NoSlot)
  BY <1>8, <1>9, QueuesKept
<1> QED BY <1>1, <1>2, <1>5, <1>7, <1>8, <1>10 DEF r

\* A stop leaves the list when it is activated; its slot stays taken.
LEMMA DetachStopLinks ==
  ASSUME NEW b, BookOK(b, NoSlot), NEW slot \in Range(b.stops)
  PROVE  /\ BookOK(detach_stop(b, slot), slot)
         /\ detach_stop(b, slot).orders = b.orders
         /\ detach_stop(b, slot).occupancy = b.occupancy
         /\ slot \notin Range(detach_stop(b, slot).stops)
         /\ slot \in Slots /\ b.orders[slot].kind = "stop"
<1> DEFINE r == detach_stop(b, slot)
<1>1. /\ b \in Book /\ b.orders \in [Slots -> Order] /\ b.stops \in Seq(Slots)
      /\ slot \in Slots /\ b.orders[slot].kind = "stop" /\ IsInjective(b.stops)
  BY DEF BookOK, Book, StopsLinked
<1>2. /\ r.orders = b.orders
      /\ r.queue = b.queue /\ r.occupancy = b.occupancy
      /\ r.aggregate_quantity = b.aggregate_quantity
      /\ r.stops = RemoveFirst(b.stops, slot)
      /\ r \in [orders : {r.orders}, queue : {r.queue},
                aggregate_quantity : {r.aggregate_quantity},
                occupancy : {r.occupancy}, stops : {r.stops}]
  BY <1>1 DEF detach_stop, Book
<1> HIDE DEF r
<1>3. /\ r.stops \in Seq(Slots) /\ IsInjective(r.stops)
      /\ Range(r.stops) = Range(b.stops) \ {slot}
  BY <1>1, <1>2, RemoveFirstElements
<1>4. r \in Book
  BY <1>1, <1>2, <1>3 DEF Book
<1>5. SameQueues(b, r)
  BY <1>2, <1>4 DEF SameQueues
<1>6. StopsLinked(r, slot)
  BY <1>1, <1>2, <1>3, SlotsAssumption DEF BookOK, StopsLinked
<1>7. BookOK(r, slot)
  BY <1>5, <1>6, QueuesKept
<1> QED BY <1>1, <1>2, <1>3, <1>7 DEF r

\* An activated stop that does not rest gives its slot back.
LEMMA ReleaseActiveLinks ==
  ASSUME NEW b, NEW slot \in Slots, BookOK(b, slot), b.orders[slot].kind = "stop"
  PROVE  LET r == [b EXCEPT !.orders[slot] = FreeSlot]
         IN  BookOK(r, NoSlot) /\ SameQueues(b, r) /\ r.stops = b.stops
               /\ \A s \in Slots \ {slot} : r.orders[s] = b.orders[s]
<1> DEFINE r == [b EXCEPT !.orders[slot] = FreeSlot]
<1>1. b \in Book /\ b.orders \in [Slots -> Order]
  BY DEF BookOK, Book
<1>2. r \in Book /\ r.queue = b.queue /\ r.occupancy = b.occupancy /\ r.stops = b.stops
  BY <1>1, FreeSlotType DEF Book
<1>3. \A s \in Slots : r.orders[s] = IF s = slot THEN FreeSlot ELSE b.orders[s]
  BY <1>1 DEF Book
<1>4. r.orders[slot].kind = "free" /\ \A s \in Slots \ {slot} : r.orders[s] = b.orders[s]
  BY <1>3 DEF FreeSlot
<1> HIDE DEF r
<1>5. SameQueues(b, r)
  BY <1>2, <1>4 DEF SameQueues
<1>6. StopsLinked(r, NoSlot)
  <2>1. {s \in Slots : r.orders[s].kind = "stop"}
          = {s \in Slots : b.orders[s].kind = "stop"} \ {slot}
    BY <1>4
  <2> QED BY <1>2, <2>1, SlotsAssumption DEF BookOK, StopsLinked
<1>7. BookOK(r, NoSlot)
  BY <1>5, <1>6, QueuesKept
<1> QED BY <1>2, <1>4, <1>5, <1>7 DEF r

\* A cancelled stop leaves the list and gives its slot back.
LEMMA UnlinkStopLinks ==
  ASSUME NEW b, BookOK(b, NoSlot), NEW slot \in Slots, b.orders[slot].kind = "stop"
  PROVE  LET r == unlink_stop(b, slot)
         IN  /\ BookOK(r, NoSlot)
             /\ r.occupancy = b.occupancy
             /\ Range(r.stops) \subseteq Range(b.stops) \ {slot}
             /\ \A s \in Slots \ {slot} : r.orders[s] = b.orders[s]
<1> DEFINE d == detach_stop(b, slot)
<1>1. slot \in Range(b.stops)
  BY SlotsAssumption DEF BookOK, StopsLinked
<1>2. /\ BookOK(d, slot) /\ d.orders = b.orders /\ d.occupancy = b.occupancy
      /\ d.orders[slot].kind = "stop"
  BY <1>1, DetachStopLinks
<1>3. Range(d.stops) \subseteq Range(b.stops) \ {slot}
  BY <1>2, SlotsAssumption DEF BookOK, StopsLinked
<1> HIDE DEF d
<1>4. LET r == [d EXCEPT !.orders[slot] = FreeSlot]
      IN  BookOK(r, NoSlot) /\ SameQueues(d, r) /\ r.stops = d.stops
            /\ \A s \in Slots \ {slot} : r.orders[s] = d.orders[s]
  BY <1>2, ReleaseActiveLinks
<1> QED BY <1>2, <1>3, <1>4 DEF unlink_stop, SameQueues, d

\* An amended order keeps its place.
LEMMA AmendLinks ==
  ASSUME NEW b, BookOK(b, NoSlot), NEW slot \in Slots, b.orders[slot].kind # "free",
         NEW quantity \in Quantity, quantity <= b.orders[slot].remaining
  PROVE  LET r == amend(b, slot, quantity)
         IN  /\ BookOK(r, NoSlot)
             /\ r.occupancy = b.occupancy
             /\ r.stops = b.stops
             /\ \A s \in Slots : /\ r.orders[s].side = b.orders[s].side
                                 /\ r.orders[s].trigger = b.orders[s].trigger
<1> DEFINE r == amend(b, slot, quantity)
<1>1. /\ b \in Book /\ b.orders \in [Slots -> Order] /\ b.orders[slot] \in Order
      /\ b.orders[slot].remaining \in Quantity /\ b.orders[slot].displayed \in Quantity
      /\ b.orders[slot].kind \in {"resting", "stop"}
  BY DEF BookOK, Book, Order
<1>2. ASSUME NEW order \in Order, order.kind = b.orders[slot].kind,
             order.side = b.orders[slot].side, order.level = b.orders[slot].level,
             order.trigger = b.orders[slot].trigger,
             r.orders = [b.orders EXCEPT ![slot] = order],
             r \in Book, r.queue = b.queue, r.occupancy = b.occupancy, r.stops = b.stops
      PROVE  /\ BookOK(r, NoSlot)
             /\ \A s \in Slots : /\ r.orders[s].side = b.orders[s].side
                                 /\ r.orders[s].trigger = b.orders[s].trigger
  <2> HIDE DEF r
  <2>1. \A s \in Slots : r.orders[s] = IF s = slot THEN order ELSE b.orders[s]
    BY <1>1, <1>2
  <2>2. SameQueues(b, r)
    BY <1>2, <2>1 DEF SameQueues
  <2>3. StopsLinked(r, NoSlot)
    <3>1. \A s \in Slots : r.orders[s].kind = "stop" <=> b.orders[s].kind = "stop"
      BY <1>2, <2>1
    <3>2. StopsLinked(b, NoSlot) /\ r.stops = b.stops
      BY <1>2 DEF BookOK
    <3> QED BY <3>1, <3>2, StopsKept
  <2> QED BY <1>2, <2>1, <2>2, <2>3, QueuesKept
<1>3. CASE b.orders[slot].kind = "stop"
  <2> DEFINE order == [b.orders[slot] EXCEPT !.remaining = quantity]
  <2>1. /\ order \in Order /\ order.kind = b.orders[slot].kind
        /\ order.side = b.orders[slot].side /\ order.level = b.orders[slot].level
        /\ order.trigger = b.orders[slot].trigger
    BY <1>1 DEF Order
  <2>2. r = [b EXCEPT !.orders[slot] = order]
    BY <1>3 DEF amend
  <2> HIDE DEF order
  <2>3. /\ r \in Book /\ r.queue = b.queue /\ r.occupancy = b.occupancy
        /\ r.stops = b.stops /\ r.orders = [b.orders EXCEPT ![slot] = order]
    BY <1>1, <2>1, <2>2, ZenonT(40) DEF Book
  <2> QED BY <1>2, <2>1, <2>3
<1>4. CASE b.orders[slot].kind = "resting"
  <2> DEFINE side == b.orders[slot].side
             level == b.orders[slot].level
             displayed == Min({b.orders[slot].displayed, quantity})
             order == [b.orders[slot] EXCEPT !.remaining = quantity, !.displayed = displayed]
             aggregate == minus(b.aggregate_quantity[side][level],
                                b.orders[slot].remaining - quantity)
  <2>1. displayed \in Quantity
    BY <1>1, MinOfPair DEF Quantity
  <2>2. aggregate \in Quantity
    <3>1. b.orders[slot].remaining - quantity \in Quantity
      BY <1>1, QuantityAssumption DEF Quantity
    <3>2. side \in Sides /\ level \in Levels
      BY <1>1, <1>4 DEF BookOK, Order
    <3>3. b.aggregate_quantity[side][level] \in Quantity
      BY <1>1, <3>2 DEF Book
    <3> QED BY <3>1, <3>3, QuantityOps
  <2> HIDE DEF displayed, aggregate
  <2>3. /\ order \in Order /\ order.kind = b.orders[slot].kind
        /\ order.side = b.orders[slot].side /\ order.level = b.orders[slot].level
        /\ order.trigger = b.orders[slot].trigger
    BY <1>1, <2>1 DEF Order
  <2>4. r = [b EXCEPT !.orders[slot] = order,
                      !.aggregate_quantity[side][level] = aggregate]
    BY <1>4 DEF amend, displayed, aggregate
  <2> HIDE DEF order
  <2>5. /\ r \in Book /\ r.queue = b.queue /\ r.occupancy = b.occupancy
        /\ r.stops = b.stops /\ r.orders = [b.orders EXCEPT ![slot] = order]
    <3>1. side \in Sides /\ level \in Levels
      BY <1>1, <1>4 DEF BookOK, Order
    <3> HIDE DEF side, level, r
    <3> QED BY <1>1, <2>2, <2>3, <2>4, <3>1 DEF Book
  <2> QED BY <1>2, <2>3, <2>5
<1>5. r.occupancy = b.occupancy /\ r.stops = b.stops
  BY <1>1 DEF amend, Book
<1> QED BY <1>1, <1>2, <1>3, <1>4, <1>5
=============================================================================
