----------------------------- MODULE SpscProofs -----------------------------
(***************************************************************************)
(* Proofs about the ring of SpscQueue.tla, for any capacity, any index     *)
(* range that the capacity divides, and any values.                        *)
(***************************************************************************)
EXTENDS SpscQueue, TLAPS

\* The indices wrap to the slot they started at, as they do when the capacity is
\* a power of two and the range is 2^64.
WrapsEvenly == \E turns \in Nat : IndexRange = turns * Capacity

-----------------------------------------------------------------------------
(* Indices.                                                                *)

\* A remainder is determined by any quotient.
LEMMA Remainder ==
  ASSUME NEW n \in Nat \ {0}, NEW q \in Int, NEW r \in 0 .. n - 1, NEW a \in Int, a = q * n + r
  PROVE  a % n = r
OBVIOUS

\* after() without the modulus: the sum, less one turn when it reaches the range.
LEMMA AfterForm ==
  ASSUME NEW a \in Index, NEW n \in 0 .. IndexRange - 1
  PROVE  /\ after(a, n) = IF a + n < IndexRange THEN a + n ELSE a + n - IndexRange
         /\ after(a, n) \in Index
<1>1. IndexRange \in Nat \ {0} /\ a \in 0 .. IndexRange - 1
  BY IndexAssumption, CapacityAssumption DEF Index
<1>2. CASE a + n < IndexRange
  BY <1>1, <1>2, Remainder DEF after, Index
<1>3. CASE a + n >= IndexRange
  <2>1. a + n - IndexRange \in 0 .. IndexRange - 1 /\ a + n = 1 * IndexRange + (a + n - IndexRange)
    BY <1>1, <1>3
  <2>2. (a + n) % IndexRange = a + n - IndexRange
    BY <1>1, <2>1, Remainder
  <2> QED BY <1>1, <1>3, <2>1, <2>2 DEF after, Index
<1> QED BY <1>1, <1>2, <1>3

\* distance() without the modulus.
LEMMA DistanceForm ==
  ASSUME NEW a \in Index, NEW b \in Index
  PROVE  /\ distance(a, b) = IF a <= b THEN b - a ELSE b - a + IndexRange
         /\ distance(a, b) \in 0 .. IndexRange - 1
<1>1. IndexRange \in Nat \ {0} /\ a \in 0 .. IndexRange - 1 /\ b \in 0 .. IndexRange - 1
  BY IndexAssumption, CapacityAssumption DEF Index
<1>2. CASE a <= b
  BY <1>1, <1>2, Remainder DEF distance
<1>3. CASE a > b
  <2>1. b - a + IndexRange \in 0 .. IndexRange - 1 /\ b - a = (-1) * IndexRange + (b - a + IndexRange)
    BY <1>1, <1>3
  <2>2. (b - a) % IndexRange = b - a + IndexRange
    BY <1>1, <2>1, Remainder
  <2> QED BY <1>1, <1>3, <2>1, <2>2 DEF distance
<1> QED BY <1>1, <1>2, <1>3

\* A distance is a number, which the prover is told once.
LEMMA DistanceIsNumber ==
  ASSUME NEW a \in Index, NEW b \in Index
  PROVE  distance(a, b) \in Nat /\ distance(a, b) \in Int
BY DistanceForm, IndexAssumption

\* Going n steps from a and measuring gives n, and the other way round.
LEMMA ThereAndBack ==
  ASSUME NEW a \in Index, NEW b \in Index, NEW n \in 0 .. IndexRange - 1
  PROVE  distance(a, after(a, n)) = n /\ after(a, distance(a, b)) = b
<1>1. a \in 0 .. IndexRange - 1 /\ b \in 0 .. IndexRange - 1 /\ IndexRange \in Nat
  BY IndexAssumption DEF Index
<1>2. /\ after(a, n) = IF a + n < IndexRange THEN a + n ELSE a + n - IndexRange
      /\ after(a, n) \in Index
  BY AfterForm
<1>3. distance(a, after(a, n)) = IF a <= after(a, n) THEN after(a, n) - a
                                 ELSE after(a, n) - a + IndexRange
  BY <1>2, DistanceForm
<1>4. /\ distance(a, b) = IF a <= b THEN b - a ELSE b - a + IndexRange
      /\ distance(a, b) \in 0 .. IndexRange - 1
  BY DistanceForm
<1>5. after(a, distance(a, b)) = IF a + distance(a, b) < IndexRange THEN a + distance(a, b)
                                 ELSE a + distance(a, b) - IndexRange
  BY <1>4, AfterForm
<1> QED BY <1>1, <1>2, <1>3, <1>4, <1>5

\* An index between two others splits their distance.
LEMMA Between ==
  ASSUME NEW a \in Index, NEW b \in Index, NEW c \in Index,
         \/ distance(a, b) <= distance(a, c)
         \/ distance(a, b) + distance(b, c) < IndexRange
  PROVE  distance(a, c) = distance(a, b) + distance(b, c)
<1>1. /\ a \in 0 .. IndexRange - 1 /\ b \in 0 .. IndexRange - 1 /\ c \in 0 .. IndexRange - 1
      /\ IndexRange \in Nat
  BY IndexAssumption DEF Index
<1>2. /\ distance(a, b) = IF a <= b THEN b - a ELSE b - a + IndexRange
      /\ distance(b, c) = IF b <= c THEN c - b ELSE c - b + IndexRange
      /\ distance(a, c) = IF a <= c THEN c - a ELSE c - a + IndexRange
  BY DistanceForm
<1> QED BY <1>1, <1>2

\* Going on from where one arrived is going the whole way.
LEMMA TwoSteps ==
  ASSUME NEW a \in Index, NEW m \in Nat, NEW n \in Nat, m + n < IndexRange
  PROVE  after(after(a, m), n) = after(a, m + n)
<1>1. /\ a \in 0 .. IndexRange - 1 /\ IndexRange \in Nat
      /\ m \in 0 .. IndexRange - 1 /\ n \in 0 .. IndexRange - 1 /\ m + n \in 0 .. IndexRange - 1
  BY IndexAssumption DEF Index
<1>2. /\ after(a, m) = IF a + m < IndexRange THEN a + m ELSE a + m - IndexRange
      /\ after(a, m) \in Index
      /\ after(a, m + n) = IF a + (m + n) < IndexRange THEN a + (m + n) ELSE a + (m + n) - IndexRange
  BY <1>1, AfterForm
<1>3. after(after(a, m), n) = IF after(a, m) + n < IndexRange THEN after(a, m) + n
                              ELSE after(a, m) + n - IndexRange
  BY <1>1, <1>2, AfterForm
<1> QED BY <1>1, <1>2, <1>3

\* The slots after a slot, once round the ring: this is where an even wrap is needed.
LEMMA SlotForm ==
  ASSUME WrapsEvenly, NEW a \in Index, NEW i \in 0 .. Capacity - 1
  PROVE  /\ slot_of(a) \in 0 .. Capacity - 1
         /\ slot_of(after(a, i)) = IF slot_of(a) + i < Capacity THEN slot_of(a) + i
                                   ELSE slot_of(a) + i - Capacity
<1> DEFINE q == a \div Capacity
           r == a % Capacity
           over == r + i - Capacity
<1>1. /\ Capacity \in Nat \ {0} /\ IndexRange \in Nat \ {0} /\ a \in Nat /\ a \in Int
      /\ i \in 0 .. IndexRange - 1
  BY CapacityAssumption, IndexAssumption DEF Index
<1>2. PICK turns \in Nat : IndexRange = turns * Capacity
  BY DEF WrapsEvenly
<1>3. q \in Int /\ r \in 0 .. Capacity - 1 /\ a = q * Capacity + r
  BY <1>1
<1> HIDE DEF q, r
<1>4. slot_of(a) = r
  BY DEF slot_of, r
<1>5. /\ a + i = q * Capacity + (r + i)
      /\ a + i - IndexRange = (q - turns) * Capacity + (r + i)
  BY <1>1, <1>2, <1>3
<1>11. /\ a + i = (q + 1) * Capacity + over
       /\ a + i - IndexRange = (q - turns + 1) * Capacity + over
  BY <1>1, <1>2, <1>3
<1>10. \A x, k \in Int, o \in 0 .. Capacity - 1 : x = k * Capacity + o => x % Capacity = o
  BY <1>1, Remainder
<1>6. \/ after(a, i) = a + i
      \/ after(a, i) = a + i - IndexRange
  BY <1>1, AfterForm
<1>7. a + i \in Int /\ a + i - IndexRange \in Int /\ q + 1 \in Int /\ q - turns \in Int
      /\ q - turns + 1 \in Int
  BY <1>1, <1>3
<1>8. CASE r + i < Capacity
  <2>1. r + i \in 0 .. Capacity - 1
    BY <1>1, <1>3, <1>8
  <2>2. (a + i) % Capacity = r + i
    BY <1>3, <1>5, <1>7, <2>1, <1>10, Zenon
  <2>3. (a + i - IndexRange) % Capacity = r + i
    BY <1>5, <1>7, <2>1, <1>10, Zenon
  <2> QED BY <1>3, <1>4, <1>6, <1>8, <2>2, <2>3 DEF slot_of
<1>9. CASE r + i >= Capacity
  <2>1. over \in 0 .. Capacity - 1 /\ ~(r + i < Capacity)
    BY <1>1, <1>3, <1>9
  <2> HIDE DEF over
  <2>2. (a + i) % Capacity = over
    BY <1>11, <1>7, <2>1, <1>10, Zenon
  <2>3. (a + i - IndexRange) % Capacity = over
    BY <1>11, <1>7, <2>1, <1>10, Zenon
  <2> QED BY <1>3, <1>4, <1>6, <2>1, <2>2, <2>3 DEF slot_of, over
<1> QED BY <1>1, <1>3, <1>4, <1>8, <1>9

\* Indices less than a capacity apart have different slots.
LEMMA DistinctSlots ==
  ASSUME WrapsEvenly, NEW a \in Index, NEW i \in 0 .. Capacity - 1, NEW j \in 0 .. Capacity - 1,
         i # j
  PROVE  slot_of(after(a, i)) # slot_of(after(a, j))
<1>1. Capacity \in Nat \ {0}
  BY CapacityAssumption
<1> QED BY <1>1, SlotForm

-----------------------------------------------------------------------------
(* The inductive invariant.                                                *)

\* The stores the other thread can still see go forward, by one or more each.
Rising(stores) ==
  /\ stores \in Seq(Index) /\ Len(stores) >= 1
  /\ \A i, j \in 1 .. Len(stores) :
       i <= j => distance(stores[1], stores[i]) + (j - i) <= distance(stores[1], stores[j])

\* What is published starts at the index its reader has cached and ends at the
\* one its owner is at.
StoresInv ==
  /\ Rising(head_stores) /\ Rising(tail_stores)
  /\ head_stores[1] = producer.cached_head /\ latest(head_stores) = consumer.head
  /\ tail_stores[1] = consumer.cached_tail /\ latest(tail_stores) = producer.tail

\* Going round from the cached head one meets the head, the cached tail, the tail and
\* the end of the batch, in this order and within one turn of the slots.
ChainInv ==
  distance(producer.cached_head, consumer.head)
  + distance(consumer.head, consumer.cached_tail)
  + distance(consumer.cached_tail, producer.tail)
  + Len(producer.batch) <= Capacity

\* There is a batch only while it is being written, and the slots hold the part of it
\* written so far.
ProducerInv ==
  /\ producer.pc = "write" => Len(producer.batch) >= 1
  /\ producer.pc # "write" => producer.batch = <<>>
  /\ producer.written <= Len(producer.batch)
  /\ \A i \in 1 .. producer.written :
       slots[slot_of(after(producer.tail, i - 1))] = producer.batch[i]

\* A call that got past the check has a value to read, and keeps what it has read.
ConsumerInv ==
  /\ consumer.pc \in {"read", "advance"} => consumer.head # consumer.cached_tail
  /\ consumer.pc = "advance" => consumer.value = slots[slot_of(consumer.head)]

Inv == TypeOK /\ StoresInv /\ ChainInv /\ ProducerInv /\ ConsumerInv

-----------------------------------------------------------------------------
(* Sequences of stores and of values.                                      *)

\* The batches of the type are the sequences of at most Capacity values.
LEMMA BatchesAreSequences ==
  ASSUME NEW b, NEW n \in Nat
  PROVE  b \in UNION {[1 .. m -> Values] : m \in 0 .. n}
           <=> b \in Seq(Values) /\ Len(b) \in 0 .. n
<1>1. ASSUME b \in UNION {[1 .. m -> Values] : m \in 0 .. n}
      PROVE  b \in Seq(Values) /\ Len(b) \in 0 .. n
  <2>1. PICK m \in 0 .. n : b \in [1 .. m -> Values]
    BY <1>1
  <2> QED BY <2>1
<1>2. ASSUME b \in Seq(Values), Len(b) \in 0 .. n
      PROVE  b \in UNION {[1 .. m -> Values] : m \in 0 .. n}
  <2>1. b \in [1 .. Len(b) -> Values]
    BY <1>2
  <2> QED BY <1>2, <2>1
<1> QED BY <1>1, <1>2

\* Places in a sequence and in its part from k on.
LEMMA Places ==
  ASSUME NEW k \in Nat, NEW len \in Nat, NEW part \in Nat,
         k >= 1, k <= len, part = len - k + 1
  PROVE  /\ 1 \in 1 .. part /\ part \in 1 .. part /\ k + part - 1 = len
         /\ \A i, j \in 1 .. part :
              /\ k + i - 1 \in k .. len /\ k + i - 1 \in 1 .. len
              /\ (k + j - 1) - (k + i - 1) = j - i
OBVIOUS

\* An acquire load leaves the stores from the one it saw on.
LEMMA Load ==
  ASSUME NEW stores, Rising(stores), NEW k \in DOMAIN stores
  PROVE  /\ Rising(seen_from(stores, k))
         /\ seen_from(stores, k)[1] = stores[k]
         /\ latest(seen_from(stores, k)) = latest(stores)
         /\ Len(seen_from(stores, k)) <= Len(stores)
         /\ stores[k] \in Index /\ latest(stores) \in Index
         /\ distance(stores[1], latest(stores))
              = distance(stores[1], stores[k]) + distance(stores[k], latest(stores))
<1> DEFINE seen == seen_from(stores, k)
<1>1. /\ stores \in Seq(Index) /\ Len(stores) \in Nat \ {0} /\ k \in 1 .. Len(stores)
      /\ \A i \in 1 .. Len(stores) : stores[i] \in Index
  BY DEF Rising
<1>2. /\ seen \in Seq(Index) /\ Len(seen) = Len(stores) - k + 1
      /\ \A i \in 1 .. Len(seen) : seen[i] = stores[k + i - 1]
  BY <1>1 DEF seen_from
<1> HIDE DEF seen
<1>3. ASSUME NEW i \in k .. Len(stores)
      PROVE  distance(stores[1], stores[i])
               = distance(stores[1], stores[k]) + distance(stores[k], stores[i])
  <2>1. i \in 1 .. Len(stores) /\ 1 \in 1 .. Len(stores) /\ i - k \in Nat
    BY <1>1
  <2>2. stores[1] \in Index /\ stores[k] \in Index /\ stores[i] \in Index
    BY <1>1, <2>1
  <2>3. distance(stores[1], stores[k]) + (i - k) <= distance(stores[1], stores[i])
    BY <1>1, <2>1 DEF Rising
  <2>4. distance(stores[1], stores[k]) \in Nat /\ distance(stores[1], stores[i]) \in Nat
    BY <2>2, IndexAssumption, DistanceIsNumber
  <2>5. distance(stores[1], stores[k]) <= distance(stores[1], stores[i])
    BY <2>1, <2>3, <2>4
  <2> QED BY <2>2, <2>5, Between
<1>8. /\ Len(seen) \in Nat /\ Len(stores) \in Nat /\ k \in Nat /\ k >= 1 /\ k <= Len(stores)
      /\ Len(seen) = Len(stores) - k + 1
  BY <1>1, <1>2
<1>4. seen[1] = stores[k] /\ latest(seen) = latest(stores)
  <2>1. 1 \in 1 .. Len(seen) /\ Len(seen) \in 1 .. Len(seen)
        /\ k + Len(seen) - 1 = Len(stores)
    <3> DEFINE part == Len(seen)
               len == Len(stores)
    <3>1. part \in Nat /\ len \in Nat /\ k \in Nat /\ k >= 1 /\ k <= len /\ part = len - k + 1
      BY <1>8
    <3> HIDE DEF part, len
    <3>2. 1 \in 1 .. part /\ part \in 1 .. part /\ k + part - 1 = len
      BY <3>1, Places
    <3> QED BY <3>2 DEF part, len
  <2>2. \A i \in 1 .. Len(seen), m \in Nat : m = k + i - 1 => seen[i] = stores[m]
    BY <1>2
  <2>3. seen[1] = stores[k]
    BY <1>8, <2>1, <2>2
  <2>4. seen[Len(seen)] = stores[Len(stores)]
    BY <1>8, <2>1, <2>2
  <2> QED BY <2>3, <2>4 DEF latest
<1>5. ASSUME NEW i \in 1 .. Len(seen), NEW j \in 1 .. Len(seen), i <= j
      PROVE  distance(seen[1], seen[i]) + (j - i) <= distance(seen[1], seen[j])
  <2> DEFINE m == k + i - 1
             n == k + j - 1
  <2>8. m \in k .. Len(stores) /\ n \in k .. Len(stores) /\ n - m = j - i
        /\ m \in 1 .. Len(stores) /\ n \in 1 .. Len(stores)
    BY <1>8, Places
  <2>2. seen[i] = stores[m] /\ seen[j] = stores[n]
    BY <1>2
  <2> HIDE DEF m, n
  <2>1. m <= n /\ n - m = j - i /\ m \in k .. Len(stores) /\ n \in k .. Len(stores)
        /\ m \in 1 .. Len(stores) /\ n \in 1 .. Len(stores)
    <3>1. m \in Int /\ n \in Int /\ i \in Int /\ j \in Int
      BY <2>8
    <3>2. m <= n
      BY <1>5, <2>8, <3>1
    <3> QED BY <2>8, <3>2
  <2>3. distance(stores[1], stores[m]) + (n - m) <= distance(stores[1], stores[n])
    BY <2>1 DEF Rising
  <2>4. /\ stores[1] \in Index /\ stores[k] \in Index /\ stores[m] \in Index
        /\ stores[n] \in Index
    BY <1>1, <2>1
  <2>5. /\ distance(stores[1], stores[k]) \in Int /\ distance(stores[k], stores[m]) \in Int
        /\ distance(stores[k], stores[n]) \in Int
    BY <2>4, DistanceIsNumber
  <2>6. /\ distance(stores[1], stores[m])
             = distance(stores[1], stores[k]) + distance(stores[k], stores[m])
        /\ distance(stores[1], stores[n])
             = distance(stores[1], stores[k]) + distance(stores[k], stores[n])
    BY <1>3, <2>1
  <2>7. distance(stores[k], stores[m]) + (n - m) <= distance(stores[k], stores[n])
    BY <2>1, <2>3, <2>5, <2>6
  <2> QED BY <1>4, <2>1, <2>2, <2>7
<1>6. Rising(seen) /\ Len(seen) <= Len(stores)
  BY <1>1, <1>2, <1>5 DEF Rising
<1>7. Len(stores) \in k .. Len(stores) /\ stores[k] \in Index /\ latest(stores) \in Index
  BY <1>1 DEF latest
<1> QED BY <1>3, <1>4, <1>6, <1>7 DEF seen, latest

\* A release store some steps further on, less than a turn from the oldest one.
LEMMA Store ==
  ASSUME NEW stores, Rising(stores), NEW n \in Nat \ {0},
         distance(stores[1], latest(stores)) + n < IndexRange
  PROVE  LET next == after(latest(stores), n)
         IN  /\ next \in Index
             /\ Rising(Append(stores, next))
             /\ Append(stores, next)[1] = stores[1]
             /\ latest(Append(stores, next)) = next
             /\ distance(stores[1], next) = distance(stores[1], latest(stores)) + n
<1> DEFINE last == latest(stores)
           next == after(last, n)
           longer == Append(stores, next)
<1>1. /\ stores \in Seq(Index) /\ Len(stores) \in Nat \ {0}
      /\ stores[1] \in Index /\ last \in Index
  BY DEF Rising, latest
<1>2. distance(stores[1], last) \in Nat /\ n \in 0 .. IndexRange - 1
  BY <1>1, IndexAssumption, DistanceIsNumber
<1>3. next \in Index /\ distance(last, next) = n
  BY <1>1, <1>2, AfterForm, ThereAndBack
<1>4. distance(stores[1], next) = distance(stores[1], last) + n
  BY <1>1, <1>3, Between
<1>5. /\ longer \in Seq(Index) /\ Len(longer) = Len(stores) + 1
      /\ longer[1] = stores[1] /\ latest(longer) = next
      /\ \A i \in 1 .. Len(stores) : longer[i] = stores[i]
      /\ longer[Len(stores) + 1] = next
  BY <1>1, <1>3 DEF latest
<1> HIDE DEF longer, next
<1>6. ASSUME NEW i \in 1 .. Len(longer), NEW j \in 1 .. Len(longer), i <= j
      PROVE  distance(longer[1], longer[i]) + (j - i) <= distance(longer[1], longer[j])
  <2>1. CASE j \in 1 .. Len(stores)
    <3>1. i \in 1 .. Len(stores)
      BY <1>1, <1>6, <2>1
    <3> QED BY <1>5, <1>6, <2>1, <3>1 DEF Rising
  <2>2. CASE j = Len(stores) + 1 /\ i \in 1 .. Len(stores)
    <3>1. distance(stores[1], stores[i]) + (Len(stores) - i) <= distance(stores[1], last)
      BY <1>1, <2>2 DEF Rising, latest
    <3>2. stores[i] \in Index
      BY <1>1, <2>2
    <3>3. distance(stores[1], stores[i]) \in Int
      BY <1>1, <3>2, DistanceIsNumber
    <3>4. distance(stores[1], stores[i]) + (j - i) <= distance(stores[1], next)
      BY <1>1, <1>2, <1>4, <2>2, <3>1, <3>3
    <3> QED BY <1>5, <2>2, <3>4
  <2>3. CASE j = Len(stores) + 1 /\ i = Len(stores) + 1
    <3>1. distance(stores[1], next) \in Int
      BY <1>2, <1>4
    <3> QED BY <1>1, <1>5, <2>3, <3>1
  <2> QED BY <1>1, <1>5, <1>6, <2>1, <2>2, <2>3
<1>7. Rising(longer)
  BY <1>1, <1>5, <1>6 DEF Rising
<1> QED BY <1>3, <1>4, <1>5, <1>7 DEF longer, next

\* There are no more stores to see than steps between the oldest and the newest.
LEMMA FewStores ==
  ASSUME NEW stores, Rising(stores)
  PROVE  /\ Len(stores) - 1 <= distance(stores[1], latest(stores))
         /\ stores[1] \in Index /\ latest(stores) \in Index
<1>1. stores \in Seq(Index) /\ Len(stores) \in Nat \ {0}
      /\ stores[1] \in Index /\ latest(stores) \in Index
  BY DEF Rising, latest
<1>2. /\ distance(stores[1], stores[1]) + (Len(stores) - 1) <= distance(stores[1], latest(stores))
      /\ distance(stores[1], stores[1]) \in Nat /\ distance(stores[1], latest(stores)) \in Nat
  BY <1>1, DistanceIsNumber DEF Rising, latest
<1> QED BY <1>1, <1>2

-----------------------------------------------------------------------------
(* The invariant is preserved.                                             *)

\* The four indices of the threads.
Placed ==
  /\ producer.cached_head \in Index /\ consumer.head \in Index
  /\ consumer.cached_tail \in Index /\ producer.tail \in Index

\* The distances between them.
Spaced ==
  /\ distance(producer.cached_head, consumer.head) \in Nat
  /\ distance(consumer.head, consumer.cached_tail) \in Nat
  /\ distance(consumer.cached_tail, producer.tail) \in Nat
  /\ distance(consumer.head, producer.tail) \in Nat
  /\ Len(producer.batch) \in Nat
  /\ Capacity \in Nat /\ IndexRange \in Nat /\ 1 <= Capacity /\ Capacity < IndexRange

Split ==
  distance(consumer.head, producer.tail)
    = distance(consumer.head, consumer.cached_tail)
      + distance(consumer.cached_tail, producer.tail)

\* What is used, known to be used and being written fits the ring.
Fits ==
  distance(producer.cached_head, consumer.head)
    + distance(consumer.head, producer.tail) + Len(producer.batch) <= Capacity

\* A stretch that ends a chain within the capacity is within the capacity itself.
LEMMA Shorter ==
  ASSUME NEW whole \in Nat, NEW first \in Nat, NEW second \in Nat, NEW more \in Nat,
         NEW size \in Nat, NEW cap \in Nat, NEW range \in Nat,
         whole = first + second, whole + more + size <= cap, cap < range
  PROVE  second + more + size <= cap /\ second + more <= cap /\ second + more < range
OBVIOUS

\* What the invariant says of the four indices, in the forms the steps use.
LEMMA Geometry ==
  ASSUME Inv
  PROVE  Placed /\ Spaced /\ Split /\ Fits /\ producer.batch \in Seq(Values)
<1>1. /\ producer.cached_head \in Index /\ consumer.head \in Index
      /\ consumer.cached_tail \in Index /\ producer.tail \in Index
  BY DEF Inv, TypeOK, Producer, Consumer
<1>2. /\ distance(producer.cached_head, consumer.head) \in Nat
      /\ distance(consumer.head, consumer.cached_tail) \in Nat
      /\ distance(consumer.cached_tail, producer.tail) \in Nat
      /\ distance(consumer.head, producer.tail) \in Nat
  BY <1>1, DistanceIsNumber
<1>3. Capacity \in Nat \ {0} /\ IndexRange \in Nat /\ IndexRange > Capacity
  BY CapacityAssumption, IndexAssumption
<1>4. producer.batch \in Seq(Values) /\ Len(producer.batch) \in Nat
  <2>1. producer.batch \in UNION {[1 .. n -> Values] : n \in 0 .. Capacity}
    BY DEF Inv, TypeOK, Producer
  <2> QED BY <1>3, <2>1, BatchesAreSequences
<1>5. distance(consumer.head, consumer.cached_tail)
        + distance(consumer.cached_tail, producer.tail) < IndexRange
  BY <1>2, <1>3, <1>4 DEF Inv, ChainInv
<1>6. distance(consumer.head, producer.tail)
        = distance(consumer.head, consumer.cached_tail)
          + distance(consumer.cached_tail, producer.tail)
  BY <1>1, <1>5, Between
<1>7. distance(producer.cached_head, consumer.head)
        + distance(consumer.head, producer.tail) + Len(producer.batch) <= Capacity
  BY <1>2, <1>3, <1>4, <1>6 DEF Inv, ChainInv
<1> QED BY <1>1, <1>2, <1>3, <1>4, <1>6, <1>7 DEF Placed, Spaced, Split, Fits

\* The invariant holds of the empty ring.
LEMMA InitInv ==
  ASSUME Init
  PROVE  Inv
<1>1. Capacity \in Nat \ {0} /\ IndexRange \in Nat /\ IndexRange > Capacity /\ 0 \in Index
  BY CapacityAssumption, IndexAssumption DEF Index
<1>2. distance(0, 0) = 0
  BY <1>1, DistanceForm
<1>3. <<>> \in UNION {[1 .. n -> Values] : n \in 0 .. Capacity}
  BY <1>1, BatchesAreSequences
<1>6. slots \in [0 .. Capacity - 1 -> Values \cup {NoValue}] /\ consumer \in Consumer
  BY <1>1 DEF Init, Consumer
<1>8. producer \in Producer
  <2>1. 0 \in 0 .. Capacity
    BY <1>1
  <2> DEFINE Batch == UNION {[1 .. n -> Values] : n \in 0 .. Capacity}
  <2> HIDE DEF Batch
  <2>2. Producer = [pc : {"unclaimed", "idle", "write"}, tail : Index, cached_head : Index,
                    batch : Batch, written : 0 .. Capacity] /\ <<>> \in Batch
    BY <1>3 DEF Producer, Batch
  <2> QED BY <1>1, <2>1, <2>2 DEF Init
<1>7. <<0>> \in Seq(Index) /\ Len(<<0>>) = 1 /\ <<0>>[1] = 0
  BY <1>1
<1>4. TypeOK
  BY <1>1, <1>6, <1>7, <1>8 DEF Init, TypeOK
<1>5. Rising(<<0>>) /\ latest(<<0>>) = 0
  <2>1. <<0>> \in Seq(Index) /\ Len(<<0>>) = 1 /\ <<0>>[1] = 0
    BY <1>1 DEF Index
  <2>2. \A i, j \in 1 .. 1 : i = 1 /\ j = 1
    OBVIOUS
  <2>3. \A i, j \in 1 .. 1 : distance(<<0>>[1], <<0>>[i]) + (j - i) <= distance(<<0>>[1], <<0>>[j])
    BY <1>2, <2>1, <2>2
  <2> QED BY <2>1, <2>3 DEF Rising, latest
<1> QED BY <1>1, <1>2, <1>4, <1>5
        DEF Init, Inv, StoresInv, ChainInv, ProducerInv, ConsumerInv

\* Claiming an endpoint changes nothing else.
LEMMA ClaimInv ==
  ASSUME Inv, claim_producer \/ claim_consumer
  PROVE  Inv'
<1>1. CASE claim_producer
  <2>1. /\ producer' \in Producer /\ producer'.pc = "idle"
        /\ producer'.tail = producer.tail /\ producer'.cached_head = producer.cached_head
        /\ producer'.batch = producer.batch /\ producer'.written = producer.written
    BY <1>1 DEF Inv, TypeOK, Producer, claim_producer
  <2> QED BY <1>1, <2>1 DEF claim_producer, Inv, TypeOK, StoresInv, ChainInv, ProducerInv, ConsumerInv
<1>2. CASE claim_consumer
  <2>1. /\ consumer' \in Consumer /\ consumer'.pc = "idle"
        /\ consumer'.head = consumer.head /\ consumer'.cached_tail = consumer.cached_tail
    BY <1>2 DEF Inv, TypeOK, Consumer, claim_consumer
  <2> QED BY <1>2, <2>1 DEF claim_consumer, Inv, TypeOK, StoresInv, ChainInv, ProducerInv, ConsumerInv
<1> QED BY <1>1, <1>2

\* The producer loads a head, and may make a batch of as many values as it then knows
\* to be free.
Loads(seen) ==
  /\ head_stores' = seen_from(head_stores, seen)
  /\ UNCHANGED <<slots, consumer, tail_stores>>
  /\ producer' \in Producer
  /\ producer'.cached_head = head_stores[seen] /\ producer'.tail = producer.tail
  /\ producer'.written = 0
  /\ \/ producer'.batch = <<>> /\ producer'.pc = "idle"
     \/ /\ producer'.pc = "write" /\ Len(producer'.batch) >= 1
        /\ distance(head_stores[seen], producer.tail) + Len(producer'.batch) <= Capacity

\* An acquire load of the head keeps the invariant, whichever store it sees.
LEMMA LoadInv ==
  ASSUME Inv, NEW i \in DOMAIN head_stores, Loads(i)
  PROVE  Inv'
<1>0. Placed /\ Spaced /\ Split /\ Fits
  BY Geometry
<1>1. Rising(head_stores)
  BY DEF Inv, StoresInv
<1>2. /\ Rising(head_stores') /\ head_stores'[1] = head_stores[i]
      /\ latest(head_stores') = consumer.head /\ Len(head_stores') <= Len(head_stores)
      /\ head_stores[i] \in Index
      /\ distance(producer.cached_head, consumer.head)
           = distance(producer.cached_head, head_stores[i]) + distance(head_stores[i], consumer.head)
  BY <1>1, Load DEF Inv, StoresInv, Loads
<1>3. /\ head_stores' \in Seq(Index) /\ Len(head_stores') \in 1 .. Capacity + 1
  BY <1>2, <1>0 DEF Spaced, Rising, Inv, TypeOK
<1>4. TypeOK'
  BY <1>3 DEF Inv, TypeOK, Loads
<1>5. StoresInv'
  BY <1>2 DEF Inv, StoresInv, Loads
<1>6. /\ distance(producer.cached_head, head_stores[i]) \in Nat
      /\ distance(head_stores[i], consumer.head) \in Nat
  BY <1>0, <1>2, DistanceIsNumber DEF Placed
<1>13. /\ distance(producer.cached_head, consumer.head)
            = distance(producer.cached_head, head_stores[i]) + distance(head_stores[i], consumer.head)
       /\ distance(producer.cached_head, consumer.head)
            + distance(consumer.head, producer.tail) + Len(producer.batch) <= Capacity
       /\ distance(producer.cached_head, consumer.head) \in Nat
       /\ distance(consumer.head, producer.tail) \in Nat /\ Len(producer.batch) \in Nat
       /\ Capacity \in Nat /\ IndexRange \in Nat /\ Capacity < IndexRange
  BY <1>0, <1>2 DEF Spaced, Fits
<1>7. /\ distance(head_stores[i], consumer.head) + distance(consumer.head, producer.tail) < IndexRange
      /\ distance(head_stores[i], consumer.head) + distance(consumer.head, producer.tail) <= Capacity
  BY <1>6, <1>13, Shorter
<1>8. distance(head_stores[i], producer.tail)
        = distance(head_stores[i], consumer.head) + distance(consumer.head, producer.tail)
  BY <1>0, <1>2, <1>7, Between DEF Placed
<1>9. Len(producer'.batch) \in Nat
  <2>1. producer'.batch \in UNION {[1 .. n -> Values] : n \in 0 .. Capacity}
    BY DEF Producer, Loads
  <2> QED BY <2>1, CapacityAssumption, BatchesAreSequences
<1>10. distance(head_stores[i], producer.tail) + Len(producer'.batch) <= Capacity
  <2>1. CASE producer'.batch = <<>>
    <3>1. Len(producer'.batch) = 0
      BY <2>1
    <3>3. distance(head_stores[i], producer.tail) <= Capacity
      BY <1>7, <1>8
    <3>4. distance(head_stores[i], producer.tail) \in Nat
      BY <1>0, <1>2, DistanceIsNumber DEF Placed
    <3> QED BY <3>1, <3>3, <3>4
  <2> QED BY <2>1 DEF Loads
<1>11. ChainInv'
  BY <1>0, <1>6, <1>8, <1>9, <1>10 DEF Spaced, Split, ChainInv, Loads
<1> QED BY <1>4, <1>5, <1>9, <1>11 DEF Inv, ProducerInv, ConsumerInv, Loads

\* available() of the producer keeps the invariant.
LEMMA AvailableInv ==
  ASSUME Inv, producer_available
  PROVE  Inv'
<1>1. PICK i \in DOMAIN head_stores :
        /\ producer' = [producer EXCEPT !.cached_head = head_stores[i]]
        /\ head_stores' = seen_from(head_stores, i)
  BY DEF producer_available
<1>2. head_stores[i] \in Index
  BY DEF Inv, TypeOK
<1>3. /\ producer \in Producer /\ producer.pc = "idle" /\ producer.batch = <<>>
      /\ producer.written = 0
  BY DEF Inv, TypeOK, Producer, ProducerInv, producer_available
<1>4. Loads(i)
  BY <1>1, <1>2, <1>3 DEF Loads, Producer, producer_available
<1> QED BY <1>4, LoadInv

\* The checks of try_push_batch() keep the invariant, and leave room for the batch.
LEMMA PushInv ==
  ASSUME Inv, NEW values \in InputBatches, try_push_batch(values)
  PROVE  Inv'
<1>1. CASE Len(values) \notin 1 .. Capacity
  BY <1>1 DEF try_push_batch, vars, Inv, TypeOK, StoresInv, ChainInv, ProducerInv, ConsumerInv
<1>2. CASE Len(values) \in 1 .. Capacity
  <2>1. PICK i \in DOMAIN head_stores :
          /\ head_stores' = seen_from(head_stores, i)
          /\ \/ producer' = [producer EXCEPT !.cached_head = head_stores[i]]
             \/ /\ ~(Capacity - distance(head_stores[i], producer.tail) < Len(values))
                /\ producer' = [producer EXCEPT !.cached_head = head_stores[i],
                                                !.pc = "write", !.batch = values]
    <3>1. producer \in Producer
      BY DEF Inv, TypeOK
    <3> QED BY <1>2, <3>1 DEF try_push_batch, known_free, Producer
  <2>2. head_stores[i] \in Index
    BY DEF Inv, TypeOK
  <2>6. producer.pc = "idle" /\ UNCHANGED <<slots, consumer, tail_stores>>
    BY <1>2 DEF try_push_batch
  <2>3. /\ producer \in Producer /\ producer.pc = "idle" /\ producer.batch = <<>>
        /\ producer.written = 0 /\ UNCHANGED <<slots, consumer, tail_stores>>
    BY <2>6 DEF Inv, TypeOK, Producer, ProducerInv
  <2>4. CASE producer' = [producer EXCEPT !.cached_head = head_stores[i]]
    <3>1. Loads(i)
      BY <2>1, <2>2, <2>3, <2>4 DEF Loads, Producer
    <3> QED BY <3>1, LoadInv
  <2>5. CASE /\ ~(Capacity - distance(head_stores[i], producer.tail) < Len(values))
             /\ producer' = [producer EXCEPT !.cached_head = head_stores[i],
                                             !.pc = "write", !.batch = values]
    <3>1. values \in UNION {[1 .. n -> Values] : n \in 0 .. Capacity}
      <4>1. values \in Seq(Values)
        BY CapacityAssumption, BatchesAreSequences DEF InputBatches
      <4> QED BY <1>2, <4>1, CapacityAssumption, BatchesAreSequences
    <3>2. /\ producer' \in Producer
          /\ producer'.cached_head = head_stores[i] /\ producer'.tail = producer.tail
          /\ producer'.written = 0 /\ producer'.batch = values /\ producer'.pc = "write"
      BY <2>2, <2>3, <2>5, <3>1 DEF Producer
    <3>3. distance(head_stores[i], producer.tail) \in Nat
      BY <2>2, Geometry, DistanceIsNumber DEF Placed
    <3>4. Len(values) >= 1 /\ distance(head_stores[i], producer.tail) + Len(values) <= Capacity
      BY <1>2, <2>5, <3>3, CapacityAssumption
    <3>5. Loads(i)
      BY <2>1, <2>3, <3>2, <3>4 DEF Loads
    <3> QED BY <3>5, LoadInv
  <2> QED BY <2>1, <2>4, <2>5
<1> QED BY <1>1, <1>2

\* Where a slot of the batch is, seen from the head: past what is published and within
\* the ring.
LEMMA BatchSlot ==
  ASSUME Inv, NEW k \in Nat, k < Len(producer.batch)
  PROVE  /\ after(producer.tail, k) \in Index
         /\ distance(consumer.head, producer.tail) + k \in 0 .. Capacity - 1
         /\ after(producer.tail, k) = after(consumer.head, distance(consumer.head, producer.tail) + k)
<1>1. Placed /\ Spaced /\ Fits
  BY Geometry
<1>2. distance(consumer.head, producer.tail) + k \in 0 .. Capacity - 1
  BY <1>1 DEF Spaced, Fits
<1>3. distance(consumer.head, producer.tail) + k < IndexRange /\ k \in 0 .. IndexRange - 1
  BY <1>1, <1>2 DEF Spaced
<1>4. after(consumer.head, distance(consumer.head, producer.tail)) = producer.tail
  BY <1>1, <1>3, ThereAndBack DEF Placed
<1>5. after(producer.tail, k) = after(consumer.head, distance(consumer.head, producer.tail) + k)
  BY <1>1, <1>3, <1>4, TwoSteps DEF Placed, Spaced
<1> QED BY <1>1, <1>2, <1>3, <1>5, AfterForm DEF Placed

\* The slot the consumer reads is the one after nothing at all.
LEMMA HeadSlot ==
  ASSUME NEW a \in Index
  PROVE  after(a, 0) = a
BY AfterForm, IndexAssumption, CapacityAssumption DEF Index

\* The slot being written is none of the published ones and none of those of the batch
\* written before.
LEMMA WriteApart ==
  ASSUME WrapsEvenly, Inv, producer.written < Len(producer.batch)
  PROVE  /\ slot_of(WriteIndex) \in 0 .. Capacity - 1
         /\ \A i \in 0 .. distance(consumer.head, producer.tail) - 1 :
              slot_of(after(consumer.head, i)) # slot_of(WriteIndex)
         /\ \A i \in 1 .. producer.written :
              slot_of(after(producer.tail, i - 1)) # slot_of(WriteIndex)
<1> DEFINE used == distance(consumer.head, producer.tail)
           w == producer.written
<1>1. consumer.head \in Index /\ used \in Nat /\ w \in Nat /\ Capacity \in Nat
  BY Geometry DEF Placed, Spaced, Inv, TypeOK, Producer
<1>2. /\ WriteIndex \in Index /\ used + w \in 0 .. Capacity - 1
      /\ WriteIndex = after(consumer.head, used + w)
  BY <1>1, BatchSlot DEF WriteIndex
<1> HIDE DEF used
<1>3. slot_of(WriteIndex) \in 0 .. Capacity - 1
  BY <1>1, <1>2, SlotForm
<1>4. ASSUME NEW i \in 0 .. used - 1
      PROVE  slot_of(after(consumer.head, i)) # slot_of(WriteIndex)
  <2>1. i \in 0 .. Capacity - 1 /\ i # used + w
    BY <1>1, <1>2
  <2> QED BY <1>1, <1>2, <2>1, DistinctSlots
<1>5. ASSUME NEW i \in 1 .. w
      PROVE  slot_of(after(producer.tail, i - 1)) # slot_of(WriteIndex)
  <2>1. i - 1 \in Nat /\ i - 1 < Len(producer.batch)
    BY <1>1, Geometry DEF Spaced
  <2>2. /\ used + (i - 1) \in 0 .. Capacity - 1
        /\ after(producer.tail, i - 1) = after(consumer.head, used + (i - 1))
    BY <2>1, BatchSlot DEF used
  <2>3. used + (i - 1) # used + w
    BY <1>1
  <2> QED BY <1>1, <1>2, <2>2, <2>3, DistinctSlots
<1> QED BY <1>3, <1>4, <1>5 DEF used

\* The consumer's slot is a published one whenever the consumer is past the check.
LEMMA ReadsPublished ==
  ASSUME Inv, consumer.pc \in {"read", "advance"}
  PROVE  /\ distance(consumer.head, producer.tail) >= 1
         /\ distance(consumer.head, consumer.cached_tail) >= 1
         /\ consumer.head = after(consumer.head, 0)
<1>1. Placed /\ Spaced /\ Split
  BY Geometry
<1>2. consumer.head # consumer.cached_tail
  BY DEF Inv, ConsumerInv
<1>3. consumer.head = after(consumer.head, 0)
  BY <1>1, HeadSlot DEF Placed
<1>4. distance(consumer.head, consumer.cached_tail) # 0
  <2>1. after(consumer.head, distance(consumer.head, consumer.cached_tail)) = consumer.cached_tail
    BY <1>1, ThereAndBack DEF Placed, Spaced
  <2> QED BY <1>2, <1>3, <2>1
<1>5. distance(consumer.head, consumer.cached_tail) >= 1
  BY <1>1, <1>4 DEF Spaced
<1>6. distance(consumer.head, producer.tail) >= 1
  BY <1>1, <1>5 DEF Spaced, Split
<1> QED BY <1>3, <1>5, <1>6

\* Writing a slot keeps the invariant: no published element is in that slot.
LEMMA WriteInv ==
  ASSUME WrapsEvenly, Inv, write_slot
  PROVE  Inv'
<1> DEFINE w == producer.written
           value == producer.batch[w + 1]
<1>1. /\ producer.pc = "write" /\ w < Len(producer.batch)
      /\ slots' = [slots EXCEPT ![slot_of(WriteIndex)] = value]
      /\ producer' = [producer EXCEPT !.written = w + 1]
      /\ UNCHANGED <<consumer, tail_stores, head_stores, returned>>
  BY DEF write_slot
<1>2. /\ producer \in Producer /\ w \in Nat /\ Len(producer.batch) \in Nat
      /\ producer.batch \in Seq(Values) /\ Capacity \in Nat
      /\ slots \in [0 .. Capacity - 1 -> Values \cup {NoValue}]
  BY Geometry DEF Inv, TypeOK, Producer, Spaced
<1>3. value \in Values
  BY <1>1, <1>2
<1>4. slot_of(WriteIndex) \in 0 .. Capacity - 1
  BY <1>1, WriteApart
<1>5. Len(producer.batch) <= Capacity
  BY Geometry DEF Spaced, Fits
<1>6. w + 1 \in 0 .. Capacity
  BY <1>1, <1>2, <1>5
<1>7. /\ producer' \in Producer /\ producer'.pc = "write" /\ producer'.written = w + 1
      /\ producer'.tail = producer.tail /\ producer'.cached_head = producer.cached_head
      /\ producer'.batch = producer.batch
  BY <1>1, <1>2, <1>6 DEF Producer
<1>8. slots' \in [0 .. Capacity - 1 -> Values \cup {NoValue}]
  BY <1>1, <1>2, <1>3, <1>4
<1>9. TypeOK' /\ StoresInv' /\ ChainInv'
  BY <1>1, <1>7, <1>8 DEF Inv, TypeOK, StoresInv, ChainInv
<1>10. ProducerInv'
  <2>1. w + 1 <= Len(producer.batch) /\ Len(producer.batch) >= 1
    BY <1>1, <1>2
  <2>2. ASSUME NEW i \in 1 .. w + 1
        PROVE  slots'[slot_of(after(producer.tail, i - 1))] = producer.batch[i]
    <3>1. CASE i = w + 1
      <4>1. after(producer.tail, i - 1) = WriteIndex
        BY <1>2, <3>1 DEF WriteIndex
      <4> QED BY <1>1, <1>2, <1>4, <3>1, <4>1
    <3>2. CASE i \in 1 .. w
      <4>1. slot_of(after(producer.tail, i - 1)) # slot_of(WriteIndex)
        BY <1>1, <3>2, WriteApart
      <4>2. i - 1 \in Nat /\ i - 1 < Len(producer.batch)
        BY <1>1, <1>2, <3>2
      <4>3. slot_of(after(producer.tail, i - 1)) \in 0 .. Capacity - 1
        <5>1. after(producer.tail, i - 1) \in Index
          BY <4>2, BatchSlot
        <5>2. 0 \in 0 .. Capacity - 1
          BY CapacityAssumption
        <5> QED BY <5>1, <5>2, SlotForm
      <4>4. slots[slot_of(after(producer.tail, i - 1))] = producer.batch[i]
        BY <3>2 DEF Inv, ProducerInv
      <4> QED BY <1>1, <1>2, <4>1, <4>3, <4>4
    <3> QED BY <1>2, <3>1, <3>2
  <2> QED BY <1>7, <2>1, <2>2 DEF ProducerInv
<1>11. ConsumerInv'
  <2>1. ASSUME consumer.pc = "advance"
        PROVE  slots'[slot_of(consumer.head)] = slots[slot_of(consumer.head)]
    <3>1. /\ distance(consumer.head, producer.tail) >= 1
          /\ consumer.head = after(consumer.head, 0)
      BY <2>1, ReadsPublished
    <3>2. 0 \in 0 .. distance(consumer.head, producer.tail) - 1
      BY <3>1, Geometry DEF Spaced
    <3>3. slot_of(consumer.head) # slot_of(WriteIndex)
      BY <1>1, <3>1, <3>2, WriteApart
    <3>4. slot_of(consumer.head) \in 0 .. Capacity - 1
      <4>1. 0 \in 0 .. Capacity - 1 /\ consumer.head \in Index
        BY CapacityAssumption, Geometry DEF Placed
      <4> QED BY <4>1, SlotForm
    <3> QED BY <1>1, <1>2, <3>3, <3>4
  <2> QED BY <1>1, <2>1 DEF Inv, ConsumerInv
<1> QED BY <1>9, <1>10, <1>11 DEF Inv

\* Publishing the tail keeps the invariant.
LEMMA PublishTailInv ==
  ASSUME Inv, publish_tail
  PROVE  Inv'
<1> DEFINE n == Len(producer.batch)
           next == after(producer.tail, n)
<1>1. /\ producer.pc = "write" /\ producer \in Producer
      /\ producer' = [producer EXCEPT !.pc = "idle", !.tail = next, !.batch = <<>>, !.written = 0]
      /\ tail_stores' = Append(tail_stores, producer'.tail)
      /\ UNCHANGED <<slots, consumer, head_stores, returned>>
  BY DEF publish_tail, Inv, TypeOK
<1>2. Placed /\ Spaced /\ Split /\ Fits
  BY Geometry
<1>3. n \in Nat \ {0}
  BY <1>1, <1>2 DEF Spaced, Inv, ProducerInv
<1>4. /\ Rising(tail_stores) /\ tail_stores[1] = consumer.cached_tail
      /\ latest(tail_stores) = producer.tail
  BY DEF Inv, StoresInv
<1>14. distance(consumer.head, producer.tail) + n <= Capacity
  BY <1>2 DEF Spaced, Fits
<1>5. distance(consumer.cached_tail, producer.tail) + n < IndexRange
  BY <1>2, <1>14 DEF Spaced, Split
<1>6. /\ next \in Index /\ Rising(Append(tail_stores, next))
      /\ Append(tail_stores, next)[1] = consumer.cached_tail
      /\ latest(Append(tail_stores, next)) = next
      /\ distance(consumer.cached_tail, next) = distance(consumer.cached_tail, producer.tail) + n
  BY <1>3, <1>4, <1>5, Store
<1>7. <<>> \in UNION {[1 .. m -> Values] : m \in 0 .. Capacity} /\ 0 \in 0 .. Capacity
  BY CapacityAssumption, BatchesAreSequences
<1> HIDE DEF next
<1>8. /\ producer' \in Producer /\ producer'.pc = "idle" /\ producer'.tail = next
      /\ producer'.cached_head = producer.cached_head
      /\ producer'.batch = <<>> /\ producer'.written = 0
  BY <1>1, <1>6, <1>7 DEF Producer
<1>9. StoresInv'
  BY <1>1, <1>6, <1>8 DEF Inv, StoresInv
<1>10. ChainInv'
  <2>1. Len(producer'.batch) = 0
    BY <1>8
  <2>2. distance(producer.cached_head, consumer.head)
          + distance(consumer.head, consumer.cached_tail)
          + (distance(consumer.cached_tail, producer.tail) + n) + 0 <= Capacity
    BY <1>2 DEF Spaced, Split, Fits
  <2> QED BY <1>1, <1>6, <1>8, <2>1, <2>2 DEF ChainInv
<1>11. tail_stores' \in Seq(Index) /\ Len(tail_stores') \in 1 .. Capacity + 1
  <2>1. /\ tail_stores' = Append(tail_stores, next)
        /\ tail_stores' \in Seq(Index) /\ Len(tail_stores') \in Nat /\ Len(tail_stores') >= 1
    BY <1>1, <1>6, <1>8 DEF Rising
  <2>2. Len(tail_stores') - 1 <= distance(consumer.cached_tail, producer.tail) + n
    BY <1>6, <2>1, FewStores
  <2>3. distance(consumer.cached_tail, producer.tail) + n <= Capacity
    BY <1>2 DEF Spaced, Split, Fits
  <2> QED BY <1>2, <1>3, <2>1, <2>2, <2>3 DEF Spaced
<1>12. TypeOK'
  BY <1>1, <1>8, <1>11 DEF Inv, TypeOK
<1>13. ProducerInv' /\ ConsumerInv'
  BY <1>1, <1>8 DEF Inv, ProducerInv, ConsumerInv
<1> QED BY <1>9, <1>10, <1>12, <1>13 DEF Inv

\* The checks of try_peek() and try_pop() keep the invariant.
LEMMA PeekInv ==
  ASSUME Inv, NEW call \in {"peek", "pop"}, try_peek(call)
  PROVE  Inv'
<1>1. consumer \in Consumer /\ UNCHANGED <<slots, producer, head_stores, returned>>
  BY DEF Inv, TypeOK, try_peek
<1>2. CASE consumer.head # consumer.cached_tail
  <2>1. consumer' = [consumer EXCEPT !.pc = "read", !.call = call] /\ UNCHANGED tail_stores
    BY <1>2 DEF try_peek
  <2>2. /\ consumer' \in Consumer /\ consumer'.pc = "read"
        /\ consumer'.head = consumer.head /\ consumer'.cached_tail = consumer.cached_tail
    BY <1>1, <2>1 DEF Consumer
  <2> QED BY <1>1, <1>2, <2>1, <2>2
          DEF Inv, TypeOK, StoresInv, ChainInv, ProducerInv, ConsumerInv
<1>3. CASE consumer.head = consumer.cached_tail
  <2>1. PICK i \in DOMAIN tail_stores :
          /\ tail_stores' = seen_from(tail_stores, i)
          /\ consumer' = [consumer EXCEPT
                           !.cached_tail = tail_stores[i],
                           !.pc = IF tail_stores[i] = consumer.head THEN "idle" ELSE "read",
                           !.call = call]
    BY <1>3 DEF try_peek
  <2>2. Rising(tail_stores)
    BY DEF Inv, StoresInv
  <2>3. /\ Rising(tail_stores') /\ tail_stores'[1] = tail_stores[i]
        /\ latest(tail_stores') = producer.tail /\ Len(tail_stores') <= Len(tail_stores)
        /\ tail_stores[i] \in Index
    BY <2>1, <2>2, Load DEF Inv, StoresInv
  <2>4. distance(consumer.cached_tail, producer.tail)
          = distance(consumer.cached_tail, tail_stores[i]) + distance(tail_stores[i], producer.tail)
    BY <2>2, Load DEF Inv, StoresInv
  <2>5. /\ consumer' \in Consumer /\ consumer'.head = consumer.head
        /\ consumer'.cached_tail = tail_stores[i]
        /\ consumer'.pc \in {"idle", "read"}
        /\ consumer'.pc = "read" => tail_stores[i] # consumer.head
    BY <1>1, <2>1, <2>3 DEF Consumer
  <2>6. tail_stores' \in Seq(Index) /\ Len(tail_stores') \in 1 .. Capacity + 1
    BY <2>3, CapacityAssumption DEF Rising, Inv, TypeOK
  <2>7. TypeOK' /\ StoresInv'
    BY <1>1, <2>3, <2>5, <2>6 DEF Inv, TypeOK, StoresInv
  <2>8. ChainInv'
    <3>1. Placed /\ Spaced /\ Split /\ Fits
      BY Geometry
    <3>2. /\ distance(consumer.head, tail_stores[i]) \in Nat
          /\ distance(tail_stores[i], producer.tail) \in Nat
      BY <2>3, <3>1, DistanceIsNumber DEF Placed
    <3>3. distance(consumer.head, producer.tail)
            = distance(consumer.head, tail_stores[i]) + distance(tail_stores[i], producer.tail)
      BY <1>3, <2>4
    <3>4. distance(producer.cached_head, consumer.head)
            + distance(consumer.head, tail_stores[i])
            + distance(tail_stores[i], producer.tail)
            + Len(producer.batch) <= Capacity
      BY <3>1, <3>2, <3>3 DEF Spaced, Fits
    <3> QED BY <1>1, <2>5, <3>4 DEF ChainInv
  <2>9. ProducerInv' /\ ConsumerInv'
    BY <1>1, <2>5 DEF Inv, ProducerInv, ConsumerInv
  <2> QED BY <2>7, <2>8, <2>9 DEF Inv
<1> QED BY <1>2, <1>3

\* Reading the slot at the head keeps the invariant.
LEMMA ReadInv ==
  ASSUME WrapsEvenly, Inv, read_slot
  PROVE  Inv'
<1> DEFINE value == slots[slot_of(consumer.head)]
<1>1. /\ consumer \in Consumer /\ consumer.pc = "read"
      /\ UNCHANGED <<slots, producer, tail_stores, head_stores>>
  BY DEF Inv, TypeOK, read_slot
<1>2. value \in Values \cup {NoValue}
  <2>1. 0 \in 0 .. Capacity - 1 /\ consumer.head \in Index
    BY CapacityAssumption, Geometry DEF Placed
  <2>2. slot_of(consumer.head) \in 0 .. Capacity - 1
    BY <2>1, SlotForm
  <2> QED BY <2>2 DEF Inv, TypeOK
<1>3. CASE consumer.call = "peek"
  <2>1. /\ consumer' \in Consumer /\ consumer'.pc = "idle"
        /\ consumer'.head = consumer.head /\ consumer'.cached_tail = consumer.cached_tail
    BY <1>1, <1>3 DEF read_slot, Consumer
  <2> QED BY <1>1, <2>1 DEF Inv, TypeOK, StoresInv, ChainInv, ProducerInv, ConsumerInv
<1>4. CASE consumer.call # "peek"
  <2>1. consumer' = [consumer EXCEPT !.pc = "advance", !.value = value]
    BY <1>4 DEF read_slot
  <2> HIDE DEF value
  <2>2. /\ consumer' \in Consumer /\ consumer'.pc = "advance" /\ consumer'.value = value
        /\ consumer'.head = consumer.head /\ consumer'.cached_tail = consumer.cached_tail
    BY <1>1, <1>2, <2>1 DEF Consumer
  <2>3. ConsumerInv'
    BY <1>1, <2>2 DEF Inv, ConsumerInv, value
  <2> QED BY <1>1, <2>2, <2>3 DEF Inv, TypeOK, StoresInv, ChainInv, ProducerInv
<1> QED BY <1>3, <1>4

\* Publishing the head keeps the invariant and takes one element away.
LEMMA PublishHeadInv ==
  ASSUME Inv, publish_head
  PROVE  /\ Inv'
         /\ consumer'.head = after(consumer.head, 1)
         /\ distance(consumer'.head, producer.tail) = distance(consumer.head, producer.tail) - 1
<1> DEFINE next == after(consumer.head, 1)
<1>1. /\ consumer.pc = "advance" /\ consumer \in Consumer
      /\ consumer' = [consumer EXCEPT !.pc = "idle", !.head = next, !.value = NoValue]
      /\ head_stores' = Append(head_stores, consumer'.head)
      /\ UNCHANGED <<slots, producer, tail_stores>>
  BY DEF publish_head, Inv, TypeOK
<1>2. Placed /\ Spaced /\ Split /\ Fits
  BY Geometry
<1>3. /\ distance(consumer.head, producer.tail) >= 1
      /\ distance(consumer.head, consumer.cached_tail) >= 1
  BY <1>1, ReadsPublished
<1>4. /\ Rising(head_stores) /\ head_stores[1] = producer.cached_head
      /\ latest(head_stores) = consumer.head
  BY DEF Inv, StoresInv
<1>5. distance(producer.cached_head, consumer.head) + 1 < IndexRange
  BY <1>2, <1>3 DEF Spaced, Fits
<1>6. /\ next \in Index /\ Rising(Append(head_stores, next))
      /\ Append(head_stores, next)[1] = producer.cached_head
      /\ latest(Append(head_stores, next)) = next
      /\ distance(producer.cached_head, next) = distance(producer.cached_head, consumer.head) + 1
  <2>1. 1 \in Nat \ {0}
    OBVIOUS
  <2> QED BY <1>4, <1>5, <2>1, Store
<1>7. distance(consumer.head, next) = 1
  <2>1. 1 \in 0 .. IndexRange - 1
    BY <1>2 DEF Spaced
  <2> QED BY <1>2, <2>1, ThereAndBack DEF Placed
<1> HIDE DEF next
<1>8. /\ distance(consumer.head, consumer.cached_tail) = 1 + distance(next, consumer.cached_tail)
      /\ distance(consumer.head, producer.tail) = 1 + distance(next, producer.tail)
  <2>1. distance(consumer.head, next) <= distance(consumer.head, consumer.cached_tail)
    BY <1>3, <1>7
  <2>2. distance(consumer.head, next) <= distance(consumer.head, producer.tail)
    BY <1>3, <1>7
  <2>3. distance(consumer.head, consumer.cached_tail)
          = distance(consumer.head, next) + distance(next, consumer.cached_tail)
    BY <1>2, <1>6, <2>1, Between DEF Placed
  <2>4. distance(consumer.head, producer.tail)
          = distance(consumer.head, next) + distance(next, producer.tail)
    BY <1>2, <1>6, <2>2, Between DEF Placed
  <2> QED BY <1>7, <2>3, <2>4
<1>9. distance(next, consumer.cached_tail) \in Nat /\ distance(next, producer.tail) \in Nat
  BY <1>2, <1>6, DistanceIsNumber DEF Placed
<1>10. /\ consumer' \in Consumer /\ consumer'.pc = "idle" /\ consumer'.head = next
       /\ consumer'.cached_tail = consumer.cached_tail
  BY <1>1, <1>6 DEF Consumer
<1>11. ChainInv'
  <2>1. (distance(producer.cached_head, consumer.head) + 1)
          + distance(next, consumer.cached_tail)
          + distance(consumer.cached_tail, producer.tail)
          + Len(producer.batch) <= Capacity
    BY <1>2, <1>8, <1>9 DEF Spaced, Split, Fits
  <2> QED BY <1>1, <1>6, <1>10, <2>1 DEF ChainInv
<1>12. head_stores' \in Seq(Index) /\ Len(head_stores') \in 1 .. Capacity + 1
  <2>1. /\ head_stores' = Append(head_stores, next)
        /\ head_stores' \in Seq(Index) /\ Len(head_stores') \in Nat /\ Len(head_stores') >= 1
    BY <1>1, <1>6, <1>10 DEF Rising
  <2>2. Len(head_stores') - 1 <= distance(producer.cached_head, consumer.head) + 1
    BY <1>6, <2>1, FewStores
  <2>3. distance(producer.cached_head, consumer.head) + 1 <= Capacity
    BY <1>2, <1>3 DEF Spaced, Fits
  <2> QED BY <1>2, <2>1, <2>2, <2>3 DEF Spaced
<1>13. TypeOK' /\ StoresInv'
  BY <1>1, <1>6, <1>10, <1>12 DEF Inv, TypeOK, StoresInv
<1>14. ProducerInv' /\ ConsumerInv'
  BY <1>1, <1>10 DEF Inv, ProducerInv, ConsumerInv
<1>15. distance(next, producer.tail) = distance(consumer.head, producer.tail) - 1
  BY <1>2, <1>8, <1>9 DEF Spaced
<1> QED BY <1>10, <1>11, <1>13, <1>14, <1>15 DEF Inv, next

\* Every step of the two threads keeps the invariant.
LEMMA NextInv ==
  ASSUME WrapsEvenly, Inv, [Next]_vars
  PROVE  Inv'
<1>1. CASE UNCHANGED vars
  BY <1>1 DEF vars, Inv, TypeOK, StoresInv, ChainInv, ProducerInv, ConsumerInv
<1>2. CASE Next
  BY <1>2, ClaimInv, AvailableInv, PushInv, WriteInv, PublishTailInv, PeekInv, ReadInv,
     PublishHeadInv DEF Next
<1> QED BY <1>1, <1>2

\* The invariant holds of every behaviour of the ring.
THEOREM InvHolds ==
  ASSUME WrapsEvenly
  PROVE  Spec => []Inv
<1>1. Init => Inv
  BY InitInv
<1>2. Inv /\ [Next]_vars => Inv'
  BY NextInv
<1> QED BY <1>1, <1>2, PTL DEF Spec

\* The producer never writes the slot that the consumer is reading.
THEOREM SlotsNeverRace ==
  ASSUME WrapsEvenly
  PROVE  Spec => []NoSlotRace
<1>1. Inv => NoSlotRace
  <2> SUFFICES ASSUME Inv, producer.written < Len(producer.batch), consumer.pc = "read"
               PROVE  slot_of(WriteIndex) # slot_of(consumer.head)
    BY DEF NoSlotRace
  <2>1. /\ distance(consumer.head, producer.tail) >= 1
        /\ consumer.head = after(consumer.head, 0)
    BY ReadsPublished
  <2>2. 0 \in 0 .. distance(consumer.head, producer.tail) - 1
    BY <2>1, Geometry DEF Spaced
  <2> QED BY <2>1, <2>2, WriteApart
<1> QED BY <1>1, InvHolds, PTL

-----------------------------------------------------------------------------
(* The ring implements a bounded queue.                                    *)

Stored == Values \cup {NoValue}

\* The published part runs from the consumer's head to the producer's tail.
LEMMA ContentsForm ==
  ASSUME WrapsEvenly, Inv
  PROVE  /\ Contents = [i \in 1 .. distance(consumer.head, producer.tail) |->
                          slots[slot_of(after(consumer.head, i - 1))]]
         /\ Contents \in Seq(Stored)
         /\ Len(Contents) = distance(consumer.head, producer.tail)
<1> DEFINE used == distance(consumer.head, producer.tail)
<1>1. consumer.head \in Index /\ used \in Nat /\ used <= Capacity /\ Capacity \in Nat
  BY Geometry DEF Placed, Spaced, Fits
<1>2. latest(head_stores) = consumer.head /\ latest(tail_stores) = producer.tail
  BY DEF Inv, StoresInv
<1>3. Contents = [i \in 1 .. used |-> slots[slot_of(after(consumer.head, i - 1))]]
  BY <1>2 DEF Contents
<1> HIDE DEF used
<1>4. ASSUME NEW i \in 1 .. used
      PROVE  slots[slot_of(after(consumer.head, i - 1))] \in Stored
  <2>1. i - 1 \in 0 .. Capacity - 1 /\ i - 1 \in 0 .. IndexRange - 1 /\ 0 \in 0 .. Capacity - 1
    BY <1>1, IndexAssumption
  <2>2. after(consumer.head, i - 1) \in Index
    BY <1>1, <2>1, AfterForm
  <2>3. slot_of(after(consumer.head, i - 1)) \in 0 .. Capacity - 1
    BY <2>1, <2>2, SlotForm
  <2> QED BY <2>3 DEF Inv, TypeOK, Stored
<1>5. Contents \in [1 .. used -> Stored]
  BY <1>3, <1>4
<1> QED BY <1>1, <1>3, <1>5 DEF used

\* What the queue holds changes only when a tail or a head is published.
LEMMA ContentsKept ==
  ASSUME WrapsEvenly, Inv, Inv', UNCHANGED <<slots, head_stores, tail_stores>>
  PROVE  Contents' = Contents
BY DEF Contents, latest

\* A load keeps the newest store.
LEMMA ContentsSeen ==
  ASSUME WrapsEvenly, Inv, Inv', slots' = slots,
         consumer'.head = consumer.head, producer'.tail = producer.tail
  PROVE  Contents' = Contents
<1>1. /\ latest(head_stores) = consumer.head /\ latest(tail_stores) = producer.tail
      /\ latest(head_stores') = consumer'.head /\ latest(tail_stores') = producer'.tail
  BY DEF Inv, StoresInv
<1> QED BY <1>1 DEF Contents

\* A slot of the batch is not visible until the tail is published.
LEMMA ContentsWritten ==
  ASSUME WrapsEvenly, Inv, write_slot
  PROVE  Contents' = Contents
<1> DEFINE used == distance(consumer.head, producer.tail)
<1>1. /\ UNCHANGED <<consumer, tail_stores, head_stores>>
      /\ \E v : slots' = [slots EXCEPT ![slot_of(WriteIndex)] = v]
      /\ producer.written < Len(producer.batch)
  BY DEF write_slot
<1>2. used \in Nat /\ latest(head_stores) = consumer.head /\ latest(tail_stores) = producer.tail
  BY Geometry DEF Spaced, Inv, StoresInv
<1>3. ASSUME NEW i \in 1 .. used
      PROVE  slots'[slot_of(after(consumer.head, i - 1))] = slots[slot_of(after(consumer.head, i - 1))]
  <2>1. i - 1 \in 0 .. used - 1
    BY <1>2
  <2>2. slot_of(after(consumer.head, i - 1)) # slot_of(WriteIndex)
    BY <1>1, <2>1, WriteApart
  <2>3. slots \in [0 .. Capacity - 1 -> Stored]
    BY DEF Inv, TypeOK, Stored
  <2>4. slot_of(after(consumer.head, i - 1)) \in 0 .. Capacity - 1
    <3>1. /\ i - 1 \in 0 .. Capacity - 1 /\ i - 1 \in 0 .. IndexRange - 1
          /\ 0 \in 0 .. Capacity - 1 /\ consumer.head \in Index
      <4>1. consumer.head \in Index /\ used \in Nat /\ used <= Capacity
            /\ Capacity \in Nat /\ IndexRange \in Nat /\ Capacity < IndexRange
        BY Geometry DEF Placed, Spaced, Fits
      <4> HIDE DEF used
      <4> QED BY <2>1, <4>1
    <3>2. after(consumer.head, i - 1) \in Index
      BY <3>1, AfterForm
    <3> QED BY <3>1, <3>2, SlotForm
  <2> QED BY <1>1, <2>2, <2>3, <2>4
<1> HIDE DEF used
<1>4. [i \in 1 .. used |-> slots'[slot_of(after(consumer.head, i - 1))]]
        = [i \in 1 .. used |-> slots[slot_of(after(consumer.head, i - 1))]]
  BY <1>3
<1>5. /\ Contents = [i \in 1 .. used |-> slots[slot_of(after(consumer.head, i - 1))]]
      /\ Contents' = [i \in 1 .. used |-> slots'[slot_of(after(consumer.head, i - 1))]]
  BY <1>1, <1>2 DEF Contents, used
<1> QED BY <1>4, <1>5

\* Sequences of the same length with the same elements are equal.
LEMMA SameElements ==
  ASSUME NEW S, NEW s \in Seq(S), NEW t \in Seq(S),
         Len(s) = Len(t), \A i \in 1 .. Len(s) : s[i] = t[i]
  PROVE  s = t
OBVIOUS

\* Publishing the tail appends the whole batch, which fits.
LEMMA ContentsPushed ==
  ASSUME WrapsEvenly, Inv, publish_tail
  PROVE  /\ Contents' = Contents \o producer.batch
         /\ Len(Contents) + Len(producer.batch) <= Capacity
         /\ producer.batch \in Fifo!Batches
<1> DEFINE used == distance(consumer.head, producer.tail)
           batch == producer.batch
           old == [i \in 1 .. used |-> slots[slot_of(after(consumer.head, i - 1))]]
           new == [i \in 1 .. used + Len(batch) |-> slots[slot_of(after(consumer.head, i - 1))]]
<1>1. /\ producer.pc = "write" /\ producer \in Producer /\ producer.written = Len(batch)
      /\ producer' = [producer EXCEPT !.pc = "idle", !.tail = after(producer.tail, Len(batch)),
                                      !.batch = <<>>, !.written = 0]
      /\ UNCHANGED <<slots, consumer>>
  BY DEF publish_tail, Inv, TypeOK
<1>2. Placed /\ Spaced /\ Fits /\ batch \in Seq(Values)
  BY Geometry
<1>3. /\ used \in Nat /\ Len(batch) \in Nat /\ Len(batch) >= 1 /\ used + Len(batch) <= Capacity
      /\ consumer.head \in Index /\ producer.tail \in Index
      /\ Capacity \in Nat /\ IndexRange \in Nat /\ Capacity < IndexRange
  BY <1>1, <1>2 DEF Placed, Spaced, Fits, Inv, ProducerInv
<1>4. producer'.tail = after(producer.tail, Len(batch)) /\ consumer'.head = consumer.head
  BY <1>1 DEF Producer
<1>5. distance(consumer.head, after(producer.tail, Len(batch))) = used + Len(batch)
  <2>1. Len(batch) \in 0 .. IndexRange - 1 /\ used + Len(batch) < IndexRange
    BY <1>3
  <2>2. /\ after(producer.tail, Len(batch)) \in Index
        /\ distance(producer.tail, after(producer.tail, Len(batch))) = Len(batch)
    BY <1>3, <2>1, AfterForm, ThereAndBack
  <2> QED BY <1>3, <2>1, <2>2, Between
<1>6. Contents = old /\ Contents \in Seq(Stored) /\ Len(Contents) = used
  BY ContentsForm
<1>7. Contents' = new
  <2>1. Inv'
    BY PublishTailInv
  <2>2. Contents' = [i \in 1 .. distance(consumer'.head, producer'.tail) |->
                       slots'[slot_of(after(consumer'.head, i - 1))]]
    BY <2>1 DEF Inv, StoresInv, Contents
  <2>3. distance(consumer'.head, producer'.tail) = used + Len(batch)
    BY <1>4, <1>5
  <2> HIDE DEF used
  <2> QED BY <1>1, <1>4, <2>2, <2>3
<1>8. ASSUME NEW i \in 1 .. Len(batch)
      PROVE  slots[slot_of(after(consumer.head, used + (i - 1)))] = batch[i]
  <2>1. i - 1 \in Nat /\ i - 1 < Len(batch)
    BY <1>3
  <2>2. after(producer.tail, i - 1) = after(consumer.head, used + (i - 1))
    BY <2>1, BatchSlot
  <2> QED BY <1>1, <2>2 DEF Inv, ProducerInv
<1>9. batch \in Seq(Stored)
  BY <1>2 DEF Stored
<1> HIDE DEF used, batch
<1>10. /\ Contents \o batch \in Seq(Stored) /\ Len(Contents \o batch) = used + Len(batch)
       /\ \A i \in 1 .. used + Len(batch) :
            (Contents \o batch)[i] = IF i <= used THEN Contents[i] ELSE batch[i - used]
  BY <1>3, <1>6, <1>9
<1>11. ASSUME NEW i \in 1 .. used + Len(batch)
       PROVE  new[i] = (Contents \o batch)[i]
  <2>1. CASE i <= used
    <3>1. i \in 1 .. used
      BY <1>3, <2>1
    <3>2. old[i] = slots[slot_of(after(consumer.head, i - 1))]
      BY <3>1
    <3>3. (Contents \o batch)[i] = Contents[i]
      BY <1>10, <2>1
    <3> QED BY <1>6, <3>2, <3>3
  <2>2. CASE ~(i <= used)
    <3>1. i - used \in 1 .. Len(batch) /\ used + ((i - used) - 1) = i - 1
      BY <1>3, <2>2
    <3>2. slots[slot_of(after(consumer.head, i - 1))] = batch[i - used]
      BY <1>8, <3>1
    <3>3. (Contents \o batch)[i] = batch[i - used]
      BY <1>10, <2>2
    <3> QED BY <3>2, <3>3
  <2> QED BY <2>1, <2>2
<1>12. Contents' = Contents \o batch
  <2>1. \A i \in 1 .. used + Len(batch) : (Contents \o batch)[i] \in Stored
    BY <1>10
  <2>2. new \in [1 .. used + Len(batch) -> Stored]
    BY <1>11, <2>1
  <2> HIDE DEF new
  <2>3. new \in Seq(Stored) /\ Len(new) = used + Len(batch)
    BY <1>3, <2>2
  <2> QED BY <1>7, <1>10, <1>11, <2>3, SameElements
<1>13. batch \in Fifo!Batches
  <2>1. batch \in [1 .. Len(batch) -> Values] /\ Len(batch) \in 1 .. Capacity
    BY <1>2, <1>3
  <2> QED BY <2>1 DEF Fifo!Batches
<1> QED BY <1>3, <1>6, <1>12, <1>13 DEF batch

\* Publishing the head drops the oldest value.
LEMMA ContentsPopped ==
  ASSUME WrapsEvenly, Inv, publish_head
  PROVE  Contents' = Tail(Contents)
<1> DEFINE used == distance(consumer.head, producer.tail)
           next == after(consumer.head, 1)
<1>1. /\ Inv' /\ consumer'.head = next /\ distance(next, producer.tail) = used - 1
      /\ UNCHANGED <<slots, producer>> /\ consumer.pc = "advance"
  BY PublishHeadInv DEF publish_head
<1>2. /\ used \in Nat /\ used >= 1 /\ used <= Capacity /\ Capacity < IndexRange
      /\ consumer.head \in Index /\ Capacity \in Nat /\ IndexRange \in Nat
  BY <1>1, Geometry, ReadsPublished DEF Placed, Spaced, Fits
<1>3. /\ Contents = [i \in 1 .. used |-> slots[slot_of(after(consumer.head, i - 1))]]
      /\ Contents \in Seq(Stored) /\ Len(Contents) = used
  BY ContentsForm
<1>4. Contents' = [i \in 1 .. used - 1 |-> slots[slot_of(after(next, i - 1))]]
  <2>1. Contents' = [i \in 1 .. distance(consumer'.head, producer'.tail) |->
                       slots'[slot_of(after(consumer'.head, i - 1))]]
    BY <1>1 DEF Inv, StoresInv, Contents
  <2>2. distance(consumer'.head, producer'.tail) = used - 1
    BY <1>1
  <2> HIDE DEF used, next
  <2> QED BY <1>1, <2>1, <2>2
<1> HIDE DEF used
<1>5. /\ Tail(Contents) \in Seq(Stored) /\ Len(Tail(Contents)) = used - 1
      /\ \A i \in 1 .. used - 1 : Tail(Contents)[i] = Contents[i + 1]
  <2>1. Contents \in Seq(Stored) /\ Len(Contents) = used /\ Contents # <<>>
    BY <1>2, <1>3
  <2> QED BY <1>2, <2>1
<1>6. ASSUME NEW i \in 1 .. used - 1
      PROVE  Contents'[i] = Tail(Contents)[i]
  <2>1. i + 1 \in 1 .. used /\ i - 1 \in Nat /\ 1 + (i - 1) = i /\ (i + 1) - 1 = i
    BY <1>2
  <2>5. 1 + (i - 1) < IndexRange /\ 1 \in Nat
    BY <1>2
  <2>2. after(next, i - 1) = after(consumer.head, i)
    BY <1>2, <2>1, <2>5, TwoSteps
  <2>3. Contents'[i] = slots[slot_of(after(consumer.head, i))]
    BY <1>4, <2>2
  <2>4. Contents[i + 1] = slots[slot_of(after(consumer.head, i))]
    BY <1>3, <2>1
  <2> QED BY <1>5, <2>3, <2>4
<1>7. \A i \in 1 .. used - 1 : Tail(Contents)[i] \in Stored
  BY <1>5
<1>8. Contents' \in [1 .. used - 1 -> Stored]
  BY <1>4, <1>6, <1>7
<1>9. Contents' \in Seq(Stored) /\ Len(Contents') = used - 1
  BY <1>2, <1>8
<1> QED BY <1>5, <1>6, <1>9, SameElements

\* The consumer's slot holds the oldest value.
LEMMA OldestValue ==
  ASSUME WrapsEvenly, Inv, consumer.pc \in {"read", "advance"}
  PROVE  Contents # <<>> /\ Head(Contents) = slots[slot_of(consumer.head)]
<1> DEFINE used == distance(consumer.head, producer.tail)
<1>1. /\ used \in Nat /\ used >= 1 /\ consumer.head = after(consumer.head, 0)
  BY Geometry, ReadsPublished DEF Spaced
<1>2. /\ Contents = [i \in 1 .. used |-> slots[slot_of(after(consumer.head, i - 1))]]
      /\ Contents \in Seq(Stored) /\ Len(Contents) = used
  BY ContentsForm
<1> HIDE DEF used
<1>3. Contents # <<>> /\ Head(Contents) = Contents[1]
  BY <1>1, <1>2
<1>4. Contents[1] = slots[slot_of(after(consumer.head, 1 - 1))]
  BY <1>1, <1>2
<1>5. 1 - 1 = 0
  OBVIOUS
<1> QED BY <1>1, <1>3, <1>4, <1>5

\* The steps of the ring are steps of the queue, or change nothing that is visible.
LEMMA NextImplements ==
  ASSUME WrapsEvenly, Inv, [Next]_vars
  PROVE  [Fifo!Next]_<<Contents, returned>>
<1>1. Inv'
  BY NextInv
<1>2. CASE UNCHANGED vars
  <2>1. Contents' = Contents /\ returned' = returned
    BY <1>1, <1>2, ContentsKept DEF vars
  <2> QED BY <2>1
<1>3. CASE claim_producer \/ claim_consumer
  <2>1. Contents' = Contents /\ returned' = returned
    BY <1>1, <1>3, ContentsKept DEF claim_producer, claim_consumer
  <2> QED BY <2>1
<1>4. CASE producer_available
  <2>1. slots' = slots /\ consumer' = consumer /\ returned' = returned
        /\ tail_stores' = tail_stores
    BY <1>4 DEF producer_available
  <2>2. producer'.tail = producer.tail
    BY <1>1, <2>1 DEF Inv, StoresInv
  <2>3. Contents' = Contents
    BY <1>1, <2>1, <2>2, ContentsSeen
  <2> QED BY <2>1, <2>3
<1>5. ASSUME NEW batch \in InputBatches, try_push_batch(batch)
      PROVE  UNCHANGED <<Contents, returned>>
  <2>1. /\ slots' = slots /\ consumer' = consumer /\ returned' = returned
        /\ tail_stores' = tail_stores
    BY <1>5 DEF try_push_batch, vars
  <2>2. producer'.tail = producer.tail
    BY <1>1, <2>1 DEF Inv, StoresInv
  <2>3. Contents' = Contents
    BY <1>1, <2>1, <2>2, ContentsSeen
  <2> QED BY <2>1, <2>3
<1>6. CASE write_slot
  <2>1. Contents' = Contents /\ returned' = returned
    BY <1>6, ContentsWritten DEF write_slot
  <2> QED BY <2>1
<1>7. CASE publish_tail
  <2>1. Fifo!Push(producer.batch) /\ producer.batch \in Fifo!Batches
    BY <1>7, ContentsPushed DEF publish_tail, Fifo!Push
  <2> QED BY <2>1 DEF Fifo!Next
<1>8. ASSUME NEW call \in {"peek", "pop"}, try_peek(call)
      PROVE  UNCHANGED <<Contents, returned>>
  <2>1. /\ slots' = slots /\ producer' = producer /\ returned' = returned
        /\ head_stores' = head_stores
    BY <1>8 DEF try_peek
  <2>2. consumer'.head = consumer.head
    BY <1>1, <2>1 DEF Inv, StoresInv
  <2>3. Contents' = Contents
    BY <1>1, <2>1, <2>2, ContentsSeen
  <2> QED BY <2>1, <2>3
<1>9. CASE read_slot
  <2>1. Contents' = Contents
    BY <1>1, <1>9, ContentsKept DEF read_slot
  <2>2. CASE consumer.call = "peek"
    <3>1. Contents # <<>> /\ returned' = <<"peek", Head(Contents)>>
      BY <1>9, <2>2, OldestValue DEF read_slot
    <3> QED BY <2>1, <3>1 DEF Fifo!Peek, Fifo!Next
  <2>3. CASE consumer.call # "peek"
    <3>1. returned' = returned
      BY <1>9, <2>3 DEF read_slot
    <3> QED BY <2>1, <3>1
  <2> QED BY <2>2, <2>3
<1>10. CASE publish_head
  <2>1. consumer.pc = "advance" /\ returned' = <<"pop", consumer.value>>
    BY <1>10 DEF publish_head
  <2>2. /\ Contents # <<>> /\ Contents' = Tail(Contents)
        /\ returned' = <<"pop", Head(Contents)>>
    <3>1. consumer.value = slots[slot_of(consumer.head)]
      BY <2>1 DEF Inv, ConsumerInv
    <3> QED BY <1>10, <2>1, <3>1, ContentsPopped, OldestValue
  <2> QED BY <2>2 DEF Fifo!Pop, Fifo!Next
<1> QED BY <1>2, <1>3, <1>4, <1>5, <1>6, <1>7, <1>8, <1>9, <1>10 DEF Next

\* The empty ring is the empty queue.
LEMMA InitImplements ==
  ASSUME Init
  PROVE  Fifo!Init
<1>1. distance(0, 0) = 0
  <2>1. 0 \in Index
    BY IndexAssumption, CapacityAssumption DEF Index
  <2> QED BY <2>1, DistanceForm
<1>2. latest(head_stores) = 0 /\ latest(tail_stores) = 0
  BY InitInv DEF Init, Inv, StoresInv
<1>3. Contents = [i \in 1 .. 0 |-> slots[slot_of(after(0, i - 1))]]
  BY <1>1, <1>2 DEF Contents
<1>4. Contents = <<>>
  BY <1>3
<1> QED BY <1>4 DEF Init, Fifo!Init

\* The ring is a bounded first-in first-out queue: batches become visible whole and in
\* order, and the consumer gets the oldest value.
THEOREM RingIsFifo ==
  ASSUME WrapsEvenly
  PROVE  Spec => ImplementsFifo
<1>1. Init => Fifo!Init
  BY InitImplements
<1>2. Inv /\ [Next]_vars => [Fifo!Next]_<<Contents, returned>>
  BY NextImplements
<1> QED BY <1>1, <1>2, InvHolds, PTL DEF Spec, ImplementsFifo, Fifo!Spec
=============================================================================
