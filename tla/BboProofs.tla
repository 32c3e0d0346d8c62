----------------------------- MODULE BboProofs -----------------------------
(***************************************************************************)
(* Proof that a read of the best-bid-and-offer snapshot is atomic, for any *)
(* number of readers, any prices and quantities, any number of retries and *)
(* any number of publications.                                             *)
(*                                                                         *)
(* The argument is that of a sequence lock.  The version counts the stores *)
(* at both ends of a publication, so that it is even exactly between       *)
(* publications, and it is the same at two points only if nothing was      *)
(* published in between.  A reader that still finds the version it started *)
(* from has therefore loaded fields of the state that is published now.    *)
(***************************************************************************)
EXTENDS BboPublisher, TLAPS

Newest == published[Len(published)]

\* The version tells how many publications have begun and ended.
VersionCounts ==
  version = 2 * (Len(published) - 1) + (IF writer.step = 0 THEN 0 ELSE 1)

\* Between publications the fields are those of the newest state; during one, the
\* fields stored so far are those of the state that is being published.
FieldsFollow ==
  LET new == encode(writer.state)
      old == encode(Newest)
  IN  /\ writer.step = 0 => \A f \in Fields : fields[f] = old[f]
      /\ writer.step > 1 => fields["bid_price"] = new["bid_price"]
      /\ writer.step > 2 => fields["bid_quantity"] = new["bid_quantity"]
      /\ writer.step > 3 => fields["ask_price"] = new["ask_price"]
      /\ writer.step > 4 => fields["ask_quantity"] = new["ask_quantity"]
      /\ writer.step > 5 => fields["bid_present"] = new["bid_present"]
      /\ writer.step > 6 => fields["ask_present"] = new["ask_present"]

\* What a reader has loaded, if the version is still the one it started from.
Current(reader, state) ==
  LET now == encode(state)
  IN  /\ reader.step > 2 => reader.seen["bid_present"] = now["bid_present"]
      /\ reader.step > 3 /\ now["bid_present"] # 0 =>
           reader.seen["bid_price"] = now["bid_price"]
      /\ reader.step > 4 => reader.seen["bid_quantity"] = now["bid_quantity"]
      /\ reader.step > 5 => reader.seen["ask_present"] = now["ask_present"]
      /\ reader.step > 6 /\ now["ask_present"] # 0 =>
           reader.seen["ask_price"] = now["ask_price"]
      /\ reader.step > 7 => reader.seen["ask_quantity"] = now["ask_quantity"]

ReaderOK(r) ==
  /\ readers[r].began <= Len(published)
  /\ readers[r].step \in 2 .. 8 =>
       /\ readers[r].attempt < MaxRetries
       /\ readers[r].before <= version
       /\ readers[r].before % 2 = 0
       /\ version = readers[r].before => Current(readers[r], Newest)
  /\ readers[r].step = 9 =>
       \E i \in readers[r].began .. Len(published) : readers[r].result = published[i]

\* The inductive invariant.
IInv ==
  /\ TypeOK
  /\ Len(published) >= 1
  /\ VersionCounts
  /\ FieldsFollow
  /\ \A r \in Readers : ReaderOK(r)

-----------------------------------------------------------------------------
(* States and their fields.                                                *)

\* The state of a snapshot nobody has published to is a state.
LEMMA EmptyIsState == EmptyState \in BboState
BY DEF EmptyState, BboState, BboSide

\* A side is absent or has a price and a quantity.
LEMMA SideParts ==
  ASSUME NEW side \in BboSide
  PROVE  /\ side = <<side[1], side[2]>>
         /\ side[2] \in Int
         /\ \/ side[1] = NoPrice /\ side[2] = 0
            \/ side[1] # NoPrice /\ side[1] \in Int
<1>1. CASE side = <<NoPrice, 0>>
  <2>1. side[1] = NoPrice /\ side[2] = 0
    BY <1>1
  <2> QED BY <1>1, <2>1
<1>2. CASE side \in Prices \X Quantities
  <2>1. PICK p \in Prices, q \in Quantities : side = <<p, q>>
    BY <1>2
  <2>2. p \in Int /\ q \in Int /\ p # NoPrice
    BY PricesAssumption
  <2>3. side[1] = p /\ side[2] = q
    BY <2>1
  <2> QED BY <2>1, <2>2, <2>3
<1> QED BY <1>1, <1>2 DEF BboSide

\* The fields of an encoded state are numbers, and the flags are bits.
LEMMA EncodeType ==
  ASSUME NEW s \in BboState
  PROVE  /\ encode(s) \in [Fields -> Int]
         /\ encode(s)["bid_present"] \in {0, 1}
         /\ encode(s)["ask_present"] \in {0, 1}
<1>1. s.bid \in BboSide /\ s.ask \in BboSide
  BY DEF BboState
<1>2. s.bid[2] \in Int /\ s.ask[2] \in Int
  BY <1>1, SideParts
<1>3. value_or_zero(s.bid[1]) \in Int /\ value_or_zero(s.ask[1]) \in Int
  BY <1>1, SideParts DEF value_or_zero
<1>4. presence(s.bid[1]) \in {0, 1} /\ presence(s.ask[1]) \in {0, 1}
  BY DEF presence
<1> QED BY <1>2, <1>3, <1>4 DEF encode, Fields

\* A reader that has loaded the fields of a state makes that state of them.
LEMMA DecodeEncode ==
  ASSUME NEW s \in BboState, NEW reader, reader.step = 8, Current(reader, s)
  PROVE  decode(reader.seen) = s
<1>1. s.bid \in BboSide /\ s.ask \in BboSide /\ s = [bid |-> s.bid, ask |-> s.ask]
  BY DEF BboState
<1>2. /\ encode(s)["bid_present"] = presence(s.bid[1])
      /\ encode(s)["bid_price"] = value_or_zero(s.bid[1])
      /\ encode(s)["bid_quantity"] = s.bid[2]
      /\ encode(s)["ask_present"] = presence(s.ask[1])
      /\ encode(s)["ask_price"] = value_or_zero(s.ask[1])
      /\ encode(s)["ask_quantity"] = s.ask[2]
  BY DEF encode
<1>3. decode(reader.seen).bid = s.bid
  <2>1. decode(reader.seen).bid =
          <<IF reader.seen["bid_present"] # 0 THEN reader.seen["bid_price"] ELSE NoPrice,
            reader.seen["bid_quantity"]>>
    BY DEF decode
  <2>2. CASE s.bid[1] = NoPrice
    BY <2>1, <2>2, <1>1, <1>2, SideParts DEF Current, presence
  <2>3. CASE s.bid[1] # NoPrice
    BY <2>1, <2>3, <1>1, <1>2, SideParts DEF Current, presence, value_or_zero
  <2> QED BY <2>2, <2>3
<1>4. decode(reader.seen).ask = s.ask
  <2>1. decode(reader.seen).ask =
          <<IF reader.seen["ask_present"] # 0 THEN reader.seen["ask_price"] ELSE NoPrice,
            reader.seen["ask_quantity"]>>
    BY DEF decode
  <2>2. CASE s.ask[1] = NoPrice
    BY <2>1, <2>2, <1>1, <1>2, SideParts DEF Current, presence
  <2>3. CASE s.ask[1] # NoPrice
    BY <2>1, <2>3, <1>1, <1>2, SideParts DEF Current, presence, value_or_zero
  <2> QED BY <2>2, <2>3
<1>5. decode(reader.seen) = [bid |-> decode(reader.seen).bid, ask |-> decode(reader.seen).ask]
  BY DEF decode
<1> QED BY <1>1, <1>3, <1>4, <1>5

-----------------------------------------------------------------------------
(* The invariant holds initially and is preserved by every step.           *)

\* The invariant holds before the first publication.
LEMMA InitIInv == Init => IInv
<1> SUFFICES ASSUME Init PROVE IInv OBVIOUS
<1>1. Len(published) = 1 /\ published[1] = EmptyState /\ published \in Seq(BboState)
  BY EmptyIsState DEF Init
<1>2. [f \in Fields |-> 0] \in [Fields -> FieldValues]
  BY DEF FieldValues
<1>3. NotReading \in Reader
  BY <1>2, EmptyIsState, RetriesAssumption DEF NotReading, Reader
<1>4. TypeOK
  BY <1>1, <1>2, <1>3, EmptyIsState DEF Init, TypeOK, Idle
<1>5. VersionCounts
  BY <1>1 DEF Init, VersionCounts, Idle
<1>6. \A f \in Fields : encode(EmptyState)[f] = 0
  BY DEF Fields, encode, EmptyState, value_or_zero, presence
<1>7. FieldsFollow
  BY <1>1, <1>6 DEF Init, FieldsFollow, Idle, Newest
<1>8. ASSUME NEW r \in Readers PROVE ReaderOK(r)
  BY <1>1 DEF Init, ReaderOK, NotReading
<1> QED BY <1>1, <1>4, <1>5, <1>7, <1>8 DEF IInv

\* The three steps of a publication.
LEMMA PublishIInv == ASSUME IInv, Publish PROVE IInv'
<1> USE DEF IInv
<1>0. /\ published \in Seq(BboState) /\ Len(published) \in Nat /\ Len(published) >= 1
      /\ version \in Nat /\ writer \in [step : 0 .. 7, state : BboState]
      /\ Newest \in BboState
  BY DEF TypeOK, Newest
<1>1. ASSUME NEW state \in BboState, begin_publish(state) PROVE IInv'
  <2>1. /\ writer.step = 0 /\ version' = version + 1 /\ writer' = [step |-> 1, state |-> state]
        /\ UNCHANGED <<fields, readers, published>>
    BY <1>1 DEF begin_publish
  <2>2. TypeOK'
    BY <2>1 DEF TypeOK
  <2>3. VersionCounts' /\ FieldsFollow'
    BY <1>0, <2>1 DEF VersionCounts, FieldsFollow
  <2>4. ASSUME NEW r \in Readers PROVE ReaderOK(r)'
    <3>1. readers[r] \in Reader /\ ReaderOK(r)
      BY DEF TypeOK
    <3> QED BY <1>0, <2>1, <3>1 DEF ReaderOK, Reader
  <2> QED BY <2>1, <2>2, <2>3, <2>4
<1>2. ASSUME store_field PROVE IInv'
  <2>1. /\ writer.step \in 1 .. 6
        /\ fields' = [fields EXCEPT ![Stores[writer.step]] =
                                     encode(writer.state)[Stores[writer.step]]]
        /\ writer' = [writer EXCEPT !.step = @ + 1]
        /\ UNCHANGED <<version, readers, published>>
    BY <1>2 DEF store_field
  <2>2. Stores[writer.step] \in Fields
    BY <2>1 DEF Stores, Fields
  <2>3. encode(writer.state) \in [Fields -> Int] /\ fields \in [Fields -> Int]
    BY <1>0, EncodeType DEF TypeOK, FieldValues
  <2>4. writer' = [step |-> writer.step + 1, state |-> writer.state]
    BY <1>0, <2>1
  <2>5. TypeOK'
    <3>1. fields' \in [Fields -> FieldValues]
      BY <2>1, <2>2, <2>3 DEF FieldValues
    <3>2. writer' \in [step : 0 .. 7, state : BboState]
      BY <1>0, <2>1, <2>4
    <3> QED BY <2>1, <3>1, <3>2 DEF TypeOK
  <2>6. VersionCounts'
    BY <1>0, <2>1, <2>4 DEF VersionCounts
  <2>7. FieldsFollow'
    <3>1. writer'.step = writer.step + 1 /\ writer'.state = writer.state
      BY <2>4
    <3>2. \A f \in Fields : fields'[f] = IF f = Stores[writer.step] THEN encode(writer.state)[f]
                                         ELSE fields[f]
      BY <2>1, <2>2, <2>3
    <3>3. CASE writer.step = 1
      <4>1. Stores[writer.step] = "bid_price" /\ writer'.step = 2
        BY <3>1, <3>3 DEF Stores
      <4> QED BY <3>1, <3>2, <3>3, <4>1 DEF FieldsFollow, Fields
    <3>4. CASE writer.step = 2
      <4>1. Stores[writer.step] = "bid_quantity" /\ writer'.step = 3
        BY <3>1, <3>4 DEF Stores
      <4> QED BY <3>1, <3>2, <3>4, <4>1 DEF FieldsFollow, Fields
    <3>5. CASE writer.step = 3
      <4>1. Stores[writer.step] = "ask_price" /\ writer'.step = 4
        BY <3>1, <3>5 DEF Stores
      <4> QED BY <3>1, <3>2, <3>5, <4>1 DEF FieldsFollow, Fields
    <3>6. CASE writer.step = 4
      <4>1. Stores[writer.step] = "ask_quantity" /\ writer'.step = 5
        BY <3>1, <3>6 DEF Stores
      <4> QED BY <3>1, <3>2, <3>6, <4>1 DEF FieldsFollow, Fields
    <3>7. CASE writer.step = 5
      <4>1. Stores[writer.step] = "bid_present" /\ writer'.step = 6
        BY <3>1, <3>7 DEF Stores
      <4> QED BY <3>1, <3>2, <3>7, <4>1 DEF FieldsFollow, Fields
    <3>8. CASE writer.step = 6
      <4>1. Stores[writer.step] = "ask_present" /\ writer'.step = 7
        BY <3>1, <3>8 DEF Stores
      <4> QED BY <3>1, <3>2, <3>8, <4>1 DEF FieldsFollow, Fields
    <3> QED BY <2>1, <3>3, <3>4, <3>5, <3>6, <3>7, <3>8
  <2>8. ASSUME NEW r \in Readers PROVE ReaderOK(r)'
    <3>1. ReaderOK(r) /\ readers'[r] = readers[r] /\ Newest' = Newest
      BY <2>1 DEF Newest
    <3> QED BY <2>1, <3>1 DEF ReaderOK
  <2> QED BY <2>1, <2>5, <2>6, <2>7, <2>8
<1>3. ASSUME end_publish PROVE IInv'
  <2>1. /\ writer.step = 7 /\ version' = version + 1
        /\ published' = Append(published, writer.state)
        /\ writer' = [step |-> 0, state |-> EmptyState]
        /\ UNCHANGED <<fields, readers>>
    BY <1>3 DEF end_publish, Idle
  <2>2. /\ Len(published') = Len(published) + 1 /\ Newest' = writer.state
        /\ published' \in Seq(BboState)
        /\ \A i \in 1 .. Len(published) : published'[i] = published[i]
    BY <1>0, <2>1 DEF Newest
  <2>3. TypeOK'
    BY <1>0, <2>1, <2>2, EmptyIsState DEF TypeOK
  <2>4. VersionCounts'
    <3>1. version = 2 * (Len(published) - 1) + 1
      BY <2>1 DEF VersionCounts
    <3>2. writer'.step = 0
      BY <2>1
    <3>3. version' = 2 * (Len(published') - 1)
      BY <1>0, <2>1, <2>2, <3>1
    <3> QED BY <3>2, <3>3 DEF VersionCounts
  <2>5. FieldsFollow'
    BY <1>0, <2>1, <2>2 DEF FieldsFollow, Fields
  <2>6. ASSUME NEW r \in Readers PROVE ReaderOK(r)'
    <3>1. readers[r] \in Reader /\ ReaderOK(r) /\ readers'[r] = readers[r]
      BY <2>1 DEF TypeOK
    <3>2. readers[r].began \in Nat \ {0} /\ readers[r].before \in Nat
      BY <3>1 DEF Reader
    <3>3. readers[r].step = 9 =>
            \E i \in readers[r].began .. Len(published') : readers[r].result = published'[i]
      BY <1>0, <2>2, <3>1, <3>2 DEF ReaderOK
    <3>4. readers[r].step \in 2 .. 8 =>
            /\ readers[r].attempt < MaxRetries
            /\ readers[r].before <= version
            /\ readers[r].before % 2 = 0
      BY <3>1 DEF ReaderOK
    <3>5. readers[r].began <= Len(published')
      BY <1>0, <2>2, <3>1, <3>2 DEF ReaderOK
    <3>6. readers[r].step \in 2 .. 8 => readers[r].before <= version' /\ version' # readers[r].before
      BY <1>0, <2>1, <3>2, <3>4
    <3> QED BY <3>1, <3>3, <3>4, <3>5, <3>6 DEF ReaderOK
  <2> QED BY <1>0, <2>2, <2>3, <2>4, <2>5, <2>6
<1> QED BY <1>1, <1>2, <1>3 DEF Publish

\* A step of a reader changes that reader only, so that the rest follows from the
\* new value of the one.
LEMMA ReaderStep ==
  ASSUME IInv, NEW r \in Readers, NEW reader \in Reader,
         readers' = [readers EXCEPT ![r] = reader],
         UNCHANGED <<version, fields, writer, published>>,
         ReaderOK(r)'
  PROVE  IInv'
<1>1. TypeOK'
  BY DEF IInv, TypeOK
<1>2. VersionCounts' /\ FieldsFollow' /\ Len(published') >= 1
  BY DEF IInv, VersionCounts, FieldsFollow, Newest
<1>3. ASSUME NEW q \in Readers, q # r PROVE ReaderOK(q)'
  <2>1. readers'[q] = readers[q] /\ Newest' = Newest
    BY <1>3 DEF IInv, TypeOK, Newest
  <2> QED BY <2>1 DEF IInv, ReaderOK
<1> QED BY <1>1, <1>2, <1>3 DEF IInv

\* A record with the fields of a reader is a reader.
LEMMA ReaderType ==
  ASSUME NEW step \in 0 .. 9, NEW attempt \in 0 .. MaxRetries, NEW before \in Nat,
         NEW seen \in [Fields -> Int], NEW began \in Nat \ {0}, NEW result \in BboState
  PROVE  [step |-> step, attempt |-> attempt, before |-> before, seen |-> seen,
          began |-> began, result |-> result] \in Reader
BY DEF Reader, FieldValues

\* A reader is the record of its fields.
LEMMA ReaderParts ==
  ASSUME NEW reader \in Reader
  PROVE  reader = [step |-> reader.step, attempt |-> reader.attempt, before |-> reader.before,
                   seen |-> reader.seen, began |-> reader.began, result |-> reader.result]
BY DEF Reader

\* Records that differ from a reader in the step and in another field.
LEMMA UpdateAttempt ==
  ASSUME NEW reader \in Reader, NEW x, NEW y
  PROVE  [reader EXCEPT !.step = x, !.attempt = y] =
         [step |-> x, attempt |-> y, before |-> reader.before, seen |-> reader.seen,
          began |-> reader.began, result |-> reader.result]
<1> DEFINE mid == [step |-> x, attempt |-> reader.attempt, before |-> reader.before, seen |-> reader.seen,
                   began |-> reader.began, result |-> reader.result]
<1>1. [reader EXCEPT !.step = x] = mid
  BY ReaderParts
<1>2. [mid EXCEPT !.attempt = y] =
      [step |-> x, attempt |-> y, before |-> reader.before, seen |-> reader.seen,
       began |-> reader.began, result |-> reader.result]
  OBVIOUS
<1>3. [reader EXCEPT !.step = x, !.attempt = y] = [[reader EXCEPT !.step = x] EXCEPT !.attempt = y]
  OBVIOUS
<1> HIDE DEF mid
<1> QED BY <1>1, <1>2, <1>3

\* A reader that has loaded the version.
LEMMA UpdateBefore ==
  ASSUME NEW reader \in Reader, NEW x, NEW y
  PROVE  [reader EXCEPT !.step = x, !.before = y] =
         [step |-> x, attempt |-> reader.attempt, before |-> y, seen |-> reader.seen,
          began |-> reader.began, result |-> reader.result]
<1> DEFINE mid == [step |-> x, attempt |-> reader.attempt, before |-> reader.before, seen |-> reader.seen,
                   began |-> reader.began, result |-> reader.result]
<1>1. [reader EXCEPT !.step = x] = mid
  BY ReaderParts
<1>2. [mid EXCEPT !.before = y] =
      [step |-> x, attempt |-> reader.attempt, before |-> y, seen |-> reader.seen,
       began |-> reader.began, result |-> reader.result]
  OBVIOUS
<1>3. [reader EXCEPT !.step = x, !.before = y] = [[reader EXCEPT !.step = x] EXCEPT !.before = y]
  OBVIOUS
<1> HIDE DEF mid
<1> QED BY <1>1, <1>2, <1>3

\* A reader that has begun.
LEMMA UpdateBegan ==
  ASSUME NEW reader \in Reader, NEW x, NEW y
  PROVE  [reader EXCEPT !.step = x, !.began = y] =
         [step |-> x, attempt |-> reader.attempt, before |-> reader.before, seen |-> reader.seen,
          began |-> y, result |-> reader.result]
<1> DEFINE mid == [step |-> x, attempt |-> reader.attempt, before |-> reader.before, seen |-> reader.seen,
                   began |-> reader.began, result |-> reader.result]
<1>1. [reader EXCEPT !.step = x] = mid
  BY ReaderParts
<1>2. [mid EXCEPT !.began = y] =
      [step |-> x, attempt |-> reader.attempt, before |-> reader.before, seen |-> reader.seen,
       began |-> y, result |-> reader.result]
  OBVIOUS
<1>3. [reader EXCEPT !.step = x, !.began = y] = [[reader EXCEPT !.step = x] EXCEPT !.began = y]
  OBVIOUS
<1> HIDE DEF mid
<1> QED BY <1>1, <1>2, <1>3

\* A reader that has its result.
LEMMA UpdateResult ==
  ASSUME NEW reader \in Reader, NEW x, NEW y
  PROVE  [reader EXCEPT !.step = x, !.result = y] =
         [step |-> x, attempt |-> reader.attempt, before |-> reader.before, seen |-> reader.seen,
          began |-> reader.began, result |-> y]
<1> DEFINE mid == [step |-> x, attempt |-> reader.attempt, before |-> reader.before, seen |-> reader.seen,
                   began |-> reader.began, result |-> reader.result]
<1>1. [reader EXCEPT !.step = x] = mid
  BY ReaderParts
<1>2. [mid EXCEPT !.result = y] =
      [step |-> x, attempt |-> reader.attempt, before |-> reader.before, seen |-> reader.seen,
       began |-> reader.began, result |-> y]
  OBVIOUS
<1>3. [reader EXCEPT !.step = x, !.result = y] = [[reader EXCEPT !.step = x] EXCEPT !.result = y]
  OBVIOUS
<1> HIDE DEF mid
<1> QED BY <1>1, <1>2, <1>3

\* The steps of a reader.
LEMMA ReadIInv == ASSUME IInv, NEW r \in Readers, begin_read(r) \/ Read(r) PROVE IInv'
<1>0. /\ published \in Seq(BboState) /\ Len(published) \in Nat /\ Len(published) >= 1
      /\ version \in Nat /\ Newest \in BboState
      /\ fields \in [Fields -> Int]
      /\ readers \in [Readers -> Reader] /\ readers[r] \in Reader /\ ReaderOK(r)
  BY DEF IInv, TypeOK, Newest, FieldValues
<1> DEFINE reader == readers[r]
<1>a. /\ reader.step \in 0 .. 9 /\ reader.attempt \in 0 .. MaxRetries /\ reader.before \in Nat
      /\ reader.seen \in [Fields -> Int] /\ reader.began \in Nat \ {0}
      /\ reader.result \in BboState
  BY <1>0 DEF Reader, FieldValues
<1>b. NotReading \in Reader /\ NotReading.step = 0 /\ NotReading.began = 1
  BY EmptyIsState, RetriesAssumption DEF NotReading, Reader, FieldValues
<1>n. ASSUME readers' = [readers EXCEPT ![r] = NotReading],
             UNCHANGED <<version, fields, writer, published>>
      PROVE  IInv'
  <2>1. readers'[r] = NotReading
    BY <1>n, <1>0
  <2>2. readers'[r].step = 0 /\ readers'[r].began = 1 /\ Len(published') >= 1
    BY <1>n, <1>0, <1>b, <2>1
  <2>3. ReaderOK(r)'
    BY <1>0, <2>2 DEF ReaderOK
  <2> QED BY <1>n, <1>b, <2>3, ReaderStep
<1>1. CASE begin_read(r)
  <2> DEFINE new == [NotReading EXCEPT !.step = 1, !.began = Len(published)]
  <2>1. readers' = [readers EXCEPT ![r] = new] /\ UNCHANGED <<version, fields, writer, published>>
    BY <1>1 DEF begin_read
  <2>2. new \in Reader /\ new.step = 1 /\ new.began = Len(published)
    <3>1. new = [step |-> 1, attempt |-> 0, before |-> 0, seen |-> [f \in Fields |-> 0],
                 began |-> Len(published), result |-> EmptyState]
      <4>0. NotReading \in Reader
        BY <1>b
      <4>1. new = [step |-> 1, attempt |-> NotReading.attempt, before |-> NotReading.before,
                   seen |-> NotReading.seen, began |-> Len(published),
                   result |-> NotReading.result]
        BY <4>0, UpdateBegan
      <4>2. /\ NotReading.attempt = 0 /\ NotReading.before = 0
            /\ NotReading.seen = [f \in Fields |-> 0] /\ NotReading.result = EmptyState
        BY DEF NotReading
      <4> HIDE DEF new
      <4> QED BY <4>1, <4>2
    <3>2. /\ 1 \in 0 .. 9 /\ 0 \in 0 .. MaxRetries /\ 0 \in Nat
          /\ [f \in Fields |-> 0] \in [Fields -> Int] /\ Len(published) \in Nat \ {0}
      BY <1>0, RetriesAssumption
    <3> HIDE DEF new
    <3> QED BY <3>1, <3>2, EmptyIsState, ReaderType
  <2>3. readers'[r] = new
    BY <2>1, <1>0
  <2>4. ReaderOK(r)'
    <3> HIDE DEF new
    <3> QED BY <2>1, <2>2, <2>3, <1>0 DEF ReaderOK
  <2> QED BY <2>1, <2>2, <2>4, ReaderStep
<1>2. CASE load_version(r)
  <2>1. CASE reader.attempt = MaxRetries /\ readers' = [readers EXCEPT ![r] = NotReading]
    BY <1>2, <2>1, <1>n DEF load_version
  <2>2. CASE /\ reader.attempt < MaxRetries
             /\ readers' = [readers EXCEPT ![r].attempt = @ + 1]
    <3> DEFINE new == [reader EXCEPT !.attempt = @ + 1]
    <3>1. /\ readers' = [readers EXCEPT ![r] = new] /\ reader.step = 1
          /\ UNCHANGED <<version, fields, writer, published>>
      BY <1>2, <2>2 DEF load_version
    <3>2. new \in Reader /\ new.step = 1 /\ new.began = reader.began
      <4>1. new = [step |-> 1, attempt |-> reader.attempt + 1, before |-> reader.before,
                   seen |-> reader.seen, began |-> reader.began, result |-> reader.result]
        BY <1>0, <3>1, ReaderParts
      <4>2. reader.attempt + 1 \in 0 .. MaxRetries /\ 1 \in 0 .. 9
        BY <1>a, <2>2, RetriesAssumption
      <4> HIDE DEF new
      <4> QED BY <1>a, <4>1, <4>2, ReaderType
    <3>3. readers'[r] = new
      BY <3>1, <1>0
    <3>4. ReaderOK(r)'
      <4> HIDE DEF new
      <4> QED BY <3>1, <3>2, <3>3, <1>0 DEF ReaderOK
    <3> QED BY <3>1, <3>2, <3>4, ReaderStep
  <2>3. CASE /\ reader.attempt < MaxRetries /\ version % 2 = 0
             /\ readers' = [readers EXCEPT ![r].step = 2, ![r].before = version]
    <3> DEFINE new == [reader EXCEPT !.step = 2, !.before = version]
    <3>1. /\ readers' = [readers EXCEPT ![r] = new] /\ reader.step = 1
          /\ UNCHANGED <<version, fields, writer, published>>
      BY <1>2, <2>3, <1>0 DEF load_version
    <3>2. new \in Reader /\ new.step = 2 /\ new.began = reader.began /\ new.before = version
          /\ new.attempt = reader.attempt
      <4>1. new = [step |-> 2, attempt |-> reader.attempt, before |-> version,
                   seen |-> reader.seen, began |-> reader.began, result |-> reader.result]
        BY <1>0, UpdateBefore
      <4>2. 2 \in 0 .. 9
        OBVIOUS
      <4> HIDE DEF new
      <4> QED BY <1>0, <1>a, <4>1, <4>2, ReaderType
    <3>3. readers'[r] = new
      BY <3>1, <1>0
    <3>4. ReaderOK(r)'
      <4> HIDE DEF new
      <4> QED BY <2>3, <3>1, <3>2, <3>3, <1>0 DEF ReaderOK, Current
    <3> QED BY <3>1, <3>2, <3>4, ReaderStep
  <2> QED BY <1>2, <2>1, <2>2, <2>3 DEF load_version
<1>3. CASE load_field(r)
  <2> DEFINE field == Loads[reader.step - 1]
             skipped == \/ field = "bid_price" /\ reader.seen.bid_present = 0
                        \/ field = "ask_price" /\ reader.seen.ask_present = 0
             new == [reader EXCEPT !.step = @ + 1,
                                   !.seen[field] = IF skipped THEN @ ELSE fields[field]]
  <2>1. /\ reader.step \in 2 .. 7 /\ readers' = [readers EXCEPT ![r] = new]
        /\ UNCHANGED <<version, fields, writer, published>>
    BY <1>3, <1>0 DEF load_field
  <2>2. field \in Fields
    BY <2>1 DEF Loads, Fields
  <2>3. /\ new.step = reader.step + 1 /\ new.began = reader.began
        /\ new.before = reader.before /\ new.attempt = reader.attempt
        /\ new.seen = [reader.seen EXCEPT ![field] = IF skipped THEN @ ELSE fields[field]]
        /\ new.result = reader.result
    BY <1>0 DEF Reader
  <2>4. new.seen \in [Fields -> Int]
    BY <1>0, <1>a, <2>2, <2>3
  <2>5. new \in Reader
    <3>1. new = [step |-> reader.step + 1, attempt |-> reader.attempt, before |-> reader.before,
                 seen |-> new.seen, began |-> reader.began, result |-> reader.result]
      <4> DEFINE value == IF skipped THEN reader.seen[field] ELSE fields[field]
                 mid == [step |-> reader.step + 1, attempt |-> reader.attempt,
                         before |-> reader.before, seen |-> reader.seen,
                         began |-> reader.began, result |-> reader.result]
      <4>1. new = [[reader EXCEPT !.step = reader.step + 1] EXCEPT !.seen[field] = value]
        OBVIOUS
      <4>2. [reader EXCEPT !.step = reader.step + 1] = mid
        BY <1>0, ReaderParts
      <4> HIDE DEF field, value
      <4>3. [mid EXCEPT !.seen[field] = value] =
              [step |-> reader.step + 1, attempt |-> reader.attempt,
               before |-> reader.before, seen |-> [reader.seen EXCEPT ![field] = value],
               began |-> reader.began, result |-> reader.result]
        OBVIOUS
      <4> HIDE DEF new, mid
      <4>4. new = [step |-> reader.step + 1, attempt |-> reader.attempt,
                   before |-> reader.before, seen |-> [reader.seen EXCEPT ![field] = value],
                   began |-> reader.began, result |-> reader.result]
        BY <4>1, <4>2, <4>3
      <4>5. new.seen = [reader.seen EXCEPT ![field] = value]
        BY <4>4
      <4> QED BY <4>4, <4>5
    <3>2. reader.step + 1 \in 0 .. 9
      BY <2>1
    <3> HIDE DEF new
    <3>3. [step |-> reader.step + 1, attempt |-> reader.attempt, before |-> reader.before,
           seen |-> new.seen, began |-> reader.began, result |-> reader.result] \in Reader
      <4> DEFINE seen == new.seen
      <4> HIDE DEF seen
      <4>1. seen \in [Fields -> Int]
        BY <2>4 DEF seen
      <4>2. [step |-> reader.step + 1, attempt |-> reader.attempt, before |-> reader.before,
             seen |-> seen, began |-> reader.began, result |-> reader.result] \in Reader
        BY <1>a, <3>2, <4>1, ReaderType
      <4> QED BY <4>2 DEF seen
    <3> QED BY <3>1, <3>3
  <2>6. readers'[r] = new
    BY <2>1, <1>0
  <2>7. ASSUME version = reader.before PROVE Current(new, Newest)
    <3>1. /\ Current(reader, Newest) /\ reader.before % 2 = 0
      BY <1>0, <2>1, <2>7 DEF ReaderOK
    <3>2. writer.step = 0
      BY <1>0, <2>7, <3>1 DEF IInv, VersionCounts
    <3>3. \A f \in Fields : fields[f] = encode(Newest)[f]
      BY <3>2 DEF IInv, FieldsFollow
    <3>4. \A f \in Fields : new.seen[f] = IF f = field /\ ~skipped THEN encode(Newest)[f]
                                           ELSE reader.seen[f]
      BY <1>a, <2>2, <2>3, <3>3
    <3>5. encode(Newest)["bid_present"] \in {0, 1} /\ encode(Newest)["ask_present"] \in {0, 1}
      BY <1>0, EncodeType
    <3>6. CASE reader.step = 2
      <4>1. field = "bid_present" /\ new.step = 3
        BY <2>3, <3>6 DEF Loads
      <4> HIDE DEF new, field
      <4> QED BY <3>1, <3>4, <3>6, <4>1 DEF Current, Fields
    <3>7. CASE reader.step = 3
      <4>1. field = "bid_price" /\ new.step = 4
        BY <2>3, <3>7 DEF Loads
      <4> HIDE DEF new, field
      <4> QED BY <3>1, <3>4, <3>5, <3>7, <4>1 DEF Current, Fields
    <3>8. CASE reader.step = 4
      <4>1. field = "bid_quantity" /\ new.step = 5
        BY <2>3, <3>8 DEF Loads
      <4> HIDE DEF new, field
      <4> QED BY <3>1, <3>4, <3>8, <4>1 DEF Current, Fields
    <3>9. CASE reader.step = 5
      <4>1. field = "ask_present" /\ new.step = 6
        BY <2>3, <3>9 DEF Loads
      <4> HIDE DEF new, field
      <4> QED BY <3>1, <3>4, <3>9, <4>1 DEF Current, Fields
    <3>10. CASE reader.step = 6
      <4>1. field = "ask_price" /\ new.step = 7
        BY <2>3, <3>10 DEF Loads
      <4> HIDE DEF new, field
      <4> QED BY <3>1, <3>4, <3>5, <3>10, <4>1 DEF Current, Fields
    <3>11. CASE reader.step = 7
      <4>1. field = "ask_quantity" /\ new.step = 8
        BY <2>3, <3>11 DEF Loads
      <4> HIDE DEF new, field
      <4> QED BY <3>1, <3>4, <3>11, <4>1 DEF Current, Fields
    <3> HIDE DEF new, field, skipped
    <3> QED BY <2>1, <3>6, <3>7, <3>8, <3>9, <3>10, <3>11
  <2>8. ReaderOK(r)'
    <3>1. Newest' = Newest
      BY <2>1 DEF Newest
    <3> HIDE DEF new, field, skipped
    <3>2. /\ reader.attempt < MaxRetries /\ reader.before =< version
          /\ reader.before % 2 = 0 /\ reader.began =< Len(published)
      BY <1>0, <2>1 DEF ReaderOK
    <3>3. /\ new.attempt < MaxRetries /\ new.before =< version'
          /\ new.before % 2 = 0 /\ new.began =< Len(published')
      BY <2>1, <2>3, <3>2
    <3>4. new.step \in 3 .. 8
      BY <2>1, <2>3
    <3>5. version' = new.before => Current(new, Newest')
      BY <2>1, <2>3, <2>7, <3>1
    <3> QED BY <2>6, <3>3, <3>4, <3>5 DEF ReaderOK
  <2> HIDE DEF new
  <2> QED BY <2>1, <2>5, <2>8, ReaderStep
<1>4. CASE check_version(r)
  <2>0. reader.step = 8 /\ UNCHANGED <<version, fields, writer, published>>
    BY <1>4 DEF check_version
  <2>1. CASE version = reader.before
    <3> DEFINE new == [reader EXCEPT !.step = 9, !.result = decode(reader.seen)]
    <3>1. readers' = [readers EXCEPT ![r] = new]
      BY <1>4, <2>1 DEF check_version
    <3>2. Current(reader, Newest)
      BY <1>0, <2>0, <2>1 DEF ReaderOK
    <3>3. decode(reader.seen) = Newest
      BY <1>0, <2>0, <3>2, DecodeEncode
    <3>4. new \in Reader /\ new.step = 9 /\ new.result = Newest /\ new.began = reader.began
      <4>1. new = [step |-> 9, attempt |-> reader.attempt, before |-> reader.before,
                   seen |-> reader.seen, began |-> reader.began, result |-> Newest]
        BY <1>0, <3>3, UpdateResult
      <4>2. 9 \in 0 .. 9
        OBVIOUS
      <4> HIDE DEF new
      <4> QED BY <1>0, <1>a, <4>1, <4>2, ReaderType
    <3>5. readers'[r] = new
      BY <3>1, <1>0
    <3>6. ReaderOK(r)'
      <4> HIDE DEF new
      <4>1. Len(published) \in reader.began .. Len(published) /\ reader.began =< Len(published)
        BY <1>0, <1>a DEF ReaderOK
      <4>2. published' = published /\ readers'[r].result = published[Len(published)]
        BY <2>0, <3>4, <3>5 DEF Newest
      <4>3. readers'[r].step = 9 /\ readers'[r].began = reader.began
        BY <3>4, <3>5
      <4> QED BY <4>1, <4>2, <4>3 DEF ReaderOK
    <3> QED BY <2>0, <3>1, <3>4, <3>6, ReaderStep
  <2>2. CASE version # reader.before
    <3> DEFINE new == [reader EXCEPT !.step = 1, !.attempt = @ + 1]
    <3>1. readers' = [readers EXCEPT ![r] = new]
      BY <1>4, <2>2 DEF check_version
    <3>2. reader.attempt < MaxRetries
      BY <1>0, <2>0 DEF ReaderOK
    <3>3. new \in Reader /\ new.step = 1 /\ new.began = reader.began
      <4>1. new = [step |-> 1, attempt |-> reader.attempt + 1, before |-> reader.before,
                   seen |-> reader.seen, began |-> reader.began, result |-> reader.result]
        BY <1>0, UpdateAttempt
      <4>2. reader.attempt + 1 \in 0 .. MaxRetries /\ 1 \in 0 .. 9
        BY <1>a, <3>2, RetriesAssumption
      <4> HIDE DEF new
      <4> QED BY <1>a, <4>1, <4>2, ReaderType
    <3>4. readers'[r] = new
      BY <3>1, <1>0
    <3>5. ReaderOK(r)'
      <4> HIDE DEF new
      <4> QED BY <1>0, <2>0, <3>3, <3>4 DEF ReaderOK
    <3> QED BY <2>0, <3>1, <3>3, <3>5, ReaderStep
  <2> QED BY <2>1, <2>2
<1>5. CASE end_read(r)
  BY <1>5, <1>n DEF end_read
<1> QED BY <1>1, <1>2, <1>3, <1>4, <1>5 DEF Read

\* The invariant speaks of the variables only.
LEMMA StutterIInv == ASSUME IInv, UNCHANGED vars PROVE IInv'
BY DEF IInv, vars, TypeOK, VersionCounts, FieldsFollow, ReaderOK, Newest

\* Every step keeps the invariant.
LEMMA StepIInv == IInv /\ [Next]_vars => IInv'
BY PublishIInv, ReadIInv, StutterIInv DEF Next

\* The invariant gives the properties.
LEMMA IInvImplies == IInv => TypeOK /\ ReadIsAtomic
BY DEF IInv, ReaderOK, ReadIsAtomic

-----------------------------------------------------------------------------
(* Theorems.                                                               *)

\* BboSnapshot::read() returns a whole state that was published and was current at
\* some time during the read, however many readers there are.
THEOREM ReadsAreAtomic == Spec => []ReadIsAtomic
<1>1. Init => IInv BY InitIInv
<1>2. IInv /\ [Next]_vars => IInv' BY StepIInv
<1>3. IInv => ReadIsAtomic BY IInvImplies
<1> QED BY <1>1, <1>2, <1>3, PTL DEF Spec

\* The same for the readers that BboPublisher::try_publish() is: writing frames does
\* not interfere with reading.
THEOREM PublisherReadsAtomically == PSpec => []ReadIsAtomic
<1>1. PInit => IInv BY InitIInv DEF PInit
<1>2. [PNext]_pvars => [Next]_vars
  BY DEF PNext, Poll, ReadOn, try_publish, Next, Read, pvars, vars
<1>3. IInv /\ [PNext]_pvars => IInv' BY <1>2, StepIInv
<1>4. IInv => ReadIsAtomic BY IInvImplies
<1> QED BY <1>1, <1>3, <1>4, PTL DEF PSpec

=============================================================================
