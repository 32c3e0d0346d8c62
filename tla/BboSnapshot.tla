---------------------------- MODULE BboSnapshot ----------------------------
(***************************************************************************)
(* The best-bid-and-offer snapshot of src/src/bbo.cpp: the matching thread *)
(* publishes, reader threads read without locks.  Six atomic fields are    *)
(* guarded by a version that is odd while a publication is under way, and  *)
(* a reader retries a bounded number of times.  Every access is            *)
(* sequentially consistent, and a step of its own.                         *)
(***************************************************************************)
EXTENDS Integers, Sequences

CONSTANTS
  Readers,
  Prices,         \* ticks
  NoPrice,        \* nullopt
  Quantities,     \* of a level that has orders
  MaxRetries,     \* max_reader_retries_
  MaxPublished    \* bound on the number of publications

ASSUME PricesAssumption ==
  Prices \subseteq Int /\ NoPrice \notin Int /\ Quantities \subseteq Nat \ {0}
ASSUME RetriesAssumption == MaxRetries \in Nat

VARIABLES
  version,      \* version_
  fields,       \* the other atomics
  writer,       \* locals of publish()
  readers,      \* locals of read()
  published     \* history: the published states, the initial one first

vars == <<version, fields, writer, readers, published>>

\* A side with a price has a quantity, one without has none.
BboSide == {<<NoPrice, 0>>} \cup (Prices \X Quantities)
BboState == [bid : BboSide, ask : BboSide]
EmptyState == [bid |-> <<NoPrice, 0>>, ask |-> <<NoPrice, 0>>]

-----------------------------------------------------------------------------
(* The fields, in the order of the stores and of the loads.                *)

Stores == <<"bid_price", "bid_quantity", "ask_price", "ask_quantity",
            "bid_present", "ask_present">>
Loads == <<"bid_present", "bid_price", "bid_quantity",
           "ask_present", "ask_price", "ask_quantity">>
Fields == {"bid_price", "bid_quantity", "ask_price", "ask_quantity",
           "bid_present", "ask_present"}

value_or_zero(price) == IF price = NoPrice THEN 0 ELSE price
presence(price) == IF price = NoPrice THEN 0 ELSE 1

\* What publish() stores for a state.
encode(state) ==
  [bid_price |-> value_or_zero(state.bid[1]), bid_quantity |-> state.bid[2],
   ask_price |-> value_or_zero(state.ask[1]), ask_quantity |-> state.ask[2],
   bid_present |-> presence(state.bid[1]), ask_present |-> presence(state.ask[1])]

\* What read() makes of the values it loaded.
decode(seen) ==
  [bid |-> <<IF seen.bid_present # 0 THEN seen.bid_price ELSE NoPrice, seen.bid_quantity>>,
   ask |-> <<IF seen.ask_present # 0 THEN seen.ask_price ELSE NoPrice, seen.ask_quantity>>]

-----------------------------------------------------------------------------
(* The matching thread: publish().                                         *)

Idle == [step |-> 0, state |-> EmptyState]

begin_publish(state) ==
  /\ writer.step = 0
  /\ Len(published) <= MaxPublished
  /\ version' = version + 1
  /\ writer' = [step |-> 1, state |-> state]
  /\ UNCHANGED <<fields, readers, published>>

store_field ==
  /\ writer.step \in 1 .. 6
  /\ fields' = [fields EXCEPT ![Stores[writer.step]] =
                                encode(writer.state)[Stores[writer.step]]]
  /\ writer' = [writer EXCEPT !.step = @ + 1]
  /\ UNCHANGED <<version, readers, published>>

end_publish ==
  /\ writer.step = 7
  /\ version' = version + 1
  /\ published' = Append(published, writer.state)
  /\ writer' = Idle
  /\ UNCHANGED <<fields, readers>>

-----------------------------------------------------------------------------
(* A reader: read().                                                       *)

\* step 0: no read running; 1: about to load the version; 2 .. 7: about to load
\* a field; 8: about to load the version again.
NotReading == [step |-> 0, attempt |-> 0, before |-> 0,
               seen |-> [f \in Fields |-> 0], began |-> 1, result |-> EmptyState]

begin_read(r) ==
  /\ readers[r].step = 0
  /\ readers' = [readers EXCEPT ![r] = [NotReading EXCEPT !.step = 1,
                                                          !.began = Len(published)]]
  /\ UNCHANGED <<version, fields, writer, published>>

\* Mutant of load_version: an odd version is waited out without counting.
load_version_waits(r) ==
  /\ readers[r].step = 1
  /\ version % 2 = 0
  /\ readers' = [readers EXCEPT ![r].step = 2, ![r].before = version]
  /\ UNCHANGED <<version, fields, writer, published>>

\* The head of the loop, and the return of nullopt after the last attempt.
load_version(r) ==
  /\ readers[r].step = 1
  /\ LET reader == readers[r]
     IN  \/ /\ reader.attempt = MaxRetries
            /\ readers' = [readers EXCEPT ![r] = NotReading]
         \/ /\ reader.attempt < MaxRetries /\ version % 2 # 0
            /\ readers' = [readers EXCEPT ![r].attempt = @ + 1]
         \/ /\ reader.attempt < MaxRetries /\ version % 2 = 0
            /\ readers' = [readers EXCEPT ![r].step = 2, ![r].before = version]
  /\ UNCHANGED <<version, fields, writer, published>>

\* A price is loaded only when its side is present.
load_field(r) ==
  LET reader == readers[r]
      field == Loads[reader.step - 1]
      skipped == \/ field = "bid_price" /\ reader.seen.bid_present = 0
                 \/ field = "ask_price" /\ reader.seen.ask_present = 0
  IN  /\ reader.step \in 2 .. 7
      /\ readers' = [readers EXCEPT
                      ![r].step = @ + 1,
                      ![r].seen[field] = IF skipped THEN @ ELSE fields[field]]
      /\ UNCHANGED <<version, fields, writer, published>>

\* Mutant of check_version: the second load is not compared.
check_version_skipped(r) ==
  /\ readers[r].step = 8
  /\ readers' = [readers EXCEPT ![r] = [readers[r] EXCEPT
                                         !.step = 9, !.result = decode(readers[r].seen)]]
  /\ UNCHANGED <<version, fields, writer, published>>

check_version(r) ==
  /\ readers[r].step = 8
  /\ LET reader == readers[r]
     IN  readers' = [readers EXCEPT ![r] =
           IF version = reader.before
           THEN [reader EXCEPT !.step = 9, !.result = decode(reader.seen)]
           ELSE [reader EXCEPT !.step = 1, !.attempt = @ + 1]]
  /\ UNCHANGED <<version, fields, writer, published>>

\* The caller takes the result.
end_read(r) ==
  /\ readers[r].step = 9
  /\ readers' = [readers EXCEPT ![r] = NotReading]
  /\ UNCHANGED <<version, fields, writer, published>>

-----------------------------------------------------------------------------

Init ==
  /\ version = 0
  /\ fields = [f \in Fields |-> 0]
  /\ writer = Idle
  /\ readers = [r \in Readers |-> NotReading]
  /\ published = <<EmptyState>>

Publish == (\E state \in BboState : begin_publish(state)) \/ store_field \/ end_publish

Read(r) == load_version(r) \/ load_field(r) \/ check_version(r) \/ end_read(r)

Next == Publish \/ \E r \in Readers : begin_read(r) \/ Read(r)

\* A reader that is inside read() keeps running; the writer may stop anywhere.
Spec == Init /\ [][Next]_vars /\ \A r \in Readers : WF_vars(Read(r))

-----------------------------------------------------------------------------
(* Properties.                                                             *)

FieldValues == Int
Reader == [step : 0 .. 9, attempt : 0 .. MaxRetries, before : Nat,
           seen : [Fields -> FieldValues], began : Nat \ {0}, result : BboState]

\* Every variable has its type; what a read returns is a possible state.
TypeOK ==
  /\ version \in Nat
  /\ fields \in [Fields -> FieldValues]
  /\ writer \in [step : 0 .. 7, state : BboState]
  /\ readers \in [Readers -> Reader]
  /\ published \in Seq(BboState)

\* A read is atomic: a state that read() returns is one that was published, whole,
\* and it was the current one at some time during the read.
ReadIsAtomic ==
  \A r \in Readers : readers[r].step = 9 =>
    \E i \in readers[r].began .. Len(published) : readers[r].result = published[i]

\* Every read returns, even when the writer stops in the middle of a publication.
ReadReturns == \A r \in Readers : readers[r].step # 0 ~> readers[r].step = 0

=============================================================================
