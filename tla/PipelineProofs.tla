--------------------------- MODULE PipelineProofs ---------------------------
(***************************************************************************)
(* Proofs about the durable pipeline of Pipeline.tla, for any capacities,  *)
(* any last sequence and any number of events per command.                 *)
(***************************************************************************)
EXTENDS Pipeline, TLAPS

-----------------------------------------------------------------------------
(* Sequences: what concatenation, Tail and SubSeq hold.                     *)

\* Two sequences of one length with the same elements are the same.
LEMMA SameElements ==
  ASSUME NEW S, NEW s \in Seq(S), NEW t \in Seq(S),
         Len(s) = Len(t), \A i \in 1 .. Len(s) : s[i] = t[i]
  PROVE  s = t
OBVIOUS

\* The elements of s \o t are those of s, then those of t.
LEMMA Concatenation ==
  ASSUME NEW S, NEW s \in Seq(S), NEW t \in Seq(S)
  PROVE  /\ s \o t \in Seq(S)
         /\ Len(s \o t) = Len(s) + Len(t)
         /\ \A i \in 1 .. Len(s) + Len(t) :
              (s \o t)[i] = IF i <= Len(s) THEN s[i] ELSE t[i - Len(s)]
OBVIOUS

\* It does not matter in which order three sequences are joined.
LEMMA JoinThree ==
  ASSUME NEW S, NEW s \in Seq(S), NEW t \in Seq(S), NEW u \in Seq(S)
  PROVE  (s \o t) \o u = s \o (t \o u)
<1> DEFINE l == (s \o t) \o u
           r == s \o (t \o u)
<1>1. l \in Seq(S) /\ r \in Seq(S)
  BY Concatenation
<1>2. Len(l) = Len(r)
  OBVIOUS
<1>3. \A i \in 1 .. Len(l) : l[i] = r[i]
  OBVIOUS
<1> HIDE DEF l, r
<1> QED BY <1>1, <1>2, <1>3, SameElements DEF l, r

\* What SubSeq(s, m, n) holds, for a part of s that may be empty.
LEMMA PartOf ==
  ASSUME NEW S, NEW s \in Seq(S), NEW m \in Nat, NEW n \in Nat, m + n <= Len(s)
  PROVE  /\ SubSeq(s, m + 1, m + n) \in Seq(S)
         /\ Len(SubSeq(s, m + 1, m + n)) = n
         /\ \A i \in 1 .. n : SubSeq(s, m + 1, m + n)[i] = s[m + i]
OBVIOUS


-----------------------------------------------------------------------------
(* The inductive invariant.                                                *)

\* Sequences the sequencer has given out
stamped == IF ingress.exhausted THEN LastSequence ELSE ingress.next_sequence - 1

\* An applied command is still in the command queue
holding == matching.poisoned \/ matching.phase \in {"push", "publish", "release"}

\* Commands that have left the command queue
released == IF holding THEN applied - 1 ELSE applied

\* Commands whose events have been pushed, and which the best bid and offer reflects
pushed_events == IF matching.poisoned \/ matching.phase = "push" THEN applied - 1 ELSE applied
reflected ==
  IF matching.poisoned \/ matching.phase \in {"push", "publish"} THEN applied - 1 ELSE applied

\* The journal has no gap and its times do not decrease.
JournalInv ==
  /\ \A i \in 1 .. Len(journal) : /\ journal[i].sequence = i
                                  /\ journal[i].logical_time <= ingress.last_logical_time
  /\ \A i \in 1 .. Len(journal) - 1 : journal[i].logical_time <= journal[i + 1].logical_time

\* try_ingest between its steps: what it checked first still holds, and the
\* sequencer is as far as the journal, or one command ahead of it.
IngressInv ==
  /\ ~ingress.stopped
  /\ ingress.exhausted => ingress.next_sequence = LastSequence
  /\ ingress.phase # "idle" => ~ingress.recovery_required /\ Len(command_queue) < CommandCapacity
  /\ ingress.phase = "append" => /\ Len(journal) = stamped - 1
                                 /\ Len(journal) < JournalCapacity
                                 /\ ingress.command.sequence = stamped
                                 /\ ingress.command.logical_time = ingress.last_logical_time
  /\ ingress.phase = "push" => Len(journal) > 0 /\ ingress.command = journal[Len(journal)]
  /\ ingress.phase # "append" /\ ~ingress.recovery_required => Len(journal) = stamped

\* The command queue is the part of the journal behind the released commands;
\* the record that is still to be pushed, or whose append was in doubt, is not in it.
QueueInv ==
  /\ released \in Nat
  /\ released + Len(command_queue) <= Len(journal)
  /\ \A i \in 1 .. Len(command_queue) : command_queue[i] = journal[released + i]
  /\ ingress.phase = "push" => released + Len(command_queue) = Len(journal) - 1
  /\ ingress.phase # "push" /\ ~ingress.recovery_required =>
       released + Len(command_queue) = Len(journal)

\* The engine has applied the journal up to some record.
EngineInv ==
  /\ engine.exhausted => engine.next_sequence = LastSequence
  /\ applied <= Len(journal)
  /\ Len(engine.produced) = applied
  /\ \A k \in 1 .. applied : engine.produced[k] > 0
  /\ engine.last_logical_time = IF applied = 0 THEN 0 ELSE journal[applied].logical_time

\* process_one between its steps: it holds the head of the command queue, and the
\* event queue has room for what it announced.
MatchingInv ==
  /\ matching.phase # "idle" \/ matching.poisoned =>
       command_queue # <<>> /\ matching.command = command_queue[1]
  /\ matching.poisoned => matching.phase = "idle" /\ Excess > 0
  /\ matching.phase = "apply" => Len(event_queue) + matching.required <= EventCapacity
  /\ matching.phase = "push" =>
       /\ Len(event_queue) + engine.produced[applied] <= EventCapacity
       /\ matching.batch = [i \in 1 .. engine.produced[applied] |->
                              [command_sequence |-> applied, event_index |-> i - 1]]

\* Events, best bid and offer and snapshots are as far as the step of process_one says.
StreamInv ==
  /\ EventsInOrder
  /\ streamed = pushed_events
  /\ \A i \in 1 .. Len(stream) : stream[i].command_sequence <= pushed_events
  /\ bbo = reflected
  /\ saved <= released

\* A shutdown has stopped ingress, and an empty command queue stays empty.
RuntimeInv ==
  /\ runtime.lifecycle \in {"starting", "running"} => ~runtime.commands_empty
  /\ runtime.lifecycle \in {"draining", "stopped"} =>
       /\ ingress.phase = "idle"
       /\ runtime.commands_empty => command_queue = <<>>
  /\ runtime.lifecycle = "stopped" => runtime.commands_empty /\ event_queue = <<>>

Inv ==
  /\ TypeOK
  /\ JournalInv
  /\ IngressInv
  /\ QueueInv
  /\ EngineInv
  /\ MatchingInv
  /\ StreamInv
  /\ RuntimeInv

-----------------------------------------------------------------------------
(* The runtime.                                                            *)

\* The stages and the queues between them
stages == <<ingress, journal, command_queue, matching, engine, event_queue, published, bbo, saved>>

\* What an observed status may do to the runtime
Observed(r) ==
  /\ r \in Runtime
  /\ r.commands_empty = runtime.commands_empty
  /\ r.lifecycle \in {runtime.lifecycle, "failed"}

\* Raising the health keeps the lifecycle, and failing only makes it failed
\* (raise_health and fail of RuntimeOperations).
LEMMA RaiseHealth ==
  ASSUME TypeOK, NEW health \in healthy .. corruption
  PROVE  Observed(raise_health(health)) /\ Observed(fail(health))
<1>1. runtime \in Runtime
  BY DEF TypeOK, Runtime
<1> DEFINE raised == raise_health(health)
<1>2. Observed(raised)
  BY <1>1 DEF raise_health, Observed, Runtime
<1>3. raised \in Runtime
  BY <1>2 DEF Observed
<1> HIDE DEF raised
<1>4. fail(health) = [raised EXCEPT !.lifecycle = "failed"]
  BY DEF fail, raised
<1>5. Observed(fail(health))
  BY <1>2, <1>3, <1>4 DEF Observed, Runtime, Lifecycles
<1> QED BY <1>2, <1>5 DEF raised

\* A status of either stage moves the runtime to the failed state or leaves its
\* lifecycle alone (observe_ingress and observe_matching).
LEMMA Observes ==
  ASSUME TypeOK, NEW status
  PROVE  Observed(observe_ingress(status)) /\ Observed(observe_matching(status))
<1>1. /\ backpressured \in healthy .. corruption /\ capacity_exhausted \in healthy .. corruption
      /\ recovery_required \in healthy .. corruption /\ corruption \in healthy .. corruption
  BY DEF healthy, backpressured, capacity_exhausted, recovery_required, corruption
<1>2. Observed(runtime)
  BY DEF TypeOK, Observed, Runtime
<1>3. Observed(observe_ingress(status))
  BY <1>1, <1>2, RaiseHealth DEF observe_ingress
<1>4. Observed(observe_matching(status))
  BY <1>1, <1>2, RaiseHealth DEF observe_matching
<1> QED BY <1>3, <1>4

\* A step that leaves matching and publication alone keeps the counts of
\* commands and the stream.
LEMMA StreamFrame ==
  ASSUME Inv, UNCHANGED <<matching, engine, event_queue, published, bbo, saved>>
  PROVE  /\ applied' = applied /\ holding' = holding /\ released' = released
         /\ StreamInv'
<1>1. applied' = applied /\ holding' = holding
  BY DEF applied, holding
<1>2. released' = released /\ pushed_events' = pushed_events /\ reflected' = reflected
  BY <1>1 DEF released, pushed_events, reflected
<1>3. stream' = stream /\ streamed' = streamed
  BY DEF stream, streamed
<1>4. StreamInv'
  BY <1>2, <1>3 DEF Inv, StreamInv, EventsInOrder
<1> QED BY <1>1, <1>2, <1>4

\* A step of the runtime alone keeps what is said of the stages.
LEMMA RuntimeOnly ==
  ASSUME Inv, UNCHANGED stages, runtime' \in Runtime, RuntimeInv'
  PROVE  Inv'
<1> USE DEF stages
<1>1. TypeOK'
  BY DEF Inv, TypeOK, Runtime
<1>2. JournalInv' /\ IngressInv'
  BY DEF Inv, JournalInv, IngressInv, stamped
<1>3. applied' = applied /\ released' = released /\ StreamInv'
  BY StreamFrame
<1>4. QueueInv' /\ EngineInv' /\ MatchingInv'
  BY <1>3 DEF Inv, QueueInv, EngineInv, MatchingInv
<1> QED BY <1>1, <1>2, <1>3, <1>4 DEF Inv

\* A status that is only observed keeps the invariant.
LEMMA ObservedOnly ==
  ASSUME Inv, UNCHANGED stages, Observed(runtime')
  PROVE  Inv'
<1>1. RuntimeInv'
  BY DEF Inv, RuntimeInv, Observed, stages
<1> QED BY <1>1, RuntimeOnly DEF Observed

\* start and begin_shutdown begin with nothing observed.
LEMMA StartInv ==
  ASSUME Inv, start \/ begin_shutdown
  PROVE  Inv'
<1>1. UNCHANGED stages
  BY DEF start, begin_shutdown, stages
<1>2. runtime \in Runtime /\ RuntimeInv
  BY DEF Inv, TypeOK, Runtime
<1>3. runtime' \in Runtime
  BY <1>2 DEF start, begin_shutdown, Runtime, Lifecycles
<1>4. RuntimeInv'
  BY <1>1, <1>2 DEF start, begin_shutdown, Runtime, RuntimeInv, stages
<1> QED BY <1>1, <1>3, <1>4, RuntimeOnly

\* complete_shutdown sees two empty queues one after the other.
LEMMA ShutdownInv ==
  ASSUME Inv, observe_commands_empty \/ complete_shutdown
  PROVE  Inv'
<1>1. UNCHANGED stages
  BY DEF observe_commands_empty, complete_shutdown, stages
<1>2. runtime \in Runtime /\ RuntimeInv
  BY DEF Inv, TypeOK, Runtime
<1>3. runtime' \in Runtime
  BY <1>2 DEF observe_commands_empty, complete_shutdown, Runtime, Lifecycles
<1>4. RuntimeInv'
  BY <1>1, <1>2 DEF observe_commands_empty, complete_shutdown, Runtime, RuntimeInv, stages
<1> QED BY <1>1, <1>3, <1>4, RuntimeOnly

\* A poisoned stage holds a command, so that a runtime that observes it was
\* not stopped.
LEMMA PoisonedInv ==
  ASSUME Inv, process_poisoned
  PROVE  Inv'
<1>1. UNCHANGED stages
  BY DEF process_poisoned, stages
<1>2. Observed(runtime')
  BY Observes DEF process_poisoned, Inv
<1> QED BY <1>1, <1>2, ObservedOnly

-----------------------------------------------------------------------------
(* DurableIngressStage.                                                    *)

\* Logical times are numbers, the initial one included.
LEMMA TimesAreNumbers ==
  ASSUME NEW time \in LogicalTimes \union {0}
  PROVE  time \in Nat
BY LogicalTimesAssumption

\* The times of the ingress stage and of the records of the journal are numbers.
TimesOfRecords == \A i \in 1 .. Len(journal) : journal[i].logical_time \in Nat

\* The times the ingress stage and the journal hold are numbers.
LEMMA TimesOfIngress ==
  ASSUME ingress \in Ingress, journal \in Seq(Command)
  PROVE  ingress.last_logical_time \in Nat /\ TimesOfRecords
<1>1. ingress.last_logical_time \in LogicalTimes \union {0}
  BY DEF Ingress
<1>2. ASSUME NEW i \in 1 .. Len(journal)
      PROVE  journal[i].logical_time \in LogicalTimes \union {0}
  <2>1. journal[i] \in Command
    BY <1>2
  <2> QED BY <2>1 DEF Command
<1> QED BY <1>1, <1>2, TimesAreNumbers DEF TimesOfRecords

\* What Sequencer::stamp leaves in the stage.
Stamped(next, logical_time) ==
  /\ next.phase = "append"
  /\ next.command = [sequence |-> ingress.next_sequence, logical_time |-> logical_time]
  /\ next.exhausted = (ingress.next_sequence = LastSequence)
  /\ next.next_sequence = IF ingress.next_sequence = LastSequence THEN LastSequence
                          ELSE ingress.next_sequence + 1
  /\ next.last_logical_time = logical_time
  /\ next.recovery_required = ingress.recovery_required
  /\ next.stopped = ingress.stopped

\* It gives out the next sequence and keeps the rest of the stage.
LEMMA StampFields ==
  ASSUME ingress \in Ingress, NEW logical_time \in LogicalTimes, NEW next,
         next = [stamp(logical_time) EXCEPT !.phase = "append"]
  PROVE  next \in Ingress /\ Stamped(next, logical_time)
<1> DEFINE last == ingress.next_sequence = LastSequence
           following == IF last THEN LastSequence ELSE ingress.next_sequence + 1
           command == [sequence |-> ingress.next_sequence, logical_time |-> logical_time]
<1>1. /\ last \in BOOLEAN /\ following \in 1 .. LastSequence /\ command \in Command
      /\ following = IF last THEN ingress.next_sequence ELSE ingress.next_sequence + 1
  BY CapacitiesAssumption DEF Ingress, Command
<1> DEFINE stamped_ingress == [ingress EXCEPT !.command = command, !.exhausted = last,
                                              !.next_sequence = following,
                                              !.last_logical_time = logical_time,
                                              !.phase = "append"]
<1>2. next = stamped_ingress
  BY <1>1 DEF stamp, Ingress
<1> HIDE DEF last, following, command
<1>3. next \in Ingress
  BY <1>1, <1>2 DEF Ingress
<1>4. /\ next.phase = "append" /\ next.command = command /\ next.exhausted = last
      /\ next.next_sequence = following /\ next.last_logical_time = logical_time
      /\ next.recovery_required = ingress.recovery_required /\ next.stopped = ingress.stopped
  BY <1>1, <1>2 DEF Ingress
<1> QED BY <1>3, <1>4 DEF last, following, command, Stamped

\* The checks that try_ingest has passed when it stamps a command.
LEMMA StampChecks ==
  ASSUME NEW logical_time, ingest_status(logical_time) = "stamp"
  PROVE  /\ ~ingress.stopped /\ ~ingress.recovery_required /\ ~ingress.exhausted
         /\ ~(logical_time < ingress.last_logical_time)
         /\ ~(Len(command_queue) >= CommandCapacity) /\ Len(journal) # JournalCapacity
BY DEF ingest_status, append_failed, command_queue_full, journal_full

\* try_ingest takes the next sequence only when nothing it checks can refuse the
\* command any more.
LEMMA IngestInv ==
  ASSUME Inv, NEW logical_time \in LogicalTimes, try_ingest(logical_time)
  PROVE  Inv'
<1>1. CASE ingest_status(logical_time) # "stamp"
  <2>1. UNCHANGED stages /\ runtime' = observe_ingress(ingest_status(logical_time))
    BY <1>1 DEF try_ingest, stages
  <2> QED BY <2>1, Observes, ObservedOnly DEF Inv
<1>2. CASE ingest_status(logical_time) = "stamp"
  <2>1. /\ ingress' = [stamp(logical_time) EXCEPT !.phase = "append"]
        /\ ingress.phase = "idle"
        /\ runtime.lifecycle \in {"running", "failed"}
        /\ UNCHANGED <<journal, command_queue, matching, engine, event_queue, published, bbo,
                       saved, runtime>>
    BY <1>2 DEF try_ingest
  <2>2. ingress \in Ingress
    BY DEF Inv, TypeOK
  <2>3. /\ ingress' \in Ingress
        /\ ingress'.phase = "append"
        /\ ingress'.command = [sequence |-> ingress.next_sequence, logical_time |-> logical_time]
        /\ ingress'.exhausted = (ingress.next_sequence = LastSequence)
        /\ ingress'.next_sequence = IF ingress.next_sequence = LastSequence THEN LastSequence
                                    ELSE ingress.next_sequence + 1
        /\ ingress'.last_logical_time = logical_time
        /\ ingress'.recovery_required = ingress.recovery_required
        /\ ingress'.stopped = ingress.stopped
    <3>1. ingress' \in Ingress /\ Stamped(ingress', logical_time)
      BY <2>1, <2>2, StampFields
    <3> QED BY <3>1 DEF Stamped
  <2>4. /\ ~ingress.stopped /\ ~ingress.recovery_required /\ ~ingress.exhausted
        /\ ~(logical_time < ingress.last_logical_time)
        /\ ~(Len(command_queue) >= CommandCapacity) /\ Len(journal) # JournalCapacity
    BY <1>2, StampChecks
  <2>5. /\ journal \in Seq(Command) /\ command_queue \in Seq(Command)
        /\ Len(journal) <= JournalCapacity
    BY DEF Inv, TypeOK
  <2>6. TypeOK'
    BY <2>1, <2>3 DEF Inv, TypeOK, Ingress
  <2>7. stamped' = ingress.next_sequence /\ stamped = ingress.next_sequence - 1
    BY <2>2, <2>3, <2>4 DEF stamped, Ingress
  <2>8. /\ ingress.last_logical_time \in Nat /\ logical_time \in Nat
        /\ \A i \in 1 .. Len(journal) : journal[i].logical_time \in Nat
    <3>1. ingress.last_logical_time \in Nat /\ TimesOfRecords
      BY <2>2, <2>5, TimesOfIngress
    <3> QED BY <3>1, TimesAreNumbers DEF TimesOfRecords
  <2>9. JournalInv'
    BY <2>1, <2>3, <2>4, <2>5, <2>8 DEF Inv, JournalInv
  <2>10. IngressInv'
    BY <2>1, <2>2, <2>3, <2>4, <2>5, <2>7, CapacitiesAssumption DEF Inv, IngressInv, Ingress
  <2>11. applied' = applied /\ released' = released /\ StreamInv'
    BY <2>1, StreamFrame
  <2>12. QueueInv' /\ EngineInv' /\ MatchingInv'
    BY <2>1, <2>3, <2>4, <2>11 DEF Inv, QueueInv, EngineInv, MatchingInv
  <2>13. RuntimeInv'
    BY <2>1, <2>3 DEF Inv, RuntimeInv
  <2> QED BY <2>6, <2>9, <2>10, <2>11, <2>12, <2>13 DEF Inv
<1> QED BY <1>1, <1>2

\* MmapJournal::append extends the journal by the stamped command, or leaves it;
\* after an append in doubt nothing is ingested any more.
LEMMA AppendInv ==
  ASSUME Inv, NEW outcome \in Outcomes, NEW committed \in BOOLEAN, append(outcome, committed)
  PROVE  Inv'
<1>1. /\ ingress.phase = "append"
      /\ journal' = IF committed THEN Append(journal, ingress.command) ELSE journal
      /\ UNCHANGED <<command_queue, matching, engine, event_queue, published, bbo, saved>>
  BY DEF append
<1>2. /\ ingress \in Ingress
      /\ journal \in Seq(Command) /\ command_queue \in Seq(Command)
      /\ Len(journal) \in Nat /\ Len(command_queue) \in Nat
  BY DEF Inv, TypeOK
<1>3. /\ Len(journal) = stamped - 1 /\ Len(journal) < JournalCapacity
      /\ ingress.command.sequence = stamped
      /\ ingress.command.logical_time = ingress.last_logical_time
      /\ ~ingress.recovery_required /\ ~ingress.stopped
      /\ Len(command_queue) < CommandCapacity
  BY <1>1 DEF Inv, IngressInv
<1>4. ingress.command \in Command
  BY <1>2, <1>3 DEF Ingress, NoCommand, stamped
<1>5. /\ ingress' \in Ingress
      /\ ingress'.phase = IF outcome = "none" THEN "push" ELSE "idle"
      /\ ingress'.recovery_required = (outcome # "none")
      /\ ingress'.exhausted = ingress.exhausted
      /\ ingress'.next_sequence = ingress.next_sequence
      /\ ingress'.last_logical_time = ingress.last_logical_time
      /\ ~ingress'.stopped
      /\ outcome = "none" => ingress'.command = ingress.command
  BY <1>2, <1>3 DEF append, Ingress
<1>6. stamped' = stamped /\ stamped \in Nat
  BY <1>2, <1>5, CapacitiesAssumption DEF stamped, Ingress
<1>7. /\ journal' \in Seq(Command)
      /\ Len(journal') = IF committed THEN Len(journal) + 1 ELSE Len(journal)
      /\ \A i \in 1 .. Len(journal) : journal'[i] = journal[i]
      /\ committed => journal'[Len(journal) + 1] = ingress.command
  BY <1>1, <1>2, <1>4
<1>8. Observed(runtime')
  BY Observes DEF append, Inv, Observed, TypeOK, Runtime
<1>9. TypeOK'
  <2>1. Len(journal') <= JournalCapacity
    BY <1>2, <1>3, <1>7, CapacitiesAssumption
  <2> QED BY <1>1, <1>5, <1>7, <1>8, <2>1 DEF Inv, TypeOK, Observed
<1>10. JournalInv'
  <2>1. /\ ingress.last_logical_time \in Nat
        /\ \A i \in 1 .. Len(journal) : journal[i].logical_time \in Nat
    <3>1. ingress.last_logical_time \in Nat /\ TimesOfRecords
      BY <1>2, TimesOfIngress
    <3> QED BY <3>1 DEF TimesOfRecords
  <2>2. CASE ~committed
    <3>1. journal' = journal /\ ingress'.last_logical_time = ingress.last_logical_time
      BY <1>1, <1>5, <2>2
    <3> QED BY <3>1 DEF Inv, JournalInv
  <2>3. CASE committed
    <3> DEFINE last == Len(journal) + 1
    <3>1. Len(journal') = last /\ last = stamped /\ journal'[last] = ingress.command
      BY <1>2, <1>3, <1>6, <1>7, <2>3
    <3>2. ASSUME NEW i \in 1 .. last
          PROVE  /\ journal'[i].sequence = i
                 /\ journal'[i].logical_time <= ingress.last_logical_time
      <4>1. CASE i = last
        BY <1>3, <2>1, <3>1, <4>1
      <4>2. CASE i # last
        <5>1. i \in 1 .. Len(journal) /\ journal'[i] = journal[i]
          BY <1>2, <1>7, <4>2
        <5> QED BY <5>1 DEF Inv, JournalInv
      <4> QED BY <4>1, <4>2
    <3>3. ASSUME NEW i \in 1 .. last - 1
          PROVE  journal'[i].logical_time <= journal'[i + 1].logical_time
      <4>1. i \in 1 .. Len(journal) /\ journal'[i] = journal[i]
        BY <1>2, <1>7
      <4>2. CASE i = Len(journal)
        BY <1>3, <3>1, <4>1, <4>2 DEF Inv, JournalInv
      <4>3. CASE i # Len(journal)
        <5>1. i \in 1 .. Len(journal) - 1 /\ i + 1 \in 1 .. Len(journal)
          BY <1>2, <4>1, <4>3
        <5>2. journal'[i + 1] = journal[i + 1]
          BY <1>7, <5>1
        <5> QED BY <4>1, <5>1, <5>2 DEF Inv, JournalInv
      <4> QED BY <4>2, <4>3
    <3> QED BY <1>5, <3>1, <3>2, <3>3 DEF JournalInv
  <2> QED BY <2>2, <2>3
<1>11. IngressInv'
  <2>1. CASE outcome = "none"
    <3>1. committed
      BY <2>1 DEF append
    <3>2. Len(journal') = stamped' /\ Len(journal') > 0 /\ ingress'.command = journal'[Len(journal')]
      BY <1>2, <1>3, <1>5, <1>6, <1>7, <2>1, <3>1
    <3> QED BY <1>1, <1>3, <1>5, <2>1, <3>2 DEF Inv, IngressInv
  <2>2. CASE outcome # "none"
    BY <1>1, <1>3, <1>5, <2>2 DEF Inv, IngressInv
  <2> QED BY <2>1, <2>2
<1>12. applied' = applied /\ released' = released /\ StreamInv'
  BY <1>1, StreamFrame
<1>13. QueueInv'
  BY <1>1, <1>2, <1>3, <1>5, <1>7, <1>12 DEF Inv, QueueInv, append
<1>14. EngineInv' /\ MatchingInv'
  BY <1>1, <1>2, <1>7, <1>12 DEF Inv, EngineInv, MatchingInv
<1>15. RuntimeInv'
  BY <1>1, <1>5, <1>8 DEF Inv, RuntimeInv, Observed
<1> QED BY <1>9, <1>10, <1>11, <1>12, <1>13, <1>14, <1>15 DEF Inv

\* The command becomes visible to the matcher once it is in the journal, and the
\* queue has the slot that was checked before the stamp.
LEMMA PushCommandInv ==
  ASSUME Inv, push_command
  PROVE  Inv'
<1>1. /\ ingress.phase = "push"
      /\ UNCHANGED <<journal, matching, engine, event_queue, published, bbo, saved>>
  BY DEF push_command
<1>2. /\ ingress \in Ingress
      /\ journal \in Seq(Command) /\ command_queue \in Seq(Command)
      /\ Len(journal) \in Nat /\ Len(command_queue) \in Nat
  BY DEF Inv, TypeOK
<1>3. /\ Len(command_queue) < CommandCapacity
      /\ Len(journal) > 0 /\ ingress.command = journal[Len(journal)]
      /\ Len(journal) = stamped
      /\ ~ingress.recovery_required /\ ~ingress.stopped
  BY <1>1 DEF Inv, IngressInv
<1>4. ingress.command \in Command
  BY <1>2, <1>3
<1>5. /\ command_queue' = Append(command_queue, ingress.command)
      /\ ingress' = [ingress EXCEPT !.phase = "idle", !.command = NoCommand, !.stopped = FALSE]
      /\ runtime' = observe_ingress("progress")
  BY <1>3 DEF push_command
<1>6. /\ ingress' \in Ingress
      /\ ingress'.phase = "idle"
      /\ ~ingress'.recovery_required /\ ~ingress'.stopped
      /\ ingress'.exhausted = ingress.exhausted
      /\ ingress'.next_sequence = ingress.next_sequence
      /\ ingress'.last_logical_time = ingress.last_logical_time
  BY <1>2, <1>3, <1>5 DEF Ingress
<1>7. /\ command_queue' \in Seq(Command)
      /\ Len(command_queue') = Len(command_queue) + 1
      /\ \A i \in 1 .. Len(command_queue) : command_queue'[i] = command_queue[i]
      /\ command_queue'[Len(command_queue) + 1] = ingress.command
      /\ command_queue' # <<>>
  BY <1>2, <1>4, <1>5
<1>8. Observed(runtime')
  BY <1>5, Observes DEF Inv
<1>9. TypeOK'
  <2>1. Len(command_queue') <= CommandCapacity
    BY <1>2, <1>3, <1>7, CapacitiesAssumption
  <2> QED BY <1>1, <1>6, <1>7, <1>8, <2>1 DEF Inv, TypeOK, Observed
<1>10. stamped' = stamped
  BY <1>6 DEF stamped
<1>11. JournalInv' /\ IngressInv'
  BY <1>1, <1>3, <1>6, <1>10 DEF Inv, JournalInv, IngressInv
<1>12. applied' = applied /\ released' = released /\ StreamInv'
  BY <1>1, StreamFrame
<1>13. QueueInv'
  <2>1. released \in Nat /\ released + Len(command_queue) = Len(journal) - 1
    BY <1>1 DEF Inv, QueueInv
  <2>2. ASSUME NEW i \in 1 .. Len(command_queue')
        PROVE  command_queue'[i] = journal[released + i]
    <3>1. CASE i \in 1 .. Len(command_queue)
      BY <1>7, <3>1 DEF Inv, QueueInv
    <3>2. CASE i = Len(command_queue) + 1
      <4>1. released + i = Len(journal)
        BY <1>2, <2>1, <3>2
      <4> QED BY <1>3, <1>7, <3>2, <4>1
    <3> QED BY <1>2, <1>7, <3>1, <3>2
  <2> QED BY <1>1, <1>2, <1>6, <1>7, <1>12, <2>1, <2>2 DEF QueueInv
<1>14. EngineInv'
  BY <1>1, <1>12 DEF Inv, EngineInv
<1>15. MatchingInv'
  <2>1. ASSUME command_queue # <<>> PROVE command_queue'[1] = command_queue[1]
    <3>1. 1 \in 1 .. Len(command_queue)
      BY <1>2, <2>1
    <3> QED BY <1>7, <3>1
  <2>2. matching.phase # "idle" \/ matching.poisoned =>
          command_queue' # <<>> /\ matching.command = command_queue'[1]
    BY <1>7, <2>1 DEF Inv, MatchingInv
  <2> QED BY <1>1, <1>12, <2>2 DEF Inv, MatchingInv
<1>16. RuntimeInv'
  BY <1>1, <1>8 DEF Inv, RuntimeInv, Observed
<1> QED BY <1>9, <1>11, <1>12, <1>13, <1>14, <1>15, <1>16 DEF Inv

-----------------------------------------------------------------------------
(* MatchingStage.                                                          *)

\* The number of applied commands is that of the journal's records at most, and
\* the command at the head of the queue is the one the engine has to apply next,
\* or has just applied.
LEMMA HeadOfQueue ==
  ASSUME Inv
  PROVE  /\ applied \in 0 .. LastSequence
         /\ command_queue # <<>> =>
              /\ command_queue[1] \in Command
              /\ command_queue[1] = journal[released + 1]
              /\ command_queue[1].sequence = released + 1
              /\ released + 1 <= Len(journal)
              /\ released + 1 <= LastSequence
<1>1. /\ journal \in Seq(Command) /\ command_queue \in Seq(Command) /\ engine \in Engine
      /\ Len(journal) \in Nat /\ Len(command_queue) \in Nat
  BY DEF Inv, TypeOK
<1>2. applied \in 0 .. LastSequence
  BY <1>1, CapacitiesAssumption DEF applied, Engine
<1>3. CASE command_queue # <<>>
  <2>1. Len(command_queue) > 0 /\ command_queue[1] \in Command
    BY <1>1, <1>3
  <2>2. /\ released \in Nat /\ released + Len(command_queue) <= Len(journal)
        /\ command_queue[1] = journal[released + 1]
    BY <1>1, <2>1 DEF Inv, QueueInv
  <2>3. command_queue[1].sequence = released + 1 /\ released + 1 <= Len(journal)
    BY <1>1, <2>1, <2>2 DEF Inv, JournalInv
  <2>4. command_queue[1].sequence \in 1 .. LastSequence
    BY <2>1 DEF Command
  <2> QED BY <1>2, <2>1, <2>2, <2>3, <2>4, CapacitiesAssumption
<1> QED BY <1>2, <1>3

\* A step of process_one that leaves queues, journal and engine alone.
LEMMA MatchingFrame ==
  ASSUME Inv, UNCHANGED <<ingress, journal, command_queue, engine, event_queue, published>>
  PROVE  /\ JournalInv' /\ IngressInv'
         /\ applied' = applied
         /\ released' = released => QueueInv' /\ EngineInv'
         /\ stream' = stream /\ streamed' = streamed
         /\ pushed_events' = pushed_events /\ reflected' = bbo' /\ saved' <= released' => StreamInv'
<1>1. JournalInv' /\ IngressInv'
  BY DEF Inv, JournalInv, IngressInv, stamped
<1>2. applied' = applied
  BY DEF applied
<1>3. released' = released => QueueInv' /\ EngineInv'
  BY <1>2 DEF Inv, QueueInv, EngineInv
<1>4. stream' = stream /\ streamed' = streamed
  BY DEF stream, streamed
<1>5. pushed_events' = pushed_events /\ reflected' = bbo' /\ saved' <= released' => StreamInv'
  BY <1>4 DEF Inv, StreamInv, EventsInOrder
<1> QED BY <1>1, <1>2, <1>3, <1>4, <1>5

\* The command at the head of the queue passes every check of the engine: what
\* process_one may meet is backpressure.
LEMMA PreflightPasses ==
  ASSUME Inv, matching.phase = "idle", ~matching.poisoned, command_queue # <<>>,
         NEW required \in {1, MaximumEvents}
  PROVE  /\ preflight_status(Head(command_queue), required) \in {"apply", "output_backpressure"}
         /\ preflight_status(Head(command_queue), required) = "apply" =>
              Len(event_queue) + required <= EventCapacity
<1>1. /\ journal \in Seq(Command) /\ command_queue \in Seq(Command) /\ event_queue \in Seq(Event)
      /\ engine \in Engine /\ Len(event_queue) \in Nat
  BY DEF Inv, TypeOK
<1>2. released = applied
  BY DEF released, holding
<1>3. Head(command_queue) = command_queue[1]
  BY <1>1
<1>4. /\ command_queue[1] \in Command
      /\ command_queue[1] = journal[applied + 1]
      /\ command_queue[1].sequence = applied + 1
      /\ applied + 1 <= Len(journal) /\ applied + 1 <= LastSequence
      /\ applied \in 0 .. LastSequence
  BY <1>2, HeadOfQueue
<1>5. ~engine.exhausted /\ engine.next_sequence = applied + 1
  BY <1>1, <1>4, CapacitiesAssumption DEF applied, Engine
<1>6. engine.last_logical_time <= command_queue[1].logical_time
  <2>1. engine.last_logical_time = IF applied = 0 THEN 0 ELSE journal[applied].logical_time
    BY DEF Inv, EngineInv
  <2>2. command_queue[1].logical_time \in Nat
    BY <1>4, TimesAreNumbers DEF Command
  <2>3. CASE applied = 0
    BY <2>1, <2>2, <2>3
  <2>4. CASE applied # 0
    <3>1. applied \in 1 .. Len(journal) - 1
      BY <1>1, <1>4, <2>4
    <3>2. journal[applied].logical_time <= journal[applied + 1].logical_time
      BY <3>1 DEF Inv, JournalInv
    <3> QED BY <1>4, <2>1, <2>4, <3>2
  <2> QED BY <2>3, <2>4
<1>7. ~(command_queue[1].logical_time < engine.last_logical_time)
  <2>1. command_queue[1].logical_time \in Nat /\ engine.last_logical_time \in Nat
    BY <1>1, <1>4, TimesAreNumbers DEF Command, Engine
  <2> QED BY <1>6, <2>1
<1>8. ~(required > MaximumEvents \/ required > EventCapacity)
  BY CapacitiesAssumption, MatchingStageAssumption
<1>9. ~(events_available < required) => Len(event_queue) + required <= EventCapacity
  BY <1>1, CapacitiesAssumption DEF events_available
<1> QED BY <1>3, <1>4, <1>5, <1>7, <1>8, <1>9 DEF preflight_status

\* process_one that found room takes the command in hand; otherwise it comes back.
LEMMA ProcessOneInv ==
  ASSUME Inv, NEW required \in {1, MaximumEvents}, process_one(required)
  PROVE  Inv'
<1> DEFINE status == preflight_status(Head(command_queue), required)
<1>1. /\ matching.phase = "idle" /\ ~matching.poisoned /\ command_queue # <<>>
      /\ UNCHANGED <<ingress, journal, command_queue, engine, event_queue, published, bbo, saved>>
      /\ runtime' = observe_matching(status)
  BY DEF process_one
<1>2. /\ matching \in Matching /\ command_queue \in Seq(Command) /\ required \in 0 .. MaximumEvents
  BY CapacitiesAssumption DEF Inv, TypeOK, Matching
<1>3. Head(command_queue) = command_queue[1] /\ command_queue[1] \in Command
  BY <1>1, <1>2
<1>4. /\ status \in {"apply", "output_backpressure"}
      /\ status = "apply" => Len(event_queue) + required <= EventCapacity
  BY <1>1, PreflightPasses
<1> HIDE DEF status
<1>5. matching' = IF status = "apply"
                  THEN [matching EXCEPT !.phase = "apply", !.command = command_queue[1],
                                        !.required = required]
                  ELSE [matching EXCEPT !.required = required]
  BY <1>3, <1>4 DEF process_one, status
<1>6. /\ matching' \in Matching
      /\ ~matching'.poisoned
      /\ matching'.phase \in {"idle", "apply"}
      /\ matching'.phase = "apply" => /\ status = "apply"
                                      /\ matching'.command = command_queue[1]
                                      /\ matching'.required = required
  BY <1>1, <1>2, <1>3, <1>5 DEF Matching
<1>7. Observed(runtime')
  BY <1>1, Observes DEF Inv
<1>8. TypeOK'
  BY <1>1, <1>6, <1>7 DEF Inv, TypeOK, Observed
<1>9. /\ JournalInv' /\ IngressInv' /\ applied' = applied
      /\ released' = released => QueueInv' /\ EngineInv'
      /\ pushed_events' = pushed_events /\ reflected' = bbo' /\ saved' <= released' => StreamInv'
  BY <1>1, MatchingFrame
<1>10. /\ released' = released /\ pushed_events' = pushed_events /\ reflected' = reflected
  BY <1>1, <1>6, <1>9 DEF released, holding, pushed_events, reflected
<1>11. QueueInv' /\ EngineInv' /\ StreamInv'
  BY <1>1, <1>9, <1>10 DEF Inv, StreamInv
<1>12. MatchingInv'
  BY <1>1, <1>4, <1>6 DEF MatchingInv
<1>13. RuntimeInv'
  BY <1>1, <1>7 DEF Inv, RuntimeInv, Observed
<1> QED BY <1>8, <1>9, <1>11, <1>12, <1>13 DEF Inv

\* SequencedEngine::apply consumes the sequence of the command at the head of the
\* queue; the matcher is poisoned by a wrong number of events and by nothing else.
LEMMA ApplyInv ==
  ASSUME Inv, NEW event_count \in 1 .. (MaximumEvents + Excess), apply(event_count)
  PROVE  Inv'
<1>1. /\ matching.phase = "apply" /\ event_count <= matching.required + Excess
      /\ engine' = applied_engine(event_count)
      /\ UNCHANGED <<ingress, journal, command_queue, event_queue, published, bbo, saved>>
  BY DEF apply
<1>2. /\ matching \in Matching /\ engine \in Engine /\ ingress \in Ingress
      /\ journal \in Seq(Command) /\ command_queue \in Seq(Command)
      /\ Len(journal) \in Nat /\ Len(command_queue) \in Nat /\ Len(event_queue) \in Nat
      /\ event_count \in Nat /\ event_count > 0
  BY CapacitiesAssumption DEF Inv, TypeOK
<1>3. /\ ~matching.poisoned /\ command_queue # <<>> /\ matching.command = command_queue[1]
      /\ Len(event_queue) + matching.required <= EventCapacity
  BY <1>1 DEF Inv, MatchingInv
<1>4. released = applied
  BY <1>1, <1>3 DEF released, holding
<1>5. /\ matching.command \in Command
      /\ matching.command = journal[applied + 1]
      /\ matching.command.sequence = applied + 1
      /\ applied \in 0 .. LastSequence /\ applied + 1 <= LastSequence
      /\ applied + 1 <= Len(journal)
  BY <1>3, <1>4, HeadOfQueue
<1>6. ~engine.exhausted /\ engine.next_sequence = applied + 1
  BY <1>2, <1>5, CapacitiesAssumption DEF applied, Engine
<1>7. /\ engine'.next_sequence = IF applied + 1 = LastSequence THEN LastSequence ELSE applied + 2
      /\ engine'.last_logical_time = journal[applied + 1].logical_time
      /\ engine'.exhausted = (applied + 1 = LastSequence)
      /\ engine'.produced = Append(engine.produced, event_count)
      /\ engine' \in Engine
  <2>1. matching.command.logical_time \in LogicalTimes \union {0}
    BY <1>5 DEF Command
  <2>2. engine.produced \in Seq(Nat)
    BY <1>2 DEF Engine
  <2>3. engine.next_sequence + 1 = applied + 2
    BY <1>5, <1>6
  <2> DEFINE following == IF applied + 1 = LastSequence THEN LastSequence ELSE applied + 2
             last == applied + 1 = LastSequence
             time == matching.command.logical_time
             more == Append(engine.produced, event_count)
  <2>4. following \in 1 .. LastSequence /\ last \in BOOLEAN /\ more \in Seq(Nat)
    BY <1>2, <1>5, <2>2, CapacitiesAssumption
  <2>5. engine' = [next_sequence |-> following, last_logical_time |-> time, exhausted |-> last,
                   produced |-> more]
    BY <1>1, <1>6, <2>3 DEF applied_engine
  <2>6. time = journal[applied + 1].logical_time
    BY <1>5
  <2> HIDE DEF following, last, time, more
  <2>7. /\ engine' \in Engine /\ engine'.next_sequence = following /\ engine'.exhausted = last
        /\ engine'.last_logical_time = time /\ engine'.produced = more
    BY <2>1, <2>4, <2>5 DEF Engine, time
  <2> QED BY <2>6, <2>7 DEF following, last, more
<1>8. applied' = applied + 1
  <2>1. applied' = IF engine'.exhausted THEN LastSequence ELSE engine'.next_sequence - 1
    BY DEF applied
  <2>2. CASE applied + 1 = LastSequence
    BY <1>7, <2>1, <2>2
  <2>3. CASE applied + 1 # LastSequence
    <3>1. ~engine'.exhausted /\ engine'.next_sequence = applied + 2
      BY <1>7, <2>3
    <3> QED BY <1>5, <2>1, <3>1
  <2> QED BY <2>2, <2>3
<1>9. /\ engine.produced \in Seq(Nat) /\ Len(engine.produced) = applied
      /\ Len(engine'.produced) = applied + 1
      /\ engine'.produced[applied + 1] = event_count
      /\ \A k \in 1 .. applied : engine'.produced[k] = engine.produced[k]
  <2>1. engine.produced \in Seq(Nat) /\ Len(engine.produced) = applied
    BY <1>2 DEF Inv, EngineInv, Engine
  <2> QED BY <1>2, <1>7, <2>1
<1>10. /\ matching' \in Matching
       /\ matching'.command = matching.command
       /\ \/ matching'.phase = "idle" /\ matching'.poisoned /\ Excess > 0
          \/ /\ matching'.phase = "push" /\ ~matching'.poisoned
             /\ event_count <= matching.required
             /\ matching'.batch = events(event_count)
  <2>1. CASE event_count \notin 1 .. matching.required
    <3>1. matching' = poison
      BY <2>1 DEF apply
    <3>2. Excess > 0
      BY <1>1, <1>2, <2>1, CapacitiesAssumption DEF Matching
    <3>3. <<>> \in Seq(Event)
      OBVIOUS
    <3>4. matching' \in Matching
      BY <1>2, <3>1, <3>3 DEF poison, Matching
    <3>5. /\ matching'.command = matching.command
          /\ matching'.phase = "idle" /\ matching'.poisoned
      BY <1>2, <3>1 DEF poison, Matching
    <3> QED BY <3>2, <3>4, <3>5
  <2>2. CASE event_count \in 1 .. matching.required
    <3>1. matching' = [matching EXCEPT !.phase = "push", !.batch = events(event_count)]
      BY <2>2 DEF apply
    <3>2. events(event_count) \in Seq(Event)
      <4>1. ASSUME NEW i \in 1 .. event_count
            PROVE  [command_sequence |-> matching.command.sequence, event_index |-> i - 1] \in Event
        BY <1>2, <1>5, <4>1 DEF Command, Event
      <4> QED BY <1>2, <4>1 DEF events
    <3> DEFINE batch == events(event_count)
    <3> HIDE DEF batch
    <3>3. matching' = [matching EXCEPT !.phase = "push", !.batch = batch] /\ batch \in Seq(Event)
      BY <3>1, <3>2 DEF batch
    <3>4. matching' \in Matching
      BY <1>2, <3>3 DEF Matching
    <3>5. /\ matching'.command = matching.command /\ matching'.batch = batch
          /\ matching'.phase = "push" /\ matching'.poisoned = matching.poisoned
      BY <1>2, <3>3 DEF Matching
    <3>6. event_count <= matching.required
      BY <2>2
    <3> QED BY <1>3, <3>4, <3>5, <3>6 DEF batch
  <2> QED BY <2>1, <2>2
<1>11. Observed(runtime')
  BY Observes DEF apply, Inv, Observed, TypeOK, Runtime
<1>12. TypeOK'
  BY <1>1, <1>7, <1>10, <1>11 DEF Inv, TypeOK, Observed
<1>13. released' = released /\ pushed_events' = pushed_events /\ reflected' = reflected
  BY <1>1, <1>3, <1>5, <1>8, <1>10 DEF released, holding, pushed_events, reflected
<1>14. JournalInv' /\ IngressInv' /\ QueueInv'
  BY <1>1, <1>13 DEF Inv, JournalInv, IngressInv, QueueInv, stamped
<1>15. EngineInv'
  <2>1. engine'.exhausted => engine'.next_sequence = LastSequence
    BY <1>7
  <2>2. \A k \in 1 .. applied' : engine'.produced[k] > 0
    <3>1. ASSUME NEW k \in 1 .. applied PROVE engine'.produced[k] > 0
      BY <1>9, <3>1 DEF Inv, EngineInv
    <3> QED BY <1>2, <1>5, <1>8, <1>9, <3>1
  <2> QED BY <1>1, <1>5, <1>7, <1>8, <1>9, <2>1, <2>2 DEF EngineInv
<1>16. MatchingInv'
  <2>1. ASSUME matching'.phase = "push"
        PROVE  /\ Len(event_queue) + event_count <= EventCapacity
               /\ matching'.batch = [i \in 1 .. event_count |->
                                       [command_sequence |-> applied + 1, event_index |-> i - 1]]
    BY <1>2, <1>3, <1>5, <1>10, <2>1, CapacitiesAssumption DEF events, Matching
  <2> QED BY <1>1, <1>3, <1>8, <1>9, <1>10, <2>1 DEF MatchingInv
<1>17. StreamInv'
  <2>1. stream' = stream /\ streamed' = streamed
    BY <1>1 DEF stream, streamed
  <2>2. pushed_events = applied
    BY <1>1, <1>3 DEF pushed_events
  <2>3. \A i \in DOMAIN stream :
          engine'.produced[stream[i].command_sequence] = engine.produced[stream[i].command_sequence]
    <3>1. stream \in Seq(Event)
      BY DEF Inv, TypeOK, stream
    <3>2. ASSUME NEW i \in DOMAIN stream PROVE stream[i].command_sequence \in 1 .. applied
      <4>1. i \in 1 .. Len(stream) /\ stream[i] \in Event
        BY <3>1, <3>2
      <4>2. stream[i].command_sequence <= applied
        BY <2>2, <4>1 DEF Inv, StreamInv
      <4> QED BY <1>5, <4>1, <4>2 DEF Event
    <3> QED BY <1>9, <3>2
  <2>4. EventsInOrder'
    BY <2>1, <2>3 DEF Inv, StreamInv, EventsInOrder
  <2> QED BY <1>1, <1>13, <2>1, <2>4 DEF Inv, StreamInv
<1>18. RuntimeInv'
  BY <1>1, <1>11 DEF Inv, RuntimeInv, Observed
<1> QED BY <1>12, <1>14, <1>15, <1>16, <1>17, <1>18 DEF Inv

\* EventsInOrder, taken apart: the first and the last event, and how one event
\* follows another.
Begins(events_) == events_[1] = [command_sequence |-> 1, event_index |-> 0]

Complete(event, produced) == event.event_index + 1 = produced[event.command_sequence]

Follows(event, next, produced) ==
  next = IF Complete(event, produced)
         THEN [command_sequence |-> event.command_sequence + 1, event_index |-> 0]
         ELSE [event EXCEPT !.event_index = @ + 1]

Ordered(events_, produced) ==
  /\ Len(events_) > 0 => Begins(events_) /\ Complete(events_[Len(events_)], produced)
  /\ \A i \in 1 .. Len(events_) - 1 : Follows(events_[i], events_[i + 1], produced)

\* The events of one command
BatchOf(batch, command, produced) ==
  /\ Len(batch) = produced[command] /\ Len(batch) > 0
  /\ \A j \in 1 .. Len(batch) : batch[j] = [command_sequence |-> command, event_index |-> j - 1]

\* The first, the last and neighbouring events of a batch.
LEMMA BatchEvents ==
  ASSUME NEW batch \in Seq(Event), NEW command \in Nat, NEW produced,
         BatchOf(batch, command, produced)
  PROVE  /\ batch[1] = [command_sequence |-> command, event_index |-> 0]
         /\ Complete(batch[Len(batch)], produced)
         /\ \A j \in 1 .. Len(batch) : batch[j].command_sequence = command
         /\ \A j \in 1 .. Len(batch) - 1 : Follows(batch[j], batch[j + 1], produced)
<1>1. Len(batch) \in Nat
  OBVIOUS
<1>2. /\ Len(batch) = produced[command] /\ Len(batch) > 0
      /\ \A j \in 1 .. Len(batch) :
           batch[j] = [command_sequence |-> command, event_index |-> j - 1]
  BY Zenon DEF BatchOf
<1>3. batch[1] = [command_sequence |-> command, event_index |-> 0]
  <2>1. 1 \in 1 .. Len(batch) /\ 1 - 1 = 0
    BY <1>1, <1>2
  <2>2. batch[1] = [command_sequence |-> command, event_index |-> 1 - 1]
    BY <1>2, <2>1, Zenon
  <2> QED BY <2>1, <2>2
<1>4. Complete(batch[Len(batch)], produced)
  <2>1. Len(batch) \in 1 .. Len(batch) /\ (Len(batch) - 1) + 1 = Len(batch)
    BY <1>1, <1>2
  <2>2. batch[Len(batch)] = [command_sequence |-> command, event_index |-> Len(batch) - 1]
    BY <1>2, <2>1, Zenon
  <2>3. /\ batch[Len(batch)].command_sequence = command
        /\ batch[Len(batch)].event_index = Len(batch) - 1
    BY <2>2
  <2> QED BY <1>2, <2>1, <2>3 DEF Complete
<1>5. ASSUME NEW j \in 1 .. Len(batch) PROVE batch[j].command_sequence = command
  <2>1. batch[j] = [command_sequence |-> command, event_index |-> j - 1]
    BY <1>2, Zenon
  <2> QED BY <2>1
<1>6. ASSUME NEW j \in 1 .. Len(batch) - 1
      PROVE  Follows(batch[j], batch[j + 1], produced)
  <2>1. j \in 1 .. Len(batch) /\ j + 1 \in 1 .. Len(batch) /\ (j + 1) - 1 = j /\ j # Len(batch)
    BY <1>1
  <2>2. /\ batch[j] = [command_sequence |-> command, event_index |-> j - 1]
        /\ batch[j + 1] = [command_sequence |-> command, event_index |-> j]
    BY <1>2, <2>1
  <2>3. ~Complete(batch[j], produced)
    BY <1>2, <2>1, <2>2 DEF Complete
  <2>4. batch[j + 1] = [batch[j] EXCEPT !.event_index = @ + 1]
    BY <2>1, <2>2
  <2> QED BY <2>3, <2>4 DEF Follows
<1> QED BY <1>3, <1>4, <1>5, <1>6

\* A batch pushed whole extends the stream by the events of the next command: the
\* last event before it is the last one of the command before.
LEMMA BatchExtends ==
  ASSUME NEW old \in Seq(Event), NEW batch \in Seq(Event), NEW command \in Nat, NEW produced,
         Ordered(old, produced), BatchOf(batch, command, produced),
         Len(old) = 0 => command = 1,
         Len(old) > 0 => old[Len(old)].command_sequence = command - 1
  PROVE  /\ Ordered(old \o batch, produced)
         /\ \A i \in 1 .. Len(old) : (old \o batch)[i] = old[i]
         /\ \A i \in 1 .. Len(old \o batch) :
              i > Len(old) => (old \o batch)[i].command_sequence = command
<1> DEFINE new == old \o batch
<1>1. Len(old) \in Nat /\ Len(batch) \in Nat /\ Len(new) = Len(old) + Len(batch) /\ Len(batch) > 0
  <2>1. Len(old) \in Nat /\ Len(batch) \in Nat
    OBVIOUS
  <2>2. Len(new) = Len(old) + Len(batch)
    BY Concatenation, Zenon
  <2>3. Len(batch) > 0
    BY Zenon DEF BatchOf
  <2> QED BY <2>1, <2>2, <2>3
<1>2. \A i \in 1 .. Len(old) + Len(batch) :
        new[i] = IF i <= Len(old) THEN old[i] ELSE batch[i - Len(old)]
  BY Concatenation, Zenon
<1> HIDE DEF new
<1>3. \A i \in 1 .. Len(old) : new[i] = old[i]
  BY <1>1, <1>2
<1>4. ASSUME NEW j \in 1 .. Len(batch) PROVE new[Len(old) + j] = batch[j]
  <2>1. /\ Len(old) + j \in 1 .. Len(old) + Len(batch) /\ ~(Len(old) + j <= Len(old))
        /\ (Len(old) + j) - Len(old) = j
    BY <1>1
  <2> QED BY <1>2, <2>1
<1>5. /\ batch[1] = [command_sequence |-> command, event_index |-> 0]
      /\ Complete(batch[Len(batch)], produced)
      /\ \A j \in 1 .. Len(batch) : batch[j].command_sequence = command
      /\ \A j \in 1 .. Len(batch) - 1 : Follows(batch[j], batch[j + 1], produced)
  BY BatchEvents
<1>6. Begins(new)
  <2>1. CASE Len(old) = 0
    <3>1. new[1] = batch[1]
      BY <1>1, <1>4, <2>1
    <3> QED BY <1>5, <2>1, <3>1 DEF Begins
  <2>2. CASE Len(old) > 0
    <3>1. 1 \in 1 .. Len(old)
      BY <1>1, <2>2
    <3> QED BY <1>3, <2>2, <3>1 DEF Begins, Ordered
  <2> QED BY <1>1, <2>1, <2>2
<1>7. Complete(new[Len(new)], produced)
  <2>1. Len(batch) \in 1 .. Len(batch)
    BY <1>1
  <2>2. new[Len(new)] = batch[Len(batch)]
    BY <1>1, <1>4, <2>1
  <2> QED BY <1>5, <2>2
<1>8. ASSUME NEW i \in 1 .. Len(new) - 1 PROVE Follows(new[i], new[i + 1], produced)
  <2>1. CASE i < Len(old)
    <3>1. i \in 1 .. Len(old) - 1 /\ i \in 1 .. Len(old) /\ i + 1 \in 1 .. Len(old)
      BY <1>1, <2>1
    <3> QED BY <1>3, <3>1 DEF Ordered
  <2>2. CASE i = Len(old)
    <3>1. /\ i \in 1 .. Len(old) /\ 1 \in 1 .. Len(batch) /\ Len(old) > 0
      BY <1>1, <2>2
    <3>2. new[i] = old[Len(old)] /\ new[i + 1] = batch[1]
      BY <1>3, <1>4, <2>2, <3>1
    <3>3. Complete(new[i], produced) /\ new[i].command_sequence = command - 1
      BY <3>1, <3>2 DEF Ordered
    <3>4. new[i].command_sequence + 1 = command
      BY <3>3
    <3> QED BY <1>5, <3>2, <3>3, <3>4 DEF Follows
  <2>3. CASE i > Len(old)
    <3> DEFINE j == i - Len(old)
    <3>1. /\ j \in 1 .. Len(batch) - 1 /\ j \in 1 .. Len(batch) /\ j + 1 \in 1 .. Len(batch)
          /\ i = Len(old) + j /\ i + 1 = Len(old) + (j + 1)
      BY <1>1, <2>3
    <3> HIDE DEF j
    <3>2. new[i] = batch[j] /\ new[i + 1] = batch[j + 1]
      BY <1>4, <3>1
    <3>3. Follows(batch[j], batch[j + 1], produced)
      BY <1>5, <3>1
    <3> QED BY <3>2, <3>3
  <2> QED BY <1>1, <2>1, <2>2, <2>3
<1>9. ASSUME NEW i \in 1 .. Len(new), i > Len(old) PROVE new[i].command_sequence = command
  <2>1. i - Len(old) \in 1 .. Len(batch) /\ i = Len(old) + (i - Len(old))
    BY <1>1, <1>9
  <2>2. new[i] = batch[i - Len(old)]
    BY <1>4, <2>1
  <2> QED BY <1>5, <2>1, <2>2
<1>10. Ordered(new, produced)
  BY <1>6, <1>7, <1>8 DEF Ordered
<1> QED BY <1>3, <1>9, <1>10 DEF new

\* The stream is a sequence of events, and what it ends with is streamed.
LEMMA StreamType ==
  ASSUME Inv
  PROVE  /\ stream \in Seq(Event) /\ Len(stream) \in Nat
         /\ DOMAIN stream = 1 .. Len(stream)
         /\ \A i \in 1 .. Len(stream) : stream[i] \in Event
         /\ stream = <<>> => streamed = 0
         /\ stream # <<>> => Len(stream) > 0 /\ streamed = stream[Len(stream)].command_sequence
         /\ Ordered(stream, engine.produced)
<1>1. published \in Seq(Event) /\ event_queue \in Seq(Event)
  BY DEF Inv, TypeOK
<1>2. stream \in Seq(Event)
  BY <1>1, Concatenation DEF stream
<1>3. /\ stream = <<>> => streamed = 0
      /\ stream # <<>> => streamed = stream[Len(stream)].command_sequence
  BY DEF streamed
<1> HIDE DEF stream, streamed
<1>4. stream # <<>> => Len(stream) > 0
  BY <1>2
<1>5. Len(stream) \in Nat /\ DOMAIN stream = 1 .. Len(stream)
  BY <1>2
<1>6. Ordered(stream, engine.produced)
  <2>1. ASSUME Len(stream) > 0
        PROVE  Begins(stream) /\ Complete(stream[Len(stream)], engine.produced)
    <3>1. 1 \in DOMAIN stream /\ Len(stream) \in DOMAIN stream
      BY <1>5, <2>1
    <3> QED BY <3>1 DEF Inv, StreamInv, EventsInOrder, Begins, Complete
  <2>2. ASSUME NEW i \in 1 .. Len(stream) - 1
        PROVE  Follows(stream[i], stream[i + 1], engine.produced)
    <3>1. i \in DOMAIN stream /\ i < Len(stream)
      BY <1>5
    <3> QED BY <3>1 DEF Inv, StreamInv, EventsInOrder, Follows, Complete
  <2> QED BY <2>1, <2>2 DEF Ordered
<1> QED BY <1>2, <1>3, <1>4, <1>5, <1>6

\* A stream that is ordered in this sense satisfies EventsInOrder.
LEMMA OrderedStream ==
  ASSUME stream' \in Seq(Event), Ordered(stream', engine'.produced)
  PROVE  EventsInOrder'
<1> DEFINE str == stream'
<1>1. Len(str) \in Nat /\ DOMAIN str = 1 .. Len(str)
  OBVIOUS
<1>2. ASSUME NEW i \in DOMAIN str
      PROVE  /\ i = 1 => Begins(str)
             /\ i = Len(str) => Complete(str[i], engine'.produced)
             /\ i < Len(str) => Follows(str[i], str[i + 1], engine'.produced)
  <2>1. i \in 1 .. Len(str) /\ Len(str) > 0
    BY <1>1, <1>2
  <2>2. i < Len(str) => i \in 1 .. Len(str) - 1
    BY <1>1, <2>1
  <2> QED BY <2>1, <2>2 DEF Ordered
<1>3. (EventsInOrder)' <=>
        \A i \in DOMAIN str :
          /\ i = 1 => str[i] = [command_sequence |-> 1, event_index |-> 0]
          /\ i = Len(str) => Complete(str[i], engine'.produced)
          /\ i < Len(str) => Follows(str[i], str[i + 1], engine'.produced)
  BY DEF EventsInOrder, Complete, Follows
<1> QED BY <1>2, <1>3 DEF Begins

\* The whole batch enters the event queue: the room that was checked before the
\* engine applied the command has only grown.
LEMMA PushEventsInv ==
  ASSUME Inv, push_events
  PROVE  Inv'
<1> DEFINE count == engine.produced[applied]
           batch == matching.batch
<1>1. /\ matching.phase = "push"
      /\ UNCHANGED <<ingress, journal, command_queue, engine, published, bbo, saved>>
  BY DEF push_events
<1>2. /\ matching \in Matching /\ engine \in Engine /\ batch \in Seq(Event)
      /\ event_queue \in Seq(Event) /\ published \in Seq(Event)
      /\ Len(event_queue) \in Nat
  BY DEF Inv, TypeOK, Matching
<1>3. /\ ~matching.poisoned /\ command_queue # <<>> /\ matching.command = command_queue[1]
      /\ Len(event_queue) + count <= EventCapacity
      /\ batch = [i \in 1 .. count |-> [command_sequence |-> applied, event_index |-> i - 1]]
  BY <1>1 DEF Inv, MatchingInv
<1>4. /\ released = applied - 1 /\ pushed_events = applied - 1 /\ reflected = applied - 1
      /\ applied \in Nat /\ applied >= 1
  <2>1. released = applied - 1 /\ pushed_events = applied - 1 /\ reflected = applied - 1
    BY <1>1, <1>3 DEF released, holding, pushed_events, reflected
  <2>2. released \in Nat /\ applied \in 0 .. LastSequence
    BY HeadOfQueue DEF Inv, QueueInv
  <2> QED BY <2>1, <2>2, CapacitiesAssumption
<1>5. engine.produced \in Seq(Nat) /\ Len(engine.produced) = applied /\ count \in Nat /\ count > 0
  BY <1>2, <1>4 DEF Inv, EngineInv, Engine
<1>6. /\ Len(batch) = count
      /\ \A j \in 1 .. count : batch[j] = [command_sequence |-> applied, event_index |-> j - 1]
  BY <1>3, <1>5
<1>7. /\ event_queue' = event_queue \o batch
      /\ matching' = [matching EXCEPT !.phase = "publish", !.batch = <<>>]
      /\ UNCHANGED runtime
  BY <1>3, <1>6 DEF push_events
<1> HIDE DEF count, batch
<1>8. event_queue' \in Seq(Event) /\ Len(event_queue') = Len(event_queue) + count
  BY <1>2, <1>6, <1>7, Concatenation
<1>9. /\ matching' \in Matching /\ matching'.phase = "publish" /\ ~matching'.poisoned
      /\ matching'.command = matching.command
  <2>1. <<>> \in Seq(Event)
    OBVIOUS
  <2> QED BY <1>2, <1>3, <1>7, <2>1 DEF Matching
<1>10. TypeOK'
  BY <1>1, <1>3, <1>7, <1>8, <1>9 DEF Inv, TypeOK
<1>11. applied' = applied
  BY <1>1 DEF applied
<1>12. released' = released /\ pushed_events' = applied /\ reflected' = reflected
  BY <1>4, <1>9, <1>11 DEF released, holding, pushed_events, reflected
<1>13. JournalInv' /\ IngressInv' /\ QueueInv' /\ EngineInv'
  BY <1>1, <1>11, <1>12 DEF Inv, JournalInv, IngressInv, QueueInv, EngineInv, stamped
<1>14. MatchingInv'
  BY <1>1, <1>3, <1>9 DEF MatchingInv
<1>15. StreamInv'
  <2> DEFINE new == stream \o batch
  <2>1. stream' = new
    <3>1. stream' = published \o (event_queue \o batch)
      BY <1>1, <1>7 DEF stream
    <3>2. (published \o event_queue) \o batch = published \o (event_queue \o batch)
      BY <1>2, JoinThree
    <3> QED BY <3>1, <3>2 DEF stream
  <2>2. /\ stream \in Seq(Event) /\ Len(stream) \in Nat /\ Ordered(stream, engine.produced)
        /\ Len(stream) = 0 => applied = 1
        /\ Len(stream) > 0 => stream[Len(stream)].command_sequence = applied - 1
    <3>1. streamed = applied - 1
      BY <1>4 DEF Inv, StreamInv
    <3> QED BY <1>4, <3>1, StreamType
  <2>3. new \in Seq(Event) /\ Len(new) = Len(stream) + count
    BY <1>2, <1>6, <2>2, Concatenation
  <2>4. BatchOf(batch, applied, engine.produced)
    BY <1>5, <1>6 DEF BatchOf, count
  <2>5. /\ Ordered(new, engine.produced)
        /\ \A i \in 1 .. Len(stream) : new[i] = stream[i]
        /\ \A i \in 1 .. Len(new) : i > Len(stream) => new[i].command_sequence = applied
    BY <1>2, <1>4, <2>2, <2>4, BatchExtends
  <2> HIDE DEF new
  <2>6. EventsInOrder'
    BY <1>1, <2>1, <2>3, <2>5, OrderedStream
  <2>7. streamed' = applied
    <3>1. Len(new) \in 1 .. Len(new) /\ Len(new) > Len(stream) /\ new # <<>>
      BY <1>5, <2>2, <2>3
    <3> QED BY <2>1, <2>5, <3>1 DEF streamed
  <2>8. ASSUME NEW i \in 1 .. Len(new) PROVE new[i].command_sequence <= applied
    <3>1. CASE i > Len(stream)
      BY <1>4, <2>5, <3>1
    <3>2. CASE i <= Len(stream)
      <4>1. i \in 1 .. Len(stream)
        BY <2>2, <3>2
      <4>2. new[i] = stream[i] /\ stream[i] \in Event /\ stream[i].command_sequence <= applied - 1
        BY <1>4, <2>2, <2>5, <4>1 DEF Inv, StreamInv
      <4>3. stream[i].command_sequence \in Nat
        BY <4>2 DEF Event
      <4> QED BY <1>4, <4>2, <4>3
    <3> QED BY <2>2, <3>1, <3>2
  <2> QED BY <1>1, <1>12, <2>1, <2>6, <2>7, <2>8 DEF Inv, StreamInv
<1>16. RuntimeInv'
  BY <1>1, <1>3, <1>7 DEF Inv, RuntimeInv
<1> QED BY <1>10, <1>13, <1>14, <1>15, <1>16 DEF Inv

\* The best bid and offer follows the events of the same command.
LEMMA PublishBboInv ==
  ASSUME Inv, publish_bbo
  PROVE  Inv'
<1>1. /\ matching.phase = "publish" /\ bbo' = matching.command.sequence
      /\ matching' = [matching EXCEPT !.phase = "release"]
      /\ UNCHANGED <<ingress, journal, command_queue, engine, event_queue, published, saved, runtime>>
  BY DEF publish_bbo
<1>2. matching \in Matching
  BY DEF Inv, TypeOK
<1>3. ~matching.poisoned /\ command_queue # <<>> /\ matching.command = command_queue[1]
  BY <1>1 DEF Inv, MatchingInv
<1>4. /\ matching' \in Matching /\ matching'.phase = "release" /\ ~matching'.poisoned
      /\ matching'.command = matching.command
  BY <1>1, <1>2, <1>3 DEF Matching
<1>5. /\ JournalInv' /\ IngressInv' /\ applied' = applied
      /\ released' = released => QueueInv' /\ EngineInv'
      /\ pushed_events' = pushed_events /\ reflected' = bbo' /\ saved' <= released' => StreamInv'
  BY <1>1, MatchingFrame
<1>6. /\ released' = released /\ pushed_events' = pushed_events
      /\ released = applied - 1 /\ reflected' = applied
  BY <1>1, <1>3, <1>4, <1>5 DEF released, holding, pushed_events, reflected
<1>7. applied \in 0 .. LastSequence /\ bbo' = released + 1
  BY <1>1, <1>3, HeadOfQueue
<1>8. bbo' = applied
  BY <1>6, <1>7, CapacitiesAssumption
<1>9. QueueInv' /\ EngineInv' /\ StreamInv'
  BY <1>1, <1>5, <1>6, <1>8 DEF Inv, StreamInv
<1>10. TypeOK'
  BY <1>1, <1>4, <1>7, <1>8 DEF Inv, TypeOK
<1>11. MatchingInv'
  BY <1>1, <1>3, <1>4 DEF MatchingInv
<1>12. RuntimeInv'
  BY <1>1 DEF Inv, RuntimeInv
<1> QED BY <1>5, <1>9, <1>10, <1>11, <1>12 DEF Inv

\* The command is released last, and it is the one that was peeked.
LEMMA ReleaseInv ==
  ASSUME Inv, release_command
  PROVE  Inv'
<1>1. /\ matching.phase = "release"
      /\ UNCHANGED <<ingress, journal, engine, event_queue, published, bbo, saved>>
  BY DEF release_command
<1>2. /\ matching \in Matching /\ journal \in Seq(Command) /\ command_queue \in Seq(Command)
      /\ Len(journal) \in Nat /\ Len(command_queue) \in Nat
      /\ Len(command_queue) <= CommandCapacity
  BY DEF Inv, TypeOK
<1>3. ~matching.poisoned /\ command_queue # <<>> /\ matching.command = command_queue[1]
  BY <1>1 DEF Inv, MatchingInv
<1>4. Head(command_queue) = matching.command
  BY <1>2, <1>3
<1>5. /\ command_queue' = Tail(command_queue)
      /\ matching' = [matching EXCEPT !.phase = "idle", !.command = NoCommand, !.required = 0]
      /\ runtime' = observe_matching("progress")
  BY <1>3, <1>4 DEF release_command
<1>6. matching' \in Matching /\ matching'.phase = "idle" /\ ~matching'.poisoned
  <2>1. 0 \in 0 .. MaximumEvents
    BY CapacitiesAssumption
  <2>2. matching' \in Matching
    BY <1>2, <1>5, <2>1 DEF Matching
  <2>3. matching'.phase = "idle" /\ ~matching'.poisoned
    BY <1>2, <1>3, <1>5 DEF Matching
  <2> QED BY <2>2, <2>3
<1>7. /\ command_queue' \in Seq(Command) /\ Len(command_queue') = Len(command_queue) - 1
      /\ Len(command_queue') \in Nat
      /\ \A i \in 1 .. Len(command_queue') : command_queue'[i] = command_queue[i + 1]
  BY <1>2, <1>3, <1>5
<1>8. Observed(runtime')
  BY <1>5, Observes DEF Inv
<1>9. TypeOK'
  <2>1. Len(command_queue') <= CommandCapacity
    BY <1>2, <1>7, CapacitiesAssumption
  <2> QED BY <1>1, <1>6, <1>7, <1>8, <2>1 DEF Inv, TypeOK, Observed
<1>10. applied' = applied
  BY <1>1 DEF applied
<1>11. /\ released = applied - 1 /\ released' = applied
       /\ pushed_events' = pushed_events /\ reflected' = reflected
  BY <1>1, <1>3, <1>6, <1>10 DEF released, holding, pushed_events, reflected
<1>12. applied \in Nat /\ released \in Nat /\ applied = released + 1
  <2>1. applied \in 0 .. LastSequence /\ released \in Nat
    BY HeadOfQueue DEF Inv, QueueInv
  <2> QED BY <1>11, <2>1, CapacitiesAssumption
<1>13. JournalInv'
  BY <1>1 DEF Inv, JournalInv
<1>14. IngressInv'
  <2>1. Len(command_queue) < CommandCapacity => Len(command_queue') < CommandCapacity
    BY <1>2, <1>7, CapacitiesAssumption
  <2> QED BY <1>1, <2>1 DEF Inv, IngressInv, stamped
<1>15. QueueInv'
  <2>1. released' + Len(command_queue') = released + Len(command_queue)
    BY <1>2, <1>7, <1>11, <1>12
  <2>2. ASSUME NEW i \in 1 .. Len(command_queue')
        PROVE  command_queue'[i] = journal[released' + i]
    <3>1. i + 1 \in 1 .. Len(command_queue) /\ released + (i + 1) = released' + i
      BY <1>2, <1>7, <1>11, <1>12
    <3>2. command_queue[i + 1] = journal[released + (i + 1)]
      BY <3>1 DEF Inv, QueueInv
    <3> QED BY <1>7, <3>1, <3>2
  <2> QED BY <1>1, <1>11, <1>12, <2>1, <2>2 DEF Inv, QueueInv
<1>16. EngineInv'
  BY <1>1, <1>10 DEF Inv, EngineInv
<1>17. MatchingInv'
  BY <1>6 DEF MatchingInv
<1>18. StreamInv'
  <2>1. stream' = stream /\ streamed' = streamed
    BY <1>1 DEF stream, streamed
  <2>2. saved' <= released'
    <3>1. saved \in Nat /\ saved <= released
      BY CapacitiesAssumption DEF Inv, TypeOK, StreamInv
    <3> QED BY <1>1, <1>11, <1>12, <3>1
  <2> QED BY <1>1, <1>11, <2>1, <2>2 DEF Inv, StreamInv, EventsInOrder
<1>19. RuntimeInv'
  <2>1. command_queue = <<>> => command_queue' = <<>>
    BY <1>3
  <2> QED BY <1>1, <1>8, <2>1 DEF Inv, RuntimeInv, Observed
<1> QED BY <1>9, <1>13, <1>14, <1>15, <1>16, <1>17, <1>18, <1>19 DEF Inv

\* A snapshot is taken between two commands, and covers the applied ones.
LEMMA SaveSnapshotInv ==
  ASSUME Inv, save_snapshot
  PROVE  Inv'
<1>1. /\ matching.phase = "idle" /\ ~matching.poisoned
      /\ saved' = IF engine.exhausted THEN engine.next_sequence ELSE engine.next_sequence - 1
      /\ UNCHANGED <<ingress, journal, command_queue, matching, engine, event_queue, published, bbo,
                     runtime>>
  BY DEF save_snapshot
<1>2. saved' = applied /\ released = applied
  BY <1>1 DEF Inv, EngineInv, applied, released, holding
<1>3. applied \in 0 .. LastSequence
  BY HeadOfQueue
<1>4. TypeOK'
  BY <1>1, <1>2, <1>3 DEF Inv, TypeOK
<1>5. /\ applied' = applied /\ released' = released
      /\ pushed_events' = pushed_events /\ reflected' = reflected
  BY <1>1 DEF applied, released, holding, pushed_events, reflected
<1>6. /\ JournalInv' /\ IngressInv'
      /\ released' = released => QueueInv' /\ EngineInv'
      /\ pushed_events' = pushed_events /\ reflected' = bbo' /\ saved' <= released' => StreamInv'
  BY <1>1, MatchingFrame
<1>7. saved' <= released'
  BY <1>2, <1>3, <1>5, CapacitiesAssumption
<1>8. StreamInv'
  BY <1>1, <1>5, <1>6, <1>7 DEF Inv, StreamInv
<1>9. MatchingInv' /\ RuntimeInv'
  BY <1>1, <1>5 DEF Inv, MatchingInv, RuntimeInv
<1> QED BY <1>4, <1>5, <1>6, <1>8, <1>9 DEF Inv

-----------------------------------------------------------------------------
(* PublicationStage.                                                       *)

\* The head of the event queue becomes the last published event: the two together
\* are the same sequence.
LEMMA PopKeepsStream ==
  ASSUME NEW S, NEW front \in Seq(S), NEW back \in Seq(S), back # <<>>
  PROVE  Append(front, Head(back)) \o Tail(back) = front \o back
<1> DEFINE l == Append(front, Head(back)) \o Tail(back)
           r == front \o back
<1>1. Head(back) \in S /\ Tail(back) \in Seq(S) /\ Append(front, Head(back)) \in Seq(S)
  OBVIOUS
<1>2. l \in Seq(S) /\ r \in Seq(S)
  BY <1>1, Concatenation
<1>3. Len(l) = Len(r)
  BY <1>1
<1>4. \A i \in 1 .. Len(l) : l[i] = r[i]
  BY <1>1
<1> HIDE DEF l, r
<1> QED BY <1>2, <1>3, <1>4, SameElements DEF l, r

\* An event moves from the queue to what has been published, and the stream stays
\* the same.
LEMMA TryPopInv ==
  ASSUME Inv, try_pop
  PROVE  Inv'
<1>1. /\ event_queue # <<>>
      /\ published' = Append(published, Head(event_queue)) /\ event_queue' = Tail(event_queue)
      /\ UNCHANGED <<ingress, journal, command_queue, matching, engine, bbo, saved, runtime>>
  BY DEF try_pop
<1>2. /\ event_queue \in Seq(Event) /\ published \in Seq(Event)
      /\ Len(event_queue) \in Nat /\ Len(event_queue) <= EventCapacity
  BY DEF Inv, TypeOK
<1>3. /\ published' \in Seq(Event) /\ event_queue' \in Seq(Event)
      /\ Len(event_queue') = Len(event_queue) - 1 /\ Len(event_queue') \in Nat
  BY <1>1, <1>2
<1>4. Len(event_queue') <= EventCapacity
  BY <1>2, <1>3, CapacitiesAssumption
<1>5. TypeOK'
  BY <1>1, <1>3, <1>4 DEF Inv, TypeOK
<1>6. stream' = stream
  BY <1>1, <1>2, PopKeepsStream DEF stream
<1>7. streamed' = streamed
  BY <1>6 DEF streamed
<1>8. /\ applied' = applied /\ released' = released
      /\ pushed_events' = pushed_events /\ reflected' = reflected
  BY <1>1 DEF applied, released, holding, pushed_events, reflected
<1>9. JournalInv' /\ IngressInv' /\ QueueInv' /\ EngineInv'
  BY <1>1, <1>8 DEF Inv, JournalInv, IngressInv, QueueInv, EngineInv, stamped
<1>10. MatchingInv'
  <2>1. ASSUME NEW n \in Nat, Len(event_queue) + n <= EventCapacity
        PROVE  Len(event_queue') + n <= EventCapacity
    BY <1>2, <1>3, <2>1, CapacitiesAssumption
  <2>2. matching.required \in Nat
    BY CapacitiesAssumption DEF Inv, TypeOK, Matching
  <2>3. matching.phase = "push" => engine.produced[applied] \in Nat
    <3>1. ASSUME matching.phase = "push" PROVE applied \in 1 .. Len(engine.produced)
      <4>1. released = applied - 1 /\ released \in Nat /\ applied \in 0 .. LastSequence
        BY <3>1, HeadOfQueue DEF Inv, QueueInv, released, holding
      <4> QED BY <4>1, CapacitiesAssumption DEF Inv, EngineInv
    <3>2. engine.produced \in Seq(Nat)
      BY DEF Inv, TypeOK, Engine
    <3> QED BY <3>1, <3>2
  <2> QED BY <1>1, <1>8, <2>1, <2>2, <2>3 DEF Inv, MatchingInv
<1>11. StreamInv'
  BY <1>1, <1>6, <1>7, <1>8 DEF Inv, StreamInv, EventsInOrder
<1>12. RuntimeInv'
  BY <1>1 DEF Inv, RuntimeInv
<1> QED BY <1>5, <1>9, <1>10, <1>11, <1>12 DEF Inv

-----------------------------------------------------------------------------
(* The invariant of every behaviour.                                       *)

\* The three stages as they are constructed satisfy the invariant.
LEMMA InitInv == Init => Inv
<1> SUFFICES ASSUME Init PROVE Inv
  OBVIOUS
<1>1. /\ ingress \in Ingress /\ engine \in Engine /\ matching \in Matching /\ runtime \in Runtime
  <2>1. /\ <<>> \in Seq(Nat) /\ <<>> \in Seq(Event)
        /\ 1 \in 1 .. LastSequence /\ 0 \in 0 .. MaximumEvents /\ healthy \in healthy .. corruption
    BY CapacitiesAssumption DEF healthy, corruption
  <2>2. ingress \in Ingress
    BY <2>1 DEF Init, Ingress
  <2>3. engine \in Engine
    BY <2>1 DEF Init, Engine
  <2>4. matching \in Matching
    BY <2>1 DEF Init, Matching
  <2>5. runtime \in Runtime
    BY <2>1 DEF Init, Runtime, Lifecycles
  <2> QED BY <2>2, <2>3, <2>4, <2>5
<1>2. /\ journal = <<>> /\ command_queue = <<>> /\ event_queue = <<>> /\ published = <<>>
      /\ bbo = 0 /\ saved = 0
  BY DEF Init
<1>3. TypeOK
  <2>1. /\ <<>> \in Seq(Command) /\ <<>> \in Seq(Event) /\ Len(<<>>) = 0
        /\ 0 <= JournalCapacity /\ 0 <= CommandCapacity /\ 0 <= EventCapacity
        /\ 0 \in 0 .. LastSequence
    BY CapacitiesAssumption
  <2> QED BY <1>1, <1>2, <2>1 DEF TypeOK
<1>4. applied = 0 /\ ~holding /\ released = 0 /\ pushed_events = 0 /\ reflected = 0 /\ stamped = 0
  <2>1. engine.exhausted = FALSE /\ engine.next_sequence = 1
    BY DEF Init
  <2>2. ingress.exhausted = FALSE /\ ingress.next_sequence = 1
    BY DEF Init
  <2>3. matching.poisoned = FALSE /\ matching.phase = "idle"
    BY DEF Init
  <2>4. applied = 0 /\ stamped = 0
    BY <2>1, <2>2 DEF applied, stamped
  <2> QED BY <2>3, <2>4 DEF holding, released, pushed_events, reflected
<1>5. stream = <<>> /\ streamed = 0
  BY <1>2 DEF stream, streamed
<1>9. Len(<<>>) = 0 /\ 1 .. 0 = {} /\ 1 .. 0 - 1 = {}
  OBVIOUS
<1>10. /\ ingress.phase = "idle" /\ ~ingress.stopped /\ ~ingress.exhausted
       /\ ~ingress.recovery_required
  BY DEF Init
<1>11. /\ ~engine.exhausted /\ engine.produced = <<>> /\ engine.last_logical_time = 0
       /\ matching.phase = "idle" /\ ~matching.poisoned
  BY DEF Init
<1>6. JournalInv /\ IngressInv /\ QueueInv
  BY <1>2, <1>4, <1>9, <1>10 DEF JournalInv, IngressInv, QueueInv
<1>7. EngineInv /\ MatchingInv
  BY <1>2, <1>4, <1>9, <1>11 DEF EngineInv, MatchingInv
<1>8. StreamInv /\ RuntimeInv
  BY <1>2, <1>4, <1>5 DEF Init, StreamInv, EventsInOrder, RuntimeInv
<1> QED BY <1>3, <1>6, <1>7, <1>8 DEF Inv

\* Every step of every stage, and of the runtime, preserves the invariant.
LEMMA NextInv == Inv /\ [Next]_vars => Inv'
<1> SUFFICES ASSUME Inv, [Next]_vars PROVE Inv'
  OBVIOUS
<1>1. CASE ingest
  BY <1>1, IngestInv DEF ingest
<1>2. CASE finish_ingest
  BY <1>2, AppendInv, PushCommandInv DEF finish_ingest
<1>3. CASE match
  <2>1. ASSUME NEW required \in {1, MaximumEvents}, process_one(required) PROVE Inv'
    BY <2>1, ProcessOneInv
  <2>2. ASSUME NEW event_count \in 1 .. (MaximumEvents + Excess), apply(event_count) PROVE Inv'
    BY <2>2, ApplyInv
  <2> QED BY <1>3, <2>1, <2>2, PoisonedInv, PushEventsInv, PublishBboInv, ReleaseInv DEF match
<1>4. CASE start \/ begin_shutdown
  BY <1>4, StartInv
<1>5. CASE observe_commands_empty \/ complete_shutdown
  BY <1>5, ShutdownInv
<1>6. CASE save_snapshot
  BY <1>6, SaveSnapshotInv
<1>7. CASE try_pop
  BY <1>7, TryPopInv
<1>8. CASE UNCHANGED vars
  <2>1. UNCHANGED stages /\ UNCHANGED runtime
    BY <1>8 DEF vars, stages
  <2>2. Observed(runtime')
    BY <2>1 DEF Inv, TypeOK, Observed, Runtime
  <2> QED BY <2>1, <2>2, ObservedOnly
<1> QED BY <1>1, <1>2, <1>3, <1>4, <1>5, <1>6, <1>7, <1>8 DEF Next

\* The invariant holds of every behaviour of the pipeline.
THEOREM InvHolds == Spec => []Inv
BY InitInv, NextInv, PTL DEF Spec

-----------------------------------------------------------------------------
(* What follows from it.                                                   *)

\* What the matcher can see or has applied is in the journal, at its place: no
\* command reaches the matching thread, or the events of the publication stage,
\* before its record is durable, and the queue has no gap.
THEOREM DurableFirst == Spec => []VisibleIsDurable
<1>1. Inv => VisibleIsDurable
  <2> SUFFICES ASSUME Inv PROVE VisibleIsDurable
    OBVIOUS
  <2> DEFINE length == Len(command_queue)
             part == SubSeq(journal, released + 1, released + length)
  <2>1. /\ journal \in Seq(Command) /\ command_queue \in Seq(Command)
        /\ Len(journal) \in Nat /\ length \in Nat
    BY DEF Inv, TypeOK
  <2>2. released \in Nat /\ released + length <= Len(journal)
    BY DEF Inv, QueueInv
  <2>3. command_queue = part
    <3>1. /\ part \in Seq(Command) /\ Len(part) = length
          /\ \A i \in 1 .. length : part[i] = journal[released + i]
      BY <2>1, <2>2, PartOf
    <3> HIDE DEF part
    <3>2. \A i \in 1 .. length : part[i] = command_queue[i]
      BY <3>1 DEF Inv, QueueInv
    <3> QED BY <2>1, <3>1, <3>2, SameElements
  <2>4. applied \in {released, released + 1} /\ applied <= Len(journal)
    <3>1. applied \in 0 .. LastSequence
      BY HeadOfQueue
    <3> QED BY <3>1, CapacitiesAssumption DEF Inv, EngineInv, released
  <2>5. \A i \in DOMAIN journal : journal[i].sequence = i
    BY <2>1 DEF Inv, JournalInv
  <2>6. released \in 0 .. Len(journal)
    BY <2>1, <2>2
  <2> QED BY <2>2, <2>3, <2>4, <2>5, <2>6 DEF VisibleIsDurable
<1> QED BY <1>1, InvHolds, PTL

\* Sequencer and journal never drift apart: a refused command has consumed neither
\* a sequence nor a record, whichever check of try_ingest refused it.
THEOREM SequencerFollows == Spec => []SequenceFollowsJournal
<1>1. Inv => SequenceFollowsJournal
  BY DEF Inv, IngressInv, SequenceFollowsJournal, stamped
<1> QED BY <1>1, InvHolds, PTL

\* Publication sees the events of every command once and in order, batch after
\* batch, however the three threads interleave.
THEOREM PublishedInOrder == Spec => []EventsInOrder
<1>1. Inv => EventsInOrder
  BY DEF Inv, StreamInv
<1> QED BY <1>1, InvHolds, PTL

\* A snapshot covers only commands whose events are in the stream and which the
\* published best bid and offer reflects.
THEOREM SnapshotsAtBoundaries == Spec => []SnapshotAtBoundary
<1>1. Inv => SnapshotAtBoundary
  <2> SUFFICES ASSUME Inv PROVE SnapshotAtBoundary
    OBVIOUS
  <2>1. applied \in Nat /\ released \in Nat /\ saved \in Nat /\ saved <= released
    <3>1. applied \in 0 .. LastSequence
      BY HeadOfQueue
    <3> QED BY <3>1, CapacitiesAssumption DEF Inv, TypeOK, QueueInv, StreamInv
  <2>2. released <= pushed_events /\ released <= reflected
    BY <2>1 DEF released, holding, pushed_events, reflected
  <2>3. pushed_events \in Int /\ reflected \in Int
    BY <2>1 DEF pushed_events, reflected
  <2>4. streamed = pushed_events /\ bbo = reflected
    BY DEF Inv, StreamInv
  <2> QED BY <2>1, <2>2, <2>3, <2>4 DEF SnapshotAtBoundary
<1> QED BY <1>1, InvHolds, PTL

\* The checks before a mutation make the failures after it impossible: the push of
\* a stamped command and the push of a batch are never refused, and the engine
\* never refuses the command at the head of the queue.
THEOREM ChecksSuffice == Spec => []PreflightSuffices
<1>1. Inv => PreflightSuffices
  BY DEF Inv, IngressInv, MatchingInv, PreflightSuffices
<1> QED BY <1>1, InvHolds, PTL

\* A runtime that reports stopped has drained, although it looked at the two
\* queues one after the other.
THEOREM StopsDrained == Spec => []StoppedIsDrained
<1>1. Inv => StoppedIsDrained
  <2> SUFFICES ASSUME Inv, runtime.lifecycle = "stopped"
               PROVE  /\ ingress.phase = "idle" /\ matching.phase = "idle"
                      /\ command_queue = <<>> /\ event_queue = <<>> /\ streamed = applied
    BY DEF StoppedIsDrained
  <2>1. ingress.phase = "idle" /\ command_queue = <<>> /\ event_queue = <<>>
    BY DEF Inv, RuntimeInv
  <2>2. matching.phase = "idle" /\ ~matching.poisoned
    BY <2>1 DEF Inv, MatchingInv
  <2>3. streamed = applied
    BY <2>2 DEF Inv, StreamInv, pushed_events
  <2> QED BY <2>1, <2>2, <2>3
<1> QED BY <1>1, InvHolds, PTL
=============================================================================
