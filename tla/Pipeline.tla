------------------------------ MODULE Pipeline ------------------------------
(***************************************************************************)
(* The durable three-stage pipeline: DurableIngressStage, MatchingStage    *)
(* and PublicationStage on threads of their own, joined by two bounded     *)
(* queues, and the RuntimeOperations state machine their statuses are fed  *)
(* to.                                                                     *)
(*                                                                         *)
(* A queue is the FIFO that SpscQueue is shown to implement.  The engine   *)
(* is its sequence number, its last logical time and the events it has     *)
(* produced: a command needs some number of event slots and produces some  *)
(* number of events, which the book's state decides.  A command is its     *)
(* sequence number and logical time; LastSequence stands for the largest   *)
(* sequence number, after which sequencer and engine are exhausted.        *)
(***************************************************************************)
EXTENDS Integers, Sequences, FiniteSets

CONSTANTS
  LastSequence,      \* the largest sequence number
  LogicalTimes,      \* the logical times of commands
  JournalCapacity,   \* records the journal holds
  CommandCapacity,   \* capacity of the command queue
  EventCapacity,     \* capacity of the event queue
  MaximumEvents,     \* maximum_event_capacity() of the engine
  Excess             \* events a command may produce beyond what it was said to need

ASSUME CapacitiesAssumption ==
  /\ LastSequence \in Nat \ {0} /\ JournalCapacity \in Nat \ {0}
  /\ CommandCapacity \in Nat \ {0}
  /\ EventCapacity \in Nat /\ MaximumEvents \in Nat \ {0} /\ Excess \in Nat
ASSUME LogicalTimesAssumption == LogicalTimes \subseteq Nat
\* The constructor of MatchingStage throws otherwise
ASSUME MatchingStageAssumption == EventCapacity >= MaximumEvents

VARIABLES
  ingress,        \* DurableIngressStage and its Sequencer
  journal,        \* the committed records of the MmapJournal
  command_queue,
  matching,       \* MatchingStage
  engine,         \* SequencedEngine, with a history of how many events each command had
  event_queue,
  published,      \* events the publication stage has consumed
  bbo,            \* commands reflected in the published best bid and offer
  saved,          \* commands covered by the last snapshot
  runtime         \* RuntimeOperations

vars == <<ingress, journal, command_queue, matching, engine, event_queue, published, bbo, saved,
          runtime>>

Command == [sequence : 1..LastSequence, logical_time : LogicalTimes]

Event == [command_sequence : 1..LastSequence, event_index : Nat]

NoCommand == [sequence |-> 0, logical_time |-> 0]

Lifecycles == {"starting", "running", "draining", "stopped", "failed"}

\* RuntimeHealth, by severity
healthy == 0
backpressured == 1
capacity_exhausted == 2
recovery_required == 3
corruption == 4

Init ==
  /\ ingress = [phase |-> "idle", command |-> NoCommand, next_sequence |-> 1,
                last_logical_time |-> 0, exhausted |-> FALSE, recovery_required |-> FALSE,
                stopped |-> FALSE]
  /\ journal = <<>>
  /\ command_queue = <<>>
  /\ matching = [phase |-> "idle", command |-> NoCommand, required |-> 0, batch |-> <<>>,
                 poisoned |-> FALSE]
  /\ engine = [next_sequence |-> 1, last_logical_time |-> 0, exhausted |-> FALSE, produced |-> <<>>]
  /\ event_queue = <<>>
  /\ published = <<>>
  /\ bbo = 0
  /\ saved = 0
  /\ runtime = [lifecycle |-> "starting", health |-> healthy, commands_empty |-> FALSE]

-----------------------------------------------------------------------------
\* RuntimeOperations

raise_health(health) ==
  [runtime EXCEPT !.health = IF health > @ THEN health ELSE @]

fail(health) == [raise_health(health) EXCEPT !.lifecycle = "failed"]

observe_ingress(status) ==
  CASE status = "queue_backpressure" -> raise_health(backpressured)
    [] status \in {"journal_full", "sequence_exhausted"} -> raise_health(capacity_exhausted)
    [] status \in {"persistence_failure", "commit_indeterminate", "recovery_required"} ->
         fail(recovery_required)
    [] status = "stopped_poisoned" -> fail(corruption)
    [] OTHER -> runtime

observe_matching(status) ==
  CASE status = "output_backpressure" -> raise_health(backpressured)
    [] status \in {"sequence_exhausted", "impossible_event_capacity"} ->
         raise_health(capacity_exhausted)
    [] status \in {"invalid_sequence", "decreasing_logical_time", "internal_invariant_failure",
                   "poisoned"} -> fail(corruption)
    [] OTHER -> runtime

start ==
  /\ runtime.lifecycle = "starting"
  /\ runtime' = [runtime EXCEPT !.lifecycle = "running"]
  /\ UNCHANGED <<ingress, journal, command_queue, matching, engine, event_queue, published, bbo, saved>>

\* A clean shutdown stops ingress first: its owner is between two calls
begin_shutdown ==
  /\ runtime.lifecycle = "running"
  /\ ingress.phase = "idle"
  /\ runtime' = [runtime EXCEPT !.lifecycle = "draining"]
  /\ UNCHANGED <<ingress, journal, command_queue, matching, engine, event_queue, published, bbo, saved>>

\* The two arguments of complete_shutdown are read one after the other, the command
\* queue first
observe_commands_empty ==
  /\ runtime.lifecycle = "draining"
  /\ ~runtime.commands_empty
  /\ command_queue = <<>>
  /\ runtime' = [runtime EXCEPT !.commands_empty = TRUE]
  /\ UNCHANGED <<ingress, journal, command_queue, matching, engine, event_queue, published, bbo, saved>>

\* Mutant: only the command queue has to be empty.
complete_shutdown_commands_only ==
  /\ runtime.lifecycle = "draining"
  /\ runtime.commands_empty
  /\ runtime' = [runtime EXCEPT !.lifecycle = "stopped"]
  /\ UNCHANGED <<ingress, journal, command_queue, matching, engine, event_queue, published, bbo, saved>>

\* Mutant: past backpressure keeps the runtime from stopping.
complete_shutdown_healthy ==
  /\ runtime.lifecycle = "draining" /\ runtime.health = healthy
  /\ runtime.commands_empty /\ event_queue = <<>>
  /\ runtime' = [runtime EXCEPT !.lifecycle = "stopped"]
  /\ UNCHANGED <<ingress, journal, command_queue, matching, engine, event_queue, published, bbo, saved>>

complete_shutdown ==
  /\ runtime.lifecycle = "draining"
  /\ runtime.commands_empty
  /\ event_queue = <<>>
  /\ runtime' = [runtime EXCEPT !.lifecycle = "stopped"]
  /\ UNCHANGED <<ingress, journal, command_queue, matching, engine, event_queue, published, bbo, saved>>

-----------------------------------------------------------------------------
\* DurableIngressStage::try_ingest

\* What the early returns test, each with a mutant
append_failed_forgotten == FALSE
append_failed == ingress.recovery_required

command_queue_full_never == FALSE
command_queue_full == Len(command_queue) >= CommandCapacity

journal_full == Len(journal) = JournalCapacity

\* The early returns, in their order; "stamp" when there is none
ingest_status(logical_time) ==
  IF ingress.stopped THEN "stopped_poisoned"
  ELSE IF append_failed THEN "recovery_required"
  ELSE IF ingress.exhausted THEN "sequence_exhausted"
  ELSE IF logical_time < ingress.last_logical_time THEN "decreasing_logical_time"
  ELSE IF command_queue_full THEN "queue_backpressure"
  ELSE IF journal_full THEN "journal_full"
  ELSE "stamp"

\* Sequencer::stamp
stamp(logical_time) ==
  [ingress EXCEPT
     !.command = [sequence |-> ingress.next_sequence, logical_time |-> logical_time],
     !.exhausted = ingress.next_sequence = LastSequence,
     !.next_sequence = IF @ = LastSequence THEN @ ELSE @ + 1,
     !.last_logical_time = logical_time]

\* Mutant: the command is stamped before the checks.
try_ingest_stamps_first(logical_time) ==
  /\ runtime.lifecycle \in {"running", "failed"}
  /\ ingress.phase = "idle"
  /\ ~ingress.exhausted /\ logical_time >= ingress.last_logical_time
  /\ LET status == ingest_status(logical_time)
     IN /\ ingress' = IF status = "stamp" THEN [stamp(logical_time) EXCEPT !.phase = "append"]
                      ELSE stamp(logical_time)
        /\ runtime' = IF status = "stamp" THEN runtime ELSE observe_ingress(status)
  /\ UNCHANGED <<journal, command_queue, matching, engine, event_queue, published, bbo, saved>>

\* RuntimeOperations only advises: the ingress thread may have asked
\* accepts_ingress before the runtime failed, or not at all
try_ingest(logical_time) ==
  /\ runtime.lifecycle \in {"running", "failed"}
  /\ ingress.phase = "idle"
  /\ LET status == ingest_status(logical_time)
     IN \/ /\ status = "stamp"
           /\ ingress' = [stamp(logical_time) EXCEPT !.phase = "append"]
           /\ UNCHANGED runtime
        \/ /\ status # "stamp"
           /\ runtime' = observe_ingress(status)
           /\ UNCHANGED ingress
  /\ UNCHANGED <<journal, command_queue, matching, engine, event_queue, published, bbo, saved>>

\* MmapJournal::append commits, fails, or leaves open whether it has committed
append(outcome, committed) ==
  /\ ingress.phase = "append"
  /\ outcome = "none" => committed
  /\ outcome = "persistence_failure" => ~committed
  /\ journal' = IF committed THEN Append(journal, ingress.command) ELSE journal
  /\ ingress' = IF outcome = "none" THEN [ingress EXCEPT !.phase = "push"]
                ELSE [ingress EXCEPT !.phase = "idle", !.command = NoCommand,
                                     !.recovery_required = TRUE]
  /\ runtime' = IF outcome = "none" THEN runtime ELSE observe_ingress(outcome)
  /\ UNCHANGED <<command_queue, matching, engine, event_queue, published, bbo, saved>>

\* The command becomes visible to the matcher
push_command ==
  /\ ingress.phase = "push"
  /\ LET pushed == Len(command_queue) < CommandCapacity
     IN /\ command_queue' = IF pushed THEN Append(command_queue, ingress.command) ELSE command_queue
        /\ ingress' = [ingress EXCEPT !.phase = "idle", !.command = NoCommand, !.stopped = ~pushed]
        /\ runtime' = observe_ingress(IF pushed THEN "progress" ELSE "stopped_poisoned")
  /\ UNCHANGED <<journal, matching, engine, event_queue, published, bbo, saved>>

-----------------------------------------------------------------------------
\* MatchingStage::process_one

\* The stage is poisoned: the command stays in the queue
poison == [matching EXCEPT !.phase = "idle", !.poisoned = TRUE, !.batch = <<>>]

\* events_.available(), and mutants that keep a slot free or ignore the consumer
events_available_less == EventCapacity - Len(event_queue) - 1
events_available == EventCapacity - Len(event_queue)

\* The early returns after the command has been peeked, in their order
preflight_status(command, required) ==
  IF engine.exhausted THEN "sequence_exhausted"
  ELSE IF command.sequence # engine.next_sequence THEN "invalid_sequence"
  ELSE IF command.logical_time < engine.last_logical_time THEN "decreasing_logical_time"
  ELSE IF required > MaximumEvents \/ required > EventCapacity THEN "impossible_event_capacity"
  ELSE IF events_available < required THEN "output_backpressure"
  ELSE "apply"

\* The command is peeked and checked; required is what required_event_capacity says,
\* the same at every attempt since the engine does not change between them
process_one(required) ==
  /\ matching.phase = "idle"
  /\ ~matching.poisoned
  /\ command_queue # <<>>
  /\ matching.required \in {0, required}
  /\ LET status == preflight_status(Head(command_queue), required)
     IN /\ matching' = CASE status = "apply" ->
                            [matching EXCEPT !.phase = "apply", !.command = Head(command_queue),
                                             !.required = required]
                         [] status = "output_backpressure" -> [matching EXCEPT !.required = required]
                         [] OTHER -> poison
        /\ runtime' = observe_matching(status)
  /\ UNCHANGED <<ingress, journal, command_queue, engine, event_queue, published, bbo, saved>>

\* process_one on a poisoned stage
process_poisoned ==
  /\ matching.phase = "idle"
  /\ matching.poisoned
  /\ runtime' = observe_matching("poisoned")
  /\ UNCHANGED <<ingress, journal, command_queue, matching, engine, event_queue, published, bbo, saved>>

\* SequencedEngine::apply: the command is the engine's last one
applied_engine(event_count) ==
  [next_sequence |-> IF engine.next_sequence = LastSequence THEN LastSequence
                     ELSE engine.next_sequence + 1,
   last_logical_time |-> matching.command.logical_time,
   exhausted |-> engine.next_sequence = LastSequence,
   produced |-> Append(engine.produced, event_count)]

events(event_count) ==
  [i \in 1..event_count |->
     [command_sequence |-> matching.command.sequence, event_index |-> i - 1]]

\* Mutant: events beyond what was announced are dropped.
apply_truncates(event_count) ==
  /\ matching.phase = "apply"
  /\ event_count <= matching.required + Excess
  /\ engine' = applied_engine(event_count)
  /\ matching' = [matching EXCEPT !.phase = "push",
                    !.batch = events(IF event_count > matching.required THEN matching.required
                                     ELSE event_count)]
  /\ UNCHANGED <<ingress, journal, command_queue, event_queue, published, bbo, saved, runtime>>

\* The engine produces event_count events into the scratch buffer
apply(event_count) ==
  /\ matching.phase = "apply"
  /\ event_count <= matching.required + Excess
  /\ engine' = applied_engine(event_count)
  /\ \/ /\ event_count \notin 1..matching.required
        /\ matching' = poison
        /\ runtime' = observe_matching("internal_invariant_failure")
     \/ /\ event_count \in 1..matching.required
        /\ matching' = [matching EXCEPT !.phase = "push", !.batch = events(event_count)]
        /\ UNCHANGED runtime
  /\ UNCHANGED <<ingress, journal, command_queue, event_queue, published, bbo, saved>>

push_events ==
  /\ matching.phase = "push"
  /\ LET pushed == Len(event_queue) + Len(matching.batch) <= EventCapacity
     IN /\ event_queue' = IF pushed THEN event_queue \o matching.batch ELSE event_queue
        /\ matching' = IF pushed THEN [matching EXCEPT !.phase = "publish", !.batch = <<>>]
                       ELSE poison
        /\ runtime' = IF pushed THEN runtime ELSE observe_matching("internal_invariant_failure")
  /\ UNCHANGED <<ingress, journal, command_queue, engine, published, bbo, saved>>

publish_bbo ==
  /\ matching.phase = "publish"
  /\ bbo' = matching.command.sequence
  /\ matching' = [matching EXCEPT !.phase = "release"]
  /\ UNCHANGED <<ingress, journal, command_queue, engine, event_queue, published, saved, runtime>>

\* The command is released last
release_command ==
  /\ matching.phase = "release"
  /\ LET released == command_queue # <<>> /\ Head(command_queue) = matching.command
     IN /\ command_queue' = IF command_queue = <<>> THEN <<>> ELSE Tail(command_queue)
        /\ matching' = IF released THEN [matching EXCEPT !.phase = "idle", !.command = NoCommand,
                                                         !.required = 0]
                       ELSE poison
        /\ runtime' = observe_matching(IF released THEN "progress" ELSE "internal_invariant_failure")
  /\ UNCHANGED <<ingress, journal, engine, event_queue, published, bbo, saved>>

\* MatchingStage::save_snapshot, by the matching thread between two commands
\* (mutant: a poisoned stage is saved too)
save_snapshot_poisoned ==
  /\ matching.phase = "idle"
  /\ saved' = IF engine.exhausted THEN engine.next_sequence ELSE engine.next_sequence - 1
  /\ UNCHANGED <<ingress, journal, command_queue, matching, engine, event_queue, published, bbo, runtime>>

save_snapshot ==
  /\ matching.phase = "idle"
  /\ ~matching.poisoned
  /\ saved' = IF engine.exhausted THEN engine.next_sequence ELSE engine.next_sequence - 1
  /\ UNCHANGED <<ingress, journal, command_queue, matching, engine, event_queue, published, bbo, runtime>>

-----------------------------------------------------------------------------
\* PublicationStage::try_pop

try_pop ==
  /\ event_queue # <<>>
  /\ published' = Append(published, Head(event_queue))
  /\ event_queue' = Tail(event_queue)
  /\ UNCHANGED <<ingress, journal, command_queue, matching, engine, bbo, saved, runtime>>

-----------------------------------------------------------------------------

Outcomes == {"none", "persistence_failure", "commit_indeterminate"}

ingest == \E logical_time \in LogicalTimes : try_ingest(logical_time)

finish_ingest ==
  \/ \E outcome \in Outcomes, committed \in BOOLEAN : append(outcome, committed)
  \/ push_command

\* required_event_capacity is one event for a rejected or resting-only command, the
\* maximum for one that may match
match ==
  \/ \E required \in {1, MaximumEvents} : process_one(required)
  \/ process_poisoned
  \/ \E event_count \in 1..(MaximumEvents + Excess) : apply(event_count)
  \/ push_events
  \/ publish_bbo
  \/ release_command

Next ==
  \/ start
  \/ ingest
  \/ finish_ingest
  \/ match
  \/ save_snapshot
  \/ try_pop
  \/ begin_shutdown
  \/ observe_commands_empty
  \/ complete_shutdown

\* Every stage is polled by its owner for as long as there is work, and a shutdown
\* that has begun is carried through; nobody has to submit commands
Fairness ==
  /\ WF_vars(finish_ingest)
  /\ WF_vars(match)
  /\ WF_vars(try_pop)
  /\ WF_vars(observe_commands_empty)
  /\ WF_vars(complete_shutdown)

Spec == Init /\ [][Next]_vars /\ Fairness

-----------------------------------------------------------------------------
\* Properties

Ingress == [phase : {"idle", "append", "push"}, command : Command \union {NoCommand},
            next_sequence : 1 .. LastSequence, last_logical_time : LogicalTimes \union {0},
            exhausted : BOOLEAN, recovery_required : BOOLEAN, stopped : BOOLEAN]

Matching == [phase : {"idle", "apply", "push", "publish", "release"},
             command : Command \union {NoCommand}, required : 0 .. MaximumEvents,
             batch : Seq(Event), poisoned : BOOLEAN]

Engine == [next_sequence : 1 .. LastSequence, last_logical_time : LogicalTimes \union {0},
           exhausted : BOOLEAN, produced : Seq(Nat)]

Runtime == [lifecycle : Lifecycles, health : healthy .. corruption, commands_empty : BOOLEAN]

\* Every variable has its type and the queues and the journal keep to their capacity.
TypeOK ==
  /\ ingress \in Ingress /\ matching \in Matching /\ engine \in Engine /\ runtime \in Runtime
  /\ journal \in Seq(Command) /\ Len(journal) <= JournalCapacity
  /\ command_queue \in Seq(Command) /\ Len(command_queue) <= CommandCapacity
  /\ event_queue \in Seq(Event) /\ Len(event_queue) <= EventCapacity
  /\ published \in Seq(Event)
  /\ bbo \in 0..LastSequence /\ saved \in 0..LastSequence

\* Commands the engine has applied
applied == IF engine.exhausted THEN LastSequence ELSE engine.next_sequence - 1

\* The events handed to the publication stage, in order
stream == published \o event_queue

streamed == IF stream = <<>> THEN 0 ELSE stream[Len(stream)].command_sequence

\* What the matcher can see or has applied is in the journal, at its place: the
\* journal has no gap, the command queue is a run of consecutive journal records that starts at the first
\* command not yet released, and the engine is at most that one command ahead.
VisibleIsDurable ==
  \E released \in 0..Len(journal) :
    /\ released + Len(command_queue) <= Len(journal)
    /\ command_queue = SubSeq(journal, released + 1, released + Len(command_queue))
    /\ applied \in {released, released + 1}
    /\ applied <= Len(journal)
    /\ \A i \in DOMAIN journal : journal[i].sequence = i

\* Sequencer and journal never drift apart: while ingress may go on, the next
\* sequence is the one the journal expects, so that backpressure and a full journal
\* have consumed neither.
SequenceFollowsJournal ==
  ingress.phase = "idle" /\ ~ingress.recovery_required =>
    Len(journal) = IF ingress.exhausted THEN LastSequence ELSE ingress.next_sequence - 1

\* Publication sees every event of every command once, in order, batch after batch:
\* events of the same command follow each other, and a batch is followed by the
\* next one only when it is complete.
EventsInOrder ==
  \A i \in DOMAIN stream :
    LET event == stream[i]
        last == event.event_index + 1 = engine.produced[event.command_sequence]
    IN /\ i = 1 => event = [command_sequence |-> 1, event_index |-> 0]
       /\ i = Len(stream) => last
       /\ i < Len(stream) =>
            stream[i + 1] = IF last
                            THEN [command_sequence |-> event.command_sequence + 1, event_index |-> 0]
                            ELSE [event EXCEPT !.event_index = @ + 1]

\* A snapshot never observes half-applied or half-published work: the events of
\* every command it covers are in the stream and the best bid and offer has
\* been published for them.
SnapshotAtBoundary == saved <= streamed /\ saved <= bbo

\* The checks made before mutation make the failures after it impossible: neither
\* push is ever refused, and the matcher is only poisoned by an engine that
\* produces more events than it said.
PreflightSuffices == ~ingress.stopped /\ (matching.poisoned => Excess > 0)

\* A runtime that reports stopped has drained: no command or event is left in the
\* pipeline and every command the queue ever held has its events published.
StoppedIsDrained ==
  runtime.lifecycle = "stopped" =>
    /\ ingress.phase = "idle" /\ matching.phase = "idle"
    /\ command_queue = <<>> /\ event_queue = <<>>
    /\ streamed = applied

\* Every command that reaches the queue has its events published, unless the
\* matcher is poisoned: no backpressure lasts for ever.
AcceptedIsPublished ==
  \A sequence \in 1..LastSequence :
    (\E i \in DOMAIN command_queue : command_queue[i].sequence = sequence)
      ~> (matching.poisoned \/ \E i \in DOMAIN published : published[i].command_sequence = sequence)

\* A shutdown that has begun ends: everything drains, or the runtime fails.
ShutdownEnds == (runtime.lifecycle = "draining") ~> (runtime.lifecycle \in {"stopped", "failed"})
=============================================================================
