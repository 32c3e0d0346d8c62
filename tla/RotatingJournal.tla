-------------------------- MODULE RotatingJournal --------------------------
(***************************************************************************)
(* The rotated command journal: MmapJournal (one memory-mapped segment),   *)
(* RotatingJournal (the chain of segments) and JournalSegmentSet (recovery *)
(* of the chain), with the failures they are written for.                  *)
(*                                                                         *)
(* What is in the page cache and what has reached the disk are told apart: *)
(* every piece of a file that is written separately (the header, the body  *)
(* of a record, its commit marker) is "written" until a synchronization    *)
(* succeeds and "durable" afterwards.  A machine crash keeps or loses each *)
(* written piece; the exit of the process loses none.  The parent          *)
(* directory is the sequence of its versions since its last                *)
(* synchronization, of which a crash keeps one.                            *)
(*                                                                         *)
(* A command is its sequence number and logical time; two commands with    *)
(* the same sequence number stand for two payloads.                        *)
(***************************************************************************)
EXTENDS Integers, Sequences, FiniteSets, FiniteSetsExt

CONSTANTS
  SegmentCapacity,  \* records of a segment
  LastSequence,     \* bound: no command beyond this sequence is appended
  LogicalTimes,     \* the logical times commands may carry
  SyncFailures,     \* bound: synchronizations and unlinks that fail
  ExitPhases        \* the phases of a call in which the process may exit on its own

ASSUME SegmentCapacityAssumption == SegmentCapacity \in Nat \ {0}
ASSUME LastSequenceAssumption == LastSequence \in Nat \ {0}
ASSUME LogicalTimesAssumption == LogicalTimes \subseteq Nat
ASSUME SyncFailuresAssumption == SyncFailures \in Nat

VARIABLES
  directory,  \* versions of the directory: each the set of bases that have a file
  files,      \* the segment file of every base sequence
  journal,    \* the RotatingJournal object of the process
  failures,   \* calls that have failed
  acked,      \* commands for which append() returned none
  applied     \* commands the application has applied: acknowledged or replayed

vars == <<directory, files, journal, failures, acked, applied>>

Bases == 1..(LastSequence + 1)

Command == [sequence : 1..LastSequence, logical_time : LogicalTimes]

Record == [command : Command,
           body : {"written", "durable", "torn"},
           marker : {"clear", "written", "durable"}]

File == [header : {"none", "written", "durable"}, records : Seq(Record)]

NoFile == [header |-> "none", records |-> <<>>]

visible == directory[Len(directory)]

-----------------------------------------------------------------------------
\* Files and their synchronization

flushed(piece) == IF piece = "written" THEN "durable" ELSE piece

\* msync of the whole mapping followed by fsync, both successful
sync_mapping(file) ==
  [header |-> flushed(file.header),
   records |-> [i \in DOMAIN file.records |->
                  [file.records[i] EXCEPT !.body = flushed(@), !.marker = flushed(@)]]]

\* What a machine crash may leave of a piece, a record and a file
left_by_crash(piece, lost) == IF piece = "written" THEN {"durable", lost} ELSE {piece}

crashed_records(record) ==
  { [record EXCEPT !.body = b, !.marker = m] :
      b \in left_by_crash(record.body, "torn"), m \in left_by_crash(record.marker, "clear") }

crashed_files(file) ==
  { [header |-> h, records |-> r] :
      h \in left_by_crash(file.header, "none"),
      r \in { s \in [DOMAIN file.records -> UNION { crashed_records(file.records[i]) :
                                                      i \in DOMAIN file.records }] :
                \A i \in DOMAIN s : s[i] \in crashed_records(file.records[i]) } }

-----------------------------------------------------------------------------
\* MmapJournal::open and recover, JournalSegmentSet::open

Committed(file) == { i \in DOMAIN file.records : file.records[i].marker # "clear" }

segment_size(file) == Cardinality(Committed(file))

last_time(file) ==
  IF Committed(file) = {} THEN 0
  ELSE file.records[segment_size(file)].command.logical_time

\* MmapJournal::open and recover: a header, committed records, then only clear markers
recover(base, file) ==
  /\ file.header # "none"
  /\ Committed(file) = 1..segment_size(file)
  /\ \A i \in Committed(file) :
       /\ file.records[i].body # "torn"
       /\ file.records[i].command.sequence = base + i - 1
       /\ i > 1 => file.records[i - 1].command.logical_time <= file.records[i].command.logical_time

\* JournalSegmentSet::open: a chain of full segments and one last segment
segment_set_opens(bases) ==
  /\ bases # {}
  /\ \A base \in bases :
       /\ recover(base, files[base])
       /\ base # Max(bases) =>
            /\ segment_size(files[base]) = SegmentCapacity
            /\ Min({ other \in bases : other > base }) = base + SegmentCapacity

\* The commands the segments hold
history(bases) ==
  UNION { { files[base].records[i].command : i \in Committed(files[base]) } : base \in bases }

-----------------------------------------------------------------------------
\* The process

\* sync_body, sync_marker: in MmapJournal::append; sync_header, sync_parent: in
\* MmapJournal::create, called by rotate()
Phases == {"down", "idle", "sync_body", "sync_marker", "create", "sync_header", "sync_parent"}

Journal == [phase : Phases, base : Bases, size : 0..SegmentCapacity, last_logical_time : Nat,
            poisoned : BOOLEAN, closed : BOOLEAN, command : Command]

NoCommand == CHOOSE command \in Command : TRUE

Init ==
  /\ directory = <<{1}>>
  /\ files = [base \in Bases |-> IF base = 1 THEN [NoFile EXCEPT !.header = "durable"] ELSE NoFile]
  /\ journal = [phase |-> "idle", base |-> 1, size |-> 0, last_logical_time |-> 0,
                poisoned |-> FALSE, closed |-> FALSE, command |-> NoCommand]
  /\ failures = 0
  /\ acked = {}
  /\ applied = {}

next_sequence == journal.base + journal.size

\* The call returns
returned == [journal EXCEPT !.phase = "idle", !.command = NoCommand]

\* Of the system calls of a step, some number fails, within the bound
failing(calls) ==
  /\ failures + calls <= SyncFailures
  /\ failures' = failures + calls

\* A synchronization succeeds or fails
sync_outcome(failed) == failing(IF failed THEN 1 ELSE 0)

\* MmapJournal::append, up to the first synchronization: the record's slot is rewritten
write_body(base, size, command) ==
  files' = [files EXCEPT ![base].records =
              Append(SubSeq(@, 1, size), [command |-> command, body |-> "written", marker |-> "clear"])]

\* RotatingJournal::append when the active segment has room
append(command) ==
  /\ journal.phase = "idle"
  /\ ~journal.poisoned
  /\ journal.size < SegmentCapacity
  /\ command.sequence = next_sequence
  /\ command.logical_time >= journal.last_logical_time
  /\ write_body(journal.base, journal.size, command)
  /\ journal' = [journal EXCEPT !.phase = "sync_body", !.command = command]
  /\ UNCHANGED <<directory, failures, acked, applied>>

\* RotatingJournal::append when the active segment is full: rotate() closes it
\* first.  A segment whose close failed is closed all the same.
rotate(command, failed) ==
  /\ journal.phase = "idle"
  /\ journal.size = SegmentCapacity
  /\ command.sequence = next_sequence
  /\ command.logical_time >= journal.last_logical_time
  /\ journal.closed => ~failed
  /\ sync_outcome(failed)
  /\ files' = IF failed \/ journal.closed THEN files
              ELSE [files EXCEPT ![journal.base] = sync_mapping(@)]
  /\ journal' = IF failed THEN [returned EXCEPT !.closed = TRUE]
                ELSE [journal EXCEPT !.phase = "create", !.closed = TRUE, !.command = command]
  /\ UNCHANGED <<directory, acked, applied>>

\* MmapJournal::create up to the first synchronization: exclusive creation, then the
\* zeroed file and its header
create_file(base) ==
  /\ directory' = Append(directory, visible \union {base})
  /\ files' = [files EXCEPT ![base] = [NoFile EXCEPT !.header = "written"]]

create ==
  /\ journal.phase = "create"
  /\ \/ /\ next_sequence \in visible
        /\ journal' = returned
        /\ UNCHANGED <<directory, files>>
     \/ /\ next_sequence \notin visible
        /\ create_file(next_sequence)
        /\ journal' = [journal EXCEPT !.phase = "sync_header"]
  /\ UNCHANGED <<failures, acked, applied>>

\* cleanup_after_open_failure: after the failure of one call of create, the file is
\* unlinked and the directory synchronized; one or both may fail as well, which
\* counts as one more failure
cleanup_after_open_failure(base, versions) ==
  LET unlinked == Append(versions, visible \ {base})
  IN \/ failing(1) /\ directory' = <<visible \ {base}>>
     \/ failing(2) /\ directory' \in {unlinked, <<visible>>, versions}

sync_header(failed) ==
  /\ journal.phase = "sync_header"
  /\ \/ /\ failed
        /\ cleanup_after_open_failure(next_sequence, directory)
        /\ journal' = returned
        /\ UNCHANGED files
     \/ /\ ~failed
        /\ failing(0)
        /\ files' = [files EXCEPT ![next_sequence] = sync_mapping(@)]
        /\ journal' = [journal EXCEPT !.phase = "sync_parent"]
        /\ UNCHANGED directory
  /\ UNCHANGED <<acked, applied>>

\* The parent is synchronized and its descriptor closed; then the new segment is
\* active and the command that caused the rotation is appended to it
sync_parent(failed) ==
  /\ journal.phase = "sync_parent"
  /\ \/ /\ failed
        /\ \E versions \in {directory, <<visible>>} :
             cleanup_after_open_failure(next_sequence, versions)
        /\ journal' = returned
        /\ UNCHANGED files
     \/ /\ ~failed
        /\ failing(0)
        /\ directory' = <<visible>>
        /\ write_body(next_sequence, 0, journal.command)
        /\ journal' = [journal EXCEPT !.phase = "sync_body", !.base = next_sequence,
                                      !.size = 0, !.closed = FALSE]
  /\ UNCHANGED <<acked, applied>>

\* Mutant: the marker is written without waiting for the body
sync_body_later(failed) ==
  /\ journal.phase = "sync_body"
  /\ sync_outcome(failed)
  /\ files' = IF failed THEN files
              ELSE [files EXCEPT ![journal.base].records[journal.size + 1].marker = "written"]
  /\ journal' = IF failed THEN returned ELSE [journal EXCEPT !.phase = "sync_marker"]
  /\ UNCHANGED <<directory, acked, applied>>

\* The record's body is synchronized and its commit marker written.  After a
\* failure the slot may be used again.
sync_body(failed) ==
  /\ journal.phase = "sync_body"
  /\ sync_outcome(failed)
  /\ files' = IF failed THEN files
              ELSE [files EXCEPT ![journal.base] =
                      [sync_mapping(@) EXCEPT !.records[journal.size + 1].marker = "written"]]
  /\ journal' = IF failed THEN returned ELSE [journal EXCEPT !.phase = "sync_marker"]
  /\ UNCHANGED <<directory, acked, applied>>

\* Mutant: the writer goes on after commit_indeterminate
sync_marker_unpoisoned(failed) ==
  /\ journal.phase = "sync_marker"
  /\ sync_outcome(failed)
  /\ \/ /\ failed
        /\ journal' = returned
        /\ UNCHANGED <<files, acked, applied>>
     \/ /\ ~failed
        /\ files' = [files EXCEPT ![journal.base] = sync_mapping(@)]
        /\ journal' = [returned EXCEPT !.size = @ + 1,
                                       !.last_logical_time = journal.command.logical_time]
        /\ acked' = acked \union {journal.command}
        /\ applied' = applied \union {journal.command}
  /\ UNCHANGED directory

\* The commit marker is synchronized: none, or commit_indeterminate and a poisoned writer
sync_marker(failed) ==
  /\ journal.phase = "sync_marker"
  /\ sync_outcome(failed)
  /\ \/ /\ failed
        /\ journal' = [returned EXCEPT !.poisoned = TRUE]
        /\ UNCHANGED <<files, acked, applied>>
     \/ /\ ~failed
        /\ files' = [files EXCEPT ![journal.base] = sync_mapping(@)]
        /\ journal' = [returned EXCEPT !.size = @ + 1,
                                       !.last_logical_time = journal.command.logical_time]
        /\ acked' = acked \union {journal.command}
        /\ applied' = applied \union {journal.command}
  /\ UNCHANGED directory

\* RotatingJournal::close at the end of the process; a segment whose
\* synchronization fails is unmapped and closed all the same
close(failed) ==
  /\ journal.phase = "idle"
  /\ journal.closed => ~failed
  /\ sync_outcome(failed)
  /\ files' = IF failed \/ journal.closed THEN files
              ELSE [files EXCEPT ![journal.base] = sync_mapping(@)]
  /\ journal' = [returned EXCEPT !.phase = "down"]
  /\ UNCHANGED <<directory, acked, applied>>

\* The process ends in the middle of anything: the page cache stays
exit ==
  /\ journal.phase \in ExitPhases \ {"down"}
  /\ journal' = [returned EXCEPT !.phase = "down"]
  /\ UNCHANGED <<directory, files, failures, acked, applied>>

\* The machine crashes: one version of the directory and of every file is left
crash ==
  /\ \E version \in DOMAIN directory : directory' = <<directory[version]>>
  /\ LET dirty == { base \in Bases : crashed_files(files[base]) # {files[base]} }
     IN \E left \in [dirty -> UNION { crashed_files(files[base]) : base \in dirty }] :
          /\ \A base \in dirty : left[base] \in crashed_files(files[base])
          /\ files' = [base \in Bases |-> IF base \in dirty THEN left[base] ELSE files[base]]
  /\ journal' = [returned EXCEPT !.phase = "down"]
  /\ UNCHANGED <<failures, acked, applied>>

\* RotatingJournal::resume: the chain is validated, every segment but the last is
\* closed (and so synchronized), the last one becomes active; the application
\* replays what the chain holds
resume(failed) ==
  /\ journal.phase = "down"
  /\ segment_set_opens(visible)
  /\ failed => Cardinality(visible) > 1
  /\ sync_outcome(failed)
  /\ LET last == Max(visible)
     IN \/ /\ failed
           /\ UNCHANGED <<files, journal, applied>>
        \/ /\ ~failed
           /\ files' = [base \in Bases |-> IF base \in visible \ {last} THEN sync_mapping(files[base])
                                           ELSE files[base]]
           /\ journal' = [phase |-> "idle", base |-> last, size |-> segment_size(files[last]),
                          last_logical_time |-> last_time(files[last]), poisoned |-> FALSE,
                          closed |-> FALSE, command |-> NoCommand]
           /\ applied' = applied \union history(visible)
  /\ UNCHANGED <<directory, acked>>

Next ==
  \/ \E command \in Command : append(command)
  \/ \E command \in Command, failed \in BOOLEAN : rotate(command, failed)
  \/ create
  \/ \E failed \in BOOLEAN : sync_header(failed)
  \/ \E failed \in BOOLEAN : sync_parent(failed)
  \/ \E failed \in BOOLEAN : sync_body(failed)
  \/ \E failed \in BOOLEAN : sync_marker(failed)
  \/ \E failed \in BOOLEAN : close(failed)
  \/ exit
  \/ crash
  \/ \E failed \in BOOLEAN : resume(failed)

Spec == Init /\ [][Next]_vars

-----------------------------------------------------------------------------
\* Properties

\* Every variable has its type; the active segment is one the directory names.
TypeOK ==
  /\ directory \in Seq(SUBSET Bases) /\ Len(directory) > 0
  /\ files \in [Bases -> File]
  /\ journal \in Journal
  /\ journal.phase # "down" => journal.base \in visible
  /\ failures \in 0..SyncFailures
  /\ acked \subseteq Command
  /\ applied \subseteq Command

\* Segments whose creation a crash has cut short: they have no header
interrupted == { base \in visible : files[base].header = "none" }

\* A command for which append() returned none is never lost: whenever the process
\* is down, the segments (but for one whose creation was cut short) form a chain
\* that JournalSegmentSet::open accepts, and it holds every acknowledged command.
AckedRecoverable ==
  journal.phase = "down" =>
    /\ segment_set_opens(visible \ interrupted)
    /\ acked \subseteq history(visible \ interrupted)

\* While the journal is in use, what recover() would find in the active segment is
\* what the writer believes it holds: one record more only while a commit is in
\* flight or after commit_indeterminate, never one less.
WriterAgreesWithDisk ==
  journal.phase # "down" =>
    LET found == segment_size(files[journal.base])
    IN /\ recover(journal.base, files[journal.base])
       /\ found = journal.size + 1 => journal.phase = "sync_marker" \/ journal.poisoned
       /\ found \in {journal.size, journal.size + 1}

\* Whatever a crash leaves, JournalSegmentSet::open accepts it.
CrashLeavesValidChain ==
  journal.phase = "down" => segment_set_opens(visible)

\* A command the application has applied, because append() returned none or
\* because recovery found it in the journal, stays in the journal.
AppliedSurvives ==
  journal.phase = "down" => applied \subseteq history(visible)

\* Logical times never decrease along the chain, so that a replay, which rejects a
\* decreasing time, accepts every command of it.
TimesNeverDecrease ==
  \A earlier, later \in history(visible) :
    earlier.sequence < later.sequence => earlier.logical_time <= later.logical_time
=============================================================================
