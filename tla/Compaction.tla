---------------------------- MODULE Compaction ------------------------------
(***************************************************************************)
(* Snapshots, replay and snapshot-driven compaction on top of the rotated  *)
(* journal: save_snapshot_atomic, replay_journal_segments and              *)
(* compact_journal_segments, with crashes and failing system calls between *)
(* any two of their steps.                                                 *)
(*                                                                         *)
(* A snapshot is the command at its boundary (sequence and logical time):  *)
(* the rest of it is the engine's state, which the commands determine.     *)
(* The snapshot lives in a directory of its own, kept like the journal's   *)
(* as the versions since its last synchronization.  As the runbook asks,   *)
(* compaction runs while the writer is down and only when the last save    *)
(* has returned none.  The exit of a process is not modelled here: it      *)
(* leaves what a crash that loses nothing leaves.                          *)
(***************************************************************************)
EXTENDS RotatingJournal

VARIABLES
  snapshots,   \* versions of the snapshot file since its directory was synchronized
  saving,      \* save_snapshot_atomic has renamed and not yet synchronized
  confirmed,   \* the snapshot of the last save that returned none
  compaction   \* compact_journal_segments: the step it is at and the segments to delete

compaction_vars == <<snapshots, saving, confirmed, compaction>>

NoSnapshot == [sequence |-> 0, logical_time |-> 0]

Compactor == [phase : {"none", "sync_header", "sync_parent", "unlink", "sync_directory"},
              obsolete : SUBSET Bases, snapshot_next : Bases]

snapshot == snapshots[Len(snapshots)]

idle_compaction == [phase |-> "none", obsolete |-> {}, snapshot_next |-> 1]

CInit ==
  /\ Init
  /\ snapshots = <<NoSnapshot>>
  /\ saving = FALSE
  /\ confirmed = NoSnapshot
  /\ compaction = idle_compaction

-----------------------------------------------------------------------------
\* Recovery

journal_end(bases) == Max(bases) + segment_size(files[Max(bases)])

\* replay_journal_segments from an engine restored at the snapshot
replay_succeeds(point, bases) ==
  /\ Min(bases) <= point.sequence + 1
  /\ point.sequence = 0 => Min(bases) = 1
  /\ point.sequence # 0 /\ Min(bases) # point.sequence + 1 => point \in history(bases)
  /\ point.sequence + 1 <= journal_end(bases)

-----------------------------------------------------------------------------
\* save_snapshot_atomic by the running engine, at any command boundary it is at

\* The temporary file is written, synchronized and renamed over the snapshot
save_snapshot(point) ==
  /\ journal.phase # "down"
  /\ ~saving
  /\ point.sequence > snapshot.sequence
  /\ snapshots' = Append(snapshots, point)
  /\ saving' = TRUE
  /\ UNCHANGED <<vars, confirmed, compaction>>

\* Mutant: the failure of the synchronization is ignored
sync_snapshot_unchecked(failed) ==
  /\ saving
  /\ sync_outcome(failed)
  /\ snapshots' = IF failed THEN snapshots ELSE <<snapshot>>
  /\ confirmed' = snapshot
  /\ saving' = FALSE
  /\ UNCHANGED <<directory, files, journal, acked, applied, compaction>>

\* The parent directory is synchronized: none, or commit_indeterminate
sync_snapshot(failed) ==
  /\ saving
  /\ sync_outcome(failed)
  /\ snapshots' = IF failed THEN snapshots ELSE <<snapshot>>
  /\ confirmed' = IF failed THEN confirmed ELSE snapshot
  /\ saving' = FALSE
  /\ UNCHANGED <<directory, files, journal, acked, applied, compaction>>

-----------------------------------------------------------------------------
\* compact_journal_segments

\* Every segment is opened under the advisory lock that a running writer holds
lockable == journal.phase = "down"

\* Mutant: the boundary is off by one
obsolete_segments_beyond ==
  { base \in visible :
      \A other \in { b \in visible : b <= base } :
        /\ segment_size(files[other]) > 0
        /\ other + segment_size(files[other]) <= snapshot.sequence + 2 }

\* The leading segments that hold nothing after the snapshot
obsolete_segments ==
  { base \in visible :
      \A other \in { b \in visible : b <= base } :
        /\ segment_size(files[other]) > 0
        /\ other + segment_size(files[other]) <= snapshot.sequence + 1 }

\* The snapshot and the segments are validated; when every segment is obsolete an
\* empty successor is created before the first deletion
compact ==
  /\ lockable
  /\ compaction.phase = "none"
  /\ confirmed = snapshot
  /\ segment_set_opens(visible)
  /\ Min(visible) <= snapshot.sequence + 1
  /\ snapshot.sequence + 1 <= journal_end(visible)
  /\ obsolete_segments # {}
  /\ \/ /\ obsolete_segments = visible
        /\ create_file(snapshot.sequence + 1)
        /\ compaction' = [phase |-> "sync_header", obsolete |-> visible,
                          snapshot_next |-> snapshot.sequence + 1]
     \/ /\ obsolete_segments # visible
        /\ compaction' = [phase |-> "unlink", obsolete |-> obsolete_segments,
                          snapshot_next |-> snapshot.sequence + 1]
        /\ UNCHANGED <<directory, files>>
  /\ UNCHANGED <<journal, failures, acked, applied, snapshots, saving, confirmed>>

\* The two synchronizations of MmapJournal::create for the successor
compact_sync_header(failed) ==
  /\ compaction.phase = "sync_header"
  /\ \/ /\ failed
        /\ cleanup_after_open_failure(compaction.snapshot_next, directory)
        /\ compaction' = idle_compaction
        /\ UNCHANGED files
     \/ /\ ~failed
        /\ failing(0)
        /\ files' = [files EXCEPT ![compaction.snapshot_next] = sync_mapping(@)]
        /\ compaction' = [compaction EXCEPT !.phase = "sync_parent"]
        /\ UNCHANGED directory
  /\ UNCHANGED <<journal, acked, applied, snapshots, saving, confirmed>>

compact_sync_parent(failed) ==
  /\ compaction.phase = "sync_parent"
  /\ \/ /\ failed
        /\ \E versions \in {directory, <<visible>>} :
             cleanup_after_open_failure(compaction.snapshot_next, versions)
        /\ compaction' = idle_compaction
     \/ /\ ~failed
        /\ failing(0)
        /\ directory' = <<visible>>
        /\ compaction' = [compaction EXCEPT !.phase = "unlink"]
  /\ UNCHANGED <<files, journal, acked, applied, snapshots, saving, confirmed>>

\* The first obsolete segment that is left is closed (and so synchronized) and
\* unlinked; a failure ends the compaction
unlink_segment(failed) ==
  /\ compaction.phase = "unlink"
  /\ sync_outcome(failed)
  /\ LET base == Min(compaction.obsolete)
         rest == compaction.obsolete \ {base}
     IN \/ /\ failed
           /\ compaction' = idle_compaction
           /\ UNCHANGED <<directory, files>>
        \/ /\ ~failed
           /\ files' = [files EXCEPT ![base] = sync_mapping(@)]
           /\ directory' = Append(directory, visible \ {base})
           /\ compaction' = [compaction EXCEPT
                               !.obsolete = rest,
                               !.phase = IF rest = {} THEN "sync_directory" ELSE "unlink"]
  /\ UNCHANGED <<journal, acked, applied, snapshots, saving, confirmed>>

\* The directory is synchronized: none, or commit_indeterminate
sync_directory(failed) ==
  /\ compaction.phase = "sync_directory"
  /\ sync_outcome(failed)
  /\ directory' = IF failed THEN directory ELSE <<visible>>
  /\ compaction' = idle_compaction
  /\ UNCHANGED <<files, journal, acked, applied, snapshots, saving, confirmed>>

-----------------------------------------------------------------------------
\* The journal's own steps, beside a save that is in progress

journal_step ==
  /\ \/ \E command \in Command : append(command)
     \/ \E command \in Command, failed \in BOOLEAN : rotate(command, failed)
     \/ create
     \/ \E failed \in BOOLEAN : sync_header(failed)
     \/ \E failed \in BOOLEAN : sync_parent(failed)
     \/ \E failed \in BOOLEAN : sync_body(failed)
     \/ \E failed \in BOOLEAN : sync_marker(failed)
     \/ ~saving /\ \E failed \in BOOLEAN : close(failed)
  /\ UNCHANGED compaction_vars

\* The application recovers: the snapshot is loaded, the journal replayed and resumed
recover_and_resume ==
  /\ compaction.phase = "none"
  /\ segment_set_opens(visible)
  /\ replay_succeeds(snapshot, visible)
  /\ \E failed \in BOOLEAN : resume(failed)
  /\ UNCHANGED compaction_vars

crash_all ==
  /\ crash
  /\ \E version \in DOMAIN snapshots : snapshots' = <<snapshots[version]>>
  /\ saving' = FALSE
  /\ compaction' = idle_compaction
  /\ UNCHANGED confirmed

CNext ==
  \/ journal_step
  \/ recover_and_resume
  \/ crash_all
  \/ \E point \in applied : save_snapshot(point)
  \/ \E failed \in BOOLEAN : sync_snapshot(failed)
  \/ compact
  \/ \E failed \in BOOLEAN : compact_sync_header(failed)
  \/ \E failed \in BOOLEAN : compact_sync_parent(failed)
  \/ \E failed \in BOOLEAN : unlink_segment(failed)
  \/ \E failed \in BOOLEAN : sync_directory(failed)

CSpec == CInit /\ [][CNext]_<<vars, compaction_vars>>

-----------------------------------------------------------------------------
\* Properties

\* Every variable has its type; compaction only ever deletes what the confirmed
\* snapshot covers, and only while the writer is down.
CTypeOK ==
  /\ TypeOK
  /\ snapshots \in Seq(Command \union {NoSnapshot}) /\ Len(snapshots) > 0
  /\ saving \in BOOLEAN
  /\ confirmed \in Command \union {NoSnapshot}
  /\ compaction \in Compactor
  /\ compaction.phase # "none" => journal.phase = "down" /\ ~saving

\* No crash, failing call or interrupted compaction loses an acknowledged command:
\* it is before the boundary of the snapshot or still in a segment.
NothingLost ==
  \A command \in acked :
    command.sequence <= snapshot.sequence \/ command \in history(visible)

\* Whenever nothing runs, recovery works: the segments (but for one whose creation
\* was cut short) form a chain that JournalSegmentSet::open accepts and that
\* replays from the snapshot, so that the writer resumes and compaction can be
\* tried again.
RecoveryWorks ==
  journal.phase = "down" /\ compaction.phase = "none" =>
    /\ segment_set_opens(visible \ interrupted)
    /\ replay_succeeds(snapshot, visible \ interrupted)
=============================================================================
