CONSTANTS
  SegmentCapacity = 2
  LastSequence = 5
  LogicalTimes <- MCLogicalTimes
  SyncFailures = 1
  ExitPhases = {"idle", "sync_body"}
SPECIFICATION Spec
INVARIANTS AckedRecoverable WriterAgreesWithDisk
