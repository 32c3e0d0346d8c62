CONSTANTS
  LastSequence = 4
  LogicalTimes <- MCLogicalTimes
  JournalCapacity = 3
  CommandCapacity = 2
  EventCapacity = 2
  MaximumEvents = 2
  Excess = 1
SPECIFICATION Spec
INVARIANTS
  VisibleIsDurable
  SequenceFollowsJournal
  EventsInOrder
  SnapshotAtBoundary
  
  StoppedIsDrained
PROPERTIES
  AcceptedIsPublished
  ShutdownEnds
