CONSTANTS
  Slots = {0, 1, 2}
  NoSlot = 9
  MaxGeneration = 2
  WordBits = 2
  TickCount = 5
  MinimumPrice = 1
  SideMask = 8
  MaxQuantity = 2
  MaxSequence = 2
  SelfTradePolicy = "none"
  AllocationMode = "fifo"
  ProRataMinimum = 0
  TradingState = "continuous"
  Traders = {0}
  Triggers = {1}
  QuantityRange = 16
  Places <- MCPlaces
  Sizes <- MCSizes
  StopOrders <- MCStopOrders
SPECIFICATION Spec
INVARIANTS HandlesIdentify SearchesExact SnapshotRestores DecodeAcceptsOnlyBooks
PROPERTIES ImplementsBook
