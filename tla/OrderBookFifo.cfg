CONSTANTS
  s1 = s1
  s2 = s2
  s3 = s3
  Slots = {s1, s2, s3}
  NoSlot = NoSlot
  TickCount = 2
  MaxQuantity = 2
  QuantityRange = 16
  Traders = {0}
  Triggers = {0}
  SelfTradePolicy = "none"
  AllocationMode = "fifo"
  ProRataMinimum = 1
  InitialState = "continuous"
  Commands = {"limit", "post_only", "iceberg", "market", "cancel", "amend", "replace"}
SPECIFICATION Spec
SYMMETRY SlotSymmetry
INVARIANTS QuantitiesConsistent RestHasSlot FokFills
PROPERTIES TimePriority
