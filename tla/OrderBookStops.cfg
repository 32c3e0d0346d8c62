CONSTANTS
  s1 = s1
  s2 = s2
  Slots = {s1, s2}
  NoSlot = NoSlot
  TickCount = 2
  MaxQuantity = 2
  QuantityRange = 16
  Traders = {0}
  Triggers = {0, 1}
  SelfTradePolicy = "none"
  AllocationMode = "fifo"
  ProRataMinimum = 1
  InitialState = "continuous"
  Commands = {"limit", "iceberg", "market", "stop", "replace", "cancel", "amend"}
SPECIFICATION Spec
INVARIANTS LinksConsistent StopsSettled 
PROPERTIES CallReturns
