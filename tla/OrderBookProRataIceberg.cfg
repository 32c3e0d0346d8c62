CONSTANTS
  s1 = s1
  s2 = s2
  Slots = {s1, s2}
  NoSlot = NoSlot
  TickCount = 1
  MaxQuantity = 4
  QuantityRange = 16
  Traders = {0}
  Triggers = {0}
  SelfTradePolicy = "none"
  AllocationMode = "threshold_pro_rata"
  ProRataMinimum = 1
  InitialState = "continuous"
  Commands = {"limit", "iceberg"}
SPECIFICATION Spec
PROPERTIES NoOverfill
