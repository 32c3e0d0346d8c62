CONSTANTS
  s1 = s1
  s2 = s2
  s3 = s3
  Slots = {s1, s2, s3}
  NoSlot = NoSlot
  TickCount = 2
  MaxQuantity = 2
  QuantityRange = 16
  Traders = {0, 1}
  Triggers = {0}
  SelfTradePolicy = "cancel_taker"
  AllocationMode = "threshold_pro_rata"
  ProRataMinimum = 1
  InitialState = "continuous"
  Commands = {"limit", "market", "cancel", "amend"}
SPECIFICATION Spec
SYMMETRY SlotSymmetry
PROPERTIES
  NoOverfill
  QuantityConserved
  NoSelfTrade
