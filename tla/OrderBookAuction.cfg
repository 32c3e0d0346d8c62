CONSTANTS
  s1 = s1
  s2 = s2
  s3 = s3
  s4 = s4
  Slots = {s1, s2, s3, s4}
  NoSlot = NoSlot
  TickCount = 3
  MaxQuantity = 2
  QuantityRange = 16
  Traders = {0}
  Triggers = {0}
  SelfTradePolicy = "none"
  AllocationMode = "fifo"
  ProRataMinimum = 1
  InitialState = "opening_auction"
  Commands = {"limit", "uncross"}
SPECIFICATION Spec
SYMMETRY SlotSymmetry
INVARIANTS Uncrossed AuctionOptimal
