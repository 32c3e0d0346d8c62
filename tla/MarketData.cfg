CONSTANTS
  Slots = {0, 1}
  NoSlot = 9
  MaxGeneration = 6
  MaxActiveOrders = 3
  MaxLanes = 1
  MaxOrderQuantity = 3
  MaxNotional = 4
  MinPrice <- MCMinPrice
  MaxPrice = 3
  MaxOrdersPerSecond = 2
  RateWindowSize = 3
  MaxValue = 5
  Contents <- MCContents
SPECIFICATION Spec
CHECK_DEADLOCK FALSE
INVARIANTS LiveOrdersKnown EngineFollowsSequencer RateBounded
PROPERTIES ReachesOwnOrder 
