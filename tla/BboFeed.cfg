CONSTANTS
  r1 = r1
  Readers = {r1}
  NoPrice = NoPrice
  Prices <- MCPrices
  Quantities <- MCQuantities
  MaxRetries = 2
  MaxPublished = 2
SPECIFICATION PSpec
INVARIANTS ReadIsAtomic
PROPERTIES ReadReturns FeedCatchesUp
