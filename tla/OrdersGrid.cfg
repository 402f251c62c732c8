\* One order of two products, its expiration and a batch that corrects and attaches both.
SPECIFICATION FairSpec
CONSTANTS
  r1 = r1
  r2 = r2
  s1 = s1
  w1 = w1
  w2 = w2
  Beat = beat
  None = None
  Requests = {r2}
  Sales = {s1}
  Products = {1, 2}
  Sessions = {w1, w2, beat}
  SaleOf <- MCSaleOf
  Quantity <- MCQuantity
  Batches <- BothProducts
  Levels <- ZeroOrOne
INVARIANTS
  StockLedger
  LockedStockSuffices
  OnlyAttachDeadlocks
PROPERTIES
  StaleOrdersEnd
