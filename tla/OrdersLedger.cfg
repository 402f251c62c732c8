\* Two competing orders, the expiration task and the seller's order page.
SPECIFICATION Spec
CONSTANTS
  r1 = r1
  r2 = r2
  s1 = s1
  w1 = w1
  w2 = w2
  Beat = beat
  None = None
  Requests = {r1, r2}
  Sales = {s1}
  Products = {1, 2}
  Sessions = {w1, w2, beat}
  SaleOf <- MCSaleOf
  Quantity <- MCQuantity
  Batches <- NoBatches
  Levels <- MCLevels
SYMMETRY WebSymmetry
INVARIANTS
  TypeOK
  LedgerMatchesOrders
  OrderMatchesDelivery
  AcceptedExists
PROPERTIES
  NoOrderAfterClose
  ExpiryRespectsConfirm
  FinalIsFinal
  ImplementsInventory
