\* Allocation of stock, partner commissions, customer payments and flash sales, each on its own.
SPECIFICATION BackOfficeSpec
CONSTANTS
  r1 = r1
  r2 = r2
  w1 = w1
  w2 = w2
  Resellers = {r1, r2}
  Grantors = {w1, w2}
  MaxStock = 3
  f1 = f1
  f2 = f2
  f3 = f3
  s1 = s1
  s2 = s2
  Fees = {f1, f2, f3}
  Sellers = {s1, s2}
  SellerOf <- MCSellerOf
  Commission <- MCCommission
  Window = 1
  Minimum = 2
  Staff = {w1, w2}
  MaxMonth = 3
  b1 = b1
  b2 = b2
  k1 = k1
  Bills = {b1, b2}
  References = {k1}
  NoReference = NoReference
  Payers = {w1, w2}
  MaxRows = 3
  v1 = v1
  v2 = v2
  h1 = h1
  Sales = {v1, v2}
  Handlers = {h1}
  Opener = Opener
  Day = 2
  MaxDuration = 2
  MaxDailySales = 1
  Quota = 2
  CloneDelay = 1
  Horizon = 3
CHECK_DEADLOCK FALSE
SYMMETRY Interchangeable
INVARIANTS
  BackOfficeTypeOK
  UnitsAccounted
  WithinCatalog
  PayoutIsSum
  InPayoutWasValidated
  CommissionInWindow
  LedgerTellsPayment
  WindowIsLegal
  OrderableDisjoint
  SalesWithinLimits
  LiveHasStarted
PROPERTIES
  PaidIsFinal
  OutcomeIsFinal
  NoWayBack
