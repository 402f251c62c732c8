\* Two sales of one reseller: confirmations, corrections, statements and payouts.
SPECIFICATION Spec
CONSTANTS
  l1 = l1
  l2 = l2
  w1 = w1
  w2 = w2
  Lines = {l1, l2}
  Margin <- MCMargin
  Sessions = {w1}
  MaxWeek = 2
  MaxAttempts = 2
  MaxCorrections = 1
SYMMETRY Interchangeable
INVARIANTS
  TypeOK
  OneLivePayout
  LinesFollowStatement
PROPERTIES
  ConfirmedKept
  AmountFrozen
  ImplementsDebt
