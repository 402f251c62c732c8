\* Two lines leave the same statement at once.
SPECIFICATION Spec
CONSTANTS
  l1 = l1
  l2 = l2
  w1 = w1
  w2 = w2
  Lines = {l1, l2}
  Margin <- MCMargin
  Sessions = {w1, w2}
  MaxWeek = 2
  MaxAttempts = 2
  MaxCorrections = 2
SYMMETRY Interchangeable
INVARIANT AmountIsSum
