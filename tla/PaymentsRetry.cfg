\* Two requests with one client reference, both of which find it unused.
SPECIFICATION PaymentsSpec
CONSTANTS
  Bills = {b1}
  References = {k1}
  NoReference = NoReference
  Payers = {w1, w2}
  MaxRows = 2
INVARIANTS
  DuplicateIsReplayed
