\* A cancellation saved late lets one payment extend the subscription twice.
SPECIFICATION Spec
CONSTANTS
  p1 = p1
  p2 = p2
  w1 = w1
  w2 = w2
  Beat = beat
  Free = free
  Payments = {p1}
  Plans = {medium, pro}
  Days <- MCDays
  SpecialPlan = pro
  SpecialDays = 1
  MaxUses = 1
  TrialPlan = pro
  TrialDays = 1
  Sessions = {w1, w2, beat}
  Horizon = 2
INVARIANTS
  ActivatedOnce
