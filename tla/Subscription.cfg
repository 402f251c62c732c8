\* Two payments that race webhooks, returns, cancellations and the status check.
SPECIFICATION FairSpec
CONSTANTS
  p1 = p1
  p2 = p2
  w1 = w1
  w2 = w2
  Beat = beat
  Free = free
  Payments = {p1, p2}
  Plans = {pro}
  Days <- MCDays
  SpecialPlan = pro
  SpecialDays = 1
  MaxUses = 1
  TrialPlan = pro
  TrialDays = 1
  Sessions = {w1, beat}
  Horizon = 2
INVARIANTS
  TypeOK
  OnlyPaidActivates
  AgainOnlyIfUndone
  PaidDaysGiven
PROPERTIES
  CashedIsSettled
