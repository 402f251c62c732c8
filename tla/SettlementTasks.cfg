\* One sale, from the order to the payout, under the tasks of the beat.
SPECIFICATION FairSpec
CONSTANTS
  l1 = l1
  l2 = l2
  w1 = w1
  w2 = w2
  Lines = {l1}
  Margin <- MCMargin
  Sessions = {w1}
  MaxWeek = 3
  MaxAttempts = 3
  MaxCorrections = 2
PROPERTIES
  SilenceIsConsent
  OrderIsAnswered
