SPECIFICATION Spec
CONSTANTS
  w1 = w1
  w2 = w2
  Workers = {w1, w2}
  Matches = {1}
  Deadlines = {}
  Leads = {2}
  LeaseTicks = 1
  ManualTicks = 1
  MaxAttempts = 2
  MaxParts = 2
  MaxInstant = 2
  MaxDeliveries = 2
  MaxEdits = 1
  Delays = {0, 1}
  MaxCrashes = 1
INVARIANT TypeOK
INVARIANT NoPartSentTwice
INVARIANT StatusTellsTruth
PROPERTY SendsAtMostOnce
