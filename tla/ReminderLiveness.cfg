SPECIFICATION FairSpec
CONSTANTS
  w1 = w1
  Workers = {w1}
  Matches = {1}
  Deadlines = {}
  Leads = {2}
  LeaseTicks = 1
  ManualTicks = 1
  MaxAttempts = 2
  MaxParts = 1
  MaxInstant = 2
  MaxDeliveries = 2
  MaxEdits = 1
  Delays = {0}
  MaxCrashes = 1
PROPERTY EveryDeliveryEnds
PROPERTY EveryOccurrenceEnds
