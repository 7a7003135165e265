SPECIFICATION Spec
CONSTANTS
  w1 = w1
  Workers = {w1}
  Matches = {}
  Deadlines = {1}
  Leads = {2}
  LeaseTicks = 1
  ManualTicks = 1
  MaxAttempts = 2
  MaxParts = 1
  MaxInstant = 2
  MaxDeliveries = 2
  MaxEdits = 3
  Delays = {0}
  MaxCrashes = 0
INVARIANT ManualCoversDeadline
