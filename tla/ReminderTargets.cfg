SPECIFICATION Spec
CONSTANTS
  w1 = w1
  Workers = {w1}
  Matches = {1}
  Deadlines = {2}
  Leads = {1, 2}
  LeaseTicks = 1
  ManualTicks = 1
  MaxAttempts = 2
  MaxParts = 1
  MaxInstant = 2
  MaxDeliveries = 2
  MaxEdits = 2
  Delays = {0}
  MaxCrashes = 0
INVARIANT OneReminderPerOccurrence
INVARIANT BatchedIsLive
PROPERTY BeginsForThePresent
