SPECIFICATION Spec
CONSTANTS
  w = w
  Pairs = {1}
  Positions = {1}
  TieIds = {1, 2}
  Statuses = {"TIMED", "POSTPONED", "FINISHED"}
  Schedules <- TwoSchedules
  Scores <- OneScore
  Decisions <- NoDecision
  Syncs = {w}
  Worker = w
  MaxInstant = 1
  MaxReports = 1
  MaxEvents = 2
PROPERTY DeletedNeverReturns
CHECK_DEADLOCK FALSE
