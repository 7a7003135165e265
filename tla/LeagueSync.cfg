SPECIFICATION FairSpec
CONSTANTS
  w = w
  a = a
  Pairs = {1}
  Positions = {1}
  TieIds = {1, 2}
  Statuses = {"TIMED", "POSTPONED", "FINISHED"}
  Schedules <- TwoSchedules
  Scores <- TwoScores
  Decisions <- ExtraTime
  Syncs = {w, a}
  Worker = w
  MaxInstant = 2
  MaxReports = 2
  MaxEvents = 1
INVARIANT LeagueTypeOK
INVARIANT BoundToOwnTie
PROPERTY DeletedStaysDeleted
PROPERTY ResultsKept
PROPERTY EveryReportSettles
CHECK_DEADLOCK FALSE
