SPECIFICATION Spec
CONSTANTS
  w1 = w1
  w2 = w2
  m1 = m1
  s1 = s1
  Workers = {w1, w2}
  Matches = {m1}
  Snapshots = {s1}
  Entities = {m1, s1, "contest", "gone"}
  Kinds = {"swiss"}
  LeaseTicks = 1
  MaxAttempts = 2
  MaxRows = 2
  MaxRevision = 2
  MaxDelay = 1
  MaxBackoff = 1
  MaxCrashes = 1
SYMMETRY Symmetry
INVARIANT RevealScheduled
INVARIANT AnnouncedInOrder
PROPERTY NewerRevisionSurvives
PROPERTY SettledByItsOwner
