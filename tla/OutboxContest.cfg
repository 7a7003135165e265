SPECIFICATION FairSpec
CONSTANTS
  w1 = w1
  m1 = m1
  Workers = {w1}
  Matches = {m1}
  Snapshots = {}
  Entities = {m1, "contest", "gone"}
  Kinds = {"champion"}
  LeaseTicks = 2
  MaxAttempts = 2
  MaxRows = 3
  MaxRevision = 2
  MaxDelay = 2
  MaxBackoff = 1
  MaxCrashes = 1
INVARIANT TypeOK
INVARIANT DisabledIsSettled
INVARIANT NoEarlyReveal
INVARIANT FinalOrder
INVARIANT LoneWorkerKeepsClaim
PROPERTY EveryRowSettles
PROPERTY EveryRevealHappens
