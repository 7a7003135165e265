SYMMETRY Symmetry
SPECIFICATION DeliverySpec
CONSTANTS
  a = a
  b = b
  w1 = w1
  w2 = w2
  Workers = {w1, w2}
  m1 = m1
  Matches = {m1}
  Snapshots = {}
  Entities = {m1, "contest", "gone"}
  Kinds = {}
  Texts = {a, b}
  Contents <- TwoTexts
  MaxParts = 1
  MaxMessages = 2
  MaxUnknown = 1
  LeaseTicks = 1
  MaxAttempts = 1
  MaxRows = 1
  MaxRevision = 2
  MaxDelay = 1
  MaxBackoff = 0
  MaxCrashes = 1
PROPERTY ImplementsOutbox
PROPERTY OnlyOwnerRecords
