SPECIFICATION DeliverySpec
CONSTANTS
  a = a
  b = b
  w1 = w1
  Workers = {w1}
  m1 = m1
  Matches = {m1}
  Snapshots = {}
  Entities = {m1, "contest", "gone"}
  Kinds = {"swiss"}
  Texts = {a, b}
  Contents <- TwoTexts
  MaxParts = 1
  MaxMessages = 1
  MaxUnknown = 0
  LeaseTicks = 1
  MaxAttempts = 1
  MaxRows = 1
  MaxRevision = 5
  MaxDelay = 0
  MaxBackoff = 0
  MaxCrashes = 0
PROPERTY SettledIsShown
SYMMETRY Symmetry
