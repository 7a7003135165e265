SPECIFICATION DeliverySpec
CONSTANTS
  a = a
  b = b
  w1 = w1
  Workers = {w1}
  m1 = m1
  Matches = {m1}
  Snapshots = {}
  Entities = {m1, "contest", "gone"}
  Kinds = {"swiss"}
  Texts = {a, b}
  Contents <- OneOrTwoParts
  MaxParts = 2
  MaxMessages = 4
  MaxUnknown = 0
  LeaseTicks = 1
  MaxAttempts = 2
  MaxRows = 1
  MaxRevision = 3
  MaxDelay = 1
  MaxBackoff = 0
  MaxCrashes = 0
INVARIANT DeliveryTypeOK
INVARIANT NoUntrackedMessage
INVARIANT RecordIsShown
PROPERTY PublishedIsShown
PROPERTY WithdrawnIsGone
