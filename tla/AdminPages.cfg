\* all pages, two calls in flight, three moves of the user
CONSTANTS
  c1 = c1
  s1 = s1
  s2 = s2
  s3 = s3
  k1 = k1
  k2 = k2
  k3 = k3
  i1 = i1
  i2 = i2
  a1 = a1
  a2 = a2
  a3 = a3
  Cluster = {c1}
  Server = {s1, s2, s3}
  Config = {k1, k2, k3}
  Instance = {i1, i2}
  Address = {a1, a2, a3}
  None = None
  Slot <- MCSlot
  Views <- AllViews
  Edits <- AllEdits
  InitialDb <- MCDb
  MaxMoves = 3
  MaxOthers = 1
  MaxFailures = 1
SPECIFICATION Spec
INVARIANTS ConsoleTypeOK MaskHasFetch CreationsAreNew ConfigOwnedOnce
CHECK_DEADLOCK FALSE
