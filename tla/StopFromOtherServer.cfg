\* the dialog of the instances of a server, three moves
CONSTANTS
  c1 = c1
  s1 = s1
  s2 = s2
  s3 = s3
  k1 = k1
  k2 = k2
  k3 = k3
  i1 = i1
  i2 = i2
  a1 = a1
  a2 = a2
  a3 = a3
  Cluster = {c1}
  Server = {s1, s2, s3}
  Config = {k1, k2, k3}
  Instance = {i1, i2}
  Address = {a1, a2, a3}
  None = None
  Slot <- MCSlot
  Views <- ServerViews
  Edits <- DetailsEdits
  InitialDb <- MCDb
  MaxMoves = 3
  MaxOthers = 0
  MaxFailures = 0
SPECIFICATION Spec
PROPERTY ClusterStopOnlyReleases
CHECK_DEADLOCK FALSE
