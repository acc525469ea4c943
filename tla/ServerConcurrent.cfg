\* two connections of one client, every kind of request
CONSTANTS
  b1 = b1
  r1 = r1
  e1 = e1
  b2 = b2
  r2 = r2
  g1 = g1
  q1 = q1
  Event = {b1, r1, e1, b2, r2, g1, q1}
  NoEvent = NoEvent
  NoPosition = NoEvent
  KindOf <- MCKindOf
  RawLength <- MCRawLength
  BufferSize = 8
  BufferMemUnit = 1
  MemMode = FALSE
  DdlIsolation = FALSE
  IntBound = 64
  BatchSizes = {1, 2}
  MaxData = 2
  MaxLog = 5
  Conn = {c1, c2}
  Free = Free
  Stream <- MCGtidStream
  Requests = {"subscribe", "unsubscribe", "getWithoutAck", "get", "ack", "rollback", "rollbackBatch"}
  MaxBatchId = 3
SPECIFICATION ServerSpec
INVARIANTS ServerTypeOK BatchOrder OrderlyReleases CursorWasAcked
PROPERTIES UsesStore
CHECK_DEADLOCK FALSE
