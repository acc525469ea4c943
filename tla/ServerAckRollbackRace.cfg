\* an ack of the old connection against the rollback of the new one
CONSTANTS
  b1 = b1
  r1 = r1
  e1 = e1
  b2 = b2
  r2 = r2
  g1 = g1
  q1 = q1
  Event = {b1, r1, e1, b2, r2, g1, q1}
  NoEvent = NoEvent
  NoPosition = NoEvent
  KindOf <- MCKindOf
  RawLength <- MCRawLength
  BufferSize = 4
  BufferMemUnit = 1
  MemMode = TRUE
  DdlIsolation = FALSE
  IntBound = 64
  BatchSizes = {1, 2}
  MaxData = 3
  MaxLog = 5
  Conn = {c1, c2}
  Free = Free
  Stream <- MCStream
  Requests = {"subscribe", "getWithoutAck", "ack", "rollback"}
  MaxBatchId = 3
SPECIFICATION ServerSpec
INVARIANTS FirstAlwaysFetchable
CHECK_DEADLOCK FALSE
