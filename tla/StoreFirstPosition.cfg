\* getFirstPosition on a ring full of unacked events
CONSTANTS
  smallRow = smallRow
  bigRow = bigRow
  ddlRow = ddlRow
  Event = {smallRow, bigRow, ddlRow}
  NoEvent = NoEvent
  KindOf <- MCKindOf
  RawLength <- MCRawLength
  BufferSize = 4
  BufferMemUnit = 2
  MemMode = TRUE
  DdlIsolation = TRUE
  IntBound = 16
  BatchSizes = {1, 2}
  MaxData = 2
  MaxLog = 5
SPECIFICATION Spec
INVARIANTS FirstPositionIsLastAcked
