\* stops, crashes, broken dumps, rollbacks: at least once from end to end
CONSTANTS
  Event = {1, 2, 3, 4, 5}
  NoEvent = 0
  NoPosition = 0
  NoData = NoData
  KindOf <- MCKindOf
  RawLength <- MCRawLength
  BufferSize = 4
  BufferMemUnit = 1
  MemMode = FALSE
  DdlIsolation = FALSE
  IntBound = 64
  BatchSizes = {2}
  MaxData = 1
  MaxLog = 1
  TransactionSize = 2
  MasterPosition = 1
  MaxFaults = 2
SPECIFICATION DestinationSpec
INVARIANTS DestinationTypeOK NothingLost NoGap CursorsBehindAcks FirstPositionKept
PROPERTIES AllAcked
CHECK_DEADLOCK FALSE
