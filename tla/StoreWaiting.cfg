\* one producer, one consumer: waiting, timeouts, interrupts, rollbacks
CONSTANTS
  smallRow = smallRow
  bigRow = bigRow
  Event = {smallRow, bigRow}
  NoEvent = NoEvent
  KindOf <- MCKindOf
  RawLength <- MCRawLength
  BufferSize = 4
  BufferMemUnit = 2
  MemMode = TRUE
  DdlIsolation = FALSE
  IntBound = 16
  BatchSizes = {1}
  MaxData = 2
  MaxLog = 5
  Putter = {p1}
  Getter = {g1}
  NoCall = NoCall
  PutModes = {"put", "timedPut", "sink"}
  GetModes = {"get", "timedGet", "tryGet"}
  MaxUnacked = 1
  MaxFaults = 1
SPECIFICATION BlockingSpec
INVARIANTS NoLostWakeup FirstAlwaysFetchable EnoughMeansEnough
PROPERTIES ImplementsQueue GetsReturn PutsReturn
CHECK_DEADLOCK FALSE
