\* two databases, split transactions, one broken dump or interrupt
CONSTANTS
  db1 = db1
  db2 = db2
  Parser = {db1, db2}
  Lists <- MCLists
  MaxFaults = 1
  MaxDump = 2
SPECIFICATION GroupSpec
INVARIANTS GroupTypeOK UnmixedWithoutFaults StreamsKept
PROPERTIES NoOvertaking Progress
CHECK_DEADLOCK FALSE
