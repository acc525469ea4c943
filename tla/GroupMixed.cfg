\* one parser breaks off while another is inside its transaction
CONSTANTS
  db1 = db1
  db2 = db2
  Parser = {db1, db2}
  Lists <- MCLists
  MaxFaults = 1
  MaxDump = 2
SPECIFICATION GroupSpec
INVARIANTS Unmixed
CHECK_DEADLOCK FALSE
