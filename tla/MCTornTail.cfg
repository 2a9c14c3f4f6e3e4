SPECIFICATION Spec
CONSTANTS
  a = a
  b = b
  Process = {a, b}
  None = none
  Identity <- OtherNode
  Tears = {FALSE, TRUE}
  MaxRecords = 2
  MaxSlot = 0
  MaxHistory = 0
  MaxFailures = 1
INVARIANT SyncedIsReplayed
CHECK_DEADLOCK FALSE
