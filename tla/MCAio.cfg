SPECIFICATION FairSpec
CONSTANTS
  Appender = {a, b}
  None = none
  MaxSlot = 2
  MaxCancels = 1
  MaxFailures = 1
INVARIANTS OneDischarge  WokenByTheRun NodeOutlivesDischarges
PROPERTIES NothingReturnsEarly CallsEnd
CHECK_DEADLOCK FALSE
