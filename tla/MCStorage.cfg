SPECIFICATION Spec
CONSTANTS
  a = a
  b = b
  Process = {a, b}
  None = none
  Identity <- OtherNode
  Tears = {FALSE, TRUE}
  MaxRecords = 3
  MaxSlot = 2
  MaxHistory = 3
  MaxFailures = 3
INVARIANTS  AckedSurvives RefusedHoldsNothing RetainedSurvives
PROPERTIES StepsImplementJournal
CHECK_DEADLOCK FALSE
