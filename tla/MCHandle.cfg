SPECIFICATION FairSpec
CONSTANTS
  Thread = {a, b}
  Main = a
  Nobody = nobody
  MaxGeneration = 2
  MaxWrites = 3
  WriteChunk = 2
  MaxReplay = 1
INVARIANTS OneCallInside  ObligationsAreMet LiveEntriesStay
 
CHECK_DEADLOCK FALSE
