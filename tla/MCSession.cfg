SPECIFICATION FairSpec
CONSTANTS
  Mine = {v}
  Foreign = {other}
  NoEntry = noEntry
  MaxSlot = 2
  Window = 2
  MaxRelease = 2
  Patience = 1
  MaxRecords = 1
  MaxFrames = 1
  MaxFailures = 2
INVARIANTS RevealedIsDurable PrefixIsHeld ReceiptIsTruth
PROPERTIES CallsReturn
CHECK_DEADLOCK FALSE
