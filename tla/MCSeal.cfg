SPECIFICATION SealingSpec
CONSTANTS
  Node = {1, 2}
  Priority <- NoPriority
  Command = v
  Leftover = 2
  Value = {v, stop}
  Stop = {stop}
  Noop = noop
  NoValue = none
  ReadQuorum = 1
  WriteQuorum = 2
  Window = 2
  Chunk = 2
  MaxSlot = 3
  MaxRound = 3
  Campaigners = {1}
  Gate = FALSE
  OnceOnly = {"Prepare", "Promise", "Promise_Range", "Accept", "Accepted", "Commit", "Nack", "Learn", "Heartbeat"}
  Lost = {"Nack"}
  Calls = {"floor", "partial", "catch_up"}
  LaggingHost = FALSE
  MaxTrims = 0
  MaxCrashes = 1
INVARIANTS NothingAboveTheSeal ReadsEndAtTheSeal NothingNewAboveAStop
CHECK_DEADLOCK FALSE
