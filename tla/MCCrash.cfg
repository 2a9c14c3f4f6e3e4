SPECIFICATION Spec
CONSTANTS
  Node = {1, 2}
  Leader = 1
  Heard <- AllFirst
  Priority <- NoPriority
  Value = {v}
  Noop = noop
  NoValue = none
  ReadQuorum = 2
  WriteQuorum = 2
  Window = 1
  Chunk = 1
  MaxSlot = 2
  MaxRound = 2
  Campaigners = {1}
  Gate = FALSE
  OnceOnly = {"Prepare"}
  Lost = {"Nack"}
  Calls = {"resend", "toggle", "catch_up", "floor", "trim", "recover"}
  LaggingHost = FALSE
  MaxTrims = 1
  MaxCrashes = 1
INVARIANTS OneValuePerBallot RevealedIsDurable 
PROPERTIES ImplementsSynod LogsOnlyGrow
CHECK_DEADLOCK FALSE
