SPECIFICATION HalfVotedSpec
CONSTANTS
  Node = {1, 2, 3}
  Leader = 1
  Heard <- Split
  Priority <- NoPriority
  Value = {v}
  Noop = noop
  NoValue = none
  ReadQuorum = 2
  WriteQuorum = 2
  Window = 2
  Chunk = 2
  MaxSlot = 3
  MaxRound = 2
  Campaigners = {2}
  Gate = FALSE
  OnceOnly = {}
  Lost = {"Nack"}
  Calls = {}
  LaggingHost = FALSE
  MaxTrims = 0
  MaxCrashes = 0
INVARIANTS Agreement
