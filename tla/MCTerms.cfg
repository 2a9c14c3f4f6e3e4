SPECIFICATION ElectedSpec
CONSTANTS
  Node = {1, 2, 3}
  Leader = 1
  Heard <- AllFirst
  Priority <- NoPriority
  Value = {v}
  Noop = noop
  NoValue = none
  ReadQuorum = 2
  WriteQuorum = 2
  Window = 1
  Chunk = 1
  MaxSlot = 2
  MaxRound = 2
  Campaigners = {2}
  Gate = FALSE
  OnceOnly = {}
  Lost = {}
  Calls = {}
  LaggingHost = FALSE
  MaxTrims = 0
  MaxCrashes = 0
INVARIANTS TypeOK Agreement DecidedIsChosen LeaderOwnsItsBallot NeverOutbid
