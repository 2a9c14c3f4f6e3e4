SPECIFICATION FairElectedSpec
CONSTANTS
  Node = {1, 2}
  Leader = 1
  Heard <- AllFirst
  Priority <- NoPriority
  Value = {v}
  Noop = noop
  NoValue = none
  ReadQuorum = 2
  WriteQuorum = 2
  Window = 2
  Chunk = 1
  MaxSlot = 3
  MaxRound = 2
  Campaigners = {2}
  Gate = FALSE
  OnceOnly = {"Prepare", "Promise", "Promise_Range", "Accept", "Accepted", "Commit", "Nack", "Learn", "Heartbeat"}
  Lost = {"Nack"}
  Calls = {"heartbeat"}
  LaggingHost = FALSE
  MaxTrims = 0
  MaxCrashes = 0
PROPERTIES ChosenReachesEveryHost CampaignsEnd
