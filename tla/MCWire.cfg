SPECIFICATION Spec
CONSTANTS
  bytes = bytes
  long = long
  Body <- Bodies
  NoBody = ""
  Oversized = {long}
  Stop = {}
  NoStop = noStop
  Member <- Members
  Absent = 5
  Build <- TwoBuilds
  Configuration <- TwoConfigurations
  Leaver = {1, 2}
  Depth = 2
  Traffic <- ThreeMessages
INVARIANTS TakenAsSent TakenInOrder NewestAreKept
CHECK_DEADLOCK FALSE
