SPECIFICATION Spec
CONSTANTS
  Last = 3
  Modes = {"full"}
  MaxItems = 2
  MaxPages = 3
  Limit = 1
  Rank <- MCRank
  FanIn = 2
  MaxStops = 1
  NoFile = NoFile
  Torn = Torn
INVARIANTS
  Resumable
