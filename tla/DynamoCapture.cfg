SPECIFICATION FairSpec
CONSTANTS
  Last = 2
  Modes = {"full", "bounded", "cohort"}
  MaxItems = 1
  MaxPages = 2
  Limit = 1
  Rank <- MCRank
  FanIn = 2
  MaxStops = 2
  NoFile = NoFile
  Torn = Torn
INVARIANTS
  OneRowPerItem
  NothingMissed
  CohortExact
  CheckpointSound
  LimitsHeld
PROPERTIES
  Completes
