SPECIFICATION FairSpec
CONSTANTS
  Ups = {"u1"}
  Bundle <- MCBundle
  Policy <- MCPolicy
  Batch <- MCBatch
  Workers = 2
  Attempts = 2
  MaxStarts = 2
  MaxEdits = 1
INVARIANTS
  ReplayFaithful
  PoolsContained
  UpTruthful
PROPERTIES
  IncompatibleStops
  EverythingEnds
\* The containers are started a bounded number of times.
CHECK_DEADLOCK FALSE
