SPECIFICATION MCSpec
CONSTANTS
  N = 3
  Concurrency = 2
  Requests <- MCRequests
  None = None
  MaxPulls = 2
INVARIANTS
  OutcomeFaithful
  NoStrayWriter
  AsRequested
  LedgerInstalled
PROPERTIES
  CheckpointsKept
  PullReturns
\* The number of pulls is bounded.
CHECK_DEADLOCK FALSE
