SPECIFICATION FairSpec
CONSTANTS
  Account <- MCAccount
  Catalog <- MCCatalog
  MaxCommands = 2
  Events = 2
  Buffer = 2
INVARIANTS
  AsReviewed
  AccountChecked
  ResultLast
PROPERTIES
  StaleIgnored
  NotStuck
  PullConcludes
\* The user may quit.
CHECK_DEADLOCK FALSE
