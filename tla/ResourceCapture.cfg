SPECIFICATION Spec
CONSTANTS
  Shards <- MCShards
  PageLimit = 2
  ReceiveMax = 2
  MaxWritten = 2
  KinesisLimits <- MCKinesis
  SQSLimits <- MCSQS
  S3Limits <- MCS3
  DynamoLimits <- MCDynamo
  DefaultRetained = 5
  Selections <- MCSelections
  Files <- MCFiles
  Items <- MCItems
INVARIANTS
  LimitsHeld
  NothingMissed
  PlanSuffices
  NoRawValue
  
  FilesLoad
