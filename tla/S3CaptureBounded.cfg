SPECIFICATION MCSpec
CONSTANTS
  Last = 3
  Bodies = {1, 2, 3}
  Metas = {1}
  Size <- MCSize
  Prefixes <- OnePrefix
  Full = FALSE
  MaxObjects = 2
  MaxObjectBytes = 2
  MaxTotalBytes = 3
  PackObjects = 2
  PackBytes = 3
  MaxWrites = 1
  MaxStops = 1
  NoFile = NoFile
  NoObject = NoObject
  NoMeta = NoMeta
INVARIANTS
  LimitsHeld
PROPERTIES
  Completes
