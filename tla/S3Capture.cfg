SPECIFICATION Spec
CONSTANTS
  Last = 2
  Bodies = {1, 2}
  Metas = {1}
  Size <- MCSize
  Prefixes <- TwoPrefixes
  Full = TRUE
  MaxObjects = 1
  MaxObjectBytes = 1
  MaxTotalBytes = 1
  PackObjects = 2
  PackBytes = 2
  MaxWrites = 2
  MaxStops = 2
  NoFile = NoFile
  NoObject = NoObject
  NoMeta = NoMeta
INVARIANTS
  CheckpointSound
  DatasetCurrent
  PacksMatchInventory
