SPECIFICATION Spec
CONSTANTS
  Last = 2
  Bodies = {1}
  Metas = {1}
  Size <- MCSize
  Prefixes <- OnePrefix
  Full = FALSE
  MaxObjects = 1
  MaxObjectBytes = 1
  MaxTotalBytes = 1
  PackObjects = 1
  PackBytes = 2
  MaxWrites = 0
  MaxStops = 1
  NoFile = NoFile
  NoObject = NoObject
  NoMeta = NoMeta
INVARIANTS
  TruncationReported
