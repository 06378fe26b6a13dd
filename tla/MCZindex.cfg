\* A file with or without a second member or an index.
CONSTANTS
  Blocks <- MCBlocks
  HeaderLen = 1
  TrailerLen = 1
  IndexEvery = 5
  WindowSize = 3
  ChunkSize = 3
  MaxLen = 4
SPECIFICATION ZSpec
INVARIANTS
  ZTypeOK
  AccessPointsSound
  LoadedIndexFits
  OutputIsData
  FailsOnlyAtEnd
PROPERTIES
  SeeksLand
  SeekEnds
CHECK_DEADLOCK FALSE
