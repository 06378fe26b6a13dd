\* Files of four values with up to two more dictionary records.
CONSTANTS
  MaxDicts = 2
  Options <- MCOptions
  ScanRecords = 2
  MaxValues = 4
  MaxDictRecs = 2
SPECIFICATION GrepSpec
INVARIANTS
  PrintsWanted
  CountsHits
  ContextReadable
PROPERTIES
  RewindsPinned
  GrepEnds
CHECK_DEADLOCK FALSE
