\* A file of up to nine records and one of four: neighbours out of order, and one
\* record that is larger or lacks the key.
CONSTANTS
  SCAN_THRESHOLD = 6
  PREFIX_AMOUNT = 4
  Overrun = 6
  Disorder = 2
  KeyGap = 4
  Sizes = {2, 4}
  Ordinary = 2
  MaxRecords = 9
  MaxOdd = 1
  MaxFiles = 2
SPECIFICATION BisectSpec
INVARIANTS
  PrintsMatches
  FirstInReach
PROPERTY BisectEnds
CHECK_DEADLOCK FALSE
