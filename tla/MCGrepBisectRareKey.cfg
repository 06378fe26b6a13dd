\* A file whose records lose the key.
CONSTANTS
  SCAN_THRESHOLD = 6
  PREFIX_AMOUNT = 4
  Overrun = 12
  Disorder = 0
  KeyGap = 2
  Sizes = {2}
  Ordinary = 2
  MaxRecords = 5
  MaxOdd = 3
  MaxFiles = 1
SPECIFICATION BisectSpec
INVARIANT OrderedLikeKey
CHECK_DEADLOCK FALSE
