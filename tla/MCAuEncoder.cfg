\* Three records of two values, or two records and a call of the dictionary
\* operations: every hint, every kind of maintenance.
CONSTANTS
  price = price
  symbol = symbol
  venue = venue
  Str <- MCStr
  StrLen <- MCStrLen
  StrOrd <- MCStrOrd
  TinyStr = 4
  InternThresh = 1
  InternCacheSize = 1
  ReserveSize = 2
  MaxCount = 2
  Scalar = Scalar
  ScalarSize = 9
  HeaderSize = 6
  PurgeInterval = 2
  PurgeThreshold = 2
  ReindexInterval = 3
  ClearThreshold = 1
  BackrefThreshold = 26
  MaxBackref = 31
  MaxStrLen = 12
  MaxTokens = 2
  MaxRecords = 3
  MaxCalls = 1
SPECIFICATION EncSpec
INVARIANTS
  InternTypeOK
  IndexNamesItsString
  ViewsNeverDangle
  TrackerConsistent
  BackrefsLand
  BackrefsBounded
  BackrefsFit
CHECK_DEADLOCK FALSE
