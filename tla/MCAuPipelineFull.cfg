\* The vector fills up within a record (1.2 * 2 strings are reserved).
CONSTANTS
  price = price
  symbol = symbol
  venue = venue
  Str <- MCStr
  StrLen <- MCStrLen
  StrOrd <- MCStrOrd
  TinyStr = 4
  InternThresh = 1
  InternCacheSize = 1
  ReserveSize = 2
  MaxCount = 3
  Scalar = Scalar
  ScalarSize = 9
  HeaderSize = 6
  PurgeInterval = 0
  PurgeThreshold = 2
  ReindexInterval = 0
  ClearThreshold = 2
  BackrefThreshold = 30
  MaxBackref = 36
  MaxStrLen = 6
  MaxTokens = 3
  MaxRecords = 1
  MaxCalls = 0
  MaxDicts = 1
SPECIFICATION PipeSpec
INVARIANT DeliveredAsWritten
CHECK_DEADLOCK FALSE
