\* Encoder and follower, through every maintenance: five records, or four and one
\* call of the caller.
CONSTANTS
  price = price
  venue = venue
  Str <- MCStr
  StrLen <- MCStrLen
  StrOrd <- MCStrOrd
  TinyStr = 4
  InternThresh = 1
  InternCacheSize = 1
  ReserveSize = 3
  MaxCount = 2
  Scalar = Scalar
  ScalarSize = 9
  HeaderSize = 6
  PurgeInterval = 2
  PurgeThreshold = 2
  ReindexInterval = 3
  ClearThreshold = 1
  BackrefThreshold = 30
  MaxBackref = 36
  MaxStrLen = 5
  MaxTokens = 1
  MaxRecords = 5
  MaxCalls = 1
  MaxDicts = 1
SPECIFICATION PipeSpec
INVARIANTS
  NeverBroken
  LargeDictionariesForgotten
PROPERTY
  ImplementsRecordLog
CHECK_DEADLOCK FALSE
