\* A file of up to five bytes, followed or not, sought in or not.
CONSTANTS
  MinHist = 2
  InitBufSize = 3
  MaxSize = 5
  MaxLen = 3
  Marks <- MCMarks
  NeedleLen = 2
SPECIFICATION SrcSpec
INVARIANTS
  SrcTypeOK
  WindowIsFile
  PinnedStaysBuffered
  HistoryStaysBuffered
PROPERTIES
  RewindsServed
  ImplementsByteStream
CHECK_DEADLOCK FALSE
