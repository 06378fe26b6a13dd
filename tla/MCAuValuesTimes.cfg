SPECIFICATION ValuesSpec
CONSTANTS
  Width = 10
  GroupBits = 3
  VarintLimit = 256
  MinuteLen = 1
  MaxMinute = 1
  SecondLen = 1
  MaxSecond = 5
  FractionLen = 2
  MaxDepth = 2
  Strings <- MCStrings
  Scopes <- TimesOnly
INVARIANTS
  TimesSurvive
CHECK_DEADLOCK FALSE
