\* tail and tail -f from any position of a growing file, with a false start; the
\* bisection of grep, with the dictionaries of earlier entries.
CONSTANTS
  MaxDicts = 2
  Uses <- MCUses
SPECIFICATION TailSpec
INVARIANTS
  CacheIsTrue
  SyncsAtFirst
  TailDelivers
PROPERTIES
  TailEnds
  FollowerCatchesUp
CHECK_DEADLOCK FALSE
