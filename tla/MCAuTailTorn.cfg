\* A file that ends behind the first byte of a record.
CONSTANTS
  MaxDicts = 1
  Uses <- MCTornUses
SPECIFICATION TailSpec
INVARIANT SyncReports
CHECK_DEADLOCK FALSE
