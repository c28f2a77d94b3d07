SPECIFICATION BothSpec
CONSTANTS IndexBits = 4
          TagRange = 8
          MaxReserve = 3
          MaxElements = 7
INVARIANTS EntriesAccounted TablesInverse SameIds
PROPERTY ImplementsStore
\* The bounds are reached and every element is erased.
CHECK_DEADLOCK FALSE
