SPECIFICATION Spec
CONSTANTS
  Threads = {t1, t2, t3}
  Capacity = 2
  TagRange = 16
  MaxElements = 4
SYMMETRY ThreadSymmetry
INVARIANTS TypeOK SlotsPartitioned IdsLeadHome EraseIdempotent
PROPERTY ImplementsStore
\* The bound is reached and every element is erased.
CHECK_DEADLOCK FALSE
