SPECIFICATION FairSpec
CONSTANTS
  Thieves = {t1, t2}
  Free = Free
  Capacity = 4
  IndexRange = 64
  MaxPushes = 6
INVARIANTS QueueInv ExactlyOnce NoSlotRace RefusalBounded
PROPERTIES ImplementsDeque OwnerReturns
\* Every push is made and the ring drained: then only refusals are left.
CHECK_DEADLOCK FALSE
