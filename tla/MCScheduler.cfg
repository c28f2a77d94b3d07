SPECIFICATION FairSpec
CONSTANTS NumNodes = 2
          Mask = 3
          Spawns <- Deep
          Root = 1
INVARIANTS TypeOK TasksAccounted SleeperCanBeWoken
           IdleHoldsAtMostOne RunEndsComplete
PROPERTIES StopReaches ReturnsUnlessHidden
\* run returns, or the nodes sleep for ever.
CHECK_DEADLOCK FALSE
