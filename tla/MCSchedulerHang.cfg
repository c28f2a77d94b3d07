SPECIFICATION Spec
CONSTANTS NumNodes = 2
          Mask = 3
          Spawns <- Flat2
          Root = 1
INVARIANT NeverAllAsleep
\* run returns, or the nodes sleep for ever.
CHECK_DEADLOCK FALSE
