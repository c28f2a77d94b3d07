SPECIFICATION Spec
CONSTANTS NumNodes = 3
          Mask = 3
          Spawns <- Flat2
          Root = 1
INVARIANTS SleeperCanBeWoken StopHeard RunEndsComplete
VIEW LiveView
\* run returns, or the nodes sleep for ever.
CHECK_DEADLOCK FALSE
