\* Every setting; two blocks on one slot, a result of two of four nodes.
CONSTANTS
  Nodes = {1, 2, 3, 4}
  Dist <- MCDist
  Ef = 2
  Blocks = {0, 1}
  BlockOf <- MCBlockOf
  CacheSlots = 1
  Graphs <- MCGraphs
  Entries = {1, 3, 4}
  Options <- MCModes
SPECIFICATION NonBlockingFairSpec
\* The search returns.
CHECK_DEADLOCK FALSE
INVARIANT
  ResultIsRight
PROPERTY
  EndsUnlessDeferring
