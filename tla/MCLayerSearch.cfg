\* Every setting; two blocks on one slot, a result of two of four nodes.
CONSTANTS
  Nodes = {1, 2, 3, 4}
  Dist <- MCDist
  Ef = 2
  Blocks = {0, 1}
  BlockOf <- MCBlockOf
  CacheSlots = 1
  Graphs <- MCGraphs
  Entries = {3, 4}
  Modes <- MCModes
SPECIFICATION FairSpec
\* The search returns.
CHECK_DEADLOCK FALSE
INVARIANTS
  ResultIsClosed
  ResultIndependentOfCache
PROPERTIES
  ImplementsBestFirst
  SearchEnds
