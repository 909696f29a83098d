\* Both searches in their settings; a result of two, rounds of two.
CONSTANTS
  Nodes = {1, 2, 3, 4}
  Dist <- MCDist
  Ef = 2
  Width = 2
  Blocks = {0, 1}
  BlockOf <- MCBlockOf
  CacheSlots = 1
  Graphs <- MCGraphs
  Entries = {1, 3, 4}
  Modes <- MCModes
SPECIFICATION FairSpec
\* The search returns.
CHECK_DEADLOCK FALSE
INVARIANTS
  NearestOnceFull
  LossesAreAccountedFor
PROPERTY
  SearchEnds
