\* Two queries, with and without PQ and the prefetcher; one read may fail.
CONSTANTS
  NumQueries = 2
  Nodes = {1, 2, 3, 4}
  Dist <- MCDist
  Ef = 2
  Blocks = {0, 1, 2}
  Layouts <- MCLayouts
  Graphs <- MCGraphs
  Entries <- MCEntries
  Modes <- MCModes
  GreedyLimit = 2
  MaxFailures = 1
SPECIFICATION FairSpec
\* The batch returns.
CHECK_DEADLOCK FALSE
INVARIANTS
  MarkedIsMeasuredOrDeferred
  ResultIsRight
  WaitsForWhatItNeeds
PROPERTY
  EndsIfBlocksStay
