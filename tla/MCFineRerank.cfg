\* Every path; with pages apart, three buffers are one too few for all reads.
CONSTANTS
  Nodes = {1, 2, 3, 4}
  Dist <- MCDist
  Ef = 2
  VecPages = {1, 2, 3, 4}
  PagesOf <- MCPagesOf
  Buffers = {1, 2, 3}
  Coarse <- MCCoarse
  LabelOf <- MCLabelOf
  Limits = {1, 3}
  Settings <- MCSettings
SPECIFICATION RerankFairSpec
\* The search returns, or waits for a read that was not taken.
CHECK_DEADLOCK FALSE
INVARIANTS
  BuffersHaveOneOwner
  BuffersComeBack
  RankingIsRight
  LostToReadsOrBuffers
PROPERTY
  ReturnsIfTaken
