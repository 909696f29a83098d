SPECIFICATION PipelineSpec
CONSTANTS
  N = 4
  Points <- MCPoints
  LevelChoices <- MCLevels
  FewestPicks = 2
  R0 = 2
  Rup = 1
  Beam = 2
  Alpha <- MCAlpha
  Alpha2 <- MCAlpha2
  Rounds = 2
  Sample = 3
  Marks = 3
  Workers = {t1, t2}
  Dim = 3
  Page = 7
  Base = 2
  MaxBytes = 3
  Codebook <- MCCodebook
  Indexes <- MCIndexes
  Prunings <- MCPrunings
  VecRoom = 16
  StdRoom = 26
  PQRoom = 15
  Clusters = 2
  Queries <- MCQueries
  MaxM0 = 3
  MaxPasses = 1
CHECK_DEADLOCK FALSE
INVARIANTS
  RoundsAreParallel
  GraphIsSound
  FilesAreInOrder
  ReadsAreOwn
  DescentIsRight
PROPERTIES
  PruningKeepsProgress
  DescentEnds
