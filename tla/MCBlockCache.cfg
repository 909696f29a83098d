SPECIFICATION Spec
CONSTANTS
  NumBlocks = 3
  Nodes = {1, 2, 3}
  Route <- MCRoute
  CacheSlots = 2
  FlatRatio = 1
  MaxBatch = 2
  MaxCount = 2
  NULL = NULL
  FREED = FREED
  Readers = {r1}
CHECK_DEADLOCK FALSE
INVARIANTS
  PolicyTracksResidents
  UndisturbedLookupIsRight
  PrefetchSettledOnce
PROPERTY
  ImplementsBoundedCache
