\* Two threads, three blocks, a pool of two buffers, a cache of two slots;
\* io_uring_enter may fail or take part of the queue.
CONSTANTS
  Blocks = {b1, b2, b3}
  Buffers = {u1, u2}
  SqEntries = 2
  SubmitMayFail = TRUE
  Threads = {t1, t2}
  CacheSlots = 2
  AutoModes = {TRUE, FALSE}
  NOBODY = NOBODY
SPECIFICATION Spec
SYMMETRY MCSymmetry
\* Threads that wait for reads nobody will complete wait for ever.
CHECK_DEADLOCK FALSE
INVARIANTS
  BuffersExclusive
  RequestsMatchPending
  InflightExact
PROPERTY
  WaitsForEachBlock
