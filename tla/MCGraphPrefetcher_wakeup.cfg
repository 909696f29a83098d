\* Two threads that share reads, and a kernel that takes what it is given: a
\* thread whose last completion another one reaps sleeps for ever.
CONSTANTS
  Blocks = {b1, b2}
  Buffers = {u1}
  SqEntries = 1
  SubmitMayFail = FALSE
  Threads = {t1, t2}
  CacheSlots = 1
  AutoModes = {TRUE}
  NOBODY = NOBODY
SPECIFICATION StrongFairSpec
PROPERTY
  BlockedWakes
