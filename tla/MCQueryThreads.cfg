\* Visited lists that wrap; tables, hints and flat vectors that threads share.
CONSTANTS
  Threads = {t1, t2}
  Total = 3
  Batches = 2
  Elements = {1, 2}
  Marks = 3
  Slots = 3
  VecSlots = 1
  Pages = {1}
  Modes <- MCModes
SPECIFICATION FairSpec
\* The last call returns.
CHECK_DEADLOCK FALSE
INVARIANTS
  MarksAreOfThisQuery
  TablesAreReady
  SlotHasOneWriter
PROPERTY
  AllAnsweredOnce
