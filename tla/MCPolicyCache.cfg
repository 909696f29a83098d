SPECIFICATION PolicySpec
CONSTANTS
  BlockIds = {0, 1, 2}
  Slots = 2
  PointerSlots = 2
  PolicyNames = {"lru", "lfu", "lru-k"}
  MaxClock = 6
\* The bound on the uses ends every behaviour.
CHECK_DEADLOCK FALSE
INVARIANTS
  PolicyMirrorsCache
  VictimIsRight
