----------------------------- MODULE SharedBlocks -----------------------------
(***************************************************************************)
(* The block cache and the prefetcher as a search sees them: blocks come   *)
(* and go between any two of its lookups.  The cache is the one            *)
(* BoundedCache specifies, BlockCache implements and other threads use; of *)
(* the prefetcher a search knows that a block it has waited for has come   *)
(* in, or its read has ended (GraphPrefetcher!WaitsForEachBlock).          *)
(***************************************************************************)
EXTENDS SearchHeaps

CONSTANTS
  Blocks,      \* the blocks of the file
  BlockOf,     \* getBlockIdFast: the block of each node
  CacheSlots   \* the capacity of the cache

ASSUME SharedBlocksAssumption ==
  /\ BlockOf \in [Nodes -> Blocks]
  /\ CacheSlots \in Nat \ {0}

VARIABLES
  cache_map,   \* the blocks in the cache
  in_flight    \* the blocks the prefetcher is reading

Cache == INSTANCE BoundedCache

BlocksOf(S) == { BlockOf[n] : n \in S }

\* getCachedBlockById, peekCachedBlockById: lookups that load nothing.
Cached(n) == BlockOf[n] \in cache_map

\* getBlockById: the block is in the cache afterwards.
GetBlock(b) == IF b \in cache_map THEN UNCHANGED cache_map ELSE Cache!Load(b)

\* The same when the read fails: a full cache has lost a block for nothing.
GetBlockFails(b) ==
  /\ b \notin cache_map
  /\ IF Cache!Full /\ cache_map # {} THEN Cache!LoadFails
                                     ELSE UNCHANGED cache_map

\* getNodeVector: the vector comes from the flat vectors or from its block.
GetVector(n) == UNCHANGED cache_map \/ GetBlock(BlockOf[n])

\* submitPrefetch: a read is started for each block that is neither cached nor
\* being read.
SubmitPrefetch(S) == in_flight' = in_flight \cup (S \ cache_map')

\* A read of the prefetcher ends and somebody reaps it.
Arrival(b, mayFail) ==
  /\ b \in in_flight
  /\ in_flight' = in_flight \ {b}
  /\ \/ Cache!Load(b)
     \/ (b \in cache_map \/ mayFail) /\ UNCHANGED cache_map

\* Another thread loads a block, or fails to.
OtherLookup ==
  /\ (\E b \in Blocks : Cache!Load(b)) \/ Cache!LoadFails
  /\ UNCHANGED in_flight

=============================================================================
