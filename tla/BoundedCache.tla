----------------------------- MODULE BoundedCache -----------------------------
(***************************************************************************)
(* What a block cache of CacheSlots slots promises its callers, whatever   *)
(* its policy and its lookup structures: blocks come in one at a time, one *)
(* block makes room for another and only in a full cache, and a read that  *)
(* fails costs at most that one block.                                     *)
(***************************************************************************)
EXTENDS Naturals, FiniteSets

CONSTANTS Blocks,      \* the blocks of the file
          CacheSlots   \* the capacity

VARIABLE cache_map     \* the resident blocks

Full == Cardinality(cache_map) >= CacheSlots

Init == cache_map = {}

\* A block comes in beside the others, or in the place of one of them.
Load(b) ==
  /\ b \notin cache_map
  /\ \/ /\ ~Full \/ cache_map = {}
        /\ cache_map' = cache_map \cup {b}
     \/ /\ Full
        /\ \E v \in cache_map : cache_map' = (cache_map \ {v}) \cup {b}

\* A read fails after the cache has made room for its block.
LoadFails ==
  /\ Full
  /\ \E v \in cache_map : cache_map' = cache_map \ {v}

Destroy == cache_map' = {}

Next == (\E b \in Blocks : Load(b)) \/ LoadFails \/ Destroy

Spec == Init /\ [][Next]_cache_map

=============================================================================
