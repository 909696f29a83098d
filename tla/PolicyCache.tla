----------------------------- MODULE PolicyCache ------------------------------
(***************************************************************************)
(* The block cache with the policies of the code: which block goes when    *)
(* the cache is full.  BlockCache leaves the victim open; here `policy' is *)
(* the data structure of LRUPolicy, LFUPolicy or LRUKPolicy, and what is   *)
(* abstracted from the cache is what no policy sees (counters, flags).     *)
(*                                                                         *)
(* The history variables `uses' and `lookups' record when each resident    *)
(* block was used, for the definitions the victims are compared with.      *)
(***************************************************************************)
EXTENDS Naturals, FiniteSets, LRUPolicy, LFUPolicy, LRUKPolicy

CONSTANTS
  BlockIds,     \* the blocks of the file
  Slots,        \* cache_slots_
  PointerSlots, \* flat_block_num_slots_
  PolicyNames,  \* the policies a cache may be built with
  MaxClock      \* bound: the uses of a behaviour

ASSUME PolicyCacheAssumption ==
  /\ BlockIds \subseteq Nat
  /\ Slots \in Nat \ {0}
  /\ PointerSlots \in Nat \ {0}
  /\ PolicyNames \subseteq {"lru", "lfu", "lru-k"}
  /\ MaxClock \in Nat

VARIABLES
  policy_name, \* policy_name_: set by the constructor
  residents,   \* the keys of cache_map_
  policy,      \* policy_
  pointed,     \* the resident blocks that own their flat pointer slot
  clock,       \* history: the uses so far
  uses,        \* history: block -> the times the policy was told of it
  lookups      \* history: block -> the time a lookup last returned it

policyVars == <<policy_name, residents, policy, pointed, clock, uses, lookups>>

-----------------------------------------------------------------------------
(* The virtual functions.                                                  *)

EmptyPolicy ==
  CASE policy_name = "lru" -> EmptyLru
    [] policy_name = "lfu" -> EmptyLfu
    [] policy_name = "lru-k" -> EmptyLruK

Tracked(p) ==
  CASE policy_name = "lru" -> LruTracked(p)
    [] policy_name = "lfu" -> LfuTracked(p)
    [] policy_name = "lru-k" -> LruKTracked(p)

OnAccess(p, b) ==
  CASE policy_name = "lru" -> LruOnAccess(p, b)
    [] policy_name = "lfu" -> LfuOnAccess(p, b)
    [] policy_name = "lru-k" -> LruKOnAccess(p, b)

OnInsert(p, b) ==
  CASE policy_name = "lru" -> LruOnInsert(p, b)
    [] policy_name = "lfu" -> LfuOnInsert(p, b)
    [] policy_name = "lru-k" -> LruKOnInsert(p, b)

OnRemove(p, b) ==
  CASE policy_name = "lru" -> LruOnRemove(p, b)
    [] policy_name = "lfu" -> LfuOnRemove(p, b)
    [] policy_name = "lru-k" -> LruKOnRemove(p, b)

SelectVictim(p) ==
  CASE policy_name = "lru" -> LruVictim(p)
    [] policy_name = "lfu" -> LfuVictim(p)
    [] policy_name = "lru-k" -> LruKVictim(p)

-----------------------------------------------------------------------------
(* The cache operations, as the policy sees them.                          *)

Now == clock + 1

\* b takes its slot of the flat pointer cache from the block that had it.
TakeSlot(f, b) ==
  { x \in f : x % PointerSlots # b % PointerSlots } \cup {b}

\* A hit under the mutex.
LockedHit(b) ==
  /\ clock < MaxClock
  /\ b \in residents
  /\ policy' = OnAccess(policy, b)
  /\ clock' = Now
  /\ uses' = [uses EXCEPT ![b] = Append(@, Now)]
  /\ lookups' = [lookups EXCEPT ![b] = Now]

\* getBlockById, getBlockByNodeId.
GetBlockHit(b) ==
  /\ LockedHit(b)
  /\ UNCHANGED <<residents, pointed>>

\* The slow path of getCachedBlockById: b takes its pointer slot back.
SlowHit(b) ==
  /\ b \notin pointed
  /\ LockedHit(b)
  /\ pointed' = TakeSlot(pointed, b)
  /\ UNCHANGED residents

\* The fast path: the policy is not told.
FlatHit(b) ==
  /\ clock < MaxClock
  /\ b \in pointed
  /\ clock' = Now
  /\ lookups' = [lookups EXCEPT ![b] = Now]
  /\ UNCHANGED <<residents, policy, pointed, uses>>

Forget(f, E) == [b \in BlockIds |-> IF b \in E THEN <<>> ELSE f[b]]

\* evictOne, as long as the cache is full.  Full, it holds CacheSlots blocks
\* (BlockCache!CapacityRespected), so once is enough.
Victims == IF Cardinality(residents) >= Slots
           THEN {SelectVictim(policy)} ELSE {}

AfterEviction == IF Victims = {} THEN policy
                 ELSE OnRemove(policy, SelectVictim(policy))

\* Every operation that brings b in: a miss, a prefetch, an io_uring insertion.
\* All but tryPrefetch populate the pointer slot of b.
Load(b) ==
  /\ clock < MaxClock
  /\ b \notin residents
  /\ policy' = OnInsert(AfterEviction, b)
  /\ residents' = (residents \ Victims) \cup {b}
  /\ \/ pointed' = pointed \ Victims
     \/ pointed' = TakeSlot(pointed \ Victims, b)
  /\ clock' = Now
  /\ uses' = [Forget(uses, Victims) EXCEPT ![b] = <<Now>>]
  /\ lookups' = [lookups EXCEPT ![b] = Now]

\* The read fails after the victim is gone.
LoadFails ==
  /\ Victims # {}
  /\ policy' = AfterEviction
  /\ residents' = residents \ Victims
  /\ pointed' = pointed \ Victims
  /\ uses' = Forget(uses, Victims)
  /\ UNCHANGED <<clock, lookups>>

PolicyInit ==
  /\ policy_name \in PolicyNames
  /\ residents = {} /\ pointed = {}
  /\ policy = EmptyPolicy
  /\ clock = 0
  /\ uses = [b \in BlockIds |-> <<>>]
  /\ lookups = [b \in BlockIds |-> 0]

PolicyNext ==
  /\ \/ \E b \in BlockIds : \/ GetBlockHit(b) \/ SlowHit(b)
                          \/ FlatHit(b) \/ Load(b)
     \/ LoadFails
  /\ UNCHANGED policy_name

PolicySpec == PolicyInit /\ [][PolicyNext]_policyVars

-----------------------------------------------------------------------------
(* Properties.                                                             *)

\* The policy's structure mirrors the cache, so that its victim is resident.
PolicyMirrorsCache == Tracked(policy) = residents

Used(b) == uses[b]
LastUse(b) == Last(Used(b))

\* The K-th last use reported of b, 0 if there were fewer.
KthLastUse(b) ==
  IF Len(Used(b)) < K THEN 0 ELSE Used(b)[Len(Used(b)) - K + 1]

\* LRU: nothing resident was used longer ago than the victim.
VictimIsLeastRecentlyUsed ==
  policy_name = "lru" /\ residents # {} =>
    \A b \in residents : LastUse(SelectVictim(policy)) <= LastUse(b)

\* LFU: nothing resident was used less often since it came in; among equals the
\* victim came in first.
VictimIsLeastFrequentlyUsed ==
  policy_name = "lfu" /\ residents # {} =>
    LET v == SelectVictim(policy)
    IN  \A b \in residents :
          \/ Len(Used(v)) < Len(Used(b))
          \/ Len(Used(v)) = Len(Used(b)) /\ Head(Used(v)) <= Head(Used(b))

\* LRU-2: the K-th last use of the victim lies furthest back, a block with fewer
\* uses counting as never used; among those the victim came in first.
VictimHasOldestKthUse ==
  policy_name = "lru-k" /\ residents # {} =>
    LET v == SelectVictim(policy)
    IN  \A b \in residents :
          \/ KthLastUse(v) < KthLastUse(b)
          \/ KthLastUse(v) = KthLastUse(b) /\ Head(Used(v)) <= Head(Used(b))

\* Whichever policy the cache has, its victim is the block that the policy's name
\* promises, judged by the history of what the policy was told.
VictimIsRight ==
  /\ VictimIsLeastRecentlyUsed
  /\ VictimIsLeastFrequentlyUsed
  /\ VictimHasOldestKthUse

\* The cache with a real policy keeps the promises of the abstract cache.
Bounded == INSTANCE BoundedCache WITH
             Blocks <- BlockIds, CacheSlots <- Slots, cache_map <- residents

\* Every step is one of the bounded cache, or changes nothing in it.
PolicyCacheIsBounded == Bounded!Spec

\* "getCachedBlockById updates the LRU" (disk_hnsw.cpp:2729): the block a search
\* has just looked up is the last one to go.
LookupProtects ==
  Cardinality(residents) > 1 =>
    \A b \in residents : lookups[b] = clock => SelectVictim(policy) # b

\* "last_access" (replacement_policy.h:149): among the blocks used least often
\* the victim is the one whose last access lies furthest back.
LfuTieByLastAccess ==
  residents # {} =>
    \A b \in residents :
      Len(Used(b)) = Len(Used(SelectVictim(policy)))
        => LastUse(SelectVictim(policy)) <= LastUse(b)

=============================================================================
