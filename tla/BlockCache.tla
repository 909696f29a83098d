------------------------------ MODULE BlockCache ------------------------------
(***************************************************************************)
(* The DRAM cache of 64KB blocks (include/block_cache.h and                *)
(* src/core/block_cache.cpp), for ANY replacement policy.                  *)
(*                                                                         *)
(* The cache talks to its policy through the ReplacementPolicy interface:  *)
(* it reports accesses, insertions and removals and asks for a victim.     *)
(* Here the policy is that interface and nothing more: `tracked' is the    *)
(* set of block ids it has been told of, and a victim may be any of them.  *)
(* PolicyCache composes this module with the three policies of the code.   *)
(*                                                                         *)
(* An operation that takes BlockCache::mutex_ changes the map, the policy  *)
(* and the counters in one action, because whoever else looks at them      *)
(* needs the mutex.  The flat pointer cache is different: the lookup of    *)
(* getCachedBlockById reads it without the mutex.  So each write to it is  *)
(* an action of its own, made while the mutex is held, and each access of  *)
(* the lookup is one too.  `writes' is what the holder of the mutex has    *)
(* still to write, `batch' what insertBlocksBatch has still to insert; as  *)
(* long as there is either, the mutex is taken.                            *)
(***************************************************************************)
EXTENDS Naturals, FiniteSets, Sequences

CONSTANTS
  NumBlocks,   \* num_blocks_, the blocks of the file
  Nodes,       \* the node ids the callers ask for
  Route,       \* layout_->getBlockId, a function of Nodes
  CacheSlots,  \* cache_slots_, the capacity
  FlatRatio,   \* flat pointer slots per cache slot (4 in the code)
  MaxBatch,    \* bound: the blocks of one batch
  MaxCount,    \* bound: no operation starts with a counter this high
  NULL,        \* UINT32_MAX, nullptr: no block
  FREED,       \* the address of a block that was destroyed
  Readers      \* the threads that call getCachedBlockById

Blocks == 0 .. NumBlocks - 1

ASSUME BlockCacheAssumption ==
  /\ NumBlocks \in Nat \ {0}
  /\ CacheSlots \in Nat
  /\ FlatRatio \in Nat \ {0}
  /\ MaxBatch \in Nat \ {0}
  /\ MaxCount \in Nat
  /\ Route \in [Nodes -> Blocks \cup {NULL}]
  /\ NULL \notin Blocks
  /\ FREED \notin Blocks \cup {NULL}

VARIABLES
  cache_map,       \* the resident blocks: the keys of cache_map_
  was_prefetched,  \* those that came in by the io_uring prefetch path
  was_accessed,    \* those some lookup has returned since they came in
  tracked,         \* the block ids the policy tracks
  flat_owners,     \* flat_block_owners_: slot -> block id or NULL
  flat_ptrs,       \* flat_block_ptrs_: slot -> the block its pointer leads to
  writes,          \* the slot writes the holder of the mutex has left
  reading,         \* where each reader is in its lookup
  batch,           \* the blocks a running insertBlocksBatch has left
  stats,           \* Stats: the counters
  inserted,        \* history: blocks the io_uring prefetch path has put in
  open             \* FALSE once the destructor has run

resident == <<cache_map, was_prefetched, was_accessed, tracked>>
flat     == <<flat_owners, flat_ptrs, writes>>

vars == <<resident, flat, reading, batch, stats, inserted, open>>

\* The counters that something else depends on; accesses, hits, misses and
\* evictions are plain totals.
Counters == {"disk_reads", "prefetch_useful", "prefetch_wasted"}

PrefetchCounters == {"prefetch_useful", "prefetch_wasted"}

\* One more block was read.
CountRead(st) == [st EXCEPT !.disk_reads = @ + 1]

-----------------------------------------------------------------------------
(* The flat pointer cache: block id modulo the number of slots.            *)

FlatNumSlots ==
  IF NumBlocks < CacheSlots * FlatRatio THEN NumBlocks
                                        ELSE CacheSlots * FlatRatio

FlatSlots == IF FlatNumSlots = 0 THEN {} ELSE 0 .. FlatNumSlots - 1

FlatSlot(b) == b % FlatNumSlots

\* Mutant: the pointer of an evicted block stays in its slot.
MutNeverInvalidated(E, s) == FALSE

\* invalidateFlatBlockCache clears the slot of an evicted block only if the
\* block still owns it.
Invalidated(E, s) == \E v \in E : s = FlatSlot(v) /\ flat_owners[s] = v

\* What there is to write: the slots to clear, owner and pointer (`clear'), a
\* slot with its owner cleared and its pointer not (`half'), the block whose
\* slot is to be written (`enter'), and the one of which the slot has the owner
\* and not yet the pointer (`entered').
NoWrites == [clear |-> {}, half |-> {}, enter |-> NULL, entered |-> NULL]

Settled == writes = NoWrites

\* The writes for the victims E and for b, the block that came in (NULL: none).
WritesFor(E, b) ==
  [NoWrites EXCEPT !.clear = { s \in FlatSlots : Invalidated(E, s) },
                   !.enter = IF FlatSlots = {} THEN NULL ELSE b]

\* An update of the slots begins: a lookup under way is no longer undisturbed,
\* and a pointer that it holds to a victim leads to freed memory.
LookupsBeside(E, w) ==
  [r \in Readers |->
     [reading[r] EXCEPT !.ptr  = IF @ \in E THEN FREED ELSE @,
                        !.calm = @ /\ w = NoWrites]]

\* Erasing a block from cache_map_ destroys it: from then on until its slot is
\* cleared, the pointer there leads to freed memory.
BeginWrites(E, b) ==
  /\ flat_ptrs' = [s \in FlatSlots |->
                     IF flat_ptrs[s] \in E THEN FREED ELSE flat_ptrs[s]]
  /\ writes' = WritesFor(E, b)
  /\ reading' = LookupsBeside(E, WritesFor(E, b))
  /\ UNCHANGED flat_owners

-----------------------------------------------------------------------------
(* Eviction: `while (cache_map_.size() >= cache_slots_) evictOne()'.       *)

\* Mutant: the loop keeps a slot free.
MutEvictsEarly(E) ==
  /\ E \subseteq tracked
  /\ Cardinality(cache_map \ E) + 1 < CacheSlots \/ E = tracked
  /\ \A v \in E : Cardinality(cache_map \ (E \ {v})) + 1 >= CacheSlots

\* E is what the loop may evict: there is room afterwards, unless the policy
\* has no victim left, and there was none before the last victim went.
Evicts(E) ==
  /\ E \subseteq tracked
  /\ Cardinality(cache_map \ E) < CacheSlots \/ E = tracked
  /\ \A v \in E : Cardinality(cache_map \ (E \ {v})) >= CacheSlots

\* Mutant: a block loaded on demand is settled like a prefetched one.
MutSettleAll(st, E) ==
  LET gone == E \cap cache_map
  IN  [c \in Counters |-> st[c] +
         CASE c = "prefetch_useful" -> Cardinality(gone \cap was_accessed)
           [] c = "prefetch_wasted" -> Cardinality(gone \ was_accessed)
           [] OTHER                 -> 0]

\* evictOne settles a prefetched victim as useful if a lookup returned it, as
\* wasted if none did.
CountEvictions(st, E) ==
  LET settled == E \cap cache_map \cap was_prefetched
  IN  [c \in Counters |-> st[c] +
         CASE c = "prefetch_useful" -> Cardinality(settled \cap was_accessed)
           [] c = "prefetch_wasted" -> Cardinality(settled \ was_accessed)
           [] OTHER                 -> 0]

\* Mutant: evictOne without policy_->onRemove.
MutEvictKeepsTracked(E) ==
  /\ cache_map' = cache_map \ E
  /\ tracked' = tracked
  /\ was_prefetched' = was_prefetched \ E
  /\ was_accessed' = was_accessed \ E
  /\ BeginWrites(E, NULL)

\* What the loop leaves when nothing is inserted after it.
EvictOnly(E) ==
  /\ cache_map' = cache_map \ E
  /\ tracked' = tracked \ E
  /\ was_prefetched' = was_prefetched \ E
  /\ was_accessed' = was_accessed \ E
  /\ BeginWrites(E, NULL)

\* The loop, cache_map_.emplace(b), policy_->onInsert(b).
EvictAndEmplace(E, b, prefetch) ==
  /\ cache_map' = (cache_map \ E) \cup {b}
  /\ tracked' = (tracked \ E) \cup {b}
  /\ was_prefetched' = (was_prefetched \ E) \cup (IF prefetch THEN {b} ELSE {})
  /\ was_accessed' = was_accessed \ E

-----------------------------------------------------------------------------
(* Lookups that load on a miss.                                            *)

CountersBounded == \A c \in Counters : stats[c] < MaxCount

\* An operation that takes mutex_ may start.
Unlocked == open /\ batch = <<>> /\ Settled /\ CountersBounded

Hit(b) ==
  /\ b \in cache_map
  /\ was_accessed' = was_accessed \cup {b}
  /\ UNCHANGED <<cache_map, was_prefetched, tracked, flat, reading, batch,
                 stats, inserted, open>>

\* The read of the block is counted when it succeeds.  When it throws, the
\* victims are gone and nothing takes their place.
MissLoaded(b, E) ==
  /\ EvictAndEmplace(E, b, FALSE)
  /\ BeginWrites(E, b)
  /\ stats' = CountRead(CountEvictions(stats, E))

MissFailed(E) ==
  /\ EvictOnly(E)
  /\ stats' = CountEvictions(stats, E)

Miss(b) ==
  /\ b \notin cache_map
  /\ \E E \in SUBSET tracked :
       /\ Evicts(E)
       /\ MissLoaded(b, E) \/ MissFailed(E)
  /\ UNCHANGED <<batch, inserted, open>>

GetBlockById(b) ==
  /\ Unlocked
  /\ Hit(b) \/ Miss(b)

\* A node without a block is not looked up.
GetBlockByNodeId(n) ==
  /\ Unlocked
  /\ Route[n] # NULL
  /\ Hit(Route[n]) \/ Miss(Route[n])

-----------------------------------------------------------------------------
(* Loading ahead of use.                                                   *)

\* Loads the block like a lookup, and does not call it prefetched.
PrefetchBlock(b) == Unlocked /\ Miss(b)

\* Loads the block, counts the read a second time, and gives the block no slot
\* of the flat pointer cache.  (recent_accesses_, which it also fills, is read
\* by nobody.)
TryPrefetch(b) ==
  /\ Unlocked
  /\ b \notin cache_map
  /\ \E E \in SUBSET tracked :
       /\ Evicts(E)
       /\ \/ /\ EvictAndEmplace(E, b, FALSE)
             /\ BeginWrites(E, NULL)
             /\ stats' = CountRead(CountRead(CountEvictions(stats, E)))
          \/ /\ EvictOnly(E)
             /\ stats' = CountEvictions(stats, E)
  /\ UNCHANGED <<batch, inserted, open>>

-----------------------------------------------------------------------------
(* Blocks that io_uring has read.                                          *)

\* The body insertBlock, insertBlockFromPtr and insertBlocksBatch share.
InsertRead(b) ==
  \E E \in SUBSET tracked :
    /\ Evicts(E)
    /\ EvictAndEmplace(E, b, TRUE)
    /\ BeginWrites(E, b)
    /\ stats' = CountRead(CountEvictions(stats, E))
    /\ inserted' = inserted + 1

\* insertBlock, insertBlockFromPtr.
InsertBlock(b) ==
  /\ Unlocked
  /\ b \notin cache_map
  /\ InsertRead(b)
  /\ UNCHANGED <<batch, open>>

\* insertBlocksBatch, once the entries are parsed: takes the mutex.
InsertBlocksBatch(entries) ==
  /\ Unlocked
  /\ batch' = entries
  /\ UNCHANGED <<resident, flat, reading, stats, inserted, open>>

\* One turn of its loop, the mutex still held: a block that is resident by now
\* is skipped.
BatchInsertNext ==
  /\ batch # <<>> /\ Settled
  /\ batch' = Tail(batch)
  /\ \/ /\ Head(batch) \in cache_map
        /\ UNCHANGED <<resident, flat, reading, stats, inserted>>
     \/ /\ Head(batch) \notin cache_map
        /\ InsertRead(Head(batch))
  /\ UNCHANGED open

-----------------------------------------------------------------------------
(* The slot writes of the operation that holds the mutex, in their order:  *)
(* evictOne invalidates its victim, then the new block is given its slot.  *)

unflat == <<resident, reading, batch, stats, inserted, open>>

InvalidateOwner(s) ==
  /\ writes.half = {}
  /\ s \in writes.clear
  /\ flat_owners' = [flat_owners EXCEPT ![s] = NULL]
  /\ writes' = [writes EXCEPT !.clear = @ \ {s}, !.half = {s}]
  /\ UNCHANGED <<flat_ptrs, unflat>>

InvalidatePointer(s) ==
  /\ s \in writes.half
  /\ flat_ptrs' = [flat_ptrs EXCEPT ![s] = NULL]
  /\ writes' = [writes EXCEPT !.half = {}]
  /\ UNCHANGED <<flat_owners, unflat>>

\* populateFlatCache: the slot is the block's, whoever had it.
PopulateOwner ==
  /\ writes.clear = {} /\ writes.half = {}
  /\ writes.enter # NULL
  /\ flat_owners' = [flat_owners EXCEPT ![FlatSlot(writes.enter)] = writes.enter]
  /\ writes' = [NoWrites EXCEPT !.entered = writes.enter]
  /\ UNCHANGED <<flat_ptrs, unflat>>

PopulatePointer ==
  /\ writes.entered # NULL
  /\ flat_ptrs' = [flat_ptrs EXCEPT ![FlatSlot(writes.entered)] = writes.entered]
  /\ writes' = NoWrites
  /\ UNCHANGED <<flat_owners, unflat>>

-----------------------------------------------------------------------------
(* getCachedBlockById, which never loads.  The fast path takes no lock and *)
(* the policy never hears of it: test the owner, test the pointer, mark    *)
(* the block, return it.                                                   *)

NoLookup == [at |-> "idle", block |-> NULL, ptr |-> NULL, calm |-> FALSE]

unlooked == <<cache_map, was_prefetched, tracked, flat, batch, stats,
              inserted, open>>

TestOwner(r, b) ==
  /\ open
  /\ reading[r].at \in {"idle", "returned"}
  /\ reading' = [reading EXCEPT ![r] =
       [at |-> IF FlatSlots # {} /\ flat_owners[FlatSlot(b)] = b
               THEN "owned" ELSE "locked",
        block |-> b, ptr |-> NULL, calm |-> Settled]]
  /\ UNCHANGED <<unlooked, was_accessed>>

SlotPointer(r) == flat_ptrs[FlatSlot(reading[r].block)]

TestPointer(r) ==
  /\ reading[r].at = "owned"
  /\ reading' = [reading EXCEPT
       ![r].at  = IF SlotPointer(r) = NULL THEN "locked" ELSE "marking",
       ![r].ptr = SlotPointer(r)]
  /\ UNCHANGED <<unlooked, was_accessed>>

\* The code reads the pointer anew for each use; a compiler may keep the one it
\* has.
PointerRead(r) == {SlotPointer(r), reading[r].ptr}

\* was_accessed is set through the pointer.  Through a null or a freed one that
\* is undefined; here it marks nothing.
MarkAccessed(r) ==
  /\ reading[r].at = "marking"
  /\ \E p \in PointerRead(r) :
       /\ reading' = [reading EXCEPT ![r].at = "returning", ![r].ptr = p]
       /\ was_accessed' = was_accessed \cup ({p} \cap cache_map)
  /\ UNCHANGED unlooked

ReturnFlat(r) ==
  /\ reading[r].at = "returning"
  /\ \E p \in PointerRead(r) :
       reading' = [reading EXCEPT ![r].at = "returned", ![r].ptr = p]
  /\ UNCHANGED <<unlooked, was_accessed>>

\* The slow path, under the mutex: a resident block takes the slot over.
GetCachedBlockLocked(r) ==
  /\ Unlocked
  /\ reading[r].at = "locked"
  /\ LET b == reading[r].block
         w == WritesFor({}, IF b \in cache_map THEN b ELSE NULL)
     IN  /\ was_accessed' = was_accessed \cup ({b} \cap cache_map)
         /\ writes' = w
         /\ reading' = [LookupsBeside({}, w) EXCEPT ![r] = NoLookup]
  /\ UNCHANGED <<cache_map, was_prefetched, tracked, flat_owners, flat_ptrs,
                 batch, stats, inserted, open>>

-----------------------------------------------------------------------------
(* Bookkeeping and the destructor.                                         *)

\* The prefetch counters are not reset.
ResetStats ==
  /\ open
  /\ stats' = [c \in Counters |->
                 IF c \in PrefetchCounters THEN stats[c] ELSE 0]
  /\ UNCHANGED <<resident, flat, reading, batch, inserted, open>>

\* ~BlockCache settles the prefetched blocks that are still resident.  Nobody
\* may be using the cache any more.
Destroy ==
  /\ open /\ batch = <<>> /\ Settled
  /\ \A r \in Readers : reading[r].at \in {"idle", "returned"}
  /\ open' = FALSE
  /\ stats' = [c \in Counters |-> stats[c] +
       CASE c = "prefetch_useful" -> Cardinality(was_prefetched \cap was_accessed)
         [] c = "prefetch_wasted" -> Cardinality(was_prefetched \ was_accessed)
         [] OTHER                 -> 0]
  /\ cache_map' = {} /\ tracked' = {}
  /\ was_prefetched' = {} /\ was_accessed' = {}
  /\ flat_owners' = [s \in FlatSlots |-> NULL]
  /\ flat_ptrs' = [s \in FlatSlots |-> NULL]
  /\ reading' = [r \in Readers |-> NoLookup]
  /\ UNCHANGED <<writes, batch, inserted>>

-----------------------------------------------------------------------------
Init ==
  /\ cache_map = {} /\ tracked = {}
  /\ was_prefetched = {} /\ was_accessed = {}
  /\ flat_owners = [s \in FlatSlots |-> NULL]
  /\ flat_ptrs = [s \in FlatSlots |-> NULL]
  /\ writes = NoWrites
  /\ reading = [r \in Readers |-> NoLookup]
  /\ batch = <<>>
  /\ stats = [c \in Counters |-> 0]
  /\ inserted = 0
  /\ open = TRUE

\* The batches the prefetcher builds: blocks of the file, each once.
Batches ==
  { q \in UNION { [1 .. n -> Blocks] : n \in 1 .. MaxBatch } :
      \A i, j \in DOMAIN q : q[i] = q[j] => i = j }

Next ==
  \/ \E n \in Nodes : GetBlockByNodeId(n)
  \/ \E b \in Blocks :
       \/ GetBlockById(b) \/ PrefetchBlock(b) \/ TryPrefetch(b)
       \/ InsertBlock(b)
  \/ \E q \in Batches : InsertBlocksBatch(q)
  \/ BatchInsertNext
  \/ \E s \in FlatSlots : InvalidateOwner(s) \/ InvalidatePointer(s)
  \/ PopulateOwner \/ PopulatePointer
  \/ \E r \in Readers :
       \/ \E b \in Blocks : TestOwner(r, b)
       \/ TestPointer(r) \/ MarkAccessed(r) \/ ReturnFlat(r)
       \/ GetCachedBlockLocked(r)
  \/ ResetStats
  \/ Destroy

Spec == Init /\ [][Next]_vars

-----------------------------------------------------------------------------
(* Properties.                                                             *)

Lookups ==
  [at : {"idle", "owned", "marking", "returning", "returned", "locked"},
   block : Blocks \cup {NULL}, ptr : Blocks \cup {NULL, FREED},
   calm : BOOLEAN]

\* Every variable stays in its domain.
TypeOK ==
  /\ cache_map \subseteq Blocks
  /\ was_prefetched \subseteq cache_map
  /\ was_accessed \subseteq cache_map
  /\ tracked \subseteq Blocks
  /\ flat_owners \in [FlatSlots -> Blocks \cup {NULL}]
  /\ flat_ptrs \in [FlatSlots -> Blocks \cup {NULL, FREED}]
  /\ writes \in [clear : SUBSET FlatSlots, half : SUBSET FlatSlots,
                 enter : Blocks \cup {NULL}, entered : Blocks \cup {NULL}]
  /\ reading \in [Readers -> Lookups]
  /\ batch \in Seq(Blocks)
  /\ stats \in [Counters -> Nat]
  /\ inserted \in Nat
  /\ open \in BOOLEAN

\* The DRAM budget: never more blocks than slots, on any path that loads or
\* inserts, failed reads and batches included.  A cache configured with no slot
\* still holds the one block it was last asked for.
CapacityRespected ==
  Cardinality(cache_map) <= (IF CacheSlots = 0 THEN 1 ELSE CacheSlots)

\* The policy tracks the resident blocks, no more and no fewer: a block it has
\* forgotten can never be evicted, one it remembers wrongly is evicted in vain
\* and the loop of evictOne ends with the cache still full.
PolicyTracksResidents == tracked = cache_map

\* A lookup without the lock that no update of the slots overlaps returns the
\* block it was asked for, alive: whatever was evicted, and whichever blocks
\* shared its slot before, updates leave no pointer behind that is stale.  (A
\* lookup that an update overlaps may return anything, see LookupIsLive.)
UndisturbedLookupIsRight ==
  \A r \in Readers :
    reading[r].at = "returned" /\ reading[r].calm =>
      /\ reading[r].ptr = reading[r].block
      /\ reading[r].block \in cache_map

\* Each block the prefetcher put in is settled as useful or wasted exactly once,
\* when it leaves or when the cache is destroyed.
PrefetchSettledOnce ==
  inserted = stats.prefetch_useful + stats.prefetch_wasted
               + Cardinality(was_prefetched)

\* BoundedCache is the abstract specification: a policy, the pointer cache and
\* the counters may never make the cache drop a block a caller would not expect
\* to lose.
Abstract == INSTANCE BoundedCache

\* Every step of the cache is one of the bounded cache, or changes nothing in it.
ImplementsBoundedCache == Abstract!Spec

\* "disk_reads: the number of disk reads" (block_cache.h:124): no operation
\* reads more than one block.
DiskReadsCountedOnce == [][stats'.disk_reads <= stats.disk_reads + 1]_vars

\* "clear the pointer in the flat block cache (avoid dangling pointers)"
\* (block_cache.cpp:591): what the fast path returns is the block it was asked
\* for.
LookupIsLive ==
  [][\A r \in Readers :
       reading[r].at = "returning" /\ reading'[r].at = "returned" =>
         reading'[r].ptr = reading[r].block]_vars

=============================================================================
