# DiskHNSW in TLA+

DiskHNSW searches an HNSW graph that lies on disk.  The upper layers are in
memory; the base layer is packed into 64 KB blocks, which a DRAM cache of a few
slots brings in on demand or ahead of use.  This directory holds TLA+
specifications of its components, the configurations that model-check them with
TLC, and proofs that TLAPS checks.  `PROJECT.json` ties every definition to the
lines of source it stands for and lists runs, theorems, findings and hazards.

## The system

| Component | State | Operations | Interacts with |
|---|---|---|---|
| `BlockCache` | `cache_map_`, the policy, the flat pointer cache, the flat vector cache, counters | lookups with and without loading, prefetch, insertion of blocks io_uring has read, statistics | calls the policy under its mutex; called by searches and by the prefetcher |
| Replacement policies | LRU list, LFU frequencies, LRU-2 histories | `onAccess`, `onInsert`, `onRemove`, `selectVictim` | called by the cache |
| `IoUring` | submission and completion rings, `inflight_`, buffer pool | `submitRead`, `submit`, `reapCompletions`, `waitCompletion`, buffers | owned by the prefetcher and by the fine rerank; shares memory with the kernel |
| `GraphPrefetcher` | `pending_requests_`, its mutex | submit, flush, reap, wait for all, one or some blocks | asks and fills the cache; lock order prefetcher, then cache |
| `DiskHNSW` base-layer searches | candidate heap, result heap, visited marks, lower bound | best-first, non-blocking, beam and batch-I/O searches | read blocks through the cache, submit and wait through the prefetcher |
| Event-driven batch | one `QueryState` per query | start, step, put off, wake on a loaded block | one thread drives many queries |
| Concurrent batch | a counter of queries, visited lists, the tables of the rerank, the slots of the hinting thread | take a query, search, answer | threads that share all this |
| Two-stage rerank | pages and buffers, a ring of its own, the heap `refined` | collect pages, read, rank, give back | follows a search by PQ distances |
| Index builder | levels, the lists of each layer, a visited list per thread | two parallel loops per round, rounds per layer | writes `graph_structure.bin` |
| Pipeline tools | files | extract, prune, reorder, pack blocks, shuffle, make route tables, verify | files only |
| Open index | graph, lists in memory, layout, tables, PQ codes | load, look up a vector, a list, a code; descend the upper layers | reads the files |
| Tuners, benchmarks, tests | | | drivers |

What is hard, and what would make each component correct:

* **Block cache.**  A read that fails after its victims are gone; a policy and
  a map that must not drift apart; a lock-free lookup beside a locked one;
  a flat pointer cache that must never lead to a destroyed block; counters
  settled in three places.  Correct: the capacity holds on every path, the
  policy tracks the resident blocks, a lookup without the lock that nothing
  disturbs returns the block it asked for, a prefetched block is settled once.
* **Policies.**  The victim is the one the policy's name promises.
* **Prefetcher.**  Several threads submit, reap and wait; the kernel completes
  in any order, in part or not at all; a completion names a block, not a
  buffer; the pool runs dry in the middle of a batch; `waitCompletion` runs
  without the mutex.  Correct: buffers are exclusive, the table of requests and
  the in-flight counter are exact, a waiter returns no sooner than its blocks
  are settled.  (That it returns at all does not hold, see `prefetch_lost_wakeup`.)
* **Searches.**  Any block may have been evicted by the time it is used.
  Correct: the result is that of the search with all vectors in memory
  (`include/disk_hnsw.h:8` promises it).
* **Searches that put nodes off.**  A neighbour marked and then put off must be
  measured later or be known to be lost; a bound frozen for a round must not
  reject what belongs in the result; a search that comes back to what it has put
  off must end.
* **Event-driven batch.**  A scheduler that must make progress while blocks come,
  go, or fail to come, and that uses block number 0 to say "none".
* **Concurrent batch.**  Marks of one byte in lists that outlive a query; tables
  built once while others look at an unguarded flag; slots folded from a counter.
* **Rerank.**  Fewer buffers than pages, merged reads, vectors across two pages,
  short reads.  Correct: every candidate is ranked once, by its own bytes,
  unless a read failed or the pool was too small; all buffers come back.
* **Pipeline.**  Five tools agree on a numbering and four on a block format.
  Correct: whatever the tools and whoever reads, a node's vector, list and code are
  its own; pruning and building keep a graph that can be walked.

## Modules

| Module | Models | Source |
|---|---|---|
| `BoundedCache` | abstract: a cache of `CacheSlots` blocks, one in, at most one out | what callers rely on |
| `BlockCache` | the cache with any policy | `include/block_cache.h`, `src/core/block_cache.cpp` |
| `LRUPolicy`, `LFUPolicy`, `LRUKPolicy` | the data structures, as operators on values | `include/replacement_policy.h` |
| `PolicyCache` | the cache composed with one of the three | both |
| `IoUring` | ring, kernel and buffer pool, as operators on shared variables | `include/io_uring_wrapper.h` |
| `GraphPrefetcher` | threads, kernel and prefetcher; the cache is `BoundedCache` | `src/core/graph_prefetcher.cpp` |
| `SearchHeaps` | the two heaps of a search, as operators on sets of nodes | `src/core/disk_hnsw.cpp` |
| `BestFirst` | abstract: the search with everything in memory | what `DiskHNSW` promises to equal |
| `LayerSearch` | `searchLayer0` over a cache that other threads use | `src/core/disk_hnsw.cpp` |
| `SharedBlocks` | the cache and the prefetcher as any search sees them | what `BoundedCache` and `GraphPrefetcher` promise |
| `RoundSearch` | `searchLayer0Beam` and `searchLayer0BatchIO` | `src/core/disk_hnsw.cpp` |
| `NonBlockingSearch` | `searchLayer0NonBlocking` | same |
| `EventBatch` | `batchSearchEventDriven`, `stepQueryState` | same |
| `FineRerank` | the second stage of `searchKnn` | same |
| `QueryThreads` | `batchSearchConcurrent` and what its threads share | same, `include/disk_hnsw.h`, `include/block_cache.h` |
| `BuildIndex` | the parallel builder of the graph | `src/pipeline/build_index.cpp` |
| `BlockFiles` | varints, the formats of blocks, packing, parsing | `include/common.h`, `src/core/block_cache.cpp`, `src/pipeline/write_*.cpp` |
| `GraphFiles` | `graph_structure.bin` and its three loaders | `include/common.h` |
| `PipelineTools` | the other tools, as functions from files to files | `src/pipeline/` |
| `LoadedIndex` | what opening an index makes of the files | `src/core/disk_hnsw.cpp`, `include/layout_provider.h` |
| `Pipeline` | the tools in order, the open index, the greedy descent | `scripts/build_pipeline.sh` and all of these |
| `...Proofs` (eight) | theorems | |
| `MC...` | constants for TLC | |

The composition is by contract.  `BlockCache` implements `BoundedCache` for
every policy (checked, and proved); `PolicyCache` implements it with each real
policy (proved); `GraphPrefetcher` uses `BoundedCache` as its cache, and
`LayerSearch` uses it too, together with what `GraphPrefetcher` promises of its
waits; `SharedBlocks` says the same to the other searches.  `LayerSearch`
implements `BestFirst` (checked, and proved).  `FineRerank` uses the ring and the
heaps; `Pipeline` runs the builder, the tools and the
loaders one on the files of another.

### BlockCache

What an operation does to the map, the policy and the counters is one action, because
whoever else looks at them needs `BlockCache::mutex_`.  The flat pointer cache is read
without the mutex, so it is modelled word by word: `evictOne` erases its victim
(`BeginWrites`: a pointer to it in a slot leads to `FREED` from then on), clears the
owner and then the pointer of its slot (`InvalidateOwner`, `InvalidatePointer`), and
`populateFlatCache` writes owner and pointer in two steps again; `writes` is what the
holder of the mutex has still to write.  The lookup without the lock takes a step per
access: it tests the owner, tests the pointer, marks through it, and returns it
(`TestOwner` to `ReturnFlat`), and may use the pointer it has tested or read it anew;
`reading` is where each of the `Readers` is in that, and whether an update has overlapped
it (`calm`).  `insertBlocksBatch` is one action per insertion; `batch` is what it has left
to insert, and with `writes` it says that the mutex is taken.

The victims of `while (size >= slots) evictOne()` are any set of tracked blocks the loop
may remove (`Evicts`), so the model covers every policy.  A failed read leaves the
victims gone (`MissFailed`).  `cache_map` is the set of resident blocks with two
flags as subsets of it.  `inserted` and `open` are history.  An operation that leaves the
state as it is (a prefetch of a resident block) is a stuttering step and has no action.

Left out: what is inside a block, file descriptors, simulated latency, the evictions of
the flat vector cache, the counters that are plain totals, and `recent_accesses_`, which
nobody reads.  Memory is sequentially consistent here: on a machine that reorders writes
(the repository has kernels for ARM) a lookup sees more than the model shows.

### Policies

`LruOnAccess(p, b)` and the like take the policy's value and return the new
one: a sequence for LRU, records per block with a clock for LFU and LRU-2.
`PolicyCache` is the cache as a policy sees it: the resident blocks (`residents`),
those that own their flat pointer slot (`pointed`), so that the policy is told of a
`SlowHit` and not of a `FlatHit`.  It records when each resident block was used, and
compares the victim with the textbook definition computed from that history.

### GraphPrefetcher and IoUring

A read is a pair of block and buffer, which is in `sq` (queued), `kernel`
(taken) or the domain of `cq` (completed, with `"full"` or `"short"`).  A thread
has a program counter; what the code does under the prefetcher's mutex is one
action, except the loop of `submitPrefetch`, one action per block (in any
order: the list is sorted by block id or by heat).  The wait operations are the
loop reap - check - wait, with `WaitCompletion` reading `inflight_` without the
mutex and `Enter` entering the kernel in a second step.  A completion wakes
every thread that sleeps in the kernel, which is the kindest reading of
`io_uring_enter`: a hang found here is a hang under any other.
`SubmitMayFail` lets `io_uring_enter` take any part of the queue, or nothing.

Left out: the counters and timers of `Stats`, signals that interrupt a wait,
and time itself: a timed wait may be out of time at any check.

### SearchHeaps, BestFirst and LayerSearch

One thread runs `searchLayer0`.  An action is the code from one use of the cache
to the next, because between two uses the other threads may load and evict any
block (`OtherThread`) and a read of the prefetcher may end (`Arrive`).  `pc` says
where the search is: looking up the entry node, at the head of the loop,
expanding a candidate, scanning its neighbours, fetching a vector after
`isInCache` said yes, waiting, loading what was set aside.  A record `mode` holds
the settings: PQ distances, neighbour lists in memory, prefetcher, and whether
reads may fail.  The fast path (the candidate's block is cached) and the slow
one differ in how they look up neighbours and in what they do after a wait:
`hit` tells them apart (`ScanNow`, `ScanFetch`, `AsksOnce`).  A vector can also be
found in the flat vector cache, with no block at all (`VectorFound`).

`BestFirst` is a search in memory with one step per node looked at; a `lossy` one
may overlook nodes.  The refinement mapping takes the heaps as they are, the
neighbours listed, set aside and being fetched as what is `left`, and calls the
search lossy if reads may fail or the prefetcher is on without PQ.  The same search is
there as a function of graph and entry (`SearchResult`), in the words of a textbook: the
`Ef` nearest nodes met, and those expanded.

A heap of pairs is the set of its nodes.  No two nodes are equally far from the
query: which of two equally distant nodes is kept depends on the order in which
they are met, in memory as on disk.  Neighbours are scanned in any order.

Left out: lookahead and speculative prefetch and heat ordering (they only decide
what is read ahead), `PQ_HYBRID` (a distance that depends on the cache by design),
neighbour ids beyond the graph, and the loops inside `waitForBlocks`, which
`GraphPrefetcher` models; other threads do not submit reads of their own.

### RoundSearch and NonBlockingSearch

Both work over `SharedBlocks`: between any two uses of the cache other threads may
load and evict.  Neither implements `BestFirst`, and the properties say what
takes its place.

`RoundSearch` has both searches that expand up to `Width` candidates at a time;
`mode.batch` tells them apart.  In a round `lowerBound` is the frozen one, `full`
says that the result was full when the round began, `beam` holds the candidates
taken and not yet expanded, `missIdx` those whose block was missing, and `pending`
the neighbours that wait for a block.  `settled` (the nodes looked at while
`full`) and `lost` are history.  The beam reads a missing list again through the cache
only, never from the lists in memory (`RefetchFindsNone`): over vec-only blocks, where
a block has no lists (`mode.vec_only`), it finds none and loses the candidate.

`NonBlockingSearch` has the three phases of the code: candidates; the neighbours
put off, asked for again; the last resort when no candidate is left.  `deferred`
and `unchecked` are the two lists between which the code moves what it has put
off.  A neighbour is marked when it is put off, and the retry passes over what is
marked (`Ready`), so in effect only the last resort measures it.  What the other searches
call `mode` and `pc` is `options` and `at` here, since `QueryThreadsProofs` extends this
module and `QueryThreads`.

### EventBatch

One thread, so an action is what it does between two looks at the cache, and the
cache changes only where the code reaps or loads.  The two loops over neighbours,
those put off and those of the candidate expanded, are an action per neighbour
(`RetryNext`, `ScanNext`); `todo` is what the loop has before it.  `states[q]` is the `QueryState` of
a query, `pc` and the loop variables are those of the event loop; a query takes up
to `GreedyLimit` steps in its turn.  `Submit` reaps and loads at once what the pool
(`mode.buffers`) has no buffer for (`SubmitDry`).  Evictions are free: any block may go, as long
as one of those just loaded stays.  `MaxFailures` bounds the reads that fail.
Per-query distances are left out: queries differ in where they enter.

### FineRerank

One search, from the candidates of the coarse stage to the labels, on each of its
four paths: `pread`, the ring with and without `FINE_CQE_PEEK`, and whole blocks.
A loop over the candidates is an action per candidate (`Step`) and `todo` is the set
of those to come: they may come in any order, because the heap keeps the same.
`page_buf` maps a page to its buffer and its half of it, `content` is what the buffer
really holds, so that ranking by the wrong bytes would show (`misread`).  The ring
is `IoUring`, its kernel completes in any order, in full or short.  `PagesOf` puts a
vector on one page or across two.  `unread` and `left_out` are history: the pages whose
read failed, and those that no buffer was left for.

### QueryThreads

The threads of several calls.  A search is reduced to what it shares with others:
the nodes it marks, and one candidate that the rerank looks up.  An action is one
access to shared memory where another thread could tell: clearing, filling and
publishing a slot are three, writing the owner and the vector of a flat slot two.
`std::call_once` blocks while another thread builds and returns when it has, in
failure or success; filling the tables, setting the flag and leaving the call are three
actions, since the flag is tested without the lock.  Without `VEC_BLOCKS_PATH` nobody
builds (`mode.vec_path`).  `Marks` is 2^8, small here so that it wraps.

### BuildIndex, the files, and Pipeline

`BuildIndex` is a state machine because its loops are parallel: an action of a loop
is one node by one thread, and `Forward` keeps a thread's visited list from node to
node.  Random choices (levels, first neighbours, the sample for the medoid) are
free.  Its lists are built by the code's own `robust_prune` and `greedy_search`, which
are recursive functions, one value per pass of the loop of the code.  The first
neighbours of a round are a random set, written as a list in one order only: the search
that starts from them sorts by distance.

A file is a sequence of cells.  A cell is a field, a coordinate, or a byte of a
varint, so offsets, padding, headers and lists that must be decoded to be skipped
are all there; `Base` and `MaxBytes` make numbers of two bytes happen among four
nodes.  The tools are operators from files to files; `Pipeline` has an action per
tool, guarded by the files it reads, and opens an index over what was written.
Where a tool is random (a shuffle, k-means) its outcome is any that the code
admits.  Points, pages and codebook are small integers.  The descent through the
upper layers is an action per pass.

## Runs

| Run | Question | Bounds |
|---|---|---|
| `block_cache` | do policy and residents agree, does a lookup without the lock return its block, alive, if nothing disturbs it, is each prefetched block settled once? refinement of `BoundedCache` | 3 blocks on 2 slots and 2 flat slots, so that blocks collide in a flat slot; one lookup beside one writer; batches of 2; counters up to 2 before an operation starts |
| `policies` | does each policy mirror the cache, and is the victim the promised one? | 3 blocks, 2 slots, 6 uses: enough for three uses of a block, an eviction and a return |
| `prefetch` | buffers, requests, in-flight counter, waits | 2 threads, 3 blocks, 2 buffers, 2 slots, failing submissions; symmetric threads, blocks and buffers (its one temporal property is an action property) |
| `prefetch_lost_wakeup` | does a thread that waits wake up? violated: another thread reaps the last completion between its check of `inflight_` and the system call | 2 threads, 2 blocks, 1 buffer, 1 slot, submissions succeed, strong fairness |
| `layer_search` | refinement of `BestFirst`, the result is closed and the one found in memory, the search ends | 4 nodes in 2 blocks on 1 slot, a result of 2, 3 graphs, 2 entries, 7 settings; any eviction at any time |
| `rounds` | what may the frozen bound and a round cut short lose? does the search end? | same nodes, rounds of 2, 3 entries, both searches in 12 settings, blocks with lists and vec-only ones |
| `nonblocking` | is the result right as far as it has looked? what can keep the search from ending? | same nodes, every setting |
| `event_batch` | is no neighbour lost, does a query wait for what it needs, does the batch end? | 2 queries of 4 nodes, 2 graphs, blocks with and without number 0, caches of 1 and 2, a pool of 1 and 2 buffers, one failing read, turns of 2 steps |
| `rerank` | buffers, ranking, what is lost to failed reads and to a pool too small, does it return? | 4 nodes on 4 pages, two of them across pages; 3 buffers, one too few; 11 settings |
| `query_threads` | marks, tables, slots; is each query answered once? | with and without a file of vectors, 2 threads, 3 queries, 2 calls, marks of 3 values (one wrap within a call), 3 slots |
| `pipeline` | is the builder free of races and its graph sound? do the files fit, and is what is read for a node its own (in a reordered vec-only file: for the fine rerank only)? does pruning keep progress, does the descent end, and where the self-test does? | 4 points in 3 dimensions, 2 builder threads, 2 rounds, pages of 7 cells, two or more blocks in each format, 2 stored graphs, 3 prunings, 2 queries, one reordering in any order |
| `pipeline_verify` | does `verify` accept the files of a pipeline that went well? violated: it reads blocks from behind the header, not from the next page on | same |

Three blocks on two slots are the smallest cache in which a block has to go
while another stays; two flat slots for three blocks make two blocks share one.
Two threads suffice for every race on the prefetcher's shared state, one buffer
less than blocks makes the pool run dry in the middle of a batch.  In the searches
every two neighbouring nodes compete for the one slot, a result of half the
nodes makes the bound reject some and the search stop early, and one of the
graphs hides the nearest node behind the farthest.  In the batch two queries that
need different blocks of a cache of one thrash; one failure is enough to lose a
block somebody waits for.  In the rerank two merged reads and one single use up
the buffers.  In the pipeline the points lie on different axes at different
distances, so that levels, prunings and clusters all come out in several ways.

The invariants named `TypeOK` hold in the same configurations.  Most are proved, or
are part of a property listed (`ResultIsRight`, `RankingIsRight`); the runs spend
their properties on the rest.

Deadlock is not checked where the system may stop: a destroyed cache and the
counter bounds end a behaviour of the cache runs; threads that sleep for
reads nobody completes end one of the prefetcher run; a search, a batch, the last
call and a pipeline return.  That they do is a liveness property of the
same run (`SearchEnds`, `EndsUnlessDeferring`, `EndsIfBlocksStay`, `ReturnsIfTaken`,
`AllAnsweredOnce`, `DescentEnds`).

## Fairness

`StrongFairSpec` of the prefetcher is used for a statement that fails, so it assumes all
one could wish for: each thread that can go on inside an operation does, even if it can only
now and then, and the kernel completes each read it took.  It does not assume that a
thread calls anything, so nothing outside rescues a stuck one.

`FairSpec` of `LayerSearch` and `RoundSearch`, and `NonBlockingFairSpec`, assume that the
searching thread is scheduled (`WF` on `Search`, `SearchStep`) and that each read in flight ends
(`WF` on `Arrive`), in success or failure.  Nothing is assumed of the other threads,
which may evict for ever.  The non-blocking search need not end then:
`EndsUnlessDeferring` says that it can only go on for ever over what it has put
off.

`EventBatch` has one thread, and its waits include the reads they wait for: `WF` on
`Next`.  With a prefetcher and a cache too small for the blocks waited for, two
queries can evict one another's block by turns for ever, so `EndsIfBlocksStay` is
about batches whose blocks stay, and that do not use block number 0.  `FineRerank` takes
`WF` on the thread and on the kernel; reads that `io_uring_enter` left in the queue
are never completed.  `QueryThreads` takes `WF` on each thread, on the hinting
thread and on the caller of the next batch.  In `Pipeline` only the
descent is fair (`WF` on `Walk`); nobody has to run a tool.

## Proofs

All theorems hold for every value of the constants that satisfies the named
assumptions (`BlockCacheAssumption`, `IoUringAssumption`, `PrefetcherAssumption`,
`SearchHeapsAssumption`, `SharedBlocksAssumption`, `LayerSearchAssumption`,
`RoundSearchAssumption`, `NonBlockingSearchAssumption`, `QueryThreadsAssumption`,
`PolicyCacheAssumption`, `EventBatchAssumption`, `FineRerankAssumption`,
`BuildAssumption`, `BlockFilesAssumption`, `LoadedIndexAssumption`, and
`PipelineAssumption`, which says what an index of hnswlib that `extract_graph` reads
looks like: lists of nodes that have lists on that level, no longer than `MaxM0` in the
base layer, vectors of one length, labels of their own; and what fits: an id is smaller
than `NotFound` and its varint no longer than `MaxBytes`, and a block of each format has
room for its header and any one node.  Where a node does not fit, `write_blocks` writes past
its buffer, see below: there is no behaviour to prove anything of).  The bounds of the
runs (`MaxFailures`, `MaxClock`) are constants like the others: a proof for every
value of a bound is a proof without it.

*Block cache* (`BlockCacheProofs`).  `CacheInvariant` proves the inductive invariant
`IInv`: types, the capacity, the policy in step with the map, the slots and the lookups
that read them, prefetch accounting.  The capacity alone is not inductive: the eviction loop ends
early when the policy has nothing to offer, so it needs the policy in step; the
accounting needs `was_accessed` and `was_prefetched` to be parts of the map.  That a
lookup without the lock is right when no update overlaps it (`CacheLookups`) needs two
parts.  `SlotsFollow` says of every slot but those still to be written that owner and
pointer are of one resident block or both empty, and of those still to be written how far
the writes have come: an evicted block that owns its slot is among them, and one that does
not is not pointed to.  `CalmLookups` says of a lookup that nothing has overlapped that no
writes are due and its block still owns the slot, so the pointer it holds is its block's.  One lemma per way of changing the map
(`LoadPreserves`, `FailPreserves`) serves all the operations.
`CacheRefinesBoundedCache` shows that every step loads one block, loses one block,
or changes nothing; `OneVictim` is the key: with the invariant, the loop of the
eviction removes at most one block.

*Policies* (`BlockCacheProofs`).  What a policy knows of the past is less than the
history, so the invariant (`PolicyIInv`) says what of it the structure keeps: the list of
LRU is in the order of the last uses; LFU counts the uses exactly, and its stamps, which
it writes at insertion only, are in the order of the first uses; LRU-2 keeps
as many stamps as there were uses, two at most, and stamps of any two blocks compare as
the uses they are of.  Histories are increasing and no two blocks share a use (`Dated`).
The victim of LFU and LRU-2 is a `CHOOSE`, so the least element has to be shown to
exist (`LeastPair`).  That the victim is resident gives the refinement
(`PolicyRefinesBoundedCache`).

*Prefetcher* (`ParallelProofs`).  `PrefetcherInvariant`: the three places of a
read are disjoint (`PhasesDisjoint`), the pending requests are what is outstanding,
buffers are one-to-one with reads and the rest is free, `inflight_` is their number;
and the mutex is held by the one thread in the loop.  `QueueHasRoom` is what saves
`submitRead`, which never asks: the pool is no larger than the queue, and a
thread that queues a read holds a free buffer, so fewer than `SqEntries` are
queued.  `PrefetcherWaits` proves the action property from the typing alone.

*The heaps* (`BestFirstProofs`).  A finite heap has a top: the set without one that
is smallest by inclusion cannot exist.  Inserting an admitted node keeps the nearest
ones (`InsertHoldsNearest`), and inserting any node into a full heap keeps it full
and throws out the farthest (`InsertKeepsFull`).  The searches, the batch and the
rerank rest on these.

*searchLayer0* (`BestFirstProofs`, `LayerSearchProofs`).  `BestFirstIsCorrect` needs two
facts: until the search ends, a result whose neighbours are not all looked at is
still a candidate or has the rest in `left` (`FrontierIsKnown`), and a search that has
ended had converged (`EndedForGood`).  `SearchRefinesBestFirst` maps each action of
`searchLayer0` to a step of `BestFirst` or to a stutter; it needs `BoundIsCurrent`,
because the abstract search computes the bound afresh, and `Marks`, because the code
skips what is marked and the abstract search what was looked at.  In a search that
can lose nothing the two differ by what is set aside or being fetched, so a node
that is dropped anywhere else would break the proof.  `ResultIsRight` carries the
theorem of `BestFirst` over.

That the result is the one found in memory (`ResultIsThatInMemory`) is a statement about
two runs, so `BestFirst` has the search as a function too (`SearchResult`): expand the
nearest of the best `Ef` that was not expanded, until all are.  `BestFirst` meets
neighbours in any order, and the candidates it keeps depend on the order: a node may be
admitted before a nearer one drives it out, or not at all.  `KeepsStep` says that they do
not matter: what has been met and is still to be met is what the function has met after
some number of steps, and the results that are candidates are those it has not expanded.
A candidate that is no result is farther than a full result, so it is never expanded
(`ExpandsTheNext`).  The number of steps is that of the nodes expanded, so the function
needs no more of them than there are nodes; once no result is left to expand it stays as
it is (`LastState`).

*The searches by rounds* (`RoundSearchProofs`).  That the frozen bound is safe once
the result is full (`FrozenBoundIsSafeOnceFull`) is not inductive.  `Frozen` adds that
no result is farther than the bound, which holds when a round begins and goes on
holding because a full heap only gets nearer; a node rejected against the bound is
then farther than all that will be kept.  `LossesAreKnown` follows the
neighbours of a result through the stations of an expansion (`Explored`): candidate
set, round, expansion, scan, or lost.  A search that converges has no result among
its candidates, again because of `Frozen`.  Over vec-only blocks a list can be missing with no
read failing, and the theorem says so.  `ResultsOnlyImprove` is the action
property `ResultNeverWorsens`.

*The non-blocking search* (`QueryThreadsProofs`).  A node may be put off and asked
for again any number of times, so that it enters the heaps once is not clear from any
one action.  `Waits` says that the two lists hold marked and unmeasured nodes, each
once and in one of them; with it `TopIsNearest` is kept by every measurement, and
the branch in which the retry would measure a node is never taken.

*The threads of a batch* (`QueryThreadsProofs`).  `MarksAreOwn`: the marks in a list are
no greater than the current one, and equal to it exactly where this query has
marked (`VisitedLists`); clearing at the wrap is what keeps the first half.
`TablesAreThere`: one thread builds, those that come later wait for it, and
the flag that is read without a lock is set by the one that has filled the tables, which may
be before `call_once` has returned to anybody (`Once`).
`OneWriterPerSlot`: the slot of a writer is its number modulo `Slots`, and the number is
forgotten, so the invariant says that there is an assignment of numbers to writers
(`Tickets`): each its own, all of them among the last ones given, and no more of these than
writers.  Two numbers with the same remainder are at least `Slots` apart, so no two
writers share a slot if there are no more threads than slots.

*The event-driven batch* (`EventBatchProofs`).  The queries share only the cache, so one
invariant per query is enough (`Sound`), with what its step has in hand as parameters:
the neighbours of the retry that it has still to look at, and those of the expansion.  What
is marked is measured, deferred, or in the hand of the retry, in one place and once
(`Marks`); the result is that of `HoldsNearest`; a result has been expanded, or is a
candidate, or its unmarked neighbours are ahead (`Frontier`).  `WaitsForWhatItNeeds` is not
inductive: a wait begins in the middle of a step, so `Needs` says which of entry,
candidate and deferred neighbour the block is of, and every step that moves the nearest
candidate is shown to happen while nothing is waited for (`Loop`).

*The rerank* (`QueryThreadsProofs`).  That a buffer has one owner is not inductive: a read
that fails gives back the buffer of its first page, so `Reads` says that each read in the
ring, or reaped and not handled, has exactly the pages it was made for, and no page
has its buffer otherwise; then `Pool` is a partition of the buffers, and `Release`, which
gives back the buffers behind pages, gives back all (`RerankBuffersComeBack`).
The loop ends when `left` is 0, so `left` must be the number of reads (`Counted`).
`Bytes` says that what was read in full lies in its buffer as long as a page needs it,
which a read with another owner would break.  For `LostToReadsOrBuffers` a candidate
not ranked has a turn to come or lacks a page (`Covered`), and a page needed is to
be asked for, has a buffer, or is known to be missing (`PagesDue`); and a page
goes without a buffer only when all buffers are held, each for a page needed other than
this one, so the pages needed are more than the buffers (`Shortage`, `NoBufferIsShort`).  Three of the
loops do not ask whether a candidate was ranked before; `FirstTime` says why none was.

*The builder* (`ParallelProofs`).  `LoopsAreParallel` rests on `MarksOld`: no mark in a list
is greater than the current one, so the next is new; at the wrap the list is cleared.
`BuiltGraphIsSound` follows the lists of a layer through its rounds (`GraphInv`: lists over
the layer and within the degree; what the second loop has made is `RobustPrune` of
forward and incoming neighbours; what is stored is closed).  That `RobustPrune` returns
other nodes, each once, within the degree, and leaves out a node only for a nearer neighbour
or for a list full of nearer ones (`Spared`), is shown over the passes of its loop; that
`GreedySearch` stays in its layer likewise.  An induction theorem of the library cannot be
cited, but its least counterexample can: `StepsKeep` says that what the first pass has
and every pass keeps, all have, and `RecursionExists` that a function defined pass by
pass is one.

*The files and the descent* (`ParallelProofs`).  `PipelineIsRight` is the inductive
invariant of `Pipeline`: what `graph.bin` holds is what some graph was saved as
(`GraphFileInv`, with the graph kept apart from the file); a file that was made from
another still fits it (`FilesFollow`); the order is that of the breadth-first search
(`BfsIsRight`); the codes, the open index and a query under way belong to the graph
(`CodesAreRight`, `IndexIsRight`, `QueryIsRight`).  Under it lies that a file is read
back as it was written: `FlattenSeqHolds` finds the parts of a file of parts at their
places, for which a part has to begin where those before it end, and
`EvenParts` does where the parts are of one length; so what is saved is loaded
(`Saved`, `SavedIsLoaded`), and the three loaders read the same (`LoadersRead`), which
is `LoadersAgree`.

`PruningSparesProgress` is `PruningKeepsProgress`.  The sorted list is one order of the
list it was made from, nearest first, because there is a sorted one at all; what `Mrng` and
`FilledUp` leave out of it has something nearer in its place, or comes behind a full
list (`Shortened`).

`OrderStaysBfs` is `OrderIsBfs`.  The queue of the search holds nodes of one distance and,
behind them, nodes of the next one; what was marked is in the order or in the queue, once;
a node in the order has only marked neighbours (`Searched`).  The distances themselves
are defined by rounds over the graph (`Hops`), so it is shown that a node marked at some
distance has that one, and that a node never marked has none.  The nodes that are not
reached follow, and are the farthest.

`DescentGoesRight` is `DescentIsRight`.  The two descents are two programs: the
deployed one takes the first of the nearest neighbours in each pass, the builder's
self-test the last improvement of a scan, and makes a fixed number of passes.  Both are the same
step (`StepIsOne`); a pass that does not change the place is the last that does (`SettleSteps`,
which needs that a walk that gets nearer each time cannot visit more nodes
than there are).  So it does not matter how far the walk is, only where it would end: what
is invariant is that the self-test, begun at the node and level the query is at,
ends where it ends from the entry point (`GoesOn`).

*The block files* (`FilesProofs`, which extends `ParallelProofs`).  `FilesFit` is
`FilesAreInOrder`.  `PipelineIsRight` says nothing of the blocks, so `FilesAreRight` adds
them: `vec_bin` holds the planned blocks, each with its nodes in some order (`VecFile`,
`Shuffled`), and `vec_route` is the table of those plans; `blocks_bin` holds packed lists, and
`route_bin` is what `gen_route` makes of it (`VecIsRight`, `BlocksAreRight`).  The plans are
followed node by node (`Packed`): a block is opened when the next node would not fit, so the
blocks are consecutive stretches of the ids, none is empty and none overflows.  That a
reorder keeps the invariant needs only that it permutes each block (`OtherOrder`): true of
the greedy one because each pass places one node that is left, and begins a new page with
one when none on the page has neighbours left.  A block is found again behind the padded
header because all blocks of a file are of one length (`BlocksFound`).

`ReadsStayOwn` is `ReadsAreOwn`.  `ReadsAreRight` adds the codes, the open index and the
tables as they were loaded.  Encoding and decoding are followed byte by byte: the digits of a
varint add up to the number (`VarintReadBack`); the differences of a sorted list add up
to the list, whatever follows it in the block (`DeltaReadBack`), so a list
read out of memory (`CsrReadBack`) or out of a block (`BlockReads`) is the list written.  The tables of
the fine rerank find a node wherever the order of its block put it
(`FineVectorIs`), and since no two nodes share a label, the vector found through the
label is the node's own (`OwnIs`).  A file of vectors alone is never taken for one with
lists (`TwoKinds`).

What these proofs reason about was written with folds and is written as recursive
functions now, whose definitions the provers can use.

So every safety invariant that the runs check is proved.  Only model-checked is
liveness (`SearchEnds`, `EndsUnlessDeferring`, `EndsIfBlocksStay`, `ReturnsIfTaken`,
`AllAnsweredOnce`, `DescentEnds`), which is out of the prover's reach.

## Statements of the sources that do not hold

Two runs show one each.  `pipeline_verify`: `verify.cpp:111` reads blocks right behind the
header, while every writer puts them on the next page, so `verify` rejects good files.
`prefetch_lost_wakeup`: `graph_prefetcher.cpp:3` calls the prefetcher safe with several
threads, but another thread may reap the last completion between the check of `inflight_`
and the system call (`io_uring_wrapper.h:318`), and the sleeper never wakes
(`BlockedWakes`).

The modules keep more statements, as properties with the quotation above them.  Each
is violated; put it in the place of the properties of the configuration named, with the
constants given, to see how.

| Property | Statement | The code | Configuration |
|---|---|---|---|
| `DiskReadsCountedOnce` | `block_cache.h:124`: the number of disk reads | `tryPrefetch` counts a read twice, `block_cache.cpp:848` | `MCBlockCache.cfg`, as PROPERTY |
| `LookupProtects` | `disk_hnsw.cpp:2729`: the lookup updates the LRU | the flat pointer cache hides it from the policy, `block_cache.cpp:1020` | `MCPolicyCache.cfg`, `PolicyNames = {"lru"}` |
| `LfuTieByLastAccess` | `replacement_policy.h:149`: `last_access` | it is the time of insertion, `:107` | same, `{"lfu"}` |
| `LookupIsLive` | `block_cache.cpp:591`: clears the pointer, to avoid dangling ones | the block is erased before its slot is cleared (`:587`), and owner and pointer are written one after the other (`:313`): the lookup without the lock returns freed memory or another block | `MCBlockCache.cfg`, as PROPERTY |
| `ZeroWaitNeverBlocks` | `graph_prefetcher.h:76`: returns at the limit | `waitForCompletions(0)` sleeps, `graph_prefetcher.cpp:197` | `MCGraphPrefetcher_wakeup.cfg`, one thread, as INVARIANT |
| `RecallAsInMemory` | `disk_hnsw.h:8`: recall as in memory | with the prefetcher on, a block that comes and goes before it is asked for, once, costs its nodes, `disk_hnsw.cpp:758` | `MCLayerSearch.cfg`, `Modes <- MCPrefetchMode` |
| `FrozenBoundLosesNothing` | `disk_hnsw.cpp:1392`: loses nothing that should be kept | before the result is full the frozen bound is too near, `:1516` | `MCRoundSearch.cfg`, as INVARIANT |
| `ResultIsClosed` | `disk_hnsw.cpp:1308`: the candidate is out of range | so may be the next, but those already taken for the round are dropped with it, `:1309` | same |
| `MemoryListsSurviveEviction` | `block_cache.cpp:427`: the lists of a vec-only block are read from the CSR in memory | the beam asks the cache only, `disk_hnsw.cpp:1102`, and loses the candidate | `MCRoundSearch.cfg`, as INVARIANT |
| `SearchEnds` | `disk_hnsw.cpp:1046`: the deferred are loaded as a last resort | a candidate is left that is no improvement, and the last resort is never reached, `:1018` | `MCNonBlockingSearch.cfg`, `Options <- MCPlainMode` |
| `DeferredIsMeasured` | `disk_hnsw.cpp:957`: the mark is set later | it is set before the node is put off, and the retry skips the marked, `:932` | same |
| `BatchEnds` | `disk_hnsw.h:100`: `waitingBlockId`, 0 for none | a query that waits for block 0 does not wait, and nobody reads it | `MCEventBatch.cfg`, `Modes <- MCRoomyModes` |
| `RankedByOwnVector` | `block_cache.cpp:622`: vectors can safely be cached | the owner is written before the vector, `block_cache.h:191` | `MCQueryThreads.cfg`, `Modes <- MCFlat` |
| `SlotIsExclusive` | `disk_hnsw.cpp:1833`: one producer, one consumer, a flag | the producer does not wait for the flag, `:1874` | same, `Modes <- MCWillneed` |

Met while translating, without a property of their own: `write_blocks` writes a node
larger than a block past its buffer (`write_blocks.cpp:115`), and
`write_blocks_veconly` tries for ever to place one; the `break` that
`shuffle_vecblocks` says does not happen does, when no remaining node is connected to
the page; a shuffled vec-only file read through `BlockCache` gives other nodes'
vectors, since `CachedBlock` finds a node by its distance from the first id
(`block_cache.h:67`), so `VectorsAreOwn` asks it of files in order only; `pqDistance` looks
at a table of its own that nobody fills, so its fast path is never taken;
`load_graph_structure_slim` and `submitAndWait` are called by nobody.

## Not modelled

* `src/include/gbdt_model.h` (6050 lines): the generated decision trees of the learned
  candidate count.  `FineRerank` takes the limit they give as any.
* `src/tools/rp-optuna-tuner/` (its `disk_hnsw_llsp.cpp` is a 3071-line fork of
  `disk_hnsw.cpp`), benchmarks, tests and scripts: they drive the rest.
* Distance kernels: floating point; a search needs only the order of distances.
* Block heat, lookahead and speculative prefetch: they decide only what is read ahead, and
  in which order.  `PQ_HYBRID`: a distance that depends on the cache by design.
* The handles that lookups return: they outlive the mutex (`block_cache.cpp:662`), so an
  eviction can free what a caller reads.  The code promises nothing there that could be
  checked.
* A memory that reorders: every write is seen by all threads at once and in order.
* A second index in the same process: the `once_flag` of the fine rerank is static
  (`disk_hnsw.cpp:1762`), so a second index never builds its tables and falls back.
* The 512 bytes on the stack that a vector across two pages is put together in
  (`disk_hnsw.cpp:1898`, `:2004`, `:2114`): too few for more than 128 dimensions, where the
  copy overruns them.
* `disableGraphPrefetch`'s limited wait: after it the kernel may write to freed memory.
* Set-up of rings, files and memory maps, simulated latency, time itself,
  counters of profiles.  `RandomLayoutProvider` (one test uses it).

Together the generated trees, the tuner's fork, kernels and I/O set-up are
about half of the lines; the other half is what the modules above are about.

## Plan

1. A node too large for its block: `Pack`, `WriteBlock` and the readers with the bytes beyond
   the buffer as unknown, to say which files are still good, in place of the assumption.
2. The handles of lookups, as a module that says what a caller may rely on if evictions
   wait for readers.
