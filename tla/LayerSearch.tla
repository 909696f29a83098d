----------------------------- MODULE LayerSearch -----------------------------
(***************************************************************************)
(* DiskHNSW::searchLayer0: the search of the base layer by one thread,     *)
(* with the vectors and the neighbour lists in blocks that come and go.    *)
(*                                                                         *)
(* The cache is the one BoundedCache specifies; the other threads that use *)
(* it load and evict blocks between any two lookups of this one.  What the *)
(* prefetcher promises of waitForBlocks (GraphPrefetcher!WaitsForEachBlock)*)
(* is that each block waited for has come in, or its read has ended: it    *)
(* need not be there still.                                                *)
(***************************************************************************)
EXTENDS SearchHeaps

CONSTANTS
  Blocks,      \* the blocks of the file
  BlockOf,     \* getBlockIdFast: the block of each node
  CacheSlots,  \* the capacity of the cache
  Graphs,      \* the graphs to search: a function of Nodes each
  Entries,     \* where a search may start
  Modes        \* the settings: records of
               \*   pq        pq_enabled_
               \*   csr       has_inmem_adjacency_
               \*   prefetch  graph_prefetch_enabled_
               \*   fails     may a read of a block fail?

ASSUME LayerSearchAssumption ==
  /\ BlockOf \in [Nodes -> Blocks]
  /\ CacheSlots \in Nat \ {0}
  /\ Graphs \subseteq [Nodes -> SUBSET Nodes]
  /\ Entries \subseteq Nodes
  /\ Modes \subseteq [pq : BOOLEAN, csr : BOOLEAN, prefetch : BOOLEAN,
                      fails : BOOLEAN]

VARIABLES
  mode, graph, entry,  \* the settings, the graph and entry_new_id: fixed
  cache_map,           \* the blocks in the cache
  in_flight,           \* the blocks the prefetcher is reading
  pc,                  \* where the search is
  candidate_set,       \* the nodes to expand
  top_candidates,      \* the nearest nodes so far
  lowerBound,          \* the distance a node must beat
  visited,             \* the nodes marked
  candidateId,         \* the candidate being expanded
  hit,                 \* was its block in the cache?
  local_neighbors,     \* its neighbours not yet looked at
  pending_neighbors,   \* those whose block was missing
  nid,                 \* the neighbour whose vector is being fetched
  seen                 \* history: the nodes whose distance was looked at

fixed  == <<mode, graph, entry>>
shared == <<cache_map, in_flight>>
heaps  == <<candidate_set, top_candidates, lowerBound, seen>>
locals == <<candidateId, hit, local_neighbors, pending_neighbors, nid>>
vars   == <<fixed, shared, pc, heaps, visited, locals>>

Cache == INSTANCE BoundedCache

Cached(n) == BlockOf[n] \in cache_map

-----------------------------------------------------------------------------
(* Distances and vectors.                                                  *)

\* The distance of n is known.
Consider(n) ==
  /\ seen' = seen \cup {n}
  /\ IF Admits(top_candidates, lowerBound, n)
     THEN /\ candidate_set' = candidate_set \cup {n}
          /\ top_candidates' = Insert(top_candidates, n)
          /\ lowerBound' = Dist[Farthest(top_candidates')]
     ELSE UNCHANGED <<candidate_set, top_candidates, lowerBound>>

\* A lookup that loads the block of n on a miss.
Loaded(n) == IF Cached(n) THEN UNCHANGED cache_map ELSE Cache!Load(BlockOf[n])

\* The same when the read fails: getNodeVector and getNodeNeighbors return
\* nullptr, and a full cache has lost a block for nothing.
LoadFailed(n) ==
  /\ mode.fails /\ ~Cached(n)
  /\ IF Cache!Full /\ cache_map # {} THEN Cache!LoadFails
                                     ELSE UNCHANGED cache_map

\* getNodeVector finds the vector in the flat vector cache, in a cached block or
\* in a block it loads.
VectorFound(n) ==
  /\ UNCHANGED cache_map \/ Loaded(n)
  /\ Consider(n)

-----------------------------------------------------------------------------
(* The entry node, the candidates.                                         *)

EntryFound ==
  /\ pc = "entry"
  /\ IF mode.pq THEN UNCHANGED cache_map
                ELSE UNCHANGED cache_map \/ Loaded(entry)
  /\ candidate_set' = {entry} /\ top_candidates' = {entry}
  /\ lowerBound' = Dist[entry]
  /\ visited' = {entry} /\ seen' = {entry}
  /\ pc' = "pop"
  /\ UNCHANGED <<fixed, in_flight, locals>>

\* "Failed to get vector for entry node": the empty heap is returned.
EntryFails ==
  /\ pc = "entry" /\ ~mode.pq
  /\ LoadFailed(entry)
  /\ pc' = "return"
  /\ UNCHANGED <<fixed, in_flight, heaps, visited, locals>>

\* Mutant: a full result is final.
MutFinished ==
  candidate_set # {} => Cardinality(top_candidates) = Ef

Finished ==
  candidate_set # {} =>
    Converged(top_candidates, lowerBound, Nearest(candidate_set))

\* Mutant: the candidate stays in the set.
MutPop ==
  /\ pc = "pop" /\ ~Finished
  /\ candidateId' = Nearest(candidate_set)
  /\ pc' = "expand"
  /\ UNCHANGED <<fixed, shared, heaps, visited, hit, local_neighbors,
                 pending_neighbors, nid>>

Pop ==
  /\ pc = "pop" /\ ~Finished
  /\ candidateId' = Nearest(candidate_set)
  /\ candidate_set' = candidate_set \ {Nearest(candidate_set)}
  /\ pc' = "expand"
  /\ UNCHANGED <<fixed, shared, top_candidates, lowerBound, seen, visited, hit,
                 local_neighbors, pending_neighbors, nid>>

Stop ==
  /\ pc = "pop" /\ Finished
  /\ pc' = "return"
  /\ UNCHANGED <<fixed, shared, heaps, visited, locals>>

Return ==
  /\ pc = "return"
  /\ pc' = "done"
  /\ UNCHANGED <<fixed, shared, heaps, visited, locals>>

-----------------------------------------------------------------------------
(* Expanding a candidate.                                                  *)

\* submitPrefetch of the blocks of the neighbours, but for the candidate's own.
SubmitPrefetch ==
  in_flight' =
    IF mode.prefetch /\ ~mode.pq
    THEN in_flight \cup
           ({ BlockOf[n] : n \in graph[candidateId] }
              \ (cache_map' \cup {BlockOf[candidateId]}))
    ELSE in_flight

Neighbours == graph[candidateId] \ visited

\* The block of the candidate is cached: the fast path.
ExpandHit ==
  /\ pc = "expand" /\ Cached(candidateId)
  /\ hit' = TRUE
  /\ local_neighbors' = Neighbours
  /\ UNCHANGED cache_map
  /\ SubmitPrefetch
  /\ pc' = "scan"
  /\ UNCHANGED <<fixed, heaps, visited, candidateId, pending_neighbors, nid>>

\* It is not: the neighbours come from the lists in memory, or from the block,
\* which is loaded.  (An empty list in memory counts as none.)
ExpandMiss ==
  /\ pc = "expand" /\ ~Cached(candidateId)
  /\ hit' = FALSE
  /\ local_neighbors' = Neighbours
  /\ IF mode.csr /\ graph[candidateId] # {} THEN UNCHANGED cache_map
                                            ELSE Loaded(candidateId)
  /\ SubmitPrefetch
  /\ pc' = "scan"
  /\ UNCHANGED <<fixed, heaps, visited, candidateId, pending_neighbors, nid>>

ExpandFails ==
  /\ pc = "expand"
  /\ ~mode.csr \/ graph[candidateId] = {}
  /\ LoadFailed(candidateId)
  /\ pc' = "pop"
  /\ UNCHANGED <<fixed, in_flight, heaps, visited, locals>>

\* n, a neighbour in the list, is looked at.
Take(n) ==
  /\ pc = "scan"
  /\ n \in local_neighbors
  /\ local_neighbors' = local_neighbors \ {n}
  /\ visited' = visited \cup {n}
  /\ UNCHANGED <<fixed, shared, candidateId, hit>>

\* Its distance needs no vector, or its block is cached on the fast path.
ScanNow(n) ==
  /\ Take(n)
  /\ mode.pq \/ (hit /\ Cached(n))
  /\ Consider(n)
  /\ UNCHANGED <<pc, pending_neighbors, nid>>

\* The other path asks isInCache and then getNodeVector.
ScanFetch(n) ==
  /\ Take(n)
  /\ ~mode.pq /\ ~hit /\ Cached(n)
  /\ nid' = n
  /\ pc' = "fetch"
  /\ UNCHANGED <<heaps, pending_neighbors>>

ScanLater(n) ==
  /\ Take(n)
  /\ ~mode.pq /\ ~Cached(n)
  /\ pending_neighbors' = pending_neighbors \cup {n}
  /\ UNCHANGED <<pc, heaps, nid>>

Fetch ==
  /\ pc = "fetch"
  /\ VectorFound(nid)
  /\ pc' = "scan"
  /\ UNCHANGED <<fixed, in_flight, visited, locals>>

FetchFails ==
  /\ pc = "fetch"
  /\ LoadFailed(nid)
  /\ pc' = "scan"
  /\ UNCHANGED <<fixed, in_flight, heaps, visited, locals>>

\* Mutant: the neighbours set aside are forgotten.
MutScanEnd ==
  /\ pc = "scan" /\ local_neighbors = {}
  /\ pc' = "pop"
  /\ UNCHANGED <<fixed, shared, heaps, visited, locals>>

ScanEnd ==
  /\ pc = "scan" /\ local_neighbors = {}
  /\ pc' = IF pending_neighbors = {} THEN "pop" ELSE "wait"
  /\ UNCHANGED <<fixed, shared, heaps, visited, locals>>

-----------------------------------------------------------------------------
(* The neighbours whose blocks were missing.                               *)

\* waitForBlocks; without a prefetcher there is nothing to wait for.
WaitForBlocks ==
  /\ pc = "wait"
  /\ { BlockOf[n] : n \in pending_neighbors } \cap in_flight = {}
  /\ pc' = "load"
  /\ UNCHANGED <<fixed, shared, heaps, visited, locals>>

\* After a wait on the fast path the cache is asked once more and no block is
\* loaded; on the other path, and without a prefetcher, one is.
AsksOnce == hit /\ mode.prefetch

TakePending(n) ==
  /\ pc = "load"
  /\ n \in pending_neighbors
  /\ pending_neighbors' = pending_neighbors \ {n}
  /\ UNCHANGED <<fixed, in_flight, pc, visited, candidateId, hit,
                 local_neighbors, nid>>

\* Mutant: without a prefetcher, too, only cached blocks are looked at.
MutLoadPending(n) ==
  /\ TakePending(n)
  /\ IF Cached(n) THEN Consider(n) /\ UNCHANGED cache_map
                  ELSE UNCHANGED <<heaps, cache_map>>

LoadPending(n) ==
  /\ TakePending(n)
  /\ IF AsksOnce THEN Cached(n) /\ Consider(n) /\ UNCHANGED cache_map
                 ELSE VectorFound(n)

\* The neighbour is dropped; it stays marked.
DropPending(n) ==
  /\ TakePending(n)
  /\ IF AsksOnce THEN ~Cached(n) /\ UNCHANGED cache_map ELSE LoadFailed(n)
  /\ UNCHANGED heaps

LoadEnd ==
  /\ pc = "load" /\ pending_neighbors = {}
  /\ pc' = "pop"
  /\ UNCHANGED <<fixed, shared, heaps, visited, locals>>

-----------------------------------------------------------------------------
(* Around the search.                                                      *)

\* A read of the prefetcher ends, and somebody reaps it.
Arrive(b) ==
  /\ b \in in_flight
  /\ in_flight' = in_flight \ {b}
  /\ \/ Cache!Load(b)
     \/ (b \in cache_map \/ mode.fails) /\ UNCHANGED cache_map
  /\ UNCHANGED <<fixed, pc, heaps, visited, locals>>

\* Another thread loads a block, or fails to.
OtherThread ==
  /\ pc # "done"
  /\ (\E b \in Blocks : Cache!Load(b)) \/ Cache!LoadFails
  /\ UNCHANGED <<fixed, in_flight, pc, heaps, visited, locals>>

Init ==
  /\ mode \in Modes /\ graph \in Graphs /\ entry \in Entries
  /\ cache_map = {} /\ in_flight = {}
  /\ pc = "entry"
  /\ candidate_set = {} /\ top_candidates = {} /\ visited = {} /\ seen = {}
  /\ lowerBound = 0
  /\ candidateId = entry /\ nid = entry
  /\ hit = FALSE
  /\ local_neighbors = {} /\ pending_neighbors = {}

\* The search itself.
Search ==
  \/ EntryFound \/ EntryFails \/ Pop \/ Stop \/ Return
  \/ ExpandHit \/ ExpandMiss \/ ExpandFails
  \/ \E n \in Nodes : ScanNow(n) \/ ScanFetch(n) \/ ScanLater(n)
  \/ Fetch \/ FetchFails \/ ScanEnd
  \/ WaitForBlocks
  \/ \E n \in Nodes : LoadPending(n) \/ DropPending(n)
  \/ LoadEnd

Next ==
  \/ Search
  \/ \E b \in Blocks : Arrive(b)
  \/ OtherThread

Spec == Init /\ [][Next]_vars

\* The searching thread is scheduled, and the reads it submitted end.
FairSpec ==
  /\ Spec
  /\ WF_vars(Search)
  /\ \A b \in Blocks : WF_vars(Arrive(b))

-----------------------------------------------------------------------------
(* Properties.                                                             *)

PCs == {"entry", "pop", "expand", "scan", "fetch", "wait", "load", "return",
        "done"}

\* The neighbours of the candidate whose distance is still to be looked at.
Left ==
  CASE pc = "entry"  -> {entry}
    [] pc = "expand" -> Neighbours
    [] pc = "fetch"  -> local_neighbors \cup pending_neighbors \cup {nid}
    [] OTHER         -> local_neighbors \cup pending_neighbors

\* Every variable stays in its domain.
TypeOK ==
  /\ mode \in Modes /\ graph \in Graphs /\ entry \in Entries
  /\ cache_map \subseteq Blocks /\ in_flight \subseteq Blocks
  /\ pc \in PCs
  /\ candidate_set \subseteq visited /\ top_candidates \subseteq visited
  /\ visited \subseteq Nodes
  /\ lowerBound \in Nat
  /\ candidateId \in Nodes /\ nid \in Nodes
  /\ hit \in BOOLEAN
  /\ local_neighbors \subseteq Nodes
  /\ pending_neighbors \subseteq visited
  /\ seen \subseteq visited

\* lowerBound, a copy of the worst distance in top_candidates, is never stale,
\* whichever way a neighbour's vector was found.
BoundIsCurrent ==
  top_candidates # {} => lowerBound = Dist[Farthest(top_candidates)]

\* Nothing the search could have overlooked: no read fails, and no neighbour is
\* looked up only once after a wait.
Lossless == ~mode.fails /\ (mode.pq \/ ~mode.prefetch)

\* The search with blocks that come and go is a best-first search in memory,
\* which overlooks nodes only when a read fails or with the prefetcher on.
Abstract ==
  INSTANCE BestFirst WITH links <- graph, origin <- entry, lossy <- ~Lossless,
                          candidates <- candidate_set, best <- top_candidates,
                          met <- seen, unmet <- Left, ended <- pc = "done"

\* Every step is one of the best-first search, or changes nothing in it.
ImplementsBestFirst == Abstract!BestSpec

\* What is returned are the Ef nearest of the nodes looked at, lossy or not.
TopIsNearest == Abstract!BestIsNearest

\* Every neighbour of a result has been looked at, when nothing is lost.
ResultIsClosed == Abstract!BestIsClosed

\* What is found does not depend on the cache, on the threads beside this one or
\* on the order in which blocks are found and loaded.
ResultIndependentOfCache == Abstract!BestIsTheResult

\* "The recall of the search must be that of an HNSW that is all in memory"
\* (include/disk_hnsw.h:8): reads do not fail, and the result is the same.
RecallAsInMemory ==
  pc = "done" => top_candidates = Abstract!SearchResult(graph, entry)

\* The search ends, whatever the other threads do to the cache.
SearchEnds == <>(pc = "done")

=============================================================================
