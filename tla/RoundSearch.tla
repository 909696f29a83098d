----------------------------- MODULE RoundSearch -----------------------------
(***************************************************************************)
(* DiskHNSW::searchLayer0Beam and searchLayer0BatchIO: the two searches of *)
(* the base layer that take up to Width candidates at a time and expand    *)
(* them in one round, so that their reads overlap.  Within a round the     *)
(* bound is frozen: lowerBound is set at the end of a round, and frozenLB  *)
(* is its value throughout the next.                                       *)
(***************************************************************************)
EXTENDS SharedBlocks

CONSTANTS
  Width,    \* beam_width, batch_size
  Graphs,   \* the graphs to search: a function of Nodes each
  Entries,  \* where a search may start
  Modes     \* the settings: records of
            \*   batch     searchLayer0BatchIO, or else searchLayer0Beam?
            \*   pq        pq_enabled_
            \*   prefetch  graph_prefetch_enabled_
            \*   fails     may a read of a block fail?
            \*   vec_only  do the blocks hold vectors only, the lists being
            \*             in memory (has_inmem_adjacency_)?

ASSUME RoundSearchAssumption ==
  /\ Width \in Nat \ {0}
  /\ Graphs \subseteq [Nodes -> SUBSET Nodes]
  /\ Entries \subseteq Nodes
  /\ Modes \subseteq [batch : BOOLEAN, pq : BOOLEAN, prefetch : BOOLEAN,
                      fails : BOOLEAN, vec_only : BOOLEAN]

VARIABLES
  mode, graph, entry,  \* the settings, the graph and entry_new_id: fixed
  pc,                  \* where the search is
  candidate_set,       \* the nodes to expand
  top_candidates,      \* the nearest nodes so far
  lowerBound,          \* the frozen bound
  visited,             \* the nodes marked
  beam,                \* the candidates of the round still to be expanded
  missIdx,             \* those whose block was missing when they were taken
  candidateId,         \* the candidate being expanded
  local_neighbors,     \* its neighbours not yet looked at
  pending,             \* the neighbours whose block was missing
  needed,              \* the blocks to wait for, or to load
  seen,                \* history: the nodes whose distance was looked at
  settled,             \* history: those looked at in a round that began full
  full,                \* history: was the result full when the round began?
  lost                 \* history: the candidates given up unexpanded

fixed   == <<mode, graph, entry>>
shared  == <<cache_map, in_flight>>
heaps   == <<candidate_set, top_candidates, seen, settled>>
round   == <<lowerBound, full>>
taken   == <<beam, missIdx>>
locals  == <<candidateId, local_neighbors, pending, needed>>
vars    == <<fixed, shared, pc, heaps, round, visited, taken, locals, lost>>

-----------------------------------------------------------------------------
(* Entry and rounds.                                                       *)

\* The distance of n is known; the bound stays as it is until the round ends.
Consider(n) ==
  /\ seen' = seen \cup {n}
  /\ settled' = IF full THEN settled \cup {n} ELSE settled
  /\ IF Admits(top_candidates, lowerBound, n)
     THEN /\ candidate_set' = candidate_set \cup {n}
          /\ top_candidates' = Insert(top_candidates, n)
     ELSE UNCHANGED <<candidate_set, top_candidates>>

EntryFound ==
  /\ pc = "entry"
  /\ IF mode.pq THEN UNCHANGED cache_map ELSE GetVector(entry)
  /\ candidate_set' = {entry} /\ top_candidates' = {entry}
  /\ lowerBound' = Dist[entry]
  /\ visited' = {entry} /\ seen' = {entry} /\ full' = (Ef = 1)
  /\ pc' = "collect"
  /\ UNCHANGED <<fixed, in_flight, settled, taken, locals, lost>>

\* "Failed to get vector for entry node": the empty heap is returned.
EntryFails ==
  /\ pc = "entry" /\ ~mode.pq /\ mode.fails
  /\ GetBlockFails(BlockOf[entry])
  /\ pc' = "return"
  /\ UNCHANGED <<fixed, in_flight, heaps, round, visited, taken, locals, lost>>

MoreToTake == Cardinality(beam) < Width /\ candidate_set # {}

\* Mutant: a full result is final.
MutOutOfRange == Cardinality(top_candidates) = Ef

\* dist > frozenLB && top_candidates.size() == ef
OutOfRange == Converged(top_candidates, lowerBound, Nearest(candidate_set))

\* Mutant: the candidate stays in the set.
MutTakeCandidate ==
  /\ pc = "collect" /\ MoreToTake /\ ~OutOfRange
  /\ LET n == Nearest(candidate_set)
     IN  /\ beam' = beam \cup {n}
         /\ missIdx' = IF Cached(n) THEN missIdx ELSE missIdx \cup {n}
  /\ UNCHANGED <<fixed, shared, pc, heaps, round, visited, locals, lost>>

\* A candidate joins the round; its block is looked for.
TakeCandidate ==
  /\ pc = "collect" /\ MoreToTake /\ ~OutOfRange
  /\ LET n == Nearest(candidate_set)
     IN  /\ candidate_set' = candidate_set \ {n}
         /\ beam' = beam \cup {n}
         /\ missIdx' = IF Cached(n) THEN missIdx ELSE missIdx \cup {n}
  /\ UNCHANGED <<fixed, shared, pc, top_candidates, seen, settled, round, visited,
                 locals, lost>>

\* goto search_done: what the round has taken so far is not expanded.
Converge ==
  /\ pc = "collect" /\ MoreToTake /\ OutOfRange
  /\ pc' = "return"
  /\ UNCHANGED <<fixed, shared, heaps, round, visited, taken, locals, lost>>

Exhausted ==
  /\ pc = "collect" /\ candidate_set = {} /\ beam = {}
  /\ pc' = "return"
  /\ UNCHANGED <<fixed, shared, heaps, round, visited, taken, locals, lost>>

\* The round is complete.  Reads of the missing blocks are started; the batch
\* has all its blocks before it expands anything, the beam begins with those
\* that are there.
BeginRound ==
  /\ pc = "collect" /\ beam # {} /\ ~MoreToTake
  /\ needed' = BlocksOf(missIdx)
  /\ UNCHANGED cache_map
  /\ IF mode.prefetch THEN SubmitPrefetch(needed') ELSE UNCHANGED in_flight
  /\ missIdx' = IF mode.batch THEN {} ELSE missIdx
  /\ pc' = IF mode.batch /\ missIdx # {} THEN "get" ELSE "round"
  /\ UNCHANGED <<fixed, heaps, round, visited, beam, candidateId, local_neighbors,
                 pending, lost>>

EndRound ==
  /\ pc = "round" /\ beam = {} /\ pending = {}
  /\ lowerBound' = Dist[Farthest(top_candidates)]
  /\ full' = (Cardinality(top_candidates) = Ef)
  /\ pc' = "collect"
  /\ UNCHANGED <<fixed, shared, heaps, visited, taken, locals, lost>>

Return ==
  /\ pc = "return"
  /\ pc' = "done"
  /\ UNCHANGED <<fixed, shared, heaps, round, visited, taken, locals, lost>>

-----------------------------------------------------------------------------
(* The blocks a round needs.                                               *)

ReadsEnded == mode.prefetch => needed \cap in_flight = {}

\* Without a prefetcher the batch loads its blocks one by one.
LoadNeeded(b) ==
  /\ pc = "get" /\ ~mode.prefetch
  /\ b \in needed
  /\ needed' = needed \ {b}
  /\ GetBlock(b) \/ (mode.fails /\ GetBlockFails(b))
  /\ UNCHANGED <<fixed, in_flight, pc, heaps, round, visited, taken, candidateId,
                 local_neighbors, pending, lost>>

\* waitForBlocks, or the last block has been loaded.
BlocksGot ==
  /\ pc = "get"
  /\ IF mode.prefetch THEN ReadsEnded ELSE needed = {}
  /\ pc' = IF beam # {} THEN "round" ELSE "load"
  /\ UNCHANGED <<fixed, shared, heaps, round, visited, taken, locals, lost>>

\* The beam has expanded its hits and waits for the blocks of the others.
WaitForMisses ==
  /\ pc = "round" /\ beam # {} /\ beam = missIdx
  /\ ReadsEnded
  /\ missIdx' = {}
  /\ UNCHANGED <<fixed, shared, pc, heaps, round, visited, beam, locals, lost>>

\* The neighbours that were missing all over the batch.
CollectPending ==
  /\ pc = "round" /\ beam = {} /\ pending # {}
  /\ needed' = BlocksOf(pending)
  /\ UNCHANGED cache_map
  /\ IF mode.prefetch THEN SubmitPrefetch(needed') ELSE UNCHANGED in_flight
  /\ pc' = "get"
  /\ UNCHANGED <<fixed, heaps, round, visited, taken, candidateId, local_neighbors,
                 pending, lost>>

-----------------------------------------------------------------------------
(* Expanding a candidate of the round.                                     *)

\* The hits, then the misses, each in the order of their distance.
NextCandidate ==
  /\ pc = "round" /\ beam # missIdx
  /\ LET n == Nearest(beam \ missIdx)
     IN  /\ candidateId' = n
         /\ beam' = beam \ {n}
  /\ pc' = "expand"
  /\ UNCHANGED <<fixed, shared, heaps, round, visited, missIdx, local_neighbors,
                 pending, needed, lost>>

Neighbours == graph[candidateId] \ visited

\* The block is cached; the beam starts reading the neighbours' blocks.
Expand ==
  /\ pc = "expand" /\ Cached(candidateId)
  /\ local_neighbors' = Neighbours
  /\ UNCHANGED cache_map
  /\ IF mode.prefetch /\ ~mode.batch
     THEN SubmitPrefetch(BlocksOf(graph[candidateId]) \ {BlockOf[candidateId]})
     ELSE UNCHANGED in_flight
  /\ pc' = "scan"
  /\ UNCHANGED <<fixed, heaps, round, visited, taken, candidateId, pending, needed,
                 lost>>

GiveUp ==
  /\ lost' = lost \cup {candidateId}
  /\ pc' = "round"
  /\ UNCHANGED <<fixed, in_flight, heaps, round, visited, taken, locals>>

\* The block has gone: the batch passes the candidate over.
Skip ==
  /\ pc = "expand" /\ mode.batch /\ ~Cached(candidateId)
  /\ UNCHANGED cache_map
  /\ GiveUp

\* The beam loads it again: getNodeVector, unless distances need no vector.
Refetch ==
  /\ pc = "expand" /\ ~mode.batch /\ ~Cached(candidateId)
  /\ IF mode.pq THEN UNCHANGED cache_map ELSE GetVector(candidateId)
  /\ pc' = "neighbors"
  /\ UNCHANGED <<fixed, in_flight, heaps, round, visited, taken, locals, lost>>

\* ... and getNodeNeighbors, which looks into the block and never into the lists
\* in memory.
RefetchNeighbors ==
  /\ pc = "neighbors" /\ ~mode.vec_only
  /\ GetBlock(BlockOf[candidateId])
  /\ local_neighbors' = Neighbours
  /\ pc' = "scan"
  /\ UNCHANGED <<fixed, in_flight, heaps, round, visited, taken, candidateId, pending,
                 needed, lost>>

\* A block of vectors has no lists: the candidate is not expanded.
RefetchFindsNone ==
  /\ pc = "neighbors" /\ mode.vec_only
  /\ GetBlock(BlockOf[candidateId])
  /\ GiveUp

RefetchFails ==
  /\ \/ pc = "expand" /\ ~mode.batch /\ ~mode.pq
     \/ pc = "neighbors"
  /\ mode.fails /\ GetBlockFails(BlockOf[candidateId])
  /\ GiveUp

Take(n) ==
  /\ pc = "scan"
  /\ n \in local_neighbors
  /\ local_neighbors' = local_neighbors \ {n}
  /\ visited' = visited \cup {n}
  /\ UNCHANGED <<fixed, shared, pc, round, taken, candidateId, needed, lost>>

ScanNow(n) ==
  /\ Take(n)
  /\ mode.pq \/ Cached(n)
  /\ Consider(n)
  /\ UNCHANGED pending

ScanLater(n) ==
  /\ Take(n)
  /\ ~mode.pq /\ ~Cached(n)
  /\ pending' = pending \cup {n}
  /\ UNCHANGED heaps

\* The beam waits for the neighbours of each candidate, whether or not anybody
\* reads their blocks; the batch for those of all candidates together.
ScanEnd ==
  /\ pc = "scan" /\ local_neighbors = {}
  /\ needed' = IF mode.batch THEN needed ELSE BlocksOf(pending)
  /\ pc' = IF mode.batch \/ pending = {} THEN "round" ELSE "wait"
  /\ UNCHANGED <<fixed, shared, heaps, round, visited, taken, candidateId,
                 local_neighbors, pending, lost>>

WaitForNeighbors ==
  /\ pc = "wait"
  /\ ReadsEnded
  /\ pc' = "load"
  /\ UNCHANGED <<fixed, shared, heaps, round, visited, taken, locals, lost>>

\* The cache is asked once for each: it is there, or it is dropped.
LoadPending(n) ==
  /\ pc = "load"
  /\ n \in pending
  /\ pending' = pending \ {n}
  /\ IF Cached(n) THEN Consider(n) ELSE UNCHANGED heaps
  /\ UNCHANGED <<fixed, shared, pc, round, visited, taken, candidateId,
                 local_neighbors, needed, lost>>

LoadEnd ==
  /\ pc = "load" /\ pending = {}
  /\ pc' = "round"
  /\ UNCHANGED <<fixed, shared, heaps, round, visited, taken, locals, lost>>

-----------------------------------------------------------------------------
Arrive(b) ==
  /\ Arrival(b, mode.fails)
  /\ UNCHANGED <<fixed, pc, heaps, round, visited, taken, locals, lost>>

OtherThread ==
  /\ pc # "done"
  /\ OtherLookup
  /\ UNCHANGED <<fixed, pc, heaps, round, visited, taken, locals, lost>>

Init ==
  /\ mode \in Modes /\ graph \in Graphs /\ entry \in Entries
  /\ cache_map = {} /\ in_flight = {}
  /\ pc = "entry"
  /\ candidate_set = {} /\ top_candidates = {} /\ visited = {} /\ seen = {}
  /\ settled = {} /\ lost = {} /\ full = FALSE
  /\ lowerBound = 0
  /\ beam = {} /\ missIdx = {}
  /\ candidateId = entry
  /\ local_neighbors = {} /\ pending = {} /\ needed = {}

Search ==
  \/ EntryFound \/ EntryFails
  \/ TakeCandidate \/ Converge \/ Exhausted \/ BeginRound \/ EndRound \/ Return
  \/ \E b \in Blocks : LoadNeeded(b)
  \/ BlocksGot \/ WaitForMisses \/ CollectPending
  \/ NextCandidate \/ Expand \/ Skip
  \/ Refetch \/ RefetchNeighbors \/ RefetchFindsNone \/ RefetchFails
  \/ \E n \in Nodes : ScanNow(n) \/ ScanLater(n)
  \/ ScanEnd \/ WaitForNeighbors
  \/ \E n \in Nodes : LoadPending(n)
  \/ LoadEnd

Next ==
  \/ Search
  \/ \E b \in Blocks : Arrive(b)
  \/ OtherThread

Spec == Init /\ [][Next]_vars

\* The searching thread is scheduled, and the reads it submitted end.
FairSpec ==
  /\ Spec
  /\ WF_vars(Search)
  /\ \A b \in Blocks : WF_vars(Arrive(b))

-----------------------------------------------------------------------------
(* Properties.                                                             *)

PCs == {"entry", "collect", "get", "round", "expand", "neighbors", "scan", "wait",
        "load", "return", "done"}

\* Every variable stays in its domain.
TypeOK ==
  /\ mode \in Modes /\ graph \in Graphs /\ entry \in Entries
  /\ cache_map \subseteq Blocks /\ in_flight \subseteq Blocks
  /\ pc \in PCs
  /\ candidate_set \subseteq seen /\ top_candidates \subseteq seen
  /\ seen \subseteq visited /\ visited \subseteq Nodes
  /\ settled \subseteq seen
  /\ beam \subseteq seen /\ missIdx \subseteq beam
  /\ Cardinality(beam) <= Width
  /\ lost \subseteq Nodes /\ full \in BOOLEAN
  /\ lowerBound \in Nat
  /\ candidateId \in Nodes
  /\ local_neighbors \subseteq Nodes
  /\ pending \subseteq visited \ seen
  /\ needed \subseteq Blocks

\* Freezing the bound costs nothing once the result is full: of the nodes looked
\* at in rounds that began with a full result, none is nearer than a result it is
\* not one of.
NearestOnceFull ==
  \A n \in settled \ top_candidates, m \in top_candidates : Dist[m] < Dist[n]

\* A full result never gets worse, although a candidate that was admitted against
\* the frozen bound may be farther than all of it by then.
ResultNeverWorsens ==
  [][Cardinality(top_candidates) = Ef =>
       /\ Cardinality(top_candidates') = Ef
       /\ Dist[Farthest(top_candidates')] <= Dist[Farthest(top_candidates)]]_vars

Ended == pc \in {"return", "done"}

\* What the search has not looked behind, it has thrown away: a result some
\* neighbour of which was never met was in a round cut short by convergence, or
\* was given up because its block or its list could not be had.
UnexploredResultsWereDropped ==
  Ended => \A m \in top_candidates :
             graph[m] \subseteq visited \/ m \in beam \/ m \in lost

\* With PQ distances the beam overlooks nothing else: every node met is measured,
\* and over blocks that hold their lists a candidate is lost only if a read fails.
\* (Over vec-only blocks an eviction is enough, see MemoryListsSurviveEviction.)
BeamLosesOnlyToErrors ==
  mode.pq => /\ visited = seen
             /\ lost # {} => mode.fails \/ mode.batch \/ mode.vec_only

\* Both together: nothing is lost that is not known to be.
LossesAreAccountedFor == UnexploredResultsWereDropped /\ BeamLosesOnlyToErrors

\* "The neighbours are read from the CSR in memory" (src/core/block_cache.cpp:427,
\* of a vec-only block): without a failing read the beam loses no candidate.
MemoryListsSurviveEviction ==
  mode.vec_only /\ ~mode.batch /\ ~mode.fails => lost = {}

\* The search ends, whatever the other threads do to the cache.
SearchEnds == <>(pc = "done")

\* "A batch may keep some more candidates, but loses none that should be kept"
\* (src/core/disk_hnsw.cpp:1392): the result is the nearest of the nodes looked at.
FrozenBoundLosesNothing ==
  \A n \in seen \ top_candidates, m \in top_candidates : Dist[m] < Dist[n]

\* "This candidate is out of range, the search can end" (src/core/disk_hnsw.cpp:1308):
\* with nothing lost, the neighbours of each result have been met.
ResultIsClosed ==
  Ended /\ lost = {} => \A m \in top_candidates : graph[m] \subseteq visited

=============================================================================
