-------------------------- MODULE NonBlockingSearch --------------------------
(***************************************************************************)
(* DiskHNSW::searchLayer0NonBlocking: the search of the base layer that    *)
(* never waits for a neighbour's block.  It defers the neighbour, goes on  *)
(* with the candidates it has, and comes back to the deferred neighbours   *)
(* when these run out or are no improvement.                               *)
(***************************************************************************)
EXTENDS SharedBlocks, Sequences, SequencesExt

CONSTANTS
  Graphs,   \* the graphs to search: a function of Nodes each
  Entries,  \* where a search may start
  Options   \* the settings: records of
            \*   pq        pq_enabled_
            \*   prefetch  graph_prefetch_enabled_
            \*   fails     may a read of a block fail?

ASSUME NonBlockingSearchAssumption ==
  /\ Graphs \subseteq [Nodes -> SUBSET Nodes]
  /\ Entries \subseteq Nodes
  /\ Options \subseteq [pq : BOOLEAN, prefetch : BOOLEAN, fails : BOOLEAN]

VARIABLES
  options, graph, entry, \* the settings, the graph and entry_new_id: fixed
  at,                  \* where the search is
  candidate_set,       \* the nodes to expand
  top_candidates,      \* the nearest nodes so far
  lowerBound,          \* the distance a node must beat
  visited,             \* the nodes marked
  candidateId,         \* the candidate being expanded
  local_neighbors,     \* its neighbours not yet looked at
  deferred,            \* the neighbours whose block was missing
  unchecked,           \* those of them not yet asked for again
  seen,                \* history: the nodes whose distance was looked at
  lost                 \* history: the candidates given up unexpanded

fixed  == <<options, graph, entry>>
shared == <<cache_map, in_flight>>
heaps  == <<candidate_set, top_candidates, lowerBound, seen>>
lists  == <<deferred, unchecked>>
locals == <<candidateId, local_neighbors>>
searchVars == <<fixed, shared, at, heaps, visited, locals, lists, lost>>

\* The distance of n is known.
ConsiderNode(n) ==
  /\ seen' = seen \cup {n}
  /\ IF Admits(top_candidates, lowerBound, n)
     THEN /\ candidate_set' = candidate_set \cup {n}
          /\ top_candidates' = Insert(top_candidates, n)
          /\ lowerBound' = Dist[Farthest(top_candidates')]
     ELSE UNCHANGED <<candidate_set, top_candidates, lowerBound>>

EntryFound ==
  /\ at = "entry"
  /\ IF options.pq THEN UNCHANGED cache_map ELSE GetVector(entry)
  /\ candidate_set' = {entry} /\ top_candidates' = {entry}
  /\ lowerBound' = Dist[entry]
  /\ visited' = {entry} /\ seen' = {entry}
  /\ at' = "pop"
  /\ UNCHANGED <<fixed, in_flight, locals, lists, lost>>

\* "Failed to get vector for entry node": the empty heap is returned.
EntryFails ==
  /\ at = "entry" /\ ~options.pq /\ options.fails
  /\ GetBlockFails(BlockOf[entry])
  /\ at' = "return"
  /\ UNCHANGED <<fixed, in_flight, heaps, visited, locals, lists, lost>>

-----------------------------------------------------------------------------
(* Phase 1: the candidates.                                                *)

\* Mutant: the search turns to the deferred as soon as the result is full.
MutNoImprovement ==
  candidate_set # {} => Cardinality(top_candidates) = Ef

NoImprovement ==
  candidate_set # {} =>
    Converged(top_candidates, lowerBound, Nearest(candidate_set))

\* Mutant: the candidate stays in the set.
MutPop ==
  /\ at = "pop" /\ ~NoImprovement
  /\ candidateId' = Nearest(candidate_set)
  /\ at' = "expand"
  /\ UNCHANGED <<fixed, shared, heaps, visited, local_neighbors, lists, lost>>

Pop ==
  /\ at = "pop" /\ ~NoImprovement
  /\ candidateId' = Nearest(candidate_set)
  /\ candidate_set' = candidate_set \ {Nearest(candidate_set)}
  /\ at' = "expand"
  /\ UNCHANGED <<fixed, shared, top_candidates, lowerBound, seen, visited,
                 local_neighbors, lists, lost>>

\* goto check_deferred, or the candidates have run out: what has been deferred is
\* asked for again, or there is nothing left to do.
CheckDeferred ==
  /\ at = "pop" /\ NoImprovement
  /\ at' = IF deferred = <<>> THEN "return" ELSE "check"
  /\ unchecked' = deferred
  /\ deferred' = <<>>
  /\ UNCHANGED <<fixed, shared, heaps, visited, locals, lost>>

\* The candidate's own block is loaded at once,
LoadCandidate ==
  /\ at = "expand" /\ ~Cached(candidateId)
  /\ \/ GetBlock(BlockOf[candidateId])
     \/ options.fails /\ GetBlockFails(BlockOf[candidateId])
  /\ at' = "again"
  /\ UNCHANGED <<fixed, in_flight, heaps, visited, locals, lists, lost>>

\* ... and looked up once more; a candidate whose block is still not there is
\* given up.
GiveUp ==
  /\ at = "again" /\ ~Cached(candidateId)
  /\ lost' = lost \cup {candidateId}
  /\ at' = "pop"
  /\ UNCHANGED <<fixed, shared, heaps, visited, locals, lists>>

Expand ==
  /\ at \in {"expand", "again"} /\ Cached(candidateId)
  /\ local_neighbors' = graph[candidateId] \ visited
  /\ UNCHANGED cache_map
  /\ IF options.prefetch
     THEN SubmitPrefetch(BlocksOf(graph[candidateId]) \ {BlockOf[candidateId]})
     ELSE UNCHANGED in_flight
  /\ at' = "scan"
  /\ UNCHANGED <<fixed, heaps, visited, candidateId, lists, lost>>

Take(n) ==
  /\ at = "scan"
  /\ n \in local_neighbors
  /\ local_neighbors' = local_neighbors \ {n}
  /\ visited' = visited \cup {n}
  /\ UNCHANGED <<fixed, shared, at, candidateId, unchecked, lost>>

ScanNow(n) ==
  /\ Take(n)
  /\ options.pq \/ Cached(n)
  /\ ConsiderNode(n)
  /\ UNCHANGED deferred

Defer(n) ==
  /\ Take(n)
  /\ ~options.pq /\ ~Cached(n)
  /\ deferred' = Append(deferred, n)
  /\ UNCHANGED heaps

ScanEnd ==
  /\ at = "scan" /\ local_neighbors = {}
  /\ at' = "pop"
  /\ UNCHANGED <<fixed, shared, heaps, visited, locals, lists, lost>>

-----------------------------------------------------------------------------
(* Phase 2: the deferred neighbours are asked for again.                   *)

\* Its block is there.  Only a neighbour without a mark would be measured.
Ready ==
  /\ at = "check" /\ unchecked # <<>>
  /\ Cached(Head(unchecked))
  /\ unchecked' = Tail(unchecked)
  /\ IF Head(unchecked) \in visited
     THEN UNCHANGED <<heaps, visited>>
     ELSE /\ visited' = visited \cup {Head(unchecked)}
          /\ ConsiderNode(Head(unchecked))
  /\ UNCHANGED <<fixed, shared, at, locals, deferred, lost>>

StillDeferred ==
  /\ at = "check" /\ unchecked # <<>>
  /\ ~Cached(Head(unchecked))
  /\ unchecked' = Tail(unchecked)
  /\ deferred' = Append(deferred, Head(unchecked))
  /\ UNCHANGED <<fixed, shared, at, heaps, visited, locals, lost>>

Checked ==
  /\ at = "check" /\ unchecked = <<>>
  /\ at' = IF candidate_set # {} THEN "pop"
           ELSE IF deferred = <<>> THEN "return" ELSE "fallback"
  /\ UNCHANGED <<fixed, shared, heaps, visited, locals, lists, lost>>

-----------------------------------------------------------------------------
(* Phase 3: no candidate is left, and some neighbours are still deferred.  *)

\* With a prefetcher: their reads are started, and the first is loaded.
LoadFirst ==
  /\ at = "fallback" /\ options.prefetch
  /\ \/ GetBlock(BlockOf[Head(deferred)])
     \/ options.fails /\ GetBlockFails(BlockOf[Head(deferred)])
  /\ in_flight' = in_flight \cup (BlocksOf(ToSet(deferred)) \ cache_map)
  /\ at' = "pop"
  /\ UNCHANGED <<fixed, heaps, visited, locals, lists, lost>>

\* Without: each vector is fetched; one that cannot be read is passed over.
FetchDeferred ==
  /\ at = "fallback" /\ ~options.prefetch /\ deferred # <<>>
  /\ deferred' = Tail(deferred)
  /\ \/ GetVector(Head(deferred)) /\ ConsiderNode(Head(deferred))
     \/ options.fails /\ GetBlockFails(BlockOf[Head(deferred)]) /\ UNCHANGED heaps
  /\ UNCHANGED <<fixed, in_flight, at, visited, locals, unchecked, lost>>

FetchEnd ==
  /\ at = "fallback" /\ ~options.prefetch /\ deferred = <<>>
  /\ at' = "pop"
  /\ UNCHANGED <<fixed, shared, heaps, visited, locals, lists, lost>>

\* The candidates that are left are returned with the result.
Return ==
  /\ at = "return"
  /\ candidate_set' = candidate_set \cup top_candidates
  /\ at' = "done"
  /\ UNCHANGED <<fixed, shared, top_candidates, lowerBound, seen, visited, locals,
                 lists, lost>>

-----------------------------------------------------------------------------
Arrive(b) ==
  /\ Arrival(b, options.fails)
  /\ UNCHANGED <<fixed, at, heaps, visited, locals, lists, lost>>

OtherThread ==
  /\ at # "done"
  /\ OtherLookup
  /\ UNCHANGED <<fixed, at, heaps, visited, locals, lists, lost>>

NonBlockingInit ==
  /\ options \in Options /\ graph \in Graphs /\ entry \in Entries
  /\ cache_map = {} /\ in_flight = {}
  /\ at = "entry"
  /\ candidate_set = {} /\ top_candidates = {} /\ visited = {} /\ seen = {}
  /\ lowerBound = 0
  /\ candidateId = entry /\ local_neighbors = {}
  /\ deferred = <<>> /\ unchecked = <<>> /\ lost = {}

SearchStep ==
  \/ EntryFound \/ EntryFails \/ Pop \/ CheckDeferred
  \/ LoadCandidate \/ GiveUp \/ Expand
  \/ \E n \in Nodes : ScanNow(n) \/ Defer(n)
  \/ ScanEnd
  \/ Ready \/ StillDeferred \/ Checked
  \/ LoadFirst \/ FetchDeferred \/ FetchEnd
  \/ Return

NonBlockingNext ==
  \/ SearchStep
  \/ \E b \in Blocks : Arrive(b)
  \/ OtherThread

NonBlockingSpec == NonBlockingInit /\ [][NonBlockingNext]_searchVars

\* The searching thread is scheduled, and the reads it submitted end.
NonBlockingFairSpec ==
  /\ NonBlockingSpec
  /\ WF_searchVars(SearchStep)
  /\ \A b \in Blocks : WF_searchVars(Arrive(b))

-----------------------------------------------------------------------------
(* Properties.                                                             *)

Places == {"entry", "pop", "expand", "again", "scan", "check", "fallback", "return",
           "done"}

\* Every variable stays in its domain.
NonBlockingTypeOK ==
  /\ options \in Options /\ graph \in Graphs /\ entry \in Entries
  /\ cache_map \subseteq Blocks /\ in_flight \subseteq Blocks
  /\ at \in Places
  /\ candidate_set \subseteq seen /\ top_candidates \subseteq seen
  /\ seen \subseteq visited /\ visited \subseteq Nodes
  /\ lowerBound \in Nat
  /\ candidateId \in Nodes /\ local_neighbors \subseteq Nodes
  /\ lost \subseteq seen
  /\ ToSet(deferred) \cup ToSet(unchecked) \subseteq visited
  /\ IsInjective(deferred \o unchecked)

\* Whenever and in whatever order neighbours are measured, the result holds the
\* nearest of them.
TopIsNearest ==
  /\ Cardinality(top_candidates) <= Ef
  /\ Cardinality(top_candidates) < Ef => top_candidates = seen
  /\ \A m \in top_candidates, n \in seen \ top_candidates : Dist[m] < Dist[n]

\* The neighbours of a result have all been met, though not all measured, unless
\* the block of the result was gone twice when it was expanded.
ResultIsExplored ==
  at = "done" =>
    \A m \in top_candidates : m \in lost \/ graph[m] \subseteq visited

\* What the search returns is right, as far as it has looked.
ResultIsRight == NonBlockingTypeOK /\ TopIsNearest /\ ResultIsExplored

\* The candidates are spent, and nodes that were put off are left.
OnlyDeferredLeft == NoImprovement /\ deferred \o unchecked # <<>>

\* A search that never ends has no candidate left that is an improvement, and asks
\* forever for the neighbours it has deferred: nothing else can hold it up.
EndsUnlessDeferring == <>[](at = "done" \/ OnlyDeferredLeft)

\* "Without a prefetcher: loaded synchronously (fallback)"
\* (src/core/disk_hnsw.cpp:1046): the deferred neighbours are always got, and the
\* search ends.
SearchEnds == <>(at = "done")

\* "The neighbour is deferred, the visited mark delayed"
\* (src/core/disk_hnsw.cpp:957): a deferred neighbour is measured in the end.
DeferredIsMeasured == at = "done" => visited = seen

=============================================================================
