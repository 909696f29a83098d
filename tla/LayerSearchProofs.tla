-------------------------- MODULE LayerSearchProofs --------------------------
(***************************************************************************)
(* searchLayer0 implements the best-first search, for every graph, every   *)
(* layout of nodes in blocks, every cache and every setting.               *)
(*                                                                         *)
(* The refinement needs to know which nodes are marked but not looked at:  *)
(* those set aside and the one being fetched, and, in a search that can    *)
(* lose nothing, no others (Marks).                                        *)
(***************************************************************************)
EXTENDS LayerSearch, BestFirstProofs

Phases ==
  /\ pc \in {"entry", "pop", "expand", "wait", "load", "return", "done"} =>
       local_neighbors = {}
  /\ pc \in {"entry", "pop", "expand", "return", "done"} =>
       pending_neighbors = {}
  /\ pc = "entry" => /\ visited = {} /\ seen = {}
                     /\ candidate_set = {} /\ top_candidates = {}
  /\ pc = "return" => Finished
  /\ mode.pq => pending_neighbors = {} /\ pc # "fetch"

Fetched == IF pc = "fetch" THEN {nid} ELSE {}

Marks ==
  /\ candidate_set \subseteq seen /\ top_candidates \subseteq seen
  /\ seen \subseteq visited
  /\ local_neighbors \cap visited = {}
  /\ pending_neighbors \subseteq visited \ seen
  /\ Fetched \subseteq visited \ (seen \cup pending_neighbors)
  /\ Lossless => visited = seen \cup pending_neighbors \cup Fetched

IInv ==
  /\ TypeOK
  /\ BoundIsCurrent
  /\ Phases
  /\ Marks

-----------------------------------------------------------------------------
(* What the parts of a step do.                                            *)

LEMMA Typing ==
  ASSUME TypeOK
  PROVE  /\ mode \in [pq : BOOLEAN, csr : BOOLEAN, prefetch : BOOLEAN,
                      fails : BOOLEAN]
         /\ graph \in [Nodes -> SUBSET Nodes]
         /\ entry \in Nodes
         /\ BlockOf \in [Nodes -> Blocks]
BY LayerSearchAssumption DEF TypeOK

\* Whatever happens to it, the cache holds blocks of the file.
LEMMA CacheTyped ==
  ASSUME TypeOK, NEW n \in Nodes,
         \/ UNCHANGED cache_map
         \/ Loaded(n)
         \/ LoadFailed(n)
         \/ \E b \in Blocks : Cache!Load(b)
         \/ Cache!LoadFails
  PROVE  cache_map' \subseteq Blocks
<1>1. BlockOf[n] \in Blocks /\ cache_map \subseteq Blocks
  BY Typing DEF TypeOK
<1> QED
  BY <1>1 DEF Loaded, LoadFailed, Cache!Load, Cache!LoadFails

LEMMA InFlightTyped ==
  ASSUME TypeOK, SubmitPrefetch
  PROVE  in_flight' \subseteq Blocks
<1>1. graph[candidateId] \subseteq Nodes /\ in_flight \subseteq Blocks
  BY Typing DEF TypeOK
<1> QED
  BY <1>1, Typing DEF SubmitPrefetch

\* A node is looked at: the bound stays current.
LEMMA ConsiderHeaps ==
  ASSUME IInv, NEW n \in visited', n \notin seen, Consider(n),
         visited \subseteq visited', visited' \subseteq Nodes
  PROVE  /\ seen' = seen \cup {n}
         /\ candidate_set' \subseteq seen' /\ top_candidates' \subseteq seen'
         /\ candidate_set' \subseteq visited' /\ top_candidates' \subseteq visited'
         /\ lowerBound' \in Nat
         /\ BoundIsCurrent'
<1>1. /\ candidate_set \subseteq seen /\ top_candidates \subseteq seen
      /\ seen \subseteq visited /\ lowerBound \in Nat /\ BoundIsCurrent
  BY DEF IInv, Marks, TypeOK
<1>2. seen' = seen \cup {n}
  BY DEF Consider
<1>3. CASE Admits(top_candidates, lowerBound, n)
  <2>1. /\ candidate_set' = candidate_set \cup {n}
        /\ top_candidates' = Insert(top_candidates, n)
        /\ lowerBound' = Dist[Farthest(top_candidates')]
    BY <1>3 DEF Consider
  <2>2. top_candidates' \subseteq top_candidates \cup {n} /\ top_candidates' # {}
    BY <1>1, <2>1, InsertIsSome
  <2>3. Farthest(top_candidates') \in top_candidates'
    BY <1>1, <2>2, FarthestIsTop
  <2>4. lowerBound' \in Nat
    BY <1>1, <2>1, <2>2, <2>3, SearchHeapsAssumption
  <2> QED
    BY <1>1, <1>2, <2>1, <2>2, <2>4 DEF BoundIsCurrent
<1>4. CASE ~Admits(top_candidates, lowerBound, n)
  <2>1. UNCHANGED <<candidate_set, top_candidates, lowerBound>>
    BY <1>4 DEF Consider
  <2> QED
    BY <1>1, <1>2, <2>1 DEF BoundIsCurrent
<1> QED
  BY <1>3, <1>4

-----------------------------------------------------------------------------
(* The invariant: one lemma per group of actions.                          *)

LEMMA InitIInv == Init => IInv
<1> SUFFICES ASSUME Init PROVE IInv
  OBVIOUS
<1>1. TypeOK
  BY LayerSearchAssumption DEF Init, TypeOK, PCs
<1>2. BoundIsCurrent /\ Phases
  BY DEF Init, BoundIsCurrent, Phases
<1>3. Marks
  BY DEF Init, Marks, Fetched
<1> QED
  BY <1>1, <1>2, <1>3 DEF IInv

\* Nothing but the cache and the reads in flight changes.
LEMMA SharedOnly ==
  ASSUME IInv, cache_map' \subseteq Blocks, in_flight' \subseteq Blocks,
         UNCHANGED <<fixed, pc, heaps, visited, locals>>
  PROVE  IInv'
<1> USE DEF fixed, heaps, locals
<1>1. TypeOK'
  BY DEF IInv, TypeOK
<1>2. BoundIsCurrent'
  BY DEF IInv, BoundIsCurrent
<1>3. Phases'
  BY DEF IInv, Phases, Finished
<1>4. Marks'
  BY DEF IInv, Marks, Fetched, Lossless
<1> QED
  BY <1>1, <1>2, <1>3, <1>4 DEF IInv

LEMMA AroundPreserves ==
  ASSUME IInv, (\E b \in Blocks : Arrive(b)) \/ OtherThread
  PROVE  IInv'
<1>1. TypeOK
  BY DEF IInv
<1>2. PICK n \in Nodes : TRUE
  BY <1>1, Typing
<1>3. ASSUME NEW b \in Blocks, Arrive(b) PROVE IInv'
  <2>1. cache_map' \subseteq Blocks
    BY <1>1, <1>3, CacheTyped DEF Arrive
  <2>2. in_flight' \subseteq Blocks
    BY <1>1, <1>3 DEF Arrive, TypeOK
  <2> QED
    BY <1>3, <2>1, <2>2, SharedOnly DEF Arrive
<1>4. CASE OtherThread
  <2>1. cache_map' \subseteq Blocks
    BY <1>1, <1>4, CacheTyped DEF OtherThread
  <2> QED
    BY <1>1, <1>4, <2>1, SharedOnly DEF OtherThread, TypeOK
<1> QED
  BY <1>3, <1>4

LEMMA EntryPreserves ==
  ASSUME IInv, EntryFound \/ EntryFails
  PROVE  IInv'
<1> USE DEF fixed, heaps, locals
<1>1. TypeOK
  BY DEF IInv
<1>2. entry \in Nodes
  BY <1>1, Typing
<1>3. cache_map' \subseteq Blocks
  BY <1>1, <1>2, CacheTyped DEF EntryFound, EntryFails
<1>4. CASE EntryFound
  <2>1. Dist[entry] = Dist[Farthest({entry})] /\ Dist[entry] \in Nat
    <3>1. Farthest({entry}) \in {entry}
      BY <1>2, FarthestIsTop
    <3> QED
      BY <1>2, <3>1, SearchHeapsAssumption
  <2>2. TypeOK'
    <3>1. UNCHANGED <<mode, graph, entry, in_flight, candidateId, hit,
                      local_neighbors, pending_neighbors, nid>>
      BY <1>4 DEF EntryFound
    <3>2. /\ visited' = {entry} /\ seen' = {entry} /\ candidate_set' = {entry}
          /\ top_candidates' = {entry} /\ pending_neighbors = {}
          /\ lowerBound' \in Nat /\ pc' \in PCs
      BY <1>4, <2>1 DEF EntryFound, IInv, Phases, PCs
    <3> QED
      BY <1>1, <1>2, <1>3, <3>1, <3>2 DEF TypeOK
  <2>3. BoundIsCurrent'
    BY <1>4, <2>1 DEF EntryFound, BoundIsCurrent
  <2>4. Phases'
    BY <1>4 DEF EntryFound, IInv, Phases
  <2>5. Marks'
    BY <1>4 DEF EntryFound, IInv, Marks, Phases, Fetched
  <2> QED
    BY <2>2, <2>3, <2>4, <2>5 DEF IInv
<1>5. CASE EntryFails
  <2>1. TypeOK'
    BY <1>1, <1>3, <1>5 DEF EntryFails, TypeOK, PCs
  <2>2. BoundIsCurrent'
    BY <1>5 DEF EntryFails, IInv, BoundIsCurrent
  <2>3. Phases'
    BY <1>5 DEF EntryFails, IInv, Phases, Finished
  <2>4. Marks'
    BY <1>5 DEF EntryFails, IInv, Marks, Fetched, Lossless
  <2> QED
    BY <2>1, <2>2, <2>3, <2>4 DEF IInv
<1> QED
  BY <1>4, <1>5

LEMMA PopPreserves ==
  ASSUME IInv, Pop \/ Stop \/ Return
  PROVE  IInv'
<1> USE DEF fixed, shared, heaps, locals
<1>1. CASE Pop
  <2>1. candidate_set # {} /\ candidate_set \in SUBSET Nodes
    BY <1>1 DEF Pop, Finished, IInv, TypeOK
  <2>2. Nearest(candidate_set) \in Nodes
    BY <2>1, NearestIsTop
  <2>3. TypeOK'
    BY <1>1, <2>2 DEF Pop, IInv, TypeOK, PCs
  <2>4. BoundIsCurrent'
    BY <1>1 DEF Pop, IInv, BoundIsCurrent
  <2>5. Phases'
    BY <1>1 DEF Pop, IInv, Phases
  <2>6. Marks'
    BY <1>1 DEF Pop, IInv, Marks, Fetched, Lossless
  <2> QED
    BY <2>3, <2>4, <2>5, <2>6 DEF IInv
<1>2. CASE Stop \/ Return
  <2>1. TypeOK'
    BY <1>2 DEF Stop, Return, IInv, TypeOK, PCs
  <2>2. BoundIsCurrent'
    BY <1>2 DEF Stop, Return, IInv, BoundIsCurrent
  <2>3. Phases'
    BY <1>2 DEF Stop, Return, IInv, Phases, Finished
  <2>4. Marks'
    BY <1>2 DEF Stop, Return, IInv, Marks, Fetched, Lossless
  <2> QED
    BY <2>1, <2>2, <2>3, <2>4 DEF IInv
<1> QED
  BY <1>1, <1>2

LEMMA ExpandPreserves ==
  ASSUME IInv, ExpandHit \/ ExpandMiss \/ ExpandFails
  PROVE  IInv'
<1> USE DEF fixed, heaps, locals
<1>1. TypeOK /\ candidateId \in Nodes
  BY DEF IInv, TypeOK
<1>2. cache_map' \subseteq Blocks
  BY <1>1, CacheTyped DEF ExpandHit, ExpandMiss, ExpandFails
<1>3. in_flight' \subseteq Blocks
  BY <1>1, InFlightTyped DEF ExpandHit, ExpandMiss, ExpandFails, TypeOK
<1>4. Neighbours \subseteq Nodes \ visited
  BY <1>1, Typing DEF Neighbours
<1>5. CASE ExpandHit \/ ExpandMiss
  <2>1. TypeOK'
    BY <1>1, <1>2, <1>3, <1>4, <1>5 DEF ExpandHit, ExpandMiss, TypeOK, PCs
  <2>2. BoundIsCurrent'
    BY <1>5 DEF ExpandHit, ExpandMiss, IInv, BoundIsCurrent
  <2>3. Phases'
    BY <1>5 DEF ExpandHit, ExpandMiss, IInv, Phases
  <2>4. Marks'
    BY <1>4, <1>5 DEF ExpandHit, ExpandMiss, IInv, Marks, Fetched, Lossless
  <2> QED
    BY <2>1, <2>2, <2>3, <2>4 DEF IInv
<1>6. CASE ExpandFails
  <2>1. TypeOK'
    BY <1>1, <1>2, <1>6 DEF ExpandFails, TypeOK, PCs
  <2>2. BoundIsCurrent'
    BY <1>6 DEF ExpandFails, IInv, BoundIsCurrent
  <2>3. Phases'
    BY <1>6 DEF ExpandFails, IInv, Phases
  <2>4. Marks'
    BY <1>6 DEF ExpandFails, IInv, Marks, Fetched, Lossless
  <2> QED
    BY <2>1, <2>2, <2>3, <2>4 DEF IInv
<1> QED
  BY <1>5, <1>6

LEMMA ScanPreserves ==
  ASSUME IInv, NEW n \in Nodes, ScanNow(n) \/ ScanFetch(n) \/ ScanLater(n)
  PROVE  IInv'
<1> USE DEF fixed, shared, heaps
<1>1. /\ pc = "scan" /\ n \in local_neighbors
      /\ local_neighbors' = local_neighbors \ {n}
      /\ visited' = visited \cup {n}
      /\ UNCHANGED <<fixed, shared, candidateId, hit>>
  BY DEF ScanNow, ScanFetch, ScanLater, Take
<1>2. /\ n \notin visited /\ n \notin seen /\ n \notin pending_neighbors
      /\ visited' \subseteq Nodes
  BY <1>1 DEF IInv, TypeOK, Marks
<1>3. CASE ScanNow(n)
  <2>1. /\ Consider(n) /\ UNCHANGED <<pc, pending_neighbors, nid>>
    BY <1>3 DEF ScanNow
  <2>2. /\ seen' = seen \cup {n}
        /\ candidate_set' \subseteq seen' /\ top_candidates' \subseteq seen'
        /\ candidate_set' \subseteq visited' /\ top_candidates' \subseteq visited'
        /\ lowerBound' \in Nat /\ BoundIsCurrent'
    BY <1>1, <1>2, <2>1, ConsiderHeaps
  <2>3. TypeOK'
    BY <1>1, <1>2, <2>1, <2>2 DEF IInv, TypeOK
  <2>4. Phases'
    BY <1>1, <2>1 DEF IInv, Phases
  <2>5. Marks'
    BY <1>1, <1>2, <2>1, <2>2 DEF IInv, Marks, Fetched, Lossless
  <2> QED
    BY <2>2, <2>3, <2>4, <2>5 DEF IInv
<1>4. CASE ScanFetch(n)
  <2>1. /\ ~mode.pq /\ nid' = n /\ pc' = "fetch"
        /\ UNCHANGED <<heaps, pending_neighbors>>
    BY <1>4 DEF ScanFetch
  <2>2. TypeOK'
    BY <1>1, <1>2, <2>1 DEF IInv, TypeOK, PCs
  <2>3. BoundIsCurrent'
    BY <2>1 DEF IInv, BoundIsCurrent
  <2>4. Phases'
    BY <1>1, <2>1 DEF IInv, Phases
  <2>5. Marks'
    BY <1>1, <1>2, <2>1 DEF IInv, Marks, Fetched, Lossless
  <2> QED
    BY <2>2, <2>3, <2>4, <2>5 DEF IInv
<1>5. CASE ScanLater(n)
  <2>1. /\ ~mode.pq /\ pending_neighbors' = pending_neighbors \cup {n}
        /\ UNCHANGED <<pc, heaps, nid>>
    BY <1>5 DEF ScanLater
  <2>2. TypeOK'
    BY <1>1, <1>2, <2>1 DEF IInv, TypeOK
  <2>3. BoundIsCurrent'
    BY <2>1 DEF IInv, BoundIsCurrent
  <2>4. Phases'
    BY <1>1, <2>1 DEF IInv, Phases
  <2>5. Marks'
    BY <1>1, <1>2, <2>1 DEF IInv, Marks, Fetched, Lossless
  <2> QED
    BY <2>2, <2>3, <2>4, <2>5 DEF IInv
<1> QED
  BY <1>3, <1>4, <1>5

LEMMA FetchPreserves ==
  ASSUME IInv, Fetch \/ FetchFails
  PROVE  IInv'
<1> USE DEF fixed, locals
<1>1. /\ pc = "fetch" /\ pc' = "scan"
      /\ UNCHANGED <<fixed, in_flight, visited, locals>>
  BY DEF Fetch, FetchFails
<1>2. /\ TypeOK /\ nid \in Nodes /\ nid \in visited /\ nid \notin seen
      /\ nid \notin pending_neighbors /\ visited \subseteq Nodes
  BY <1>1 DEF IInv, TypeOK, Marks, Fetched
<1>3. cache_map' \subseteq Blocks
  BY <1>2, CacheTyped DEF Fetch, FetchFails, VectorFound
<1>4. Phases'
  BY <1>1 DEF IInv, Phases
<1>5. CASE Fetch
  <2>1. /\ seen' = seen \cup {nid}
        /\ candidate_set' \subseteq seen' /\ top_candidates' \subseteq seen'
        /\ candidate_set' \subseteq visited' /\ top_candidates' \subseteq visited'
        /\ lowerBound' \in Nat /\ BoundIsCurrent'
    BY <1>1, <1>2, <1>5, ConsiderHeaps DEF Fetch, VectorFound
  <2>2. TypeOK'
    BY <1>1, <1>2, <1>3, <2>1 DEF TypeOK, PCs
  <2>3. Marks'
    BY <1>1, <1>2, <2>1 DEF IInv, Marks, Fetched, Lossless
  <2> QED
    BY <1>4, <2>1, <2>2, <2>3 DEF IInv
<1>6. CASE FetchFails
  <2>1. UNCHANGED heaps /\ mode.fails
    BY <1>6 DEF FetchFails, LoadFailed
  <2>2. TypeOK'
    BY <1>1, <1>2, <1>3, <2>1 DEF TypeOK, PCs, heaps
  <2>3. BoundIsCurrent'
    BY <2>1 DEF IInv, BoundIsCurrent, heaps
  <2>4. Marks'
    BY <1>1, <1>2, <2>1 DEF IInv, Marks, Fetched, Lossless, heaps
  <2> QED
    BY <1>4, <2>2, <2>3, <2>4 DEF IInv
<1> QED
  BY <1>5, <1>6

LEMMA PhaseEnds ==
  ASSUME IInv, ScanEnd \/ WaitForBlocks \/ LoadEnd
  PROVE  IInv'
<1> USE DEF fixed, shared, heaps, locals, ScanEnd, WaitForBlocks, LoadEnd
<1>1. TypeOK'
  BY DEF IInv, TypeOK, PCs
<1>2. BoundIsCurrent'
  BY DEF IInv, BoundIsCurrent
<1>3. Phases'
  BY DEF IInv, Phases
<1>4. Marks'
  BY DEF IInv, Marks, Fetched, Lossless
<1> QED
  BY <1>1, <1>2, <1>3, <1>4 DEF IInv

\* A neighbour set aside is dropped only in a search that may lose it.
LEMMA DropIsLossy ==
  ASSUME IInv, NEW n \in Nodes, DropPending(n)
  PROVE  ~Lossless
<1>1. mode \in [pq : BOOLEAN, csr : BOOLEAN, prefetch : BOOLEAN, fails : BOOLEAN]
  BY Typing DEF IInv
<1>2. ~mode.pq
  BY DEF IInv, Phases, DropPending, TakePending
<1>3. mode.prefetch \/ mode.fails
  BY DEF DropPending, AsksOnce, LoadFailed
<1> QED
  BY <1>1, <1>2, <1>3 DEF Lossless

LEMMA PendingPreserves ==
  ASSUME IInv, NEW n \in Nodes, LoadPending(n) \/ DropPending(n)
  PROVE  IInv'
<1> USE DEF fixed
<1>1. /\ pc = "load" /\ n \in pending_neighbors
      /\ pending_neighbors' = pending_neighbors \ {n}
      /\ UNCHANGED <<fixed, in_flight, pc, visited, candidateId, hit,
                     local_neighbors, nid>>
  BY DEF LoadPending, DropPending, TakePending
<1>2. /\ TypeOK /\ n \in visited /\ n \notin seen /\ visited \subseteq Nodes
  BY <1>1 DEF IInv, TypeOK, Marks
<1>3. cache_map' \subseteq Blocks
  BY <1>2, CacheTyped DEF LoadPending, DropPending, VectorFound
<1>4. Phases'
  BY <1>1 DEF IInv, Phases
<1>5. CASE LoadPending(n)
  <2>1. Consider(n)
    BY <1>5 DEF LoadPending, VectorFound
  <2>2. /\ seen' = seen \cup {n}
        /\ candidate_set' \subseteq seen' /\ top_candidates' \subseteq seen'
        /\ candidate_set' \subseteq visited' /\ top_candidates' \subseteq visited'
        /\ lowerBound' \in Nat /\ BoundIsCurrent'
    BY <1>1, <1>2, <2>1, ConsiderHeaps
  <2>3. TypeOK'
    BY <1>1, <1>2, <1>3, <2>2 DEF TypeOK
  <2>4. Marks'
    BY <1>1, <1>2, <2>2 DEF IInv, Marks, Fetched, Lossless
  <2> QED
    BY <1>4, <2>2, <2>3, <2>4 DEF IInv
<1>6. CASE DropPending(n)
  <2>1. UNCHANGED heaps /\ ~Lossless
    BY <1>6, DropIsLossy DEF DropPending
  <2>2. TypeOK'
    BY <1>1, <1>2, <1>3, <2>1 DEF TypeOK, heaps
  <2>3. BoundIsCurrent'
    BY <2>1 DEF IInv, BoundIsCurrent, heaps
  <2>4. Marks'
    BY <1>1, <1>2, <2>1 DEF IInv, Marks, Fetched, Lossless, heaps
  <2> QED
    BY <1>4, <2>2, <2>3, <2>4 DEF IInv
<1> QED
  BY <1>5, <1>6

LEMMA NextIInv == IInv /\ [Next]_vars => IInv'
<1> SUFFICES ASSUME IInv, [Next]_vars PROVE IInv'
  OBVIOUS
<1>1. CASE Search
  BY <1>1, EntryPreserves, PopPreserves, ExpandPreserves, ScanPreserves,
     FetchPreserves, PhaseEnds, PendingPreserves DEF Search
<1>2. CASE (\E b \in Blocks : Arrive(b)) \/ OtherThread
  BY <1>2, AroundPreserves
<1>3. CASE UNCHANGED vars
  <2>1. /\ UNCHANGED <<fixed, pc, heaps, visited, locals>>
        /\ cache_map' = cache_map /\ in_flight' = in_flight
    BY <1>3 DEF vars, shared
  <2>2. cache_map' \subseteq Blocks /\ in_flight' \subseteq Blocks
    BY <2>1 DEF IInv, TypeOK
  <2> QED
    BY <2>1, <2>2, SharedOnly
<1> QED
  BY <1>1, <1>2, <1>3 DEF Next

-----------------------------------------------------------------------------
(* The refinement.                                                         *)

\* The heaps of the abstract search are these.
LEMMA SameHeaps ==
  ASSUME NEW S \in SUBSET Nodes, NEW bound, NEW n
  PROVE  /\ Abstract!Nearest(S) = Nearest(S)
         /\ Abstract!Farthest(S) = Farthest(S)
         /\ Abstract!Admits(S, bound, n) <=> Admits(S, bound, n)
         /\ n \in Nodes => Abstract!Insert(S, n) = Insert(S, n)
         /\ Abstract!Converged(S, bound, n) <=> Converged(S, bound, n)
<1>1. \A T : Abstract!Nearest(T) = Nearest(T) /\ Abstract!Farthest(T) = Farthest(T)
  BY DEF Abstract!Nearest, Abstract!Farthest, Nearest, Farthest
<1>2. Abstract!Cardinality(S) = Cardinality(S)
  <2>1. IsFiniteSet(S)
    BY NodesFinite
  <2> QED
    BY <2>1 DEF Abstract!Cardinality, Cardinality, Abstract!IsFiniteSet, IsFiniteSet
<1> QED
  BY <1>1, <1>2 DEF Abstract!Admits, Abstract!Insert, Abstract!Converged,
                    Admits, Insert, Converged

LEMMA LeftIs ==
  /\ pc = "entry" => Left = {entry}
  /\ pc = "expand" => Left = Neighbours
  /\ pc = "fetch" => Left = local_neighbors \cup pending_neighbors \cup {nid}
  /\ pc \notin {"entry", "expand", "fetch"} =>
       Left = local_neighbors \cup pending_neighbors
BY DEF Left

\* A step that leaves the heaps and what is left stutters.
LEMMA Stutters ==
  ASSUME UNCHANGED <<fixed, heaps>>, Left' = Left,
         pc # "done", pc' # "done"
  PROVE  UNCHANGED Abstract!bestVars
BY DEF Abstract!bestVars, fixed, heaps, Lossless

\* A node whose distance is looked at has been examined.
LEMMA ConsiderExamines ==
  ASSUME IInv, NEW n \in Nodes, Consider(n), n \in Left, Left' = Left \ {n},
         UNCHANGED fixed, pc # "done", pc' # "done"
  PROVE  Abstract!BestNext
<1>1. /\ top_candidates \in SUBSET Nodes /\ BoundIsCurrent
      /\ IsFiniteSet(top_candidates)
  BY NodesFinite DEF IInv, TypeOK
<1>2. /\ Abstract!Farthest(top_candidates) = Farthest(top_candidates)
      /\ \A b : Abstract!Admits(top_candidates, b, n) <=> Admits(top_candidates, b, n)
      /\ Abstract!Insert(top_candidates, n) = Insert(top_candidates, n)
  BY <1>1, SameHeaps
<1>3. Abstract!Admits(top_candidates, Abstract!Bound, n)
        <=> Admits(top_candidates, lowerBound, n)
  <2>1. CASE top_candidates = {}
    <3>1. Cardinality(top_candidates) < Ef
      BY <2>1, FS_EmptySet, SearchHeapsAssumption
    <3> QED
      BY <1>2, <3>1 DEF Admits
  <2>2. CASE top_candidates # {}
    BY <1>1, <1>2, <2>2 DEF BoundIsCurrent, Abstract!Bound
  <2> QED
    BY <2>1, <2>2
<1>4. UNCHANGED <<mode, graph, entry>> /\ Lossless' = Lossless
  BY DEF fixed, Lossless
<1>5. Abstract!Examine(n)
  BY <1>2, <1>3, <1>4 DEF Abstract!Examine, Consider
<1> QED
  BY <1>5 DEF Abstract!BestNext

\* Nodes given up have been overlooked.
LEMMA GivingUpOverlooks ==
  ASSUME ~Lossless, NEW S \in SUBSET Left, S \subseteq Nodes, Left' = Left \ S,
         UNCHANGED <<fixed, heaps>>, pc # "done", pc' # "done"
  PROVE  [Abstract!BestNext]_(Abstract!bestVars)
<1>1. CASE S = {}
  BY <1>1, Stutters
<1>2. CASE S # {}
  <2>1. Abstract!Overlook(S)
    BY <1>2 DEF Abstract!Overlook, fixed, heaps, Lossless
  <2> QED
    BY <2>1 DEF Abstract!BestNext
<1> QED
  BY <1>1, <1>2

LEMMA EntrySimulates ==
  ASSUME IInv, EntryFound \/ EntryFails
  PROVE  [Abstract!BestNext]_(Abstract!bestVars)
<1>1. /\ pc = "entry" /\ Left = {entry} /\ entry \in Nodes
      /\ candidate_set = {} /\ top_candidates = {} /\ seen = {}
      /\ local_neighbors = {} /\ pending_neighbors = {}
  BY LeftIs, Typing DEF EntryFound, EntryFails, IInv, Phases
<1>2. CASE EntryFound
  <2>1. pc' = "pop" /\ UNCHANGED <<local_neighbors, pending_neighbors>>
    BY <1>2 DEF EntryFound, locals
  <2>2. Left' = {}
    BY <1>1, <2>1 DEF Left
  <2>3. Cardinality({}) < Ef
    BY FS_EmptySet, SearchHeapsAssumption
  <2>4. /\ Abstract!Admits({}, Abstract!Bound, entry)
        /\ Abstract!Insert({}, entry) = {entry}
    <3>1. /\ \A b : Abstract!Admits({}, b, entry) <=> Admits({}, b, entry)
          /\ Abstract!Insert({}, entry) = Insert({}, entry)
      BY <1>1, SameHeaps
    <3>2. /\ \A b : Admits({}, b, entry)
          /\ Insert({}, entry) = {entry}
      BY <2>3 DEF Admits, Insert
    <3> QED
      BY <3>1, <3>2
  <2>5. Abstract!Examine(entry)
    BY <1>1, <1>2, <2>1, <2>2, <2>4
       DEF EntryFound, Abstract!Examine, fixed, Lossless
  <2> QED
    BY <1>1, <2>5 DEF Abstract!BestNext
<1>3. CASE EntryFails
  <2>1. /\ pc' = "return" /\ UNCHANGED <<fixed, heaps>> /\ mode.fails
        /\ UNCHANGED <<local_neighbors, pending_neighbors>>
    BY <1>3 DEF EntryFails, LoadFailed, locals
  <2>2. Left' = {} /\ ~Lossless
    BY <1>1, <2>1 DEF Left, Lossless
  <2> QED
    BY <1>1, <2>1, <2>2, GivingUpOverlooks
<1> QED
  BY <1>2, <1>3

LEMMA PopSimulates ==
  ASSUME IInv, Pop \/ Stop \/ Return
  PROVE  [Abstract!BestNext]_(Abstract!bestVars)
<1>1. /\ candidate_set \in SUBSET Nodes /\ top_candidates \in SUBSET Nodes
      /\ local_neighbors = {} /\ pending_neighbors = {} /\ Left = {}
  BY LeftIs DEF IInv, TypeOK, Phases, Pop, Stop, Return
<1>2. Abstract!Nearest(candidate_set) = Nearest(candidate_set)
  BY <1>1, SameHeaps
<1>3. Abstract!BestFinished <=> Finished
  <2> DEFINE c == Nearest(candidate_set)
  <2>1. \A b : Abstract!Converged(top_candidates, b, c)
                 <=> Converged(top_candidates, b, c)
    BY <1>1, SameHeaps
  <2>2. CASE top_candidates = {}
    <3>1. \A b : ~Converged(top_candidates, b, c)
      BY <2>2, FS_EmptySet, SearchHeapsAssumption DEF Converged
    <3> QED
      BY <1>2, <2>1, <3>1 DEF Abstract!BestFinished, Finished
  <2>3. CASE top_candidates # {}
    <3>1. Abstract!Bound = lowerBound
      BY <1>1, <2>3, SameHeaps DEF Abstract!Bound, IInv, BoundIsCurrent
    <3> QED
      BY <1>2, <2>1, <3>1 DEF Abstract!BestFinished, Finished
  <2> QED
    BY <2>2, <2>3
<1>4. CASE Pop
  <2>1. /\ pc = "pop" /\ ~Finished /\ pc' = "expand"
        /\ candidateId' = Nearest(candidate_set)
        /\ candidate_set' = candidate_set \ {Nearest(candidate_set)}
        /\ UNCHANGED <<mode, graph, entry, top_candidates, seen, visited>>
    BY <1>4 DEF Pop, fixed
  <2>2. Left' = graph[Nearest(candidate_set)] \ visited
    BY <2>1 DEF Left, Neighbours
  <2>3. seen \subseteq visited /\ (Lossless => visited = seen)
    BY <1>1, <2>1 DEF IInv, Marks, Fetched
  <2>4. Abstract!BestExpand
    BY <1>1, <1>2, <1>3, <2>1, <2>2, <2>3
       DEF Abstract!BestExpand, Abstract!Fresh, Lossless
  <2> QED
    BY <2>4 DEF Abstract!BestNext
<1>5. CASE Stop
  <2>1. /\ pc = "pop" /\ pc' = "return" /\ UNCHANGED <<fixed, heaps>>
        /\ UNCHANGED <<local_neighbors, pending_neighbors>>
    BY <1>5 DEF Stop, locals
  <2>2. Left' = Left
    BY <1>1, <2>1 DEF Left
  <2> QED
    BY <2>1, <2>2, Stutters
<1>6. CASE Return
  <2>1. /\ pc = "return" /\ pc' = "done" /\ UNCHANGED <<fixed, heaps>>
        /\ UNCHANGED <<local_neighbors, pending_neighbors>>
    BY <1>6 DEF Return, locals
  <2>2. Left' = Left
    BY <1>1, <2>1 DEF Left
  <2>3. Abstract!BestFinished
    BY <1>3, <2>1 DEF IInv, Phases
  <2>4. Abstract!BestFinish
    BY <1>1, <2>1, <2>2, <2>3 DEF Abstract!BestFinish, fixed, heaps, Lossless
  <2> QED
    BY <2>4 DEF Abstract!BestNext
<1> QED
  BY <1>4, <1>5, <1>6

LEMMA ExpandSimulates ==
  ASSUME IInv, ExpandHit \/ ExpandMiss \/ ExpandFails
  PROVE  [Abstract!BestNext]_(Abstract!bestVars)
<1>1. /\ pc = "expand" /\ Left = Neighbours /\ pending_neighbors = {}
      /\ local_neighbors = {} /\ UNCHANGED pending_neighbors
      /\ UNCHANGED <<fixed, heaps>>
  BY LeftIs DEF IInv, Phases, ExpandHit, ExpandMiss, ExpandFails, locals
<1>2. CASE ExpandHit \/ ExpandMiss
  <2>1. pc' = "scan" /\ local_neighbors' = Neighbours
    BY <1>2 DEF ExpandHit, ExpandMiss
  <2>2. Left' = Left
    BY <1>1, <2>1 DEF Left
  <2> QED
    BY <1>1, <2>1, <2>2, Stutters
<1>3. CASE ExpandFails
  <2>1. pc' = "pop" /\ UNCHANGED local_neighbors /\ mode.fails
    BY <1>3 DEF ExpandFails, LoadFailed, locals
  <2>2. Left' = {} /\ ~Lossless
    BY <1>1, <2>1 DEF Left, Lossless
  <2>3. Left \subseteq Nodes
    BY <1>1, Typing DEF Neighbours, IInv, TypeOK
  <2> QED
    BY <1>1, <2>1, <2>2, <2>3, GivingUpOverlooks
<1> QED
  BY <1>2, <1>3

LEMMA ScanSimulates ==
  ASSUME IInv, NEW n \in Nodes, ScanNow(n) \/ ScanFetch(n) \/ ScanLater(n)
  PROVE  [Abstract!BestNext]_(Abstract!bestVars)
<1>1. /\ pc = "scan" /\ n \in local_neighbors
      /\ local_neighbors' = local_neighbors \ {n} /\ UNCHANGED fixed
  BY DEF ScanNow, ScanFetch, ScanLater, Take
<1>2. /\ Left = local_neighbors \cup pending_neighbors
      /\ n \notin pending_neighbors
  BY <1>1, LeftIs DEF IInv, Marks
<1>3. CASE ScanNow(n)
  <2>1. Consider(n) /\ UNCHANGED <<pc, pending_neighbors>>
    BY <1>3 DEF ScanNow
  <2>2. Left' = Left \ {n}
    BY <1>1, <1>2, <2>1 DEF Left
  <2> QED
    BY <1>1, <1>2, <2>1, <2>2, ConsiderExamines
<1>4. CASE ScanFetch(n)
  <2>1. nid' = n /\ pc' = "fetch" /\ UNCHANGED <<heaps, pending_neighbors>>
    BY <1>4 DEF ScanFetch
  <2>2. Left' = Left
    BY <1>1, <1>2, <2>1 DEF Left
  <2> QED
    BY <1>1, <2>1, <2>2, Stutters
<1>5. CASE ScanLater(n)
  <2>1. pending_neighbors' = pending_neighbors \cup {n} /\ UNCHANGED <<pc, heaps>>
    BY <1>5 DEF ScanLater
  <2>2. Left' = Left
    BY <1>1, <1>2, <2>1 DEF Left
  <2> QED
    BY <1>1, <2>1, <2>2, Stutters
<1> QED
  BY <1>3, <1>4, <1>5

LEMMA FetchSimulates ==
  ASSUME IInv, Fetch \/ FetchFails
  PROVE  [Abstract!BestNext]_(Abstract!bestVars)
<1>1. /\ pc = "fetch" /\ pc' = "scan" /\ UNCHANGED fixed
      /\ UNCHANGED <<local_neighbors, pending_neighbors>>
  BY DEF Fetch, FetchFails, locals
<1>2. /\ Left = local_neighbors \cup pending_neighbors \cup {nid}
      /\ Left' = local_neighbors \cup pending_neighbors
  BY <1>1, LeftIs DEF Left
<1>3. nid \in Nodes /\ nid \notin local_neighbors \cup pending_neighbors
  BY <1>1 DEF IInv, TypeOK, Marks, Fetched
<1>4. Left' = Left \ {nid} /\ nid \in Left
  BY <1>2, <1>3
<1>5. CASE Fetch
  BY <1>1, <1>3, <1>4, <1>5, ConsiderExamines DEF Fetch, VectorFound
<1>6. CASE FetchFails
  <2>1. UNCHANGED heaps /\ ~Lossless
    BY <1>6 DEF FetchFails, LoadFailed, Lossless
  <2>2. {nid} \in SUBSET Left /\ {nid} \subseteq Nodes
    BY <1>3, <1>4
  <2> QED
    BY <1>1, <1>4, <2>1, <2>2, GivingUpOverlooks
<1> QED
  BY <1>5, <1>6

LEMMA PhaseSimulates ==
  ASSUME IInv, ScanEnd \/ WaitForBlocks \/ LoadEnd
  PROVE  [Abstract!BestNext]_(Abstract!bestVars)
<1>1. /\ pc \in {"scan", "wait", "load"} /\ pc' \in {"pop", "wait", "load"}
      /\ UNCHANGED <<fixed, heaps, local_neighbors, pending_neighbors>>
  BY DEF ScanEnd, WaitForBlocks, LoadEnd, locals
<1>2. Left' = Left
  BY <1>1 DEF Left
<1> QED
  BY <1>1, <1>2, Stutters

LEMMA PendingSimulates ==
  ASSUME IInv, NEW n \in Nodes, LoadPending(n) \/ DropPending(n)
  PROVE  [Abstract!BestNext]_(Abstract!bestVars)
<1>1. /\ pc = "load" /\ n \in pending_neighbors
      /\ pending_neighbors' = pending_neighbors \ {n}
      /\ UNCHANGED <<fixed, pc, local_neighbors>>
  BY DEF LoadPending, DropPending, TakePending
<1>2. local_neighbors = {}
  BY <1>1 DEF IInv, Phases
<1>3. n \in Left /\ Left' = Left \ {n}
  BY <1>1, <1>2 DEF Left
<1>4. CASE LoadPending(n)
  BY <1>1, <1>3, <1>4, ConsiderExamines DEF LoadPending, VectorFound
<1>5. CASE DropPending(n)
  <2>1. UNCHANGED heaps /\ ~Lossless
    BY <1>5, DropIsLossy DEF DropPending
  <2>2. {n} \in SUBSET Left /\ {n} \subseteq Nodes
    BY <1>3
  <2>3. pc # "done" /\ pc' # "done"
    BY <1>1
  <2> QED
    BY <1>1, <1>3, <2>1, <2>2, <2>3, GivingUpOverlooks
<1> QED
  BY <1>4, <1>5

LEMMA AroundSimulates ==
  ASSUME UNCHANGED <<fixed, pc, heaps, visited, locals>>
  PROVE  [Abstract!BestNext]_(Abstract!bestVars)
<1>1. UNCHANGED <<pc, graph, entry, visited, candidateId, local_neighbors,
                  pending_neighbors, nid>>
  BY DEF fixed, locals
<1>2. Left' = Left
  BY <1>1 DEF Left, Neighbours
<1> QED
  BY <1>1, <1>2 DEF Abstract!bestVars, fixed, heaps, Lossless

LEMMA NextSimulates ==
  ASSUME IInv, [Next]_vars
  PROVE  [Abstract!BestNext]_(Abstract!bestVars)
<1>1. CASE Search
  BY <1>1, EntrySimulates, PopSimulates, ExpandSimulates, ScanSimulates,
     FetchSimulates, PhaseSimulates, PendingSimulates DEF Search
<1>2. CASE (\E b \in Blocks : Arrive(b)) \/ OtherThread
  BY <1>2, AroundSimulates DEF Arrive, OtherThread
<1>3. CASE UNCHANGED vars
  BY <1>3, AroundSimulates DEF vars
<1> QED
  BY <1>1, <1>2, <1>3 DEF Next

LEMMA InitSimulates == Init => Abstract!BestInit
<1> SUFFICES ASSUME Init PROVE Abstract!BestInit
  OBVIOUS
<1>1. graph \in [Nodes -> SUBSET Nodes] /\ entry \in Nodes /\ Left = {entry}
  BY InitIInv, Typing, LeftIs DEF IInv, Init
<1> QED
  BY <1>1 DEF Init, Abstract!BestInit, Lossless

-----------------------------------------------------------------------------
(* The theorems.                                                           *)

\* Types, and lowerBound is the worst distance of the results at every step.
THEOREM SearchInvariant == Spec => [](TypeOK /\ BoundIsCurrent)
<1>1. IInv => TypeOK /\ BoundIsCurrent
  BY DEF IInv
<1> QED
  BY InitIInv, NextIInv, <1>1, PTL DEF Spec

\* The search with blocks that come and go is a best-first search in memory,
\* which overlooks nodes only when a read may fail or the prefetcher is on.
THEOREM SearchRefinesBestFirst == Spec => ImplementsBestFirst
<1>1. IInv /\ [Next]_vars => [Abstract!BestNext]_(Abstract!bestVars)
  BY NextSimulates
<1> QED
  BY InitIInv, NextIInv, InitSimulates, <1>1, PTL
     DEF Spec, ImplementsBestFirst, Abstract!BestSpec

\* What is proved of the search in memory holds of this one.
BestFirstTheorems ==
  INSTANCE BestFirstProofs
    WITH links <- graph, origin <- entry, lossy <- ~Lossless,
         candidates <- candidate_set, best <- top_candidates, met <- seen,
         unmet <- Left, ended <- pc = "done"

\* Its steps are those of the search in memory, and its invariants hold of it.
LEMMA BestFirstHolds ==
  Spec => [](BestFirstTheorems!BestIInv /\ BestFirstTheorems!KeepsStep)
<1> DEFINE BFInv == BestFirstTheorems!BestIInv /\ BestFirstTheorems!KeepsStep
           BFStep == [BestFirstTheorems!BestNext]_(BestFirstTheorems!bestVars)
<1>1. /\ BestFirstTheorems!IsFiniteSet(Nodes)
      /\ Dist \in [Nodes -> Nat]
      /\ \A m, n \in Nodes : Dist[m] = Dist[n] => m = n
      /\ Ef \in Nat \ {0}
  BY SearchHeapsAssumption DEF BestFirstTheorems!IsFiniteSet, IsFiniteSet
<1>2. BestFirstTheorems!BestInit => BFInv
  BY <1>1, BestFirstTheorems!InitBestIInv, BestFirstTheorems!InitKeepsStep
<1>3. BFInv /\ BFStep => BFInv'
  BY <1>1, BestFirstTheorems!NextBestIInv, BestFirstTheorems!NextKeepsStep
<1>4. Abstract!BestInit => BestFirstTheorems!BestInit
  BY DEF Abstract!BestInit, BestFirstTheorems!BestInit
<1>5. [Abstract!BestNext]_(Abstract!bestVars) => BFStep
  BY DEF Abstract!Examine, Abstract!Overlook, Abstract!BestExpand,
         Abstract!BestFinish, Abstract!BestFinished, Abstract!Fresh, Abstract!Bound,
         Abstract!Admits, Abstract!Insert, Abstract!Converged,
         Abstract!Farthest, Abstract!Nearest, Abstract!Cardinality,
         Abstract!IsFiniteSet, Abstract!bestVars, Abstract!BestNext,
         BestFirstTheorems!Examine, BestFirstTheorems!Overlook,
         BestFirstTheorems!BestExpand, BestFirstTheorems!BestFinish,
         BestFirstTheorems!BestFinished, BestFirstTheorems!Fresh,
         BestFirstTheorems!Bound, BestFirstTheorems!Admits,
         BestFirstTheorems!Insert, BestFirstTheorems!Converged,
         BestFirstTheorems!Farthest, BestFirstTheorems!Nearest,
         BestFirstTheorems!Cardinality, BestFirstTheorems!IsFiniteSet,
         BestFirstTheorems!bestVars, BestFirstTheorems!BestNext
<1> QED
  BY SearchRefinesBestFirst, <1>2, <1>3, <1>4, <1>5, PTL
     DEF ImplementsBestFirst, Abstract!BestSpec

\* The results are the nearest of the nodes looked at, lossy or not; and without
\* a failing read and a prefetcher no neighbour of a result was left out.
THEOREM ResultIsRight == Spec => [](TopIsNearest /\ ResultIsClosed)
<1>1. /\ BestFirstTheorems!IsFiniteSet(Nodes)
      /\ Dist \in [Nodes -> Nat]
      /\ \A m, n \in Nodes : Dist[m] = Dist[n] => m = n
      /\ Ef \in Nat \ {0}
  BY SearchHeapsAssumption DEF BestFirstTheorems!IsFiniteSet, IsFiniteSet
<1>2. BestFirstTheorems!BestIInv
        => BestFirstTheorems!BestIsNearest /\ BestFirstTheorems!BestIsClosed
  BY <1>1, BestFirstTheorems!ConvergedIsClosed DEF BestFirstTheorems!BestIInv
<1>3. BestFirstTheorems!BestIsNearest /\ BestFirstTheorems!BestIsClosed
        => TopIsNearest /\ ResultIsClosed
  BY DEF TopIsNearest, ResultIsClosed,
         Abstract!BestIsNearest, Abstract!BestIsClosed,
         Abstract!Cardinality, Abstract!IsFiniteSet,
         BestFirstTheorems!BestIsNearest, BestFirstTheorems!BestIsClosed,
         BestFirstTheorems!Cardinality, BestFirstTheorems!IsFiniteSet
<1> QED
  BY BestFirstHolds, <1>2, <1>3, PTL

\* For every graph, layout, cache and setting without failing reads and without a
\* prefetcher (or with PQ distances): whatever is evicted and in whatever order
\* blocks come in, searchLayer0 returns what the search in memory returns.
THEOREM ResultIsThatInMemory == Spec => []ResultIndependentOfCache
<1>1. /\ BestFirstTheorems!IsFiniteSet(Nodes)
      /\ Dist \in [Nodes -> Nat]
      /\ \A m, n \in Nodes : Dist[m] = Dist[n] => m = n
      /\ Ef \in Nat \ {0}
  BY SearchHeapsAssumption DEF BestFirstTheorems!IsFiniteSet, IsFiniteSet
<1>2. BestFirstTheorems!BestIInv /\ BestFirstTheorems!KeepsStep
        => BestFirstTheorems!BestIsTheResult
  BY <1>1, BestFirstTheorems!ResultIsUnique
<1>3. BestFirstTheorems!SearchResult(graph, entry) = Abstract!SearchResult(graph, entry)
  BY DEF Abstract!SearchResult, Abstract!NextState, Abstract!Unexpanded, Abstract!Outset,
         Abstract!Top, Abstract!Steps, Abstract!Nearest, Abstract!Cardinality,
         Abstract!IsFiniteSet,
         BestFirstTheorems!SearchResult, BestFirstTheorems!NextState,
         BestFirstTheorems!Unexpanded, BestFirstTheorems!Outset, BestFirstTheorems!Top,
         BestFirstTheorems!Steps, BestFirstTheorems!Nearest,
         BestFirstTheorems!Cardinality, BestFirstTheorems!IsFiniteSet
<1>4. BestFirstTheorems!BestIsTheResult => ResultIndependentOfCache
  BY <1>3 DEF BestFirstTheorems!BestIsTheResult, Abstract!BestIsTheResult,
              ResultIndependentOfCache
<1> QED
  BY BestFirstHolds, <1>2, <1>4, PTL

=============================================================================
