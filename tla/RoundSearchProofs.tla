-------------------------- MODULE RoundSearchProofs --------------------------
(***************************************************************************)
(* What the searches by rounds lose and what they keep, for every graph,   *)
(* every layout, every cache, every ef and every width of a round.         *)
(*                                                                         *)
(* The frozen bound is no nearer than any result of a search whose result  *)
(* was full when the round began (Frozen); that a result never gets worse  *)
(* makes it safe to reject against.  What a result's neighbours wait for   *)
(* is followed from the candidate set through the round into the expansion *)
(* (Explored).                                                             *)
(***************************************************************************)
EXTENDS RoundSearch, BestFirstProofs

Searching == pc \notin {"entry", "return", "done"}

Shape ==
  /\ pc = "entry" => visited = {} /\ local_neighbors = {} /\ ~full
  /\ Searching => top_candidates # {}
  /\ local_neighbors \cap visited = {}

Frozen ==
  /\ settled # {} => full
  /\ full => /\ Cardinality(top_candidates) = Ef
             /\ \A m \in top_candidates : Dist[m] <= lowerBound
  /\ pc = "collect" => \A m \in top_candidates : Dist[m] <= lowerBound

Expanding(m) ==
  /\ m = candidateId
  /\ \/ pc \in {"expand", "neighbors"}
     \/ pc = "scan" /\ graph[m] \subseteq visited \cup local_neighbors

Explored ==
  \A m \in top_candidates :
    \/ graph[m] \subseteq visited
    \/ m \in beam \cup lost
    \/ ~Ended /\ m \in candidate_set
    \/ Expanding(m)

IInv ==
  /\ TypeOK
  /\ Shape
  /\ Frozen
  /\ NearestOnceFull
  /\ Explored
  /\ BeamLosesOnlyToErrors

-----------------------------------------------------------------------------
(* What the parts of a step do.                                            *)

LEMMA Typing ==
  ASSUME TypeOK
  PROVE  /\ mode \in [batch : BOOLEAN, pq : BOOLEAN, prefetch : BOOLEAN,
                      fails : BOOLEAN, vec_only : BOOLEAN]
         /\ graph \in [Nodes -> SUBSET Nodes]
         /\ entry \in Nodes
         /\ BlockOf \in [Nodes -> Blocks]
         /\ seen \subseteq Nodes
         /\ top_candidates \subseteq Nodes /\ candidate_set \subseteq Nodes
         /\ beam \subseteq Nodes
BY RoundSearchAssumption, SharedBlocksAssumption DEF TypeOK

LEMMA BlocksOfTyped ==
  ASSUME TypeOK, NEW S \in SUBSET Nodes
  PROVE  BlocksOf(S) \subseteq Blocks
BY Typing DEF BlocksOf

\* Whatever happens to it, the cache holds blocks of the file.
LEMMA CacheTyped ==
  ASSUME TypeOK, NEW b \in Blocks,
         \/ UNCHANGED cache_map
         \/ GetBlock(b)
         \/ GetBlockFails(b)
         \/ \E c \in Blocks : Cache!Load(c)
         \/ Cache!LoadFails
  PROVE  cache_map' \subseteq Blocks
<1>1. cache_map \subseteq Blocks
  BY DEF TypeOK
<1> QED
  BY <1>1 DEF GetBlock, GetBlockFails, Cache!Load, Cache!LoadFails

\* The top of a set of nodes is one of them.
LEMMA NearestTyped ==
  ASSUME NEW S \in SUBSET Nodes, S # {}
  PROVE  Nearest(S) \in S
BY NearestIsTop

\* A node is looked at that is not in the result: of a search that began its
\* round full, the result stays full, no farther than the bound, and nearer than
\* all that was looked at and is not in it.
LEMMA ConsiderHeaps ==
  ASSUME TypeOK, Frozen, NearestOnceFull, NEW n \in Nodes \ seen, Consider(n)
  PROVE  /\ seen' = seen \cup {n}
         /\ settled' \subseteq settled \cup {n}
         /\ candidate_set' \subseteq candidate_set \cup {n}
         /\ candidate_set \subseteq candidate_set'
         /\ top_candidates' \subseteq top_candidates \cup {n}
         /\ top_candidates # {} => top_candidates' # {}
         /\ n \in top_candidates' => n \in candidate_set'
         /\ settled' # {} => full
         /\ full => /\ Cardinality(top_candidates') = Ef
                    /\ \A m \in top_candidates' : Dist[m] <= lowerBound
         /\ NearestOnceFull'
<1> DEFINE top == top_candidates
<1>1. /\ top \in SUBSET Nodes /\ n \in Nodes \ top /\ settled \subseteq Nodes
      /\ n \notin settled
  BY Typing DEF TypeOK
<1>2. /\ Dist \in [Nodes -> Nat] /\ Ef \in Nat \ {0} /\ lowerBound \in Nat
      /\ \A x, y \in Nodes : Dist[x] = Dist[y] => x = y
  BY SearchHeapsAssumption DEF TypeOK
<1>3. /\ seen' = seen \cup {n}
      /\ settled' = IF full THEN settled \cup {n} ELSE settled
  BY DEF Consider
<1>4. settled' # {} => full
  BY <1>3 DEF Frozen
<1>5. CASE Admits(top, lowerBound, n)
  <2>1. candidate_set' = candidate_set \cup {n} /\ top' = Insert(top, n)
    BY <1>5 DEF Consider
  <2>2. top' \subseteq top \cup {n} /\ top' # {}
    BY <1>1, <2>1, InsertIsSome
  <2>3. CASE full
    <3>1. /\ Cardinality(top) = Ef /\ Dist[n] < lowerBound
          /\ \A m \in top : Dist[m] <= lowerBound
      BY <1>2, <1>5, <2>3 DEF Frozen, Admits
    <3>2. PICK far \in top \cup {n} :
            /\ top' = (top \cup {n}) \ {far}
            /\ Cardinality(top') = Ef
            /\ \A m \in top' : Dist[m] < Dist[far]
      BY <1>1, <2>1, <3>1, InsertKeepsFull
    <3>3. \A m \in top' : Dist[m] <= lowerBound
      BY <1>1, <1>2, <3>1, <3>2
    <3>4. ASSUME NEW x \in settled' \ top', NEW m \in top'
          PROVE  Dist[m] < Dist[x]
      <4>1. CASE x = far
        BY <3>2, <4>1
      <4>2. CASE x # far
        <5>1. x \in settled \ top
          BY <1>3, <3>2, <4>2
        <5>2. \A y \in top : Dist[y] < Dist[x]
          BY <5>1 DEF NearestOnceFull
        <5>3. CASE m \in top
          BY <5>2, <5>3
        <5>4. CASE m = n
          <6>1. far \in top
            BY <3>2, <5>4
          <6>2. Dist[m] < Dist[far] /\ Dist[far] < Dist[x]
            BY <3>2, <5>2, <6>1
          <6>3. m \in Nodes /\ far \in Nodes /\ x \in Nodes
            BY <1>1, <5>1, <5>4, <6>1
          <6> QED
            BY <1>2, <6>2, <6>3
        <5> QED
          BY <3>2, <5>3, <5>4
      <4> QED
        BY <4>1, <4>2
    <3>5. NearestOnceFull'
      BY <3>4 DEF NearestOnceFull
    <3> QED
      BY <1>3, <1>4, <2>1, <2>2, <3>2, <3>3, <3>5
  <2>4. CASE ~full
    <3>1. settled' = {}
      BY <1>3, <2>4 DEF Frozen
    <3>2. NearestOnceFull'
      BY <3>1 DEF NearestOnceFull
    <3> QED
      BY <1>3, <1>4, <2>1, <2>2, <2>4, <3>2
  <2> QED
    BY <2>3, <2>4
<1>6. CASE ~Admits(top, lowerBound, n)
  <2>1. UNCHANGED <<candidate_set, top_candidates>>
    BY <1>6 DEF Consider
  <2>2. NearestOnceFull'
    <3>1. SUFFICES ASSUME full, NEW x \in settled' \ top, NEW m \in top
                   PROVE  Dist[m] < Dist[x]
      BY <1>4, <2>1 DEF NearestOnceFull
    <3>2. CASE x = n
      <4>1. Dist[m] <= lowerBound /\ lowerBound <= Dist[n]
        BY <1>1, <1>2, <1>6, <3>1 DEF Frozen, Admits
      <4>2. Dist[m] # Dist[n] /\ Dist[m] \in Nat /\ Dist[n] \in Nat
        BY <1>1, <1>2, <3>1
      <4> QED
        BY <1>2, <3>2, <4>1, <4>2
    <3>3. CASE x # n
      BY <1>3, <3>1, <3>3 DEF NearestOnceFull
    <3> QED
      BY <3>2, <3>3
  <2> QED
    BY <1>1, <1>3, <1>4, <2>1, <2>2 DEF Frozen
<1> QED
  BY <1>5, <1>6

-----------------------------------------------------------------------------
(* The invariant: one lemma per group of actions.                          *)

LEMMA InitIInv == Init => IInv
<1> SUFFICES ASSUME Init PROVE IInv
  OBVIOUS
<1>1. Cardinality(beam) <= Width
  BY FS_EmptySet, RoundSearchAssumption DEF Init
<1>2. TypeOK
  <2>1. full \in BOOLEAN /\ pc \in PCs
    BY DEF Init, PCs
  <2>2. candidateId \in Nodes
    BY RoundSearchAssumption DEF Init
  <2> QED
    BY <1>1, <2>1, <2>2 DEF Init, TypeOK
<1>3. Shape /\ Frozen /\ NearestOnceFull
  BY DEF Init, Shape, Searching, Frozen, NearestOnceFull
<1>4. Explored /\ BeamLosesOnlyToErrors
  BY DEF Init, Explored, BeamLosesOnlyToErrors
<1> QED
  BY <1>2, <1>3, <1>4 DEF IInv

\* Nothing but the cache and the reads in flight changes.
LEMMA SharedOnly ==
  ASSUME IInv, cache_map' \subseteq Blocks, in_flight' \subseteq Blocks,
         UNCHANGED <<fixed, pc, heaps, round, visited, taken, locals, lost>>
  PROVE  IInv'
<1> USE DEF fixed, heaps, round, taken, locals
<1>1. TypeOK'
  BY DEF IInv, TypeOK
<1>2. Shape' /\ Frozen' /\ NearestOnceFull'
  BY DEF IInv, Shape, Searching, Frozen, NearestOnceFull
<1>3. Explored' /\ BeamLosesOnlyToErrors'
  BY DEF IInv, Explored, Expanding, Ended, BeamLosesOnlyToErrors
<1> QED
  BY <1>1, <1>2, <1>3 DEF IInv

LEMMA AroundPreserves ==
  ASSUME IInv, (\E b \in Blocks : Arrive(b)) \/ OtherThread
  PROVE  IInv'
<1>1. TypeOK
  BY DEF IInv
<1>2. ASSUME NEW b \in Blocks, Arrive(b) PROVE IInv'
  <2>1. cache_map' \subseteq Blocks
    BY <1>1, <1>2, CacheTyped DEF Arrive, Arrival
  <2>2. in_flight' \subseteq Blocks
    BY <1>1, <1>2 DEF Arrive, Arrival, TypeOK
  <2> QED
    BY <1>2, <2>1, <2>2, SharedOnly DEF Arrive
<1>3. CASE OtherThread
  <2>1. BlockOf[entry] \in Blocks
    BY <1>1, Typing
  <2>2. cache_map' \subseteq Blocks
    BY <1>1, <1>3, <2>1, CacheTyped DEF OtherThread, OtherLookup
  <2>3. in_flight' \subseteq Blocks
    BY <1>1, <1>3 DEF OtherThread, OtherLookup, TypeOK
  <2> QED
    BY <1>3, <2>2, <2>3, SharedOnly DEF OtherThread
<1> QED
  BY <1>2, <1>3

LEMMA EntryPreserves ==
  ASSUME IInv, EntryFound \/ EntryFails
  PROVE  IInv'
<1> USE DEF fixed, heaps, round, taken, locals
<1>1. TypeOK /\ Shape /\ pc = "entry"
  BY DEF IInv, EntryFound, EntryFails
<1>2. /\ visited = {} /\ seen = {} /\ top_candidates = {} /\ local_neighbors = {}
      /\ settled = {} /\ beam = {} /\ missIdx = {} /\ pending = {} /\ ~full
  BY <1>1 DEF TypeOK, Shape
<1>3. cache_map' \subseteq Blocks
  BY <1>1, Typing, CacheTyped DEF EntryFound, EntryFails, GetVector
<1>4. CASE EntryFound
  <2>1. entry \in Nodes /\ Dist[entry] \in Nat /\ Cardinality({entry}) = 1
    BY <1>1, Typing, SearchHeapsAssumption, FS_Singleton
  <2>2. /\ candidate_set' = {entry} /\ top_candidates' = {entry}
        /\ visited' = {entry} /\ seen' = {entry} /\ lowerBound' = Dist[entry]
        /\ full' = (Ef = 1) /\ pc' = "collect"
        /\ UNCHANGED <<mode, graph, entry, in_flight, settled, beam, missIdx,
                       candidateId, local_neighbors, pending, needed, lost>>
    BY <1>4 DEF EntryFound
  <2>3. TypeOK'
    BY <1>1, <1>2, <1>3, <2>1, <2>2 DEF TypeOK, PCs
  <2>4. Shape' /\ NearestOnceFull'
    BY <1>2, <2>2 DEF Shape, Searching, NearestOnceFull
  <2>5. Frozen'
    <3>1. full' => Cardinality(top_candidates') = Ef
      BY <2>1, <2>2
    <3>2. \A m \in top_candidates' : Dist[m] <= lowerBound'
      BY <2>1, <2>2
    <3> QED
      BY <1>2, <2>2, <3>1, <3>2 DEF Frozen
  <2>6. Explored'
    BY <2>2 DEF Explored, Ended
  <2>7. BeamLosesOnlyToErrors'
    BY <2>2 DEF IInv, BeamLosesOnlyToErrors
  <2> QED
    BY <2>3, <2>4, <2>5, <2>6, <2>7 DEF IInv
<1>5. CASE EntryFails
  <2>1. pc' = "return" /\ UNCHANGED <<fixed, in_flight, heaps, round, visited, taken,
                                      locals, lost>>
    BY <1>5 DEF EntryFails
  <2>2. TypeOK'
    BY <1>1, <1>3, <2>1 DEF TypeOK, PCs
  <2>3. Shape' /\ Frozen' /\ NearestOnceFull'
    BY <1>2, <2>1 DEF Shape, Searching, Frozen, NearestOnceFull
  <2>4. Explored' /\ BeamLosesOnlyToErrors'
    BY <1>2, <2>1 DEF IInv, Explored, BeamLosesOnlyToErrors
  <2> QED
    BY <2>2, <2>3, <2>4 DEF IInv
<1> QED
  BY <1>4, <1>5

\* The candidates of a round are collected.
LEMMA CollectPreserves ==
  ASSUME IInv, TakeCandidate \/ Converge \/ Exhausted \/ Return
  PROVE  IInv'
<1> USE DEF fixed, shared, heaps, round, taken, locals
<1>1. TypeOK /\ Shape /\ Frozen /\ NearestOnceFull /\ Explored /\ BeamLosesOnlyToErrors
  BY DEF IInv
<1>2. CASE TakeCandidate
  <2> DEFINE n == Nearest(candidate_set)
  <2>1. /\ pc = "collect" /\ candidate_set # {} /\ Cardinality(beam) < Width
        /\ candidate_set' = candidate_set \ {n} /\ beam' = beam \cup {n}
        /\ missIdx' = missIdx \/ missIdx' = missIdx \cup {n}
        /\ UNCHANGED <<fixed, shared, pc, top_candidates, seen, settled, round, visited,
                       locals, lost>>
    BY <1>2 DEF TakeCandidate, MoreToTake
  <2>2. n \in candidate_set
    BY <1>1, <2>1, Typing, NearestTyped
  <2> HIDE DEF n
  <2>3. Cardinality(beam') <= Width
    <3>1. IsFiniteSet(beam) /\ Cardinality(beam) \in Nat /\ Width \in Nat
      BY <1>1, Typing, NodesFinite, RoundSearchAssumption
    <3>2. Cardinality(beam \cup {n}) \in {Cardinality(beam), Cardinality(beam) + 1}
      BY <3>1, FS_AddElement
    <3> QED
      BY <2>1, <3>1, <3>2
  <2>4. TypeOK'
    BY <1>1, <2>1, <2>2, <2>3 DEF TypeOK
  <2>5. Shape' /\ Frozen' /\ NearestOnceFull'
    BY <1>1, <2>1 DEF Shape, Searching, Frozen, NearestOnceFull
  <2>6. Explored'
    BY <1>1, <2>1 DEF Explored, Expanding, Ended
  <2>7. BeamLosesOnlyToErrors'
    BY <1>1, <2>1 DEF BeamLosesOnlyToErrors
  <2> QED
    BY <2>4, <2>5, <2>6, <2>7 DEF IInv
<1>3. CASE Converge \/ Exhausted
  <2>1. /\ pc = "collect" /\ pc' = "return"
        /\ UNCHANGED <<fixed, shared, heaps, round, visited, taken, locals, lost>>
    BY <1>3 DEF Converge, Exhausted
  <2>2. candidate_set \cap top_candidates = {}
    <3>1. SUFFICES ASSUME NEW m \in candidate_set, m \in top_candidates PROVE FALSE
      OBVIOUS
    <3>2. Converge
      BY <1>3, <3>1 DEF Exhausted
    <3>3. lowerBound < Dist[Nearest(candidate_set)]
      <4>1. OutOfRange
        BY <3>2 DEF Converge
      <4> QED
        BY <4>1 DEF OutOfRange, Converged
    <3>4. Nearest(candidate_set) \in Nodes /\ Dist[Nearest(candidate_set)] <= Dist[m]
      BY <1>1, <3>1, Typing, NearestIsTop
    <3>5. Dist[m] <= lowerBound
      BY <1>1, <2>1, <3>1 DEF Frozen
    <3>6. Dist \in [Nodes -> Nat] /\ lowerBound \in Nat /\ m \in Nodes
      BY <1>1, <3>1, Typing, SearchHeapsAssumption DEF TypeOK
    <3> QED
      BY <3>3, <3>4, <3>5, <3>6
  <2>3. TypeOK'
    BY <1>1, <2>1 DEF TypeOK, PCs
  <2>4. Shape' /\ Frozen' /\ NearestOnceFull'
    BY <1>1, <2>1 DEF Shape, Searching, Frozen, NearestOnceFull
  <2>5. Explored'
    BY <1>1, <2>1, <2>2 DEF Explored, Expanding, Ended
  <2>6. BeamLosesOnlyToErrors'
    BY <1>1, <2>1 DEF BeamLosesOnlyToErrors
  <2> QED
    BY <2>3, <2>4, <2>5, <2>6 DEF IInv
<1>4. CASE Return
  <2>1. /\ pc = "return" /\ pc' = "done"
        /\ UNCHANGED <<fixed, shared, heaps, round, visited, taken, locals, lost>>
    BY <1>4 DEF Return
  <2>2. TypeOK'
    BY <1>1, <2>1 DEF TypeOK, PCs
  <2>3. Shape' /\ Frozen' /\ NearestOnceFull'
    BY <1>1, <2>1 DEF Shape, Searching, Frozen, NearestOnceFull
  <2>4. Explored' /\ BeamLosesOnlyToErrors'
    BY <1>1, <2>1 DEF Explored, Expanding, Ended, BeamLosesOnlyToErrors
  <2> QED
    BY <2>2, <2>3, <2>4 DEF IInv
<1> QED
  BY <1>2, <1>3, <1>4

\* A round begins, ends, and goes from one candidate to the next.
LEMMA RoundPreserves ==
  ASSUME IInv,
         BeginRound \/ EndRound \/ WaitForMisses \/ CollectPending \/ NextCandidate
  PROVE  IInv'
<1> USE DEF fixed, shared, heaps, round, taken, locals
<1>1. TypeOK /\ Shape /\ Frozen /\ NearestOnceFull /\ Explored /\ BeamLosesOnlyToErrors
  BY DEF IInv
<1>2. ASSUME NEW S \in SUBSET Nodes, needed' = BlocksOf(S), cache_map' = cache_map,
             SubmitPrefetch(needed') \/ UNCHANGED in_flight
      PROVE  needed' \subseteq Blocks /\ in_flight' \subseteq Blocks
  BY <1>1, <1>2, BlocksOfTyped DEF SubmitPrefetch, TypeOK
<1>3. CASE BeginRound \/ CollectPending
  <2>1. /\ pc \in {"collect", "round"} /\ pc' \in {"get", "round"}
        /\ missIdx' \subseteq missIdx /\ cache_map' = cache_map
        /\ UNCHANGED <<fixed, heaps, round, visited, beam, candidateId,
                       local_neighbors, pending, lost>>
    BY <1>3 DEF BeginRound, CollectPending
  <2>2. missIdx \in SUBSET Nodes /\ pending \in SUBSET Nodes
    BY <1>1, Typing DEF TypeOK
  <2>3. needed' \subseteq Blocks /\ in_flight' \subseteq Blocks
    BY <1>2, <1>3, <2>2 DEF BeginRound, CollectPending
  <2>4. TypeOK'
    BY <1>1, <2>1, <2>3 DEF TypeOK, PCs
  <2>5. Shape' /\ Frozen' /\ NearestOnceFull'
    BY <1>1, <2>1 DEF Shape, Searching, Frozen, NearestOnceFull
  <2>6. Explored' /\ BeamLosesOnlyToErrors'
    BY <1>1, <2>1 DEF Explored, Expanding, Ended, BeamLosesOnlyToErrors
  <2> QED
    BY <2>4, <2>5, <2>6 DEF IInv
<1>4. CASE EndRound
  <2>1. /\ pc = "round" /\ pc' = "collect"
        /\ lowerBound' = Dist[Farthest(top_candidates)]
        /\ full' = (Cardinality(top_candidates) = Ef)
        /\ UNCHANGED <<fixed, shared, heaps, visited, taken, locals, lost>>
    BY <1>4 DEF EndRound
  <2>2. /\ Farthest(top_candidates) \in top_candidates
        /\ \A m \in top_candidates : Dist[m] <= lowerBound'
    BY <1>1, <2>1, Typing, FarthestIsTop DEF Shape, Searching
  <2>3. lowerBound' \in Nat
    BY <1>1, <2>1, <2>2, Typing, SearchHeapsAssumption
  <2>4. TypeOK'
    <3>1. full' \in BOOLEAN /\ pc' \in PCs
      BY <2>1 DEF PCs
    <3> QED
      BY <1>1, <2>1, <2>3, <3>1 DEF TypeOK
  <2>5. Shape' /\ NearestOnceFull'
    BY <1>1, <2>1 DEF Shape, Searching, NearestOnceFull
  <2>6. Frozen'
    <3>1. settled' # {} => full'
      BY <1>1, <2>1 DEF Frozen
    <3> QED
      BY <2>1, <2>2, <3>1 DEF Frozen
  <2>7. Explored' /\ BeamLosesOnlyToErrors'
    BY <1>1, <2>1 DEF Explored, Expanding, Ended, BeamLosesOnlyToErrors
  <2> QED
    BY <2>4, <2>5, <2>6, <2>7 DEF IInv
<1>5. CASE WaitForMisses
  <2>1. /\ pc = "round" /\ missIdx' = {}
        /\ UNCHANGED <<fixed, shared, pc, heaps, round, visited, beam, locals, lost>>
    BY <1>5 DEF WaitForMisses
  <2>2. TypeOK'
    BY <1>1, <2>1 DEF TypeOK
  <2>3. Shape' /\ Frozen' /\ NearestOnceFull'
    BY <1>1, <2>1 DEF Shape, Searching, Frozen, NearestOnceFull
  <2>4. Explored' /\ BeamLosesOnlyToErrors'
    BY <1>1, <2>1 DEF Explored, Expanding, Ended, BeamLosesOnlyToErrors
  <2> QED
    BY <2>2, <2>3, <2>4 DEF IInv
<1>6. CASE NextCandidate
  <2> DEFINE n == Nearest(beam \ missIdx)
  <2>1. /\ pc = "round" /\ pc' = "expand" /\ beam # missIdx
        /\ candidateId' = n /\ beam' = beam \ {n}
        /\ UNCHANGED <<fixed, shared, heaps, round, visited, missIdx,
                       local_neighbors, pending, needed, lost>>
    BY <1>6 DEF NextCandidate
  <2>2. n \in beam \ missIdx
    <3>1. beam \ missIdx \in SUBSET Nodes /\ beam \ missIdx # {}
      BY <1>1, <2>1, Typing DEF TypeOK
    <3> QED
      BY <3>1, NearestTyped
  <2> HIDE DEF n
  <2>3. Cardinality(beam') <= Width
    <3>1. IsFiniteSet(beam) /\ Cardinality(beam) \in Nat /\ Width \in Nat
      BY <1>1, Typing, NodesFinite, RoundSearchAssumption
    <3>2. Cardinality(beam \ {n}) = Cardinality(beam) - 1
      BY <2>2, <3>1, FS_RemoveElement
    <3> QED
      BY <1>1, <2>1, <3>1, <3>2 DEF TypeOK
  <2>4. TypeOK'
    BY <1>1, <2>1, <2>2, <2>3, Typing DEF TypeOK, PCs
  <2>5. Shape' /\ Frozen' /\ NearestOnceFull'
    BY <1>1, <2>1 DEF Shape, Searching, Frozen, NearestOnceFull
  <2>6. Explored' /\ BeamLosesOnlyToErrors'
    BY <1>1, <2>1 DEF Explored, Expanding, Ended, BeamLosesOnlyToErrors
  <2> QED
    BY <2>4, <2>5, <2>6 DEF IInv
<1> QED
  BY <1>3, <1>4, <1>5, <1>6

\* The thread waits, or loads what is needed.
LEMMA WaitsPreserve ==
  ASSUME IInv,
         \/ \E b \in Blocks : LoadNeeded(b)
         \/ BlocksGot \/ ScanEnd \/ WaitForNeighbors \/ LoadEnd
  PROVE  IInv'
<1> USE DEF fixed, shared, heaps, round, taken, locals
<1>1. TypeOK /\ Shape /\ Frozen /\ NearestOnceFull /\ Explored /\ BeamLosesOnlyToErrors
  BY DEF IInv
<1>2. ASSUME NEW b \in Blocks, LoadNeeded(b) PROVE IInv'
  <2>1. cache_map' \subseteq Blocks
    BY <1>1, <1>2, CacheTyped DEF LoadNeeded
  <2>2. /\ pc = "get" /\ needed' \subseteq needed
        /\ UNCHANGED <<fixed, in_flight, pc, heaps, round, visited, taken, candidateId,
                       local_neighbors, pending, lost>>
    BY <1>2 DEF LoadNeeded
  <2>3. TypeOK'
    BY <1>1, <2>1, <2>2 DEF TypeOK
  <2>4. Shape' /\ Frozen' /\ NearestOnceFull'
    BY <1>1, <2>2 DEF Shape, Searching, Frozen, NearestOnceFull
  <2>5. Explored' /\ BeamLosesOnlyToErrors'
    BY <1>1, <2>2 DEF Explored, Expanding, Ended, BeamLosesOnlyToErrors
  <2> QED
    BY <2>3, <2>4, <2>5 DEF IInv
<1>3. CASE BlocksGot \/ ScanEnd \/ WaitForNeighbors \/ LoadEnd
  <2>1. /\ pc \in {"get", "scan", "wait", "load"} /\ pc' \in {"round", "wait", "load"}
        /\ pc = "scan" => local_neighbors = {}
        /\ UNCHANGED <<fixed, shared, heaps, round, visited, taken, candidateId,
                       local_neighbors, pending, lost>>
    BY <1>3 DEF BlocksGot, ScanEnd, WaitForNeighbors, LoadEnd
  <2>2. needed' = needed \/ needed' = BlocksOf(pending)
    BY <1>3 DEF BlocksGot, ScanEnd, WaitForNeighbors, LoadEnd
  <2>3. needed' \subseteq Blocks
    <3>1. pending \in SUBSET Nodes /\ needed \subseteq Blocks
      BY <1>1 DEF TypeOK
    <3> QED
      BY <1>1, <2>2, <3>1, BlocksOfTyped
  <2>4. TypeOK'
    BY <1>1, <2>1, <2>3 DEF TypeOK, PCs
  <2>5. Shape' /\ Frozen' /\ NearestOnceFull'
    BY <1>1, <2>1 DEF Shape, Searching, Frozen, NearestOnceFull
  <2>6. Explored' /\ BeamLosesOnlyToErrors'
    BY <1>1, <2>1 DEF Explored, Expanding, Ended, BeamLosesOnlyToErrors
  <2> QED
    BY <2>4, <2>5, <2>6 DEF IInv
<1> QED
  BY <1>2, <1>3

\* A candidate is expanded, fetched again, or given up.
LEMMA ExpandPreserves ==
  ASSUME IInv, \/ Expand \/ Skip \/ Refetch
               \/ RefetchNeighbors \/ RefetchFindsNone \/ RefetchFails
  PROVE  IInv'
<1> USE DEF fixed, shared, heaps, round, taken, locals
<1>1. TypeOK /\ Shape /\ Frozen /\ NearestOnceFull /\ Explored /\ BeamLosesOnlyToErrors
  BY DEF IInv
<1>2. /\ candidateId \in Nodes /\ BlockOf[candidateId] \in Blocks
      /\ graph[candidateId] \subseteq Nodes
  BY <1>1, Typing DEF TypeOK
<1>3. CASE Expand \/ RefetchNeighbors
  <2>1. /\ pc \in {"expand", "neighbors"} /\ pc' = "scan"
        /\ local_neighbors' = graph[candidateId] \ visited
        /\ UNCHANGED <<fixed, heaps, round, visited, taken, candidateId, pending, needed,
                       lost>>
    BY <1>3 DEF Expand, RefetchNeighbors, Neighbours
  <2>2. cache_map' \subseteq Blocks
    BY <1>1, <1>2, <1>3, CacheTyped DEF Expand, RefetchNeighbors
  <2>3. in_flight' \subseteq Blocks
    <3>1. BlocksOf(graph[candidateId]) \subseteq Blocks /\ in_flight \subseteq Blocks
      BY <1>1, <1>2, BlocksOfTyped DEF TypeOK
    <3> QED
      BY <1>3, <3>1 DEF Expand, RefetchNeighbors, SubmitPrefetch
  <2>4. TypeOK'
    BY <1>1, <1>2, <2>1, <2>2, <2>3 DEF TypeOK, PCs
  <2>5. Shape' /\ Frozen' /\ NearestOnceFull'
    BY <1>1, <2>1 DEF Shape, Searching, Frozen, NearestOnceFull
  <2>6. Explored' /\ BeamLosesOnlyToErrors'
    BY <1>1, <2>1 DEF Explored, Expanding, Ended, BeamLosesOnlyToErrors
  <2> QED
    BY <2>4, <2>5, <2>6 DEF IInv
<1>4. CASE Skip \/ RefetchFindsNone \/ RefetchFails
  <2>1. /\ pc \in {"expand", "neighbors"} /\ pc' = "round"
        /\ lost' = lost \cup {candidateId}
        /\ UNCHANGED <<fixed, in_flight, heaps, round, visited, taken, locals>>
    BY <1>4 DEF Skip, RefetchFindsNone, RefetchFails, GiveUp
  <2>2. mode.batch \/ mode.fails \/ mode.vec_only
    BY <1>4 DEF Skip, RefetchFindsNone, RefetchFails
  <2>3. cache_map' \subseteq Blocks
    BY <1>1, <1>2, <1>4, CacheTyped DEF Skip, RefetchFindsNone, RefetchFails
  <2>4. TypeOK'
    BY <1>1, <1>2, <2>1, <2>3 DEF TypeOK, PCs
  <2>5. Shape' /\ Frozen' /\ NearestOnceFull'
    BY <1>1, <2>1 DEF Shape, Searching, Frozen, NearestOnceFull
  <2>6. Explored'
    BY <1>1, <2>1 DEF Explored, Expanding, Ended
  <2>7. BeamLosesOnlyToErrors'
    BY <1>1, <2>1, <2>2 DEF BeamLosesOnlyToErrors
  <2> QED
    BY <2>4, <2>5, <2>6, <2>7 DEF IInv
<1>5. CASE Refetch
  <2>1. /\ pc = "expand" /\ pc' = "neighbors"
        /\ UNCHANGED <<fixed, in_flight, heaps, round, visited, taken, locals, lost>>
    BY <1>5 DEF Refetch
  <2>2. cache_map' \subseteq Blocks
    BY <1>1, <1>2, <1>5, CacheTyped DEF Refetch, GetVector
  <2>3. TypeOK'
    BY <1>1, <2>1, <2>2 DEF TypeOK, PCs
  <2>4. Shape' /\ Frozen' /\ NearestOnceFull'
    BY <1>1, <2>1 DEF Shape, Searching, Frozen, NearestOnceFull
  <2>5. Explored' /\ BeamLosesOnlyToErrors'
    BY <1>1, <2>1 DEF Explored, Expanding, Ended, BeamLosesOnlyToErrors
  <2> QED
    BY <2>3, <2>4, <2>5 DEF IInv
<1> QED
  BY <1>3, <1>4, <1>5

\* Neighbours are scanned, or looked at when their blocks have been waited for.
LEMMA LookPreserves ==
  ASSUME IInv, NEW n \in Nodes, ScanNow(n) \/ ScanLater(n) \/ LoadPending(n)
  PROVE  IInv'
<1> USE DEF fixed, shared, round, taken, locals
<1>1. TypeOK /\ Shape /\ Frozen /\ NearestOnceFull /\ Explored /\ BeamLosesOnlyToErrors
  BY DEF IInv
<1>2. /\ UNCHANGED <<fixed, shared, pc, round, taken, candidateId, needed, lost>>
      /\ pc \in {"scan", "load"}
  BY DEF ScanNow, ScanLater, Take, LoadPending
<1>3. /\ visited' = visited \/ visited' = visited \cup {n}
      /\ local_neighbors' \subseteq local_neighbors
      /\ local_neighbors \cup visited \subseteq local_neighbors' \cup visited'
      /\ local_neighbors' \cap visited' = {}
  BY <1>1 DEF Shape, ScanNow, ScanLater, Take, LoadPending
<1>4. CASE heaps' = heaps
  <2> USE DEF heaps
  <2>1. pending' \subseteq visited' \ seen'
    BY <1>1, <1>3, <1>4 DEF TypeOK, Shape, ScanNow, Consider, ScanLater, LoadPending, Take
  <2>2. TypeOK'
    BY <1>1, <1>2, <1>3, <1>4, <2>1 DEF TypeOK
  <2>3. Shape' /\ Frozen' /\ NearestOnceFull'
    BY <1>1, <1>2, <1>3, <1>4 DEF Shape, Searching, Frozen, NearestOnceFull
  <2>4. Explored'
    BY <1>1, <1>2, <1>3, <1>4 DEF Explored, Expanding, Ended
  <2>5. BeamLosesOnlyToErrors'
    <3>1. mode.pq => visited' = seen'
      BY <1>1, <1>4, <2>1
      DEF BeamLosesOnlyToErrors, TypeOK, ScanNow, Consider, ScanLater, LoadPending, Take
    <3> QED
      BY <1>1, <1>2, <3>1 DEF BeamLosesOnlyToErrors
  <2> QED
    BY <2>2, <2>3, <2>4, <2>5 DEF IInv
<1>5. CASE Consider(n) /\ (ScanNow(n) \/ LoadPending(n))
  <2>1. n \in Nodes \ seen /\ n \in visited'
    BY <1>1, <1>5 DEF TypeOK, Shape, ScanNow, LoadPending, Take
  <2>2. /\ seen' = seen \cup {n}
        /\ settled' \subseteq settled \cup {n}
        /\ candidate_set' \subseteq candidate_set \cup {n}
        /\ candidate_set \subseteq candidate_set'
        /\ top_candidates' \subseteq top_candidates \cup {n}
        /\ top_candidates # {} => top_candidates' # {}
        /\ n \in top_candidates' => n \in candidate_set'
        /\ settled' # {} => full
        /\ full => /\ Cardinality(top_candidates') = Ef
                   /\ \A m \in top_candidates' : Dist[m] <= lowerBound
        /\ NearestOnceFull'
    BY <1>1, <1>5, <2>1, ConsiderHeaps
  <2>3. pending' \subseteq visited' \ seen'
    BY <1>1, <1>3, <1>5, <2>2 DEF TypeOK, Shape, ScanNow, LoadPending, Take
  <2>4. TypeOK'
    BY <1>1, <1>2, <1>3, <2>1, <2>2, <2>3 DEF TypeOK
  <2>5. Shape'
    BY <1>1, <1>2, <1>3, <2>2 DEF Shape, Searching
  <2>6. Frozen'
    BY <1>2, <2>2 DEF Frozen
  <2>7. Explored'
    BY <1>1, <1>2, <1>3, <2>2 DEF Explored, Expanding, Ended
  <2>8. BeamLosesOnlyToErrors'
    <3>1. mode.pq => visited' = seen'
      BY <1>1, <1>5, <2>1, <2>2
      DEF BeamLosesOnlyToErrors, TypeOK, ScanNow, LoadPending, Take
    <3> QED
      BY <1>1, <1>2, <3>1 DEF BeamLosesOnlyToErrors
  <2> QED
    BY <2>2, <2>4, <2>5, <2>6, <2>7, <2>8 DEF IInv
<1> QED
  BY <1>4, <1>5 DEF ScanNow, ScanLater, LoadPending

LEMMA NextPreserves ==
  ASSUME IInv, [Next]_vars
  PROVE  IInv'
<1>1. CASE UNCHANGED vars
  <2>1. cache_map' \subseteq Blocks /\ in_flight' \subseteq Blocks
    BY <1>1 DEF vars, shared, IInv, TypeOK
  <2> QED
    BY <1>1, <2>1, SharedOnly DEF vars
<1>2. CASE (\E b \in Blocks : Arrive(b)) \/ OtherThread
  BY <1>2, AroundPreserves
<1>3. CASE Search
  BY <1>3, EntryPreserves, CollectPreserves, RoundPreserves, WaitsPreserve,
     ExpandPreserves, LookPreserves DEF Search
<1> QED
  BY <1>1, <1>2, <1>3 DEF Next

LEMMA SearchInvariant == Spec => []IInv
<1>1. Init => IInv
  BY InitIInv
<1>2. IInv /\ [Next]_vars => IInv'
  BY NextPreserves
<1> QED
  BY <1>1, <1>2, PTL DEF Spec

-----------------------------------------------------------------------------
(* The theorems.                                                           *)

\* Every variable of a search by rounds stays in its domain: rounds have no more
\* candidates than their width, and what waits for its block has been marked and
\* not been looked at.
THEOREM RoundTypes == Spec => []TypeOK
<1>1. IInv => TypeOK
  BY DEF IInv
<1> QED
  BY <1>1, SearchInvariant, PTL

\* Freezing the bound costs nothing once the result is full, for every ef, every
\* width and every graph.
THEOREM FrozenBoundIsSafeOnceFull == Spec => []NearestOnceFull
<1>1. IInv => NearestOnceFull
  BY DEF IInv
<1> QED
  BY <1>1, SearchInvariant, PTL

\* What the search has not looked behind it has thrown away, in a round cut short
\* or with a block that could not be had, and with PQ distances nothing else.
THEOREM LossesAreKnown == Spec => []LossesAreAccountedFor
<1>1. IInv => LossesAreAccountedFor
  <2> SUFFICES ASSUME IInv PROVE LossesAreAccountedFor
    OBVIOUS
  <2>1. UnexploredResultsWereDropped
    BY DEF IInv, Explored, Expanding, Ended, UnexploredResultsWereDropped
  <2> QED
    BY <2>1 DEF IInv, LossesAreAccountedFor
<1> QED
  BY <1>1, SearchInvariant, PTL

\* A step leaves the result alone, starts it, or inserts a node that is not in it.
LEMMA ResultSteps ==
  ASSUME IInv, [Next]_vars
  PROVE  \/ UNCHANGED top_candidates
         \/ top_candidates = {}
         \/ \E n \in Nodes \ top_candidates :
              top_candidates' = Insert(top_candidates, n)
<1> USE DEF heaps
<1>1. TypeOK /\ Shape
  BY DEF IInv
<1>2. CASE UNCHANGED vars
  BY <1>2 DEF vars
<1>3. CASE (\E b \in Blocks : Arrive(b)) \/ OtherThread
  BY <1>3 DEF Arrive, OtherThread
<1>4. CASE EntryFound \/ EntryFails
  BY <1>1, <1>4 DEF TypeOK, Shape, EntryFound, EntryFails
<1>5. CASE TakeCandidate \/ Converge \/ Exhausted \/ BeginRound \/ EndRound \/ Return
  BY <1>5 DEF TakeCandidate, Converge, Exhausted, BeginRound, EndRound, Return
<1>6. CASE \/ \E b \in Blocks : LoadNeeded(b)
           \/ BlocksGot \/ WaitForMisses \/ CollectPending \/ NextCandidate
  BY <1>6 DEF LoadNeeded, BlocksGot, WaitForMisses, CollectPending, NextCandidate
<1>7. CASE \/ Expand \/ Skip \/ Refetch
         \/ RefetchNeighbors \/ RefetchFindsNone \/ RefetchFails
  BY <1>7 DEF Expand, Skip, GiveUp, Refetch, RefetchNeighbors,
              RefetchFindsNone, RefetchFails
<1>8. CASE ScanEnd \/ WaitForNeighbors \/ LoadEnd
  BY <1>8 DEF ScanEnd, WaitForNeighbors, LoadEnd
<1>9. ASSUME NEW n \in Nodes, ScanNow(n) \/ ScanLater(n) \/ LoadPending(n)
      PROVE  \/ UNCHANGED top_candidates
             \/ top_candidates' = Insert(top_candidates, n) /\ n \notin top_candidates
  <2>1. n \notin top_candidates
    BY <1>1, <1>9 DEF TypeOK, Shape, ScanNow, ScanLater, LoadPending, Take
  <2> QED
    BY <1>9, <2>1 DEF ScanNow, ScanLater, LoadPending, Consider
<1> QED
  BY <1>2, <1>3, <1>4, <1>5, <1>6, <1>7, <1>8, <1>9 DEF Next, Search

\* A full result never gets worse, although nodes are admitted to it against a
\* bound that it may have left behind.
THEOREM ResultsOnlyImprove == Spec => ResultNeverWorsens
<1> DEFINE Improves ==
      Cardinality(top_candidates) = Ef =>
        /\ Cardinality(top_candidates') = Ef
        /\ Dist[Farthest(top_candidates')] <= Dist[Farthest(top_candidates)]
<1>1. ASSUME IInv, [Next]_vars, Cardinality(top_candidates) = Ef
      PROVE  /\ Cardinality(top_candidates') = Ef
             /\ Dist[Farthest(top_candidates')] <= Dist[Farthest(top_candidates)]
  <2> DEFINE top == top_candidates
  <2>1. top \in SUBSET Nodes /\ Ef \in Nat \ {0} /\ Dist \in [Nodes -> Nat]
    BY <1>1, Typing, SearchHeapsAssumption DEF IInv
  <2>2. top # {}
    BY <1>1, <2>1, FS_EmptySet
  <2>3. Farthest(top) \in top /\ \A m \in top : Dist[m] <= Dist[Farthest(top)]
    BY <2>1, <2>2, FarthestIsTop
  <2>4. CASE UNCHANGED top_candidates
    BY <1>1, <2>1, <2>3, <2>4
  <2>5. ASSUME NEW n \in Nodes \ top, top_candidates' = Insert(top, n)
        PROVE  /\ Cardinality(top_candidates') = Ef
               /\ Dist[Farthest(top_candidates')] <= Dist[Farthest(top)]
    <3>1. PICK far \in top \cup {n} :
            /\ top_candidates' = (top \cup {n}) \ {far}
            /\ Cardinality(top_candidates') = Ef
            /\ \A m \in top_candidates' : Dist[m] < Dist[far]
      BY <1>1, <2>1, <2>5, InsertKeepsFull
    <3>2. Farthest(top_candidates') \in top_candidates'
      <4>1. top_candidates' \in SUBSET Nodes /\ top_candidates' # {}
        BY <2>1, <2>5, <3>1, FS_EmptySet
      <4> QED
        BY <4>1, FarthestIsTop
    <3>3. \A m \in top_candidates' : Dist[m] <= Dist[Farthest(top)]
      <4>1. SUFFICES ASSUME NEW m \in top_candidates', m \notin top
                     PROVE  Dist[m] <= Dist[Farthest(top)]
        BY <2>3
      <4>2. m = n /\ far \in top
        BY <3>1, <4>1
      <4>3. Dist[m] < Dist[far] /\ Dist[far] <= Dist[Farthest(top)]
        BY <2>3, <3>1, <4>2
      <4>4. Dist[m] \in Nat /\ Dist[far] \in Nat /\ Dist[Farthest(top)] \in Nat
        BY <2>1, <2>3, <4>2
      <4> QED
        BY <4>3, <4>4
    <3> QED
      BY <3>1, <3>2, <3>3
  <2> QED
    BY <1>1, <2>2, <2>4, <2>5, ResultSteps
<1>2. IInv /\ [Next]_vars => [Improves]_vars
  BY <1>1
<1> QED
  BY <1>2, SearchInvariant, PTL DEF Spec, ResultNeverWorsens

=============================================================================
