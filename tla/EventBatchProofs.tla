--------------------------- MODULE EventBatchProofs ---------------------------
(***************************************************************************)
(* What each query of an event-driven batch returns is right, as far as it *)
(* has looked, in whatever order the blocks come in: for every number of   *)
(* queries, every graph, layout, cache and ef.                             *)
(*                                                                         *)
(* The queries share the cache and nothing else, so one invariant of one   *)
(* query (Sound) is enough.  It speaks of the query between the parts of   *)
(* its step too: of the neighbours that it has still to look at, whether   *)
(* marked before (Again) or not (Ahead), and of the one in hand.           *)
(***************************************************************************)
EXTENDS EventBatch, BestFirstProofs

\* The blocks that hold nodes.
NodeBlocks == { layout[n] : n \in Nodes }

\* The settings, and the cache and the reads: only of blocks that hold nodes.
Io ==
  /\ mode \in Modes /\ graph \in Graphs /\ layout \in Layouts
  /\ cache_map \subseteq NodeBlocks /\ Cardinality(cache_map) <= mode.slots
  /\ in_flight \subseteq NodeBlocks /\ failures \in 0 .. MaxFailures

\* Where the loop is: only a query that runs has neighbours to look at.
Loop ==
  /\ pc \in {"turn", "greedy", "retry", "scan", "idle", "wait", "extract", "done"}
  /\ i \in 1 .. NumQueries + 1
  /\ steps_this_round \in 0 .. GreedyLimit /\ todo \in Seq(Nodes)
  /\ idle_count \in 0 .. i - 1 /\ all_done \in BOOLEAN
  /\ pc \in {"greedy", "retry", "scan"} => i \in Queries
  /\ pc \in {"retry", "scan"} => /\ states[i].entryLoaded /\ ~states[i].done
                                 /\ states[i].waitingBlockId = 0
  /\ pc \notin {"retry", "scan"} => todo = <<>>

\* The heaps of a query, before and after its entry is loaded.
Heaps(s) ==
  /\ HoldsNearest(s.top_candidates, s.seen)
  /\ s.candidate_set \subseteq s.seen
  /\ IF s.entryLoaded
     THEN /\ s.top_candidates # {}
          /\ s.lowerBound = Dist[Farthest(s.top_candidates)]
     ELSE /\ s.seen = {} /\ s.visited = {} /\ s.deferred = <<>> /\ ~s.done

\* What is marked has been measured or waits in one of the two lists, or is the
\* node in hand.
Marks(s, again, hand) ==
  /\ s.visited = s.seen \cup ToSet(s.deferred) \cup ToSet(again) \cup hand
  /\ s.seen \cap hand = {}
  /\ Lists(s.deferred, (s.visited \ s.seen) \ hand)
  /\ Lists(again, (s.visited \ s.seen) \ hand)
  /\ Apart(s.deferred, again)

\* A result is still to be expanded, or its neighbours are marked or ahead.
Frontier(s, ahead) ==
  \A m \in s.top_candidates :
    \/ m \in s.candidate_set /\ ~s.done
    \/ ToSet(graph[m]) \subseteq s.visited \cup ahead

\* The block waited for.
Needs(s) ==
  IF ~s.entryLoaded THEN s.waitingBlockId = layout[s.entry]
  ELSE IF s.candidate_set # {}
       THEN s.waitingBlockId = layout[Nearest(s.candidate_set)]
       ELSE s.deferred # <<>> /\ s.waitingBlockId = layout[s.deferred[1]]

Again(q) == IF pc = "retry" /\ q = i THEN todo ELSE <<>>

Ahead(q) == IF pc = "scan" /\ q = i THEN ToSet(todo) ELSE {}

Sound(s, again, ahead) ==
  /\ s \in QueryStates
  /\ Heaps(s) /\ Marks(s, again, {}) /\ Frontier(s, ahead)
  /\ s.waitingBlockId # 0 => Needs(s)

AllSound ==
  /\ states \in [Queries -> QueryStates]
  /\ \A q \in Queries : Sound(states[q], Again(q), Ahead(q))

IInv == Io /\ Loop /\ AllSound

-----------------------------------------------------------------------------
(* Lists, as sets.                                                         *)

LEMMA AppendToSet ==
  ASSUME NEW s \in Seq(Nodes), NEW n \in Nodes
  PROVE  ToSet(Append(s, n)) = ToSet(s) \cup {n}
<1>1. /\ Len(s) \in Nat /\ DOMAIN s = 1 .. Len(s)
      /\ DOMAIN Append(s, n) = 1 .. Len(s) + 1
      /\ \A k \in 1 .. Len(s) : Append(s, n)[k] = s[k]
      /\ Append(s, n)[Len(s) + 1] = n
  OBVIOUS
<1>2. ASSUME NEW k \in 1 .. Len(s) + 1
      PROVE  k \in 1 .. Len(s) \/ k = Len(s) + 1
  BY <1>1
<1>3. ASSUME NEW k \in 1 .. Len(s)
      PROVE  k \in 1 .. Len(s) + 1
  BY <1>1
<1>4. Len(s) + 1 \in 1 .. Len(s) + 1
  BY <1>1
<1> QED
  BY <1>1, <1>2, <1>3, <1>4 DEF ToSet

LEMMA HeadAndTail ==
  ASSUME NEW s \in Seq(Nodes), s # <<>>
  PROVE  /\ Head(s) \in Nodes /\ Tail(s) \in Seq(Nodes)
         /\ ToSet(s) = {Head(s)} \cup ToSet(Tail(s))
         /\ ToSet(s) \subseteq Nodes
<1>1. /\ Len(s) \in Nat \ {0} /\ DOMAIN s = 1 .. Len(s)
      /\ Tail(s) \in Seq(Nodes) /\ Len(Tail(s)) = Len(s) - 1
      /\ DOMAIN Tail(s) = 1 .. Len(Tail(s))
      /\ \A k \in 1 .. Len(Tail(s)) : Tail(s)[k] = s[k + 1]
      /\ Head(s) = s[1] /\ 1 \in 1 .. Len(s)
      /\ \A k \in 1 .. Len(s) : s[k] \in Nodes
  OBVIOUS
<1>2. ASSUME NEW k \in 1 .. Len(s)
      PROVE  k = 1 \/ (k - 1 \in 1 .. Len(Tail(s)) /\ Tail(s)[k - 1] = s[k])
  BY <1>1
<1>3. ASSUME NEW k \in 1 .. Len(Tail(s))
      PROVE  k + 1 \in 1 .. Len(s)
  BY <1>1
<1>4. ASSUME NEW n \in ToSet(s)
      PROVE  n = Head(s) \/ n \in ToSet(Tail(s))
  <2>1. PICK k \in 1 .. Len(s) : n = s[k]
    BY <1>1 DEF ToSet
  <2>2. CASE k - 1 \in 1 .. Len(Tail(s)) /\ Tail(s)[k - 1] = s[k]
    BY <1>1, <2>1, <2>2 DEF ToSet
  <2> QED
    BY <1>1, <1>2, <2>1, <2>2
<1>5. ToSet(Tail(s)) \subseteq ToSet(s)
  BY <1>1, <1>3 DEF ToSet
<1>6. Head(s) \in ToSet(s)
  BY <1>1 DEF ToSet
<1>7. ToSet(s) \subseteq Nodes
  BY <1>1 DEF ToSet
<1> QED
  BY <1>1, <1>4, <1>5, <1>6, <1>7

LEMMA JoinedToSet ==
  ASSUME NEW s \in Seq(Nodes), NEW t \in Seq(Nodes)
  PROVE  ToSet(s \o t) = ToSet(s) \cup ToSet(t)
<1>1. /\ Len(s) \in Nat /\ Len(t) \in Nat
      /\ DOMAIN s = 1 .. Len(s) /\ DOMAIN t = 1 .. Len(t)
      /\ DOMAIN (s \o t) = 1 .. Len(s) + Len(t)
  OBVIOUS
<1>2. ASSUME NEW k \in 1 .. Len(s) + Len(t)
      PROVE  \/ k \in 1 .. Len(s) /\ (s \o t)[k] = s[k]
             \/ k - Len(s) \in 1 .. Len(t) /\ (s \o t)[k] = t[k - Len(s)]
  BY <1>1
<1>3. ASSUME NEW k \in 1 .. Len(s)
      PROVE  k \in 1 .. Len(s) + Len(t) /\ (s \o t)[k] = s[k]
  BY <1>1
<1>4. ASSUME NEW k \in 1 .. Len(t)
      PROVE  k + Len(s) \in 1 .. Len(s) + Len(t) /\ (s \o t)[k + Len(s)] = t[k]
  BY <1>1
<1>5. ToSet(s \o t) \subseteq ToSet(s) \cup ToSet(t)
  BY <1>1, <1>2 DEF ToSet
<1>6. ToSet(s) \subseteq ToSet(s \o t)
  BY <1>1, <1>3 DEF ToSet
<1>7. ToSet(t) \subseteq ToSet(s \o t)
  BY <1>1, <1>4 DEF ToSet
<1> QED
  BY <1>5, <1>6, <1>7

LEMMA EmptyToSet == ToSet(<<>>) = {}
BY DEF ToSet

LEMMA ListsToSet ==
  ASSUME NEW S, NEW s, Lists(s, S)
  PROVE  ToSet(s) \subseteq S
BY DEF Lists, ToSet

-----------------------------------------------------------------------------
(* The parts of a step of one query.                                       *)

\* The query with its entry measured.
LEMMA EnterSound ==
  ASSUME NEW s \in QueryStates, ~s.entryLoaded, Sound(s, <<>>, {}),
         s.waitingBlockId = 0
  PROVE  /\ Sound(Enter(s), <<>>, {})
         /\ Enter(s).entryLoaded /\ ~Enter(s).done /\ Enter(s).waitingBlockId = 0
<1> DEFINE t == Enter(s)
           n == s.entry
<1>1. /\ n \in Nodes /\ ~s.done /\ s.deferred = <<>> /\ s.top_candidates = {}
  BY DEF Sound, Heaps, HoldsNearest, QueryStates
<1>2. /\ t.done = s.done /\ t.waitingBlockId = 0 /\ t.entryLoaded = TRUE
      /\ t.entry = s.entry /\ t.deferred = s.deferred
      /\ t.candidate_set = {n} /\ t.top_candidates = {n} /\ t.lowerBound = Dist[n]
      /\ t.visited = {n} /\ t.seen = {n}
  BY DEF Enter, QueryStates
<1>3. t \in QueryStates
  BY <1>1, SearchHeapsAssumption DEF Enter, QueryStates
<1>4. Farthest({n}) = n
  <2>1. {n} \in SUBSET Nodes /\ {n} # {}
    BY <1>1
  <2> QED
    BY <2>1, FarthestIsTop
<1>5. HoldsNearest({n}, {n})
  <2>1. Cardinality({n}) = 1 /\ Ef \in Nat \ {0}
    BY FS_Singleton, SearchHeapsAssumption
  <2> HIDE DEF n
  <2> QED
    BY <2>1 DEF HoldsNearest
<1>6. Heaps(t)
  <2> HIDE DEF t, n
  <2> QED
    BY <1>2, <1>4, <1>5 DEF Heaps
<1>7. Marks(t, <<>>, {})
  <2>1. Lists(<<>>, ({n} \ {n}) \ {}) /\ Apart(<<>>, <<>>)
    BY EmptyLists DEF Apart
  <2> HIDE DEF t, n
  <2> QED
    BY <1>1, <1>2, <2>1, EmptyLists, EmptyToSet DEF Marks
<1>8. Frontier(t, {})
  <2> HIDE DEF t, n
  <2> QED
    BY <1>1, <1>2 DEF Frontier
<1> HIDE DEF t, n
<1>9. Sound(t, <<>>, {})
  BY <1>2, <1>3, <1>6, <1>7, <1>8 DEF Sound
<1> QED
  BY <1>1, <1>2, <1>9 DEF t

\* Measuring a node changes the heaps and what is measured, and nothing else.
LEMMA MeasureHeaps ==
  ASSUME NEW s \in QueryStates, s.entryLoaded, Heaps(s), NEW n \in Nodes \ s.seen
  PROVE  /\ Measure(s, n) \in QueryStates
         /\ Heaps(Measure(s, n))
         /\ Measure(s, n).seen = s.seen \cup {n}
         /\ Measure(s, n).visited = s.visited
         /\ Measure(s, n).deferred = s.deferred
         /\ Measure(s, n).entryLoaded = s.entryLoaded
         /\ Measure(s, n).waitingBlockId = s.waitingBlockId
         /\ Measure(s, n).done = s.done
         /\ s.candidate_set \subseteq Measure(s, n).candidate_set
         /\ Measure(s, n).top_candidates \subseteq s.top_candidates \cup {n}
         /\ n \in Measure(s, n).top_candidates => n \in Measure(s, n).candidate_set
<1> DEFINE t == Measure(s, n)
           top == s.top_candidates
<1>1. /\ s.seen \in SUBSET Nodes /\ HoldsNearest(top, s.seen)
      /\ s.candidate_set \subseteq s.seen
      /\ top \in SUBSET Nodes /\ top # {} /\ n \in Nodes \ top
      /\ s.lowerBound = Dist[Farthest(top)]
  BY DEF Heaps, HoldsNearest, QueryStates
<1>2. /\ t.seen = s.seen \cup {n} /\ t.visited = s.visited
      /\ t.deferred = s.deferred /\ t.entryLoaded = s.entryLoaded
      /\ t.waitingBlockId = s.waitingBlockId /\ t.done = s.done
      /\ t.candidate_set = IF Admits(top, s.lowerBound, n)
                           THEN s.candidate_set \cup {n} ELSE s.candidate_set
      /\ t.top_candidates = IF Admits(top, s.lowerBound, n)
                            THEN Insert(top, n) ELSE top
      /\ t.lowerBound = IF Admits(top, s.lowerBound, n)
                        THEN Dist[Farthest(Insert(top, n))] ELSE s.lowerBound
  BY DEF Measure, QueryStates
<1>3. CASE Admits(top, s.lowerBound, n)
  <2>1. Insert(top, n) \subseteq top \cup {n} /\ Insert(top, n) # {}
    <3> HIDE DEF top
    <3> QED
      BY <1>1, InsertIsSome
  <2>2. HoldsNearest(Insert(top, n), s.seen \cup {n})
    <3>1. Admits(top, Dist[Farthest(top)], n)
      BY <1>1, <1>3
    <3> HIDE DEF top
    <3> QED
      BY <1>1, <3>1, InsertHoldsNearest
  <2>3. Dist[Farthest(Insert(top, n))] \in Nat
    <3>1. Insert(top, n) \in SUBSET Nodes
      BY <1>1, <2>1
    <3>2. Farthest(Insert(top, n)) \in Nodes
      BY <2>1, <3>1, FarthestIsTop
    <3> QED
      BY <3>2, SearchHeapsAssumption
  <2>4. Insert(top, n) \in SUBSET Nodes
    BY <1>1, <2>1
  <2>5. t \in QueryStates
    BY <1>1, <1>3, <2>3, <2>4 DEF Measure, QueryStates
  <2>6. Heaps(t)
    <3> HIDE DEF t, top
    <3> QED
      BY <1>1, <1>2, <1>3, <2>1, <2>2 DEF Heaps
  <2> HIDE DEF t, top
  <2>7. /\ s.candidate_set \subseteq t.candidate_set
        /\ t.top_candidates \subseteq s.top_candidates \cup {n}
        /\ n \in t.candidate_set
    BY <1>2, <1>3, <2>1 DEF top
  <2> QED
    BY <1>2, <2>5, <2>6, <2>7 DEF t
<1>4. CASE ~Admits(top, s.lowerBound, n)
  <2>1. HoldsNearest(top, s.seen \cup {n})
    <3>1. ~Admits(top, Dist[Farthest(top)], n)
      BY <1>1, <1>4
    <3> HIDE DEF top
    <3> QED
      BY <1>1, <3>1, RejectedIsFarther
  <2>2. t \in QueryStates
    BY <1>1, <1>4 DEF Measure, QueryStates
  <2>3. Heaps(t)
    <3> HIDE DEF t, top
    <3> QED
      BY <1>1, <1>2, <1>4, <2>1 DEF Heaps
  <2> HIDE DEF t, top
  <2>4. /\ s.candidate_set \subseteq t.candidate_set
        /\ t.top_candidates \subseteq s.top_candidates \cup {n}
        /\ n \notin t.top_candidates
    BY <1>1, <1>2, <1>4 DEF top
  <2> QED
    BY <1>2, <2>2, <2>3, <2>4 DEF t
<1> QED
  BY <1>3, <1>4

\* The node in hand is measured or deferred: either way it is in its place.
LEMMA MeetSound ==
  ASSUME NEW s \in QueryStates, s.entryLoaded, ~s.done, s.waitingBlockId = 0,
         NEW n \in Nodes, NEW again, NEW ahead,
         Heaps(s), Marks(s, again, {n}), Frontier(s, ahead)
  PROVE  /\ Sound(Meet(s, n), again, ahead)
         /\ Meet(s, n).entryLoaded /\ ~Meet(s, n).done
         /\ Meet(s, n).waitingBlockId = 0
<1>1. n \in Nodes \ s.seen /\ n \in s.visited
  BY DEF Marks
<1>2. CASE Measurable(n)
  <2> DEFINE t == Measure(s, n)
  <2>1. Meet(s, n) = t
    BY <1>2 DEF Meet
  <2>2. /\ t \in QueryStates /\ Heaps(t)
        /\ t.seen = s.seen \cup {n} /\ t.visited = s.visited
        /\ t.deferred = s.deferred /\ t.entryLoaded = s.entryLoaded
        /\ t.waitingBlockId = s.waitingBlockId /\ t.done = s.done
        /\ s.candidate_set \subseteq t.candidate_set
        /\ t.top_candidates \subseteq s.top_candidates \cup {n}
        /\ n \in t.top_candidates => n \in t.candidate_set
    BY <1>1, MeasureHeaps
  <2> HIDE DEF t
  <2>3. Marks(t, again, {})
    <3>1. (t.visited \ t.seen) \ {} = (s.visited \ s.seen) \ {n}
      BY <2>2
    <3>2. t.visited = t.seen \cup ToSet(t.deferred) \cup ToSet(again) \cup {}
      BY <2>2 DEF Marks
    <3> QED
      BY <2>2, <3>1, <3>2 DEF Marks
  <2>4. Frontier(t, ahead)
    BY <2>2 DEF Frontier
  <2> QED
    BY <2>1, <2>2, <2>3, <2>4 DEF Sound
<1>3. CASE ~Measurable(n)
  <2> DEFINE t == [s EXCEPT !.deferred = Append(@, n)]
  <2>1. Meet(s, n) = t
    BY <1>3 DEF Meet
  <2>2. /\ s.deferred \in Seq(Nodes)
        /\ t.deferred = Append(s.deferred, n)
        /\ t.seen = s.seen /\ t.visited = s.visited
        /\ t.entryLoaded = s.entryLoaded /\ t.lowerBound = s.lowerBound
        /\ t.waitingBlockId = s.waitingBlockId /\ t.done = s.done
        /\ t.candidate_set = s.candidate_set
        /\ t.top_candidates = s.top_candidates
    BY DEF QueryStates
  <2>3. t \in QueryStates
    <3>1. Append(s.deferred, n) \in Seq(Nodes)
      BY <2>2
    <3> QED
      BY <3>1 DEF QueryStates
  <2> HIDE DEF t
  <2>4. Heaps(t)
    BY <2>2 DEF Heaps
  <2>5. Frontier(t, ahead)
    BY <2>2 DEF Frontier
  <2>6. Marks(t, again, {})
    <3> DEFINE S == s.visited \ s.seen
    <3>1. Lists(s.deferred, S \ {n}) /\ Lists(again, S \ {n}) /\ Apart(s.deferred, again)
      BY DEF Marks
    <3>2. n \in Nodes \cap S /\ S \ {n} \subseteq S
      BY <1>1
    <3> HIDE DEF S
    <3>3. Lists(s.deferred, S) /\ Lists(again, S)
      BY <3>1, <3>2, ListsWithin
    <3>4. /\ \A k \in 1 .. Len(s.deferred) : s.deferred[k] # n
          /\ \A k \in 1 .. Len(again) : again[k] # n
      BY <3>1 DEF Lists
    <3>5. Lists(Append(s.deferred, n), S)
      BY <3>2, <3>3, <3>4, AppendNew
    <3>6. Apart(Append(s.deferred, n), again)
      BY <3>1, <3>4, AppendApart
    <3>7. ToSet(Append(s.deferred, n)) = ToSet(s.deferred) \cup {n}
      BY <2>2, AppendToSet
    <3>8. (t.visited \ t.seen) \ {} = S
      BY <2>2 DEF S
    <3>9. t.visited = t.seen \cup ToSet(t.deferred) \cup ToSet(again) \cup {}
      BY <2>2, <3>7 DEF Marks
    <3> QED
      BY <2>2, <3>3, <3>5, <3>6, <3>8, <3>9 DEF Marks
  <2> QED
    BY <2>1, <2>2, <2>3, <2>4, <2>5, <2>6 DEF Sound
<1> QED
  BY <1>2, <1>3

-----------------------------------------------------------------------------
(* The cache and the reads.                                                *)

LEMMA Typing ==
  ASSUME Io
  PROVE  /\ graph \in [Nodes -> Seq(Nodes)] /\ layout \in [Nodes -> Blocks]
         /\ Blocks \subseteq Nat
         /\ mode \in [pq : BOOLEAN, csr : BOOLEAN, prefetch : BOOLEAN,
                      slots : Nat \ {0}, buffers : Nat \ {0}]
         /\ NodeBlocks \subseteq Blocks /\ IsFiniteSet(NodeBlocks)
<1>1. /\ graph \in [Nodes -> Seq(Nodes)] /\ layout \in [Nodes -> Blocks]
      /\ Blocks \subseteq Nat
      /\ mode \in [pq : BOOLEAN, csr : BOOLEAN, prefetch : BOOLEAN,
                   slots : Nat \ {0}, buffers : Nat \ {0}]
  BY EventBatchAssumption DEF Io
<1>2. NodeBlocks \subseteq Blocks
  BY <1>1 DEF NodeBlocks
<1>3. layout \in Surjection(Nodes, NodeBlocks)
  BY <1>1 DEF NodeBlocks, Surjection
<1>4. IsFiniteSet(NodeBlocks)
  BY <1>3, FS_Surjection, SearchHeapsAssumption
<1> QED
  BY <1>1, <1>2, <1>4

\* A set of blocks is finite.
LEMMA SomeBlocks ==
  ASSUME Io, NEW S \in SUBSET NodeBlocks
  PROVE  IsFiniteSet(S) /\ Cardinality(S) \in Nat
BY Typing, FS_Subset, FS_CardinalityType

LEMMA CachesFit ==
  ASSUME Io, NEW ok \in SUBSET NodeBlocks, NEW c \in CachesAfter(ok)
  PROVE  c \subseteq NodeBlocks /\ Cardinality(c) <= mode.slots
<1> DEFINE all == cache_map \cup ok
           full == IF Cardinality(all) < mode.slots THEN Cardinality(all) ELSE mode.slots
<1>1. all \in SUBSET NodeBlocks /\ mode.slots \in Nat
  BY Typing DEF Io
<1>2. Cardinality(all) \in Nat
  <2> HIDE DEF all
  <2> QED
    BY <1>1, SomeBlocks
<1>3. full <= mode.slots
  BY <1>1, <1>2
<1>4. c = cache_map \/ (c \in SUBSET all /\ Cardinality(c) = full)
  BY DEF CachesAfter
<1> HIDE DEF full
<1> QED
  BY <1>1, <1>3, <1>4 DEF Io

\* Whatever reads of S end, and however.
LEMMA ReadsKeepIo ==
  ASSUME Io, NEW S \in SUBSET NodeBlocks, NEW ok \in SUBSET S,
         failures' = failures + Cardinality(S \ ok), failures' <= MaxFailures,
         in_flight' = in_flight \ S, cache_map' \in CachesAfter(ok),
         UNCHANGED fixed
  PROVE  Io'
<1>1. cache_map' \subseteq NodeBlocks /\ Cardinality(cache_map') <= mode.slots
  BY CachesFit
<1>2. Cardinality(S \ ok) \in Nat
  <2>1. S \ ok \in SUBSET NodeBlocks
    OBVIOUS
  <2> QED
    BY <2>1, SomeBlocks
<1>3. failures' \in 0 .. MaxFailures
  BY <1>2, EventBatchAssumption DEF Io
<1>4. UNCHANGED <<mode, graph, layout>> /\ NodeBlocks' = NodeBlocks
  BY DEF fixed, NodeBlocks
<1> QED
  BY <1>1, <1>3, <1>4 DEF Io

LEMMA ReapKeepsIo ==
  ASSUME Io, Reap, UNCHANGED fixed
  PROVE  Io'
<1>1. PICK S \in SUBSET in_flight : ReadsEnd(S)
  BY DEF Reap
<1>2. PICK ok \in SUBSET S :
        /\ failures' = failures + Cardinality(S \ ok)
        /\ failures' <= MaxFailures
        /\ in_flight' = in_flight \ S
        /\ cache_map' \in CachesAfter(ok)
  BY <1>1 DEF ReadsEnd
<1>3. S \in SUBSET NodeBlocks
  BY DEF Io
<1> QED
  BY <1>2, <1>3, ReadsKeepIo

LEMMA SubmitKeepsIo ==
  ASSUME Io, NEW S \in SUBSET NodeBlocks, Submit(S), UNCHANGED fixed
  PROVE  Io'
<1> DEFINE due == in_flight \cup (S \ cache_map)
<1>1. due \in SUBSET NodeBlocks
  BY DEF Io
<1>2. UNCHANGED <<mode, graph, layout>> /\ NodeBlocks' = NodeBlocks
  BY DEF fixed, NodeBlocks
<1>3. CASE UNCHANGED io
  BY <1>2, <1>3 DEF Io, io
<1>4. CASE in_flight' = due /\ UNCHANGED <<cache_map, failures>>
  BY <1>1, <1>2, <1>4 DEF Io
<1>5. CASE SubmitDry(due)
  <2> HIDE DEF due
  <2>1. PICK R \in SUBSET due :
          \E ok \in SUBSET R : \E c \in CachesAfter(ok) :
            /\ failures' = failures + Cardinality(R \ ok) /\ failures' <= MaxFailures
            /\ in_flight' = due \ R
            /\ cache_map' \subseteq c
    BY <1>5 DEF SubmitDry
  <2>2. PICK ok \in SUBSET R :
          /\ failures' = failures + Cardinality(R \ ok) /\ failures' <= MaxFailures
          /\ in_flight' = due \ R
          /\ \E c \in CachesAfter(ok) : cache_map' \subseteq c
    BY <2>1
  <2>3. PICK c \in CachesAfter(ok) : cache_map' \subseteq c
    BY <2>2
  <2>4. ok \in SUBSET NodeBlocks /\ (R \ ok) \in SUBSET NodeBlocks
    BY <1>1
  <2>5. c \in SUBSET NodeBlocks /\ Cardinality(c) <= mode.slots
    BY <2>4, CachesFit
  <2>6. /\ IsFiniteSet(c) /\ Cardinality(c) \in Nat /\ Cardinality(R \ ok) \in Nat
        /\ mode.slots \in Nat
    BY <2>4, <2>5, SomeBlocks, Typing
  <2>7. Cardinality(cache_map') \in Nat /\ Cardinality(cache_map') <= Cardinality(c)
    BY <2>3, <2>6, FS_Subset, FS_CardinalityType
  <2>8. cache_map' \subseteq NodeBlocks /\ Cardinality(cache_map') <= mode.slots
    BY <2>3, <2>5, <2>6, <2>7
  <2>9. failures' \in 0 .. MaxFailures
    BY <2>2, <2>6, EventBatchAssumption DEF Io
  <2>10. in_flight' \subseteq NodeBlocks
    BY <1>1, <2>2
  <2> QED
    BY <1>2, <2>8, <2>9, <2>10 DEF Io
<1> QED
  BY <1>3, <1>4, <1>5 DEF Submit

LEMMA IoUnchanged ==
  ASSUME Io, UNCHANGED fixed, UNCHANGED io
  PROVE  Io'
BY DEF Io, NodeBlocks, fixed, io

-----------------------------------------------------------------------------
(* The queries of a batch.                                                 *)

\* One query moves: it alone has to be looked at.
LEMMA OneMoves ==
  ASSUME AllSound, i \in Queries, UNCHANGED fixed, UNCHANGED i,
         NEW s, NEW again, NEW ahead, Set(s), Sound(s, again, ahead),
         again = IF pc' = "retry" THEN todo' ELSE <<>>,
         ahead = IF pc' = "scan" THEN ToSet(todo') ELSE {}
  PROVE  AllSound'
<1>1. states' = [states EXCEPT ![i] = s] /\ s \in QueryStates
  BY DEF Set, Sound
<1>2. states' \in [Queries -> QueryStates]
  BY <1>1 DEF AllSound
<1>3. ASSUME NEW q \in Queries
      PROVE  Sound(states[q], Again(q), Ahead(q))'
  <2>1. UNCHANGED <<mode, graph, layout>>
    BY DEF fixed
  <2>2. CASE q = i
    <3>1. states'[q] = s /\ Again(q)' = again /\ Ahead(q)' = ahead
      BY <1>1, <2>2 DEF AllSound, Again, Ahead
    <3> QED
      BY <2>1, <3>1 DEF Sound, Frontier, Needs
  <2>3. CASE q # i
    <3>1. /\ states'[q] = states[q]
          /\ Again(q) = <<>> /\ Again(q)' = <<>>
          /\ Ahead(q) = {} /\ Ahead(q)' = {}
      BY <1>1, <2>3 DEF AllSound, Again, Ahead
    <3>2. Sound(states[q], <<>>, {})
      BY <3>1 DEF AllSound
    <3> QED
      BY <2>1, <3>1, <3>2 DEF Sound, Frontier, Needs
  <2> QED
    BY <2>2, <2>3
<1> QED
  BY <1>2, <1>3 DEF AllSound

\* None moves, and none is at work.
LEMMA NoneMoves ==
  ASSUME AllSound, UNCHANGED fixed, UNCHANGED states,
         \/ UNCHANGED <<pc, todo, i>>
         \/ todo = <<>> /\ todo' = <<>>
  PROVE  AllSound'
<1>1. ASSUME NEW q \in Queries
      PROVE  Sound(states[q], Again(q), Ahead(q))'
  <2>1. UNCHANGED <<mode, graph, layout>> /\ states'[q] = states[q]
    BY DEF fixed
  <2>2. Again(q)' = Again(q) /\ Ahead(q)' = Ahead(q)
    BY EmptyToSet DEF Again, Ahead
  <2>3. Sound(states[q], Again(q), Ahead(q))
    BY DEF AllSound
  <2> QED
    BY <2>1, <2>2, <2>3 DEF Sound, Frontier, Needs
<1> QED
  BY <1>1 DEF AllSound

LEMMA SoundHere ==
  ASSUME IInv, i \in Queries
  PROVE  /\ states[i] \in QueryStates
         /\ Sound(states[i], Again(i), Ahead(i))
BY DEF IInv, AllSound

\* The query whose step goes on to the candidates.
LEMMA EnteredSound ==
  ASSUME IInv, Resuming
  PROVE  /\ i \in Queries
         /\ Sound(Entered, <<>>, {})
         /\ Entered \in QueryStates
         /\ Entered.entryLoaded /\ ~Entered.done /\ Entered.waitingBlockId = 0
<1>1. /\ pc = "greedy" \/ (pc = "retry" /\ todo = <<>>)
      /\ ~states[i].done /\ states[i].waitingBlockId = 0
  BY DEF Resuming, Running
<1>2. i \in Queries
  BY <1>1 DEF IInv, Loop
<1>3. Again(i) = <<>> /\ Ahead(i) = {}
  BY <1>1 DEF Again, Ahead
<1>4. states[i] \in QueryStates /\ Sound(states[i], <<>>, {})
  BY <1>2, <1>3, SoundHere
<1>5. CASE states[i].entryLoaded
  BY <1>1, <1>2, <1>4, <1>5 DEF Entered
<1>6. CASE ~states[i].entryLoaded
  <2>1. Entered = Enter(states[i])
    BY <1>6 DEF Entered
  <2>2. /\ Sound(Enter(states[i]), <<>>, {})
        /\ Enter(states[i]).entryLoaded /\ ~Enter(states[i]).done
        /\ Enter(states[i]).waitingBlockId = 0
    BY <1>1, <1>4, <1>6, EnterSound
  <2>3. Enter(states[i]) \in QueryStates
    BY <2>2 DEF Sound
  <2> QED
    BY <1>2, <2>1, <2>2, <2>3
<1> QED
  BY <1>5, <1>6

\* A query that begins to wait keeps all that it has.
LEMMA WaitingSound ==
  ASSUME NEW s \in QueryStates, Sound(s, <<>>, {}), NEW b \in Blocks \cup {0},
         b # 0 => Needs([s EXCEPT !.waitingBlockId = b])
  PROVE  Sound([s EXCEPT !.waitingBlockId = b], <<>>, {})
<1> DEFINE t == [s EXCEPT !.waitingBlockId = b]
<1>1. /\ t.waitingBlockId = b
      /\ t.deferred = s.deferred /\ t.seen = s.seen /\ t.visited = s.visited
      /\ t.entryLoaded = s.entryLoaded /\ t.lowerBound = s.lowerBound
      /\ t.done = s.done /\ t.candidate_set = s.candidate_set
      /\ t.top_candidates = s.top_candidates /\ t.entry = s.entry
  BY DEF QueryStates
<1>2. t \in QueryStates
  BY DEF QueryStates
<1> HIDE DEF t
<1>3. Heaps(t) /\ Marks(t, <<>>, {}) /\ Frontier(t, {})
  BY <1>1 DEF Sound, Heaps, Marks, Frontier
<1>4. t.waitingBlockId # 0 => Needs(t)
  BY <1>1 DEF t
<1>5. Sound(t, <<>>, {})
  BY <1>2, <1>3, <1>4 DEF Sound
<1> QED
  BY <1>5 DEF t

\* When the search has converged, no result is still to be expanded.
LEMMA FinishSound ==
  ASSUME NEW s \in QueryStates, Sound(s, <<>>, {}), s.entryLoaded,
         s.waitingBlockId = 0, Converges(s)
  PROVE  Sound([s EXCEPT !.done = TRUE], <<>>, {})
<1> DEFINE t == [s EXCEPT !.done = TRUE]
<1>1. /\ t.waitingBlockId = 0 /\ t.done = TRUE
      /\ t.deferred = s.deferred /\ t.seen = s.seen /\ t.visited = s.visited
      /\ t.entryLoaded = s.entryLoaded /\ t.lowerBound = s.lowerBound
      /\ t.candidate_set = s.candidate_set
      /\ t.top_candidates = s.top_candidates
  BY DEF QueryStates
<1>2. t \in QueryStates
  BY DEF QueryStates
<1>3. /\ s.top_candidates \in SUBSET Nodes /\ s.candidate_set \in SUBSET Nodes
      /\ s.lowerBound = Dist[Farthest(s.top_candidates)]
      /\ Dist \in [Nodes -> Nat]
  BY SearchHeapsAssumption DEF Sound, Heaps, QueryStates
<1>4. ASSUME NEW m \in s.top_candidates, m \in s.candidate_set
      PROVE  FALSE
  <2>1. Dist[Nearest(s.candidate_set)] > s.lowerBound
    BY <1>4 DEF Converges, Converged
  <2>2. Nearest(s.candidate_set) \in Nodes /\ Dist[Nearest(s.candidate_set)] <= Dist[m]
    BY <1>3, <1>4, NearestIsTop
  <2>3. Farthest(s.top_candidates) \in Nodes
        /\ Dist[m] <= Dist[Farthest(s.top_candidates)]
    BY <1>3, <1>4, FarthestIsTop
  <2>4. m \in Nodes
    BY <1>3
  <2> QED
    BY <1>3, <2>1, <2>2, <2>3, <2>4
<1> HIDE DEF t
<1>5. Heaps(t) /\ Marks(t, <<>>, {})
  BY <1>1 DEF Sound, Heaps, Marks
<1>6. Frontier(t, {})
  BY <1>1, <1>4 DEF Sound, Frontier
<1>7. Sound(t, <<>>, {})
  BY <1>1, <1>2, <1>5, <1>6 DEF Sound
<1> QED
  BY <1>7 DEF t

\* The candidate that is expanded has its neighbours ahead.
LEMMA ExpandSound ==
  ASSUME NEW s \in QueryStates, Sound(s, <<>>, {}), s.entryLoaded,
         s.waitingBlockId = 0, NEW c
  PROVE  Sound([s EXCEPT !.candidate_set = @ \ {c}], <<>>, ToSet(graph[c]))
<1> DEFINE t == [s EXCEPT !.candidate_set = @ \ {c}]
<1>1. /\ t.waitingBlockId = 0
      /\ t.deferred = s.deferred /\ t.seen = s.seen /\ t.visited = s.visited
      /\ t.entryLoaded = s.entryLoaded /\ t.lowerBound = s.lowerBound
      /\ t.done = s.done /\ t.candidate_set = s.candidate_set \ {c}
      /\ t.top_candidates = s.top_candidates
  BY DEF QueryStates
<1>2. t \in QueryStates
  BY DEF QueryStates
<1> HIDE DEF t
<1>3. Heaps(t) /\ Marks(t, <<>>, {})
  BY <1>1 DEF Sound, Heaps, Marks
<1>4. Frontier(t, ToSet(graph[c]))
  BY <1>1 DEF Sound, Frontier
<1>5. Sound(t, <<>>, ToSet(graph[c]))
  BY <1>1, <1>2, <1>3, <1>4 DEF Sound
<1> QED
  BY <1>5 DEF t

-----------------------------------------------------------------------------
(* Each action keeps the invariant.                                        *)

\* Blocks of nodes.
LEMMA BlockOfNode ==
  ASSUME Io, NEW n \in Nodes
  PROVE  layout[n] \in NodeBlocks /\ layout[n] \in Blocks
BY Typing DEF NodeBlocks

LEMMA AwaitEntryKeeps ==
  ASSUME IInv, AwaitEntry
  PROVE  IInv'
<1> DEFINE s == states[i]
           b == layout[s.entry]
<1>1. /\ pc = "greedy" /\ Running /\ EntryMissing
      /\ steps_this_round' = steps_this_round + 1
      /\ Submit({b}) /\ Set([s EXCEPT !.waitingBlockId = b])
      /\ UNCHANGED fixed /\ UNCHANGED <<pc, todo, i, idle_count, all_done>>
  BY DEF AwaitEntry, WaitFor, round
<1>2. i \in Queries /\ Io /\ Loop /\ AllSound /\ Again(i) = <<>> /\ Ahead(i) = {}
  BY <1>1 DEF IInv, Loop, Again, Ahead
<1>3. s \in QueryStates /\ Sound(s, <<>>, {})
  BY <1>2, SoundHere
<1>4. s.entry \in Nodes
  BY <1>3 DEF QueryStates
<1>5. b \in NodeBlocks /\ b \in Blocks
  BY <1>2, <1>4, BlockOfNode
<1>6. Needs([s EXCEPT !.waitingBlockId = b])
  BY <1>1, <1>3 DEF EntryMissing, Needs, QueryStates
<1> HIDE DEF s, b
<1>7. Sound([s EXCEPT !.waitingBlockId = b], <<>>, {})
  BY <1>3, <1>5, <1>6, WaitingSound
<1>8. Io'
  BY <1>1, <1>2, <1>5, SubmitKeepsIo
<1>9. AllSound'
  <2>1. /\ <<>> = IF pc' = "retry" THEN todo' ELSE <<>>
        /\ {} = IF pc' = "scan" THEN ToSet(todo') ELSE {}
    BY <1>1
  <2> QED
    BY <1>1, <1>2, <1>7, <2>1, OneMoves
<1>10. Loop'
  <2>1. steps_this_round' \in 0 .. GreedyLimit
    BY <1>1, <1>2, EventBatchAssumption DEF Loop, Running
  <2> QED
    BY <1>1, <1>2, <2>1 DEF Loop
<1> QED
  BY <1>8, <1>9, <1>10 DEF IInv

LEMMA RetryKeeps ==
  ASSUME IInv, Retry
  PROVE  IInv'
<1> DEFINE s == states[i]
           t == [s EXCEPT !.deferred = <<>>]
<1>1. /\ pc = "greedy" /\ Running /\ s.deferred # <<>>
      /\ IF mode.prefetch THEN Reap ELSE UNCHANGED io
      /\ todo' = s.deferred /\ Set(t) /\ pc' = "retry"
      /\ UNCHANGED fixed /\ UNCHANGED <<steps_this_round, i, idle_count, all_done>>
  BY DEF Retry, round
<1>2. i \in Queries /\ Io /\ Loop /\ AllSound /\ Again(i) = <<>> /\ Ahead(i) = {}
  BY <1>1 DEF IInv, Loop, Again, Ahead
<1>3. s \in QueryStates /\ Sound(s, <<>>, {})
  BY <1>2, SoundHere
<1>4. ~s.done /\ s.waitingBlockId = 0 /\ s.entryLoaded /\ s.deferred \in Seq(Nodes)
  BY <1>1, <1>3 DEF Running, Sound, Heaps, QueryStates
<1>5. /\ t.waitingBlockId = 0 /\ t.deferred = <<>>
      /\ t.seen = s.seen /\ t.visited = s.visited
      /\ t.entryLoaded = s.entryLoaded /\ t.lowerBound = s.lowerBound
      /\ t.done = s.done /\ t.candidate_set = s.candidate_set
      /\ t.top_candidates = s.top_candidates
  BY <1>3, <1>4 DEF QueryStates
<1>6. t \in QueryStates
  <2>1. <<>> \in Seq(Nodes)
    OBVIOUS
  <2> QED
    BY <1>3, <2>1 DEF QueryStates
<1>7. Sound(t, s.deferred, {})
  <2> HIDE DEF t, s
  <2>1. Heaps(t) /\ Frontier(t, {})
    BY <1>3, <1>4, <1>5 DEF Sound, Heaps, Frontier
  <2>2. Lists(<<>>, (s.visited \ s.seen) \ {}) /\ Apart(<<>>, s.deferred)
    BY EmptyLists DEF Apart
  <2>3. Marks(t, s.deferred, {})
    BY <1>3, <1>5, <2>2, EmptyToSet DEF Sound, Marks
  <2> QED
    BY <1>5, <1>6, <2>1, <2>3 DEF Sound
<1>8. Io'
  <2>1. CASE mode.prefetch
    BY <1>1, <1>2, <2>1, ReapKeepsIo
  <2>2. CASE ~mode.prefetch
    BY <1>1, <1>2, <2>2, IoUnchanged
  <2> QED
    BY <2>1, <2>2
<1>9. AllSound'
  <2>1. /\ s.deferred = IF pc' = "retry" THEN todo' ELSE <<>>
        /\ {} = IF pc' = "scan" THEN ToSet(todo') ELSE {}
    BY <1>1
  <2>2. UNCHANGED i
    BY <1>1
  <2> HIDE DEF t, s
  <2> QED
    BY <1>1, <1>2, <1>7, <2>1, <2>2, OneMoves
<1>10. Loop'
  <2>1. states'[i] = t
    BY <1>1, <1>2 DEF Set, AllSound
  <2> HIDE DEF t
  <2> QED
    BY <1>1, <1>2, <1>4, <1>5, <2>1 DEF Loop
<1> QED
  BY <1>8, <1>9, <1>10 DEF IInv

LEMMA RetryNextKeeps ==
  ASSUME IInv, RetryNext
  PROVE  IInv'
<1> DEFINE s == states[i]
           n == Head(todo)
<1>1. /\ pc = "retry" /\ todo # <<>> /\ Set(Meet(s, n)) /\ todo' = Tail(todo)
      /\ UNCHANGED fixed /\ UNCHANGED io
      /\ UNCHANGED <<pc, steps_this_round, i, idle_count, all_done>>
  BY DEF RetryNext, round
<1>2. /\ i \in Queries /\ Io /\ Loop /\ AllSound /\ Again(i) = todo /\ Ahead(i) = {}
      /\ s.entryLoaded /\ ~s.done /\ s.waitingBlockId = 0 /\ todo \in Seq(Nodes)
  BY <1>1 DEF IInv, Loop, Again, Ahead
<1>3. s \in QueryStates /\ Sound(s, todo, {})
  BY <1>2, SoundHere
<1>4. n \in Nodes /\ ToSet(todo) = {n} \cup ToSet(Tail(todo)) /\ Tail(todo) \in Seq(Nodes)
  BY <1>1, <1>2, HeadAndTail
<1>5. Marks(s, Tail(todo), {n})
  <2> DEFINE S == s.visited \ s.seen
  <2>1. /\ Lists(s.deferred, S) /\ Lists(todo, S) /\ Apart(s.deferred, todo)
        /\ s.visited = s.seen \cup ToSet(s.deferred) \cup ToSet(todo)
    <3>1. (s.visited \ s.seen) \ {} = S
      OBVIOUS
    <3> QED
      BY <1>3, <3>1 DEF Sound, Marks
  <2>2. /\ n \in Nodes \cap S /\ Lists(Tail(todo), S \ {n})
        /\ \A k \in 1 .. Len(Tail(todo)) : \E l \in 1 .. Len(todo) : Tail(todo)[k] = todo[l]
    <3> HIDE DEF S
    <3>1. /\ Head(todo) \in Nodes \cap S /\ Lists(Tail(todo), S \ {Head(todo)})
          /\ \A k \in 1 .. Len(Tail(todo)) :
               \E l \in 1 .. Len(todo) : Tail(todo)[k] = todo[l]
      BY <1>1, <2>1, TailDrops
    <3> QED
      BY <3>1
  <2> HIDE DEF S
  <2>3. todo[1] = n /\ 1 \in 1 .. Len(todo)
    BY <1>1, <1>2
  <2>4. Apart(s.deferred, Tail(todo))
    BY <2>1, <2>2 DEF Apart
  <2>5. Lists(s.deferred, S \ {n})
    BY <2>1, <2>3 DEF Lists, Apart
  <2>6. s.seen \cap {n} = {}
    BY <2>2 DEF S
  <2>7. s.visited = s.seen \cup ToSet(s.deferred) \cup ToSet(Tail(todo)) \cup {n}
    BY <1>4, <2>1
  <2> QED
    BY <2>2, <2>4, <2>5, <2>6, <2>7 DEF Marks, S
<1>6. Heaps(s) /\ Frontier(s, {})
  BY <1>3 DEF Sound
<1> HIDE DEF s, n
<1>7. /\ Sound(Meet(s, n), Tail(todo), {})
      /\ Meet(s, n).entryLoaded /\ ~Meet(s, n).done /\ Meet(s, n).waitingBlockId = 0
  BY <1>2, <1>3, <1>4, <1>5, <1>6, MeetSound
<1>8. Io'
  BY <1>1, <1>2, IoUnchanged
<1>9. AllSound'
  <2>1. /\ Tail(todo) = IF pc' = "retry" THEN todo' ELSE <<>>
        /\ {} = IF pc' = "scan" THEN ToSet(todo') ELSE {}
    BY <1>1
  <2>2. UNCHANGED i
    BY <1>1
  <2> QED
    BY <1>1, <1>2, <1>7, <2>1, <2>2, OneMoves
<1>10. Loop'
  <2>1. states'[i] = Meet(s, n)
    BY <1>1, <1>2 DEF Set, AllSound
  <2> QED
    BY <1>1, <1>2, <1>4, <1>7, <2>1 DEF Loop
<1> QED
  BY <1>8, <1>9, <1>10 DEF IInv

\* What Resuming says of the loop, and of the blocks of the query.
LEMMA ResumingIs ==
  ASSUME IInv, Resuming
  PROVE  /\ Io /\ Loop /\ AllSound /\ i \in Queries
         /\ todo = <<>>
         /\ steps_this_round' = steps_this_round + 1
         /\ steps_this_round' \in 0 .. GreedyLimit
         /\ UNCHANGED fixed
         /\ UNCHANGED <<i, idle_count, all_done>>
         /\ Entered.candidate_set \in SUBSET Nodes
         /\ Entered.deferred \in Seq(Nodes)
         /\ Entered.entry \in Nodes
<1>1. i \in Queries /\ Io /\ Loop /\ AllSound
  BY EnteredSound DEF IInv
<1>2. /\ steps_this_round' = steps_this_round + 1 /\ steps_this_round < GreedyLimit
      /\ UNCHANGED fixed /\ UNCHANGED <<i, idle_count, all_done>>
      /\ pc = "greedy" \/ (pc = "retry" /\ todo = <<>>)
  BY DEF Resuming, Running, round
<1>3. steps_this_round' \in 0 .. GreedyLimit /\ todo = <<>>
  BY <1>1, <1>2, EventBatchAssumption DEF Loop
<1>4. /\ Entered.candidate_set \in SUBSET Nodes /\ Entered.deferred \in Seq(Nodes)
      /\ Entered.entry \in Nodes
  <2>1. Entered \in QueryStates
    BY EnteredSound
  <2> HIDE DEF Entered
  <2> QED
    BY <2>1 DEF QueryStates
<1> QED
  BY <1>1, <1>2, <1>3, <1>4

\* A step that ends with the query in the state s, which is sound.
LEMMA StepEndsKeeps ==
  ASSUME IInv, Resuming, NEW s, Set(s), Sound(s, <<>>, {}), StepEnds, Io'
  PROVE  IInv'
<1>1. /\ Loop /\ AllSound /\ i \in Queries /\ todo = <<>>
      /\ steps_this_round' \in 0 .. GreedyLimit
      /\ UNCHANGED fixed /\ UNCHANGED <<i, idle_count, all_done>>
  BY ResumingIs
<1>2. pc' = "greedy" /\ todo' = <<>>
  BY <1>1 DEF StepEnds
<1>3. AllSound'
  <2>1. /\ <<>> = IF pc' = "retry" THEN todo' ELSE <<>>
        /\ {} = IF pc' = "scan" THEN ToSet(todo') ELSE {}
    BY <1>2
  <2>2. UNCHANGED i
    BY <1>1
  <2> QED
    BY <1>1, <2>1, <2>2, OneMoves
<1>4. Loop'
  BY <1>1, <1>2 DEF Loop
<1> QED
  BY <1>3, <1>4 DEF IInv

LEMMA FinishKeeps ==
  ASSUME IInv, Finish
  PROVE  IInv'
<1>1. Resuming /\ Converges(Entered) /\ Set([Entered EXCEPT !.done = TRUE])
      /\ StepEnds /\ UNCHANGED io
  BY DEF Finish
<1>2. Sound([Entered EXCEPT !.done = TRUE], <<>>, {})
  BY <1>1, EnteredSound, FinishSound
<1>3. Io'
  BY <1>1, ResumingIs, IoUnchanged
<1> QED
  BY <1>1, <1>2, <1>3, StepEndsKeeps

\* A step that ends with the query waiting for a block it needs.
LEMMA AwaitKeeps ==
  ASSUME IInv, Resuming, NEW n \in Nodes, NEW S \in SUBSET NodeBlocks, Submit(S),
         WaitFor(Entered, layout[n]), StepEnds,
         Needs([Entered EXCEPT !.waitingBlockId = layout[n]])
  PROVE  IInv'
<1>1. Io /\ UNCHANGED fixed
  BY ResumingIs
<1>2. layout[n] \in Blocks
  BY <1>1, BlockOfNode
<1>3. Sound([Entered EXCEPT !.waitingBlockId = layout[n]], <<>>, {})
  BY <1>2, EnteredSound, WaitingSound
<1>4. Io'
  BY <1>1, SubmitKeepsIo
<1> QED
  BY <1>3, <1>4, StepEndsKeeps DEF WaitFor

LEMMA AwaitDeferredKeeps ==
  ASSUME IInv, AwaitDeferred
  PROVE  IInv'
<1> DEFINE n == Entered.deferred[1]
           S == { layout[m] : m \in ToSet(Entered.deferred) }
<1>1. /\ Resuming /\ Entered.candidate_set = {} /\ Entered.deferred # <<>>
      /\ Submit(S) /\ WaitFor(Entered, layout[n]) /\ StepEnds
  BY DEF AwaitDeferred
<1>2. Entered.deferred \in Seq(Nodes) /\ Io
  BY <1>1, ResumingIs
<1>3. n \in Nodes /\ ToSet(Entered.deferred) \subseteq Nodes
  BY <1>1, <1>2, HeadAndTail
<1>4. S \in SUBSET NodeBlocks
  BY <1>3 DEF NodeBlocks
<1>5. Needs([Entered EXCEPT !.waitingBlockId = layout[n]])
  <2>1. Entered \in QueryStates /\ Entered.entryLoaded
    BY <1>1, EnteredSound
  <2> HIDE DEF Entered
  <2> QED
    BY <1>1, <2>1 DEF Needs, QueryStates
<1> HIDE DEF n, S
<1> QED
  BY <1>1, <1>3, <1>4, <1>5, AwaitKeeps

\* The candidate is a node.
LEMMA CandidateIsNode ==
  ASSUME IInv, Expanding
  PROVE  Resuming /\ Entered.candidate_set # {} /\ Candidate \in Nodes
<1>1. Resuming /\ Entered.candidate_set # {}
  BY DEF Expanding
<1>2. Entered.candidate_set \in SUBSET Nodes
  BY <1>1, ResumingIs
<1>3. Nearest(Entered.candidate_set) \in Entered.candidate_set
  BY <1>1, <1>2, NearestIsTop
<1> QED
  BY <1>1, <1>2, <1>3 DEF Candidate

LEMMA AwaitCandidateKeeps ==
  ASSUME IInv, AwaitCandidate
  PROVE  IInv'
<1>1. /\ Expanding /\ Submit({layout[Candidate]})
      /\ WaitFor(Entered, layout[Candidate]) /\ StepEnds
  BY DEF AwaitCandidate
<1>2. Resuming /\ Entered.candidate_set # {} /\ Candidate \in Nodes
  BY <1>1, CandidateIsNode
<1>3. {layout[Candidate]} \in SUBSET NodeBlocks
  BY <1>2, ResumingIs, BlockOfNode
<1>4. Needs([Entered EXCEPT !.waitingBlockId = layout[Candidate]])
  <2>1. Entered \in QueryStates /\ Entered.entryLoaded
    BY <1>2, EnteredSound
  <2>2. Candidate = Nearest(Entered.candidate_set)
    BY DEF Candidate
  <2> HIDE DEF Entered
  <2> QED
    BY <1>2, <2>1, <2>2 DEF Needs, QueryStates
<1> QED
  BY <1>1, <1>2, <1>3, <1>4, AwaitKeeps

LEMMA NeighboursAreNodes ==
  ASSUME Io, NEW n \in Nodes
  PROVE  graph[n] \in Seq(Nodes) /\ ToSet(graph[n]) \subseteq Nodes
<1>1. graph[n] \in Seq(Nodes)
  BY Typing
<1>2. CASE graph[n] = <<>>
  BY <1>1, <1>2, EmptyToSet
<1>3. CASE graph[n] # <<>>
  BY <1>1, <1>3, HeadAndTail
<1> QED
  BY <1>1, <1>2, <1>3

LEMMA AheadAreBlocks ==
  ASSUME IInv, Expanding
  PROVE  BlocksAhead \in SUBSET NodeBlocks
<1>1. Candidate \in Nodes /\ Io
  BY CandidateIsNode, ResumingIs
<1> DEFINE near == { n \in ToSet(graph[Candidate]) : layout[n] # layout[Candidate] }
           missing == { n \in near : mode.csr /\ layout[n] \notin cache_map }
           ahead == near \cup UNION { ToSet(graph[n]) : n \in missing }
<1>2. near \subseteq Nodes /\ missing \subseteq Nodes
  BY <1>1, NeighboursAreNodes
<1>3. \A n \in Nodes : ToSet(graph[n]) \subseteq Nodes
  BY <1>1, NeighboursAreNodes
<1>4. ahead \subseteq Nodes
  <2> HIDE DEF near, missing
  <2> QED
    BY <1>2, <1>3
<1>5. BlocksAhead = { layout[n] : n \in ahead } \ {layout[Candidate]}
  BY DEF BlocksAhead
<1> HIDE DEF ahead
<1> QED
  BY <1>4, <1>5 DEF NodeBlocks

LEMMA ExpandKeeps ==
  ASSUME IInv, Expand
  PROVE  IInv'
<1> DEFINE t == [Entered EXCEPT !.candidate_set = @ \ {Candidate}]
<1>1. /\ Expanding /\ Submit(BlocksAhead) /\ Set(t)
      /\ todo' = graph[Candidate] /\ pc' = "scan"
  BY DEF Expand
<1>2. Resuming /\ Candidate \in Nodes
  BY <1>1, CandidateIsNode
<1>3. /\ Io /\ Loop /\ AllSound /\ i \in Queries
      /\ steps_this_round' \in 0 .. GreedyLimit
      /\ UNCHANGED fixed /\ UNCHANGED <<i, idle_count, all_done>>
  BY <1>2, ResumingIs
<1>4. /\ Entered \in QueryStates /\ Entered.entryLoaded /\ ~Entered.done
      /\ Entered.waitingBlockId = 0 /\ Sound(Entered, <<>>, {})
  BY <1>2, EnteredSound
<1>5. Sound(t, <<>>, ToSet(graph[Candidate]))
  <2> HIDE DEF Entered, Candidate
  <2> QED
    BY <1>4, ExpandSound
<1>6. t.entryLoaded /\ ~t.done /\ t.waitingBlockId = 0
  <2> HIDE DEF Entered, Candidate
  <2> QED
    BY <1>4 DEF QueryStates
<1> HIDE DEF t
<1>7. graph[Candidate] \in Seq(Nodes)
  BY <1>2, <1>3, NeighboursAreNodes
<1>8. Io'
  BY <1>1, <1>3, AheadAreBlocks, SubmitKeepsIo
<1>9. AllSound'
  <2>1. /\ <<>> = IF pc' = "retry" THEN todo' ELSE <<>>
        /\ ToSet(graph[Candidate]) = IF pc' = "scan" THEN ToSet(todo') ELSE {}
    BY <1>1
  <2>2. UNCHANGED i
    BY <1>3
  <2> QED
    BY <1>1, <1>3, <1>5, <2>1, <2>2, OneMoves
<1>10. Loop'
  <2>1. states'[i] = t
    BY <1>1, <1>3 DEF Set, AllSound
  <2> QED
    BY <1>1, <1>3, <1>6, <1>7, <2>1 DEF Loop
<1> QED
  BY <1>8, <1>9, <1>10 DEF IInv

\* A neighbour that comes up is no longer ahead: it is marked, or was before.
LEMMA ScanNextSound ==
  ASSUME NEW s \in QueryStates, s.entryLoaded, ~s.done, s.waitingBlockId = 0,
         NEW n \in Nodes, NEW ahead, Sound(s, <<>>, {n} \cup ahead)
  PROVE  LET r == IF n \in s.visited THEN s
                  ELSE Meet([s EXCEPT !.visited = @ \cup {n}], n)
         IN  /\ Sound(r, <<>>, ahead)
             /\ r.entryLoaded /\ ~r.done /\ r.waitingBlockId = 0
<1>1. CASE n \in s.visited
  <2>1. Frontier(s, ahead)
    BY <1>1 DEF Sound, Frontier
  <2>2. Sound(s, <<>>, ahead)
    BY <2>1 DEF Sound
  <2> QED
    BY <1>1, <2>2
<1>2. CASE n \notin s.visited
  <2> DEFINE t == [s EXCEPT !.visited = @ \cup {n}]
  <2>1. /\ t.waitingBlockId = 0 /\ t.visited = s.visited \cup {n}
        /\ t.deferred = s.deferred /\ t.seen = s.seen
        /\ t.entryLoaded = s.entryLoaded /\ t.lowerBound = s.lowerBound
        /\ t.done = s.done /\ t.candidate_set = s.candidate_set
        /\ t.top_candidates = s.top_candidates
    BY DEF QueryStates
  <2>2. t \in QueryStates
    BY DEF QueryStates
  <2>3. Meet([s EXCEPT !.visited = @ \cup {n}], n) = Meet(t, n)
    OBVIOUS
  <2> HIDE DEF t
  <2>4. Heaps(t) /\ Frontier(t, ahead)
    BY <2>1 DEF Sound, Heaps, Frontier
  <2>5. s.seen \subseteq s.visited
    BY DEF Sound, Marks
  <2>6. Marks(t, <<>>, {n})
    <3>1. (t.visited \ t.seen) \ {n} = (s.visited \ s.seen) \ {}
      BY <1>2, <2>1, <2>5
    <3>2. t.visited = t.seen \cup ToSet(t.deferred) \cup ToSet(<<>>) \cup {n}
      BY <2>1 DEF Sound, Marks
    <3>3. t.seen \cap {n} = {}
      BY <1>2, <2>1, <2>5
    <3> QED
      BY <2>1, <3>1, <3>2, <3>3 DEF Sound, Marks
  <2>7. /\ Sound(Meet(t, n), <<>>, ahead)
        /\ Meet(t, n).entryLoaded /\ ~Meet(t, n).done
        /\ Meet(t, n).waitingBlockId = 0
    BY <2>1, <2>2, <2>4, <2>6, MeetSound
  <2> QED
    BY <1>2, <2>3, <2>7
<1> QED
  BY <1>1, <1>2

LEMMA ScanNextKeeps ==
  ASSUME IInv, ScanNext
  PROVE  IInv'
<1> DEFINE s == states[i]
           n == Head(todo)
           r == IF n \in s.visited THEN s ELSE Meet([s EXCEPT !.visited = @ \cup {n}], n)
<1>1. /\ pc = "scan" /\ todo # <<>> /\ todo' = Tail(todo)
      /\ IF n \in s.visited THEN UNCHANGED states
         ELSE Set(Meet([s EXCEPT !.visited = @ \cup {n}], n))
      /\ UNCHANGED fixed /\ UNCHANGED io
      /\ UNCHANGED <<pc, steps_this_round, i, idle_count, all_done>>
  BY DEF ScanNext, round
<1>2. /\ i \in Queries /\ Io /\ Loop /\ AllSound /\ Again(i) = <<>>
      /\ Ahead(i) = ToSet(todo)
      /\ s.entryLoaded /\ ~s.done /\ s.waitingBlockId = 0 /\ todo \in Seq(Nodes)
  BY <1>1 DEF IInv, Loop, Again, Ahead
<1>3. s \in QueryStates /\ Sound(s, <<>>, ToSet(todo))
  BY <1>2, SoundHere
<1>4. n \in Nodes /\ ToSet(todo) = {n} \cup ToSet(Tail(todo)) /\ Tail(todo) \in Seq(Nodes)
  BY <1>1, <1>2, HeadAndTail
<1>5. Sound(s, <<>>, {n} \cup ToSet(Tail(todo)))
  BY <1>3, <1>4
<1>6. Set(r)
  <2>1. CASE n \in s.visited
    <3>1. states = [states EXCEPT ![i] = s]
      BY <1>2 DEF AllSound
    <3> QED
      BY <1>1, <2>1, <3>1 DEF Set
  <2>2. CASE n \notin s.visited
    BY <1>1, <2>2
  <2> QED
    BY <2>1, <2>2
<1>7. /\ Sound(r, <<>>, ToSet(Tail(todo)))
      /\ r.entryLoaded /\ ~r.done /\ r.waitingBlockId = 0
  <2> HIDE DEF s, n
  <2> QED
    BY <1>2, <1>3, <1>4, <1>5, ScanNextSound
<1> HIDE DEF s, n, r
<1>8. Io'
  BY <1>1, <1>2, IoUnchanged
<1>9. AllSound'
  <2>1. /\ <<>> = IF pc' = "retry" THEN todo' ELSE <<>>
        /\ ToSet(Tail(todo)) = IF pc' = "scan" THEN ToSet(todo') ELSE {}
    BY <1>1
  <2>2. UNCHANGED i
    BY <1>1
  <2> QED
    BY <1>1, <1>2, <1>6, <1>7, <2>1, <2>2, OneMoves
<1>10. Loop'
  <2>1. states'[i] = r
    BY <1>2, <1>6 DEF Set, AllSound
  <2> QED
    BY <1>1, <1>2, <1>4, <1>7, <2>1 DEF Loop
<1> QED
  BY <1>8, <1>9, <1>10 DEF IInv

\* The actions that leave the queries and the reads as they are.
LEMMA QuietKeeps ==
  ASSUME IInv, ScanEnd \/ SkipDone \/ SkipWaiting \/ Yield \/ RoundEnds \/ Extract
  PROVE  IInv'
<1>1. Io /\ Loop /\ AllSound /\ NumQueries \in Nat \ {0}
  BY EventBatchAssumption DEF IInv
<1>2. UNCHANGED fixed /\ UNCHANGED io /\ UNCHANGED states /\ UNCHANGED todo
  BY DEF ScanEnd, SkipDone, SkipWaiting, Yield, RoundEnds, Extract, NextRound
<1>3. todo = <<>> /\ todo' = <<>>
  <2>1. todo = <<>>
    BY <1>1 DEF ScanEnd, SkipDone, SkipWaiting, Yield, RoundEnds, Extract, Loop
  <2> QED
    BY <1>2, <2>1
<1>4. Io'
  BY <1>1, <1>2, IoUnchanged
<1>5. AllSound'
  BY <1>1, <1>2, <1>3, NoneMoves
<1>6. /\ i \in 1 .. NumQueries + 1 /\ idle_count \in 0 .. i - 1
      /\ idle_count + 1 \in 0 .. (i + 1) - 1 /\ idle_count \in 0 .. (i + 1) - 1
      /\ 0 \in 0 .. 1 - 1 /\ 1 \in 1 .. NumQueries + 1
      /\ i <= NumQueries => i + 1 \in 1 .. NumQueries + 1
  BY <1>1 DEF Loop
<1>7. Loop'
  <2>1. CASE ScanEnd
    BY <1>1, <1>2, <1>3, <2>1 DEF ScanEnd, Loop, round
  <2>2. CASE SkipDone
    BY <1>1, <1>2, <1>3, <1>6, <2>2 DEF SkipDone, Loop
  <2>3. CASE SkipWaiting
    <3>1. /\ pc = "turn" /\ pc' = "turn" /\ i <= NumQueries
          /\ i' = i + 1 /\ idle_count' = idle_count + 1 /\ all_done' = FALSE
          /\ UNCHANGED steps_this_round
      BY <2>3 DEF SkipWaiting
    <3> QED
      BY <1>1, <1>3, <1>6, <3>1 DEF Loop
  <2>4. CASE Yield
    <3>1. /\ pc = "greedy" /\ pc' = "turn" /\ i' = i + 1
          /\ idle_count' = idle_count + 1 \/ idle_count' = idle_count
          /\ UNCHANGED <<steps_this_round, all_done>>
      BY <2>4 DEF Yield
    <3>2. i <= NumQueries
      BY <1>1, <3>1 DEF Loop, Queries
    <3> QED
      BY <1>1, <1>3, <1>6, <3>1, <3>2 DEF Loop
  <2>5. CASE RoundEnds
    BY <1>1, <1>2, <1>3, <1>6, <2>5 DEF RoundEnds, NextRound, Loop, round
  <2>6. CASE Extract
    BY <1>1, <1>2, <1>3, <2>6 DEF Extract, Loop, round
  <2> QED
    BY <2>1, <2>2, <2>3, <2>4, <2>5, <2>6
<1> QED
  BY <1>4, <1>5, <1>7 DEF IInv

\* A query that no longer waits keeps all that it has.
LEMMA ReadySound ==
  ASSUME NEW s \in QueryStates, Sound(s, <<>>, {})
  PROVE  Sound([s EXCEPT !.waitingBlockId = 0], <<>>, {})
BY WaitingSound

LEMMA ResumeKeeps ==
  ASSUME IInv, Resume
  PROVE  IInv'
<1> DEFINE s == states[i]
           t == [s EXCEPT !.waitingBlockId = 0]
<1>1. /\ pc = "turn" /\ pc' = "greedy" /\ i <= NumQueries /\ Set(t)
      /\ all_done' = FALSE /\ steps_this_round' = 0
      /\ UNCHANGED fixed /\ UNCHANGED io /\ UNCHANGED <<todo, i, idle_count>>
  BY DEF Resume
<1>2. /\ Io /\ Loop /\ AllSound /\ i \in Queries /\ todo = <<>>
      /\ Again(i) = <<>> /\ Ahead(i) = {}
  BY <1>1, EventBatchAssumption DEF IInv, Loop, Queries, Again, Ahead
<1>3. s \in QueryStates /\ Sound(s, <<>>, {})
  BY <1>2, SoundHere
<1> HIDE DEF s
<1>4. Sound(t, <<>>, {})
  BY <1>3, ReadySound
<1> HIDE DEF t
<1>5. Io'
  BY <1>1, <1>2, IoUnchanged
<1>6. AllSound'
  <2>1. /\ <<>> = IF pc' = "retry" THEN todo' ELSE <<>>
        /\ {} = IF pc' = "scan" THEN ToSet(todo') ELSE {}
    BY <1>1
  <2>2. UNCHANGED i
    BY <1>1
  <2> QED
    BY <1>1, <1>2, <1>4, <2>1, <2>2, OneMoves
<1>7. Loop'
  <2>1. 0 \in 0 .. GreedyLimit
    BY EventBatchAssumption
  <2>2. todo' = <<>> /\ UNCHANGED i /\ UNCHANGED idle_count
    BY <1>1, <1>2
  <2> QED
    BY <1>1, <1>2, <2>1, <2>2 DEF Loop
<1> QED
  BY <1>5, <1>6, <1>7 DEF IInv

\* The loop goes round again, or on to the wait.
LEMMA TurnsKeepLoop ==
  ASSUME Loop, pc \in {"idle", "wait"},
         \/ pc' = "turn" /\ NextRound
         \/ pc' = "wait" /\ UNCHANGED <<steps_this_round, todo, round>>
  PROVE  Loop' /\ todo = <<>> /\ todo' = <<>>
<1>1. todo = <<>> /\ todo' = <<>> /\ 1 \in 1 .. NumQueries + 1 /\ 0 \in 0 .. 1 - 1
  BY EventBatchAssumption DEF Loop, NextRound
<1> QED
  BY <1>1 DEF Loop, NextRound, round

LEMMA IdleKeeps ==
  ASSUME IInv, Idle
  PROVE  IInv'
<1>1. /\ pc = "idle" /\ UNCHANGED fixed
      /\ IF mode.prefetch THEN Reap ELSE UNCHANGED io
      /\ \/ pc' = "turn" /\ NextRound
         \/ pc' = "wait" /\ UNCHANGED <<steps_this_round, todo, round>>
  BY DEF Idle
<1>2. Io /\ Loop /\ AllSound
  BY DEF IInv
<1>3. Loop' /\ todo = <<>> /\ todo' = <<>>
  BY <1>1, <1>2, TurnsKeepLoop
<1>4. Io'
  <2>1. CASE mode.prefetch
    BY <1>1, <1>2, <2>1, ReapKeepsIo
  <2>2. CASE ~mode.prefetch
    BY <1>1, <1>2, <2>2, IoUnchanged
  <2> QED
    BY <2>1, <2>2
<1>5. AllSound'
  <2>1. PICK ready \in SUBSET Queries :
          states' = [q \in Queries |->
                       IF q \in ready THEN [states[q] EXCEPT !.waitingBlockId = 0]
                                      ELSE states[q]]
    <3>1. Waiting \subseteq Queries
      BY DEF Waiting
    <3> QED
      BY <3>1 DEF Idle
  <2>2. ASSUME NEW q \in Queries
        PROVE  states'[q] \in QueryStates /\ Sound(states'[q], <<>>, {})
    <3>1. Again(q) = <<>> /\ Ahead(q) = {}
      BY <1>3, EmptyToSet DEF Again, Ahead
    <3>2. states[q] \in QueryStates /\ Sound(states[q], <<>>, {})
      BY <1>2, <3>1 DEF AllSound
    <3>3. CASE q \in ready
      <4>1. states'[q] = [states[q] EXCEPT !.waitingBlockId = 0]
        BY <2>1, <3>3
      <4>2. Sound([states[q] EXCEPT !.waitingBlockId = 0], <<>>, {})
        BY <3>2, ReadySound
      <4>3. Sound(states'[q], <<>>, {})
        BY <4>1, <4>2
      <4> QED
        BY <4>3 DEF Sound
    <3>4. CASE q \notin ready
      BY <2>1, <3>2, <3>4
    <3> QED
      BY <3>3, <3>4
  <2>3. ASSUME NEW q \in Queries
        PROVE  Sound(states[q], Again(q), Ahead(q))'
    <3>1. Again(q)' = <<>> /\ Ahead(q)' = {}
      BY <1>3, EmptyToSet DEF Again, Ahead
    <3>2. UNCHANGED <<mode, graph, layout>>
      BY <1>1 DEF fixed
    <3> QED
      BY <2>2, <3>1, <3>2 DEF Sound, Frontier, Needs
  <2>4. states' \in [Queries -> QueryStates]
    BY <2>1, <2>2
  <2> QED
    BY <2>3, <2>4 DEF AllSound
<1> QED
  BY <1>3, <1>4, <1>5 DEF IInv

\* The blocks waited for are blocks of nodes.
LEMMA NeededAreBlocks ==
  ASSUME IInv, NEW q \in Waiting
  PROVE  states[q].waitingBlockId \in NodeBlocks
<1> DEFINE s == states[q]
<1>1. q \in Queries /\ s.waitingBlockId # 0
  BY DEF Waiting
<1>2. s \in QueryStates /\ Needs(s) /\ Heaps(s) /\ Io
  BY <1>1 DEF IInv, AllSound, Sound
<1>3. /\ s.entry \in Nodes /\ s.candidate_set \in SUBSET Nodes
      /\ s.deferred \in Seq(Nodes)
  BY <1>2 DEF QueryStates
<1> HIDE DEF s
<1>4. \E n \in Nodes : s.waitingBlockId = layout[n]
  <2>1. CASE ~s.entryLoaded
    BY <1>2, <1>3, <2>1 DEF Needs
  <2>2. CASE s.entryLoaded /\ s.candidate_set # {}
    <3>1. Nearest(s.candidate_set) \in s.candidate_set
      BY <1>3, <2>2, NearestIsTop
    <3>2. Nearest(s.candidate_set) \in Nodes
      BY <1>3, <3>1
    <3>3. s.waitingBlockId = layout[Nearest(s.candidate_set)]
      BY <1>2, <2>2 DEF Needs
    <3> QED
      BY <3>2, <3>3
  <2>3. CASE s.entryLoaded /\ s.candidate_set = {}
    <3>1. s.deferred # <<>> /\ s.waitingBlockId = layout[s.deferred[1]]
      BY <1>2, <2>3 DEF Needs
    <3>2. s.deferred[1] \in Nodes
      BY <1>3, <3>1
    <3> QED
      BY <3>1, <3>2
  <2> QED
    BY <2>1, <2>2, <2>3
<1>5. s.waitingBlockId \in NodeBlocks
  BY <1>2, <1>4, BlockOfNode
<1> QED
  BY <1>5 DEF s

LEMMA WaitForReadsKeeps ==
  ASSUME IInv, WaitForReads
  PROVE  IInv'
<1>1. /\ pc = "wait" /\ pc' = "turn" /\ NextRound
      /\ UNCHANGED fixed /\ UNCHANGED states
  BY DEF WaitForReads
<1>2. Io /\ Loop /\ AllSound
  BY DEF IInv
<1>3. Loop' /\ todo = <<>> /\ todo' = <<>>
  BY <1>1, <1>2, TurnsKeepLoop
<1>4. PICK more \in SUBSET (in_flight \ Needed) :
        \E ok \in SUBSET (Needed \cup more) :
          /\ failures' = failures + Cardinality((Needed \cup more) \ ok)
          /\ failures' <= MaxFailures
          /\ in_flight' = in_flight \ (Needed \cup more)
          /\ cache_map' \in CachesAfter(ok)
  BY DEF WaitForReads
<1>5. PICK ok \in SUBSET (Needed \cup more) :
        /\ failures' = failures + Cardinality((Needed \cup more) \ ok)
        /\ failures' <= MaxFailures
        /\ in_flight' = in_flight \ (Needed \cup more)
        /\ cache_map' \in CachesAfter(ok)
  BY <1>4
<1>6. Needed \cup more \in SUBSET NodeBlocks
  BY <1>2, NeededAreBlocks DEF Needed, Io
<1>7. Io'
  <2> HIDE DEF Needed
  <2> QED
    BY <1>1, <1>2, <1>5, <1>6, ReadsKeepIo
<1>8. AllSound'
  BY <1>1, <1>2, <1>3, NoneMoves
<1> QED
  BY <1>3, <1>7, <1>8 DEF IInv

LEMMA LoadFirstKeeps ==
  ASSUME IInv, LoadFirst
  PROVE  IInv'
<1>1. /\ pc = "wait" /\ pc' = "turn" /\ NextRound
      /\ UNCHANGED fixed /\ UNCHANGED states /\ UNCHANGED in_flight
  BY DEF LoadFirst
<1>2. Io /\ Loop /\ AllSound
  BY DEF IInv
<1>3. Loop' /\ todo = <<>> /\ todo' = <<>>
  BY <1>1, <1>2, TurnsKeepLoop
<1>4. PICK q \in Waiting :
        \/ cache_map' \in CachesAfter({states[q].waitingBlockId}) /\ UNCHANGED failures
        \/ /\ failures < MaxFailures /\ failures' = failures + 1
           /\ IF Cardinality(cache_map) < mode.slots
              THEN UNCHANGED cache_map
              ELSE \E v \in cache_map : cache_map' = cache_map \ {v}
  BY DEF LoadFirst
<1>5. {states[q].waitingBlockId} \in SUBSET NodeBlocks
  BY NeededAreBlocks
<1>6. /\ cache_map' \subseteq NodeBlocks /\ Cardinality(cache_map') <= mode.slots
      /\ failures' \in 0 .. MaxFailures
  <2>1. CASE cache_map' \in CachesAfter({states[q].waitingBlockId}) /\ UNCHANGED failures
    <3>1. failures' \in 0 .. MaxFailures
      BY <1>2, <2>1 DEF Io
    <3> QED
      BY <1>2, <1>5, <2>1, <3>1, CachesFit
  <2>2. CASE /\ failures < MaxFailures /\ failures' = failures + 1
             /\ IF Cardinality(cache_map) < mode.slots
                THEN UNCHANGED cache_map
                ELSE \E v \in cache_map : cache_map' = cache_map \ {v}
    <3>1. failures' \in 0 .. MaxFailures
      BY <1>2, <2>2, EventBatchAssumption DEF Io
    <3>2. cache_map' \subseteq cache_map
      BY <2>2
    <3>3. /\ cache_map \in SUBSET NodeBlocks /\ Cardinality(cache_map) <= mode.slots
          /\ mode.slots \in Nat
      BY <1>2, Typing DEF Io
    <3>4. IsFiniteSet(cache_map) /\ Cardinality(cache_map) \in Nat
      BY <1>2, <3>3, SomeBlocks
    <3>5. Cardinality(cache_map') \in Nat /\ Cardinality(cache_map') <= Cardinality(cache_map)
      BY <3>2, <3>4, FS_Subset, FS_CardinalityType
    <3> QED
      BY <3>1, <3>2, <3>3, <3>4, <3>5
  <2> QED
    BY <1>4, <2>1, <2>2
<1>7. Io'
  <2>1. UNCHANGED <<mode, graph, layout>> /\ NodeBlocks' = NodeBlocks
    BY <1>1 DEF fixed, NodeBlocks
  <2> QED
    BY <1>1, <1>2, <1>6, <2>1 DEF Io
<1>8. AllSound'
  BY <1>1, <1>2, <1>3, NoneMoves
<1> QED
  BY <1>3, <1>7, <1>8 DEF IInv

LEMMA StutterKeeps ==
  ASSUME IInv, UNCHANGED vars
  PROVE  IInv'
<1>1. /\ UNCHANGED fixed /\ UNCHANGED io /\ UNCHANGED states
      /\ UNCHANGED <<pc, todo, i>>
      /\ UNCHANGED <<pc, steps_this_round, todo, i, idle_count, all_done>>
  BY DEF vars, loop, round
<1>2. Io /\ Loop /\ AllSound
  BY DEF IInv
<1>3. Io' /\ AllSound'
  BY <1>1, <1>2, IoUnchanged, NoneMoves
<1>4. Loop'
  BY <1>1, <1>2 DEF Loop
<1> QED
  BY <1>3, <1>4 DEF IInv

LEMMA NextIInv == IInv /\ [Next]_vars => IInv'
BY AwaitEntryKeeps, RetryKeeps, RetryNextKeeps, FinishKeeps, AwaitDeferredKeeps,
   AwaitCandidateKeeps, ExpandKeeps, ScanNextKeeps, QuietKeeps, ResumeKeeps,
   IdleKeeps, WaitForReadsKeeps, LoadFirstKeeps, StutterKeeps
   DEF Next

-----------------------------------------------------------------------------
(* At the start.                                                           *)

LEMMA InitIInv == Init => IInv
<1> SUFFICES ASSUME Init PROVE IInv
  OBVIOUS
<1>1. Cardinality({}) = 0 /\ Ef \in Nat \ {0}
  BY FS_EmptySet, SearchHeapsAssumption
<1>2. mode \in Modes /\ graph \in Graphs /\ layout \in Layouts
  BY DEF Init
<1>3. mode.slots \in Nat
  BY <1>2, EventBatchAssumption
<1>4. Io
  BY <1>1, <1>2, <1>3, EventBatchAssumption DEF Init, Io
<1>5. Loop
  BY EventBatchAssumption DEF Init, Loop
<1>6. PICK e \in Entries : states = [q \in Queries |-> InitQueryState(e[q])]
  BY DEF Init
<1>7. ASSUME NEW q \in Queries
      PROVE  states[q] \in QueryStates /\ Sound(states[q], Again(q), Ahead(q))
  <2> DEFINE s == states[q]
  <2>1. e[q] \in Nodes /\ s = InitQueryState(e[q])
    BY <1>6, EventBatchAssumption
  <2>2. /\ s.done = FALSE /\ s.waitingBlockId = 0 /\ s.entryLoaded = FALSE
        /\ s.candidate_set = {} /\ s.top_candidates = {} /\ s.visited = {}
        /\ s.deferred = <<>> /\ s.seen = {}
    BY <2>1 DEF InitQueryState
  <2>3. s \in QueryStates
    <3>1. <<>> \in Seq(Nodes) /\ 0 \in Nat
      OBVIOUS
    <3> QED
      BY <2>1, <3>1 DEF InitQueryState, QueryStates
  <2>4. Again(q) = <<>> /\ Ahead(q) = {}
    BY DEF Init, Again, Ahead
  <2> HIDE DEF s
  <2>5. Heaps(s)
    BY <1>1, <2>2 DEF Heaps, HoldsNearest
  <2>6. Marks(s, <<>>, {})
    <3>1. Apart(<<>>, <<>>)
      BY DEF Apart
    <3> QED
      BY <2>2, <3>1, EmptyLists, EmptyToSet DEF Marks
  <2>7. Frontier(s, {})
    BY <2>2 DEF Frontier
  <2>8. Sound(s, <<>>, {})
    BY <2>2, <2>3, <2>5, <2>6, <2>7 DEF Sound
  <2> QED
    BY <2>3, <2>4, <2>8 DEF s
<1>8. AllSound
  <2>1. states \in [Queries -> QueryStates]
    BY <1>6, <1>7
  <2> QED
    BY <1>7, <2>1 DEF AllSound
<1> QED
  BY <1>4, <1>5, <1>8 DEF IInv

-----------------------------------------------------------------------------
(* The theorems.                                                           *)

THEOREM InvariantHolds == Spec => []IInv
BY InitIInv, NextIInv, PTL DEF Spec

\* Every variable stays in its domain and the cache within its capacity; the
\* result of each query holds the nearest nodes that it has measured, and when it
\* is done all neighbours of its results have been marked.
THEOREM BatchIsRight == Spec => []ResultIsRight
<1>1. IInv => ResultIsRight
  <2> SUFFICES ASSUME IInv PROVE ResultIsRight
    OBVIOUS
  <2>1. Io /\ Loop /\ AllSound
    BY DEF IInv
  <2>2. TypeOK
    <3>1. cache_map \subseteq Blocks /\ in_flight \subseteq Blocks
      BY <2>1, Typing DEF Io
    <3>2. idle_count \in 0 .. NumQueries
      BY <2>1, EventBatchAssumption DEF Loop
    <3> QED
      BY <2>1, <3>1, <3>2 DEF TypeOK, Io, Loop, AllSound
  <2>3. TopIsNearest
    BY <2>1 DEF AllSound, Sound, Heaps, HoldsNearest, TopIsNearest
  <2>4. ASSUME NEW q \in Queries, states[q].done, NEW m \in states[q].top_candidates
        PROVE  ToSet(graph[m]) \subseteq states[q].visited
    <3>1. Ahead(q) = {}
      BY <2>1, <2>4 DEF Ahead, Loop
    <3> QED
      BY <2>1, <2>4, <3>1 DEF AllSound, Sound, Frontier
  <2>5. ResultIsExplored
    BY <2>4 DEF ResultIsExplored
  <2> QED
    BY <2>2, <2>3, <2>5 DEF ResultIsRight
<1> QED
  BY InvariantHolds, <1>1, PTL

\* However often a query is put off, each neighbour that it has marked has been
\* measured or is deferred, in one place and once.
THEOREM NoneIsLost == Spec => []MarkedIsMeasuredOrDeferred
<1>1. IInv => MarkedIsMeasuredOrDeferred
  <2> SUFFICES ASSUME IInv, NEW q \in Queries
               PROVE  LET s == states[q]
                      IN  /\ s.visited = s.seen \cup ToSet(PutOff(q))
                          /\ s.seen \cap ToSet(PutOff(q)) = {}
                          /\ IsInjective(PutOff(q))
    BY DEF MarkedIsMeasuredOrDeferred
  <2> DEFINE s == states[q]
             S == (s.visited \ s.seen) \ {}
  <2>1. /\ Lists(s.deferred, S) /\ Lists(Again(q), S) /\ Apart(s.deferred, Again(q))
        /\ s.visited = s.seen \cup ToSet(s.deferred) \cup ToSet(Again(q))
    BY DEF IInv, AllSound, Sound, Marks
  <2>2. PutOff(q) = s.deferred \o Again(q)
    <3>1. s.deferred \o <<>> = s.deferred
      BY <2>1 DEF Lists
    <3> QED
      BY <3>1 DEF PutOff, Again
  <2>3. ToSet(s.deferred \o Again(q)) = ToSet(s.deferred) \cup ToSet(Again(q))
    BY <2>1, JoinedToSet DEF Lists
  <2>4. /\ ToSet(s.deferred) \cup ToSet(Again(q)) \subseteq S
        /\ IsInjective(s.deferred \o Again(q))
    <3> HIDE DEF s, S
    <3> QED
      BY <2>1, Joined
  <2> QED
    BY <2>1, <2>2, <2>3, <2>4
<1> QED
  BY InvariantHolds, <1>1, PTL

\* A query waits for the block of its entry, of its nearest candidate or of the
\* neighbour deferred first: the one its next step looks at.
THEOREM WaitsAreNeeded == Spec => []WaitsForWhatItNeeds
<1>1. IInv => WaitsForWhatItNeeds
  BY DEF IInv, AllSound, Sound, Needs, Waiting, WaitsForWhatItNeeds
<1> QED
  BY InvariantHolds, <1>1, PTL

=============================================================================
