------------------------------ MODULE EventBatch ------------------------------
(***************************************************************************)
(* DiskHNSW::batchSearchEventDriven: one thread runs the queries of a      *)
(* batch by turns.  A query runs until a block it needs is missing, notes  *)
(* the block in waitingBlockId and yields; when all that are not done wait,*)
(* the thread reaps reads, or waits for them.                              *)
(*                                                                         *)
(* No other thread uses the cache, so it changes only where the code reaps *)
(* or loads: also where it asks for reads and has no buffer left for them. *)
(* The queries differ in where they enter the base layer; the distances    *)
(* are the same for all.                                                   *)
(***************************************************************************)
EXTENDS SearchHeaps, Sequences, SequencesExt

CONSTANTS
  NumQueries,   \* n, the queries of the batch
  Blocks,       \* the blocks of the file, numbered
  Layouts,      \* the layouts to try: the block of each node
  Graphs,       \* the graphs to search: the neighbour list of each node
  Entries,      \* the entries to try: one for each query
  Modes,        \* the settings: records of
                \*   pq        pq_enabled_
                \*   csr       has_inmem_adjacency_
                \*   prefetch  graph_prefetch_enabled_
                \*   slots     the capacity of the cache
                \*   buffers   the buffer pool of the prefetcher's ring
  GreedyLimit,  \* greedy_limit
  MaxFailures   \* bound: how many reads fail

Queries == 1 .. NumQueries

ASSUME EventBatchAssumption ==
  /\ NumQueries \in Nat \ {0} /\ GreedyLimit \in Nat \ {0}
  /\ MaxFailures \in Nat
  /\ Blocks \subseteq Nat
  /\ Layouts \subseteq [Nodes -> Blocks]
  /\ Graphs \subseteq [Nodes -> Seq(Nodes)]
  /\ Entries \subseteq [Queries -> Nodes]
  /\ Modes \subseteq [pq : BOOLEAN, csr : BOOLEAN, prefetch : BOOLEAN,
                      slots : Nat \ {0}, buffers : Nat \ {0}]

VARIABLES
  mode, graph, layout,  \* the settings, the graph, the layout: fixed
  cache_map,            \* the blocks in the cache
  in_flight,            \* the blocks the prefetcher is reading
  failures,             \* how many reads have failed
  states,               \* the QueryState of each query
  pc,                   \* where the event loop is
  i,                    \* the query whose turn it is
  steps_this_round,     \* the steps of its turn
  todo,                 \* the neighbours that its step has still to look at
  idle_count,           \* the queries of this round that wait
  all_done              \* was every query of this round done?

fixed == <<mode, graph, layout>>
io    == <<cache_map, in_flight, failures>>
round == <<i, idle_count, all_done>>
loop  == <<pc, steps_this_round, todo, round>>
vars  == <<fixed, io, states, loop>>

-----------------------------------------------------------------------------
(* Reads.                                                                  *)

\* The caches that can result when the blocks of ok are loaded, in any order and
\* evicting any blocks.
CachesAfter(ok) ==
  LET all == cache_map \cup ok
      full == IF Cardinality(all) < mode.slots THEN Cardinality(all) ELSE mode.slots
  IN  IF ok \subseteq cache_map THEN {cache_map}
      ELSE { c \in SUBSET all : /\ Cardinality(c) = full
                                /\ c \cap (ok \ cache_map) # {} }

\* The reads of S end, some of them in failure.
ReadsEnd(S) ==
  \E ok \in SUBSET S :
    /\ failures' = failures + Cardinality(S \ ok)
    /\ failures' <= MaxFailures
    /\ in_flight' = in_flight \ S
    /\ cache_map' \in CachesAfter(ok)

\* reapCompletions: whatever reads have completed.
Reap == \E S \in SUBSET in_flight : ReadsEnd(S)

\* There are more reads than buffers: some are reaped, others are made at once.  A
\* block that cannot be loaded costs a full cache another one.
SubmitDry(due) ==
  \E S \in SUBSET due : \E ok \in SUBSET S : \E c \in CachesAfter(ok) :
    /\ Cardinality(due \ S) <= mode.buffers
    /\ failures' = failures + Cardinality(S \ ok)
    /\ failures' <= MaxFailures
    /\ in_flight' = due \ S
    /\ \/ cache_map' = c
       \/ /\ S # ok /\ Cardinality(c) = mode.slots
          /\ \E v \in c : cache_map' = c \ {v}

\* submitPrefetch, on its own and after a reap.
Submit(S) ==
  LET due == in_flight \cup (S \ cache_map)
  IN  \/ ~mode.prefetch /\ UNCHANGED io
      \/ /\ mode.prefetch /\ Cardinality(due) <= mode.buffers
         /\ in_flight' = due /\ UNCHANGED <<cache_map, failures>>
      \/ mode.prefetch /\ Cardinality(due) > mode.buffers /\ SubmitDry(due)

-----------------------------------------------------------------------------
(* The state of a query.                                                   *)

InitQueryState(e) ==
  [done |-> FALSE, waitingBlockId |-> 0, entryLoaded |-> FALSE, entry |-> e,
   candidate_set |-> {}, top_candidates |-> {}, lowerBound |-> 0,
   visited |-> {}, deferred |-> <<>>, seen |-> {}]

\* The distance of n is known.
Measure(s, n) ==
  LET in == Admits(s.top_candidates, s.lowerBound, n)
      top == IF in THEN Insert(s.top_candidates, n) ELSE s.top_candidates
  IN  [s EXCEPT !.seen = @ \cup {n},
                !.candidate_set = IF in THEN @ \cup {n} ELSE @,
                !.top_candidates = top,
                !.lowerBound = IF in THEN Dist[Farthest(top)] ELSE @]

Enter(s) ==
  [s EXCEPT !.entryLoaded = TRUE,
            !.candidate_set = {s.entry}, !.top_candidates = {s.entry},
            !.lowerBound = Dist[s.entry],
            !.visited = {s.entry}, !.seen = {s.entry}]

\* The distance of n can be had without waiting.
Measurable(n) == mode.pq \/ layout[n] \in cache_map

\* A marked neighbour is measured, or deferred if its block is missing.
Meet(s, n) ==
  IF Measurable(n) THEN Measure(s, n) ELSE [s EXCEPT !.deferred = Append(@, n)]

Set(s) == states' = [states EXCEPT ![i] = s]

WaitFor(s, b) == Set([s EXCEPT !.waitingBlockId = b])

-----------------------------------------------------------------------------
(* stepQueryState.                                                         *)

\* The query whose turn it is may take a step.
Running ==
  /\ ~states[i].done /\ states[i].waitingBlockId = 0
  /\ steps_this_round < GreedyLimit

EntryMissing ==
  /\ ~states[i].entryLoaded
  /\ layout[states[i].entry] \notin cache_map

AwaitEntry ==
  /\ pc = "greedy" /\ Running /\ EntryMissing
  /\ steps_this_round' = steps_this_round + 1
  /\ Submit({layout[states[i].entry]})
  /\ WaitFor(states[i], layout[states[i].entry])
  /\ UNCHANGED <<fixed, pc, todo, round>>

\* The query, its entry loaded.
Entered == IF states[i].entryLoaded THEN states[i] ELSE Enter(states[i])

\* Phase 0: after a reap, the deferred neighbours are gone through.  Nothing else
\* runs until the step ends.
Retry ==
  /\ pc = "greedy" /\ Running
  /\ states[i].deferred # <<>>
  /\ IF mode.prefetch THEN Reap ELSE UNCHANGED io
  /\ todo' = states[i].deferred
  /\ Set([states[i] EXCEPT !.deferred = <<>>])
  /\ pc' = "retry"
  /\ UNCHANGED <<fixed, steps_this_round, round>>

\* Mutant: neighbours whose block is missing still are forgotten.
MutRetryNext ==
  /\ pc = "retry" /\ todo # <<>>
  /\ Set(IF Measurable(Head(todo)) THEN Measure(states[i], Head(todo)) ELSE states[i])
  /\ todo' = Tail(todo)
  /\ UNCHANGED <<fixed, io, pc, steps_this_round, round>>

\* One that is still missing stays deferred.
RetryNext ==
  /\ pc = "retry" /\ todo # <<>>
  /\ Set(Meet(states[i], Head(todo)))
  /\ todo' = Tail(todo)
  /\ UNCHANGED <<fixed, io, pc, steps_this_round, round>>

\* The step goes on to the candidates.
Resuming ==
  /\ \/ pc = "greedy" /\ states[i].deferred = <<>>
     \/ pc = "retry" /\ todo = <<>>
  /\ Running
  /\ steps_this_round' = steps_this_round + 1
  /\ ~EntryMissing
  /\ UNCHANGED <<fixed, round>>

\* It ends without looking at neighbours.
StepEnds == pc' = "greedy" /\ UNCHANGED todo

\* Mutant: a full result is final.
MutConverges(s) ==
  \/ s.candidate_set = {} /\ s.deferred = <<>>
  \/ s.candidate_set # {} /\ Cardinality(s.top_candidates) = Ef

\* Nothing is left, or the nearest candidate is no improvement.
Converges(s) ==
  \/ s.candidate_set = {} /\ s.deferred = <<>>
  \/ /\ s.candidate_set # {}
     /\ Converged(s.top_candidates, s.lowerBound, Nearest(s.candidate_set))

Finish ==
  /\ Resuming /\ Converges(Entered)
  /\ Set([Entered EXCEPT !.done = TRUE])
  /\ StepEnds /\ UNCHANGED io

\* No candidate, but deferred neighbours: the first one's block is waited for.
AwaitDeferred ==
  /\ Resuming
  /\ Entered.candidate_set = {} /\ Entered.deferred # <<>>
  /\ Submit({ layout[n] : n \in ToSet(Entered.deferred) })
  /\ WaitFor(Entered, layout[Entered.deferred[1]])
  /\ StepEnds

Candidate == Nearest(Entered.candidate_set)

Expanding == Resuming /\ Entered.candidate_set # {} /\ ~Converges(Entered)

\* Mutant: the candidate popped is not put back.
MutAwaitCandidate ==
  /\ Expanding /\ layout[Candidate] \notin cache_map
  /\ Submit({layout[Candidate]})
  /\ WaitFor([Entered EXCEPT !.candidate_set = @ \ {Candidate}], layout[Candidate])
  /\ StepEnds

\* The candidate's block is missing: it is put back.
AwaitCandidate ==
  /\ Expanding /\ layout[Candidate] \notin cache_map
  /\ Submit({layout[Candidate]})
  /\ WaitFor(Entered, layout[Candidate])
  /\ StepEnds

\* The blocks of the neighbours, and of the neighbours of those that are missing
\* (MULTIHOP_DEPTH 2; the code stops after eight of them).
BlocksAhead ==
  LET near == { n \in ToSet(graph[Candidate]) : layout[n] # layout[Candidate] }
      missing == { n \in near : mode.csr /\ layout[n] \notin cache_map }
  IN  { layout[n] : n \in near \cup UNION { ToSet(graph[n]) : n \in missing } }
        \ {layout[Candidate]}

Expand ==
  /\ Expanding /\ layout[Candidate] \in cache_map
  /\ Submit(BlocksAhead)
  /\ Set([Entered EXCEPT !.candidate_set = @ \ {Candidate}])
  /\ todo' = graph[Candidate]
  /\ pc' = "scan"

\* A neighbour not met before is marked and looked at.
ScanNext ==
  /\ pc = "scan" /\ todo # <<>>
  /\ IF Head(todo) \in states[i].visited
     THEN UNCHANGED states
     ELSE Set(Meet([states[i] EXCEPT !.visited = @ \cup {Head(todo)}], Head(todo)))
  /\ todo' = Tail(todo)
  /\ UNCHANGED <<fixed, io, pc, steps_this_round, round>>

ScanEnd ==
  /\ pc = "scan" /\ todo = <<>>
  /\ pc' = "greedy"
  /\ UNCHANGED <<fixed, io, states, steps_this_round, todo, round>>

-----------------------------------------------------------------------------
(* The event loop.                                                         *)

Available(q) == states[q].waitingBlockId \in cache_map

SkipDone ==
  /\ pc = "turn" /\ i <= NumQueries /\ states[i].done
  /\ i' = i + 1
  /\ UNCHANGED <<fixed, io, states, pc, steps_this_round, todo, idle_count, all_done>>

SkipWaiting ==
  /\ pc = "turn" /\ i <= NumQueries /\ ~states[i].done
  /\ states[i].waitingBlockId # 0 /\ ~Available(i)
  /\ all_done' = FALSE
  /\ idle_count' = idle_count + 1
  /\ i' = i + 1
  /\ UNCHANGED <<fixed, io, states, pc, steps_this_round, todo>>

Resume ==
  /\ pc = "turn" /\ i <= NumQueries /\ ~states[i].done
  /\ states[i].waitingBlockId # 0 => Available(i)
  /\ Set([states[i] EXCEPT !.waitingBlockId = 0])
  /\ all_done' = FALSE
  /\ steps_this_round' = 0
  /\ pc' = "greedy"
  /\ UNCHANGED <<fixed, io, todo, i, idle_count>>

Yield ==
  /\ pc = "greedy"
  /\ \/ states[i].done
     \/ states[i].waitingBlockId # 0
     \/ steps_this_round = GreedyLimit
  /\ idle_count' = IF states[i].waitingBlockId # 0 THEN idle_count + 1 ELSE idle_count
  /\ i' = i + 1
  /\ pc' = "turn"
  /\ UNCHANGED <<fixed, io, states, steps_this_round, todo, all_done>>

NextRound ==
  /\ i' = 1 /\ idle_count' = 0 /\ all_done' = TRUE
  /\ UNCHANGED <<steps_this_round, todo>>

RoundEnds ==
  /\ pc = "turn" /\ i > NumQueries
  /\ IF ~all_done /\ idle_count = 0
     THEN NextRound /\ UNCHANGED pc
     ELSE /\ pc' = IF all_done THEN "extract" ELSE "idle"
          /\ UNCHANGED <<steps_this_round, todo, round>>
  /\ UNCHANGED <<fixed, io, states>>

Waiting == { q \in Queries : ~states[q].done /\ states[q].waitingBlockId # 0 }

\* Some query waits: reads are reaped, and whoever has its block may go on.
Idle ==
  /\ pc = "idle"
  /\ IF mode.prefetch THEN Reap ELSE UNCHANGED io
  /\ LET ready == { q \in Waiting : states[q].waitingBlockId \in cache_map' }
     IN  /\ states' = [q \in Queries |->
                         IF q \in ready THEN [states[q] EXCEPT !.waitingBlockId = 0]
                                        ELSE states[q]]
         /\ IF ready = {} THEN /\ pc' = "wait"
                               /\ UNCHANGED <<steps_this_round, todo, round>>
                          ELSE pc' = "turn" /\ NextRound
  /\ UNCHANGED fixed

Needed == { states[q].waitingBlockId : q \in Waiting }

\* Mutant: the blocks waited for are reaped, not waited for.
MutWaitForReads ==
  /\ pc = "wait" /\ mode.prefetch
  /\ Reap
  /\ pc' = "turn" /\ NextRound
  /\ UNCHANGED <<fixed, states>>

\* Nobody is ready: with a prefetcher, all blocks waited for are read, now.
WaitForReads ==
  /\ pc = "wait" /\ mode.prefetch
  /\ \E more \in SUBSET (in_flight \ Needed) :
       \E ok \in SUBSET (Needed \cup more) :
         /\ failures' = failures + Cardinality((Needed \cup more) \ ok)
         /\ failures' <= MaxFailures
         /\ in_flight' = in_flight \ (Needed \cup more)
         /\ cache_map' \in CachesAfter(ok)
  /\ pc' = "turn" /\ NextRound
  /\ UNCHANGED <<fixed, states>>

\* Without one, the block of the first query that waits is loaded; a failed read
\* costs a full cache one block.
LoadFirst ==
  /\ pc = "wait" /\ ~mode.prefetch
  /\ \E q \in Waiting :
       /\ \A x \in Waiting : q <= x
       /\ \/ cache_map' \in CachesAfter({states[q].waitingBlockId})
             /\ UNCHANGED failures
          \/ /\ failures < MaxFailures /\ failures' = failures + 1
             /\ IF Cardinality(cache_map) < mode.slots
                THEN UNCHANGED cache_map
                ELSE \E v \in cache_map : cache_map' = cache_map \ {v}
  /\ pc' = "turn" /\ NextRound
  /\ UNCHANGED <<fixed, in_flight, states>>

\* The results are taken from the heaps.
Extract ==
  /\ pc = "extract"
  /\ pc' = "done"
  /\ UNCHANGED <<fixed, io, states, steps_this_round, todo, round>>

Init ==
  /\ mode \in Modes /\ graph \in Graphs /\ layout \in Layouts
  /\ cache_map = {} /\ in_flight = {} /\ failures = 0
  /\ \E e \in Entries : states = [q \in Queries |-> InitQueryState(e[q])]
  /\ pc = "turn"
  /\ i = 1 /\ steps_this_round = 0 /\ todo = <<>> /\ idle_count = 0 /\ all_done = TRUE

Next ==
  \/ AwaitEntry \/ Retry \/ RetryNext
  \/ Finish \/ AwaitDeferred \/ AwaitCandidate \/ Expand \/ ScanNext \/ ScanEnd
  \/ SkipDone \/ SkipWaiting \/ Resume \/ Yield \/ RoundEnds
  \/ Idle \/ WaitForReads \/ LoadFirst \/ Extract

Spec == Init /\ [][Next]_vars

\* The thread runs; a read that is waited for ends.
FairSpec == Spec /\ WF_vars(Next)

-----------------------------------------------------------------------------
(* Properties.                                                             *)

QueryStates ==
  [done : BOOLEAN, waitingBlockId : Blocks \cup {0}, entryLoaded : BOOLEAN,
   entry : Nodes, candidate_set : SUBSET Nodes, top_candidates : SUBSET Nodes,
   lowerBound : Nat, visited : SUBSET Nodes, deferred : Seq(Nodes),
   seen : SUBSET Nodes]

\* Every variable stays in its domain, and the cache within its capacity.
TypeOK ==
  /\ mode \in Modes /\ graph \in Graphs /\ layout \in Layouts
  /\ cache_map \subseteq Blocks /\ Cardinality(cache_map) <= mode.slots
  /\ in_flight \subseteq Blocks /\ failures \in 0 .. MaxFailures
  /\ states \in [Queries -> QueryStates]
  /\ pc \in {"turn", "greedy", "retry", "scan", "idle", "wait", "extract", "done"}
  /\ i \in 1 .. NumQueries + 1
  /\ steps_this_round \in 0 .. GreedyLimit /\ todo \in Seq(Nodes)
  /\ idle_count \in 0 .. NumQueries /\ all_done \in BOOLEAN

\* The neighbours that q has put off, those it just asks for again included.
PutOff(q) == IF pc = "retry" /\ q = i THEN states[q].deferred \o todo
                                      ELSE states[q].deferred

\* A neighbour that is marked has been measured, once, or is still deferred,
\* once: however often the query is put off, none is lost on the way.
MarkedIsMeasuredOrDeferred ==
  \A q \in Queries :
    LET s == states[q]
    IN  /\ s.visited = s.seen \cup ToSet(PutOff(q))
        /\ s.seen \cap ToSet(PutOff(q)) = {}
        /\ IsInjective(PutOff(q))

\* In whatever order blocks come in, the result holds the nearest nodes measured.
TopIsNearest ==
  \A q \in Queries :
    LET s == states[q]
    IN  /\ Cardinality(s.top_candidates) < Ef => s.top_candidates = s.seen
        /\ \A m \in s.top_candidates, n \in s.seen \ s.top_candidates :
             Dist[m] < Dist[n]

\* The neighbours of each result of a query that is done have been met.
ResultIsExplored ==
  \A q \in Queries :
    states[q].done =>
      \A m \in states[q].top_candidates : ToSet(graph[m]) \subseteq states[q].visited

\* What each query of a batch returns is right, as far as it has looked.
ResultIsRight == TypeOK /\ TopIsNearest /\ ResultIsExplored

\* A query waits only for a block that it needs for its next step: that of the
\* entry, of the nearest candidate, or of the neighbour deferred first.
WaitsForWhatItNeeds ==
  \A q \in Waiting :
    LET s == states[q]
        needs(b) ==
          IF ~s.entryLoaded THEN b = layout[s.entry]
          ELSE IF s.candidate_set # {} THEN b = layout[Nearest(s.candidate_set)]
          ELSE s.deferred # <<>> /\ b = layout[s.deferred[1]]
    IN  needs(s.waitingBlockId)

\* "waitingBlockId: 0 for none" (include/disk_hnsw.h:100): every batch returns.
BatchEnds == <>(pc = "done")

\* The batch ends if no node is in block 0 and blocks stay: with a prefetcher and
\* a cache that cannot hold the blocks waited for, a reap on behalf of one query
\* can evict the block of the other, by turns and forever.
EndsIfBlocksStay ==
  /\ \A n \in Nodes : layout[n] # 0
  /\ mode.prefetch => Cardinality({ layout[n] : n \in Nodes }) <= mode.slots
  => BatchEnds

=============================================================================
