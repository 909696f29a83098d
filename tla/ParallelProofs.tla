---------------------------- MODULE ParallelProofs ----------------------------
(***************************************************************************)
(* The two components in which threads share one structure, the prefetcher *)
(* and the builder of the graph, and what the tools and loaders make of    *)
(* that graph.                                                             *)
(*                                                                         *)
(* The bookkeeping of the prefetcher, for any number of threads, blocks    *)
(* and buffers, with failing reads and failing submissions.  Its invariant *)
(* has two halves.  RingInv is about the requests: each is in one phase    *)
(* (queued, in the kernel, completed), the pending table knows exactly     *)
(* these, and each owns its buffer.  That a queue without a capacity check *)
(* never overflows follows from it: a read needs a free buffer, and there  *)
(* are no more buffers than queue entries.  ThreadInv is about the threads *)
(* and the mutex.                                                          *)
(*                                                                         *)
(* The builder, for any points, degrees, levels and random choices.  A     *)
(* mark is greater than any before it (MarksOld), so a search starts with  *)
(* nothing marked, whatever its thread has done before.  What robust_prune *)
(* returns and that greedy_search stays in its layer hold by induction     *)
(* over the passes of their loops (StepsKeep); GraphInv follows the lists  *)
(* of a layer through its rounds, and into the graph.                      *)
(*                                                                         *)
(* The files, for any graph.  Holds says which cells of a file are those   *)
(* of a sequence; where each part of a saved graph lies follows, and what  *)
(* a loader reads there.  PipelineIsRight says of each file what it was    *)
(* made from, and of the open index what it was loaded from; the rest is   *)
(* about the tools as functions: which neighbours prune_graph may drop,    *)
(* that bfs_reorder's order is one of shortest paths, and that a descent   *)
(* over the slim graph goes the way of the builder's self-test.            *)
(***************************************************************************)
EXTENDS GraphPrefetcher, Pipeline, FiniteSetTheorems, TLAPS

RingTyped ==
  /\ sq \subseteq Reads /\ kernel \subseteq Reads
  /\ DOMAIN cq \subseteq Reads /\ cq \in [DOMAIN cq -> Outcomes]
  /\ free \subseteq Buffers
  /\ pending \subseteq Reads

PhasesDisjoint ==
  /\ sq \cap kernel = {}
  /\ sq \cap DOMAIN cq = {}
  /\ kernel \cap DOMAIN cq = {}

RingInv ==
  /\ RingTyped
  /\ PhasesDisjoint
  /\ BuffersExclusive
  /\ RequestsMatchPending
  /\ InflightExact

ThreadTyped ==
  /\ cache_map \subseteq Blocks
  /\ mutex \in Threads \cup {NOBODY}
  /\ pc \in [Threads -> PCs]
  /\ op \in [Threads -> {"block", "blocks", "all", "timed"}]
  /\ want \in [Threads -> SUBSET Blocks]
  /\ queued \in [Threads -> BOOLEAN]
  /\ auto \in [Threads -> BOOLEAN]

ThreadInv == ThreadTyped /\ OneSubmitter

IInv == RingInv /\ ThreadInv

-----------------------------------------------------------------------------
(* The requests.                                                           *)

\* There are no more pending reads than buffers in use.
LEMMA PendingBounded ==
  ASSUME RingInv
  PROVE  /\ IsFiniteSet(pending) /\ Cardinality(pending) \in Nat
         /\ IsFiniteSet(Buffers \ free)
         /\ Cardinality(pending) <= Cardinality(Buffers \ free)
<1> DEFINE f == [r \in pending |-> r.buf]
<1>1. IsFiniteSet(Buffers \ free)
  BY IoUringAssumption, FS_Difference
<1>2. f \in Injection(pending, Buffers \ free)
  <2>1. \A r \in pending : f[r] \in Buffers \ free
    BY DEF RingInv, BuffersExclusive
  <2>2. \A r, s \in pending : f[r] = f[s] => r = s
    BY DEF RingInv, BuffersExclusive
  <2> QED
    BY <2>1, <2>2 DEF Injection, IsInjective
<1>3. /\ IsFiniteSet(pending)
      /\ Cardinality(pending) <= Cardinality(Buffers \ free)
  BY <1>1, <1>2, FS_Injection
<1> QED
  BY <1>1, <1>3, FS_CardinalityType

\* The read a completion belongs to is the one that completed.
LEMMA FinishedIsCompleted ==
  ASSUME RingInv
  PROVE  Finished = DOMAIN cq
<1>1. DOMAIN cq \subseteq pending
  BY DEF RingInv, RequestsMatchPending, Outstanding
<1>2. \A r \in pending, c \in DOMAIN cq : c.block = r.block => r = c
  BY <1>1 DEF RingInv, RequestsMatchPending
<1> QED
  BY <1>1, <1>2 DEF Finished

\* A free buffer means a free entry in the submission queue.
LEMMA QueueHasRoom ==
  ASSUME RingInv, free # {}
  PROVE  Cardinality(sq) < SqEntries
<1>1. PICK u \in free : TRUE
  OBVIOUS
<1>2. IsFiniteSet(Buffers) /\ u \in Buffers
  BY <1>1, IoUringAssumption DEF RingInv, RingTyped
<1>3. /\ IsFiniteSet(Buffers \ {u})
      /\ Cardinality(Buffers \ {u}) = Cardinality(Buffers) - 1
  BY <1>2, FS_RemoveElement
<1>4. Cardinality(Buffers \ free) <= Cardinality(Buffers \ {u})
  BY <1>1, <1>3, FS_Subset
<1>5. sq \subseteq pending
  BY DEF RingInv, RequestsMatchPending, Outstanding
<1>6. IsFiniteSet(sq) /\ Cardinality(sq) <= Cardinality(pending)
  BY <1>5, PendingBounded, FS_Subset
<1>7. /\ Cardinality(sq) \in Nat /\ Cardinality(pending) \in Nat
      /\ Cardinality(Buffers) \in Nat /\ Cardinality(Buffers \ free) \in Nat
      /\ Cardinality(Buffers \ {u}) \in Nat
  BY <1>2, <1>3, <1>6, PendingBounded, FS_CardinalityType
<1>8. Cardinality(pending) <= Cardinality(Buffers \ free)
  BY PendingBounded
<1>9. SqEntries \in Nat /\ Cardinality(Buffers) <= SqEntries
  BY IoUringAssumption
<1> QED
  BY <1>3, <1>4, <1>6, <1>7, <1>8, <1>9

\* Reaping takes the completed reads out and gives their buffers back.
LEMMA ReapPreserves ==
  ASSUME RingInv, Reap
  PROVE  RingInv'
<1> DEFINE Ended == DOMAIN cq
<1>1. /\ pending' = pending \ Ended
      /\ free' = free \cup { r.buf : r \in Ended }
      /\ DOMAIN cq' = {} /\ cq' \in [DOMAIN cq' -> Outcomes]
      /\ sq' = sq /\ kernel' = kernel
      /\ inflight' = inflight - Cardinality(Ended)
  BY FinishedIsCompleted DEF Reap, ReapedAll, FreedBuffers
<1>2. Ended \subseteq pending /\ pending = sq \cup kernel \cup Ended
  BY DEF RingInv, RequestsMatchPending, Outstanding
<1>3. RingTyped' /\ PhasesDisjoint'
  BY <1>1, <1>2 DEF RingInv, RingTyped, PhasesDisjoint, Reads
<1>4. RequestsMatchPending'
  <2>1. pending' = sq' \cup kernel' \cup DOMAIN cq'
    BY <1>1, <1>2 DEF RingInv, PhasesDisjoint
  <2> QED
    BY <1>1, <2>1 DEF RingInv, RequestsMatchPending, Outstanding
<1>5. BuffersExclusive'
  <2>1. \A r, s \in pending : r.buf = s.buf => r = s
    BY DEF RingInv, BuffersExclusive
  <2>2. { r.buf : r \in pending } = Buffers \ free
    BY DEF RingInv, BuffersExclusive
  <2>3. { r.buf : r \in pending \ Ended } = Buffers \ (free \cup { r.buf : r \in Ended })
    BY <1>2, <2>1, <2>2
  <2> QED
    BY <1>1, <2>1, <2>3 DEF BuffersExclusive
<1>6. InflightExact'
  <2>1. IsFiniteSet(pending) /\ Cardinality(pending) \in Nat
    BY PendingBounded
  <2>2. Cardinality(pending \ Ended) = Cardinality(pending) - Cardinality(pending \cap Ended)
    BY <2>1, FS_Difference
  <2>3. pending \cap Ended = Ended
    BY <1>2
  <2> QED
    BY <1>1, <2>2, <2>3 DEF RingInv, InflightExact
<1> QED
  BY <1>3, <1>4, <1>5, <1>6 DEF RingInv

\* A read of a block that is not pending, into a buffer that is free.
LEMMA QueueReadPreserves ==
  ASSUME RingInv, NEW b \in Blocks, b \notin PendingBlocks, NEW buf \in free,
         NEW r, r = [block |-> b, buf |-> buf],
         sq' = sq \cup {r}, pending' = pending \cup {r}, free' = free \ {buf},
         inflight' = inflight + 1, UNCHANGED <<kernel, cq>>
  PROVE  RingInv'
<1>1. buf \in Buffers /\ r \in Reads /\ r.block = b /\ r.buf = buf
  BY DEF RingInv, RingTyped, Reads
<1>2. \A x \in pending : x.block # b
  BY DEF PendingBlocks
<1>3. r \notin pending
  BY <1>1, <1>2
<1>4. pending = sq \cup kernel \cup DOMAIN cq
  BY DEF RingInv, RequestsMatchPending, Outstanding
<1>5. RingTyped' /\ PhasesDisjoint'
  BY <1>1, <1>3, <1>4 DEF RingInv, RingTyped, PhasesDisjoint
<1>6. RequestsMatchPending'
  <2>1. pending' = sq' \cup kernel' \cup DOMAIN cq'
    BY <1>4
  <2>2. \A x, y \in pending' : x.block = y.block => x = y
    BY <1>1, <1>2 DEF RingInv, RequestsMatchPending
  <2> QED
    BY <2>1, <2>2 DEF RequestsMatchPending, Outstanding
<1>7. BuffersExclusive'
  <2>1. \A x, y \in pending : x.buf = y.buf => x = y
    BY DEF RingInv, BuffersExclusive
  <2>2. { x.buf : x \in pending } = Buffers \ free
    BY DEF RingInv, BuffersExclusive
  <2>3. \A x \in pending : x.buf # buf
    BY <2>2
  <2>4. { x.buf : x \in pending \cup {r} } = Buffers \ (free \ {buf})
    BY <1>1, <2>2
  <2>5. \A x, y \in pending' : x.buf = y.buf => x = y
    BY <1>1, <2>1, <2>3
  <2> QED
    BY <2>4, <2>5 DEF BuffersExclusive
<1>8. InflightExact'
  <2>1. Cardinality(pending \cup {r}) = Cardinality(pending) + 1
    BY <1>3, PendingBounded, FS_AddElement
  <2> QED
    BY <2>1 DEF RingInv, InflightExact
<1> QED
  BY <1>5, <1>6, <1>7, <1>8 DEF RingInv

LEMMA SubmitPreserves ==
  ASSUME RingInv, Submit, UNCHANGED <<cq, inflight, free, pending>>
  PROVE  RingInv'
<1>1. PICK q \in SUBSET sq : sq' = sq \ q /\ kernel' = kernel \cup q
  BY DEF Submit, Submittable
<1>2. Outstanding' = Outstanding
  BY <1>1 DEF Outstanding
<1>3. RingTyped' /\ PhasesDisjoint'
  BY <1>1 DEF RingInv, RingTyped, PhasesDisjoint
<1> QED
  BY <1>2, <1>3 DEF RingInv, BuffersExclusive, RequestsMatchPending, InflightExact

LEMMA CompletePreserves ==
  ASSUME RingInv, NEW r \in Reads, KernelCompletes(r), UNCHANGED pending
  PROVE  RingInv'
<1>1. PICK o \in Outcomes :
         cq' = [x \in DOMAIN cq \cup {r} |-> IF x = r THEN o ELSE cq[x]]
  BY DEF KernelCompletes
<1>2. DOMAIN cq' = DOMAIN cq \cup {r} /\ cq' \in [DOMAIN cq' -> Outcomes]
  BY <1>1 DEF RingInv, RingTyped
<1>3. /\ r \in kernel /\ kernel' = kernel \ {r}
      /\ UNCHANGED <<sq, inflight, free>>
  BY DEF KernelCompletes
<1>4. Outstanding' = Outstanding
  BY <1>2, <1>3 DEF Outstanding
<1>5. RingTyped' /\ PhasesDisjoint'
  BY <1>2, <1>3 DEF RingInv, RingTyped, PhasesDisjoint
<1> QED
  BY <1>3, <1>4, <1>5 DEF RingInv, BuffersExclusive, RequestsMatchPending,
                          InflightExact

LEMMA RingStutters ==
  ASSUME RingInv, UNCHANGED <<ring, pending>>
  PROVE  RingInv'
<1> QED
  BY DEF ring, RingInv, RingTyped, PhasesDisjoint, BuffersExclusive,
         RequestsMatchPending, Outstanding, InflightExact

LEMMA SubmitReadPreserves ==
  ASSUME RingInv, NEW t \in Threads, NEW b \in Blocks, SubmitRead(t, b)
  PROVE  RingInv'
<1>1. PICK buf \in free :
         LET r == [block |-> b, buf |-> buf]
         IN  /\ sq' \in Queued(r)
             /\ pending' = { x \in pending : x.block # b } \cup {r}
             /\ free' = free \ {buf}
  BY DEF SubmitRead
<1> DEFINE r == [block |-> b, buf |-> buf]
<1>2. sq' = sq \cup {r}
  BY <1>1, QueueHasRoom DEF Queued
<1>3. b \notin PendingBlocks /\ inflight' = inflight + 1 /\ UNCHANGED <<kernel, cq>>
  BY DEF SubmitRead
<1>4. pending' = pending \cup {r} /\ free' = free \ {buf}
  BY <1>1, <1>3 DEF PendingBlocks
<1> HIDE DEF r
<1>5. r = [block |-> b, buf |-> buf]
  BY DEF r
<1> QED
  BY <1>2, <1>3, <1>4, <1>5, QueueReadPreserves

\* With no buffer free, one of a completed read goes to the new one.
LEMMA SubmitReapReadPreserves ==
  ASSUME RingInv, NEW t \in Threads, NEW b \in Blocks, SubmitReapRead(t, b)
  PROVE  RingInv'
<1> DEFINE Ended == DOMAIN cq
           F == { d.buf : d \in Ended }
<1>1. Finished = Ended /\ FreedBuffers = F
  BY FinishedIsCompleted DEF FreedBuffers
<1>2. PICK buf \in F :
         LET r == [block |-> b, buf |-> buf]
         IN  /\ sq' \in Queued(r)
             /\ pending' = (pending \ Ended) \cup {r}
             /\ free' = F \ {buf}
  BY <1>1 DEF SubmitReapRead
<1> DEFINE r == [block |-> b, buf |-> buf]
<1>3. /\ b \notin PendingBlocks /\ free = {}
      /\ inflight' = (inflight - Cardinality(Ended)) + 1
      /\ DOMAIN cq' = {} /\ cq' \in [DOMAIN cq' -> Outcomes]
      /\ kernel' = kernel
  BY DEF SubmitReapRead
<1>4. Ended \subseteq pending /\ pending = sq \cup kernel \cup Ended
  BY DEF RingInv, RequestsMatchPending, Outstanding
<1>5. PICK d \in Ended : d.buf = buf
  BY <1>2
<1>6. /\ \A x, y \in pending : x.buf = y.buf => x = y
      /\ \A x, y \in pending : x.block = y.block => x = y
      /\ { x.buf : x \in pending } = Buffers
  BY <1>3 DEF RingInv, BuffersExclusive, RequestsMatchPending
<1>7. buf \in Buffers /\ r \in Reads /\ r.block = b /\ r.buf = buf
  BY <1>4, <1>5, <1>6 DEF Reads
<1>8. r \notin pending /\ \A x \in pending : x.block # b
  BY <1>3, <1>7 DEF PendingBlocks
<1>9. IsFiniteSet(pending) /\ Cardinality(pending) \in Nat
  BY PendingBounded
<1>10. sq' = sq \cup {r}
  <2>1. sq \subseteq pending \ {d}
    BY <1>4, <1>5 DEF RingInv, PhasesDisjoint
  <2>2. /\ Cardinality(pending \ {d}) = Cardinality(pending) - 1
        /\ IsFiniteSet(pending \ {d})
    BY <1>4, <1>5, <1>9, FS_RemoveElement
  <2>3. IsFiniteSet(sq) /\ Cardinality(sq) <= Cardinality(pending) - 1
    BY <2>1, <2>2, FS_Subset
  <2>4. Cardinality(pending) <= Cardinality(Buffers)
    <3>1. Buffers \ free = Buffers
      BY <1>3
    <3> QED
      BY <3>1, PendingBounded
  <2>5. /\ Cardinality(sq) \in Nat /\ Cardinality(Buffers) \in Nat
        /\ SqEntries \in Nat /\ Cardinality(Buffers) <= SqEntries
    BY <2>3, IoUringAssumption, FS_CardinalityType
  <2>6. Cardinality(sq) < SqEntries
    BY <1>9, <2>3, <2>4, <2>5
  <2> QED
    BY <1>2, <2>6 DEF Queued
<1>11. pending' = (pending \ Ended) \cup {r} /\ free' = F \ {buf}
  BY <1>2
<1> HIDE DEF r
<1>12. RingTyped' /\ PhasesDisjoint'
  BY <1>3, <1>4, <1>6, <1>7, <1>8, <1>10, <1>11
  DEF RingInv, RingTyped, PhasesDisjoint
<1>13. RequestsMatchPending'
  <2>1. pending' = sq' \cup kernel' \cup DOMAIN cq'
    BY <1>3, <1>4, <1>10, <1>11 DEF RingInv, PhasesDisjoint
  <2>2. \A x, y \in pending' : x.block = y.block => x = y
    BY <1>6, <1>7, <1>8, <1>11
  <2> QED
    BY <2>1, <2>2 DEF RequestsMatchPending, Outstanding
<1>14. BuffersExclusive'
  <2>1. \A x \in pending \ Ended : x.buf # buf
    BY <1>4, <1>5, <1>6
  <2>2. \A x, y \in pending' : x.buf = y.buf => x = y
    BY <1>6, <1>7, <1>11, <2>1
  <2>3. { x.buf : x \in pending \ Ended } = Buffers \ F
    BY <1>4, <1>6
  <2>4. { x.buf : x \in pending' } = (Buffers \ F) \cup {buf}
    BY <1>7, <1>11, <2>3
  <2>5. (Buffers \ F) \cup {buf} = Buffers \ (F \ {buf})
    BY <1>7
  <2> QED
    BY <1>11, <2>2, <2>4, <2>5 DEF BuffersExclusive
<1>15. InflightExact'
  <2>1. Cardinality(pending \ Ended) = Cardinality(pending) - Cardinality(pending \cap Ended)
    BY <1>9, FS_Difference
  <2>2. pending \cap Ended = Ended
    BY <1>4
  <2>3. IsFiniteSet(pending \ Ended) /\ r \notin pending \ Ended
    BY <1>8, <1>9, FS_Difference
  <2>4. Cardinality((pending \ Ended) \cup {r}) = Cardinality(pending \ Ended) + 1
    BY <2>3, FS_AddElement
  <2>5. inflight = Cardinality(pending)
    BY DEF RingInv, InflightExact
  <2> QED
    BY <1>3, <1>11, <2>1, <2>2, <2>4, <2>5 DEF InflightExact
<1> QED
  BY <1>12, <1>13, <1>14, <1>15 DEF RingInv

\* Whatever step is taken, the requests stay consistent.
LEMMA NextRing ==
  ASSUME RingInv, [Next]_vars
  PROVE  RingInv'
<1>1. ASSUME NEW t \in Threads, Begin(t) PROVE RingInv'
  <2>1. ASSUME NEW S \in Batches, NEW a \in AutoModes, StartSubmit(t, S, a)
        PROVE  RingInv'
    BY <2>1, RingStutters DEF StartSubmit
  <2>2. ASSUME NEW o, NEW S, NEW next, Start(t, o, S, next)
        PROVE  RingInv'
    BY <2>2, RingStutters DEF Start
  <2>3. ASSUME NEW b \in Blocks, LoadDirect(t, b)
        PROVE  RingInv'
    BY <2>3, RingStutters DEF LoadDirect
  <2>4. CASE FlushSubmits(t)
    BY <2>4, SubmitPreserves DEF FlushSubmits
  <2>5. CASE ReapCompletions(t)
    BY <2>5, ReapPreserves DEF ReapCompletions
  <2> QED
    BY <1>1, <2>1, <2>2, <2>3, <2>4, <2>5
    DEF Begin, WaitForBlocks, WaitForBlock, WaitForCompletions
<1>2. ASSUME NEW t \in Threads, Continue(t) PROVE RingInv'
  <2>1. ASSUME NEW b \in Blocks, SubmitSkip(t, b) \/ SubmitFallback(t, b)
        PROVE  RingInv'
    BY <2>1, RingStutters DEF SubmitSkip, SubmitFallback
  <2>2. ASSUME NEW b \in Blocks, SubmitRead(t, b)
        PROVE  RingInv'
    BY <2>2, SubmitReadPreserves
  <2>3. ASSUME NEW b \in Blocks, SubmitReapRead(t, b)
        PROVE  RingInv'
    BY <2>3, SubmitReapReadPreserves
  <2>4. CASE SubmitEnd(t)
    <3>1. UNCHANGED <<cq, inflight, free, pending>>
      BY <2>4 DEF SubmitEnd
    <3>2. CASE Submit
      BY <3>1, <3>2, SubmitPreserves
    <3>3. CASE UNCHANGED <<sq, kernel>>
      BY <3>1, <3>3, RingStutters DEF ring
    <3> QED
      BY <2>4, <3>2, <3>3 DEF SubmitEnd
  <2>5. CASE CheckPending(t) \/ CheckCached(t) \/ Check(t) \/ WaitCompletion(t)
               \/ Enter(t)
    BY <2>5, RingStutters
    DEF CheckPending, CheckCached, Check, WaitCompletion, Enter, shared
  <2>6. CASE WaitReap(t)
    BY <2>6, ReapPreserves DEF WaitReap
  <2> QED
    BY <1>2, <2>1, <2>2, <2>3, <2>4, <2>5, <2>6 DEF Continue
<1>3. ASSUME NEW r \in Reads, Complete(r) PROVE RingInv'
  BY <1>3, CompletePreserves DEF Complete
<1>4. CASE UNCHANGED vars
  BY <1>4, RingStutters DEF vars
<1> QED
  BY <1>1, <1>2, <1>3, <1>4 DEF Next

-----------------------------------------------------------------------------
(* The threads and the mutex.                                              *)

\* A thread may move between program points without the mutex.
LEMMA MovesOutsideMutex ==
  ASSUME ThreadInv, NEW t \in Threads, pc[t] # "submit",
         NEW next \in PCs, next # "submit",
         pc' = [pc EXCEPT ![t] = next], mutex' = mutex,
         cache_map' \subseteq Blocks,
         op' \in [Threads -> {"block", "blocks", "all", "timed"}],
         want' \in [Threads -> SUBSET Blocks],
         queued' \in [Threads -> BOOLEAN], auto' \in [Threads -> BOOLEAN]
  PROVE  ThreadInv'
<1> QED
  BY DEF ThreadInv, ThreadTyped, OneSubmitter

LEMMA LoadTyped ==
  ASSUME ThreadInv, NEW b \in Blocks, GetBlockById(b)
  PROVE  cache_map' \subseteq Blocks
<1>1. cache_map \subseteq Blocks
  BY DEF ThreadInv, ThreadTyped
<1> QED
  BY <1>1 DEF GetBlockById, Cache!Load, Cache!LoadFails

LEMMA BatchTyped ==
  ASSUME ThreadInv, RingInv, cache_map' \in AfterBatch(Arrived)
  PROVE  cache_map' \subseteq Blocks
<1>1. Arrived \subseteq Blocks
  BY DEF Arrived, RingInv, RingTyped, Reads
<1> QED
  BY <1>1 DEF AfterBatch, ThreadInv, ThreadTyped

LEMMA BeginThreads ==
  ASSUME RingInv, ThreadInv, NEW t \in Threads, Begin(t)
  PROVE  ThreadInv'
<1>1. ASSUME NEW S \in Batches, NEW a \in AutoModes, StartSubmit(t, S, a)
      PROVE  ThreadInv'
  <2>1. a \in BOOLEAN /\ NOBODY \notin Threads /\ S \subseteq Blocks
    BY PrefetcherAssumption DEF Batches
  <2> QED
    BY <1>1, <2>1 DEF StartSubmit, ThreadInv, ThreadTyped, OneSubmitter, PCs
<1>2. ASSUME NEW o \in {"block", "blocks", "all", "timed"}, NEW S \in SUBSET Blocks,
             NEW next \in {"reap", "pending"}, Start(t, o, S, next)
      PROVE  ThreadInv'
  <2>1. next \in PCs /\ next # "submit" /\ pc[t] # "submit"
    BY <1>2 DEF PCs, Start
  <2>2. cache_map' = cache_map /\ mutex' = mutex
    BY <1>2 DEF Start
  <2> QED
    BY <1>2, <2>1, <2>2, MovesOutsideMutex DEF Start, ThreadInv, ThreadTyped
<1>3. ASSUME NEW b \in Blocks, LoadDirect(t, b)
      PROVE  ThreadInv'
  <2>1. cache_map' \subseteq Blocks
    BY <1>3, LoadTyped DEF LoadDirect
  <2> QED
    BY <1>3, <2>1 DEF LoadDirect, local, ThreadInv, ThreadTyped, OneSubmitter
<1>4. CASE FlushSubmits(t)
  BY <1>4 DEF FlushSubmits, local, ThreadInv, ThreadTyped, OneSubmitter
<1>5. CASE ReapCompletions(t)
  <2>1. cache_map' \subseteq Blocks
    BY <1>5, BatchTyped DEF ReapCompletions, Reap, ReapedAll
  <2> QED
    BY <1>5, <2>1 DEF ReapCompletions, local, ThreadInv, ThreadTyped, OneSubmitter
<1>6. ASSUME NEW S \in Batches, WaitForBlocks(t, S)
      PROVE  ThreadInv'
  <2> DEFINE w == (S \cap PendingBlocks) \ cache_map
  <2>1. w \subseteq Blocks /\ Start(t, "blocks", w, "reap")
    BY <1>6 DEF WaitForBlocks, Batches
  <2> QED
    BY <1>2, <2>1
<1>7. ASSUME NEW b \in Blocks, WaitForBlock(t, b)
      PROVE  ThreadInv'
  BY <1>2, <1>7 DEF WaitForBlock
<1>8. ASSUME NEW o \in {"all", "timed"}, WaitForCompletions(t, o)
      PROVE  ThreadInv'
  BY <1>2, <1>8 DEF WaitForCompletions
<1> QED
  BY <1>1, <1>3, <1>4, <1>5, <1>6, <1>7, <1>8 DEF Begin

LEMMA ContinueThreads ==
  ASSUME RingInv, ThreadInv, NEW t \in Threads, Continue(t)
  PROVE  ThreadInv'
<1>1. ASSUME NEW b \in Blocks, Submitting(t, b), cache_map' \subseteq Blocks,
             queued' \in [Threads -> BOOLEAN]
      PROVE  ThreadInv'
  BY <1>1 DEF Submitting, ThreadInv, ThreadTyped, OneSubmitter
<1>2. ASSUME NEW b \in Blocks,
             SubmitSkip(t, b) \/ SubmitRead(t, b)
               \/ SubmitReapRead(t, b) \/ SubmitFallback(t, b)
      PROVE  ThreadInv'
  <2>1. cache_map' \subseteq Blocks
    BY <1>2, LoadTyped, BatchTyped
    DEF SubmitSkip, SubmitRead, SubmitReapRead, SubmitFallback, ThreadInv, ThreadTyped
  <2>2. queued' \in [Threads -> BOOLEAN]
    BY <1>2
    DEF SubmitSkip, SubmitRead, SubmitReapRead, SubmitFallback, ThreadInv, ThreadTyped
  <2> QED
    BY <1>1, <1>2, <2>1, <2>2
    DEF SubmitSkip, SubmitRead, SubmitReapRead, SubmitFallback
<1>3. CASE SubmitEnd(t)
  <2>1. NOBODY \notin Threads /\ "idle" \in PCs
    BY PrefetcherAssumption DEF PCs
  <2>2. mutex = t
    BY <1>3 DEF SubmitEnd, ThreadInv, OneSubmitter
  <2> QED
    BY <1>3, <2>1, <2>2 DEF SubmitEnd, Return, ThreadInv, ThreadTyped, OneSubmitter
<1>4. ASSUME Return(t), UNCHANGED <<cache_map, mutex>>, pc[t] # "submit"
      PROVE  ThreadInv'
  BY <1>4 DEF Return, ThreadInv, ThreadTyped, OneSubmitter, PCs
<1>5. ASSUME NEW next \in PCs, next # "submit", Goto(t, next), mutex' = mutex,
             cache_map' \subseteq Blocks, pc[t] # "submit"
      PROVE  ThreadInv'
  BY <1>5, MovesOutsideMutex DEF Goto, local, ThreadInv, ThreadTyped
<1>6. {"reap", "check", "cached", "enter", "blocked", "wait"} \subseteq PCs
  BY DEF PCs
<1>7. cache_map \subseteq Blocks
  BY DEF ThreadInv, ThreadTyped
<1>8. CASE CheckPending(t)
  BY <1>4, <1>5, <1>6, <1>7, <1>8 DEF CheckPending, shared
<1>9. CASE CheckCached(t)
  BY <1>4, <1>5, <1>6, <1>7, <1>9 DEF CheckCached, shared
<1>10. CASE WaitReap(t)
  <2>1. cache_map' \subseteq Blocks /\ mutex' = mutex /\ pc[t] # "submit"
    BY <1>10, BatchTyped DEF WaitReap, Reap, ReapedAll
  <2> QED
    BY <1>5, <1>6, <1>10, <2>1 DEF WaitReap
<1>11. CASE WaitCompletion(t)
  BY <1>5, <1>6, <1>7, <1>11 DEF WaitCompletion, shared
<1>12. CASE Enter(t)
  BY <1>5, <1>6, <1>7, <1>12 DEF Enter, shared
<1>13. CASE Check(t)
  <2>1. UNCHANGED <<cache_map, mutex>> /\ pc[t] # "submit"
    BY <1>13 DEF Check, shared
  <2>2. CASE Return(t)
    BY <1>4, <2>1, <2>2
  <2>3. CASE /\ pc' = [pc EXCEPT ![t] = "wait"]
             /\ want' = [want EXCEPT ![t] = StillWanted(t)]
             /\ UNCHANGED <<op, queued, auto>>
    <3>1. StillWanted(t) \subseteq Blocks
      BY DEF StillWanted, ThreadInv, ThreadTyped
    <3> QED
      BY <1>6, <1>7, <2>1, <2>3, <3>1, MovesOutsideMutex DEF ThreadInv, ThreadTyped
  <2> QED
    BY <1>13, <2>2, <2>3 DEF Check
<1> QED
  BY <1>2, <1>3, <1>8, <1>9, <1>10, <1>11, <1>12, <1>13 DEF Continue

LEMMA NextThreads ==
  ASSUME RingInv, ThreadInv, [Next]_vars
  PROVE  ThreadInv'
<1>1. ASSUME NEW r \in Reads, Complete(r) PROVE ThreadInv'
  BY <1>1 DEF Complete, local, ThreadInv, ThreadTyped, OneSubmitter, PCs
<1>2. CASE UNCHANGED vars
  BY <1>2 DEF vars, ThreadInv, ThreadTyped, OneSubmitter
<1> QED
  BY <1>1, <1>2, BeginThreads, ContinueThreads DEF Next

-----------------------------------------------------------------------------
(* The theorems.                                                           *)

LEMMA InitIInv == Init => IInv
<1> SUFFICES ASSUME Init PROVE IInv
  OBVIOUS
<1>1. RingInv
  BY FS_EmptySet DEF Init, RingInit, RingInv, RingTyped, PhasesDisjoint,
     BuffersExclusive, RequestsMatchPending, Outstanding, InflightExact
<1>2. ThreadInv
  BY PrefetcherAssumption DEF Init, ThreadInv, ThreadTyped, OneSubmitter, PCs
<1> QED
  BY <1>1, <1>2 DEF IInv

LEMMA NextIInv == IInv /\ [Next]_vars => IInv'
<1> QED
  BY NextRing, NextThreads DEF IInv

\* The inductive invariant holds of every behaviour.
THEOREM PrefetcherInvariant == Spec => []IInv
<1> QED
  BY InitIInv, NextIInv, PTL DEF Spec

\* Every variable stays in its domain; inflight_ never wraps below zero.
THEOREM PrefetcherTypeCorrect == Spec => []TypeOK
<1>1. IInv => TypeOK
  <2> SUFFICES ASSUME IInv PROVE TypeOK
    OBVIOUS
  <2>1. inflight \in Nat
    BY PendingBounded DEF IInv, RingInv, InflightExact
  <2> QED
    BY <2>1 DEF IInv, RingInv, RingTyped, ThreadInv, ThreadTyped, TypeOK
<1> QED
  BY <1>1, PrefetcherInvariant, PTL

\* No buffer is shared by two reads, handed out while the kernel writes to it,
\* or lost (allocBuffer, freeBuffer and every path between them).
THEOREM PrefetcherBuffers == Spec => []BuffersExclusive
<1>1. IInv => BuffersExclusive
  BY DEF IInv, RingInv
<1> QED
  BY <1>1, PrefetcherInvariant, PTL

\* pending_requests_ and the ring agree: no read is overwritten in the queue,
\* requested twice or completed into another read's buffer.
THEOREM PrefetcherRequests == Spec => []RequestsMatchPending
<1>1. IInv => RequestsMatchPending
  BY DEF IInv, RingInv
<1> QED
  BY <1>1, PrefetcherInvariant, PTL

\* inflight_ is the number of pending reads, the case the comments of
\* waitForBlock and waitForBlocks call impossible is impossible.
THEOREM PrefetcherInflight == Spec => []InflightExact
<1>1. IInv => InflightExact
  BY DEF IInv, RingInv
<1> QED
  BY <1>1, PrefetcherInvariant, PTL

\* One thread at a time runs the loop of submitPrefetch.
THEOREM PrefetcherMutex == Spec => []OneSubmitter
<1>1. IInv => OneSubmitter
  BY DEF IInv, ThreadInv
<1> QED
  BY <1>1, PrefetcherInvariant, PTL

\* Only its own Check takes a thread out of the code between two waits.
LEMMA ReturnsFromCheck ==
  ASSUME NEW t \in Threads, pc \in [Threads -> PCs], [Next]_vars,
         pc[t] = "check", pc'[t] = "idle"
  PROVE  Check(t) /\ Return(t)
<1>1. ASSUME NEW u \in Threads, Begin(u) PROVE FALSE
  BY <1>1 DEF Begin, StartSubmit, WaitForBlocks, WaitForBlock, LoadDirect, Start,
     WaitForCompletions, FlushSubmits, ReapCompletions, PCs
<1>2. ASSUME NEW u \in Threads, Continue(u) PROVE Check(t) /\ Return(t)
  <2>1. CASE u = t
    <3>1. Check(t)
      BY <1>2, <2>1 DEF Continue, Submitting, SubmitSkip, SubmitRead,
         SubmitReapRead, SubmitFallback, SubmitEnd, CheckPending, WaitReap,
         CheckCached, WaitCompletion, Enter
    <3>2. pc' # [pc EXCEPT ![t] = "wait"]
      OBVIOUS
    <3> QED
      BY <3>1, <3>2 DEF Check
  <2>2. CASE u # t
    BY <1>2, <2>2, SMTT(30) DEF Continue, Submitting, SubmitSkip, SubmitRead,
       SubmitReapRead, SubmitFallback, SubmitEnd, CheckPending, WaitReap,
       CheckCached, Check, WaitCompletion, Enter, Goto, Return
  <2> QED
    BY <2>1, <2>2
<1>3. ASSUME NEW r \in Reads, Complete(r) PROVE FALSE
  BY <1>3 DEF Complete
<1>4. CASE UNCHANGED vars
  BY <1>4 DEF vars
<1> QED
  BY <1>1, <1>2, <1>3, <1>4 DEF Next

\* waitForBlocks returns only when each block it was to wait for is in the cache
\* or no longer pending.
THEOREM PrefetcherWaits == Spec => WaitsForEachBlock
<1> DEFINE Kept ==
      \A t \in Threads :
        op[t] = "blocks" /\ pc[t] = "check" /\ pc'[t] = "idle" =>
          \A b \in want[t] : b \in cache_map \/ b \notin PendingBlocks
<1>1. IInv /\ [Next]_vars => [Kept]_vars
  <2> SUFFICES ASSUME IInv, [Next]_vars,
                      NEW t \in Threads,
                      op[t] = "blocks", pc[t] = "check", pc'[t] = "idle",
                      NEW b \in want[t]
               PROVE  b \in cache_map \/ b \notin PendingBlocks
    OBVIOUS
  <2>1. Check(t) /\ Return(t)
    BY ReturnsFromCheck DEF IInv, ThreadInv, ThreadTyped
  <2>2. Satisfied(t)
    <3>1. pc \in [Threads -> PCs]
      BY DEF IInv, ThreadInv, ThreadTyped
    <3> QED
      BY <2>1, <3>1 DEF Check
  <2>3. CASE StillWanted(t) = {}
    BY <2>3 DEF StillWanted
  <2>4. CASE inflight = 0
    <3>1. Cardinality(pending) = 0 /\ IsFiniteSet(pending)
      BY <2>4, PendingBounded DEF IInv, RingInv, InflightExact
    <3>2. pending = {}
      BY <3>1, FS_EmptySet
    <3> QED
      BY <3>2 DEF PendingBlocks
  <2> QED
    BY <2>2, <2>3, <2>4 DEF Satisfied
<1> QED
  BY <1>1, PrefetcherInvariant, PTL DEF Spec, WaitsForEachBlock

-----------------------------------------------------------------------------
(* Induction and recursion.                                                *)

LEMMA LeastNumber ==
  ASSUME NEW S \in SUBSET Nat, S # {}
  PROVE  \E n \in S : \A m \in S : n <= m
<1> DEFINE Below == { 0 .. k : k \in S }
           R == StrictSubsetOrdering(Nat)
<1>1. Below \subseteq FiniteSubsetsOf(Nat) /\ Below # {}
  <2>1. \A k \in S : IsFiniteSet(0 .. k) /\ 0 .. k \in SUBSET Nat
    BY FS_Interval
  <2> QED
    BY <2>1 DEF FiniteSubsetsOf
<1>2. IsWellFoundedOn(R, FiniteSubsetsOf(Nat))
  BY FS_StrictSubsetOrderingWellFounded
<1>3. PICK T \in Below : \A U \in Below : <<U, T>> \notin R
  <2> HIDE DEF Below, R
  <2> QED
    BY <1>1, <1>2, WFMin
<1>4. PICK n \in S : T = 0 .. n
  OBVIOUS
<1>5. ASSUME NEW m \in S PROVE n <= m
  <2>1. SUFFICES ASSUME m < n PROVE FALSE
    OBVIOUS
  <2>2. 0 .. m \in SUBSET Nat /\ 0 .. n \in SUBSET Nat /\ 0 .. m \subseteq 0 .. n
    BY <2>1
  <2>3. n \in 0 .. n /\ n \notin 0 .. m
    BY <2>1
  <2>4. 0 .. m # 0 .. n
    BY <2>3
  <2>5. <<0 .. m, 0 .. n>> \in R
    BY <2>2, <2>4 DEF StrictSubsetOrdering
  <2> QED
    BY <1>3, <1>4, <2>5
<1> QED
  BY <1>5

\* What the first step has and every step keeps, all steps have.
LEMMA StepsKeep ==
  ASSUME NEW n \in Nat, NEW f, NEW Ok, f[0] \in Ok[0],
         \A k \in 1 .. n : f[k - 1] \in Ok[k - 1] => f[k] \in Ok[k]
  PROVE  \A k \in 0 .. n : f[k] \in Ok[k]
<1> DEFINE Bad == { k \in 0 .. n : f[k] \notin Ok[k] }
<1>1. SUFFICES ASSUME Bad # {} PROVE FALSE
  OBVIOUS
<1>2. PICK k \in Bad : \A m \in Bad : k <= m
  <2>1. Bad \in SUBSET Nat
    OBVIOUS
  <2> HIDE DEF Bad
  <2> QED
    BY <1>1, <2>1, LeastNumber
<1>3. k # 0
  OBVIOUS
<1>4. k \in 1 .. n /\ k - 1 \in 0 .. n /\ ~(k <= k - 1)
  BY <1>3
<1>5. f[k - 1] \in Ok[k - 1]
  BY <1>2, <1>4
<1> QED
  BY <1>4, <1>5

\* A function that is defined step by step exists.
Follows(f, n, b, F) == f[0] = b /\ \A k \in 1 .. n : f[k] = F[k][f[k - 1]]

LEMMA RecursionExists ==
  ASSUME NEW U, NEW b \in U, NEW n \in Nat, NEW F \in [1 .. n -> [U -> U]]
  PROVE  \E f \in [0 .. n -> U] : Follows(f, n, b, F)
<1> DEFINE Right(m, f) == f[0] = b /\ \A k \in 1 .. m : f[k] = F[k][f[k - 1]]
           Bad == { m \in 0 .. n : ~ \E f \in [0 .. m -> U] : Right(m, f) }
<1>1. Bad = {}
  <2>1. SUFFICES ASSUME Bad # {} PROVE FALSE
    OBVIOUS
  <2>2. PICK m \in Bad : \A j \in Bad : m <= j
    <3>1. Bad \in SUBSET Nat
      OBVIOUS
    <3> HIDE DEF Bad
    <3> QED
      BY <2>1, <3>1, LeastNumber
  <2>3. m # 0
    <3>1. SUFFICES ASSUME m = 0 PROVE FALSE
      OBVIOUS
    <3> DEFINE g == [k \in 0 .. 0 |-> b]
    <3>2. g \in [0 .. 0 -> U] /\ Right(0, g)
      OBVIOUS
    <3> QED
      BY <3>1, <3>2
  <2>4. m \in 1 .. n /\ m - 1 \in 0 .. n /\ ~(m <= m - 1)
    BY <2>3
  <2>5. PICK f \in [0 .. m - 1 -> U] : Right(m - 1, f)
    BY <2>2, <2>4
  <2> DEFINE g == [k \in 0 .. m |-> IF k = m THEN F[m][f[m - 1]] ELSE f[k]]
  <2>6. f[m - 1] \in U /\ F[m] \in [U -> U]
    BY <2>4
  <2>7. g \in [0 .. m -> U]
    BY <2>4, <2>6
  <2>8. \A k \in 1 .. m : g[k] = F[k][g[k - 1]]
    BY <2>4, <2>5
  <2>9. g[0] = b
    BY <2>4, <2>5
  <2> QED
    BY <2>7, <2>8, <2>9
<1>2. n \in 0 .. n
  OBVIOUS
<1> QED
  <2> HIDE DEF Right
  <2>1. \E f \in [0 .. n -> U] : Right(n, f)
    BY <1>1, <1>2
  <2> QED
    BY <2>1 DEF Right, Follows

-----------------------------------------------------------------------------
(* The visited lists of the builder's threads.                             *)

\* No mark in a list is from a query yet to come.
MarksOld ==
  /\ vis \in [Workers -> [Ids -> Nat]]
  /\ cv \in [Workers -> 1 .. Marks - 1]
  /\ \A t \in Workers, n \in Ids : vis[t][n] <= cv[t]

LEMMA FreshMarksOld ==
  ASSUME vis' = FreshMarks, cv' = FirstMarks
  PROVE  MarksOld'
BY BuildAssumption DEF MarksOld, FreshMarks, FirstMarks

\* A new mark is in no list.
LEMMA NextMarkIsNew ==
  ASSUME NEW v \in [Ids -> Nat], NEW c \in 1 .. Marks - 1, \A n \in Ids : v[n] <= c,
         NEW mark, mark = NextMark(v, c)
  PROVE  /\ mark[1] \in [Ids -> Nat] /\ mark[2] \in 1 .. Marks - 1
         /\ \A n \in Ids : mark[1][n] < mark[2]
<1>1. Marks \in Nat /\ c + 1 \in 2 .. Marks
  BY BuildAssumption
<1>2. CASE c + 1 = Marks
  <2>1. (c + 1) % Marks = 0
    BY <1>1, <1>2
  <2>2. mark = <<[i \in Ids |-> 0], 1>>
    BY <2>1 DEF NextMark
  <2> QED
    BY <1>1, <2>2
<1>3. CASE c + 1 # Marks
  <2>1. c + 1 \in 1 .. Marks - 1
    BY <1>1, <1>3
  <2>2. (c + 1) % Marks = c + 1
    BY <1>1, <2>1
  <2>3. mark = <<v, c + 1>>
    BY <2>1, <2>2 DEF NextMark
  <2> QED
    BY <1>1, <2>1, <2>3
<1> QED
  BY <1>2, <1>3

\* A search marks what it visits, and finds nothing marked when it starts.
LEMMA ForwardMarks ==
  ASSUME MarksOld, NEW t \in Workers, Forward(t)
  PROVE  /\ MarksOld'
         /\ \E i \in todo :
              /\ nxt' = [nxt EXCEPT ![i] =
                           Forwarded(out, Degree, i, GreedySearch(out, start, i, {}))]
              /\ todo' = todo \ {i}
<1>1. PICK i \in todo :
        \E mark \in {NextMark(vis[t], cv[t])} :
        \E found \in {GreedySearch(out, start, i, { n \in Ids : mark[1][n] = mark[2] })} :
          /\ nxt' = [nxt EXCEPT ![i] = Forwarded(out, Degree, i, found)]
          /\ vis' = [vis EXCEPT ![t] = [n \in Ids |->
                       IF n \in found.marked THEN mark[2] ELSE mark[1][n]]]
          /\ cv' = [cv EXCEPT ![t] = mark[2]]
          /\ todo' = todo \ {i}
  BY DEF Forward
<1>2. PICK mark \in {NextMark(vis[t], cv[t])} :
        \E found \in {GreedySearch(out, start, i, { n \in Ids : mark[1][n] = mark[2] })} :
          /\ nxt' = [nxt EXCEPT ![i] = Forwarded(out, Degree, i, found)]
          /\ vis' = [vis EXCEPT ![t] = [n \in Ids |->
                       IF n \in found.marked THEN mark[2] ELSE mark[1][n]]]
          /\ cv' = [cv EXCEPT ![t] = mark[2]]
          /\ todo' = todo \ {i}
  BY <1>1
<1>3. PICK found \in {GreedySearch(out, start, i, { n \in Ids : mark[1][n] = mark[2] })} :
        /\ nxt' = [nxt EXCEPT ![i] = Forwarded(out, Degree, i, found)]
        /\ vis' = [vis EXCEPT ![t] = [n \in Ids |->
                     IF n \in found.marked THEN mark[2] ELSE mark[1][n]]]
        /\ cv' = [cv EXCEPT ![t] = mark[2]]
        /\ todo' = todo \ {i}
  BY <1>2
<1>4. /\ vis[t] \in [Ids -> Nat] /\ cv[t] \in 1 .. Marks - 1
      /\ \A n \in Ids : vis[t][n] <= cv[t]
  BY DEF MarksOld
<1>5. /\ mark[1] \in [Ids -> Nat] /\ mark[2] \in 1 .. Marks - 1
      /\ \A n \in Ids : mark[1][n] < mark[2]
  BY <1>4, NextMarkIsNew
<1>6. { n \in Ids : mark[1][n] = mark[2] } = {}
  BY <1>5
<1> DEFINE marked == found.marked
           list == [n \in Ids |-> IF n \in marked THEN mark[2] ELSE mark[1][n]]
<1>7. list \in [Ids -> Nat] /\ \A n \in Ids : list[n] <= mark[2]
  <2> HIDE DEF marked
  <2> QED
    BY <1>5
<1>8. vis' = [vis EXCEPT ![t] = list]
  BY <1>3
<1>9. MarksOld'
  <2> HIDE DEF list
  <2> QED
    BY <1>3, <1>5, <1>7, <1>8 DEF MarksOld
<1>10. found = GreedySearch(out, start, i, {})
  BY <1>6
<1> QED
  BY <1>3, <1>9, <1>10

LEMMA ForwardKeepsParallel ==
  ASSUME MarksOld, RoundsAreParallel, NEW t \in Workers, Forward(t)
  PROVE  RoundsAreParallel'
<1> DEFINE Right(i) == Forwarded(out, Degree, i, GreedySearch(out, start, i, {}))
<1>1. PICK i \in todo : nxt' = [nxt EXCEPT ![i] = Right(i)] /\ todo' = todo \ {i}
  BY ForwardMarks
<1>2. phase = "forward" /\ UNCHANGED <<out, start, layer>>
  BY DEF Forward
<1>3. \A j \in DOMAIN nxt \ todo : nxt[j] = Right(j)
  BY <1>2 DEF RoundsAreParallel
<1>4. \A j \in DOMAIN nxt' \ todo' : nxt'[j] = Right(j)
  <2> HIDE DEF Right
  <2> QED
    BY <1>1, <1>3
<1>5. Degree' = Degree
  BY <1>2 DEF Degree
<1> QED
  BY <1>2, <1>4, <1>5 DEF RoundsAreParallel

\* Every other step leaves the first loop, starts it, or has no part in it.
LEMMA BuildParallel ==
  ASSUME MarksOld, RoundsAreParallel,
         BuildNext \/ Export \/ Extract \/ UNCHANGED buildVars
  PROVE  MarksOld' /\ RoundsAreParallel'
<1>1. CASE AssignLevels
  BY <1>1 DEF AssignLevels, MarksOld, RoundsAreParallel
<1>2. CASE StartLayer
  <2>1. MarksOld'
    BY <1>2, FreshMarksOld DEF StartLayer
  <2>2. DOMAIN nxt' = todo'
    BY <1>2 DEF StartLayer
  <2> QED
    BY <2>1, <2>2 DEF RoundsAreParallel
<1>3. CASE \E t \in Workers : Forward(t)
  BY <1>3, ForwardMarks, ForwardKeepsParallel
<1>4. CASE EndForward
  BY <1>4 DEF EndForward, MarksOld, RoundsAreParallel
<1>5. CASE PruneOnce
  BY <1>5 DEF PruneOnce, MarksOld, RoundsAreParallel
<1>6. CASE EndRound
  <2>1. MarksOld'
    BY <1>6 DEF EndRound, MarksOld
  <2>2. phase' = "forward" => DOMAIN nxt' = todo'
    BY <1>6 DEF EndRound
  <2> QED
    BY <2>1, <2>2 DEF RoundsAreParallel
<1>7. CASE StoreLayer
  <2>1. MarksOld'
    BY <1>7, FreshMarksOld DEF StoreLayer
  <2>2. phase' # "forward"
    BY <1>7 DEF StoreLayer
  <2> QED
    BY <2>1, <2>2 DEF RoundsAreParallel
<1>8. CASE SecondPass
  BY <1>8 DEF SecondPass, MarksOld, RoundsAreParallel
<1>9. CASE Export \/ Extract
  BY <1>9 DEF Export, Extract, MarksOld, RoundsAreParallel
<1>10. CASE UNCHANGED buildVars
  BY <1>10 DEF buildVars, levelVars, MarksOld, RoundsAreParallel, Degree
<1> QED
  BY <1>1, <1>2, <1>3, <1>4, <1>5, <1>6, <1>7, <1>8, <1>9, <1>10 DEF BuildNext

\* No other tool touches what the builder has.
LEMMA PipelineBuilds ==
  ASSUME [PipelineNext]_pipelineVars
  PROVE  BuildNext \/ Export \/ Extract \/ UNCHANGED buildVars
BY DEF PipelineNext, pipelineVars, Prune, ReorderNodes, WriteVecOnly, Shuffle,
       ClusterReorder, WriteBlocks, WritePQBlocks, GenRouteTable, RunVerify,
       OpenIndex, BuildFine, LoadPQCodes, StartDescent, Walk

\* The loops of a round are free of races: what a thread makes of a node is what
\* a search over the graph of the last round makes of it, with nothing marked
\* before, whatever nodes the thread had before and whatever the others do.
THEOREM LoopsAreParallel == PipelineSpec => []RoundsAreParallel
<1>1. PipelineInit => MarksOld /\ RoundsAreParallel
  BY BuildAssumption
     DEF PipelineInit, BuildInit, MarksOld, RoundsAreParallel, FreshMarks, FirstMarks
<1>2. MarksOld /\ RoundsAreParallel /\ [PipelineNext]_pipelineVars
        => MarksOld' /\ RoundsAreParallel'
  BY PipelineBuilds, BuildParallel
<1> QED
  BY <1>1, <1>2, PTL DEF PipelineSpec

-----------------------------------------------------------------------------
(* Distances order the nodes.                                              *)

LEMMA SumSteps ==
  ASSUME NEW a \in Seq(Int), NEW b \in Seq(Int), Len(a) = Len(b)
  PROVE  \E g \in [0 .. Len(a) -> Int] :
           /\ g[0] = 0 /\ L2(a, b) = g[Len(a)]
           /\ \A k \in 1 .. Len(a) : g[k] = g[k - 1] + (a[k] - b[k]) * (a[k] - b[k])
<1> DEFINE n == Len(a)
           square(k) == (a[k] - b[k]) * (a[k] - b[k])
           Rule(f) == f = [i \in 0 .. n |-> IF i = 0 THEN 0 ELSE f[i - 1] + square(i)]
           F == [k \in 1 .. n |-> [x \in Int |-> x + square(k)]]
<1>1. n \in Nat /\ \A k \in 1 .. n : square(k) \in Int
  <2>1. \A k \in 1 .. n : a[k] - b[k] \in Int
    OBVIOUS
  <2>2. \A x \in Int : x * x \in Int
    OBVIOUS
  <2> QED
    BY <2>1, <2>2
<1> HIDE DEF square
<1>2. F \in [1 .. n -> [Int -> Int]]
  BY <1>1
<1>3. \E f : Rule(f)
  <2>1. PICK f \in [0 .. n -> Int] :
          f[0] = 0 /\ \A k \in 1 .. n : f[k] = F[k][f[k - 1]]
    <3> DEFINE U == Int
               zero == 0
    <3>1. zero \in U /\ n \in Nat /\ F \in [1 .. n -> [U -> U]]
      BY <1>1, <1>2
    <3>2. \E f \in [0 .. n -> U] : Follows(f, n, zero, F)
      <4> HIDE DEF F, n, U, zero
      <4> QED
        BY <3>1, RecursionExists
    <3> QED
      BY <3>2 DEF Follows
  <2>2. \A k \in 0 .. n : f[k] = IF k = 0 THEN 0 ELSE f[k - 1] + square(k)
    <3>1. TAKE k \in 0 .. n
    <3>2. CASE k = 0
      BY <2>1, <3>2
    <3>3. CASE k # 0
      <4>1. k \in 1 .. n /\ k - 1 \in 0 .. n
        BY <1>1, <3>3
      <4> QED
        BY <2>1, <3>3, <4>1
    <3> QED
      BY <3>2, <3>3
  <2>3. f = [k \in 0 .. n |-> f[k]]
    OBVIOUS
  <2>4. Rule(f)
    <3> HIDE DEF F, n
    <3> QED
      BY <2>2, <2>3
  <2> QED
    BY <2>4
<1> DEFINE g == CHOOSE f : Rule(f)
<1>4. Rule(g)
  BY <1>3
<1>5. L2(a, b) = g[n]
  BY DEF L2, square
<1>6. \A k \in 0 .. n : g[k] \in Int
  <2> HIDE DEF g
  <2> DEFINE Ok == [k \in 0 .. n |-> Int]
  <2>1. g[0] \in Ok[0]
    BY <1>1, <1>4
  <2>2. \A k \in 1 .. n : g[k - 1] \in Ok[k - 1] => g[k] \in Ok[k]
    <3>1. TAKE k \in 1 .. n
    <3>2. k \in 0 .. n /\ k - 1 \in 0 .. n /\ k # 0
      BY <1>1
    <3>3. g[k] = g[k - 1] + square(k)
      BY <1>4, <3>2
    <3> QED
      BY <1>1, <3>2, <3>3
  <2>3. \A k \in 0 .. n : g[k] \in Ok[k]
    <3> HIDE DEF Ok, n
    <3> QED
      BY <1>1, <2>1, <2>2, StepsKeep
  <2> QED
    BY <2>3
<1>7. \A k \in 1 .. n : g[k] = g[k - 1] + square(k)
  <2>1. \A k \in 1 .. n : k \in 0 .. n /\ k # 0
    BY <1>1
  <2> HIDE DEF g, n
  <2> QED
    BY <1>4, <2>1
<1>8. g[0] = 0
  <2>1. 0 \in 0 .. n
    BY <1>1
  <2> HIDE DEF g, n
  <2> QED
    BY <1>4, <2>1
<1>9. g = [k \in 0 .. n |-> g[k]]
  BY <1>4
<1>10. g \in [0 .. n -> Int]
  <2> HIDE DEF g, n
  <2> QED
    BY <1>6, <1>9
<1> QED
  <2> HIDE DEF g
  <2> QED
    BY <1>5, <1>7, <1>8, <1>10 DEF square

LEMMA SumIsInt ==
  ASSUME NEW a \in Seq(Int), NEW b \in Seq(Int), Len(a) = Len(b)
  PROVE  L2(a, b) \in Int
<1>1. PICK g \in [0 .. Len(a) -> Int] : L2(a, b) = g[Len(a)]
  BY SumSteps
<1>2. Len(a) \in 0 .. Len(a)
  OBVIOUS
<1> QED
  BY <1>1, <1>2

LEMMA DistancesInt == \A u \in Ids, v \in Ids : D(u, v) \in Int
BY BuildAssumption, SumIsInt DEF D

LEMMA NearerOrders ==
  ASSUME NEW p \in Ids, NEW u \in Ids, NEW v \in Ids
  PROVE  /\ ~Nearer(p, u, u)
         /\ u # v => Nearer(p, u, v) \/ Nearer(p, v, u)
         /\ \A w \in Ids : Nearer(p, u, v) /\ Nearer(p, v, w) => Nearer(p, u, w)
<1>1. D(p, u) \in Int /\ D(p, v) \in Int /\ \A w \in Ids : D(p, w) \in Int
  BY DistancesInt
<1>2. u \in Int /\ v \in Int /\ Ids \subseteq Int
  BY BuildAssumption DEF Ids
<1> QED
  BY <1>1, <1>2 DEF Nearer

\* A finite set with an order has a first element.
LEMMA FirstExists ==
  ASSUME NEW S, IsFiniteSet(S), S # {}, NEW Lt \in SUBSET (S \X S),
         \A u \in S, v \in S : u # v => <<u, v>> \in Lt \/ <<v, u>> \in Lt,
         \A u \in S, v \in S, w \in S :
           <<u, v>> \in Lt /\ <<v, w>> \in Lt => <<u, w>> \in Lt
  PROVE  \E u \in S : \A v \in S \ {u} : <<u, v>> \in Lt
<1> DEFINE Has(T) == \E u \in T : \A v \in T \ {u} : <<u, v>> \in Lt
           Bad == { T \in SUBSET S : T # {} /\ ~Has(T) }
           Sub == StrictSubsetOrdering(S)
<1>1. SUFFICES ASSUME ~Has(S) PROVE FALSE
  OBVIOUS
<1>2. S \in Bad
  BY <1>1
<1>3. Bad \subseteq FiniteSubsetsOf(S)
  BY FS_Subset DEF FiniteSubsetsOf
<1>4. PICK T \in Bad : \A U \in Bad : <<U, T>> \notin Sub
  <2>1. IsWellFoundedOn(Sub, FiniteSubsetsOf(S))
    BY FS_StrictSubsetOrderingWellFounded
  <2> HIDE DEF Bad, Sub
  <2> QED
    BY <1>2, <1>3, <2>1, WFMin
<1>5. PICK x \in T : TRUE
  OBVIOUS
<1> DEFINE U == T \ {x}
<1>6. U # {}
  <2>1. SUFFICES ASSUME U = {} PROVE FALSE
    OBVIOUS
  <2>2. T = {x}
    BY <2>1
  <2>3. Has(T)
    BY <2>2
  <2> QED
    BY <2>3
<1>7. U \in SUBSET S /\ <<U, T>> \in Sub
  BY DEF StrictSubsetOrdering
<1>8. PICK u \in U : \A v \in U \ {u} : <<u, v>> \in Lt
  BY <1>4, <1>6, <1>7
<1>9. u \in S /\ x \in S /\ u # x /\ T \in SUBSET S /\ u \in T
  OBVIOUS
<1>10. ~Has(T)
  OBVIOUS
<1> HIDE DEF Bad, Sub
<1>11. CASE <<u, x>> \in Lt
  <2>1. \A v \in T \ {u} : <<u, v>> \in Lt
    BY <1>8, <1>11
  <2> QED
    BY <1>9, <1>10, <2>1
<1>12. CASE <<x, u>> \in Lt
  <2>1. \A v \in T \ {x} : <<x, v>> \in Lt
    <3>1. TAKE v \in T \ {x}
    <3>2. CASE v = u
      BY <1>12, <3>2
    <3>3. CASE v # u
      <4>1. <<u, v>> \in Lt /\ v \in S
        BY <1>8, <1>9, <3>3
      <4> QED
        BY <1>9, <1>12, <4>1
    <3> QED
      BY <3>2, <3>3
  <2> QED
    BY <1>10, <2>1
<1> QED
  BY <1>9, <1>11, <1>12

LEMMA IdsFinite ==
  ASSUME NEW S \in SUBSET Ids
  PROVE  IsFiniteSet(S) /\ Cardinality(S) \in Nat /\ Cardinality(S) <= N
<1>1. IsFiniteSet(Ids) /\ Cardinality(Ids) = N
  <2>1. N \in Nat /\ N # 0
    BY BuildAssumption
  <2>2. 0 \in Int /\ N - 1 \in Int /\ ~(0 > N - 1) /\ (N - 1) - 0 + 1 = N
    BY <2>1
  <2>3. IsFiniteSet(0 .. N - 1) /\ Cardinality(0 .. N - 1) = (N - 1) - 0 + 1
    BY <2>2, FS_Interval
  <2> QED
    BY <2>2, <2>3 DEF Ids
<1> QED
  BY <1>1, FS_Subset, FS_CardinalityType

LEMMA NearestIs ==
  ASSUME NEW p \in Ids, NEW S \in SUBSET Ids, S # {}
  PROVE  /\ Nearest(p, S) \in S
         /\ \A v \in S \ {Nearest(p, S)} : Nearer(p, Nearest(p, S), v)
<1> DEFINE Lt == { x \in S \X S : Nearer(p, x[1], x[2]) }
<1>1. \A u \in S, v \in S : <<u, v>> \in Lt <=> Nearer(p, u, v)
  OBVIOUS
<1>2. \E u \in S : \A v \in S \ {u} : <<u, v>> \in Lt
  <2>1. IsFiniteSet(S) /\ Lt \in SUBSET (S \X S)
    BY IdsFinite
  <2>2. \A u \in S, v \in S : u # v => <<u, v>> \in Lt \/ <<v, u>> \in Lt
    BY <1>1, NearerOrders
  <2>3. \A u \in S, v \in S, w \in S :
          <<u, v>> \in Lt /\ <<v, w>> \in Lt => <<u, w>> \in Lt
    BY <1>1, NearerOrders
  <2> HIDE DEF Lt
  <2> QED
    BY <2>1, <2>2, <2>3, FirstExists
<1>3. \E u \in S : \A v \in S \ {u} : Nearer(p, u, v)
  BY <1>1, <1>2
<1> QED
  BY <1>3 DEF Nearest

-----------------------------------------------------------------------------
(* robust_prune.                                                           *)

LEMMA Appended ==
  ASSUME NEW T, NEW s \in Seq(T), NEW x \in T
  PROVE  /\ Append(s, x) \in Seq(T) /\ Len(Append(s, x)) = Len(s) + 1
         /\ ToSet(Append(s, x)) = ToSet(s) \cup {x}
         /\ IsInjective(s) /\ x \notin ToSet(s) => IsInjective(Append(s, x))
<1> DEFINE a == Append(s, x)
           n == Len(s)
<1>1. /\ a \in Seq(T) /\ Len(a) = n + 1 /\ n \in Nat
      /\ DOMAIN a = 1 .. n + 1 /\ DOMAIN s = 1 .. n
      /\ a[n + 1] = x /\ \A i \in 1 .. n : a[i] = s[i]
  OBVIOUS
<1> HIDE DEF a, n
<1>2. ToSet(a) = ToSet(s) \cup {x}
  <2>1. \A i \in 1 .. n + 1 : i \in 1 .. n \/ i = n + 1
    BY <1>1
  <2>2. n + 1 \in 1 .. n + 1 /\ 1 .. n \subseteq 1 .. n + 1
    BY <1>1
  <2> QED
    BY <1>1, <2>1, <2>2 DEF ToSet
<1>3. ASSUME IsInjective(s), x \notin ToSet(s)
      PROVE  IsInjective(a)
  <2>1. \A i \in 1 .. n : s[i] \in ToSet(s)
    BY <1>1 DEF ToSet
  <2>2. \A i \in 1 .. n + 1 : i \in 1 .. n \/ i = n + 1
    BY <1>1
  <2> QED
    BY <1>1, <1>3, <2>1, <2>2 DEF IsInjective
<1> QED
  BY <1>1, <1>2, <1>3 DEF a, n

PruneStates == [left : SUBSET Ids, kept : Seq(Ids)]

\* Why v is not in the list kept for p.
Spared(p, v, kept, alpha, R) ==
  \/ \E u \in ToSet(kept) : Nearer(p, u, v) /\ Covers(p, u, v, alpha)
  \/ Len(kept) = R /\ \A u \in ToSet(kept) : Nearer(p, u, v)

\* What is kept is nearer than what is left, and the rest was not kept for a reason.
Considered(p, S, alpha, R, s) ==
  /\ s.left \subseteq S \ {p}
  /\ ToSet(s.kept) \subseteq S \ {p}
  /\ \A v \in s.left : v \notin ToSet(s.kept)
  /\ IsInjective(s.kept) /\ Len(s.kept) <= R
  /\ \A u \in ToSet(s.kept), v \in s.left : Nearer(p, u, v)
  /\ \A v \in S \ {p} : v \in s.left \/ v \in ToSet(s.kept) \/ Spared(p, v, s.kept, alpha, R)

LEMMA ConsiderKeeps ==
  ASSUME NEW p \in Ids, NEW S \in SUBSET Ids, NEW alpha, NEW R \in Nat,
         NEW s \in PruneStates, Considered(p, S, alpha, R, s), s.left # {}
  PROVE  /\ Consider(p, s, alpha, R) \in PruneStates
         /\ Considered(p, S, alpha, R, Consider(p, s, alpha, R))
         /\ Cardinality(Consider(p, s, alpha, R).left) = Cardinality(s.left) - 1
<1> DEFINE v == Nearest(p, s.left)
           covered == \E u \in ToSet(s.kept) : Covers(p, u, v, alpha)
           c == Consider(p, s, alpha, R)
<1>1. s.left \in SUBSET Ids /\ s.kept \in Seq(Ids) /\ Len(s.kept) \in Nat
  BY DEF PruneStates
<1>2. v \in s.left /\ \A w \in s.left \ {v} : Nearer(p, v, w)
  BY <1>1, NearestIs
<1> HIDE DEF v
<1>3. c = [ left |-> s.left \ {v},
            kept |-> IF Len(s.kept) >= R \/ covered THEN s.kept ELSE Append(s.kept, v) ]
  BY DEF Consider, v
<1>4. c.left = s.left \ {v}
  BY <1>3
<1>5. Cardinality(c.left) = Cardinality(s.left) - 1
  BY <1>1, <1>2, <1>4, IdsFinite, FS_RemoveElement
<1>6. CASE Len(s.kept) >= R \/ covered
  <2>1. c.kept = s.kept
    BY <1>3, <1>6
  <2>2. Spared(p, v, s.kept, alpha, R)
    <3>1. \A u \in ToSet(s.kept) : Nearer(p, u, v)
      BY <1>2 DEF Considered
    <3>2. Len(s.kept) <= R
      BY DEF Considered
    <3> QED
      BY <1>1, <1>6, <3>1, <3>2 DEF Spared
  <2>3. c \in PruneStates
    BY <1>1, <1>3, <1>6 DEF PruneStates
  <2>4. Considered(p, S, alpha, R, c)
    <3> HIDE DEF c
    <3> QED
      BY <1>2, <1>4, <2>1, <2>2 DEF Considered
  <2> QED
    BY <1>5, <2>3, <2>4
<1>7. CASE Len(s.kept) < R /\ ~covered
  <2>1. c.kept = Append(s.kept, v)
    BY <1>1, <1>3, <1>7
  <2>2. /\ c.kept \in Seq(Ids) /\ Len(c.kept) = Len(s.kept) + 1
        /\ ToSet(c.kept) = ToSet(s.kept) \cup {v}
        /\ IsInjective(c.kept)
    <3>1. v \in Ids /\ v \notin ToSet(s.kept) /\ IsInjective(s.kept)
      BY <1>1, <1>2 DEF Considered
    <3> QED
      BY <1>1, <2>1, <3>1, Appended
  <2>3. c \in PruneStates
    BY <1>1, <1>3, <1>4, <2>1, <2>2 DEF PruneStates
  <2> HIDE DEF c, covered
  <2>4. /\ c.left \subseteq S \ {p} /\ ToSet(c.kept) \subseteq S \ {p}
        /\ \A w \in c.left : w \notin ToSet(c.kept)
    BY <1>2, <1>4, <2>2 DEF Considered
  <2>5. Len(c.kept) <= R
    BY <1>1, <1>7, <2>2
  <2>6. \A u \in ToSet(c.kept), w \in c.left : Nearer(p, u, w)
    BY <1>2, <1>4, <2>2 DEF Considered
  <2>7. ASSUME NEW w \in S \ {p}, w \notin c.left, w \notin ToSet(c.kept)
        PROVE  Spared(p, w, c.kept, alpha, R)
    <3>1. w \notin s.left /\ w \notin ToSet(s.kept)
      BY <1>4, <2>2, <2>7
    <3>2. Spared(p, w, s.kept, alpha, R)
      BY <3>1 DEF Considered
    <3>3. Len(s.kept) # R
      BY <1>1, <1>7
    <3> QED
      BY <2>2, <3>2, <3>3 DEF Spared
  <2>8. Considered(p, S, alpha, R, c)
    BY <2>2, <2>4, <2>5, <2>6, <2>7 DEF Considered
  <2> QED
    BY <1>5, <2>3, <2>8 DEF c
<1>8. Len(s.kept) >= R \/ Len(s.kept) < R
  BY <1>1
<1> QED
  BY <1>6, <1>7, <1>8

\* A list that is pruned has other nodes, each once, no more than R, and what is
\* left out was left out for a reason.
LEMMA RobustPruneRight ==
  ASSUME NEW p \in Ids, NEW S \in SUBSET Ids, NEW alpha, NEW R \in Nat
  PROVE  LET r == RobustPrune(p, S, alpha, R)
         IN  /\ r \in Seq(S \ {p}) /\ Len(r) <= R /\ IsInjective(r)
             /\ \A v \in S \ {p} : v \in ToSet(r) \/ Spared(p, v, r, alpha, R)
<1> DEFINE b == [left |-> S \ {p}, kept |-> <<>>]
           next(s) == Consider(p, s, alpha, R)
           Rule(f) == f = [k \in 0 .. N |-> IF k = 0 THEN b ELSE next(f[k - 1])]
           U == { s \in PruneStates : Considered(p, S, alpha, R, s) }
           F == [k \in 1 .. N |-> [s \in U |-> next(s)]]
<1>1. N \in Nat
  BY BuildAssumption
<1>2. b \in U
  <2>1. b \in PruneStates
    BY DEF PruneStates
  <2>2. ToSet(b.kept) = {} /\ Len(b.kept) = 0 /\ IsInjective(b.kept)
    BY DEF ToSet, IsInjective
  <2>3. b.left = S \ {p}
    OBVIOUS
  <2>4. Considered(p, S, alpha, R, b)
    <3> HIDE DEF b
    <3> QED
      BY <2>2, <2>3 DEF Considered
  <2> QED
    BY <2>1, <2>4
<1>3. ASSUME NEW s \in U
      PROVE  /\ next(s) \in U /\ s.left \in SUBSET Ids
             /\ s.left = {} => next(s) = s
             /\ s.left # {} => Cardinality(next(s).left) = Cardinality(s.left) - 1
  <2>1. s \in PruneStates /\ Considered(p, S, alpha, R, s)
    OBVIOUS
  <2>2. s.left \in SUBSET Ids
    BY <2>1 DEF PruneStates
  <2>3. CASE s.left = {}
    BY <2>2, <2>3 DEF Consider
  <2>4. CASE s.left # {}
    <3>1. /\ next(s) \in PruneStates /\ Considered(p, S, alpha, R, next(s))
          /\ Cardinality(next(s).left) = Cardinality(s.left) - 1
      BY <2>1, <2>4, ConsiderKeeps
    <3> HIDE DEF next
    <3> QED
      BY <2>2, <2>4, <3>1
  <2> QED
    BY <2>3, <2>4
<1> HIDE DEF U, b, next
<1>4. F \in [1 .. N -> [U -> U]]
  BY <1>3
<1>5. \E f : Rule(f)
  <2>1. PICK f \in [0 .. N -> U] : Follows(f, N, b, F)
    <3> HIDE DEF F
    <3> QED
      BY <1>1, <1>2, <1>4, RecursionExists
  <2>2. \A k \in 0 .. N : f[k] = IF k = 0 THEN b ELSE next(f[k - 1])
    <3>1. TAKE k \in 0 .. N
    <3>2. CASE k = 0
      BY <2>1, <3>2 DEF Follows
    <3>3. CASE k # 0
      <4>1. k \in 1 .. N /\ k - 1 \in 0 .. N
        BY <1>1, <3>3
      <4> QED
        BY <2>1, <3>3, <4>1 DEF Follows
    <3> QED
      BY <3>2, <3>3
  <2>3. f = [k \in 0 .. N |-> f[k]]
    OBVIOUS
  <2>4. Rule(f)
    <3> HIDE DEF F
    <3> QED
      BY <2>2, <2>3
  <2> QED
    BY <2>4
<1> DEFINE g == CHOOSE f : Rule(f)
<1>6. Rule(g)
  BY <1>5
<1>7. RobustPrune(p, S, alpha, R) = g[N].kept
  BY DEF RobustPrune, next, b
<1> HIDE DEF g
<1> DEFINE Ok == [k \in 0 .. N |-> { s \in U : Cardinality(s.left) <= N - k }]
<1>8. g[0] \in Ok[0]
  <2>1. g[0] = b
    BY <1>1, <1>6
  <2>2. b.left \in SUBSET Ids
    BY <1>2, <1>3
  <2>3. Cardinality(b.left) <= N - 0
    BY <1>1, <2>2, IdsFinite
  <2> QED
    BY <1>1, <1>2, <2>1, <2>3
<1>9. ASSUME NEW k \in 1 .. N, g[k - 1] \in Ok[k - 1] PROVE g[k] \in Ok[k]
  <2>1. k \in 0 .. N /\ k - 1 \in 0 .. N /\ k # 0
    BY <1>1
  <2>2. g[k] = next(g[k - 1])
    BY <1>6, <2>1
  <2> DEFINE s == g[k - 1]
  <2>3. s \in U /\ Cardinality(s.left) <= N - (k - 1)
    BY <1>9, <2>1
  <2> HIDE DEF s
  <2>4. next(s) \in U /\ Cardinality(next(s).left) <= N - k
    <3>1. CASE s.left = {}
      <4>1. Cardinality(s.left) = 0
        BY <3>1, FS_EmptySet
      <4> QED
        BY <1>1, <1>3, <2>3, <3>1, <4>1
    <3>2. CASE s.left # {}
      <4>1. Cardinality(s.left) \in Nat
        BY <1>3, <2>3, IdsFinite
      <4> QED
        BY <1>1, <1>3, <2>3, <3>2, <4>1
    <3> QED
      BY <3>1, <3>2
  <2> QED
    BY <2>1, <2>2, <2>4 DEF s
<1>10. g[N] \in Ok[N]
  <2>1. \A k \in 0 .. N : g[k] \in Ok[k]
    <3> HIDE DEF Ok
    <3> QED
      BY <1>1, <1>8, <1>9, StepsKeep
  <2> HIDE DEF Ok
  <2> QED
    BY <1>1, <2>1
<1> DEFINE e == g[N]
<1>11. e \in U /\ Cardinality(e.left) <= 0
  BY <1>1, <1>10
<1> HIDE DEF e
<1>12. e.left = {}
  <2>1. IsFiniteSet(e.left) /\ Cardinality(e.left) \in Nat
    BY <1>3, <1>11, IdsFinite
  <2>2. Cardinality(e.left) = 0
    BY <1>11, <2>1
  <2> QED
    BY <2>1, <2>2, FS_EmptySet
<1>13. e \in PruneStates /\ Considered(p, S, alpha, R, e)
  BY <1>11 DEF U
<1>14. e.kept \in Seq(S \ {p})
  <2>1. e.kept \in Seq(Ids)
    BY <1>13 DEF PruneStates
  <2>2. \A i \in 1 .. Len(e.kept) : e.kept[i] \in S \ {p}
    <3>1. \A i \in 1 .. Len(e.kept) : e.kept[i] \in ToSet(e.kept)
      BY <2>1 DEF ToSet
    <3> QED
      BY <1>13, <3>1 DEF Considered
  <2> QED
    BY <2>1, <2>2
<1>15. RobustPrune(p, S, alpha, R) = e.kept
  BY <1>7 DEF e
<1> QED
  BY <1>12, <1>13, <1>14, <1>15 DEF Considered

-----------------------------------------------------------------------------
(* greedy_search: in a graph over M it does not leave M.                   *)

SearchStates(M) == [cand : SUBSET M, res : SUBSET M, marked : SUBSET Ids]

LEMMA MeetStays ==
  ASSUME NEW M \in SUBSET Ids, NEW q, NEW s \in SearchStates(M), NEW v \in M
  PROVE  Meet(q, s, v) \in SearchStates(M)
<1> DEFINE near == Cardinality(s.res) < Beam \/ D(q, v) < D(q, Farthest(q, s.res))
           full == s.res \cup {v}
           far == Farthest(q, full)
           cut == Cardinality(full) > Beam
<1>1. s.cand \in SUBSET M /\ s.res \in SUBSET M /\ s.marked \in SUBSET Ids
  BY DEF SearchStates
<1>2. Meet(q, s, v) = IF v \in s.marked THEN s
        ELSE [ cand   |-> IF near THEN s.cand \cup {v} ELSE s.cand,
               res    |-> IF ~near THEN s.res
                          ELSE IF cut THEN full \ {far} ELSE full,
               marked |-> s.marked \cup {v} ]
  BY DEF Meet
<1> HIDE DEF near, far, cut
<1> QED
  BY <1>1, <1>2 DEF SearchStates

LEMMA MeetAllStays ==
  ASSUME NEW M \in SUBSET Ids, NEW q, NEW s \in SearchStates(M), NEW list \in Seq(M)
  PROVE  MeetAll(q, s, list) \in SearchStates(M)
<1> DEFINE n == Len(list)
           next(x, k) == Meet(q, x, list[k])
           Rule(f) == f = [k \in 0 .. n |-> IF k = 0 THEN s ELSE next(f[k - 1], k)]
           U == SearchStates(M)
           F == [k \in 1 .. n |-> [x \in U |-> next(x, k)]]
<1>1. n \in Nat /\ s \in U
  OBVIOUS
<1>2. \A k \in 1 .. n : \A x \in U : next(x, k) \in U
  BY MeetStays
<1> HIDE DEF n, next, U
<1>3. F \in [1 .. n -> [U -> U]]
  BY <1>2
<1>4. \E f : Rule(f)
  <2>1. PICK f \in [0 .. n -> U] : Follows(f, n, s, F)
    <3> HIDE DEF F
    <3> QED
      BY <1>1, <1>3, RecursionExists
  <2>2. \A k \in 0 .. n : f[k] = IF k = 0 THEN s ELSE next(f[k - 1], k)
    <3>1. TAKE k \in 0 .. n
    <3>2. CASE k = 0
      BY <2>1, <3>2 DEF Follows
    <3>3. CASE k # 0
      <4>1. k \in 1 .. n /\ k - 1 \in 0 .. n
        BY <1>1, <3>3
      <4> QED
        BY <2>1, <3>3, <4>1 DEF Follows
    <3> QED
      BY <3>2, <3>3
  <2>3. f = [k \in 0 .. n |-> f[k]]
    OBVIOUS
  <2>4. Rule(f)
    <3> HIDE DEF F
    <3> QED
      BY <2>2, <2>3
  <2> QED
    BY <2>4
<1> DEFINE g == CHOOSE f : Rule(f)
<1>5. Rule(g)
  BY <1>4
<1>6. MeetAll(q, s, list) = g[n]
  BY DEF MeetAll, next, n
<1> HIDE DEF g
<1> DEFINE Ok == [k \in 0 .. n |-> U]
<1>7. g[0] \in Ok[0]
  BY <1>1, <1>5
<1>8. \A k \in 1 .. n : g[k - 1] \in Ok[k - 1] => g[k] \in Ok[k]
  <2>1. TAKE k \in 1 .. n
  <2>2. k \in 0 .. n /\ k - 1 \in 0 .. n /\ k # 0
    BY <1>1
  <2>3. g[k] = next(g[k - 1], k)
    BY <1>5, <2>2
  <2> QED
    BY <1>2, <2>2, <2>3
<1>9. g[n] \in Ok[n]
  <2> HIDE DEF Ok
  <2>1. \A k \in 0 .. n : g[k] \in Ok[k]
    BY <1>1, <1>7, <1>8, StepsKeep
  <2> QED
    BY <1>1, <2>1
<1> QED
  BY <1>1, <1>6, <1>9 DEF U

LEMMA ExpandStays ==
  ASSUME NEW M \in SUBSET Ids, NEW q \in Ids, NEW graph, \A i \in M : graph[i] \in Seq(M),
         NEW s \in SearchStates(M)
  PROVE  ExpandNearest(graph, q, s) \in SearchStates(M)
<1> DEFINE p == Nearest(q, s.cand)
           far == D(q, p) > D(q, Farthest(q, s.res))
           taken == [s EXCEPT !.cand = @ \ {p}]
<1>1. s.cand \in SUBSET M
  BY DEF SearchStates
<1>2. CASE s.cand = {}
  BY <1>2 DEF ExpandNearest
<1>3. CASE s.cand # {}
  <2>1. s.cand \in SUBSET Ids
    BY <1>1
  <2>2. p \in M
    BY <1>1, <1>3, <2>1, NearestIs
  <2>3. ExpandNearest(graph, q, s) =
          IF far THEN [s EXCEPT !.cand = {}] ELSE MeetAll(q, taken, graph[p])
    BY <1>3 DEF ExpandNearest
  <2>4. [s EXCEPT !.cand = {}] \in SearchStates(M)
    BY DEF SearchStates
  <2>5. taken \in SearchStates(M)
    <3> HIDE DEF p
    <3> QED
      BY DEF SearchStates
  <2>6. graph[p] \in Seq(M)
    BY <2>2
  <2> HIDE DEF taken, p, far
  <2>7. MeetAll(q, taken, graph[p]) \in SearchStates(M)
    BY <2>5, <2>6, MeetAllStays
  <2> QED
    BY <2>3, <2>4, <2>7
<1> QED
  BY <1>2, <1>3

LEMMA SearchStays ==
  ASSUME NEW M \in SUBSET Ids, NEW q \in Ids, NEW graph, \A i \in M : graph[i] \in Seq(M),
         NEW from \in M, NEW seen \in SUBSET Ids
  PROVE  GreedySearch(graph, from, q, seen).res \in SUBSET M
<1> DEFINE b == [cand |-> {from}, res |-> {from}, marked |-> seen \cup {from}]
           next(x) == ExpandNearest(graph, q, x)
           Rule(f) == f = [k \in 0 .. N |-> IF k = 0 THEN b ELSE next(f[k - 1])]
           U == SearchStates(M)
           F == [k \in 1 .. N |-> [x \in U |-> next(x)]]
<1>1. N \in Nat /\ b \in U
  BY BuildAssumption DEF SearchStates
<1>2. \A x \in U : next(x) \in U
  BY ExpandStays
<1> HIDE DEF b, next, U
<1>3. F \in [1 .. N -> [U -> U]]
  BY <1>2
<1>4. \E f : Rule(f)
  <2>1. PICK f \in [0 .. N -> U] : Follows(f, N, b, F)
    <3> HIDE DEF F
    <3> QED
      BY <1>1, <1>3, RecursionExists
  <2>2. \A k \in 0 .. N : f[k] = IF k = 0 THEN b ELSE next(f[k - 1])
    <3>1. TAKE k \in 0 .. N
    <3>2. CASE k = 0
      BY <2>1, <3>2 DEF Follows
    <3>3. CASE k # 0
      <4>1. k \in 1 .. N /\ k - 1 \in 0 .. N
        BY <1>1, <3>3
      <4> QED
        BY <2>1, <3>3, <4>1 DEF Follows
    <3> QED
      BY <3>2, <3>3
  <2>3. f = [k \in 0 .. N |-> f[k]]
    OBVIOUS
  <2>4. Rule(f)
    <3> HIDE DEF F
    <3> QED
      BY <2>2, <2>3
  <2> QED
    BY <2>4
<1> DEFINE g == CHOOSE f : Rule(f)
<1>5. Rule(g)
  BY <1>4
<1>6. GreedySearch(graph, from, q, seen) = g[N]
  BY DEF GreedySearch, next, b
<1> HIDE DEF g
<1> DEFINE Ok == [k \in 0 .. N |-> U]
<1>7. g[0] \in Ok[0]
  BY <1>1, <1>5
<1>8. \A k \in 1 .. N : g[k - 1] \in Ok[k - 1] => g[k] \in Ok[k]
  <2>1. TAKE k \in 1 .. N
  <2>2. k \in 0 .. N /\ k - 1 \in 0 .. N /\ k # 0
    BY <1>1
  <2>3. g[k] = next(g[k - 1])
    BY <1>5, <2>2
  <2> QED
    BY <1>2, <2>2, <2>3
<1>9. g[N] \in Ok[N]
  <2> HIDE DEF Ok
  <2>1. \A k \in 0 .. N : g[k] \in Ok[k]
    BY <1>1, <1>7, <1>8, StepsKeep
  <2> QED
    BY <1>1, <2>1
<1>10. g[N] \in U
  <2>1. Ok[N] = U
    BY <1>1
  <2> QED
    BY <1>9, <2>1
<1>11. g[N].res \in SUBSET M
  BY <1>10 DEF U, SearchStates
<1> QED
  BY <1>6, <1>11

-----------------------------------------------------------------------------
(* The graph of a layer.                                                   *)

Layer == Members(layer)

\* Lists of other nodes of M, each node once, and no more than R.
GoodLists(g, M, R) ==
  \A i \in DOMAIN g : g[i] \in Seq(M \ {i}) /\ Len(g[i]) <= R /\ IsInjective(g[i])

Numbers == levels \in [Ids -> Nat] /\ layer \in Nat

\* The entry point is on the highest level, and what is stored is closed.
Stored ==
  phase \notin {"levels", "ended"} =>
    /\ entry_point \in Ids /\ \A i \in Ids : levels[i] <= levels[entry_point]
    /\ DOMAIN upper_adj = Ids
    /\ \A i \in Ids : /\ DOMAIN upper_adj[i] = 1 .. levels[i]
                      /\ \A l \in 1 .. levels[i] : upper_adj[i][l] \in Seq(Members(l))

\* The lists of the builder are over the nodes of its layer.
OverLayer ==
  /\ phase \in {"forward", "prune", "store"} =>
       /\ DOMAIN out = Layer /\ DOMAIN nxt = Layer /\ todo \subseteq Layer
       /\ start \in Layer
  /\ phase \notin {"forward", "prune", "store"} => out = <<>> /\ nxt = <<>>
  /\ GoodLists(out, Layer, Degree)
  /\ GoodLists(nxt, Layer, Degree)

\* What the second loop has made so far.
Reversed ==
  /\ phase \in {"prune", "store"} =>
       \A i \in Layer \ todo :
         out[i] = RobustPrune(i, ToSet(nxt[i]) \cup Incoming(i), Alpha, Degree)
  /\ phase = "store" => todo = {}

GraphInv == Numbers /\ Stored /\ OverLayer /\ Reversed

LEMMA LayerTyped == Layer \in SUBSET Ids /\ Degree \in Nat
BY BuildAssumption DEF Layer, Members, Degree

LEMMA Widened ==
  ASSUME NEW S, NEW T, S \subseteq T, NEW s \in Seq(S)
  PROVE  s \in Seq(T) /\ ToSet(s) \subseteq S
BY DEF ToSet

LEMMA PrunedIsGood ==
  ASSUME NEW M \in SUBSET Ids, NEW i \in Ids, NEW S \in SUBSET M, NEW alpha, NEW R \in Nat
  PROVE  LET r == RobustPrune(i, S, alpha, R)
         IN  r \in Seq(M \ {i}) /\ Len(r) <= R /\ IsInjective(r)
<1> DEFINE r == RobustPrune(i, S, alpha, R)
<1>1. r \in Seq(S \ {i}) /\ Len(r) <= R /\ IsInjective(r)
  BY RobustPruneRight
<1> HIDE DEF r
<1>2. r \in Seq(M \ {i})
  BY <1>1, Widened
<1> QED
  BY <1>1, <1>2 DEF r

LEMMA OneListGood ==
  ASSUME NEW M, NEW R, NEW g, GoodLists(g, M, R), NEW i \in DOMAIN g, NEW s,
         s \in Seq(M \ {i}) /\ Len(s) <= R /\ IsInjective(s)
  PROVE  GoodLists([g EXCEPT ![i] = s], M, R)
BY DEF GoodLists

LEMMA NoListsGood ==
  ASSUME NEW M, NEW R
  PROVE  DOMAIN << >> = {} /\ GoodLists(<<>>, M, R)
BY DEF GoodLists

LEMMA EmptyListsGood ==
  ASSUME NEW S, NEW M, NEW R \in Nat
  PROVE  GoodLists([i \in S |-> <<>>], M, R)
<1>1. Len(<<>>) = 0 /\ IsInjective(<<>>)
  BY DEF IsInjective
<1> QED
  BY <1>1 DEF GoodLists

LEMMA SeqOfSet ==
  ASSUME NEW S \in SUBSET Ids
  PROVE  /\ SetToSeq(S) \in Seq(S) /\ Len(SetToSeq(S)) = Cardinality(S)
         /\ IsInjective(SetToSeq(S))
<1> DEFINE n == Cardinality(S)
<1>1. IsFiniteSet(S) /\ n \in Nat
  BY IdsFinite
<1>2. PICK f \in Bijection(1 .. n, S) : TRUE
  BY <1>1, FS_CardinalityType DEF ExistsBijection
<1>3. f \in [1 .. n -> S] /\ IsInjective(f)
  BY <1>2 DEF Bijection, Injection
<1>4. SetToSeq(S) \in [1 .. n -> S] /\ IsInjective(SetToSeq(S))
  BY <1>3 DEF SetToSeq
<1> QED
  BY <1>1, <1>4

LEMMA MinOfTwo ==
  ASSUME NEW a \in Int, NEW b \in Int
  PROVE  Min({a, b}) \in {a, b} /\ Min({a, b}) <= a /\ Min({a, b}) <= b
<1>1. \E x \in {a, b} : \A y \in {a, b} : x =< y
  BY DEF Min
<1> QED
  BY <1>1 DEF Min

LEMMA IdsAre == Ids \in SUBSET Nat /\ 0 \in Ids
<1>1. N \in Nat /\ N # 0
  BY BuildAssumption
<1>2. 0 \in 0 .. N - 1 /\ 0 .. N - 1 \in SUBSET Nat
  BY <1>1
<1> QED
  BY <1>2 DEF Ids

\* A function on the nodes has a greatest value.
LEMMA GreatestExists ==
  ASSUME NEW l \in [Ids -> Nat]
  PROVE  \E i \in Ids : \A j \in Ids : l[j] <= l[i]
<1> DEFINE Lt == { x \in Ids \X Ids : l[x[2]] < l[x[1]] \/ (l[x[1]] = l[x[2]] /\ x[1] < x[2]) }
<1>1. Ids \subseteq Nat /\ Ids # {}
  BY IdsAre
<1>2. \A u \in Ids, v \in Ids :
        <<u, v>> \in Lt <=> l[v] < l[u] \/ (l[u] = l[v] /\ u < v)
  OBVIOUS
<1>3. \A u \in Ids, v \in Ids : u # v => <<u, v>> \in Lt \/ <<v, u>> \in Lt
  BY <1>1, <1>2
<1>4. \A u \in Ids, v \in Ids, w \in Ids :
        <<u, v>> \in Lt /\ <<v, w>> \in Lt => <<u, w>> \in Lt
  BY <1>1, <1>2
<1>5. \E u \in Ids : \A v \in Ids \ {u} : <<u, v>> \in Lt
  <2>1. IsFiniteSet(Ids) /\ Lt \in SUBSET (Ids \X Ids)
    BY IdsFinite
  <2> HIDE DEF Lt
  <2> QED
    BY <1>1, <1>3, <1>4, <2>1, FirstExists
<1>6. PICK u \in Ids : \A v \in Ids \ {u} : <<u, v>> \in Lt
  BY <1>5
<1>7. \A j \in Ids : l[j] <= l[u]
  <2>1. TAKE j \in Ids
  <2>2. l[j] \in Nat /\ l[u] \in Nat
    OBVIOUS
  <2>3. CASE j = u
    BY <2>2, <2>3
  <2>4. CASE j # u
    <3>1. <<u, j>> \in Lt
      BY <1>6, <2>4
    <3>2. l[j] < l[u] \/ l[u] = l[j]
      BY <1>2, <3>1
    <3> QED
      BY <2>2, <3>2
  <2> QED
    BY <2>3, <2>4
<1> QED
  BY <1>7

LEMMA AssignLevelsSound ==
  ASSUME GraphInv, AssignLevels
  PROVE  GraphInv'
<1>1. PICK l \in LevelChoices :
        /\ levels' = l
        /\ max_level' = Max({ l[i] : i \in Ids })
        /\ entry_point' = Min({ i \in Ids : \A j \in Ids : l[j] <= l[i] })
  BY DEF AssignLevels
<1>2. l \in [Ids -> Nat]
  BY BuildAssumption
<1>3. PICK top \in Ids : \A j \in Ids : l[j] <= l[top]
  BY <1>2, GreatestExists
<1>4. max_level' \in Nat
  <2>1. \E x \in { l[i] : i \in Ids } : \A y \in { l[i] : i \in Ids } : x >= y
    BY <1>2, <1>3
  <2>2. max_level' \in { l[i] : i \in Ids }
    BY <1>1, <2>1 DEF Max
  <2> QED
    BY <1>2, <2>2
<1>5. entry_point' \in Ids /\ \A j \in Ids : l[j] <= l[entry_point']
  <2> DEFINE T == { i \in Ids : \A j \in Ids : l[j] <= l[i] }
  <2>1. T \in SUBSET Nat /\ T # {}
    <3>1. top \in T
      BY <1>3
    <3> QED
      BY <3>1, IdsAre
  <2>2. \E x \in T : \A y \in T : x =< y
    <3> HIDE DEF T
    <3> QED
      BY <2>1, LeastNumber
  <2>3. entry_point' \in T
    <3> HIDE DEF T
    <3>1. entry_point' = Min(T)
      BY <1>1 DEF T
    <3> QED
      BY <2>2, <3>1 DEF Min
  <2> QED
    BY <2>3
<1>6. Numbers'
  BY <1>1, <1>2, <1>4 DEF AssignLevels, Numbers
<1>7. Stored'
  <2>1. upper_adj' = [i \in Ids |-> [k \in 1 .. levels'[i] |-> <<>>]]
    BY DEF AssignLevels
  <2>2. /\ DOMAIN upper_adj' = Ids
        /\ \A i \in Ids : /\ DOMAIN upper_adj'[i] = 1 .. levels'[i]
                          /\ \A k \in 1 .. levels'[i] : upper_adj'[i][k] = <<>>
    BY <2>1
  <2>3. \A S : <<>> \in Seq(S)
    OBVIOUS
  <2> QED
    BY <1>1, <1>5, <2>2, <2>3 DEF Stored
<1>8. OverLayer'
  <2>1. phase' = "layer" /\ out' = <<>> /\ nxt' = <<>>
    BY DEF AssignLevels, GraphInv, OverLayer
  <2> QED
    BY <2>1, NoListsGood DEF OverLayer
<1>9. Reversed'
  BY DEF AssignLevels, Reversed
<1> QED
  BY <1>6, <1>7, <1>8, <1>9 DEF GraphInv

LEMMA StartLayerSound ==
  ASSUME GraphInv, StartLayer
  PROVE  GraphInv'
<1> DEFINE ids == Members(layer)
           target == Min({Degree, Cardinality(ids) - 1})
<1>1. PICK pick \in [ids -> { S \in SUBSET ids :
                        Cardinality(S) \in Min({FewestPicks, target}) .. target }] :
        /\ \A i \in ids : i \notin pick[i]
        /\ out' = [i \in ids |-> SetToSeq(pick[i])]
  BY DEF StartLayer
<1>2. ids \in SUBSET Ids /\ Degree \in Nat /\ ids = Layer
  BY LayerTyped DEF Layer
<1>3. target <= Degree /\ target \in Int
  <2> DEFINE c == Cardinality(ids) - 1
  <2>1. c \in Int /\ Degree \in Int
    BY <1>2, IdsFinite
  <2> HIDE DEF c
  <2>2. Min({Degree, c}) \in {Degree, c} /\ Min({Degree, c}) <= Degree
    BY <2>1, MinOfTwo
  <2> QED
    BY <2>1, <2>2 DEF c
<1> HIDE DEF ids, target
<1>4. GoodLists(out', ids, Degree)
  <2>1. ASSUME NEW i \in ids
        PROVE  /\ out'[i] \in Seq(ids \ {i}) /\ Len(out'[i]) <= Degree
               /\ IsInjective(out'[i])
    <3>1. pick[i] \in SUBSET ids /\ i \notin pick[i] /\ Cardinality(pick[i]) <= target
      BY <1>1, <1>3
    <3>2. pick[i] \in SUBSET Ids /\ pick[i] \subseteq ids \ {i}
      BY <1>2, <3>1
    <3>3. /\ SetToSeq(pick[i]) \in Seq(pick[i]) /\ Len(SetToSeq(pick[i])) = Cardinality(pick[i])
          /\ IsInjective(SetToSeq(pick[i]))
      BY <3>2, SeqOfSet
    <3>4. Cardinality(pick[i]) \in Nat
      BY <3>2, IdsFinite
    <3>5. out'[i] = SetToSeq(pick[i])
      BY <1>1
    <3>6. SetToSeq(pick[i]) \in Seq(ids \ {i})
      BY <3>2, <3>3, Widened
    <3> QED
      BY <1>2, <1>3, <3>1, <3>3, <3>4, <3>5, <3>6
  <2>2. DOMAIN out' = ids
    BY <1>1
  <2> QED
    BY <2>1, <2>2 DEF GoodLists
<1>5. start' \in ids
  <2>1. PICK S \in SUBSET ids : start' \in Medoids(S)
    BY DEF StartLayer, ids
  <2> QED
    BY <2>1 DEF Medoids
<1>6. /\ phase' = "forward" /\ todo' = ids /\ DOMAIN out' = ids
      /\ nxt' = [i \in ids |-> <<>>] /\ UNCHANGED <<levels, layer, entry_point, upper_adj>>
  BY <1>1 DEF StartLayer, ids, levelVars
<1>7. Layer' = ids /\ Degree' = Degree
  BY <1>2, <1>6 DEF Layer, Members, Degree
<1>8. GoodLists(nxt', ids, Degree)
  BY <1>2, <1>6, EmptyListsGood
<1>9. Numbers'
  BY <1>6 DEF GraphInv, Numbers
<1>10. Stored'
  <2>1. phase \notin {"levels", "ended"}
    BY DEF StartLayer
  <2> QED
    BY <1>6, <2>1 DEF GraphInv, Stored, Members
<1>11. OverLayer'
  BY <1>4, <1>5, <1>6, <1>7, <1>8 DEF OverLayer
<1>12. Reversed'
  BY <1>6 DEF Reversed
<1> QED
  BY <1>9, <1>10, <1>11, <1>12 DEF GraphInv

LEMMA ForwardSound ==
  ASSUME GraphInv, MarksOld, NEW t \in Workers, Forward(t)
  PROVE  GraphInv'
<1> DEFINE found(i) == GreedySearch(out, start, i, {})
           new(i) == Forwarded(out, Degree, i, found(i))
<1>1. PICK i \in todo : nxt' = [nxt EXCEPT ![i] = new(i)] /\ todo' = todo \ {i}
  BY ForwardMarks
<1>2. /\ phase = "forward" /\ phase' = phase
      /\ UNCHANGED <<levels, layer, entry_point, upper_adj, out, start>>
  BY DEF Forward, levelVars
<1>3. Layer \in SUBSET Ids /\ Degree \in Nat /\ Layer' = Layer /\ Degree' = Degree
  BY <1>2, LayerTyped DEF Layer, Members, Degree
<1>4. /\ DOMAIN out = Layer /\ DOMAIN nxt = Layer /\ todo \subseteq Layer /\ start \in Layer
      /\ GoodLists(out, Layer, Degree) /\ GoodLists(nxt, Layer, Degree)
  BY <1>2 DEF GraphInv, OverLayer
<1>5. i \in Layer /\ i \in Ids
  BY <1>3, <1>4
<1>6. \A j \in Layer : out[j] \in Seq(Layer) /\ ToSet(out[j]) \subseteq Layer
  <2>1. TAKE j \in Layer
  <2>2. out[j] \in Seq(Layer \ {j})
    BY <1>4 DEF GoodLists
  <2> QED
    BY <2>2, Widened
<1>7. found(i).res \in SUBSET Layer
  <2>1. {} \in SUBSET Ids
    OBVIOUS
  <2> QED
    BY <1>3, <1>4, <1>5, <1>6, <2>1, SearchStays
<1>8. /\ new(i) \in Seq(Layer \ {i}) /\ Len(new(i)) <= Degree /\ IsInjective(new(i))
  <2> DEFINE S == found(i).res \cup ToSet(out[i])
  <2>1. S \in SUBSET Layer
    BY <1>5, <1>6, <1>7
  <2>2. new(i) = RobustPrune(i, S, Alpha, Degree)
    BY DEF Forwarded
  <2> HIDE DEF S, new
  <2>3. LET r == RobustPrune(i, S, Alpha, Degree)
        IN  r \in Seq(Layer \ {i}) /\ Len(r) <= Degree /\ IsInjective(r)
    BY <1>3, <1>5, <2>1, PrunedIsGood
  <2> QED
    BY <2>2, <2>3
<1> HIDE DEF new
<1>9. GoodLists(nxt', Layer, Degree)
  BY <1>1, <1>4, <1>5, <1>8, OneListGood
<1>10. OverLayer'
  BY <1>1, <1>2, <1>3, <1>4, <1>9 DEF OverLayer
<1>11. Numbers' /\ Stored' /\ Reversed'
  BY <1>2 DEF GraphInv, Numbers, Stored, Reversed, Members
<1> QED
  BY <1>10, <1>11 DEF GraphInv

LEMMA IncomingWithin ==
  ASSUME GraphInv, phase \in {"forward", "prune", "store"}, NEW i \in Layer
  PROVE  ToSet(nxt[i]) \cup Incoming(i) \in SUBSET Layer
<1>1. DOMAIN nxt = Layer /\ nxt[i] \in Seq(Layer \ {i})
  BY DEF GraphInv, OverLayer, GoodLists
<1>2. ToSet(nxt[i]) \subseteq Layer
  BY <1>1, Widened
<1> QED
  BY <1>1, <1>2 DEF Incoming

LEMMA PruneOnceSound ==
  ASSUME GraphInv, PruneOnce
  PROVE  GraphInv'
<1> DEFINE new(i) == RobustPrune(i, ToSet(nxt[i]) \cup Incoming(i), Alpha, Degree)
<1>1. PICK i \in todo : out' = [out EXCEPT ![i] = new(i)] /\ todo' = todo \ {i}
  BY DEF PruneOnce
<1>2. /\ phase = "prune" /\ phase' = phase
      /\ UNCHANGED <<levels, layer, entry_point, upper_adj, nxt, start>>
  BY DEF PruneOnce, levelVars
<1>3. Layer \in SUBSET Ids /\ Degree \in Nat /\ Layer' = Layer /\ Degree' = Degree
  BY <1>2, LayerTyped DEF Layer, Members, Degree
<1>4. /\ DOMAIN out = Layer /\ DOMAIN nxt = Layer /\ todo \subseteq Layer /\ start \in Layer
      /\ GoodLists(out, Layer, Degree) /\ GoodLists(nxt, Layer, Degree)
  BY <1>2 DEF GraphInv, OverLayer
<1>5. i \in Layer /\ i \in Ids
  BY <1>3, <1>4
<1>6. /\ new(i) \in Seq(Layer \ {i}) /\ Len(new(i)) <= Degree /\ IsInjective(new(i))
  <2> DEFINE S == ToSet(nxt[i]) \cup Incoming(i)
  <2>1. S \in SUBSET Layer
    BY <1>2, <1>5, IncomingWithin
  <2> HIDE DEF S
  <2>2. LET r == RobustPrune(i, S, Alpha, Degree)
        IN  r \in Seq(Layer \ {i}) /\ Len(r) <= Degree /\ IsInjective(r)
    BY <1>3, <1>5, <2>1, PrunedIsGood
  <2> QED
    BY <2>2 DEF S
<1>7. \A j \in Layer \ todo : out[j] = new(j)
  BY <1>2 DEF GraphInv, Reversed
<1>8. \A j \in Layer : RobustPrune(j, ToSet(nxt[j]) \cup Incoming(j), Alpha, Degree)' = new(j)
  BY <1>2, <1>3 DEF Incoming
<1> HIDE DEF new
<1>9. GoodLists(out', Layer, Degree)
  BY <1>1, <1>4, <1>5, <1>6, OneListGood
<1>10. OverLayer'
  BY <1>1, <1>2, <1>3, <1>4, <1>9 DEF OverLayer
<1>11. \A j \in Layer \ todo' : out'[j] = new(j)
  <2>1. TAKE j \in Layer \ todo'
  <2>2. CASE j = i
    BY <1>1, <1>4, <1>5, <2>2
  <2>3. CASE j # i
    BY <1>1, <1>4, <1>7, <2>3
  <2> QED
    BY <2>2, <2>3
<1>12. Reversed'
  BY <1>2, <1>3, <1>8, <1>11 DEF Reversed
<1>13. Numbers' /\ Stored'
  BY <1>2 DEF GraphInv, Numbers, Stored, Members
<1> QED
  BY <1>10, <1>12, <1>13 DEF GraphInv

LEMMA EndsSound ==
  ASSUME GraphInv, EndForward \/ EndRound
  PROVE  GraphInv'
<1>1. /\ UNCHANGED <<levels, layer, entry_point, upper_adj, out, start>>
      /\ phase \in {"forward", "prune"} /\ phase' \in {"forward", "prune", "store"}
  BY DEF EndForward, EndRound, levelVars
<1>2. Layer \in SUBSET Ids /\ Degree \in Nat /\ Layer' = Layer /\ Degree' = Degree
  BY <1>1, LayerTyped DEF Layer, Members, Degree
<1>3. /\ DOMAIN out = Layer /\ DOMAIN nxt = Layer /\ todo \subseteq Layer /\ start \in Layer
      /\ GoodLists(out, Layer, Degree) /\ GoodLists(nxt, Layer, Degree)
  BY <1>1 DEF GraphInv, OverLayer
<1>4. todo' \subseteq Layer
  BY <1>3 DEF EndForward, EndRound
<1>5. DOMAIN nxt' = Layer /\ GoodLists(nxt', Layer, Degree)
  <2>1. CASE nxt' = nxt
    BY <1>3, <2>1
  <2>2. CASE nxt' = [i \in DOMAIN out |-> <<>>]
    BY <1>2, <1>3, <2>2, EmptyListsGood
  <2> QED
    BY <2>1, <2>2 DEF EndForward, EndRound
<1>6. OverLayer'
  BY <1>1, <1>2, <1>3, <1>4, <1>5 DEF OverLayer
<1>7. Reversed'
  <2>1. CASE EndForward
    <3>1. phase' = "prune" /\ todo' = Layer
      BY <1>3, <2>1 DEF EndForward
    <3> QED
      BY <1>2, <3>1 DEF Reversed
  <2>2. CASE EndRound /\ round < Rounds
    BY <2>2 DEF EndRound, Reversed
  <2>3. CASE EndRound /\ ~(round < Rounds)
    <3>1. phase = "prune" /\ phase' = "store" /\ todo = {} /\ UNCHANGED <<nxt, todo, out>>
      BY <2>3 DEF EndRound
    <3>2. \A i \in Layer : Incoming(i)' = Incoming(i)
      BY <3>1 DEF Incoming
    <3>3. \A i \in Layer \ todo :
            out[i] = RobustPrune(i, ToSet(nxt[i]) \cup Incoming(i), Alpha, Degree)
      BY <3>1 DEF GraphInv, Reversed
    <3> QED
      BY <1>2, <3>1, <3>2, <3>3 DEF Reversed
  <2> QED
    BY <2>1, <2>2, <2>3
<1>8. Numbers' /\ Stored'
  <2>1. phase' \notin {"levels", "ended"} /\ phase \notin {"levels", "ended"}
    BY <1>1
  <2> QED
    BY <1>1, <2>1 DEF GraphInv, Numbers, Stored, Members
<1> QED
  BY <1>6, <1>7, <1>8 DEF GraphInv

LEMMA StoreLayerSound ==
  ASSUME GraphInv, StoreLayer
  PROVE  GraphInv'
<1>1. /\ phase = "store" /\ phase' \in {"second", "layer"}
      /\ out' = <<>> /\ nxt' = <<>> /\ UNCHANGED <<levels, entry_point>>
  BY DEF StoreLayer, levelVars
<1>2. Numbers'
  <2>1. layer \in Nat /\ levels \in [Ids -> Nat]
    BY DEF GraphInv, Numbers
  <2>2. CASE layer = 0
    BY <1>1, <2>1, <2>2 DEF StoreLayer, Numbers
  <2>3. CASE layer # 0
    <3>1. layer' = layer - 1
      BY <2>3 DEF StoreLayer
    <3>2. layer' \in Nat
      BY <2>1, <2>3, <3>1
    <3> QED
      BY <1>1, <2>1, <3>2 DEF Numbers
  <2> QED
    BY <2>2, <2>3
<1>3. OverLayer'
  <2>1. phase' \notin {"forward", "prune", "store"}
    BY <1>1
  <2> QED
    BY <1>1, <2>1, NoListsGood DEF OverLayer
<1>4. Reversed'
  BY <1>1 DEF Reversed
<1>5. /\ entry_point \in Ids /\ \A i \in Ids : levels[i] <= levels[entry_point]
      /\ DOMAIN upper_adj = Ids
      /\ \A i \in Ids : /\ DOMAIN upper_adj[i] = 1 .. levels[i]
                        /\ \A l \in 1 .. levels[i] : upper_adj[i][l] \in Seq(Members(l))
  BY <1>1 DEF GraphInv, Stored
<1>6. \A l : Members(l)' = Members(l)
  BY <1>1 DEF Members
<1>7. Stored'
  <2>1. CASE layer = 0
    <3>1. upper_adj' = upper_adj
      BY <2>1 DEF StoreLayer
    <3> QED
      BY <1>1, <1>5, <3>1 DEF Stored, Members
  <2>2. CASE layer # 0
    <3>1. upper_adj' = [i \in Ids |-> IF i \in DOMAIN out
                                      THEN [upper_adj[i] EXCEPT ![layer] = out[i]]
                                      ELSE upper_adj[i]]
      BY <2>2 DEF StoreLayer
    <3>2. DOMAIN out = Layer /\ \A i \in Layer : out[i] \in Seq(Layer)
      <4>1. DOMAIN out = Layer /\ GoodLists(out, Layer, Degree)
        BY <1>1 DEF GraphInv, OverLayer
      <4>2. \A i \in Layer : out[i] \in Seq(Layer \ {i})
        BY <4>1 DEF GoodLists
      <4> QED
        BY <4>1, <4>2, Widened
    <3>3. ASSUME NEW i \in Ids
          PROVE  /\ DOMAIN upper_adj'[i] = 1 .. levels[i]
                 /\ \A l \in 1 .. levels[i] : upper_adj'[i][l] \in Seq(Members(l))
      <4>1. CASE i \in Layer
        <5>1. upper_adj'[i] = [upper_adj[i] EXCEPT ![layer] = out[i]]
          BY <3>1, <3>2, <4>1
        <5>2. out[i] \in Seq(Members(layer))
          BY <3>2, <4>1 DEF Layer
        <5> QED
          BY <1>5, <5>1, <5>2
      <4>2. CASE i \notin Layer
        BY <1>5, <3>1, <3>2, <4>2
      <4> QED
        BY <4>1, <4>2
    <3>4. DOMAIN upper_adj' = Ids
      BY <3>1
    <3> QED
      BY <1>1, <1>5, <3>3, <3>4 DEF Stored, Members
  <2> QED
    BY <2>1, <2>2
<1> QED
  BY <1>2, <1>3, <1>4, <1>7 DEF GraphInv

\* The last pass and the export do not touch the lists of the layers.
LEMMA LastSound ==
  ASSUME GraphInv, SecondPass \/ Export \/ Extract
  PROVE  GraphInv'
<1>1. /\ phase \in {"second", "built", "levels"} /\ phase' \in {"built", "ended"}
      /\ phase' = "built" => phase = "second" /\ upper_adj' = upper_adj
      /\ UNCHANGED <<levels, entry_point, layer, out, nxt>>
  BY DEF SecondPass, Export, Extract, levelVars
<1>2. Numbers' /\ Reversed'
  BY <1>1 DEF GraphInv, Numbers, Reversed
<1>3. OverLayer'
  <2>1. out' = <<>> /\ nxt' = <<>> /\ phase' \notin {"forward", "prune", "store"}
    BY <1>1 DEF GraphInv, OverLayer
  <2> QED
    BY <2>1, NoListsGood DEF OverLayer
<1>4. Stored'
  <2>1. CASE phase' = "ended"
    BY <2>1 DEF Stored
  <2>2. CASE phase' = "built"
    <3>1. /\ entry_point \in Ids /\ \A i \in Ids : levels[i] <= levels[entry_point]
          /\ DOMAIN upper_adj = Ids
          /\ \A i \in Ids : /\ DOMAIN upper_adj[i] = 1 .. levels[i]
                            /\ \A l \in 1 .. levels[i] : upper_adj[i][l] \in Seq(Members(l))
      BY <1>1, <2>2 DEF GraphInv, Stored
    <3> QED
      BY <1>1, <2>2, <3>1 DEF Stored, Members
  <2> QED
    BY <1>1, <2>1, <2>2
<1> QED
  BY <1>2, <1>3, <1>4 DEF GraphInv

LEMMA InitGraph == PipelineInit => GraphInv
<1> SUFFICES ASSUME PipelineInit PROVE GraphInv
  OBVIOUS
<1>1. phase = "levels" /\ out = <<>> /\ nxt = <<>> /\ layer = 0 /\ levels = [i \in Ids |-> 0]
  BY DEF PipelineInit, BuildInit
<1> QED
  BY <1>1, NoListsGood DEF GraphInv, Numbers, Stored, OverLayer, Reversed

LEMMA BuildSound ==
  ASSUME GraphInv, MarksOld, BuildNext \/ Export \/ Extract \/ UNCHANGED buildVars
  PROVE  GraphInv'
<1>1. CASE UNCHANGED buildVars
  <2>1. UNCHANGED <<phase, levels, layer, entry_point, upper_adj, out, nxt, todo, start>>
    BY <1>1 DEF buildVars, levelVars
  <2>2. Layer' = Layer /\ Degree' = Degree /\ \A l : Members(l)' = Members(l)
    BY <2>1 DEF Layer, Members, Degree
  <2>3. Numbers'
    BY <2>1 DEF GraphInv, Numbers
  <2>4. Stored'
    BY <2>1 DEF GraphInv, Stored, Members
  <2>5. OverLayer'
    BY <2>1, <2>2 DEF GraphInv, OverLayer
  <2>6. Reversed'
    BY <2>1, <2>2 DEF GraphInv, Reversed, Incoming
  <2> QED
    BY <2>3, <2>4, <2>5, <2>6 DEF GraphInv
<1> QED
  BY <1>1, AssignLevelsSound, StartLayerSound, ForwardSound, EndsSound, PruneOnceSound,
     StoreLayerSound, LastSound DEF BuildNext

LEMMA InvariantIsSound == GraphInv => GraphIsSound
<1> SUFFICES ASSUME GraphInv PROVE GraphIsSound
  OBVIOUS
<1>1. Layer \in SUBSET Ids /\ Degree \in Nat
  BY LayerTyped
<1>2. GoodLists(out, Layer, Degree) /\ GoodLists(nxt, Layer, Degree)
  BY DEF GraphInv, OverLayer
<1>3. \A g : GoodLists(g, Layer, Degree) =>
        \A i \in DOMAIN g : /\ Len(g[i]) <= Degree /\ i \notin ToSet(g[i])
                            /\ IsInjective(g[i]) /\ ToSet(g[i]) \subseteq Layer
  <2>1. SUFFICES ASSUME NEW g, GoodLists(g, Layer, Degree), NEW i \in DOMAIN g
                 PROVE  /\ Len(g[i]) <= Degree /\ i \notin ToSet(g[i])
                        /\ IsInjective(g[i]) /\ ToSet(g[i]) \subseteq Layer
    OBVIOUS
  <2>2. g[i] \in Seq(Layer \ {i}) /\ Len(g[i]) <= Degree /\ IsInjective(g[i])
    BY <2>1 DEF GoodLists
  <2>3. ToSet(g[i]) \subseteq Layer \ {i}
    BY <2>2, Widened
  <2> QED
    BY <2>2, <2>3
<1>4. ListsAreBounded
  BY <1>2, <1>3 DEF ListsAreBounded
<1>5. EdgesGoBothWays
  <2>1. SUFFICES ASSUME phase = "store", NEW i \in DOMAIN nxt, NEW j \in ToSet(nxt[i])
                 PROVE  i \in ToSet(out[j]) \/ Spared(j, i, out[j], Alpha, Degree)
    BY DEF EdgesGoBothWays, Spared
  <2>2. /\ DOMAIN nxt = Layer /\ todo = {}
        /\ \A k \in Layer \ todo :
             out[k] = RobustPrune(k, ToSet(nxt[k]) \cup Incoming(k), Alpha, Degree)
    BY <2>1 DEF GraphInv, OverLayer, Reversed
  <2>3. j \in Layer /\ j \in Ids /\ i \in Layer /\ i # j
    BY <1>1, <1>2, <1>3, <2>2
  <2> DEFINE S == ToSet(nxt[j]) \cup Incoming(j)
  <2>4. i \in S \ {j}
    BY <2>3 DEF Incoming
  <2>5. S \in SUBSET Ids
    BY <1>1, <2>1, <2>3, IncomingWithin
  <2>6. out[j] = RobustPrune(j, S, Alpha, Degree)
    BY <2>2, <2>3
  <2> HIDE DEF S
  <2>7. LET r == RobustPrune(j, S, Alpha, Degree)
        IN  \A v \in S \ {j} : v \in ToSet(r) \/ Spared(j, v, r, Alpha, Degree)
    BY <1>1, <2>3, <2>5, RobustPruneRight
  <2> QED
    BY <2>4, <2>6, <2>7
<1>6. LayersAreClosed
  <2>1. SUFFICES ASSUME phase = "built" PROVE LayersAreClosed
    BY DEF LayersAreClosed
  <2>2. /\ \A i \in Ids : levels[i] <= levels[entry_point]
        /\ \A i \in Ids : \A l \in 1 .. levels[i] : upper_adj[i][l] \in Seq(Members(l))
    BY <2>1 DEF GraphInv, Stored
  <2>3. \A i \in Ids : \A l \in 1 .. levels[i] :
          \A j \in ToSet(upper_adj[i][l]) : j \in Members(l)
    BY <2>2, Widened
  <2> QED
    BY <2>2, <2>3 DEF LayersAreClosed, Members
<1> QED
  BY <1>4, <1>5, <1>6 DEF GraphIsSound

\* Whatever the points, the degrees and the random choices, every list is within its
\* bounds, an edge of the first loop can be walked both ways after the second or is
\* covered, and the layers of the graph built are closed.
THEOREM BuiltGraphIsSound == PipelineSpec => []GraphIsSound
<1>1. PipelineInit => MarksOld /\ RoundsAreParallel
  BY BuildAssumption
     DEF PipelineInit, BuildInit, MarksOld, RoundsAreParallel, FreshMarks, FirstMarks
<1>2. /\ MarksOld /\ RoundsAreParallel /\ GraphInv /\ [PipelineNext]_pipelineVars
        => MarksOld' /\ RoundsAreParallel' /\ GraphInv'
  BY PipelineBuilds, BuildParallel, BuildSound
<1> QED
  BY <1>1, <1>2, InitGraph, InvariantIsSound, PTL DEF PipelineSpec


-----------------------------------------------------------------------------
(* Cells.                                                                  *)

\* The cells of f behind `at' are those of s.
Holds(f, at, s) ==
  /\ at \in Nat /\ at + Len(s) <= Len(f)
  /\ \A i \in 1 .. Len(s) : f[at + i] = s[i]

LEMMA ElementsMakeSeq ==
  ASSUME NEW A, NEW s \in Seq(A), NEW t \in Seq(A), Len(s) = Len(t),
         \A i \in 1 .. Len(s) : s[i] = t[i]
  PROVE  s = t
<1>1. PICK n \in Nat : n = Len(s)
  OBVIOUS
<1>2. s \in [1 .. n -> A] /\ t \in [1 .. n -> A]
  BY <1>1
<1> QED
  BY <1>1, <1>2

LEMMA NothingBefore ==
  ASSUME NEW A, NEW s \in Seq(A)
  PROVE  <<>> \o s = s
<1>1. PICK t \in Seq(A) : t = <<>> \o s /\ Len(t) = Len(s)
  OBVIOUS
<1>2. \A i \in 1 .. Len(s) : t[i] = s[i]
  BY <1>1
<1> QED
  BY <1>1, <1>2, ElementsMakeSeq

LEMMA HoldsPart ==
  ASSUME NEW A, NEW f \in Seq(A), NEW s \in Seq(A), NEW t \in Seq(A), NEW a, NEW b,
         Holds(f, a, s), Holds(s, b, t)
  PROVE  Holds(f, a + b, t)
<1>1. a + b \in Nat /\ a + b + Len(t) <= Len(f)
  BY DEF Holds
<1>2. ASSUME NEW i \in 1 .. Len(t) PROVE f[a + b + i] = t[i]
  <2>1. b + i \in 1 .. Len(s) /\ s[b + i] = t[i]
    BY DEF Holds
  <2>2. f[a + (b + i)] = s[b + i]
    BY <2>1 DEF Holds
  <2>3. a + (b + i) = a + b + i
    BY DEF Holds
  <2> QED
    BY <2>1, <2>2, <2>3
<1> QED
  BY <1>1, <1>2 DEF Holds

LEMMA HoldsConcat ==
  ASSUME NEW A, NEW s \in Seq(A), NEW t \in Seq(A)
  PROVE  /\ s \o t \in Seq(A) /\ Len(s \o t) = Len(s) + Len(t)
         /\ Holds(s \o t, 0, s) /\ Holds(s \o t, Len(s), t)
BY DEF Holds

LEMMA HoldsSubSeq ==
  ASSUME NEW A, NEW f \in Seq(A), NEW s \in Seq(A), NEW a, Holds(f, a, s)
  PROVE  SubSeq(f, a + 1, a + Len(s)) = s
<1>1. /\ a \in Nat /\ Len(s) \in Nat
      /\ a + 1 \in 1 .. Len(f) + 1 /\ a + Len(s) \in a .. Len(f)
  BY DEF Holds
<1> DEFINE u == SubSeq(f, a + 1, a + Len(s))
<1>2. u \in Seq(A) /\ Len(u) = Len(s) /\ \A i \in 1 .. Len(s) : u[i] = f[a + i]
  <2>1. u \in Seq(A) /\ Len(u) = Len(s)
    BY <1>1
  <2>2. ASSUME NEW i \in 1 .. Len(s) PROVE u[i] = f[a + i]
    <3>1. i \in 1 .. (a + Len(s)) - (a + 1) + 1 /\ (a + 1) + i - 1 = a + i
      BY <1>1
    <3> QED
      BY <1>1, <3>1
  <2> QED
    BY <2>1, <2>2
<1>3. \A i \in 1 .. Len(s) : u[i] = s[i]
  BY <1>2 DEF Holds
<1> HIDE DEF u
<1>4. u = s
  BY <1>2, <1>3, ElementsMakeSeq
<1> QED
  BY <1>4 DEF u

\* The parts of a sequence of sequences lie one behind the other.
LEMMA FlattenSeqHolds ==
  ASSUME NEW A, NEW ss \in Seq(Seq(A))
  PROVE  /\ FlattenSeq(ss) \in Seq(A)
         /\ \E ends \in [0 .. Len(ss) -> Nat] :
              /\ ends[0] = 0 /\ ends[Len(ss)] = Len(FlattenSeq(ss))
              /\ \A k \in 1 .. Len(ss) : /\ ends[k] = ends[k - 1] + Len(ss[k])
                                         /\ Holds(FlattenSeq(ss), ends[k - 1], ss[k])
<1> DEFINE n == Len(ss)
           Rule(f) == f = [i \in 1 .. n |-> IF i = 1 THEN ss[i] ELSE f[i - 1] \o ss[i]]
           F == [k \in 1 .. n |-> [x \in Seq(A) |-> x \o ss[k]]]
<1>1. n \in Nat /\ \A k \in 1 .. n : ss[k] \in Seq(A)
  OBVIOUS
<1>2. F \in [1 .. n -> [Seq(A) -> Seq(A)]]
  BY <1>1
<1>3. PICK g \in [0 .. n -> Seq(A)] : g[0] = <<>> /\ \A k \in 1 .. n : g[k] = F[k][g[k - 1]]
  <2> DEFINE U == Seq(A)
             nothing == <<>>
  <2>1. nothing \in U /\ n \in Nat /\ F \in [1 .. n -> [U -> U]]
    BY <1>1, <1>2
  <2>2. \E f \in [0 .. n -> U] : Follows(f, n, nothing, F)
    <3> HIDE DEF F, n, U, nothing
    <3> QED
      BY <2>1, RecursionExists
  <2> QED
    BY <2>2 DEF Follows
<1>4. \A k \in 1 .. n : g[k] = g[k - 1] \o ss[k]
  <2>1. \A k \in 1 .. n : k - 1 \in 0 .. n
    BY <1>1
  <2> HIDE DEF n
  <2> QED
    BY <1>3, <2>1
<1> HIDE DEF F
<1>5. \E f : Rule(f)
  <2> DEFINE h == [k \in 1 .. n |-> g[k]]
  <2>1. \A k \in 1 .. n : h[k] = IF k = 1 THEN ss[k] ELSE h[k - 1] \o ss[k]
    <3>1. TAKE k \in 1 .. n
    <3>2. CASE k = 1
      <4>1. g[1] = g[0] \o ss[1]
        <5>1. 1 \in 1 .. n /\ 1 - 1 = 0
          BY <3>2
        <5> QED
          BY <1>4, <5>1
      <4>2. <<>> \o ss[1] = ss[1]
        BY <1>1, <3>2, NothingBefore
      <4> QED
        BY <1>3, <3>2, <4>1, <4>2
    <3>3. CASE k # 1
      <4>1. k - 1 \in 1 .. n
        BY <1>1, <3>3
      <4> QED
        BY <1>4, <3>3, <4>1
    <3> QED
      BY <3>2, <3>3
  <2>2. h = [k \in 1 .. n |-> h[k]]
    OBVIOUS
  <2>3. Rule(h)
    <3> HIDE DEF n
    <3> QED
      BY <2>1, <2>2
  <2> QED
    BY <2>3
<1> DEFINE f == CHOOSE f : Rule(f)
<1>6. Rule(f)
  BY <1>5
<1>7. n # 0 => FlattenSeq(ss) = f[n]
  BY DEF FlattenSeq
<1>8. \A k \in 0 .. n : k > 0 => f[k] = g[k]
  <2> HIDE DEF f
  <2> DEFINE Ok == [k \in 0 .. n |-> IF k = 0 THEN {g[0]} ELSE {x \in {g[k]} : x = f[k]}]
  <2>1. g[0] \in Ok[0]
    BY <1>1
  <2>2. \A k \in 1 .. n : g[k - 1] \in Ok[k - 1] => g[k] \in Ok[k]
    <3>1. TAKE k \in 1 .. n
    <3>2. HAVE g[k - 1] \in Ok[k - 1]
    <3>3. k \in 0 .. n /\ k - 1 \in 0 .. n /\ k # 0
      BY <1>1
    <3>4. CASE k = 1
      <4>1. f[1] = ss[1]
        BY <1>6, <3>4
      <4>2. <<>> \o ss[1] = ss[1]
        BY <1>1, <3>4, NothingBefore
      <4>3. g[1] = g[0] \o ss[1]
        <5>1. 1 \in 1 .. n /\ 1 - 1 = 0
          BY <3>4
        <5> QED
          BY <1>4, <5>1
      <4> QED
        BY <1>3, <3>3, <3>4, <4>1, <4>2, <4>3
    <3>5. CASE k # 1
      <4>1. f[k] = f[k - 1] \o ss[k]
        BY <1>6, <3>5
      <4>2. f[k - 1] = g[k - 1]
        BY <3>2, <3>3, <3>5
      <4> QED
        BY <1>4, <3>3, <4>1, <4>2
    <3> QED
      BY <3>4, <3>5
  <2>3. \A k \in 0 .. n : g[k] \in Ok[k]
    <3> HIDE DEF Ok, n
    <3> QED
      BY <1>1, <2>1, <2>2, StepsKeep
  <2> QED
    BY <2>3
<1>9. FlattenSeq(ss) = g[n]
  <2>1. CASE n = 0
    <3>1. FlattenSeq(ss) = ss /\ ss = <<>>
      BY <2>1 DEF FlattenSeq
    <3> QED
      BY <1>3, <2>1, <3>1
  <2>2. CASE n # 0
    <3>1. n \in 0 .. n /\ n > 0
      BY <1>1, <2>2
    <3> HIDE DEF f, n
    <3> QED
      BY <1>7, <1>8, <2>2, <3>1
  <2> QED
    BY <2>1, <2>2
<1> DEFINE ends == [k \in 0 .. n |-> Len(g[k])]
<1>10. ends \in [0 .. n -> Nat] /\ ends[0] = 0 /\ ends[n] = Len(g[n])
  BY <1>1, <1>3
<1>11. \A k \in 1 .. n : ends[k] = ends[k - 1] + Len(ss[k])
  <2>1. TAKE k \in 1 .. n
  <2>2. k \in 0 .. n /\ k - 1 \in 0 .. n
    BY <1>1
  <2>3. g[k - 1] \in Seq(A) /\ ss[k] \in Seq(A)
    BY <1>1, <1>3, <2>2
  <2>4. Len(g[k - 1] \o ss[k]) = Len(g[k - 1]) + Len(ss[k])
    BY <2>3
  <2> QED
    BY <1>4, <2>2, <2>4
<1>12. \A k \in 0 .. n : \A j \in 1 .. k : Holds(g[k], ends[j - 1], ss[j])
  <2> DEFINE Ok == [k \in 0 .. n |-> { x \in Seq(A) : \A j \in 1 .. k : Holds(x, ends[j - 1], ss[j]) }]
  <2>1. g[0] \in Ok[0]
    BY <1>1, <1>3
  <2>2. \A k \in 1 .. n : g[k - 1] \in Ok[k - 1] => g[k] \in Ok[k]
    <3>1. TAKE k \in 1 .. n
    <3>2. HAVE g[k - 1] \in Ok[k - 1]
    <3>3. k \in 0 .. n /\ k - 1 \in 0 .. n /\ g[k] \in Seq(A) /\ g[k - 1] \in Seq(A)
      BY <1>1, <1>3
    <3>4. ASSUME NEW j \in 1 .. k PROVE Holds(g[k], ends[j - 1], ss[j])
      <4>1. CASE j = k
        <5>1. ends[k - 1] = Len(g[k - 1])
          BY <3>3
        <5>2. Holds(g[k - 1] \o ss[k], Len(g[k - 1]), ss[k])
          BY <1>1, <3>3, HoldsConcat
        <5> HIDE DEF ends
        <5> QED
          BY <1>4, <4>1, <5>1, <5>2
      <4>2. CASE j # k
        <5>1. j \in 1 .. k - 1 /\ j \in 1 .. n /\ k - 1 \in 0 .. n
          BY <1>1, <3>1, <4>2
        <5>2. Holds(g[k - 1], ends[j - 1], ss[j])
          <6> HIDE DEF ends
          <6> QED
            BY <3>2, <3>3, <5>1
        <5>3. Holds(g[k], 0, g[k - 1])
          <6>1. Holds(g[k - 1] \o ss[k], 0, g[k - 1])
            BY <1>1, <3>3, HoldsConcat
          <6> HIDE DEF ends
          <6> QED
            BY <1>4, <6>1
        <5>4. Holds(g[k], 0 + ends[j - 1], ss[j])
          <6> HIDE DEF ends
          <6> QED
            BY <1>1, <3>3, <5>1, <5>2, <5>3, HoldsPart
        <5>5. 0 + ends[j - 1] = ends[j - 1]
          <6>1. j - 1 \in 0 .. n
            BY <1>1, <5>1
          <6>2. ends[j - 1] \in Nat
            <7> HIDE DEF ends
            <7> QED
              BY <1>10, <6>1
          <6> HIDE DEF ends
          <6> QED
            BY <6>2
        <5> QED
          BY <5>4, <5>5
      <4> QED
        BY <4>1, <4>2
    <3> HIDE DEF ends
    <3> QED
      BY <3>3, <3>4
  <2>3. \A k \in 0 .. n : g[k] \in Ok[k]
    <3> HIDE DEF Ok, n
    <3> QED
      BY <1>1, <2>1, <2>2, StepsKeep
  <2> HIDE DEF ends
  <2> QED
    BY <2>3
<1>13. n \in 0 .. n
  BY <1>1
<1> HIDE DEF ends, n, f
<1>14. \A k \in 1 .. n : Holds(FlattenSeq(ss), ends[k - 1], ss[k])
  BY <1>9, <1>12, <1>13
<1>15. FlattenSeq(ss) \in Seq(A) /\ ends[n] = Len(FlattenSeq(ss))
  BY <1>3, <1>9, <1>10, <1>13
<1> QED
  BY <1>10, <1>11, <1>14, <1>15 DEF n

\* Two functions that begin alike and go on alike are alike.
GoOnAlike(f, g, n) ==
  f[0] = g[0] /\ \A k \in 1 .. n : f[k - 1] = g[k - 1] => f[k] = g[k]

LEMMA SameSteps ==
  ASSUME NEW n \in Nat, NEW f, NEW g, GoOnAlike(f, g, n)
  PROVE  \A k \in 0 .. n : f[k] = g[k]
<1> DEFINE Ok == [k \in 0 .. n |-> {g[k]}]
<1>1. f[0] \in Ok[0]
  BY DEF GoOnAlike
<1>2. \A k \in 1 .. n : f[k - 1] \in Ok[k - 1] => f[k] \in Ok[k]
  <2>1. TAKE k \in 1 .. n
  <2>2. k \in 0 .. n /\ k - 1 \in 0 .. n
    OBVIOUS
  <2> QED
    BY <2>2 DEF GoOnAlike
<1>3. \A k \in 0 .. n : f[k] \in Ok[k]
  <2> HIDE DEF Ok
  <2> QED
    BY <1>1, <1>2, StepsKeep
<1> QED
  BY <1>3

\* The cells of lists, one behind the other.
ListCells(lists) == FlattenSeq([i \in 1 .. Len(lists) |-> Listed(lists[i])])

LEMMA ListedIs ==
  ASSUME NEW s \in Seq(Int)
  PROVE  Listed(s) \in Seq(Int) /\ Len(Listed(s)) = 1 + Len(s) /\ Listed(s)[1] = Len(s)
         /\ Holds(Listed(s), 1, s)
<1>1. <<Len(s)>> \in Seq(Int) /\ Len(<<Len(s)>>) = 1
  OBVIOUS
<1>2. Holds(<<Len(s)>> \o s, Len(<<Len(s)>>), s)
  BY <1>1, HoldsConcat
<1>3. Listed(s)[1] = Len(s)
  BY <1>1 DEF Listed
<1> QED
  BY <1>1, <1>2, <1>3, HoldsConcat DEF Listed

LEMMA ListCellsTyped ==
  ASSUME NEW lists \in Seq(Seq(Int))
  PROVE  ListCells(lists) \in Seq(Int)
<1> DEFINE ss == [i \in 1 .. Len(lists) |-> Listed(lists[i])]
<1>1. ss \in Seq(Seq(Int))
  <2>1. \A i \in 1 .. Len(lists) : ss[i] \in Seq(Int)
    BY ListedIs
  <2> QED
    BY <2>1
<1> HIDE DEF ss
<1>2. FlattenSeq(ss) \in Seq(Int)
  BY <1>1, FlattenSeqHolds
<1> QED
  BY <1>2 DEF ListCells, ss

LEMMA ListsReadBack ==
  ASSUME NEW f \in Seq(Int), NEW lists \in Seq(Seq(Int)), NEW a,
         Holds(f, a, ListCells(lists))
  PROVE  /\ ReadLists(f, a, Len(lists)).at = a + Len(ListCells(lists))
         /\ ReadLists(f, a, Len(lists)).lists = lists
         /\ ListCells(lists) \in Seq(Int)
<1>0. PICK n \in Nat : n = Len(lists)
  OBVIOUS
<1> DEFINE ss == [i \in 1 .. n |-> Listed(lists[i])]
           behind(x) == x + 1 + f[x + 1]
           Rule(h) == h = [i \in 0 .. n |-> IF i = 0 THEN a ELSE behind(h[i - 1])]
<1>1. n \in Nat /\ \A i \in 1 .. n : lists[i] \in Seq(Int) /\ Len(lists[i]) \in Nat
  BY <1>0
<1>2. ss \in Seq(Seq(Int)) /\ Len(ss) = n
  <2>1. \A i \in 1 .. n : ss[i] \in Seq(Int)
    BY <1>1, ListedIs
  <2> QED
    BY <2>1
<1>3. FlattenSeq(ss) \in Seq(Int) /\ FlattenSeq(ss) = ListCells(lists)
  <2>1. FlattenSeq(ss) \in Seq(Int)
    <3> HIDE DEF ss
    <3> QED
      BY <1>2, FlattenSeqHolds
  <2> QED
    BY <1>0, <2>1 DEF ListCells
<1>4. PICK ends \in [0 .. n -> Nat] :
        /\ ends[0] = 0 /\ ends[n] = Len(FlattenSeq(ss))
        /\ \A k \in 1 .. n : /\ ends[k] = ends[k - 1] + Len(ss[k])
                             /\ Holds(FlattenSeq(ss), ends[k - 1], ss[k])
  <2> HIDE DEF ss
  <2> QED
    BY <1>2, FlattenSeqHolds
<1>5. a \in Nat
  BY DEF Holds
<1>6. \A k \in 1 .. n : /\ k - 1 \in 0 .. n /\ k \in 0 .. n
                        /\ ends[k] = ends[k - 1] + 1 + Len(lists[k])
                        /\ f[a + ends[k - 1] + 1] = Len(lists[k])
                        /\ Holds(f, a + ends[k - 1] + 1, lists[k])
  <2>1. TAKE k \in 1 .. n
  <2>2. k - 1 \in 0 .. n /\ k \in 0 .. n /\ ends[k - 1] \in Nat /\ ends[k] \in Nat
    BY <1>1, <1>4
  <2>3. ss[k] = Listed(lists[k]) /\ lists[k] \in Seq(Int)
    BY <1>1
  <2>4. /\ ss[k] \in Seq(Int) /\ Len(ss[k]) = 1 + Len(lists[k]) /\ ss[k][1] = Len(lists[k])
        /\ Holds(ss[k], 1, lists[k])
    BY <2>3, ListedIs
  <2>5. Holds(FlattenSeq(ss), ends[k - 1], ss[k]) /\ ends[k] = ends[k - 1] + Len(ss[k])
    BY <1>4
  <2>6. Holds(f, a + ends[k - 1], ss[k])
    <3> HIDE DEF ss
    <3> QED
      BY <1>3, <2>4, <2>5, HoldsPart
  <2>7. Holds(f, a + ends[k - 1] + 1, lists[k])
    <3> HIDE DEF ss
    <3> QED
      BY <2>3, <2>4, <2>6, HoldsPart
  <2>8. f[a + ends[k - 1] + 1] = Len(lists[k])
    <3>1. 1 \in 1 .. Len(ss[k])
      BY <2>3, <2>4
    <3> HIDE DEF ss
    <3> QED
      BY <2>4, <2>6, <3>1 DEF Holds
  <2>9. ends[k] = ends[k - 1] + 1 + Len(lists[k])
    <3>1. PICK m \in Nat : m = Len(lists[k])
      BY <2>3
    <3>2. PICK e \in Nat : e = ends[k - 1]
      BY <2>2
    <3>3. Len(ss[k]) = 1 + m
      BY <2>4, <3>1
    <3>4. ends[k] = e + (1 + m)
      <4> HIDE DEF ss
      <4> QED
        BY <2>5, <3>2, <3>3
    <3>5. e + (1 + m) = e + 1 + m
      OBVIOUS
    <3> HIDE DEF ss
    <3> QED
      BY <3>1, <3>2, <3>4, <3>5
  <2> QED
    BY <2>2, <2>7, <2>8, <2>9
<1> DEFINE g == [k \in 0 .. n |-> a + ends[k]]
<1> HIDE DEF ss
<1>7. \A k \in 1 .. n : g[k] = behind(g[k - 1])
  <2>1. TAKE k \in 1 .. n
  <2>2. /\ k - 1 \in 0 .. n /\ k \in 0 .. n
        /\ ends[k] = ends[k - 1] + 1 + Len(lists[k]) /\ f[a + ends[k - 1] + 1] = Len(lists[k])
    BY <1>6
  <2>3. ends[k - 1] \in Nat /\ Len(lists[k]) \in Nat
    BY <1>1, <1>4, <2>2
  <2>4. g[k] = a + ends[k] /\ g[k - 1] = a + ends[k - 1]
    BY <2>2
  <2>5. PICK m \in Nat : m = Len(lists[k])
    BY <2>3
  <2>6. PICK e \in Nat : e = ends[k - 1]
    BY <2>3
  <2>7. g[k] = a + (e + 1 + m) /\ g[k - 1] = a + e /\ f[a + e + 1] = m
    <3> HIDE DEF g
    <3> QED
      BY <2>2, <2>4, <2>5, <2>6
  <2>8. behind(a + e) = a + e + 1 + m /\ a + e + 1 + m = a + (e + 1 + m)
    BY <1>5, <2>7
  <2> HIDE DEF g, behind
  <2> QED
    BY <2>7, <2>8
<1>8. g[0] = a
  BY <1>1, <1>4, <1>5
<1>9. Rule(g)
  <2>1. g = [k \in 0 .. n |-> g[k]]
    OBVIOUS
  <2>2. \A k \in 0 .. n : g[k] = IF k = 0 THEN a ELSE behind(g[k - 1])
    <3>1. \A k \in 0 .. n : k # 0 => k \in 1 .. n
      BY <1>1
    <3> HIDE DEF g, behind
    <3> QED
      BY <1>7, <1>8, <3>1
  <2> HIDE DEF g, behind
  <2> QED
    BY <2>1, <2>2
<1> DEFINE h == CHOOSE h : Rule(h)
<1>10. Rule(h)
  <2> HIDE DEF g
  <2> QED
    BY <1>9
<1>11. \A k \in 0 .. n : h[k] = g[k]
  <2> HIDE DEF h, g
  <2>1. h[0] = g[0]
    BY <1>1, <1>8, <1>10
  <2>2. \A k \in 1 .. n : h[k - 1] = g[k - 1] => h[k] = g[k]
    <3>1. \A k \in 1 .. n : k \in 0 .. n /\ k # 0
      BY <1>1
    <3>2. \A k \in 1 .. n : h[k] = behind(h[k - 1])
      BY <1>10, <3>1
    <3> HIDE DEF behind
    <3> QED
      BY <1>7, <3>2
  <2>3. GoOnAlike(h, g, n)
    BY <2>1, <2>2 DEF GoOnAlike
  <2> QED
    BY <1>1, <2>3, SameSteps
<1>12. ReadLists(f, a, n) = [ at |-> h[n],
          lists |-> [i \in 1 .. n |-> SubSeq(f, h[i - 1] + 2, h[i])] ]
  BY DEF ReadLists
<1> HIDE DEF h
<1>13. h[n] = a + Len(ListCells(lists))
  <2>1. n \in 0 .. n
    BY <1>1
  <2> QED
    BY <1>3, <1>4, <1>11, <2>1
<1>14. \A i \in 1 .. n : SubSeq(f, h[i - 1] + 2, h[i]) = lists[i]
  <2>1. TAKE i \in 1 .. n
  <2>2. /\ i - 1 \in 0 .. n /\ i \in 0 .. n /\ ends[i] = ends[i - 1] + 1 + Len(lists[i])
        /\ Holds(f, a + ends[i - 1] + 1, lists[i])
    BY <1>6
  <2>3. h[i - 1] = a + ends[i - 1] /\ h[i] = a + ends[i]
    BY <1>11, <2>2
  <2>4. ends[i - 1] \in Nat /\ Len(lists[i]) \in Nat /\ lists[i] \in Seq(Int)
    BY <1>1, <1>4, <2>2
  <2>5. SubSeq(f, (a + ends[i - 1] + 1) + 1, (a + ends[i - 1] + 1) + Len(lists[i])) = lists[i]
    BY <2>2, <2>4, HoldsSubSeq
  <2>6. (a + ends[i - 1] + 1) + 1 = h[i - 1] + 2 /\ (a + ends[i - 1] + 1) + Len(lists[i]) = h[i]
    <3>1. PICK m \in Nat : m = Len(lists[i])
      BY <2>4
    <3>2. PICK e \in Nat : e = ends[i - 1]
      BY <2>4
    <3>3. h[i - 1] = a + e /\ h[i] = a + (e + 1 + m)
      BY <2>2, <2>3, <3>1, <3>2
    <3>4. (a + e + 1) + 1 = (a + e) + 2 /\ (a + e + 1) + m = a + (e + 1 + m)
      BY <1>5
    <3> QED
      BY <3>1, <3>2, <3>3, <3>4
  <2> QED
    BY <2>5, <2>6
<1>15. [i \in 1 .. n |-> SubSeq(f, h[i - 1] + 2, h[i])] = lists
  <2>1. lists = [i \in 1 .. n |-> lists[i]]
    BY <1>0
  <2> QED
    BY <1>14, <2>1
<1> QED
  BY <1>0, <1>3, <1>12, <1>13, <1>15

LEMMA EvenParts ==
  ASSUME NEW A, NEW ss \in Seq(Seq(A)), NEW d \in Nat, \A k \in 1 .. Len(ss) : Len(ss[k]) = d
  PROVE  /\ FlattenSeq(ss) \in Seq(A) /\ Len(FlattenSeq(ss)) = Len(ss) * d
         /\ \A k \in 1 .. Len(ss) : Holds(FlattenSeq(ss), (k - 1) * d, ss[k])
<1>0. PICK n \in Nat : n = Len(ss)
  OBVIOUS
<1>1. FlattenSeq(ss) \in Seq(A)
  BY FlattenSeqHolds
<1>2. PICK ends \in [0 .. n -> Nat] :
        /\ ends[0] = 0 /\ ends[n] = Len(FlattenSeq(ss))
        /\ \A k \in 1 .. n : /\ ends[k] = ends[k - 1] + Len(ss[k])
                             /\ Holds(FlattenSeq(ss), ends[k - 1], ss[k])
  BY <1>0, FlattenSeqHolds
<1> DEFINE g == [k \in 0 .. n |-> k * d]
<1>3. ends[0] = g[0]
  BY <1>0, <1>2
<1>4. \A k \in 1 .. n : ends[k - 1] = g[k - 1] => ends[k] = g[k]
  <2>1. TAKE k \in 1 .. n
  <2>2. HAVE ends[k - 1] = g[k - 1]
  <2>3. k \in 0 .. n /\ k - 1 \in 0 .. n
    BY <1>0
  <2>4. g[k] = k * d /\ g[k - 1] = (k - 1) * d
    BY <2>3
  <2>5. (k - 1) * d + d = k * d
    OBVIOUS
  <2>6. Len(ss[k]) = d
    BY <1>0
  <2> HIDE DEF g
  <2>7. ends[k] = (k - 1) * d + d
    BY <1>2, <2>2, <2>4, <2>6
  <2> QED
    BY <2>4, <2>5, <2>7
<1>5. \A k \in 0 .. n : ends[k] = k * d
  <2> HIDE DEF g
  <2>1. GoOnAlike(ends, g, n)
    BY <1>3, <1>4 DEF GoOnAlike
  <2>2. \A k \in 0 .. n : ends[k] = g[k]
    BY <1>0, <2>1, SameSteps
  <2> QED
    BY <2>2 DEF g
<1>6. \A k \in 1 .. n : k - 1 \in 0 .. n
  BY <1>0
<1>7. n \in 0 .. n
  BY <1>0
<1> QED
  BY <1>0, <1>1, <1>2, <1>5, <1>6, <1>7

UpperLists(upper, n) == FlattenSeq([i \in 1 .. n |-> ListCells(upper[i - 1])])

SetsOfLists(upper, lev, n) ==
  \A i \in 0 .. n - 1 : upper[i] \in Seq(Seq(Int)) /\ lev[i] = Len(upper[i])

LEMMA UpperReadBack ==
  ASSUME NEW f \in Seq(Int), NEW n \in Nat, NEW upper, NEW lev, NEW at,
         SetsOfLists(upper, lev, n), Holds(f, at, UpperLists(upper, n))
  PROVE  /\ ReadUpper(f, at, lev, n) = [i \in 0 .. n - 1 |-> upper[i]]
         /\ UpperLists(upper, n) \in Seq(Int)
<1> DEFINE ss == [i \in 1 .. n |-> ListCells(upper[i - 1])]
           behind(x, i) == ReadLists(f, x, lev[i - 1]).at
           Rule(h) == h = [i \in 0 .. n |-> IF i = 0 THEN at ELSE behind(h[i - 1], i)]
<1>1. \A i \in 1 .. n : i - 1 \in 0 .. n - 1 /\ upper[i - 1] \in Seq(Seq(Int))
                        /\ lev[i - 1] = Len(upper[i - 1])
  BY DEF SetsOfLists
<1>2. ss \in Seq(Seq(Int)) /\ Len(ss) = n
  <2>1. \A i \in 1 .. n : ss[i] \in Seq(Int)
    <3>1. TAKE i \in 1 .. n
    <3>2. ListCells(upper[i - 1]) \in Seq(Int)
      BY <1>1, ListCellsTyped
    <3> QED
      BY <3>2
  <2> QED
    BY <2>1
<1> HIDE DEF ss
<1>3. FlattenSeq(ss) \in Seq(Int)
  BY <1>2, FlattenSeqHolds
<1>4. PICK ends \in [0 .. n -> Nat] :
        /\ ends[0] = 0 /\ ends[n] = Len(FlattenSeq(ss))
        /\ \A k \in 1 .. n : /\ ends[k] = ends[k - 1] + Len(ss[k])
                             /\ Holds(FlattenSeq(ss), ends[k - 1], ss[k])
  BY <1>2, FlattenSeqHolds
<1>5. at \in Nat /\ Holds(f, at, FlattenSeq(ss))
  BY DEF Holds, ss, UpperLists
<1> DEFINE g == [k \in 0 .. n |-> at + ends[k]]
<1>6. ASSUME NEW k \in 1 .. n
      PROVE  /\ k - 1 \in 0 .. n /\ k \in 0 .. n
             /\ g[k] = behind(g[k - 1], k) /\ ReadLists(f, g[k - 1], lev[k - 1]).lists = upper[k - 1]
  <2>1. k - 1 \in 0 .. n /\ k \in 0 .. n
    OBVIOUS
  <2>2. PICK u \in Seq(Seq(Int)) : u = upper[k - 1]
    BY <1>1
  <2>3. ss[k] = ListCells(u) /\ ss[k] \in Seq(Int)
    BY <1>2, <2>2 DEF ss
  <2>4. Holds(f, at + ends[k - 1], ss[k])
    BY <1>3, <1>4, <1>5, <2>3, HoldsPart
  <2>5. PICK a : a = at + ends[k - 1]
    OBVIOUS
  <2>6. ReadLists(f, a, Len(u)).at = a + Len(ListCells(u)) /\ ReadLists(f, a, Len(u)).lists = u
    BY <2>3, <2>4, <2>5, ListsReadBack
  <2>7. lev[k - 1] = Len(u)
    BY <1>1, <2>2
  <2>8. g[k - 1] = a
    BY <2>1, <2>5
  <2>9. g[k] = a + Len(ListCells(u))
    <3>1. PICK e \in Nat : e = ends[k - 1]
      BY <1>4, <2>1
    <3>2. PICK m \in Nat : m = Len(ListCells(u))
      BY <2>3
    <3>3. ends[k] = e + m
      BY <1>4, <2>3, <3>1, <3>2
    <3>4. at + (e + m) = (at + e) + m
      BY <1>5
    <3>5. g[k] = at + ends[k]
      BY <2>1
    <3> HIDE DEF g
    <3> QED
      BY <2>5, <3>1, <3>2, <3>3, <3>4, <3>5
  <2> HIDE DEF g
  <2> QED
    BY <2>1, <2>2, <2>6, <2>7, <2>8, <2>9
<1>7. g[0] = at
  BY <1>4, <1>5
<1>8. Rule(g)
  <2>1. g = [k \in 0 .. n |-> g[k]]
    OBVIOUS
  <2>2. \A k \in 0 .. n : g[k] = IF k = 0 THEN at ELSE behind(g[k - 1], k)
    <3>1. \A k \in 0 .. n : k # 0 => k \in 1 .. n
      OBVIOUS
    <3> HIDE DEF g, behind
    <3> QED
      BY <1>6, <1>7, <3>1
  <2> HIDE DEF g, behind
  <2> QED
    BY <2>1, <2>2
<1> DEFINE h == CHOOSE h : Rule(h)
<1>9. Rule(h)
  <2> HIDE DEF g
  <2> QED
    BY <1>8
<1>10. \A k \in 0 .. n : h[k] = g[k]
  <2> HIDE DEF h, g
  <2>1. h[0] = g[0]
    BY <1>7, <1>9
  <2>2. \A k \in 1 .. n : h[k - 1] = g[k - 1] => h[k] = g[k]
    <3>1. \A k \in 1 .. n : k \in 0 .. n /\ k # 0
      OBVIOUS
    <3>2. \A k \in 1 .. n : h[k] = behind(h[k - 1], k)
      BY <1>9, <3>1
    <3> HIDE DEF behind
    <3> QED
      BY <1>6, <3>2
  <2>3. GoOnAlike(h, g, n)
    BY <2>1, <2>2 DEF GoOnAlike
  <2> QED
    BY <2>3, SameSteps
<1>11. ReadUpper(f, at, lev, n) = [i \in 0 .. n - 1 |-> ReadLists(f, h[i], lev[i]).lists]
  BY DEF ReadUpper
<1> HIDE DEF h, g
<1>12. \A i \in 0 .. n - 1 : ReadLists(f, h[i], lev[i]).lists = upper[i]
  <2>1. TAKE i \in 0 .. n - 1
  <2>2. i + 1 \in 1 .. n /\ i \in 0 .. n /\ (i + 1) - 1 = i
    OBVIOUS
  <2> QED
    BY <1>6, <1>10, <2>2
<1> QED
  BY <1>3, <1>11, <1>12 DEF ss, UpperLists

\* What a sequence holds, a longer one holds, too.
LEMMA HoldsMore ==
  ASSUME NEW A, NEW s \in Seq(A), NEW u \in Seq(A), NEW t \in Seq(A), NEW b, Holds(s, b, t)
  PROVE  Holds(s \o u, b, t)
<1>1. Holds(s \o u, 0, s) /\ s \o u \in Seq(A)
  BY HoldsConcat
<1>2. Holds(s \o u, 0 + b, t)
  BY <1>1, HoldsPart
<1>3. b \in Nat
  BY DEF Holds
<1> QED
  BY <1>2, <1>3

LEMMA NIs == N \in Nat /\ N # 0 /\ Dim \in Nat /\ Dim # 0
BY BuildAssumption, BlockFilesAssumption

BaseLists(g) == [i \in 1 .. N |-> g.adjacency0[i - 1]]
UpperCells(g) == UpperLists(g.upper_adjacency, N)

LEMMA GraphTyped ==
  ASSUME NEW g, IsGraph(g)
  PROVE  /\ \A i \in 1 .. N : i - 1 \in Ids
         /\ InOrder(g.levels, N) \in Seq(Int) /\ Len(InOrder(g.levels, N)) = N
         /\ InOrder(g.vectors, N) \in Seq(Seq(Int)) /\ Len(InOrder(g.vectors, N)) = N
         /\ InOrder(g.labels, N) \in Seq(Int) /\ Len(InOrder(g.labels, N)) = N
         /\ BaseLists(g) \in Seq(Seq(Int)) /\ Len(BaseLists(g)) = N
         /\ \A i \in 0 .. N - 1 : g.upper_adjacency[i] \in Seq(Seq(Int))
<1>1. \A i \in 1 .. N : i - 1 \in Ids
  BY NIs DEF Ids
<1>2. Ids \subseteq Int
  BY IdsAre
<1>3. \A i \in Ids : /\ g.levels[i] \in Int /\ g.vectors[i] \in Seq(Int) /\ g.labels[i] \in Int
                     /\ g.adjacency0[i] \in Seq(Int) /\ g.upper_adjacency[i] \in Seq(Seq(Int))
  <2>1. TAKE i \in Ids
  <2>2. g.levels[i] \in Int /\ g.vectors[i] \in Seq(Int) /\ g.labels[i] \in Int
    <3>1. g.levels[i] \in Nat /\ g.vectors[i] \in Seq(Int) /\ g.labels[i] \in Int
      BY DEF IsGraph
    <3>2. \A x \in Nat : x \in Int
      OBVIOUS
    <3> QED
      BY <3>1, <3>2
  <2>3. g.adjacency0[i] \in Seq(Ids \ {i}) /\ Ids \ {i} \subseteq Int
    BY <1>2 DEF IsGraph
  <2>4. g.adjacency0[i] \in Seq(Int)
    BY <2>3, Widened
  <2>5. g.upper_adjacency[i] \in Seq(Seq(Ids)) /\ Seq(Ids) \subseteq Seq(Int)
    <3>1. g.upper_adjacency[i] \in Seq(Seq(Ids))
      BY DEF IsGraph
    <3>2. \A s \in Seq(Ids) : s \in Seq(Int)
      BY <1>2, Widened
    <3> QED
      BY <3>1, <3>2
  <2>6. g.upper_adjacency[i] \in Seq(Seq(Int))
    BY <2>5, Widened
  <2> QED
    BY <2>2, <2>4, <2>6
<1>4. InOrder(g.levels, N) \in Seq(Int) /\ Len(InOrder(g.levels, N)) = N
  BY <1>1, <1>3, NIs DEF InOrder
<1>5. InOrder(g.vectors, N) \in Seq(Seq(Int)) /\ Len(InOrder(g.vectors, N)) = N
  BY <1>1, <1>3, NIs DEF InOrder
<1>6. InOrder(g.labels, N) \in Seq(Int) /\ Len(InOrder(g.labels, N)) = N
  BY <1>1, <1>3, NIs DEF InOrder
<1>7. BaseLists(g) \in Seq(Seq(Int)) /\ Len(BaseLists(g)) = N
  BY <1>1, <1>3, NIs DEF BaseLists
<1> QED
  BY <1>1, <1>3, <1>4, <1>5, <1>6, <1>7 DEF Ids

\* Where the parts of a saved graph are.
Saved(f, g) ==
  /\ f \in Seq(Int) /\ f[2] = N /\ f[3] = Dim /\ f[4] = g.entry_point /\ f[5] = g.max_level
  /\ f[6] = Dim
  /\ Holds(f, 7, InOrder(g.levels, N))
  /\ Holds(f, 7 + N, FlattenSeq(InOrder(g.vectors, N)))
  /\ Holds(f, 7 + N + N * Dim, InOrder(g.labels, N))
  /\ Holds(f, 7 + N + N * Dim + N, ListCells(BaseLists(g)))
  /\ Holds(f, 7 + N + N * Dim + N + Len(ListCells(BaseLists(g))), UpperCells(g))

LEMMA UpperCellsTyped ==
  ASSUME NEW g, IsGraph(g)
  PROVE  UpperCells(g) \in Seq(Int)
<1> DEFINE ss == [i \in 1 .. N |-> ListCells(g.upper_adjacency[i - 1])]
<1>1. ss \in Seq(Seq(Int))
  <2>1. \A i \in 1 .. N : ss[i] \in Seq(Int)
    <3>1. TAKE i \in 1 .. N
    <3>2. g.upper_adjacency[i - 1] \in Seq(Seq(Int))
      BY GraphTyped DEF Ids
    <3>3. ListCells(g.upper_adjacency[i - 1]) \in Seq(Int)
      BY <3>2, ListCellsTyped
    <3> QED
      BY <3>3
  <2> QED
    BY <2>1, NIs
<1> HIDE DEF ss
<1>2. FlattenSeq(ss) \in Seq(Int)
  BY <1>1, FlattenSeqHolds
<1> QED
  BY <1>2 DEF UpperCells, UpperLists, ss

LEMMA SavedParts ==
  ASSUME NEW g, IsGraph(g)
  PROVE  Saved(SaveGraph(g), g)
<1> DEFINE p1 == <<MAGIC_GRAPH, N, Dim, g.entry_point, g.max_level, Dim, 0>>
           p2 == InOrder(g.levels, N)
           p3 == FlattenSeq(InOrder(g.vectors, N))
           p4 == InOrder(g.labels, N)
           p5 == ListCells(BaseLists(g))
           p6 == UpperCells(g)
           q2 == p1 \o p2
           q3 == q2 \o p3
           q4 == q3 \o p4
           q5 == q4 \o p5
           q6 == q5 \o p6
<1>1. /\ p1 \in Seq(Int) /\ Len(p1) = 7
      /\ p1[2] = N /\ p1[3] = Dim /\ p1[4] = g.entry_point /\ p1[5] = g.max_level /\ p1[6] = Dim
  <2>1. g.entry_point \in Int /\ g.max_level \in Int
    <3>1. /\ g.entry_point \in Ids /\ g.max_level = g.levels[g.entry_point]
          /\ g.levels[g.entry_point] \in Nat
      BY DEF IsGraph
    <3>2. \A x \in Nat : x \in Int
      OBVIOUS
    <3>3. \A x \in Ids : x \in Int
      BY IdsAre
    <3> QED
      BY <3>1, <3>2, <3>3
  <2>2. MAGIC_GRAPH \in Int
    BY DEF MAGIC_GRAPH
  <2> QED
    BY <2>1, <2>2, NIs
<1>2. p2 \in Seq(Int) /\ Len(p2) = N /\ p4 \in Seq(Int) /\ Len(p4) = N
  BY GraphTyped
<1>3. p3 \in Seq(Int) /\ Len(p3) = N * Dim
  <2> DEFINE ss == InOrder(g.vectors, N)
  <2>1. ss \in Seq(Seq(Int)) /\ Len(ss) = N
    BY GraphTyped
  <2>2. \A k \in 1 .. N : Len(ss[k]) = Dim
    BY GraphTyped DEF InOrder, IsGraph
  <2> HIDE DEF ss
  <2>3. FlattenSeq(ss) \in Seq(Int) /\ Len(FlattenSeq(ss)) = N * Dim
    BY <2>1, <2>2, NIs, EvenParts
  <2> QED
    BY <2>3 DEF ss
<1>4. p5 \in Seq(Int) /\ Len(p5) \in Nat
  BY GraphTyped, ListCellsTyped
<1>5. p6 \in Seq(Int)
  BY UpperCellsTyped
<1>6. SaveGraph(g) = q6
  <2>1. FlattenSeq([i \in 1 .. N |-> Listed(g.adjacency0[i - 1])]) = p5
    <3>1. Len(BaseLists(g)) = N /\ \A i \in 1 .. N : BaseLists(g)[i] = g.adjacency0[i - 1]
      BY GraphTyped DEF BaseLists
    <3>2. [i \in 1 .. N |-> Listed(g.adjacency0[i - 1])]
            = [i \in 1 .. Len(BaseLists(g)) |-> Listed(BaseLists(g)[i])]
      BY <3>1
    <3> QED
      BY <3>2 DEF ListCells
  <2>2. FlattenSeq([i \in 1 .. N |->
          FlattenSeq([l \in 1 .. g.levels[i - 1] |-> Listed(g.upper_adjacency[i - 1][l])])]) = p6
    <3>1. \A i \in 1 .. N : Len(g.upper_adjacency[i - 1]) = g.levels[i - 1]
      BY GraphTyped DEF IsGraph
    <3>2. \A i \in 1 .. N :
            FlattenSeq([l \in 1 .. g.levels[i - 1] |-> Listed(g.upper_adjacency[i - 1][l])])
              = ListCells(g.upper_adjacency[i - 1])
      BY <3>1 DEF ListCells
    <3> QED
      BY <3>2 DEF UpperCells, UpperLists
  <2>3. g.num_nodes = N /\ g.dim = Dim
    BY DEF IsGraph
  <2> HIDE DEF p5, p6
  <2> QED
    BY <2>1, <2>2, <2>3 DEF SaveGraph
<1> HIDE DEF p1, p2, p3, p4, p5, p6
<1>7. /\ q2 \in Seq(Int) /\ Len(q2) = 7 + N /\ Holds(q2, 0, p1) /\ Holds(q2, 7, p2)
  <2>1. Len(q2) = Len(p1) + Len(p2) /\ q2 \in Seq(Int) /\ Holds(q2, Len(p1), p2)
        /\ Holds(q2, 0, p1)
    BY <1>1, <1>2, HoldsConcat
  <2> HIDE DEF q2
  <2> QED
    BY <1>1, <1>2, <2>1
<1> HIDE DEF q2
<1>8. /\ q3 \in Seq(Int) /\ Len(q3) = 7 + N + N * Dim /\ Holds(q3, 7 + N, p3)
      /\ Holds(q3, 0, p1) /\ Holds(q3, 7, p2)
  <2>1. Len(q3) = Len(q2) + Len(p3) /\ q3 \in Seq(Int) /\ Holds(q3, Len(q2), p3)
    BY <1>3, <1>7, HoldsConcat
  <2>2. Holds(q3, 0, p1) /\ Holds(q3, 7, p2)
    BY <1>1, <1>2, <1>3, <1>7, HoldsMore
  <2> QED
    BY <1>3, <1>7, <2>1, <2>2
<1> HIDE DEF q3
<1>9. /\ q4 \in Seq(Int) /\ Len(q4) = 7 + N + N * Dim + N /\ Holds(q4, 7 + N + N * Dim, p4)
      /\ Holds(q4, 0, p1) /\ Holds(q4, 7, p2) /\ Holds(q4, 7 + N, p3)
  <2>1. Len(q4) = Len(q3) + Len(p4) /\ q4 \in Seq(Int) /\ Holds(q4, Len(q3), p4)
    BY <1>2, <1>8, HoldsConcat
  <2>2. Holds(q4, 0, p1) /\ Holds(q4, 7, p2) /\ Holds(q4, 7 + N, p3)
    BY <1>1, <1>2, <1>3, <1>8, HoldsMore
  <2> QED
    BY <1>2, <1>8, <2>1, <2>2
<1> HIDE DEF q4
<1>10. /\ q5 \in Seq(Int) /\ Len(q5) = 7 + N + N * Dim + N + Len(p5)
       /\ Holds(q5, 7 + N + N * Dim + N, p5)
       /\ Holds(q5, 0, p1) /\ Holds(q5, 7, p2) /\ Holds(q5, 7 + N, p3)
       /\ Holds(q5, 7 + N + N * Dim, p4)
  <2>1. Len(q5) = Len(q4) + Len(p5) /\ q5 \in Seq(Int) /\ Holds(q5, Len(q4), p5)
    BY <1>4, <1>9, HoldsConcat
  <2>2. /\ Holds(q5, 0, p1) /\ Holds(q5, 7, p2) /\ Holds(q5, 7 + N, p3)
        /\ Holds(q5, 7 + N + N * Dim, p4)
    BY <1>1, <1>2, <1>3, <1>4, <1>9, HoldsMore
  <2> QED
    BY <1>9, <2>1, <2>2
<1> HIDE DEF q5
<1>11. /\ q6 \in Seq(Int) /\ Holds(q6, 7 + N + N * Dim + N + Len(p5), p6)
       /\ Holds(q6, 0, p1) /\ Holds(q6, 7, p2) /\ Holds(q6, 7 + N, p3)
       /\ Holds(q6, 7 + N + N * Dim, p4) /\ Holds(q6, 7 + N + N * Dim + N, p5)
  <2>1. q6 \in Seq(Int) /\ Holds(q6, Len(q5), p6)
    BY <1>5, <1>10, HoldsConcat
  <2>2. /\ Holds(q6, 0, p1) /\ Holds(q6, 7, p2) /\ Holds(q6, 7 + N, p3)
        /\ Holds(q6, 7 + N + N * Dim, p4) /\ Holds(q6, 7 + N + N * Dim + N, p5)
    BY <1>1, <1>2, <1>3, <1>4, <1>5, <1>10, HoldsMore
  <2> QED
    BY <1>10, <2>1, <2>2
<1> HIDE DEF q6
<1>12. \A k \in 1 .. 7 : q6[k] = p1[k]
  <2>1. \A k \in 1 .. 7 : q6[0 + k] = p1[k]
    BY <1>1, <1>11 DEF Holds
  <2>2. \A k \in 1 .. 7 : 0 + k = k
    OBVIOUS
  <2> QED
    BY <2>1, <2>2
<1>13. /\ q6[2] = N /\ q6[3] = Dim /\ q6[4] = g.entry_point /\ q6[5] = g.max_level /\ q6[6] = Dim
  <2>1. 2 \in 1 .. 7 /\ 3 \in 1 .. 7 /\ 4 \in 1 .. 7 /\ 5 \in 1 .. 7 /\ 6 \in 1 .. 7
    OBVIOUS
  <2> QED
    BY <1>1, <1>12, <2>1
<1> QED
  BY <1>6, <1>11, <1>13 DEF Saved, p2, p3, p4, p5, p6

-----------------------------------------------------------------------------
(* What is saved is loaded.                                                *)

\* A graph without what no file of it holds.
Plain(g) ==
  [ num_nodes |-> N, dim |-> Dim, entry_point |-> g.entry_point, max_level |-> g.max_level,
    levels          |-> [i \in Ids |-> g.levels[i]],
    vectors         |-> [i \in Ids |-> g.vectors[i]],
    labels          |-> [i \in Ids |-> g.labels[i]],
    adjacency0      |-> [i \in Ids |-> g.adjacency0[i]],
    upper_adjacency |-> [i \in Ids |-> g.upper_adjacency[i]] ]

LEMMA ReadsLevels ==
  ASSUME NEW g, IsGraph(g), NEW f, Saved(f, g)
  PROVE  Levels(f) = [i \in Ids |-> g.levels[i]]
<1>1. \A i \in Ids : f[7 + (i + 1)] = g.levels[i]
  <2>1. TAKE i \in Ids
  <2>2. i + 1 \in 1 .. N /\ (i + 1) - 1 = i
    BY NIs DEF Ids
  <2>3. Holds(f, 7, InOrder(g.levels, N)) /\ Len(InOrder(g.levels, N)) = N
    BY GraphTyped DEF Saved
  <2>4. f[7 + (i + 1)] = InOrder(g.levels, N)[i + 1]
    BY <2>2, <2>3 DEF Holds
  <2>5. InOrder(g.levels, N)[i + 1] = g.levels[i]
    BY <2>2 DEF InOrder
  <2> QED
    BY <2>4, <2>5
<1>2. \A i \in Ids : GraphHeader + i + 1 = 7 + (i + 1)
  BY IdsAre DEF GraphHeader
<1>3. f[2] = N
  BY DEF Saved
<1> QED
  BY <1>1, <1>2, <1>3 DEF Levels, Ids

LEMMA ReadsVectors ==
  ASSUME NEW g, IsGraph(g), NEW f, Saved(f, g), NEW i \in Ids
  PROVE  VectorAt(f, 7 + N + i * Dim) = g.vectors[i]
<1> DEFINE ss == InOrder(g.vectors, N)
<1>1. ss \in Seq(Seq(Int)) /\ Len(ss) = N
  BY GraphTyped
<1>2. \A k \in 1 .. N : Len(ss[k]) = Dim
  BY GraphTyped DEF InOrder, IsGraph
<1>3. i + 1 \in 1 .. N /\ (i + 1) - 1 = i /\ i \in Nat
  BY NIs DEF Ids
<1>4. ss[i + 1] = g.vectors[i]
  BY <1>3 DEF InOrder
<1>5. Holds(f, 7 + N, FlattenSeq(ss)) /\ f \in Seq(Int)
  BY DEF Saved
<1> HIDE DEF ss
<1>6. FlattenSeq(ss) \in Seq(Int) /\ Holds(FlattenSeq(ss), ((i + 1) - 1) * Dim, ss[i + 1])
  BY <1>1, <1>2, <1>3, NIs, EvenParts
<1>7. PICK v \in Seq(Int) : v = g.vectors[i]
  BY <1>1, <1>3, <1>4
<1>8. Holds(FlattenSeq(ss), i * Dim, v) /\ Len(v) = Dim
  BY <1>2, <1>3, <1>4, <1>6, <1>7
<1>9. Holds(f, 7 + N + i * Dim, v)
  BY <1>5, <1>6, <1>8, HoldsPart
<1>10. SubSeq(f, 7 + N + i * Dim + 1, 7 + N + i * Dim + Dim) = v
  BY <1>5, <1>8, <1>9, HoldsSubSeq
<1> QED
  BY <1>7, <1>10 DEF VectorAt

LEMMA ReadsLabels ==
  ASSUME NEW g, IsGraph(g), NEW f, Saved(f, g)
  PROVE  ByNode(N, SubSeq(f, 7 + N + N * Dim + 1, 7 + N + N * Dim + N))
           = [i \in Ids |-> g.labels[i]]
<1>1. PICK s \in Seq(Int) : s = InOrder(g.labels, N)
  BY GraphTyped
<1>2. Holds(f, 7 + N + N * Dim, s) /\ Len(s) = N /\ f \in Seq(Int)
  BY <1>1, GraphTyped DEF Saved
<1>3. SubSeq(f, 7 + N + N * Dim + 1, 7 + N + N * Dim + N) = s
  BY <1>2, HoldsSubSeq
<1>4. \A i \in Ids : s[i + 1] = g.labels[i]
  <2>1. \A i \in Ids : i + 1 \in 1 .. N /\ (i + 1) - 1 = i
    BY NIs DEF Ids
  <2> QED
    BY <1>1, <2>1 DEF InOrder
<1> QED
  BY <1>3, <1>4 DEF ByNode, Ids

LEMMA ReadsBase ==
  ASSUME NEW g, IsGraph(g), NEW f, Saved(f, g)
  PROVE  /\ ByNode(N, ReadLists(f, 7 + N + N * Dim + N, N).lists)
              = [i \in Ids |-> g.adjacency0[i]]
         /\ ReadUpper(f, ReadLists(f, 7 + N + N * Dim + N, N).at, Levels(f), N)
              = [i \in Ids |-> g.upper_adjacency[i]]
<1>1. PICK lists \in Seq(Seq(Int)) : lists = BaseLists(g)
  BY GraphTyped
<1>2. Len(lists) = N /\ \A i \in Ids : lists[i + 1] = g.adjacency0[i]
  <2>1. \A i \in Ids : i + 1 \in 1 .. N /\ (i + 1) - 1 = i
    BY NIs DEF Ids
  <2> QED
    BY <1>1, <2>1, GraphTyped DEF BaseLists
<1>3. PICK a : a = 7 + N + N * Dim + N
  OBVIOUS
<1>4. Holds(f, a, ListCells(lists)) /\ f \in Seq(Int)
  BY <1>1, <1>3 DEF Saved
<1>5. ReadLists(f, a, N).at = a + Len(ListCells(lists)) /\ ReadLists(f, a, N).lists = lists
  BY <1>2, <1>4, ListsReadBack
<1>6. ByNode(N, lists) = [i \in Ids |-> g.adjacency0[i]]
  BY <1>2 DEF ByNode, Ids
<1>7. Holds(f, a + Len(ListCells(lists)), UpperCells(g))
  BY <1>1, <1>3 DEF Saved
<1>8. \A i \in 0 .. N - 1 : /\ g.upper_adjacency[i] \in Seq(Seq(Int))
                            /\ Levels(f)[i] = Len(g.upper_adjacency[i])
  <2>1. Levels(f) = [i \in Ids |-> g.levels[i]]
    BY ReadsLevels
  <2>2. \A i \in Ids : Len(g.upper_adjacency[i]) = g.levels[i]
    BY DEF IsGraph
  <2>3. 0 .. N - 1 = Ids
    BY DEF Ids
  <2> QED
    BY <2>1, <2>2, <2>3, GraphTyped
<1>9. ReadUpper(f, a + Len(ListCells(lists)), Levels(f), N)
        = [i \in 0 .. N - 1 |-> g.upper_adjacency[i]]
  <2>1. PICK up : up = g.upper_adjacency
    OBVIOUS
  <2>2. PICK lev : lev = Levels(f)
    OBVIOUS
  <2>3. PICK at : at = a + Len(ListCells(lists))
    OBVIOUS
  <2>4. \A i \in 0 .. N - 1 : up[i] \in Seq(Seq(Int)) /\ lev[i] = Len(up[i])
    BY <1>8, <2>1, <2>2
  <2>7. SetsOfLists(up, lev, N)
    BY <2>4 DEF SetsOfLists
  <2>5. Holds(f, at, UpperLists(up, N))
    BY <1>7, <2>1, <2>3 DEF UpperCells
  <2>6. ReadUpper(f, at, lev, N) = [i \in 0 .. N - 1 |-> up[i]]
    BY <1>4, <2>7, <2>5, NIs, UpperReadBack
  <2> QED
    BY <2>1, <2>2, <2>3, <2>6
<1> QED
  BY <1>3, <1>5, <1>6, <1>9 DEF Ids

\* What is saved is loaded, by each of the loaders.
LEMMA LoadsSaved ==
  ASSUME NEW g, IsGraph(g), NEW f, Saved(f, g)
  PROVE  /\ LoadGraph(f) = Plain(g)
         /\ LoadSlimAdj(f) = [ num_nodes |-> N, dim |-> Dim, entry_point |-> g.entry_point,
              max_level |-> g.max_level, levels |-> Plain(g).levels,
              upper_vectors |-> [i \in { j \in Ids : g.levels[j] > 0 } |-> g.vectors[i]],
              labels |-> Plain(g).labels, adjacency0 |-> Plain(g).adjacency0,
              upper_adjacency |-> Plain(g).upper_adjacency ]
         /\ LoadSlim(f) = [ num_nodes |-> N, dim |-> Dim, entry_point |-> g.entry_point,
              max_level |-> g.max_level, levels |-> Plain(g).levels,
              upper_vectors |-> [i \in { j \in Ids : g.levels[j] > 0 } |-> g.vectors[i]],
              labels |-> Plain(g).labels, upper_adjacency |-> Plain(g).upper_adjacency ]
<1>1. /\ f[2] = N /\ f[3] = Dim /\ f[4] = g.entry_point /\ f[5] = g.max_level /\ f[6] = Dim
  BY DEF Saved
<1>2. Levels(f) = Plain(g).levels /\ 0 .. N - 1 = Ids
  BY ReadsLevels DEF Plain, Ids
<1>3. [i \in 0 .. N - 1 |-> VectorAt(f, 7 + N + i * Dim)] = Plain(g).vectors
  <2>1. \A i \in Ids : VectorAt(f, 7 + N + i * Dim) = g.vectors[i]
    BY ReadsVectors
  <2>2. Plain(g).vectors = [i \in Ids |-> g.vectors[i]]
    BY DEF Plain
  <2> QED
    BY <1>2, <2>1, <2>2
<1>4. ByNode(N, SubSeq(f, 7 + N + N * Dim + 1, 7 + N + N * Dim + N)) = Plain(g).labels
  BY ReadsLabels DEF Plain
<1>5. /\ ByNode(N, ReadLists(f, 7 + N + N * Dim + N, N).lists) = Plain(g).adjacency0
      /\ ReadUpper(f, ReadLists(f, 7 + N + N * Dim + N, N).at, Levels(f), N)
           = Plain(g).upper_adjacency
  BY ReadsBase DEF Plain
<1>6. UpperVectors(f) = [i \in { j \in Ids : g.levels[j] > 0 } |-> g.vectors[i]]
  <2>1. DOMAIN Levels(f) = Ids /\ \A j \in Ids : Levels(f)[j] = g.levels[j]
    BY ReadsLevels
  <2>2. { j \in DOMAIN Levels(f) : Levels(f)[j] > 0 } = { j \in Ids : g.levels[j] > 0 }
    BY <2>1
  <2>3. \A i \in Ids : VectorAt(f, GraphHeader + N + i * Dim) = g.vectors[i]
    BY ReadsVectors DEF GraphHeader
  <2> QED
    BY <1>1, <2>2, <2>3 DEF UpperVectors
<1> HIDE DEF Plain
<1>7. LoadGraph(f) = [ num_nodes |-> N, dim |-> Dim, entry_point |-> g.entry_point,
        max_level |-> g.max_level, levels |-> Plain(g).levels, vectors |-> Plain(g).vectors,
        labels |-> Plain(g).labels, adjacency0 |-> Plain(g).adjacency0,
        upper_adjacency |-> Plain(g).upper_adjacency ]
  BY <1>1, <1>2, <1>3, <1>4, <1>5 DEF LoadGraph, GraphHeader
<1>8. LoadGraph(f) = Plain(g)
  BY <1>7 DEF Plain
<1> QED
  BY <1>1, <1>2, <1>4, <1>5, <1>6, <1>8 DEF LoadSlim, LoadSlimAdj, GraphHeader

LEMMA PlainIs ==
  ASSUME NEW g, IsGraph(g)
  PROVE  IsGraph(Plain(g)) /\ SaveGraph(Plain(g)) = SaveGraph(g) /\ Plain(Plain(g)) = Plain(g)
<1> DEFINE h == Plain(g)
<1>1. /\ h.num_nodes = N /\ h.dim = Dim /\ h.entry_point = g.entry_point
      /\ h.max_level = g.max_level
  BY DEF Plain
<1>2. \A i \in Ids : /\ h.levels[i] = g.levels[i] /\ h.vectors[i] = g.vectors[i]
                     /\ h.labels[i] = g.labels[i] /\ h.adjacency0[i] = g.adjacency0[i]
                     /\ h.upper_adjacency[i] = g.upper_adjacency[i]
  BY DEF Plain
<1>3. Plain(h) = h
  BY DEF Plain
<1> HIDE DEF h
<1>4. IsGraph(h)
  <2>1. h.entry_point \in Ids /\ h.max_level = h.levels[h.entry_point]
    BY <1>1, <1>2 DEF IsGraph
  <2>2. ASSUME NEW i \in Ids
        PROVE  /\ h.levels[i] \in Nat /\ h.levels[i] <= h.max_level
               /\ h.vectors[i] \in Seq(Int) /\ Len(h.vectors[i]) = Dim
               /\ h.labels[i] \in Int
               /\ h.adjacency0[i] \in Seq(Ids \ {i}) /\ IsInjective(h.adjacency0[i])
               /\ Len(h.adjacency0[i]) <= MaxM0
               /\ h.upper_adjacency[i] \in Seq(Seq(Ids))
               /\ Len(h.upper_adjacency[i]) = h.levels[i]
    <3>1. /\ g.levels[i] \in Nat /\ g.levels[i] <= g.max_level
          /\ g.vectors[i] \in Seq(Int) /\ Len(g.vectors[i]) = Dim
          /\ g.labels[i] \in Int
          /\ g.adjacency0[i] \in Seq(Ids \ {i}) /\ IsInjective(g.adjacency0[i])
          /\ Len(g.adjacency0[i]) <= MaxM0
          /\ g.upper_adjacency[i] \in Seq(Seq(Ids))
          /\ Len(g.upper_adjacency[i]) = g.levels[i]
      BY DEF IsGraph
    <3> QED
      BY <1>1, <1>2, <3>1
  <2>3. ASSUME NEW i \in Ids, NEW l \in 1 .. h.levels[i], NEW j \in ToSet(h.upper_adjacency[i][l])
        PROVE  h.levels[j] >= l
    <3>1. l \in 1 .. g.levels[i] /\ j \in ToSet(g.upper_adjacency[i][l])
      BY <1>2
    <3>2. g.levels[j] >= l
      BY <3>1 DEF IsGraph
    <3>3. g.upper_adjacency[i][l] \in Seq(Ids)
      <4>1. g.upper_adjacency[i] \in Seq(Seq(Ids)) /\ Len(g.upper_adjacency[i]) = g.levels[i]
        BY DEF IsGraph
      <4> QED
        BY <3>1, <4>1
    <3>4. j \in Ids
      BY <3>1, <3>3, Widened
    <3> QED
      BY <1>2, <3>2, <3>4
  <2>4. \A i, j \in Ids : h.labels[i] = h.labels[j] => i = j
    BY <1>2 DEF IsGraph
  <2> QED
    BY <1>1, <2>1, <2>2, <2>3, <2>4 DEF IsGraph
<1>5. SaveGraph(h) = SaveGraph(g)
  <2>1. \A i \in 1 .. N : i - 1 \in Ids
    BY GraphTyped
  <2>2. g.num_nodes = N /\ g.dim = Dim
    BY DEF IsGraph
  <2>3. /\ InOrder(h.levels, N) = InOrder(g.levels, N)
        /\ InOrder(h.vectors, N) = InOrder(g.vectors, N)
        /\ InOrder(h.labels, N) = InOrder(g.labels, N)
    BY <1>2, <2>1 DEF InOrder
  <2>4. [i \in 1 .. N |-> Listed(h.adjacency0[i - 1])]
          = [i \in 1 .. N |-> Listed(g.adjacency0[i - 1])]
    BY <1>2, <2>1
  <2>5. [i \in 1 .. N |->
          FlattenSeq([l \in 1 .. h.levels[i - 1] |-> Listed(h.upper_adjacency[i - 1][l])])]
          = [i \in 1 .. N |->
          FlattenSeq([l \in 1 .. g.levels[i - 1] |-> Listed(g.upper_adjacency[i - 1][l])])]
    BY <1>2, <2>1
  <2> QED
    BY <1>1, <2>2, <2>3, <2>4, <2>5 DEF SaveGraph
<1> QED
  BY <1>3, <1>4, <1>5 DEF h

-----------------------------------------------------------------------------
(* The lists the builder saves.                                            *)

\* The lists the builder has stored.
BuiltInv ==
  /\ phase \notin {"levels", "ended"} =>
       /\ max_level = levels[entry_point]
       /\ \A i \in Ids : upper_adj[i] \in Seq(Seq(Ids))
  /\ phase \in {"second", "built"} =>
       \A i \in Ids : /\ adj0[i] \in Seq(Ids \ {i}) /\ IsInjective(adj0[i])
                      /\ Len(adj0[i]) <= R0

LEMMA InitBuilt == PipelineInit => BuiltInv
BY DEF PipelineInit, BuildInit, BuiltInv

LEMMA AssignLevelsBuilt ==
  ASSUME AssignLevels
  PROVE  BuiltInv'
<1>1. PICK l \in LevelChoices :
        /\ levels' = l
        /\ max_level' = Max({ l[i] : i \in Ids })
        /\ entry_point' = Min({ i \in Ids : \A j \in Ids : l[j] <= l[i] })
  BY DEF AssignLevels
<1>2. l \in [Ids -> Nat]
  BY BuildAssumption
<1>3. PICK top \in Ids : \A j \in Ids : l[j] <= l[top]
  BY <1>2, GreatestExists
<1> DEFINE L == { l[i] : i \in Ids }
<1>4. max_level' \in L /\ \A y \in L : y <= max_level'
  <2>1. \E x \in L : \A y \in L : x >= y
    BY <1>2, <1>3
  <2>2. max_level' = Max(L)
    BY <1>1
  <2>3. L \in SUBSET Nat
    BY <1>2
  <2> HIDE DEF L
  <2>4. max_level' \in L /\ \A y \in L : max_level' >= y
    BY <2>1, <2>2 DEF Max
  <2> QED
    BY <2>3, <2>4
<1>5. entry_point' \in Ids /\ \A j \in Ids : l[j] <= l[entry_point']
  <2> DEFINE T == { i \in Ids : \A j \in Ids : l[j] <= l[i] }
  <2>1. T \in SUBSET Nat /\ T # {}
    <3>1. top \in T
      BY <1>3
    <3> QED
      BY <3>1, IdsAre
  <2>2. \E x \in T : \A y \in T : x =< y
    <3> HIDE DEF T
    <3> QED
      BY <2>1, LeastNumber
  <2>3. entry_point' \in T
    <3> HIDE DEF T
    <3>1. entry_point' = Min(T)
      BY <1>1 DEF T
    <3> QED
      BY <2>2, <3>1 DEF Min
  <2> QED
    BY <2>3
<1>6. max_level' = l[entry_point']
  <2>1. PICK i \in Ids : max_level' = l[i]
    BY <1>4
  <2>2. l[entry_point'] \in L
    BY <1>5
  <2>3. l[i] <= l[entry_point'] /\ l[entry_point'] <= l[i] /\ l[i] \in Nat /\ l[entry_point'] \in Nat
    BY <1>2, <1>4, <1>5, <2>1, <2>2
  <2>4. l[i] = l[entry_point']
    <3> HIDE DEF L
    <3> QED
      BY <2>3
  <2> QED
    BY <2>1, <2>4
<1>7. \A i \in Ids : upper_adj'[i] \in Seq(Seq(Ids))
  <2>1. upper_adj' = [i \in Ids |-> [k \in 1 .. levels'[i] |-> <<>>]]
    BY DEF AssignLevels
  <2>2. \A i \in Ids : levels'[i] \in Nat
    BY <1>1, <1>2
  <2>3. \A n \in Nat : [k \in 1 .. n |-> <<>>] \in Seq(Seq(Ids))
    OBVIOUS
  <2> QED
    BY <2>1, <2>2, <2>3
<1>8. phase' = "layer"
  BY DEF AssignLevels
<1> QED
  BY <1>1, <1>6, <1>7, <1>8 DEF BuiltInv

LEMMA StoreLayerBuilt ==
  ASSUME GraphInv, BuiltInv, StoreLayer
  PROVE  BuiltInv'
<1>1. /\ phase = "store" /\ phase' \in {"second", "layer"}
      /\ UNCHANGED <<levels, max_level, entry_point>>
  BY DEF StoreLayer, levelVars
<1>2. max_level = levels[entry_point] /\ \A i \in Ids : upper_adj[i] \in Seq(Seq(Ids))
  BY <1>1 DEF BuiltInv
<1>3. /\ DOMAIN out = Layer
      /\ \A i \in Layer : /\ out[i] \in Seq(Layer \ {i}) /\ Len(out[i]) <= Degree
                          /\ IsInjective(out[i])
  <2>1. DOMAIN out = Layer /\ GoodLists(out, Layer, Degree)
    BY <1>1 DEF GraphInv, OverLayer
  <2> QED
    BY <2>1 DEF GoodLists
<1>4. Layer \in SUBSET Ids
  BY LayerTyped
<1>5. CASE layer = 0
  <2>1. adj0' = out /\ upper_adj' = upper_adj
    BY <1>5 DEF StoreLayer
  <2>2. Layer = Ids
    <3>1. \A i \in Ids : levels[i] \in Nat /\ levels[i] >= 0
      BY DEF GraphInv, Numbers
    <3> QED
      BY <1>5, <3>1 DEF Layer, Members
  <2>3. Degree = R0
    BY <1>5 DEF Degree
  <2> QED
    BY <1>1, <1>2, <1>3, <2>1, <2>2, <2>3 DEF BuiltInv
<1>6. CASE layer # 0
  <2>1. /\ upper_adj' = [i \in Ids |-> IF i \in DOMAIN out
                                       THEN [upper_adj[i] EXCEPT ![layer] = out[i]]
                                       ELSE upper_adj[i]]
        /\ phase' = "layer"
    BY <1>6 DEF StoreLayer
  <2>2. ASSUME NEW i \in Ids PROVE upper_adj'[i] \in Seq(Seq(Ids))
    <3>1. CASE i \in Layer
      <4>1. out[i] \in Seq(Layer \ {i}) /\ Layer \ {i} \subseteq Ids
        BY <1>3, <1>4, <3>1
      <4>2. out[i] \in Seq(Ids)
        BY <4>1, Widened
      <4>3. upper_adj'[i] = [upper_adj[i] EXCEPT ![layer] = out[i]]
        BY <1>3, <2>1, <3>1
      <4>4. PICK s \in Seq(Seq(Ids)) : s = upper_adj[i]
        BY <1>2
      <4>5. PICK x \in Seq(Ids) : x = out[i]
        BY <4>2
      <4>6. PICK n \in Nat : n = Len(s) /\ DOMAIN s = 1 .. n
        BY <4>4
      <4>7. s \in [1 .. n -> Seq(Ids)]
        BY <4>6
      <4>8. [s EXCEPT ![layer] = x] \in [1 .. n -> Seq(Ids)]
        BY <4>7
      <4> QED
        BY <4>3, <4>4, <4>5, <4>6, <4>8
    <3>2. CASE i \notin Layer
      BY <1>2, <1>3, <2>1, <3>2
    <3> QED
      BY <3>1, <3>2
  <2> QED
    BY <1>1, <1>2, <2>1, <2>2 DEF BuiltInv
<1> QED
  BY <1>5, <1>6

LEMMA SecondPassBuilt ==
  ASSUME BuiltInv, SecondPass
  PROVE  BuiltInv'
<1>1. /\ phase = "second" /\ phase' = "built"
      /\ UNCHANGED <<levels, max_level, entry_point, upper_adj>>
  BY DEF SecondPass, levelVars
<1>2. max_level = levels[entry_point] /\ \A i \in Ids : upper_adj[i] \in Seq(Seq(Ids))
  BY <1>1 DEF BuiltInv
<1>3. \A i \in Ids : adj0[i] \in Seq(Ids \ {i}) /\ IsInjective(adj0[i]) /\ Len(adj0[i]) <= R0
  BY <1>1 DEF BuiltInv
<1>4. ASSUME NEW i \in Ids
      PROVE  adj0'[i] \in Seq(Ids \ {i}) /\ IsInjective(adj0'[i]) /\ Len(adj0'[i]) <= R0
  <2>1. CASE Alpha2[1] > 0
    <3> DEFINE r == RobustPrune(i, ToSet(adj0[i]), Alpha2, R0)
    <3>1. adj0'[i] = r
      BY <2>1 DEF SecondPass
    <3>2. ToSet(adj0[i]) \in SUBSET Ids
      <4>1. ToSet(adj0[i]) \subseteq Ids \ {i}
        BY <1>3, Widened
      <4> QED
        BY <4>1
    <3>3. Ids \in SUBSET Ids /\ R0 \in Nat
      BY BuildAssumption
    <3>4. r \in Seq(Ids \ {i}) /\ Len(r) <= R0 /\ IsInjective(r)
      BY <3>2, <3>3, PrunedIsGood
    <3> HIDE DEF r
    <3> QED
      BY <3>1, <3>4
  <2>2. CASE ~(Alpha2[1] > 0)
    BY <1>3, <2>2 DEF SecondPass
  <2> QED
    BY <2>1, <2>2
<1> QED
  BY <1>1, <1>2, <1>4 DEF BuiltInv

LEMMA BuildKeepsBuilt ==
  ASSUME GraphInv, BuiltInv, BuildNext \/ Export \/ Extract \/ UNCHANGED buildVars
  PROVE  BuiltInv'
<1>1. CASE StartLayer \/ (\E t \in Workers : Forward(t)) \/ EndForward \/ PruneOnce \/ EndRound
  <2>1. /\ phase \notin {"levels", "ended"} /\ phase' \notin {"second", "built"}
        /\ UNCHANGED <<levels, max_level, entry_point, upper_adj>>
    BY <1>1 DEF StartLayer, Forward, EndForward, PruneOnce, EndRound, levelVars
  <2> QED
    BY <2>1 DEF BuiltInv
<1>2. CASE Export \/ Extract
  <2>1. phase' = "ended"
    BY <1>2 DEF Export, Extract
  <2> QED
    BY <2>1 DEF BuiltInv
<1>3. CASE UNCHANGED buildVars
  BY <1>3 DEF buildVars, levelVars, BuiltInv
<1> QED
  BY <1>1, <1>2, <1>3, AssignLevelsBuilt, StoreLayerBuilt, SecondPassBuilt DEF BuildNext

\* What the builder saves is a graph as the tools take it.
LEMMA BuiltIsGraph ==
  ASSUME GraphInv, BuiltInv, phase = "built"
  PROVE  IsGraph(Built)
<1> DEFINE g == Built
<1>1. /\ g.num_nodes = N /\ g.dim = Dim /\ g.entry_point = entry_point /\ g.max_level = max_level
      /\ g.levels = levels /\ g.vectors = Points /\ g.adjacency0 = adj0
      /\ g.upper_adjacency = upper_adj /\ \A i \in Ids : g.labels[i] = i
  BY DEF Built
<1> HIDE DEF g
<1>2. max_level = levels[entry_point] /\ \A i \in Ids : upper_adj[i] \in Seq(Seq(Ids))
  BY DEF BuiltInv
<1>3. \A i \in Ids : /\ adj0[i] \in Seq(Ids \ {i}) /\ IsInjective(adj0[i])
                      /\ Len(adj0[i]) <= MaxM0
  <2>1. TAKE i \in Ids
  <2>2. PICK s \in Seq(Ids \ {i}) : s = adj0[i] /\ IsInjective(s) /\ Len(s) <= R0
    BY DEF BuiltInv
  <2>3. PICK r \in Nat, m \in Nat : r = R0 /\ m = MaxM0 /\ r <= m
    BY BuildAssumption, PipelineAssumption
  <2>4. Len(s) <= m
    BY <2>2, <2>3
  <2> QED
    BY <2>2, <2>3, <2>4
<1>4. /\ entry_point \in Ids /\ \A i \in Ids : levels[i] <= levels[entry_point]
      /\ \A i \in Ids : /\ DOMAIN upper_adj[i] = 1 .. levels[i]
                        /\ \A l \in 1 .. levels[i] : upper_adj[i][l] \in Seq(Members(l))
  BY DEF GraphInv, Stored
<1>5. \A i \in Ids : levels[i] \in Nat
  BY DEF GraphInv, Numbers
<1>6. \A i \in Ids : Points[i] \in Seq(Int) /\ Len(Points[i]) = Dim
  BY BuildAssumption, PipelineAssumption
<1>7. \A i \in Ids : Len(upper_adj[i]) = levels[i]
  <2>1. TAKE i \in Ids
  <2>2. \A s \in Seq(Seq(Ids)), n \in Nat : DOMAIN s = 1 .. n => Len(s) = n
    OBVIOUS
  <2> QED
    BY <1>2, <1>4, <1>5, <2>2
<1>8. ASSUME NEW i \in Ids, NEW l \in 1 .. levels[i], NEW j \in ToSet(upper_adj[i][l])
      PROVE  levels[j] >= l
  <2>1. upper_adj[i][l] \in Seq(Members(l))
    BY <1>4
  <2>2. j \in Members(l)
    BY <2>1, Widened
  <2> QED
    BY <2>2 DEF Members
<1>9. \A i \in Ids : i \in Int
  BY IdsAre
<1>10. ASSUME NEW i \in Ids
       PROVE  /\ g.levels[i] \in Nat /\ g.levels[i] <= g.max_level
              /\ g.vectors[i] \in Seq(Int) /\ Len(g.vectors[i]) = Dim
              /\ g.labels[i] \in Int
              /\ g.adjacency0[i] \in Seq(Ids \ {i}) /\ IsInjective(g.adjacency0[i])
              /\ Len(g.adjacency0[i]) <= MaxM0
              /\ g.upper_adjacency[i] \in Seq(Seq(Ids))
              /\ Len(g.upper_adjacency[i]) = g.levels[i]
              /\ \A l \in 1 .. g.levels[i] :
                   \A j \in ToSet(g.upper_adjacency[i][l]) : g.levels[j] >= l
  BY <1>1, <1>2, <1>3, <1>4, <1>5, <1>6, <1>7, <1>8, <1>9
<1>11. g.entry_point \in Ids /\ g.max_level = g.levels[g.entry_point]
  BY <1>1, <1>2, <1>4
<1>12. \A i, j \in Ids : g.labels[i] = g.labels[j] => i = j
  BY <1>1
<1>13. IsGraph(g)
  BY <1>1, <1>10, <1>11, <1>12 DEF IsGraph
<1> QED
  BY <1>13 DEF g

-----------------------------------------------------------------------------
(* Sorting.                                                                *)

Orders(lt, S) ==
  /\ \A u \in S : <<u, u>> \notin lt
  /\ \A u, v \in S : u # v => <<u, v>> \in lt \/ <<v, u>> \in lt
  /\ \A u, v, w \in S : <<u, v>> \in lt /\ <<v, w>> \in lt => <<u, w>> \in lt

\* An injective function on 1 .. n takes all values.
LEMMA PermutationsCover ==
  ASSUME NEW n \in Nat, NEW f \in PermutationsOf(n)
  PROVE  \A k \in 1 .. n : \E i \in 1 .. n : f[i] = k
<1>1. IsFiniteSet(1 .. n)
  BY FS_Interval
<1>2. f \in Injection(1 .. n, 1 .. n)
  BY DEF Injection, PermutationsOf
<1>3. f \in Surjection(1 .. n, 1 .. n)
  BY <1>1, <1>2, FS_Injection
<1> QED
  BY <1>3 DEF Surjection

\* Where each element comes when s is sorted: behind how many it is.
LEMMA RankExists ==
  ASSUME NEW n \in Nat, NEW Le \in SUBSET ((1 .. n) \X (1 .. n)),
         \A i, j \in 1 .. n : <<i, j>> \in Le \/ <<j, i>> \in Le,
         \A i, j \in 1 .. n : <<i, j>> \in Le /\ <<j, i>> \in Le => i = j,
         \A i, j, k \in 1 .. n : <<i, j>> \in Le /\ <<j, k>> \in Le => <<i, k>> \in Le
  PROVE  \E p \in PermutationsOf(n) : \A i, j \in 1 .. n : i < j => <<p[i], p[j]>> \in Le
<1> DEFINE Q == 1 .. n
           below(i) == { j \in Q : <<j, i>> \in Le }
           rank == [i \in Q |-> Cardinality(below(i))]
<1>1. IsFiniteSet(Q) /\ Cardinality(Q) = n
  <2>1. 1 \in Int /\ n \in Int /\ (1 > n => n = 0) /\ n - 1 + 1 = n
    OBVIOUS
  <2> QED
    BY <2>1, FS_Interval
<1>2. ASSUME NEW i \in Q
      PROVE  IsFiniteSet(below(i)) /\ Cardinality(below(i)) \in 1 .. n /\ i \in below(i)
  <2>1. IsFiniteSet(below(i)) /\ Cardinality(below(i)) <= n
    <3>1. below(i) \in SUBSET Q
      OBVIOUS
    <3> HIDE DEF below, Q
    <3> QED
      BY <1>1, <3>1, FS_Subset
  <2>2. i \in below(i)
    OBVIOUS
  <2>3. Cardinality(below(i)) # 0
    <3> HIDE DEF below
    <3> QED
      BY <2>1, <2>2, FS_EmptySet
  <2>4. Cardinality(below(i)) \in Nat
    <3> HIDE DEF below
    <3> QED
      BY <2>1, FS_CardinalityType
  <2> HIDE DEF below
  <2> QED
    BY <2>1, <2>2, <2>3, <2>4
<1>3. ASSUME NEW i \in Q, NEW j \in Q, <<i, j>> \in Le, i # j
      PROVE  Cardinality(below(i)) < Cardinality(below(j))
  <2>1. below(i) \in SUBSET below(j)
    BY <1>3
  <2>2. j \in below(j) /\ j \notin below(i)
    BY <1>3
  <2> HIDE DEF below
  <2>3. Cardinality(below(i)) <= Cardinality(below(j)) /\ Cardinality(below(i)) # Cardinality(below(j))
    BY <1>2, <2>1, <2>2, FS_Subset
  <2>4. Cardinality(below(i)) \in Nat /\ Cardinality(below(j)) \in Nat
    BY <1>2
  <2> QED
    BY <2>3, <2>4
<1>4. rank \in [Q -> Q]
  <2> HIDE DEF below
  <2> QED
    BY <1>2
<1>5. \A i, j \in Q : /\ rank[i] \in Nat /\ rank[j] \in Nat
                      /\ rank[i] < rank[j] => <<i, j>> \in Le
                      /\ rank[i] = rank[j] => i = j
  <2>1. TAKE i, j \in Q
  <2>2. rank[i] = Cardinality(below(i)) /\ rank[j] = Cardinality(below(j))
    OBVIOUS
  <2>3. rank[i] \in 1 .. n /\ rank[j] \in 1 .. n
    BY <1>4
  <2>4. <<i, j>> \in Le \/ <<j, i>> \in Le
    OBVIOUS
  <2>5. <<i, j>> \in Le /\ i # j => rank[i] < rank[j]
    <3> HIDE DEF below, rank
    <3> QED
      BY <1>3, <2>2
  <2>6. <<j, i>> \in Le /\ i # j => rank[j] < rank[i]
    <3> HIDE DEF below, rank
    <3> QED
      BY <1>3, <2>2
  <2> HIDE DEF below, rank
  <2> QED
    BY <2>3, <2>4, <2>5, <2>6
<1> HIDE DEF rank
<1>6. \A k \in 1 .. n : \E i \in 1 .. n : rank[i] = k
  <2>1. \A i, j \in 1 .. n : rank[i] = rank[j] => i = j
    BY <1>5
  <2>2. rank \in [1 .. n -> 1 .. n]
    BY <1>4
  <2>3. rank \in PermutationsOf(n)
    BY <2>1, <2>2 DEF PermutationsOf, IsInjective
  <2> QED
    BY <2>3, PermutationsCover
<1> DEFINE p == [k \in Q |-> CHOOSE i \in Q : rank[i] = k]
<1>7. \A k \in Q : p[k] \in Q /\ rank[p[k]] = k
  BY <1>6
<1>8. p \in [Q -> Q]
  BY <1>7
<1> HIDE DEF p
<1>9. p \in PermutationsOf(n)
  <2>1. \A i, j \in Q : p[i] = p[j] => i = j
    BY <1>7
  <2> QED
    BY <1>8, <2>1 DEF PermutationsOf, IsInjective
<1>10. \A i, j \in Q : i < j => <<p[i], p[j]>> \in Le
  BY <1>5, <1>7
<1> QED
  BY <1>9, <1>10

LEMMA SortedByIs ==
  ASSUME NEW A, NEW s \in Seq(A), NEW lt, Orders(lt, ToSet(s))
  PROVE  /\ SortedBy(s, lt) \in Seq(A) /\ Len(SortedBy(s, lt)) = Len(s)
         /\ \A i, j \in 1 .. Len(s) : i < j =>
              \/ <<SortedBy(s, lt)[i], SortedBy(s, lt)[j]>> \in lt
              \/ SortedBy(s, lt)[i] = SortedBy(s, lt)[j]
         /\ \E p \in PermutationsOf(Len(s)) : SortedBy(s, lt) = [i \in 1 .. Len(s) |-> s[p[i]]]
<1>0. PICK n \in Nat : n = Len(s) /\ DOMAIN s = 1 .. n
  OBVIOUS
<1> DEFINE Q == 1 .. n
           Le == { q \in Q \X Q : <<s[q[1]], s[q[2]]>> \in lt \/ (s[q[1]] = s[q[2]] /\ q[1] <= q[2]) }
           Right(p) == \A i, j \in Q : i < j => \/ <<s[p[i]], s[p[j]]>> \in lt
                                                \/ s[p[i]] = s[p[j]]
<1>1. \A i \in Q : s[i] \in ToSet(s) /\ s[i] \in A
  BY <1>0 DEF ToSet
<1>2. \A i, j \in Q : <<i, j>> \in Le <=> <<s[i], s[j]>> \in lt \/ (s[i] = s[j] /\ i <= j)
  OBVIOUS
<1>3. \A i, j \in Q : <<i, j>> \in Le \/ <<j, i>> \in Le
  <2>1. TAKE i, j \in Q
  <2>2. s[i] # s[j] => <<s[i], s[j]>> \in lt \/ <<s[j], s[i]>> \in lt
    BY <1>1 DEF Orders
  <2>3. i <= j \/ j <= i
    OBVIOUS
  <2> HIDE DEF Le
  <2> QED
    BY <1>2, <2>2, <2>3
<1>4. \A i, j \in Q : <<i, j>> \in Le /\ <<j, i>> \in Le => i = j
  <2>1. TAKE i, j \in Q
  <2>2. ~(<<s[i], s[j]>> \in lt /\ <<s[j], s[i]>> \in lt)
    BY <1>1 DEF Orders
  <2>3. s[i] = s[j] => <<s[i], s[j]>> \notin lt /\ <<s[j], s[i]>> \notin lt
    BY <1>1 DEF Orders
  <2>4. <<i, j>> \in Le <=> <<s[i], s[j]>> \in lt \/ (s[i] = s[j] /\ i <= j)
    BY <1>2
  <2>5. <<j, i>> \in Le <=> <<s[j], s[i]>> \in lt \/ (s[j] = s[i] /\ j <= i)
    BY <1>2
  <2> HIDE DEF Le
  <2> QED
    BY <2>2, <2>3, <2>4, <2>5
<1>5. \A i, j, k \in Q : <<i, j>> \in Le /\ <<j, k>> \in Le => <<i, k>> \in Le
  <2>1. TAKE i, j, k \in Q
  <2>2. <<s[i], s[j]>> \in lt /\ <<s[j], s[k]>> \in lt => <<s[i], s[k]>> \in lt
    BY <1>1 DEF Orders
  <2> HIDE DEF Le
  <2> QED
    BY <1>2, <2>2
<1>6. \E p \in PermutationsOf(n) : \A i, j \in 1 .. n : i < j => <<p[i], p[j]>> \in Le
  <2>1. Le \in SUBSET ((1 .. n) \X (1 .. n))
    OBVIOUS
  <2> HIDE DEF Le
  <2> QED
    BY <1>3, <1>4, <1>5, <2>1, RankExists
<1>7. \E p \in PermutationsOf(n) : Right(p)
  <2>1. PICK p \in PermutationsOf(n) : \A i, j \in 1 .. n : i < j => <<p[i], p[j]>> \in Le
    BY <1>6
  <2>2. \A i \in Q : p[i] \in Q
    BY DEF PermutationsOf
  <2> HIDE DEF Le
  <2> QED
    BY <1>2, <2>1, <2>2
<1> DEFINE p == CHOOSE p \in PermutationsOf(n) : Right(p)
<1>8. p \in PermutationsOf(n) /\ Right(p)
  BY <1>7
<1>9. SortedBy(s, lt) = [i \in Q |-> s[p[i]]]
  BY <1>0 DEF SortedBy
<1> HIDE DEF p
<1>10. \A i \in Q : p[i] \in Q
  BY <1>8 DEF PermutationsOf
<1>11. SortedBy(s, lt) \in Seq(A) /\ Len(SortedBy(s, lt)) = n
  BY <1>0, <1>1, <1>9, <1>10
<1>12. \A i \in Q : SortedBy(s, lt)[i] = s[p[i]]
  BY <1>9
<1> QED
  BY <1>0, <1>8, <1>9, <1>11, <1>12

\* Sorting keeps the elements, and how often they are there.
LEMMA SortedByKeeps ==
  ASSUME NEW A, NEW s \in Seq(A), NEW lt, Orders(lt, ToSet(s))
  PROVE  /\ ToSet(SortedBy(s, lt)) = ToSet(s)
         /\ IsInjective(s) => IsInjective(SortedBy(s, lt))
<1>0. PICK n \in Nat : n = Len(s) /\ DOMAIN s = 1 .. n
  OBVIOUS
<1>1. PICK t : t = SortedBy(s, lt)
  OBVIOUS
<1>2. PICK p \in PermutationsOf(n) : t = [i \in 1 .. n |-> s[p[i]]]
  BY <1>0, <1>1, SortedByIs
<1>3. p \in [1 .. n -> 1 .. n] /\ \A i, j \in 1 .. n : p[i] = p[j] => i = j
  BY DEF PermutationsOf, IsInjective
<1>4. \A k \in 1 .. n : \E i \in 1 .. n : p[i] = k
  BY PermutationsCover
<1>5. DOMAIN t = 1 .. n /\ \A i \in 1 .. n : p[i] \in 1 .. n /\ t[i] = s[p[i]]
  BY <1>2, <1>3
<1>6. ToSet(t) = ToSet(s)
  <2>1. ToSet(t) = { t[i] : i \in 1 .. n } /\ ToSet(s) = { s[i] : i \in 1 .. n }
    BY <1>0, <1>5 DEF ToSet
  <2>2. \A i \in 1 .. n : t[i] \in { s[k] : k \in 1 .. n }
    BY <1>5
  <2>3. \A k \in 1 .. n : s[k] \in { t[i] : i \in 1 .. n }
    <3>1. TAKE k \in 1 .. n
    <3>2. PICK i \in 1 .. n : p[i] = k
      BY <1>4
    <3>3. t[i] = s[k]
      BY <1>5, <3>2
    <3> QED
      BY <3>3
  <2> QED
    BY <2>1, <2>2, <2>3
<1>7. IsInjective(s) => IsInjective(t)
  BY <1>0, <1>3, <1>5 DEF IsInjective
<1> QED
  BY <1>1, <1>6, <1>7

-----------------------------------------------------------------------------
(* prune_graph.                                                            *)

LEMMA DistanceIs ==
  ASSUME NEW a \in Seq(Int), NEW b \in Seq(Int), Len(a) = Len(b)
  PROVE  Distance2(a, b) \in Int /\ Distance2(a, b) = Distance2(b, a)
<1>1. Distance2(a, b) = L2(a, b) /\ Distance2(b, a) = L2(b, a)
  BY DEF Distance2, L2
<1>2. PICK n \in Nat : n = Len(a) /\ n = Len(b)
  OBVIOUS
<1>3. PICK g \in [0 .. Len(a) -> Int] :
        /\ g[0] = 0 /\ L2(a, b) = g[Len(a)]
        /\ \A k \in 1 .. Len(a) : g[k] = g[k - 1] + (a[k] - b[k]) * (a[k] - b[k])
  BY SumSteps
<1>4. PICK h \in [0 .. Len(b) -> Int] :
        /\ h[0] = 0 /\ L2(b, a) = h[Len(b)]
        /\ \A k \in 1 .. Len(b) : h[k] = h[k - 1] + (b[k] - a[k]) * (b[k] - a[k])
  BY SumSteps
<1>5. \A k \in 1 .. n : (a[k] - b[k]) * (a[k] - b[k]) = (b[k] - a[k]) * (b[k] - a[k])
  <2>1. TAKE k \in 1 .. n
  <2>2. a[k] \in Int /\ b[k] \in Int
    BY <1>2
  <2>3. \A x, y \in Int : (x - y) * (x - y) = (y - x) * (y - x)
    OBVIOUS
  <2> QED
    BY <2>2, <2>3
<1>6. GoOnAlike(g, h, n)
  BY <1>2, <1>3, <1>4, <1>5 DEF GoOnAlike
<1>7. \A k \in 0 .. n : g[k] = h[k]
  BY <1>2, <1>6, SameSteps
<1>8. n \in 0 .. n
  OBVIOUS
<1> QED
  BY <1>1, <1>2, <1>3, <1>4, <1>7, <1>8

\* The distance of two nodes of a graph.
Away(g, u, v) == Distance2(g.vectors[u], g.vectors[v])

LEMMA AwayIs ==
  ASSUME NEW g, IsGraph(g), NEW u \in Ids, NEW v \in Ids
  PROVE  Away(g, u, v) \in Int /\ Away(g, u, v) = Away(g, v, u)
<1>1. /\ g.vectors[u] \in Seq(Int) /\ Len(g.vectors[u]) = Dim
      /\ g.vectors[v] \in Seq(Int) /\ Len(g.vectors[v]) = Dim
  BY DEF IsGraph
<1> QED
  BY <1>1, DistanceIs DEF Away

LEMMA NearestFirstIs ==
  ASSUME NEW g, IsGraph(g), NEW u \in Ids
  PROVE  LET s == NearestFirst(g, u)
         IN  /\ s \in Seq(Ids \ {u}) /\ Len(s) = Len(g.adjacency0[u]) /\ IsInjective(s)
             /\ ToSet(s) = ToSet(g.adjacency0[u])
             /\ \A i, j \in 1 .. Len(s) : i < j => Away(g, u, s[i]) <= Away(g, u, s[j])
<1>1. PICK list \in Seq(Ids \ {u}) : list = g.adjacency0[u] /\ IsInjective(list)
  BY DEF IsGraph
<1>2. ToSet(list) \in SUBSET Ids
  <2>1. ToSet(list) \subseteq Ids \ {u}
    BY Widened
  <2> QED
    BY <2>1
<1> DEFINE all == ToSet(list)
           lt == { p \in all \X all : \/ Away(g, u, p[1]) < Away(g, u, p[2])
                                      \/ Away(g, u, p[1]) = Away(g, u, p[2]) /\ p[1] < p[2] }
<1>3. NearestFirst(g, u) = SortedBy(list, lt)
  BY <1>1 DEF NearestFirst, Away
<1>4. \A v, w \in all : <<v, w>> \in lt <=> \/ Away(g, u, v) < Away(g, u, w)
                                            \/ Away(g, u, v) = Away(g, u, w) /\ v < w
  OBVIOUS
<1>5. \A v \in all : Away(g, u, v) \in Int /\ v \in Int
  <2>1. \A v \in Ids : v \in Int
    BY IdsAre
  <2> QED
    BY <1>2, <2>1, AwayIs
<1> HIDE DEF lt, all
<1>6. Orders(lt, all)
  <2>1. \A v \in all : <<v, v>> \notin lt
    BY <1>4, <1>5
  <2>2. \A v, w \in all : v # w => <<v, w>> \in lt \/ <<w, v>> \in lt
    BY <1>4, <1>5
  <2>3. \A v, w, x \in all : <<v, w>> \in lt /\ <<w, x>> \in lt => <<v, x>> \in lt
    BY <1>4, <1>5
  <2> QED
    BY <2>1, <2>2, <2>3 DEF Orders
<1>7. PICK s : s = SortedBy(list, lt)
  OBVIOUS
<1>8. /\ s \in Seq(Ids \ {u}) /\ Len(s) = Len(list)
      /\ \A i, j \in 1 .. Len(list) : i < j => <<s[i], s[j]>> \in lt \/ s[i] = s[j]
  BY <1>6, <1>7, SortedByIs DEF all
<1>9. ToSet(s) = all /\ IsInjective(s)
  BY <1>1, <1>6, <1>7, SortedByKeeps DEF all
<1>10. ASSUME NEW i \in 1 .. Len(s), NEW j \in 1 .. Len(s), i < j
       PROVE  Away(g, u, s[i]) <= Away(g, u, s[j])
  <2>1. s[i] \in all /\ s[j] \in all
    <3>1. s[i] \in ToSet(s) /\ s[j] \in ToSet(s)
      BY <1>8 DEF ToSet
    <3> QED
      BY <1>9, <3>1
  <2>2. <<s[i], s[j]>> \in lt \/ s[i] = s[j]
    BY <1>8, <1>10
  <2> QED
    BY <1>4, <1>5, <2>1, <2>2
<1> QED
  BY <1>1, <1>3, <1>7, <1>8, <1>9, <1>10 DEF all

\* Why prune_graph may drop the i-th of all.
Near(g, u, all, i, s, max) ==
  \/ all[i] \in ToSet(s)
  \/ \E w \in ToSet(s) : Away(g, all[i], w) < Away(g, u, all[i])
  \/ Len(s) >= max /\ \A w \in ToSet(s) : Away(g, u, w) <= Away(g, u, all[i])

LEMMA MrngRight ==
  ASSUME NEW g, IsGraph(g), NEW u \in Ids, NEW max \in Nat, NEW all, all = NearestFirst(g, u)
  PROVE  LET r == Mrng(g, u, max)
         IN  /\ r \in Seq(Ids \ {u}) /\ IsInjective(r) /\ ToSet(r) \subseteq ToSet(all)
             /\ Len(r) <= max
             /\ \A i \in 1 .. Len(all) : Near(g, u, all, i, r, max)
<1> DEFINE U == Seq(Ids \ {u})
           far(s, v) == \/ Len(s) >= max
                        \/ \E w \in ToSet(s) : Away(g, v, w) < Away(g, u, v)
           look(s, v) == IF far(s, v) THEN s ELSE Append(s, v)
           none == <<>>
<1>1. /\ all \in Seq(Ids \ {u}) /\ IsInjective(all)
      /\ \A i, j \in 1 .. Len(all) : i < j => Away(g, u, all[i]) <= Away(g, u, all[j])
  BY NearestFirstIs
<1>2. PICK n \in Nat : n = Len(all) /\ DOMAIN all = 1 .. n
  BY <1>1
<1>3. \A k \in 1 .. n : all[k] \in Ids \ {u}
  BY <1>1, <1>2
<1> DEFINE Rule(f) == f = [k \in 0 .. n |-> IF k = 0 THEN none ELSE look(f[k - 1], all[k])]
           F == [k \in 1 .. n |-> [s \in U |-> look(s, all[k])]]
<1>4. \A s \in U, v \in Ids \ {u} : look(s, v) \in U
  <2> HIDE DEF far
  <2> QED
    OBVIOUS
<1> HIDE DEF far, look
<1>5. F \in [1 .. n -> [U -> U]]
  BY <1>3, <1>4
<1>6. none \in U
  OBVIOUS
<1>7. PICK h \in [0 .. n -> U] : h[0] = none /\ \A k \in 1 .. n : h[k] = F[k][h[k - 1]]
  <2>1. \E f \in [0 .. n -> U] : Follows(f, n, none, F)
    <3> HIDE DEF F, U, none
    <3> QED
      BY <1>5, <1>6, RecursionExists
  <2> QED
    BY <2>1 DEF Follows
<1>8. \A k \in 1 .. n : h[k] = look(h[k - 1], all[k]) /\ k \in 0 .. n /\ k - 1 \in 0 .. n
  <2>1. \A k \in 1 .. n : k \in 0 .. n /\ k - 1 \in 0 .. n
    OBVIOUS
  <2> HIDE DEF U
  <2> QED
    BY <1>7, <2>1
<1> HIDE DEF F, U
<1>9. Rule(h)
  <2>1. h = [k \in 0 .. n |-> h[k]]
    OBVIOUS
  <2>2. \A k \in 0 .. n : h[k] = IF k = 0 THEN none ELSE look(h[k - 1], all[k])
    <3>1. \A k \in 0 .. n : k # 0 => k \in 1 .. n
      OBVIOUS
    <3> QED
      BY <1>7, <1>8, <3>1
  <2> QED
    BY <2>1, <2>2
<1> DEFINE f == CHOOSE f : Rule(f)
<1>10. Rule(f)
  BY <1>9
<1>11. Mrng(g, u, max) = f[n]
  BY <1>2 DEF Mrng, Away, far, look
<1> HIDE DEF f
<1>12. f[0] = <<>> /\ \A k \in 1 .. n : f[k] = look(f[k - 1], all[k])
  <2>1. \A k \in 1 .. n : k \in 0 .. n /\ k # 0
    OBVIOUS
  <2>2. 0 \in 0 .. n
    OBVIOUS
  <2> QED
    BY <1>10, <2>1, <2>2
<1> DEFINE Good(k, s) ==
             /\ s \in Seq(Ids \ {u}) /\ IsInjective(s) /\ Len(s) <= max
             /\ \A w \in ToSet(s) : \E j \in 1 .. k : w = all[j]
             /\ \A i \in 1 .. k : Near(g, u, all, i, s, max)
<1>13. Good(0, <<>>)
  <2>1. <<>> \in Seq(Ids \ {u}) /\ IsInjective(<<>>) /\ Len(<<>>) <= max /\ ToSet(<<>>) = {}
    BY DEF IsInjective, ToSet
  <2>2. 1 .. 0 = {}
    OBVIOUS
  <2> QED
    BY <2>1, <2>2
<1>14. ASSUME NEW k \in 1 .. n, NEW s, Good(k - 1, s)
       PROVE  Good(k, look(s, all[k]))
  <2>1. /\ s \in Seq(Ids \ {u}) /\ IsInjective(s) /\ Len(s) <= max
        /\ \A w \in ToSet(s) : \E j \in 1 .. k - 1 : w = all[j]
        /\ \A i \in 1 .. k - 1 : Near(g, u, all, i, s, max)
    BY <1>14
  <2>2. Len(s) \in Nat /\ k \in Nat /\ \A j \in 1 .. k - 1 : j \in 1 .. k /\ j < k /\ j \in 1 .. n
    BY <2>1
  <2>3. \A w \in ToSet(s) : \E j \in 1 .. k : w = all[j]
    BY <2>1, <2>2
  <2>4. \A i \in 1 .. k : i \in 1 .. k - 1 \/ i = k
    BY <2>2
  <2>5. CASE far(s, all[k])
    <3>1. look(s, all[k]) = s
      BY <2>5 DEF look
    <3>2. Near(g, u, all, k, s, max)
      <4>1. CASE Len(s) >= max
        <5>1. ASSUME NEW w \in ToSet(s) PROVE Away(g, u, w) <= Away(g, u, all[k])
          <6>1. PICK j \in 1 .. k - 1 : w = all[j]
            BY <2>1
          <6>2. j \in 1 .. Len(all) /\ k \in 1 .. Len(all) /\ j < k
            BY <1>2, <2>2
          <6> QED
            BY <1>1, <6>1, <6>2
        <5> QED
          BY <4>1, <5>1 DEF Near
      <4>2. CASE ~(Len(s) >= max)
        BY <2>5, <4>2 DEF far, Near
      <4> QED
        BY <4>1, <4>2
    <3> QED
      BY <2>1, <2>3, <2>4, <3>1, <3>2
  <2>6. CASE ~far(s, all[k])
    <3>1. PICK t : t = Append(s, all[k])
      OBVIOUS
    <3>2. look(s, all[k]) = t /\ ~(Len(s) >= max)
      BY <2>6, <3>1 DEF look, far
    <3>3. all[k] \notin ToSet(s)
      <4>1. SUFFICES ASSUME all[k] \in ToSet(s) PROVE FALSE
        OBVIOUS
      <4>2. PICK j \in 1 .. k - 1 : all[k] = all[j]
        BY <2>1, <4>1
      <4>3. j \in DOMAIN all /\ k \in DOMAIN all /\ j # k
        BY <1>2, <2>2
      <4> QED
        BY <1>1, <4>2, <4>3 DEF IsInjective
    <3>4. all[k] \in Ids \ {u}
      BY <1>3
    <3>5. /\ t \in Seq(Ids \ {u}) /\ Len(t) = Len(s) + 1 /\ ToSet(t) = ToSet(s) \cup {all[k]}
          /\ IsInjective(t)
      BY <2>1, <3>1, <3>3, <3>4, Appended
    <3>6. Len(t) <= max
      BY <2>2, <3>2, <3>5
    <3>7. \A w \in ToSet(t) : \E j \in 1 .. k : w = all[j]
      BY <2>2, <2>3, <3>5
    <3>8. ASSUME NEW i \in 1 .. k PROVE Near(g, u, all, i, t, max)
      <4>1. CASE i = k
        BY <3>5, <4>1 DEF Near
      <4>2. CASE i # k
        <5>1. Near(g, u, all, i, s, max)
          BY <2>1, <2>4, <4>2
        <5> QED
          BY <3>2, <3>5, <5>1 DEF Near
      <4> QED
        BY <4>1, <4>2
    <3> QED
      BY <3>2, <3>5, <3>6, <3>7, <3>8
  <2> QED
    BY <2>5, <2>6
<1> HIDE DEF Good
<1>15. Good(n, f[n])
  <2> DEFINE Ok == [k \in 0 .. n |-> {s \in {f[k]} : Good(k, s)}]
  <2>1. f[0] \in Ok[0]
    BY <1>12, <1>13
  <2>2. \A k \in 1 .. n : f[k - 1] \in Ok[k - 1] => f[k] \in Ok[k]
    BY <1>8, <1>12, <1>14
  <2>3. \A k \in 0 .. n : f[k] \in Ok[k]
    <3> HIDE DEF Ok
    <3> QED
      BY <2>1, <2>2, StepsKeep
  <2>4. n \in 0 .. n
    OBVIOUS
  <2> QED
    BY <2>3, <2>4
<1>16. PICK r : r = f[n]
  OBVIOUS
<1>17. /\ r \in Seq(Ids \ {u}) /\ IsInjective(r) /\ Len(r) <= max
       /\ \A w \in ToSet(r) : \E j \in 1 .. n : w = all[j]
       /\ \A i \in 1 .. n : Near(g, u, all, i, r, max)
  BY <1>15, <1>16 DEF Good
<1>18. ToSet(r) \subseteq ToSet(all)
  BY <1>2, <1>17 DEF ToSet
<1> QED
  BY <1>2, <1>11, <1>16, <1>17, <1>18

LEMMA FilledUpRight ==
  ASSUME NEW g, IsGraph(g), NEW u \in Ids, NEW min \in Nat, NEW all, all = NearestFirst(g, u),
         NEW r \in Seq(Ids \ {u}), IsInjective(r), ToSet(r) \subseteq ToSet(all)
  PROVE  LET t == FilledUp(r, all, min)
         IN  /\ t \in Seq(Ids \ {u}) /\ IsInjective(t)
             /\ ToSet(r) \subseteq ToSet(t) /\ ToSet(t) \subseteq ToSet(all)
             /\ \A i \in 1 .. Len(all) :
                  \/ all[i] \in ToSet(t)
                  \/ \A w \in ToSet(t) \ ToSet(r) : Away(g, u, w) <= Away(g, u, all[i])
<1> DEFINE U == Seq(Ids \ {u})
           stay(s, v) == Len(s) >= min \/ v \in ToSet(s)
           add(s, v) == IF stay(s, v) THEN s ELSE Append(s, v)
<1>1. /\ all \in Seq(Ids \ {u}) /\ IsInjective(all)
      /\ \A i, j \in 1 .. Len(all) : i < j => Away(g, u, all[i]) <= Away(g, u, all[j])
  BY NearestFirstIs
<1>2. PICK n \in Nat : n = Len(all) /\ DOMAIN all = 1 .. n
  BY <1>1
<1>3. \A k \in 1 .. n : all[k] \in Ids \ {u}
  BY <1>1, <1>2
<1> DEFINE Rule(f) == f = [k \in 0 .. n |-> IF k = 0 THEN r ELSE add(f[k - 1], all[k])]
           F == [k \in 1 .. n |-> [s \in U |-> add(s, all[k])]]
<1>4. \A s \in U, v \in Ids \ {u} : add(s, v) \in U
  <2> HIDE DEF stay
  <2> QED
    OBVIOUS
<1> HIDE DEF stay, add
<1>5. F \in [1 .. n -> [U -> U]]
  BY <1>3, <1>4
<1>6. r \in U
  OBVIOUS
<1>7. PICK h \in [0 .. n -> U] : h[0] = r /\ \A k \in 1 .. n : h[k] = F[k][h[k - 1]]
  <2>1. \E f \in [0 .. n -> U] : Follows(f, n, r, F)
    <3> HIDE DEF F, U
    <3> QED
      BY <1>5, <1>6, RecursionExists
  <2> QED
    BY <2>1 DEF Follows
<1>8. \A k \in 1 .. n : h[k] = add(h[k - 1], all[k]) /\ k \in 0 .. n /\ k - 1 \in 0 .. n
  <2>1. \A k \in 1 .. n : k \in 0 .. n /\ k - 1 \in 0 .. n
    OBVIOUS
  <2> HIDE DEF U
  <2> QED
    BY <1>7, <2>1
<1> HIDE DEF F, U
<1>9. Rule(h)
  <2>1. h = [k \in 0 .. n |-> h[k]]
    OBVIOUS
  <2>2. \A k \in 0 .. n : h[k] = IF k = 0 THEN r ELSE add(h[k - 1], all[k])
    <3>1. \A k \in 0 .. n : k # 0 => k \in 1 .. n
      OBVIOUS
    <3> QED
      BY <1>7, <1>8, <3>1
  <2> QED
    BY <2>1, <2>2
<1> DEFINE f == CHOOSE f : Rule(f)
<1>10. Rule(f)
  BY <1>9
<1>11. FilledUp(r, all, min) = f[n]
  BY <1>2 DEF FilledUp, stay, add
<1> HIDE DEF f
<1>12. f[0] = r /\ \A k \in 1 .. n : f[k] = add(f[k - 1], all[k])
  <2>1. \A k \in 1 .. n : k \in 0 .. n /\ k # 0
    OBVIOUS
  <2>2. 0 \in 0 .. n
    OBVIOUS
  <2> QED
    BY <1>10, <2>1, <2>2
<1> DEFINE Good(k, s) ==
             /\ s \in Seq(Ids \ {u}) /\ IsInjective(s) /\ ToSet(r) \subseteq ToSet(s)
             /\ \A w \in ToSet(s) \ ToSet(r) : \E j \in 1 .. k : w = all[j]
             /\ \A i \in 1 .. k :
                  \/ all[i] \in ToSet(s)
                  \/ /\ Len(s) >= min
                     /\ \A w \in ToSet(s) \ ToSet(r) : Away(g, u, w) <= Away(g, u, all[i])
<1>13. Good(0, r)
  <2>1. 1 .. 0 = {}
    OBVIOUS
  <2> QED
    BY <2>1
<1>14. ASSUME NEW k \in 1 .. n, NEW s, Good(k - 1, s)
       PROVE  Good(k, add(s, all[k]))
  <2>1. /\ s \in Seq(Ids \ {u}) /\ IsInjective(s) /\ ToSet(r) \subseteq ToSet(s)
        /\ \A w \in ToSet(s) \ ToSet(r) : \E j \in 1 .. k - 1 : w = all[j]
        /\ \A i \in 1 .. k - 1 :
             \/ all[i] \in ToSet(s)
             \/ /\ Len(s) >= min
                /\ \A w \in ToSet(s) \ ToSet(r) : Away(g, u, w) <= Away(g, u, all[i])
    BY <1>14
  <2>2. Len(s) \in Nat /\ k \in Nat /\ \A j \in 1 .. k - 1 : j \in 1 .. k /\ j < k /\ j \in 1 .. n
    BY <2>1
  <2>3. \A w \in ToSet(s) \ ToSet(r) : \E j \in 1 .. k : w = all[j]
    BY <2>1, <2>2
  <2>4. \A i \in 1 .. k : i \in 1 .. k - 1 \/ i = k
    BY <2>2
  <2>5. CASE stay(s, all[k])
    <3>1. add(s, all[k]) = s
      BY <2>5 DEF add
    <3>2. CASE all[k] \in ToSet(s)
      BY <2>1, <2>3, <2>4, <3>1, <3>2
    <3>3. CASE all[k] \notin ToSet(s)
      <4>1. Len(s) >= min
        BY <2>5, <3>3 DEF stay
      <4>2. ASSUME NEW w \in ToSet(s) \ ToSet(r) PROVE Away(g, u, w) <= Away(g, u, all[k])
        <5>1. PICK j \in 1 .. k - 1 : w = all[j]
          BY <2>1
        <5>2. j \in 1 .. Len(all) /\ k \in 1 .. Len(all) /\ j < k
          BY <1>2, <2>2
        <5> QED
          BY <1>1, <5>1, <5>2
      <4> QED
        BY <2>1, <2>3, <2>4, <3>1, <4>1, <4>2
    <3> QED
      BY <3>2, <3>3
  <2>6. CASE ~stay(s, all[k])
    <3>1. PICK t : t = Append(s, all[k])
      OBVIOUS
    <3>2. add(s, all[k]) = t /\ ~(Len(s) >= min) /\ all[k] \notin ToSet(s)
      BY <2>6, <3>1 DEF add, stay
    <3>3. all[k] \in Ids \ {u}
      BY <1>3
    <3>4. /\ t \in Seq(Ids \ {u}) /\ Len(t) = Len(s) + 1 /\ ToSet(t) = ToSet(s) \cup {all[k]}
          /\ IsInjective(t)
      BY <2>1, <3>1, <3>2, <3>3, Appended
    <3>5. \A w \in ToSet(t) \ ToSet(r) : \E j \in 1 .. k : w = all[j]
      BY <2>2, <2>3, <3>4
    <3>6. \A i \in 1 .. k : all[i] \in ToSet(t)
      BY <2>1, <2>4, <3>2, <3>4
    <3> QED
      BY <2>1, <3>2, <3>4, <3>5, <3>6
  <2> QED
    BY <2>5, <2>6
<1> HIDE DEF Good
<1>15. Good(n, f[n])
  <2> DEFINE Ok == [k \in 0 .. n |-> {s \in {f[k]} : Good(k, s)}]
  <2>1. f[0] \in Ok[0]
    BY <1>12, <1>13
  <2>2. \A k \in 1 .. n : f[k - 1] \in Ok[k - 1] => f[k] \in Ok[k]
    BY <1>8, <1>12, <1>14
  <2>3. \A k \in 0 .. n : f[k] \in Ok[k]
    <3> HIDE DEF Ok
    <3> QED
      BY <2>1, <2>2, StepsKeep
  <2>4. n \in 0 .. n
    OBVIOUS
  <2> QED
    BY <2>3, <2>4
<1>16. PICK t : t = f[n]
  OBVIOUS
<1>17. /\ t \in Seq(Ids \ {u}) /\ IsInjective(t) /\ ToSet(r) \subseteq ToSet(t)
       /\ \A w \in ToSet(t) \ ToSet(r) : \E j \in 1 .. n : w = all[j]
       /\ \A i \in 1 .. n :
            \/ all[i] \in ToSet(t)
            \/ \A w \in ToSet(t) \ ToSet(r) : Away(g, u, w) <= Away(g, u, all[i])
  BY <1>15, <1>16 DEF Good
<1>18. ToSet(t) \subseteq ToSet(all)
  <2>1. \A j \in 1 .. n : all[j] \in ToSet(all)
    BY <1>2 DEF ToSet
  <2> QED
    BY <1>17, <2>1
<1> QED
  BY <1>2, <1>11, <1>16, <1>17, <1>18

\* A list without repetitions is as long as it has elements.
LEMMA InjectiveSize ==
  ASSUME NEW A, NEW s \in Seq(A), IsInjective(s)
  PROVE  IsFiniteSet(ToSet(s)) /\ Cardinality(ToSet(s)) = Len(s)
<1>1. PICK n \in Nat : n = Len(s) /\ DOMAIN s = 1 .. n
  OBVIOUS
<1>2. s \in [1 .. n -> ToSet(s)] /\ \A x \in ToSet(s) : \E i \in 1 .. n : s[i] = x
  BY <1>1 DEF ToSet
<1>3. s \in Bijection(1 .. n, ToSet(s))
  BY <1>1, <1>2 DEF Bijection, Injection, Surjection
<1>4. ExistsBijection(1 .. n, ToSet(s))
  BY <1>3 DEF ExistsBijection
<1> QED
  BY <1>1, <1>4, FS_CountingElements, FS_NatBijection

\* What prune_graph promises of a list it shortens.
Shortened(g, u, list, least) ==
  /\ list \in Seq(Ids \ {u}) /\ IsInjective(list) /\ ToSet(list) \subseteq ToSet(g.adjacency0[u])
  /\ \A v \in ToSet(g.adjacency0[u]) \ ToSet(list) :
       \/ \E w \in ToSet(list) : Away(g, w, v) < Away(g, u, v)
       \/ /\ Cardinality(ToSet(list)) >= least
          /\ \A w \in ToSet(list) : Away(g, u, w) <= Away(g, u, v)

LEMMA CapShortens ==
  ASSUME NEW g, IsGraph(g), NEW u \in Ids, NEW max \in Nat, max < Len(g.adjacency0[u])
  PROVE  Shortened(g, u, SubSeq(NearestFirst(g, u), 1, max), max)
<1>1. PICK all : all = NearestFirst(g, u)
  OBVIOUS
<1>2. /\ all \in Seq(Ids \ {u}) /\ IsInjective(all) /\ Len(all) = Len(g.adjacency0[u])
      /\ ToSet(all) = ToSet(g.adjacency0[u])
      /\ \A i, j \in 1 .. Len(all) : i < j => Away(g, u, all[i]) <= Away(g, u, all[j])
  BY <1>1, NearestFirstIs
<1>3. PICK s : s = SubSeq(all, 1, max)
  OBVIOUS
<1>4. PICK n \in Nat : n = Len(all) /\ DOMAIN all = 1 .. n /\ max < n
  BY <1>2
<1>5. s \in Seq(Ids \ {u}) /\ Len(s) = max /\ DOMAIN s = 1 .. max /\ \A i \in 1 .. max : s[i] = all[i]
  <2>1. 1 \in 1 .. Len(all) + 1 /\ max \in 0 .. Len(all)
    BY <1>4
  <2>2. s \in Seq(Ids \ {u}) /\ Len(s) = max
    BY <1>2, <1>3, <2>1
  <2>3. \A i \in 1 .. max : s[i] = all[i]
    BY <1>2, <1>3, <2>1
  <2> QED
    BY <2>2, <2>3
<1>6. \A i \in 1 .. max : i \in 1 .. n
  BY <1>4
<1>7. IsInjective(s)
  BY <1>2, <1>4, <1>5, <1>6 DEF IsInjective
<1>8. ToSet(s) \subseteq ToSet(all)
  BY <1>4, <1>5, <1>6 DEF ToSet
<1>9. Cardinality(ToSet(s)) = max
  BY <1>5, <1>7, InjectiveSize
<1>10. ASSUME NEW v \in ToSet(all) \ ToSet(s), NEW w \in ToSet(s)
       PROVE  Away(g, u, w) <= Away(g, u, v)
  <2>1. PICK j \in 1 .. n : v = all[j]
    BY <1>4 DEF ToSet
  <2>2. PICK i \in 1 .. max : w = all[i]
    BY <1>5 DEF ToSet
  <2>3. j \notin 1 .. max
    <3>1. \A k \in 1 .. max : s[k] \in ToSet(s)
      BY <1>5 DEF ToSet
    <3> QED
      BY <1>5, <2>1, <3>1
  <2>4. i < j /\ i \in 1 .. Len(all) /\ j \in 1 .. Len(all)
    BY <1>4, <1>6, <2>3
  <2> QED
    BY <1>2, <2>1, <2>2, <2>4
<1>11. max >= max
  OBVIOUS
<1> QED
  BY <1>1, <1>2, <1>3, <1>5, <1>7, <1>8, <1>9, <1>10, <1>11 DEF Shortened

LEMMA MrngShortens ==
  ASSUME NEW g, IsGraph(g), NEW u \in Ids, NEW min \in Nat, NEW max \in Nat
  PROVE  Shortened(g, u, FilledUp(Mrng(g, u, max), NearestFirst(g, u), min), max)
<1>1. PICK all : all = NearestFirst(g, u)
  OBVIOUS
<1>2. /\ all \in Seq(Ids \ {u}) /\ ToSet(all) = ToSet(g.adjacency0[u])
  BY <1>1, NearestFirstIs
<1>3. PICK r : r = Mrng(g, u, max)
  OBVIOUS
<1>4. /\ r \in Seq(Ids \ {u}) /\ IsInjective(r) /\ ToSet(r) \subseteq ToSet(all)
      /\ \A i \in 1 .. Len(all) : Near(g, u, all, i, r, max)
  BY <1>1, <1>3, MrngRight
<1>5. PICK t : t = FilledUp(r, all, min)
  OBVIOUS
<1>6. /\ t \in Seq(Ids \ {u}) /\ IsInjective(t)
      /\ ToSet(r) \subseteq ToSet(t) /\ ToSet(t) \subseteq ToSet(all)
      /\ \A i \in 1 .. Len(all) :
           \/ all[i] \in ToSet(t)
           \/ \A w \in ToSet(t) \ ToSet(r) : Away(g, u, w) <= Away(g, u, all[i])
  BY <1>1, <1>4, <1>5, FilledUpRight
<1>7. ASSUME NEW v \in ToSet(all) \ ToSet(t)
      PROVE  \/ \E w \in ToSet(t) : Away(g, w, v) < Away(g, u, v)
             \/ /\ Cardinality(ToSet(t)) >= max
                /\ \A w \in ToSet(t) : Away(g, u, w) <= Away(g, u, v)
  <2>1. PICK i \in 1 .. Len(all) : v = all[i]
    BY <1>2 DEF ToSet
  <2>2. v \in Ids
    <3>1. ToSet(all) \subseteq Ids \ {u}
      BY <1>2, Widened
    <3> QED
      BY <3>1
  <2>3. Near(g, u, all, i, r, max)
    BY <1>4
  <2>4. v \notin ToSet(r)
    BY <1>6
  <2>5. CASE \E w \in ToSet(r) : Away(g, v, w) < Away(g, u, v)
    <3>1. PICK w \in ToSet(r) : Away(g, v, w) < Away(g, u, v)
      BY <2>5
    <3>2. w \in Ids
      <4>1. ToSet(r) \subseteq Ids \ {u}
        BY <1>4, Widened
      <4> QED
        BY <4>1
    <3>3. Away(g, v, w) = Away(g, w, v)
      BY <2>2, <3>2, AwayIs
    <3> QED
      BY <1>6, <3>1, <3>3
  <2>6. CASE Len(r) >= max /\ \A w \in ToSet(r) : Away(g, u, w) <= Away(g, u, v)
    <3>1. Cardinality(ToSet(r)) = Len(r) /\ Cardinality(ToSet(t)) = Len(t) /\ IsFiniteSet(ToSet(t))
      BY <1>4, <1>6, InjectiveSize
    <3>2. Cardinality(ToSet(r)) <= Cardinality(ToSet(t))
      BY <1>6, <3>1, FS_Subset
    <3>3. Len(r) \in Nat /\ Len(t) \in Nat
      BY <1>4, <1>6
    <3>4. Cardinality(ToSet(t)) >= max
      BY <2>6, <3>1, <3>2, <3>3
    <3>5. \A w \in ToSet(t) \ ToSet(r) : Away(g, u, w) <= Away(g, u, v)
      BY <1>6, <2>1
    <3> QED
      BY <2>6, <3>4, <3>5
  <2> QED
    BY <2>1, <2>3, <2>4, <2>5, <2>6 DEF Near
<1> QED
  BY <1>1, <1>2, <1>3, <1>5, <1>6, <1>7 DEF Shortened

-----------------------------------------------------------------------------
(* The graph file.                                                         *)

LEMMA SavedIsLoaded ==
  ASSUME NEW g, IsGraph(g)
  PROVE  /\ SaveGraph(g) # NoFile /\ Saved(SaveGraph(g), g)
         /\ LoadGraph(SaveGraph(g)) = Plain(g) /\ IsGraph(Plain(g))
         /\ SaveGraph(Plain(g)) = SaveGraph(g) /\ Plain(Plain(g)) = Plain(g)
<1>1. PICK f : f = SaveGraph(g)
  OBVIOUS
<1>2. Saved(f, g)
  BY <1>1, SavedParts
<1>3. LoadGraph(f) = Plain(g)
  BY <1>2, LoadsSaved
<1>4. f # NoFile
  <2>1. Holds(f, 7, InOrder(g.levels, N)) /\ Len(InOrder(g.levels, N)) = N /\ f \in Seq(Int)
    BY <1>2, GraphTyped DEF Saved
  <2>2. 7 + N <= Len(f)
    BY <2>1 DEF Holds
  <2>3. Len(<<>>) = 0
    OBVIOUS
  <2> QED
    BY <2>2, <2>3, NIs DEF NoFile
<1> QED
  BY <1>1, <1>2, <1>3, <1>4, PlainIs

\* prune_graph, for any mode and bounds.
LEMMA PrunedIs ==
  ASSUME NEW g, IsGraph(g), Plain(g) = g, NEW mode, NEW min \in Nat, NEW max \in Nat
  PROVE  LET h == Pruned(g, mode, min, max)
         IN  /\ IsGraph(h) /\ Plain(h) = h
             /\ \A u \in Ids : /\ h.vectors[u] = g.vectors[u]
                               /\ \/ h.adjacency0[u] = g.adjacency0[u]
                                  \/ Shortened(g, u, h.adjacency0[u], max)
<1> DEFINE list(u) ==
             IF Len(g.adjacency0[u]) <= max THEN g.adjacency0[u]
             ELSE IF mode = "cap" THEN SubSeq(NearestFirst(g, u), 1, max)
             ELSE FilledUp(Mrng(g, u, max), NearestFirst(g, u), min)
           h == Pruned(g, mode, min, max)
<1>1. Nodes(g) = Ids
  BY DEF IsGraph, Nodes, Ids
<1>2. h = [g EXCEPT !.adjacency0 = [u \in Ids |-> list(u)]]
  BY <1>1 DEF Pruned
<1>3. g = [ num_nodes |-> N, dim |-> Dim, entry_point |-> g.entry_point, max_level |-> g.max_level,
            levels          |-> [i \in Ids |-> g.levels[i]],
            vectors         |-> [i \in Ids |-> g.vectors[i]],
            labels          |-> [i \in Ids |-> g.labels[i]],
            adjacency0      |-> [i \in Ids |-> g.adjacency0[i]],
            upper_adjacency |-> [i \in Ids |-> g.upper_adjacency[i]] ]
  BY DEF Plain
<1> HIDE DEF h, list
<1>4. h = [ num_nodes |-> N, dim |-> Dim, entry_point |-> g.entry_point, max_level |-> g.max_level,
            levels          |-> [i \in Ids |-> g.levels[i]],
            vectors         |-> [i \in Ids |-> g.vectors[i]],
            labels          |-> [i \in Ids |-> g.labels[i]],
            adjacency0      |-> [i \in Ids |-> list(i)],
            upper_adjacency |-> [i \in Ids |-> g.upper_adjacency[i]] ]
  BY <1>2, <1>3
<1>5. /\ h.num_nodes = N /\ h.dim = Dim /\ h.entry_point = g.entry_point
      /\ h.max_level = g.max_level
      /\ \A i \in Ids : /\ h.levels[i] = g.levels[i] /\ h.vectors[i] = g.vectors[i]
                        /\ h.labels[i] = g.labels[i] /\ h.adjacency0[i] = list(i)
                        /\ h.upper_adjacency[i] = g.upper_adjacency[i]
  BY <1>4
<1>6. Plain(h) = h
  BY <1>4, <1>5 DEF Plain
<1>7. ASSUME NEW u \in Ids
      PROVE  list(u) = g.adjacency0[u] \/ Shortened(g, u, list(u), max)
  <2>1. CASE Len(g.adjacency0[u]) <= max
    BY <2>1 DEF list
  <2>2. CASE ~(Len(g.adjacency0[u]) <= max)
    <3>1. max < Len(g.adjacency0[u])
      <4>1. g.adjacency0[u] \in Seq(Ids \ {u})
        BY DEF IsGraph
      <4> QED
        BY <2>2, <4>1
    <3>2. Shortened(g, u, SubSeq(NearestFirst(g, u), 1, max), max)
      BY <3>1, CapShortens
    <3>3. Shortened(g, u, FilledUp(Mrng(g, u, max), NearestFirst(g, u), min), max)
      BY MrngShortens
    <3> QED
      BY <2>2, <3>2, <3>3 DEF list
  <2> QED
    BY <2>1, <2>2
<1>8. \A u \in Ids : /\ list(u) \in Seq(Ids \ {u}) /\ IsInjective(list(u))
                      /\ Len(list(u)) <= MaxM0
  <2>1. TAKE u \in Ids
  <2>2. PICK all \in Seq(Ids \ {u}) :
          all = g.adjacency0[u] /\ IsInjective(all) /\ Len(all) <= MaxM0
    BY DEF IsGraph
  <2>3. CASE list(u) = all
    BY <2>2, <2>3
  <2>4. CASE Shortened(g, u, list(u), max)
    <3>1. PICK s \in Seq(Ids \ {u}) : s = list(u) /\ IsInjective(s) /\ ToSet(s) \subseteq ToSet(all)
      BY <2>2, <2>4 DEF Shortened
    <3>2. /\ IsFiniteSet(ToSet(all)) /\ Cardinality(ToSet(all)) = Len(all)
          /\ Cardinality(ToSet(s)) = Len(s)
      BY <2>2, <3>1, InjectiveSize
    <3>3. Cardinality(ToSet(s)) <= Cardinality(ToSet(all))
      BY <3>1, <3>2, FS_Subset
    <3>4. PICK m \in Nat : m = MaxM0
      BY PipelineAssumption
    <3>5. Len(s) <= m
      BY <2>2, <3>2, <3>3, <3>4
    <3> QED
      BY <3>1, <3>4, <3>5
  <2> QED
    BY <1>7, <2>2, <2>3, <2>4
<1>9. IsGraph(h)
  <2>1. h.entry_point \in Ids /\ h.max_level = h.levels[h.entry_point]
    BY <1>5 DEF IsGraph
  <2>2. ASSUME NEW i \in Ids
        PROVE  /\ h.levels[i] \in Nat /\ h.levels[i] <= h.max_level
               /\ h.vectors[i] \in Seq(Int) /\ Len(h.vectors[i]) = Dim
               /\ h.labels[i] \in Int
               /\ h.adjacency0[i] \in Seq(Ids \ {i}) /\ IsInjective(h.adjacency0[i])
               /\ Len(h.adjacency0[i]) <= MaxM0
               /\ h.upper_adjacency[i] \in Seq(Seq(Ids))
               /\ Len(h.upper_adjacency[i]) = h.levels[i]
    <3>1. /\ g.levels[i] \in Nat /\ g.levels[i] <= g.max_level
          /\ g.vectors[i] \in Seq(Int) /\ Len(g.vectors[i]) = Dim
          /\ g.labels[i] \in Int
          /\ g.upper_adjacency[i] \in Seq(Seq(Ids))
          /\ Len(g.upper_adjacency[i]) = g.levels[i]
      BY DEF IsGraph
    <3> QED
      BY <1>5, <1>8, <3>1
  <2>3. ASSUME NEW i \in Ids, NEW l \in 1 .. h.levels[i], NEW j \in ToSet(h.upper_adjacency[i][l])
        PROVE  h.levels[j] >= l
    <3>1. l \in 1 .. g.levels[i] /\ j \in ToSet(g.upper_adjacency[i][l])
      BY <1>5
    <3>2. g.levels[j] >= l
      BY <3>1 DEF IsGraph
    <3>3. g.upper_adjacency[i][l] \in Seq(Ids)
      <4>1. g.upper_adjacency[i] \in Seq(Seq(Ids)) /\ Len(g.upper_adjacency[i]) = g.levels[i]
        BY DEF IsGraph
      <4> QED
        BY <3>1, <4>1
    <3>4. j \in Ids
      BY <3>1, <3>3, Widened
    <3> QED
      BY <1>5, <3>2, <3>4
  <2>4. \A i, j \in Ids : h.labels[i] = h.labels[j] => i = j
    BY <1>5 DEF IsGraph
  <2> QED
    BY <1>5, <2>1, <2>2, <2>3, <2>4 DEF IsGraph
<1> QED
  BY <1>5, <1>6, <1>7, <1>9 DEF h

\* The file holds a graph as the tools take it, and nothing else.
GraphOk ==
  graph_bin # NoFile =>
    IsGraph(Graph) /\ Plain(Graph) = Graph /\ graph_bin = SaveGraph(Graph)

\* The steps that write the graph.
LEMMA GraphSteps ==
  ASSUME GraphInv, BuiltInv, GraphOk, [PipelineNext]_pipelineVars, graph_bin' # graph_bin
  PROVE  /\ \E g : IsGraph(g) /\ graph_bin' = SaveGraph(g)
         /\ graph_bin # NoFile => Prune
<1>1. Export \/ Extract \/ Prune
  BY DEF PipelineNext, pipelineVars, files, ReorderNodes, WriteVecOnly, Shuffle, ClusterReorder,
     WriteBlocks, WritePQBlocks, GenRouteTable, RunVerify, OpenIndex, BuildFine, LoadPQCodes,
     StartDescent, Walk
<1>2. CASE Export
  <2>1. phase = "built" /\ graph_bin = NoFile /\ graph_bin' = SaveGraph(Built)
    BY <1>2 DEF Export
  <2> QED
    BY <2>1, BuiltIsGraph
<1>3. CASE Extract
  <2>1. graph_bin = NoFile /\ \E g \in Indexes : graph_bin' = SaveGraph(g)
    BY <1>3 DEF Extract
  <2> QED
    BY <2>1, PipelineAssumption
<1>4. CASE Prune
  <2>1. PICK p \in Prunings : graph_bin' = SaveGraph(Pruned(Graph, p[1], p[2], p[3]))
    BY <1>4 DEF Prune, Graph
  <2>2. IsGraph(Graph) /\ Plain(Graph) = Graph
    BY <1>4 DEF Prune, GraphOk
  <2>3. p[2] \in Nat /\ p[3] \in Nat
    BY PipelineAssumption
  <2>4. IsGraph(Pruned(Graph, p[1], p[2], p[3]))
    BY <2>2, <2>3, PrunedIs
  <2> QED
    BY <1>4, <2>1, <2>4
<1> QED
  BY <1>1, <1>2, <1>3, <1>4

LEMMA GraphKept ==
  ASSUME GraphInv, BuiltInv, GraphOk, [PipelineNext]_pipelineVars
  PROVE  GraphOk'
<1>1. CASE graph_bin' = graph_bin
  BY <1>1 DEF GraphOk, Graph
<1>2. CASE graph_bin' # graph_bin
  <2>1. PICK g : IsGraph(g) /\ graph_bin' = SaveGraph(g)
    BY <1>2, GraphSteps
  <2>2. /\ LoadGraph(graph_bin') = Plain(g) /\ IsGraph(Plain(g))
        /\ SaveGraph(Plain(g)) = SaveGraph(g) /\ Plain(Plain(g)) = Plain(g)
    BY <2>1, SavedIsLoaded
  <2> QED
    BY <2>1, <2>2 DEF GraphOk, Graph
<1> QED
  BY <1>1, <1>2

\* The builder and the graph file.
GraphFileInv == MarksOld /\ RoundsAreParallel /\ GraphInv /\ BuiltInv /\ GraphOk

LEMMA InitGraphFile == PipelineInit => GraphFileInv
<1>1. PipelineInit => MarksOld /\ RoundsAreParallel
  BY BuildAssumption
     DEF PipelineInit, BuildInit, MarksOld, RoundsAreParallel, FreshMarks, FirstMarks
<1>2. PipelineInit => GraphOk
  BY DEF PipelineInit, GraphOk
<1> QED
  BY <1>1, <1>2, InitGraph, InitBuilt DEF GraphFileInv

LEMMA NextGraphFile == GraphFileInv /\ [PipelineNext]_pipelineVars => GraphFileInv'
BY PipelineBuilds, BuildParallel, BuildSound, BuildKeepsBuilt, GraphKept DEF GraphFileInv

\* Whatever is saved, each of the three loaders reads it back.
LEMMA LoadersRead == GraphOk => LoadersAgree
<1> SUFFICES ASSUME GraphOk, graph_bin # NoFile
             PROVE  \A g \in {Graph} : \A s \in {LoadSlimAdj(graph_bin)} :
                      /\ SaveGraph(g) = graph_bin
                      /\ s = [x \in DOMAIN s |-> IF x = "upper_vectors"
                            THEN [i \in { j \in Ids : g.levels[j] > 0 } |-> g.vectors[i]] ELSE g[x]]
                      /\ LoadSlim(graph_bin) = [x \in DOMAIN s \ {"adjacency0"} |-> s[x]]
  BY DEF LoadersAgree
<1>1. PICK g : g = Graph
  OBVIOUS
<1>2. IsGraph(g) /\ Plain(g) = g /\ graph_bin = SaveGraph(g)
  BY <1>1 DEF GraphOk
<1>3. Saved(graph_bin, g)
  BY <1>2, SavedParts
<1>4. PICK upper : upper = [i \in { j \in Ids : g.levels[j] > 0 } |-> g.vectors[i]]
  OBVIOUS
<1>5. /\ LoadSlimAdj(graph_bin) = [ num_nodes |-> N, dim |-> Dim, entry_point |-> g.entry_point,
              max_level |-> g.max_level, levels |-> g.levels, upper_vectors |-> upper,
              labels |-> g.labels, adjacency0 |-> g.adjacency0,
              upper_adjacency |-> g.upper_adjacency ]
      /\ LoadSlim(graph_bin) = [ num_nodes |-> N, dim |-> Dim, entry_point |-> g.entry_point,
              max_level |-> g.max_level, levels |-> g.levels, upper_vectors |-> upper,
              labels |-> g.labels, upper_adjacency |-> g.upper_adjacency ]
  BY <1>2, <1>3, <1>4, LoadsSaved
<1>6. PICK s : s = LoadSlimAdj(graph_bin)
  OBVIOUS
<1>7. g.num_nodes = N /\ g.dim = Dim
  BY <1>2 DEF IsGraph
<1>8. s = [x \in DOMAIN s |-> IF x = "upper_vectors" THEN upper ELSE g[x]]
  BY <1>5, <1>6, <1>7
<1>9. LoadSlim(graph_bin) = [x \in DOMAIN s \ {"adjacency0"} |-> s[x]]
  BY <1>5, <1>6
<1> QED
  BY <1>1, <1>2, <1>4, <1>6, <1>8, <1>9

\* prune_graph, for any graph, mode and bounds: a neighbour that loses its place has
\* one left that is nearer to it, unless the list is full of nearer ones.
THEOREM PruningSparesProgress == PipelineSpec => PruningKeepsProgress
<1>1. GraphFileInv /\ [PipelineNext]_pipelineVars
        => [graph_bin # NoFile /\ graph_bin' # graph_bin =>
             \A g \in {Graph} : \A h \in {LoadGraph(graph_bin')} : \A u \in Ids :
               LET kept == ToSet(h.adjacency0[u])
                   dist(v, w) == Distance2(g.vectors[v], g.vectors[w])
               IN  \A v \in ToSet(g.adjacency0[u]) \ kept :
                     \/ \E w \in kept : dist(w, v) < dist(u, v)
                     \/ /\ Cardinality(kept) >= Min({ p[3] : p \in Prunings })
                        /\ \A w \in kept : dist(u, w) <= dist(u, v)]_pipelineVars
  <2>1. SUFFICES ASSUME GraphFileInv, [PipelineNext]_pipelineVars,
                        graph_bin # NoFile, graph_bin' # graph_bin,
                        NEW g, g = Graph, NEW h, h = LoadGraph(graph_bin'), NEW u \in Ids,
                        NEW v \in ToSet(g.adjacency0[u]) \ ToSet(h.adjacency0[u])
                 PROVE  \/ \E w \in ToSet(h.adjacency0[u]) : Away(g, w, v) < Away(g, u, v)
                        \/ /\ Cardinality(ToSet(h.adjacency0[u]))
                                >= Min({ p[3] : p \in Prunings })
                           /\ \A w \in ToSet(h.adjacency0[u]) : Away(g, u, w) <= Away(g, u, v)
    BY DEF Away
  <2>2. Prune /\ IsGraph(g) /\ Plain(g) = g
    BY <2>1, GraphSteps DEF GraphFileInv, GraphOk
  <2>3. PICK p \in Prunings : graph_bin' = SaveGraph(Pruned(g, p[1], p[2], p[3]))
    BY <2>1, <2>2 DEF Prune, Graph
  <2>4. p[2] \in Nat /\ p[3] \in Nat
    BY PipelineAssumption
  <2>5. PICK k : k = Pruned(g, p[1], p[2], p[3])
    OBVIOUS
  <2>6. /\ IsGraph(k) /\ Plain(k) = k
        /\ k.adjacency0[u] = g.adjacency0[u] \/ Shortened(g, u, k.adjacency0[u], p[3])
    <3>1. PICK mode : mode = p[1]
      OBVIOUS
    <3>2. PICK min \in Nat : min = p[2]
      BY <2>4
    <3>3. PICK max \in Nat : max = p[3]
      BY <2>4
    <3>4. k = Pruned(g, mode, min, max)
      BY <2>5, <3>1, <3>2, <3>3
    <3>5. /\ IsGraph(k) /\ Plain(k) = k
          /\ k.adjacency0[u] = g.adjacency0[u] \/ Shortened(g, u, k.adjacency0[u], max)
      BY <2>1, <2>2, <3>4, PrunedIs
    <3> QED
      BY <3>3, <3>5
  <2>7. h = k
    BY <2>1, <2>3, <2>5, <2>6, SavedIsLoaded
  <2>8. PICK list : list = h.adjacency0[u]
    OBVIOUS
  <2>9. Shortened(g, u, list, p[3])
    BY <2>1, <2>6, <2>7, <2>8
  <2>10. Cardinality(ToSet(list)) >= p[3] => Cardinality(ToSet(list)) >= Min({ q[3] : q \in Prunings })
    <3> DEFINE S == { q[3] : q \in Prunings }
    <3>1. p[3] \in S /\ S \in SUBSET Nat
      BY PipelineAssumption
    <3> HIDE DEF S
    <3>2. \E x \in S : \A y \in S : x =< y
      BY <3>1, LeastNumber
    <3>3. Min(S) \in S /\ Min(S) <= p[3]
      BY <3>1, <3>2 DEF Min
    <3>4. Min(S) \in Nat
      BY <3>1, <3>3
    <3>5. Cardinality(ToSet(list)) \in Nat
      <4>1. list \in Seq(Ids \ {u}) /\ IsInjective(list)
        BY <2>9 DEF Shortened
      <4>2. Cardinality(ToSet(list)) = Len(list)
        BY <4>1, InjectiveSize
      <4> QED
        BY <4>1, <4>2
    <3>6. Cardinality(ToSet(list)) >= p[3] => Cardinality(ToSet(list)) >= Min(S)
      BY <2>4, <3>3, <3>4, <3>5
    <3> QED
      BY <3>6 DEF S
  <2>11. v \in ToSet(g.adjacency0[u]) \ ToSet(list)
    BY <2>1, <2>8
  <2> QED
    BY <2>8, <2>9, <2>10, <2>11 DEF Shortened
<1> QED
  BY <1>1, InitGraphFile, NextGraphFile, PTL DEF PipelineSpec, PruningKeepsProgress

-----------------------------------------------------------------------------
(* The builder's self-test: a pass, and the passes of a level.             *)

\* What Only keeps of a sequence.
LEMMA OnlyIs ==
  ASSUME NEW A, NEW s \in Seq(A), NEW S
  PROVE  LET t == Only(s, S)
         IN  /\ t \in Seq(A \cap S) /\ ToSet(t) = ToSet(s) \cap S
             /\ IsInjective(s) => IsInjective(t)
             /\ ToSet(s) \subseteq S => t = s
<1> DEFINE U == Seq(A)
           look(t, v) == IF v \in S THEN Append(t, v) ELSE t
           none == <<>>
<1>1. PICK n \in Nat : n = Len(s) /\ DOMAIN s = 1 .. n
  OBVIOUS
<1>2. \A k \in 1 .. n : s[k] \in A
  BY <1>1
<1> DEFINE Rule(f) == f = [k \in 0 .. n |-> IF k = 0 THEN none ELSE look(f[k - 1], s[k])]
           F == [k \in 1 .. n |-> [t \in U |-> look(t, s[k])]]
<1>3. \A t \in U, v \in A : look(t, v) \in U
  OBVIOUS
<1>4. none \in U
  OBVIOUS
<1>5. Only(s, S) = (CHOOSE f : Rule(f))[n]
  BY <1>1 DEF Only
<1> HIDE DEF look
<1>6. F \in [1 .. n -> [U -> U]]
  BY <1>2, <1>3
<1>7. PICK h \in [0 .. n -> U] : h[0] = none /\ \A k \in 1 .. n : h[k] = F[k][h[k - 1]]
  <2>1. \E f \in [0 .. n -> U] : Follows(f, n, none, F)
    <3> HIDE DEF F, U, none
    <3> QED
      BY <1>4, <1>6, RecursionExists
  <2> QED
    BY <2>1 DEF Follows
<1>8. \A k \in 1 .. n : h[k] = look(h[k - 1], s[k]) /\ k \in 0 .. n /\ k - 1 \in 0 .. n
  <2>1. \A k \in 1 .. n : k \in 0 .. n /\ k - 1 \in 0 .. n
    OBVIOUS
  <2> HIDE DEF U
  <2> QED
    BY <1>7, <2>1
<1> HIDE DEF F, U
<1>9. Rule(h)
  <2>1. h = [k \in 0 .. n |-> h[k]]
    OBVIOUS
  <2>2. \A k \in 0 .. n : h[k] = IF k = 0 THEN none ELSE look(h[k - 1], s[k])
    <3>1. \A k \in 0 .. n : k # 0 => k \in 1 .. n
      OBVIOUS
    <3> QED
      BY <1>7, <1>8, <3>1
  <2> QED
    BY <2>1, <2>2
<1> DEFINE f == CHOOSE f : Rule(f)
<1>10. Rule(f)
  BY <1>9
<1>11. Only(s, S) = f[n]
  BY <1>5
<1> HIDE DEF f
<1>12. f[0] = <<>> /\ \A k \in 1 .. n : f[k] = look(f[k - 1], s[k])
  <2>1. \A k \in 1 .. n : k \in 0 .. n /\ k # 0
    OBVIOUS
  <2>2. 0 \in 0 .. n
    OBVIOUS
  <2> QED
    BY <1>10, <2>1, <2>2
<1> DEFINE Seen(k) == { s[i] : i \in 1 .. k }
           Good(k, t) ==
             /\ t \in Seq(A \cap S) /\ ToSet(t) = Seen(k) \cap S
             /\ IsInjective(s) => IsInjective(t)
             /\ ToSet(s) \subseteq S => Len(t) = k /\ \A i \in 1 .. k : t[i] = s[i]
<1>13. Good(0, <<>>)
  <2>1. <<>> \in Seq(A \cap S) /\ IsInjective(<<>>) /\ Len(<<>>) = 0 /\ ToSet(<<>>) = {}
    BY DEF IsInjective, ToSet
  <2>2. 1 .. 0 = {}
    OBVIOUS
  <2> QED
    BY <2>1, <2>2
<1>14. ASSUME NEW k \in 1 .. n, NEW t, Good(k - 1, t)
       PROVE  Good(k, look(t, s[k]))
  <2>1. /\ t \in Seq(A \cap S) /\ ToSet(t) = Seen(k - 1) \cap S
        /\ IsInjective(s) => IsInjective(t)
        /\ ToSet(s) \subseteq S => Len(t) = k - 1 /\ \A i \in 1 .. k - 1 : t[i] = s[i]
    BY <1>14
  <2>2. Seen(k) = Seen(k - 1) \cup {s[k]}
    <3>1. 1 .. k = (1 .. k - 1) \cup {k}
      OBVIOUS
    <3> QED
      BY <3>1
  <2> HIDE DEF Seen
  <2>3. CASE s[k] \in S
    <3>1. PICK a : a = Append(t, s[k])
      OBVIOUS
    <3>2. look(t, s[k]) = a
      BY <2>3, <3>1 DEF look
    <3>3. s[k] \in A \cap S
      BY <1>2, <2>3
    <3>4. /\ a \in Seq(A \cap S) /\ Len(a) = Len(t) + 1 /\ ToSet(a) = ToSet(t) \cup {s[k]}
          /\ IsInjective(t) /\ s[k] \notin ToSet(t) => IsInjective(a)
      BY <2>1, <3>1, <3>3, Appended
    <3>5. IsInjective(s) => s[k] \notin ToSet(t)
      <4>1. SUFFICES ASSUME IsInjective(s), s[k] \in Seen(k - 1) PROVE FALSE
        BY <2>1
      <4>2. PICK i \in 1 .. k - 1 : s[i] = s[k]
        BY <4>1 DEF Seen
      <4>3. i \in DOMAIN s /\ k \in DOMAIN s /\ i # k
        BY <1>1
      <4> QED
        BY <4>1, <4>2, <4>3 DEF IsInjective
    <3>6. ASSUME ToSet(s) \subseteq S
          PROVE  Len(a) = k /\ \A i \in 1 .. k : a[i] = s[i]
      <4>1. Len(t) = k - 1 /\ \A i \in 1 .. k - 1 : t[i] = s[i]
        BY <2>1, <3>6
      <4>2. Len(a) = k
        BY <3>4, <4>1
      <4>3. \A i \in 1 .. k - 1 : a[i] = t[i]
        BY <2>1, <3>1, <4>1
      <4>4. a[k] = s[k]
        BY <2>1, <3>1, <4>1
      <4>5. \A i \in 1 .. k : i \in 1 .. k - 1 \/ i = k
        OBVIOUS
      <4> QED
        BY <4>1, <4>2, <4>3, <4>4, <4>5
    <3> QED
      BY <2>1, <2>2, <2>3, <3>2, <3>4, <3>5, <3>6
  <2>4. CASE s[k] \notin S
    <3>1. look(t, s[k]) = t
      BY <2>4 DEF look
    <3>2. ~(ToSet(s) \subseteq S)
      BY <1>1, <2>4 DEF ToSet
    <3> QED
      BY <2>1, <2>2, <2>4, <3>1, <3>2
  <2> QED
    BY <2>3, <2>4
<1> HIDE DEF Good
<1>15. Good(n, f[n])
  <2> DEFINE Ok == [k \in 0 .. n |-> {t \in {f[k]} : Good(k, t)}]
  <2>1. f[0] \in Ok[0]
    BY <1>12, <1>13
  <2>2. \A k \in 1 .. n : f[k - 1] \in Ok[k - 1] => f[k] \in Ok[k]
    BY <1>8, <1>12, <1>14
  <2>3. \A k \in 0 .. n : f[k] \in Ok[k]
    <3> HIDE DEF Ok
    <3> QED
      BY <2>1, <2>2, StepsKeep
  <2>4. n \in 0 .. n
    OBVIOUS
  <2> QED
    BY <2>3, <2>4
<1>16. PICK t : t = f[n]
  OBVIOUS
<1>17. Seen(n) = ToSet(s)
  BY <1>1 DEF ToSet, Seen
<1>18. /\ t \in Seq(A \cap S) /\ ToSet(t) = ToSet(s) \cap S
       /\ IsInjective(s) => IsInjective(t)
       /\ ToSet(s) \subseteq S => Len(t) = n /\ \A i \in 1 .. n : t[i] = s[i]
  BY <1>15, <1>16, <1>17 DEF Good
<1>19. ToSet(s) \subseteq S => t = s
  <2> SUFFICES ASSUME ToSet(s) \subseteq S PROVE t = s
    OBVIOUS
  <2>1. Len(t) = n /\ Len(s) = n /\ \A i \in 1 .. n : t[i] = s[i]
    BY <1>1, <1>18
  <2>2. t \in Seq(A)
    BY <1>18, Widened
  <2> HIDE DEF f
  <2> QED
    BY <2>1, <2>2
<1> QED
  BY <1>11, <1>16, <1>18, <1>19

\* The distance of a query to a node of a graph, and the list of a node on a level.
Toward(g, q, n) == Distance2(q, g.vectors[n])
UpperList(g, c, l) == IF g.levels[c] < l THEN <<>> ELSE g.upper_adjacency[c][l]

LEMMA TowardIs ==
  ASSUME NEW g, IsGraph(g), NEW q \in Seq(Int), Len(q) = Dim, NEW n \in Ids
  PROVE  Toward(g, q, n) \in Int
<1>1. g.vectors[n] \in Seq(Int) /\ Len(g.vectors[n]) = Dim
  BY DEF IsGraph
<1> QED
  BY <1>1, DistanceIs DEF Toward

LEMMA UpperListIs ==
  ASSUME NEW g, IsGraph(g), NEW c \in Ids, NEW l \in Nat \ {0}
  PROVE  /\ UpperList(g, c, l) \in Seq(Ids)
         /\ \A i \in 1 .. Len(UpperList(g, c, l)) : g.levels[UpperList(g, c, l)[i]] >= l
<1>1. /\ g.levels[c] \in Nat /\ g.upper_adjacency[c] \in Seq(Seq(Ids))
      /\ Len(g.upper_adjacency[c]) = g.levels[c]
      /\ \A m \in 1 .. g.levels[c] : \A j \in ToSet(g.upper_adjacency[c][m]) : g.levels[j] >= m
  BY DEF IsGraph
<1>2. CASE g.levels[c] < l
  <2>1. UpperList(g, c, l) = <<>> /\ Len(<<>>) = 0 /\ 1 .. 0 = {} /\ <<>> \in Seq(Ids)
    BY <1>2 DEF UpperList
  <2> QED
    BY <2>1
<1>3. CASE ~(g.levels[c] < l)
  <2>1. l \in 1 .. g.levels[c]
    BY <1>1, <1>3
  <2>2. PICK s \in Seq(Ids) : s = g.upper_adjacency[c][l]
    BY <1>1, <2>1
  <2>3. UpperList(g, c, l) = s
    BY <1>3, <2>2 DEF UpperList
  <2>4. \A i \in 1 .. Len(s) : s[i] \in ToSet(s)
    BY DEF ToSet
  <2> QED
    BY <1>1, <2>1, <2>2, <2>3, <2>4
<1> QED
  BY <1>2, <1>3

\* What a walk comes to from c among the places of list: the first of the nearest.
StepsTo(g, q, c, list, r) ==
  \/ r = c /\ \A i \in 1 .. Len(list) : ~(Toward(g, q, list[i]) < Toward(g, q, c))
  \/ \E i \in 1 .. Len(list) :
       /\ r = list[i] /\ Toward(g, q, r) < Toward(g, q, c)
       /\ \A j \in 1 .. Len(list) :
            /\ Toward(g, q, r) <= Toward(g, q, list[j])
            /\ j < i => Toward(g, q, r) < Toward(g, q, list[j])

LEMMA PassIs ==
  ASSUME NEW g, IsGraph(g), NEW q \in Seq(Int), Len(q) = Dim, NEW c \in Ids, NEW l \in Nat \ {0}
  PROVE  StepsTo(g, q, c, UpperList(g, c, l), SelfTestPass(g, q, c, l))
<1> DEFINE far(x) == Toward(g, q, x)
           nearer(x, y) == IF far(y) < far(x) THEN y ELSE x
<1>1. PICK list \in Seq(Ids) : list = UpperList(g, c, l)
  BY UpperListIs
<1>2. PICK n \in Nat : n = Len(list) /\ DOMAIN list = 1 .. n
  OBVIOUS
<1>3. \A k \in 1 .. n : list[k] \in Ids
  BY <1>2
<1>4. \A x \in Ids : far(x) \in Int
  BY TowardIs
<1> DEFINE Rule(f) == f = [k \in 0 .. n |-> IF k = 0 THEN c ELSE nearer(f[k - 1], list[k])]
           F == [k \in 1 .. n |-> [x \in Ids |-> nearer(x, list[k])]]
<1>5. SelfTestPass(g, q, c, l) = (CHOOSE f : Rule(f))[n]
  BY <1>1, <1>2 DEF SelfTestPass, UpperList, Toward
<1>6. \A x \in Ids, y \in Ids : nearer(x, y) \in Ids
  OBVIOUS
<1> HIDE DEF far
<1> HIDE DEF nearer
<1>7. F \in [1 .. n -> [Ids -> Ids]]
  BY <1>3, <1>6
<1>8. PICK h \in [0 .. n -> Ids] : h[0] = c /\ \A k \in 1 .. n : h[k] = F[k][h[k - 1]]
  <2>1. \E f \in [0 .. n -> Ids] : Follows(f, n, c, F)
    <3> HIDE DEF F
    <3> QED
      BY <1>7, RecursionExists
  <2> QED
    BY <2>1 DEF Follows
<1>9. \A k \in 1 .. n : h[k] = nearer(h[k - 1], list[k]) /\ k \in 0 .. n /\ k - 1 \in 0 .. n
  <2>1. \A k \in 1 .. n : k \in 0 .. n /\ k - 1 \in 0 .. n
    OBVIOUS
  <2> QED
    BY <1>8, <2>1
<1> HIDE DEF F
<1>10. Rule(h)
  <2>1. h = [k \in 0 .. n |-> h[k]]
    OBVIOUS
  <2>2. \A k \in 0 .. n : h[k] = IF k = 0 THEN c ELSE nearer(h[k - 1], list[k])
    <3>1. \A k \in 0 .. n : k # 0 => k \in 1 .. n
      OBVIOUS
    <3> QED
      BY <1>8, <1>9, <3>1
  <2> QED
    BY <2>1, <2>2
<1> DEFINE f == CHOOSE f : Rule(f)
<1>11. Rule(f)
  BY <1>10
<1>12. SelfTestPass(g, q, c, l) = f[n]
  BY <1>5
<1> HIDE DEF f
<1>13. f[0] = c /\ \A k \in 1 .. n : f[k] = nearer(f[k - 1], list[k])
  <2>1. \A k \in 1 .. n : k \in 0 .. n /\ k # 0
    OBVIOUS
  <2>2. 0 \in 0 .. n
    OBVIOUS
  <2> QED
    BY <1>11, <2>1, <2>2
<1> DEFINE Good(k, r) ==
             \/ r = c /\ \A i \in 1 .. k : ~(far(list[i]) < far(c))
             \/ \E i \in 1 .. k :
                  /\ r = list[i] /\ far(r) < far(c)
                  /\ \A j \in 1 .. k : /\ far(r) <= far(list[j])
                                       /\ j < i => far(r) < far(list[j])
<1>14. Good(0, c)
  <2>1. 1 .. 0 = {}
    OBVIOUS
  <2> QED
    BY <2>1
<1>15. ASSUME NEW k \in 1 .. n, NEW r, Good(k - 1, r)
       PROVE  Good(k, nearer(r, list[k]))
  <2>1. /\ k \in Nat /\ k - 1 \in Nat /\ \A i \in 1 .. k : i \in 1 .. k - 1 \/ i = k
        /\ \A i \in 1 .. k - 1 : i \in 1 .. k /\ i \in 1 .. n /\ i < k
    OBVIOUS
  <2>2. list[k] \in Ids /\ \A i \in 1 .. k - 1 : list[i] \in Ids
    BY <1>3, <2>1
  <2>3. far(c) \in Int /\ far(list[k]) \in Int /\ \A i \in 1 .. k - 1 : far(list[i]) \in Int
    BY <1>4, <2>2
  <2>4. CASE r = c /\ \A i \in 1 .. k - 1 : ~(far(list[i]) < far(c))
    <3>1. CASE far(list[k]) < far(c)
      <4>1. nearer(r, list[k]) = list[k]
        BY <2>4, <3>1 DEF nearer
      <4>2. \A j \in 1 .. k : far(list[k]) <= far(list[j]) /\ (j < k => far(list[k]) < far(list[j]))
        BY <2>1, <2>3, <2>4, <3>1
      <4> QED
        BY <2>1, <3>1, <4>1, <4>2
    <3>2. CASE ~(far(list[k]) < far(c))
      <4>1. nearer(r, list[k]) = c
        BY <2>4, <3>2 DEF nearer
      <4>2. \A i \in 1 .. k : ~(far(list[i]) < far(c))
        BY <2>1, <2>4, <3>2
      <4> QED
        BY <4>1, <4>2
    <3> QED
      BY <3>1, <3>2
  <2>5. CASE \E i \in 1 .. k - 1 :
               /\ r = list[i] /\ far(r) < far(c)
               /\ \A j \in 1 .. k - 1 : /\ far(r) <= far(list[j])
                                        /\ j < i => far(r) < far(list[j])
    <3>1. PICK i \in 1 .. k - 1 :
               /\ r = list[i] /\ far(r) < far(c)
               /\ \A j \in 1 .. k - 1 : /\ far(r) <= far(list[j])
                                        /\ j < i => far(r) < far(list[j])
      BY <2>5
    <3>2. far(r) \in Int
      BY <2>3, <3>1
    <3>3. CASE far(list[k]) < far(r)
      <4>1. nearer(r, list[k]) = list[k]
        BY <3>3 DEF nearer
      <4>2. \A j \in 1 .. k - 1 : far(list[k]) < far(list[j])
        BY <2>3, <3>1, <3>2, <3>3
      <4>3. \A j \in 1 .. k : far(list[k]) <= far(list[j]) /\ (j < k => far(list[k]) < far(list[j]))
        BY <2>1, <2>3, <4>2
      <4>4. far(list[k]) < far(c)
        BY <2>3, <3>1, <3>2, <3>3
      <4> QED
        BY <2>1, <4>1, <4>3, <4>4
    <3>4. CASE ~(far(list[k]) < far(r))
      <4>1. nearer(r, list[k]) = r
        BY <3>4 DEF nearer
      <4>2. far(r) <= far(list[k])
        BY <2>3, <3>2, <3>4
      <4>3. \A j \in 1 .. k : far(r) <= far(list[j]) /\ (j < i => far(r) < far(list[j]))
        <5>1. i < k /\ i \in Nat
          BY <2>1
        <5>2. ~(k < i)
          BY <2>1, <5>1
        <5> QED
          BY <2>1, <3>1, <4>2, <5>2
      <4>4. i \in 1 .. k
        BY <2>1
      <4> QED
        BY <3>1, <4>1, <4>3, <4>4
    <3> QED
      BY <3>3, <3>4
  <2> QED
    BY <1>15, <2>4, <2>5
<1> HIDE DEF Good
<1>16. Good(n, f[n])
  <2> DEFINE Ok == [k \in 0 .. n |-> {t \in {f[k]} : Good(k, t)}]
  <2>1. f[0] \in Ok[0]
    BY <1>13, <1>14
  <2>2. \A k \in 1 .. n : f[k - 1] \in Ok[k - 1] => f[k] \in Ok[k]
    BY <1>9, <1>13, <1>15
  <2>3. \A k \in 0 .. n : f[k] \in Ok[k]
    <3> HIDE DEF Ok
    <3> QED
      BY <2>1, <2>2, StepsKeep
  <2>4. n \in 0 .. n
    OBVIOUS
  <2> QED
    BY <2>3, <2>4
<1> QED
  BY <1>1, <1>2, <1>12, <1>16 DEF Good, StepsTo, far

\* A walk from c ends on the level on which it starts, and gets nearer if it moves.
LEMMA PassStays ==
  ASSUME NEW g, IsGraph(g), NEW q \in Seq(Int), Len(q) = Dim, NEW c \in Ids, NEW l \in Nat \ {0}
  PROVE  LET r == SelfTestPass(g, q, c, l)
         IN  /\ r \in Ids /\ (r = c \/ Toward(g, q, r) < Toward(g, q, c))
             /\ g.levels[c] >= l => g.levels[r] >= l
<1>1. PICK list \in Seq(Ids) : list = UpperList(g, c, l)
  BY UpperListIs
<1>2. \A i \in 1 .. Len(list) : list[i] \in Ids /\ g.levels[list[i]] >= l
  BY <1>1, UpperListIs
<1>3. StepsTo(g, q, c, list, SelfTestPass(g, q, c, l))
  BY <1>1, PassIs
<1> QED
  BY <1>2, <1>3 DEF StepsTo

\* The passes of a level: the last one changes nothing any more.
LEMMA SettlePasses ==
  ASSUME NEW g, IsGraph(g), NEW q \in Seq(Int), Len(q) = Dim, NEW c \in Ids, NEW l \in Nat \ {0}
  PROVE  \E at \in [0 .. N -> Ids] :
           /\ at[0] = c /\ \A k \in 1 .. N : at[k] = SelfTestPass(g, q, at[k - 1], l)
           /\ SelfTestSettle(g, q, c, l) = at[N] /\ SelfTestPass(g, q, at[N], l) = at[N]
<1> DEFINE P(x) == SelfTestPass(g, q, x, l)
           far(x) == Toward(g, q, x)
           Rule(f) == f = [k \in 0 .. N |-> IF k = 0 THEN c ELSE P(f[k - 1])]
           F == [k \in 1 .. N |-> [x \in Ids |-> P(x)]]
<1>1. \A x \in Ids : P(x) \in Ids /\ (P(x) = x \/ far(P(x)) < far(x)) /\ far(x) \in Int
  BY PassStays, TowardIs
<1>2. SelfTestSettle(g, q, c, l) = (CHOOSE f : Rule(f))[N]
  <2>1. g.num_nodes = N
    BY DEF IsGraph
  <2> QED
    BY <2>1 DEF SelfTestSettle
<1> HIDE DEF P, far
<1>3. F \in [1 .. N -> [Ids -> Ids]] /\ N \in Nat
  BY <1>1, NIs
<1>4. PICK h \in [0 .. N -> Ids] : h[0] = c /\ \A k \in 1 .. N : h[k] = F[k][h[k - 1]]
  <2>1. \E f \in [0 .. N -> Ids] : Follows(f, N, c, F)
    <3> HIDE DEF F
    <3> QED
      BY <1>3, RecursionExists
  <2> QED
    BY <2>1 DEF Follows
<1>5. \A k \in 1 .. N : h[k] = P(h[k - 1]) /\ k \in 0 .. N /\ k - 1 \in 0 .. N
  <2>1. \A k \in 1 .. N : k \in 0 .. N /\ k - 1 \in 0 .. N
    BY <1>3
  <2> QED
    BY <1>4, <2>1
<1> HIDE DEF F
<1>6. Rule(h)
  <2>1. h = [k \in 0 .. N |-> h[k]]
    OBVIOUS
  <2>2. \A k \in 0 .. N : h[k] = IF k = 0 THEN c ELSE P(h[k - 1])
    <3>1. \A k \in 0 .. N : k # 0 => k \in 1 .. N
      BY <1>3
    <3> QED
      BY <1>4, <1>5, <3>1
  <2> QED
    BY <2>1, <2>2
<1> DEFINE at == CHOOSE f : Rule(f)
<1>7. Rule(at)
  BY <1>6
<1>8. SelfTestSettle(g, q, c, l) = at[N]
  BY <1>2
<1> HIDE DEF at
<1>9. 0 \in 0 .. N /\ N \in 0 .. N /\ \A k \in 1 .. N : k \in 0 .. N /\ k # 0 /\ k - 1 \in 0 .. N
  BY <1>3
<1>10. at[0] = c /\ \A k \in 1 .. N : at[k] = P(at[k - 1])
  BY <1>7, <1>9
<1>11. \A k \in 0 .. N : at[k] \in Ids
  <2> DEFINE Ok == [k \in 0 .. N |-> Ids]
  <2>1. at[0] \in Ok[0]
    BY <1>9, <1>10
  <2>2. \A k \in 1 .. N : at[k - 1] \in Ok[k - 1] => at[k] \in Ok[k]
    BY <1>1, <1>9, <1>10
  <2>3. \A k \in 0 .. N : at[k] \in Ok[k]
    <3> HIDE DEF Ok
    <3> QED
      BY <1>3, <2>1, <2>2, StepsKeep
  <2> QED
    BY <2>3
<1>12. at \in [0 .. N -> Ids]
  <2>1. at = [k \in 0 .. N |-> at[k]]
    BY <1>7
  <2> QED
    BY <1>11, <2>1
<1>13. P(at[N]) = at[N]
  <2> SUFFICES ASSUME P(at[N]) # at[N] PROVE FALSE
    OBVIOUS
  <2>1. \A k \in 0 .. N : P(at[k]) # at[k]
    <3> DEFINE Good(j, x) == \A i \in 0 .. j : P(at[i]) = at[i] => x = at[i]
               Ok == [k \in 0 .. N |-> {x \in {at[k]} : Good(k, x)}]
    <3>1. at[0] \in Ok[0]
      BY <1>9
    <3>2. \A k \in 1 .. N : at[k - 1] \in Ok[k - 1] => at[k] \in Ok[k]
      <4>1. TAKE k \in 1 .. N
      <4>2. SUFFICES ASSUME Good(k - 1, at[k - 1]) PROVE Good(k, at[k])
        BY <1>9
      <4>3. \A i \in 0 .. k : i \in 0 .. k - 1 \/ i = k
        BY <1>3
      <4> QED
        BY <1>10, <4>2, <4>3
    <3>3. \A k \in 0 .. N : at[k] \in Ok[k]
      <4> HIDE DEF Ok
      <4> QED
        BY <1>3, <3>1, <3>2, StepsKeep
    <3>4. Good(N, at[N])
      BY <1>9, <3>3
    <3> QED
      BY <3>4
  <2>2. \A j \in 0 .. N : \A i \in 0 .. j - 1 : far(at[j]) < far(at[i])
    <3> DEFINE Good(j, x) == \A i \in 0 .. j - 1 : far(x) < far(at[i])
               Ok == [k \in 0 .. N |-> {x \in {at[k]} : Good(k, x)}]
    <3>1. at[0] \in Ok[0]
      BY <1>9
    <3>2. \A k \in 1 .. N : at[k - 1] \in Ok[k - 1] => at[k] \in Ok[k]
      <4>1. TAKE k \in 1 .. N
      <4>2. SUFFICES ASSUME Good(k - 1, at[k - 1]) PROVE Good(k, at[k])
        BY <1>9
      <4>3. \A i \in 0 .. k - 1 : i \in 0 .. k - 1 - 1 \/ i = k - 1
        BY <1>3
      <4>4. \A i \in 0 .. k - 1 : i \in 0 .. N
        BY <1>3
      <4>5. far(at[k]) < far(at[k - 1])
        BY <1>1, <1>9, <1>10, <1>11, <2>1
      <4>6. far(at[k]) \in Int /\ \A i \in 0 .. k - 1 : far(at[i]) \in Int
        BY <1>1, <1>9, <1>11, <4>4
      <4>7. ASSUME NEW i \in 0 .. k - 1 PROVE far(at[k]) < far(at[i])
        <5>1. CASE i = k - 1
          BY <4>5, <5>1
        <5>2. CASE i \in 0 .. k - 1 - 1
          <6>1. far(at[k - 1]) < far(at[i]) /\ far(at[k - 1]) \in Int /\ far(at[i]) \in Int
            BY <1>1, <1>9, <1>11, <4>2, <4>6, <5>2
          <6> QED
            BY <4>5, <4>6, <6>1
        <5> QED
          BY <4>3, <5>1, <5>2
      <4> QED
        BY <4>7
    <3>3. \A k \in 0 .. N : at[k] \in Ok[k]
      <4> HIDE DEF Ok
      <4> QED
        BY <1>3, <3>1, <3>2, StepsKeep
    <3> QED
      BY <3>3
  <2>3. \A i, j \in 0 .. N : i # j => at[i] # at[j]
    <3>1. SUFFICES ASSUME NEW i \in 0 .. N, NEW j \in 0 .. N, i < j, at[i] = at[j] PROVE FALSE
      <4>1. \A i, j \in 0 .. N : i < j \/ j < i \/ i = j
        OBVIOUS
      <4> QED
        BY <4>1
    <3>2. i \in 0 .. j - 1
      BY <3>1
    <3>3. far(at[j]) < far(at[i]) /\ far(at[j]) \in Int
      BY <1>1, <1>11, <2>2, <3>2
    <3> QED
      BY <3>1, <3>3
  <2>4. /\ IsFiniteSet(0 .. N) /\ Cardinality(0 .. N) = N + 1
        /\ IsFiniteSet(Ids) /\ Cardinality(Ids) <= N /\ Cardinality(Ids) \in Nat
    <3>1. 0 \in Int /\ N \in Int /\ ~(0 > N) /\ N - 0 + 1 = N + 1
      BY <1>3
    <3> QED
      BY <3>1, FS_Interval, IdsFinite
  <2>5. Cardinality(Ids) < Cardinality(0 .. N)
    BY <1>3, <2>4
  <2>6. PICK S : S = 0 .. N
    OBVIOUS
  <2>7. at \in [S -> Ids] /\ IsFiniteSet(S) /\ IsFiniteSet(Ids) /\ Cardinality(Ids) < Cardinality(S)
    BY <1>12, <2>4, <2>5, <2>6
  <2>8. \E i, j \in S : i # j /\ at[i] = at[j]
    BY <2>7, FS_PigeonHole
  <2> QED
    BY <2>3, <2>6, <2>8
<1> QED
  BY <1>8, <1>10, <1>12, <1>13 DEF P

\* Where the walk stands changes nothing about where it ends.
LEMMA SettleSteps ==
  ASSUME NEW g, IsGraph(g), NEW q \in Seq(Int), Len(q) = Dim, NEW c \in Ids, NEW l \in Nat \ {0}
  PROVE  /\ SelfTestSettle(g, q, c, l) \in Ids
         /\ SelfTestSettle(g, q, SelfTestPass(g, q, c, l), l) = SelfTestSettle(g, q, c, l)
         /\ SelfTestPass(g, q, c, l) = c => SelfTestSettle(g, q, c, l) = c
<1> DEFINE P(x) == SelfTestPass(g, q, x, l)
           Settle(x) == SelfTestSettle(g, q, x, l)
<1>1. P(c) \in Ids /\ N \in Nat /\ N \in 0 .. N /\ 0 \in 0 .. N
  BY PassStays, NIs
<1>2. PICK at \in [0 .. N -> Ids] :
           /\ at[0] = c /\ \A k \in 1 .. N : at[k] = P(at[k - 1])
           /\ Settle(c) = at[N] /\ P(at[N]) = at[N]
  BY SettlePasses
<1>3. PICK bt \in [0 .. N -> Ids] :
           /\ bt[0] = P(c) /\ \A k \in 1 .. N : bt[k] = P(bt[k - 1])
           /\ Settle(P(c)) = bt[N] /\ P(bt[N]) = bt[N]
  <2>1. PICK d \in Ids : d = P(c)
    BY <1>1
  <2>2. \E bt \in [0 .. N -> Ids] :
           /\ bt[0] = d /\ \A k \in 1 .. N : bt[k] = P(bt[k - 1])
           /\ Settle(d) = bt[N] /\ P(bt[N]) = bt[N]
    BY SettlePasses
  <2> QED
    BY <2>1, <2>2
<1> HIDE DEF P, Settle
<1>4. \A k \in 1 .. N : k \in 0 .. N /\ k - 1 \in 0 .. N
  BY <1>1
<1>5. bt[N] = P(at[N])
  <2> DEFINE ct == [k \in 0 .. N |-> P(at[k])]
  <2>1. GoOnAlike(bt, ct, N)
    BY <1>1, <1>2, <1>3, <1>4 DEF GoOnAlike
  <2>2. \A k \in 0 .. N : bt[k] = ct[k]
    <3> HIDE DEF ct
    <3> QED
      BY <1>1, <2>1, SameSteps
  <2> QED
    BY <1>1, <2>2
<1>6. P(c) = c => at[N] = c
  <2> SUFFICES ASSUME P(c) = c PROVE at[N] = c
    OBVIOUS
  <2> DEFINE ct == [k \in 0 .. N |-> c]
  <2>1. GoOnAlike(at, ct, N)
    BY <1>1, <1>2, <1>4 DEF GoOnAlike
  <2>2. \A k \in 0 .. N : at[k] = ct[k]
    <3> HIDE DEF ct
    <3> QED
      BY <1>1, <2>1, SameSteps
  <2> QED
    BY <1>1, <2>2
<1> QED
  BY <1>1, <1>2, <1>3, <1>5, <1>6 DEF P, Settle

-----------------------------------------------------------------------------
(* bfs_reorder: distances, sequences, the search, the file.                *)

\* Hops is how many edges lead from the entry point to a node: one more than to the
\* nearest of those it is reached from, N if it is not reached.
Distances(g, h) ==
  /\ h \in [Ids -> 0 .. N] /\ h[g.entry_point] = 0
  /\ \A i \in Ids : h[i] = 0 => i = g.entry_point
  /\ \A i \in Ids : 0 < h[i] /\ h[i] < N =>
       \E j \in Ids : h[j] = h[i] - 1 /\ i \in ToSet(g.adjacency0[j])
  /\ \A j \in Ids : \A i \in ToSet(g.adjacency0[j]) : i \in Ids /\ h[i] <= h[j] + 1

LEMMA HopsAre ==
  ASSUME NEW g, IsGraph(g)
  PROVE  Distances(g, Hops(g))
<1> DEFINE U == [Ids -> 0 .. N]
           leads(h, k, i) == h[i] = N /\ \E j \in Ids : h[j] = k - 1 /\ i \in ToSet(g.adjacency0[j])
           farther(h, k) == [i \in Ids |-> IF leads(h, k, i) THEN k ELSE h[i]]
           b == [i \in Ids |-> IF i = g.entry_point THEN 0 ELSE N]
           Rule(f) == f = [k \in 0 .. N |-> IF k = 0 THEN b ELSE farther(f[k - 1], k)]
           F == [k \in 1 .. N |-> [h \in U |-> farther(h, k)]]
<1>1. N \in Nat /\ N # 0 /\ g.entry_point \in Ids
  BY NIs DEF IsGraph
<1>2. \A j \in Ids : ToSet(g.adjacency0[j]) \subseteq Ids
  <2>1. TAKE j \in Ids
  <2>2. PICK s \in Seq(Ids \ {j}) : s = g.adjacency0[j]
    BY DEF IsGraph
  <2>3. ToSet(s) \subseteq Ids \ {j}
    BY <2>2, Widened
  <2> QED
    BY <2>2, <2>3
<1>3. Hops(g) = (CHOOSE f : Rule(f))[N]
  BY DEF Hops
<1> HIDE DEF leads
<1>4. \A h \in U, k \in 1 .. N : farther(h, k) \in U
  <2>1. \A k \in 1 .. N : k \in 0 .. N
    BY <1>1
  <2> QED
    BY <2>1
<1>5. b \in U
  <2>1. 0 \in 0 .. N /\ N \in 0 .. N
    BY <1>1
  <2> QED
    BY <2>1
<1>6. \A i \in Ids : b[i] = IF i = g.entry_point THEN 0 ELSE N
  OBVIOUS
<1>7. \A h, k : \A i \in Ids : farther(h, k)[i] = IF leads(h, k, i) THEN k ELSE h[i]
  OBVIOUS
<1> HIDE DEF farther, b
<1>8. F \in [1 .. N -> [U -> U]]
  BY <1>4
<1>9. PICK e \in [0 .. N -> U] : e[0] = b /\ \A k \in 1 .. N : e[k] = F[k][e[k - 1]]
  <2>1. \E f \in [0 .. N -> U] : Follows(f, N, b, F)
    <3> HIDE DEF F, U
    <3> QED
      BY <1>1, <1>5, <1>8, RecursionExists
  <2> QED
    BY <2>1 DEF Follows
<1>10. \A k \in 1 .. N : /\ e[k] = farther(e[k - 1], k) /\ k \in 0 .. N /\ k - 1 \in 0 .. N /\ k # 0
  <2>1. \A k \in 1 .. N : k \in 0 .. N /\ k - 1 \in 0 .. N /\ k # 0
    BY <1>1
  <2> HIDE DEF U
  <2> QED
    BY <1>9, <2>1
<1> HIDE DEF F, U
<1>11. Rule(e)
  <2>1. e = [k \in 0 .. N |-> e[k]]
    OBVIOUS
  <2>2. \A k \in 0 .. N : e[k] = IF k = 0 THEN b ELSE farther(e[k - 1], k)
    <3>1. \A k \in 0 .. N : k # 0 => k \in 1 .. N
      BY <1>1
    <3> QED
      BY <1>9, <1>10, <3>1
  <2> QED
    BY <2>1, <2>2
<1> DEFINE f == CHOOSE f : Rule(f)
<1>12. Rule(f)
  BY <1>11
<1>13. Hops(g) = f[N]
  BY <1>3
<1> HIDE DEF f
<1>14. 0 \in 0 .. N /\ N \in 0 .. N
  BY <1>1
<1>15. f[0] = b /\ \A k \in 1 .. N : f[k] = farther(f[k - 1], k)
  BY <1>10, <1>12, <1>14
<1> DEFINE Good(k, h) ==
             /\ h \in U /\ h[g.entry_point] = 0
             /\ \A i \in Ids : h[i] = 0 => i = g.entry_point
             /\ \A i \in Ids : h[i] < N => h[i] <= k
             /\ \A i \in Ids : 0 < h[i] /\ h[i] < N =>
                  \E j \in Ids : h[j] = h[i] - 1 /\ i \in ToSet(g.adjacency0[j])
             /\ \A j \in Ids : h[j] < k => \A i \in ToSet(g.adjacency0[j]) : h[i] <= h[j] + 1
<1>16. Good(0, b)
  <2>1. \A i \in Ids : b[i] < N => b[i] <= 0
    BY <1>1, <1>6
  <2>2. \A i \in Ids : ~(0 < b[i] /\ b[i] < N) /\ ~(b[i] < 0)
    BY <1>1, <1>6
  <2> QED
    BY <1>1, <1>5, <1>6, <2>1, <2>2
<1>17. ASSUME NEW k \in 1 .. N, NEW h, Good(k - 1, h)
       PROVE  Good(k, farther(h, k))
  <2>1. PICK r : r = farther(h, k)
    OBVIOUS
  <2>2. r \in U /\ h \in U
    BY <1>4, <1>17, <2>1
  <2>3. \A i \in Ids : r[i] = IF leads(h, k, i) THEN k ELSE h[i]
    BY <1>7, <2>1
  <2>4. /\ h[g.entry_point] = 0
        /\ \A i \in Ids : h[i] = 0 => i = g.entry_point
        /\ \A i \in Ids : h[i] < N => h[i] <= k - 1
        /\ \A i \in Ids : 0 < h[i] /\ h[i] < N =>
             \E j \in Ids : h[j] = h[i] - 1 /\ i \in ToSet(g.adjacency0[j])
        /\ \A j \in Ids : h[j] < k - 1 => \A i \in ToSet(g.adjacency0[j]) : h[i] <= h[j] + 1
    BY <1>17
  <2>5. \A i \in Ids : h[i] \in Nat /\ r[i] \in Nat /\ h[i] <= N /\ r[i] <= N
    BY <1>1, <2>2 DEF U
  <2>6. k \in Nat /\ k > 0 /\ k <= N /\ k - 1 \in Nat
    BY <1>1
  <2>7. \A i \in Ids : h[i] < N => r[i] = h[i]
    BY <2>3, <1>1, <2>5 DEF leads
  <2>8. \A i \in Ids : r[i] < k => r[i] = h[i] /\ h[i] < N
    BY <2>3, <2>5, <2>6, <1>1
  <2>9. r[g.entry_point] = 0 /\ \A i \in Ids : r[i] = 0 => i = g.entry_point
    BY <1>1, <2>4, <2>6, <2>7, <2>8
  <2>10. \A i \in Ids : r[i] < N => r[i] <= k
    BY <2>3, <2>4, <2>5, <2>6
  <2>11. ASSUME NEW i \in Ids, 0 < r[i], r[i] < N
         PROVE  \E j \in Ids : r[j] = r[i] - 1 /\ i \in ToSet(g.adjacency0[j])
    <3>1. CASE leads(h, k, i)
      <4>1. PICK j \in Ids : h[j] = k - 1 /\ i \in ToSet(g.adjacency0[j])
        BY <3>1 DEF leads
      <4>2. r[i] = k /\ h[j] < N
        BY <1>1, <2>3, <2>6, <3>1, <4>1
      <4> QED
        BY <2>7, <4>1, <4>2
    <3>2. CASE ~leads(h, k, i)
      <4>1. r[i] = h[i]
        BY <2>3, <3>2
      <4>2. PICK j \in Ids : h[j] = h[i] - 1 /\ i \in ToSet(g.adjacency0[j])
        BY <2>4, <2>11, <4>1
      <4>3. h[j] < N
        BY <1>1, <2>5, <2>11, <4>1, <4>2
      <4> QED
        BY <2>7, <4>1, <4>2, <4>3
    <3> QED
      BY <3>1, <3>2
  <2>12. ASSUME NEW j \in Ids, r[j] < k, NEW i \in ToSet(g.adjacency0[j])
         PROVE  r[i] <= r[j] + 1
    <3>1. i \in Ids
      BY <1>2
    <3>2. r[j] = h[j] /\ h[j] < N /\ h[j] <= k - 1
      BY <2>4, <2>8, <2>12
    <3>3. CASE h[i] < N
      <4>1. r[i] = h[i] /\ h[i] <= k - 1
        BY <2>4, <2>7, <3>1, <3>3
      <4>2. CASE h[j] < k - 1
        BY <2>4, <3>2, <4>1, <4>2
      <4>3. CASE h[j] = k - 1
        BY <2>5, <2>6, <3>1, <3>2, <4>1, <4>3
      <4> QED
        BY <2>5, <2>6, <3>2, <4>2, <4>3
    <3>4. CASE h[i] = N
      <4>1. CASE h[j] < k - 1
        <5>1. N <= h[j] + 1
          BY <2>4, <3>4, <4>1
        <5> QED
          BY <1>1, <2>5, <2>6, <4>1, <5>1
      <4>2. CASE h[j] = k - 1
        <5>1. r[i] = k
          BY <2>3, <3>1, <3>4, <4>2 DEF leads
        <5> QED
          BY <2>6, <3>2, <4>2, <5>1
      <4> QED
        BY <2>5, <2>6, <3>2, <4>1, <4>2
    <3> QED
      BY <1>1, <2>5, <3>1, <3>3, <3>4
  <2> QED
    BY <2>1, <2>2, <2>9, <2>10, <2>11, <2>12
<1> HIDE DEF Good
<1>18. Good(N, f[N])
  <2> DEFINE Ok == [k \in 0 .. N |-> {t \in {f[k]} : Good(k, t)}]
  <2>1. f[0] \in Ok[0]
    BY <1>14, <1>15, <1>16
  <2>2. \A k \in 1 .. N : f[k - 1] \in Ok[k - 1] => f[k] \in Ok[k]
    BY <1>10, <1>15, <1>17
  <2>3. \A k \in 0 .. N : f[k] \in Ok[k]
    <3> HIDE DEF Ok
    <3> QED
      BY <1>1, <2>1, <2>2, StepsKeep
  <2> QED
    BY <1>14, <2>3
<1>19. PICK h : h = f[N]
  OBVIOUS
<1>20. Good(N, h)
  BY <1>18, <1>19
<1>21. \A i \in Ids : h[i] \in Nat /\ h[i] <= N
  BY <1>1, <1>20 DEF Good, U
<1>22. ASSUME NEW j \in Ids, NEW i \in ToSet(g.adjacency0[j])
       PROVE  i \in Ids /\ h[i] <= h[j] + 1
  <2>1. i \in Ids
    BY <1>2
  <2>2. CASE h[j] < N
    BY <1>20, <2>1, <2>2 DEF Good
  <2>3. CASE ~(h[j] < N)
    BY <1>1, <1>21, <2>1, <2>3
  <2> QED
    BY <2>1, <2>2, <2>3
<1> QED
  BY <1>13, <1>19, <1>20, <1>22 DEF Good, U, Distances

LEMMA ConcatIs ==
  ASSUME NEW A, NEW s \in Seq(A), NEW t \in Seq(A), NEW m, m = Len(s), NEW n, n = Len(t),
         NEW u, u = s \o t
  PROVE  /\ u \in Seq(A) /\ Len(u) = m + n /\ m \in Nat /\ n \in Nat
         /\ \A i \in 1 .. m : u[i] = s[i]
         /\ \A i \in 1 .. n : u[m + i] = t[i]
<1>1. u \in Seq(A) /\ Len(u) = m + n /\ m \in Nat /\ n \in Nat
  BY HoldsConcat
<1>2. Holds(u, 0, s) /\ Holds(u, m, t)
  BY HoldsConcat
<1>3. \A i \in 1 .. m : u[0 + i] = s[i] /\ 0 + i = i
  BY <1>2 DEF Holds
<1>4. \A i \in 1 .. n : u[m + i] = t[i]
  BY <1>2 DEF Holds
<1> QED
  BY <1>1, <1>3, <1>4

LEMMA Joined ==
  ASSUME NEW A, NEW s \in Seq(A), NEW t \in Seq(A)
  PROVE  /\ ToSet(s \o t) = ToSet(s) \cup ToSet(t)
         /\ IsInjective(s) /\ IsInjective(t) /\ ToSet(s) \cap ToSet(t) = {} => IsInjective(s \o t)
<1>1. PICK m \in Nat : m = Len(s) /\ DOMAIN s = 1 .. m
  OBVIOUS
<1>2. PICK n \in Nat : n = Len(t) /\ DOMAIN t = 1 .. n
  OBVIOUS
<1>3. PICK u : u = s \o t
  OBVIOUS
<1>4. /\ u \in Seq(A) /\ Len(u) = m + n /\ DOMAIN u = 1 .. m + n
      /\ \A i \in 1 .. m : u[i] = s[i]
      /\ \A i \in 1 .. n : u[m + i] = t[i]
  BY <1>1, <1>2, <1>3, ConcatIs
<1>5. \A i \in 1 .. m + n : i \in 1 .. m \/ \E j \in 1 .. n : i = m + j
  <2>1. TAKE i \in 1 .. m + n
  <2>2. i > m => i - m \in 1 .. n /\ i = m + (i - m)
    OBVIOUS
  <2>3. i <= m => i \in 1 .. m
    OBVIOUS
  <2> QED
    BY <2>2, <2>3
<1>6. \A i \in 1 .. m : i \in 1 .. m + n
  OBVIOUS
<1>7. \A i \in 1 .. n : m + i \in 1 .. m + n
  OBVIOUS
<1>8. ToSet(u) = ToSet(s) \cup ToSet(t)
  <2>1. \A i \in 1 .. m + n : u[i] \in ToSet(s) \cup ToSet(t)
    <3>1. TAKE i \in 1 .. m + n
    <3>2. CASE i \in 1 .. m
      BY <1>1, <1>4, <3>2 DEF ToSet
    <3>3. CASE \E j \in 1 .. n : i = m + j
      BY <1>2, <1>4, <3>3 DEF ToSet
    <3> QED
      BY <1>5, <3>2, <3>3
  <2>2. ToSet(s) \subseteq ToSet(u)
    BY <1>1, <1>4, <1>6 DEF ToSet
  <2>3. ToSet(t) \subseteq ToSet(u)
    BY <1>2, <1>4, <1>7 DEF ToSet
  <2>4. ToSet(u) \subseteq ToSet(s) \cup ToSet(t)
    BY <1>4, <2>1 DEF ToSet
  <2> QED
    BY <2>2, <2>3, <2>4
<1>9. ASSUME IsInjective(s), IsInjective(t), ToSet(s) \cap ToSet(t) = {}
      PROVE  IsInjective(u)
  <2>1. SUFFICES ASSUME NEW i \in 1 .. m + n, NEW j \in 1 .. m + n, u[i] = u[j] PROVE i = j
    BY <1>4 DEF IsInjective
  <2>2. \A x \in 1 .. m : s[x] \in ToSet(s)
    BY <1>1 DEF ToSet
  <2>3. \A x \in 1 .. n : t[x] \in ToSet(t)
    BY <1>2 DEF ToSet
  <2>4. \A x, y \in 1 .. m : s[x] = s[y] => x = y
    BY <1>1, <1>9 DEF IsInjective
  <2>5. \A x, y \in 1 .. n : t[x] = t[y] => x = y
    BY <1>2, <1>9 DEF IsInjective
  <2>6. CASE i \in 1 .. m /\ j \in 1 .. m
    BY <1>4, <2>1, <2>4, <2>6
  <2>7. CASE i \in 1 .. m /\ \E y \in 1 .. n : j = m + y
    BY <1>4, <1>9, <2>1, <2>2, <2>3, <2>7
  <2>8. CASE j \in 1 .. m /\ \E y \in 1 .. n : i = m + y
    BY <1>4, <1>9, <2>1, <2>2, <2>3, <2>8
  <2>9. CASE (\E x \in 1 .. n : i = m + x) /\ \E y \in 1 .. n : j = m + y
    <3>1. PICK x \in 1 .. n, y \in 1 .. n : i = m + x /\ j = m + y
      BY <2>9
    <3>2. t[x] = t[y]
      BY <1>4, <2>1, <3>1
    <3> QED
      BY <2>5, <3>1, <3>2
  <2> QED
    BY <1>5, <2>6, <2>7, <2>8, <2>9
<1> QED
  BY <1>3, <1>8, <1>9

Same(x, y) == x = y

\* The head of a queue goes over to the end of what comes before.
LEMMA HandedOn ==
  ASSUME NEW A, NEW o \in Seq(A), NEW q \in Seq(A), NEW s \in Seq(A), q # <<>>
  PROVE  /\ Append(o, Head(q)) \in Seq(A) /\ Tail(q) \o s \in Seq(A)
         /\ Same(Append(o, Head(q)) \o (Tail(q) \o s), (o \o q) \o s)
         /\ Head(q) = (o \o q)[Len(o) + 1] /\ Len(q) >= 1
<1>1. PICK x \in A : x = Head(q)
  OBVIOUS
<1>2. PICK t \in Seq(A) : t = Tail(q)
  <2>1. Tail(q) \in Seq(A)
    OBVIOUS
  <2> QED
    BY <2>1
<1>3. PICK e \in Seq(A) : e = <<x>>
  <2>1. <<x>> \in Seq(A)
    OBVIOUS
  <2> QED
    BY <2>1
<1>4. q = e \o t
  BY <1>1, <1>2, <1>3
<1>5. Append(o, x) = o \o e
  BY <1>3
<1>6. (o \o e) \o (t \o s) = (o \o (e \o t)) \o s
  <2>1. o \o e \in Seq(A)
    OBVIOUS
  <2>2. (o \o e) \o (t \o s) = ((o \o e) \o t) \o s
    BY <2>1
  <2>3. (o \o e) \o t = o \o (e \o t)
    OBVIOUS
  <2> QED
    BY <2>2, <2>3
<1>7. PICK m \in Nat : m = Len(o)
  OBVIOUS
<1>8. PICK n \in Nat : n = Len(q) /\ n >= 1
  <2>1. Len(q) \in Nat /\ Len(q) # 0
    OBVIOUS
  <2> QED
    BY <2>1
<1>9. Head(q) = (o \o q)[m + 1]
  <2>1. \A i \in 1 .. n : (o \o q)[m + i] = q[i]
    BY <1>7, <1>8, ConcatIs
  <2>2. 1 \in 1 .. n /\ Head(q) = q[1]
    BY <1>8
  <2> QED
    BY <2>1, <2>2
<1>10. Append(o, x) \in Seq(A) /\ t \o s \in Seq(A)
  OBVIOUS
<1>11. Same(Append(o, x) \o (t \o s), (o \o q) \o s)
  BY <1>4, <1>5, <1>6 DEF Same
<1> QED
  BY <1>1, <1>2, <1>7, <1>8, <1>9, <1>10, <1>11

\* A node that is not marked is farther than the nearest of those in the queue, if
\* all that nodes taken from it lead to is marked.
LEMMA UnmarkedAreBehind ==
  ASSUME NEW g, NEW h, Distances(g, h), NEW V \in SUBSET Ids, NEW O \in SUBSET V,
         g.entry_point \in V, \A x \in O : ToSet(g.adjacency0[x]) \subseteq V,
         NEW m \in Nat, \A z \in V \ O : h[z] >= m
  PROVE  \A y \in Ids \ V : h[y] = N \/ h[y] >= m + 1
<1>1. \A i \in Ids : h[i] \in Nat /\ h[i] <= N
  <2>1. N \in Nat /\ h \in [Ids -> 0 .. N]
    BY NIs DEF Distances
  <2> QED
    BY <2>1
<1> DEFINE Bad == { h[y] : y \in { x \in Ids \ V : h[x] # N /\ h[x] < m + 1 } }
<1>2. SUFFICES ASSUME Bad # {} PROVE FALSE
  BY <1>1
<1>3. Bad \in SUBSET Nat
  BY <1>1
<1>4. PICK d \in Bad : \A e \in Bad : d <= e
  <2> HIDE DEF Bad
  <2> QED
    BY <1>2, <1>3, LeastNumber
<1>5. PICK y \in Ids \ V : h[y] = d /\ h[y] # N /\ h[y] < m + 1
  BY <1>4
<1>6. h[y] > 0 /\ h[y] < N
  BY <1>1, <1>5, NIs DEF Distances
<1>7. PICK p \in Ids : h[p] = h[y] - 1 /\ y \in ToSet(g.adjacency0[p])
  BY <1>6 DEF Distances
<1>8. p \notin O
  BY <1>5, <1>7
<1>9. CASE p \in V
  <2>1. h[p] >= m
    BY <1>8, <1>9
  <2> QED
    BY <1>1, <1>5, <1>7, <2>1
<1>10. CASE p \notin V
  <2>1. h[p] # N /\ h[p] < m + 1 /\ ~(d <= h[p])
    BY <1>1, <1>5, <1>6, <1>7
  <2>2. h[p] \in Bad
    BY <1>10, <2>1
  <2> QED
    BY <1>4, <2>1, <2>2
<1> QED
  BY <1>9, <1>10

\* Nodes stand in the order of their distances.
Grows(h, s) == \A i, j \in 1 .. Len(s) : i < j => h[s[i]] <= h[s[j]]

BfsStates == [order : Seq(Ids), queue : Seq(Ids), visited : SUBSET Ids]

\* The search after k nodes: what it has taken and what waits are the marked nodes,
\* in the order of their distances, and those that wait are on two layers.
Searched(g, h, k, s) ==
  /\ s \in BfsStates
  /\ IsInjective(s.order \o s.queue) /\ ToSet(s.order \o s.queue) = s.visited
  /\ Grows(h, s.order \o s.queue)
  /\ g.entry_point \in s.visited
  /\ \A x \in ToSet(s.order) : ToSet(g.adjacency0[x]) \subseteq s.visited
  /\ s.queue # <<>> =>
       Len(s.order) = k /\ \A z \in s.visited : h[z] <= h[Head(s.queue)] + 1

LEMMA VisitStarts ==
  ASSUME NEW g, IsGraph(g), NEW h, Distances(g, h)
  PROVE  Searched(g, h, 0, [order |-> <<>>, queue |-> <<g.entry_point>>, visited |-> {g.entry_point}])
<1>1. PICK e \in Ids : e = g.entry_point
  BY DEF IsGraph
<1>2. PICK q \in Seq(Ids) : q = <<e>>
  <2>1. <<e>> \in Seq(Ids)
    OBVIOUS
  <2> QED
    BY <2>1
<1>3. <<>> \o q = q /\ Len(q) = 1 /\ q[1] = e /\ Head(q) = e /\ DOMAIN q = {1} /\ <<>> \in Seq(Ids)
  BY <1>2
<1>4. ToSet(q) = {e} /\ IsInjective(q) /\ ToSet(<<>>) = {} /\ Len(<<>>) = 0
  BY <1>3 DEF ToSet, IsInjective
<1>5. Grows(h, q)
  <2>1. \A i, j \in 1 .. 1 : ~(i < j)
    OBVIOUS
  <2> QED
    BY <1>3, <2>1 DEF Grows
<1>6. h[e] <= h[e] + 1
  <2>1. h[e] = 0
    BY <1>1 DEF Distances
  <2> QED
    BY <2>1
<1> DEFINE s == [order |-> <<>>, queue |-> q, visited |-> {e}]
<1>7. s \in BfsStates /\ s.order = <<>> /\ s.queue = q /\ s.visited = {e}
  BY <1>3 DEF BfsStates
<1> HIDE DEF s
<1>8. Searched(g, h, 0, s)
  BY <1>1, <1>3, <1>4, <1>5, <1>6, <1>7 DEF Searched
<1> QED
  BY <1>1, <1>2, <1>8 DEF s

LEMMA VisitSteps ==
  ASSUME NEW g, IsGraph(g), NEW h, Distances(g, h), NEW k \in Nat \ {0},
         NEW s, Searched(g, h, k - 1, s), s.queue # <<>>
  PROVE  Searched(g, h, k, VisitNext(g, s))
<1>1. PICK o \in Seq(Ids), q \in Seq(Ids) : o = s.order /\ q = s.queue
  BY DEF Searched, BfsStates
<1>2. PICK V \in SUBSET Ids : V = s.visited
  BY DEF Searched, BfsStates
<1>3. PICK all \in Seq(Ids) : all = o \o q
  <2>1. o \o q \in Seq(Ids)
    OBVIOUS
  <2> QED
    BY <2>1
<1>4. /\ IsInjective(all) /\ ToSet(all) = V /\ Grows(h, all) /\ g.entry_point \in V
      /\ \A x \in ToSet(o) : ToSet(g.adjacency0[x]) \subseteq V
      /\ Len(o) = k - 1 /\ \A z \in V : h[z] <= h[Head(q)] + 1
  BY <1>1, <1>2, <1>3 DEF Searched
<1>5. PICK m \in Nat : m = Len(o)
  OBVIOUS
<1>6. PICK n \in Nat : n = Len(q) /\ n >= 1
  <2>1. q # <<>>
    BY <1>1
  <2>2. Len(q) \in Nat /\ Len(q) # 0
    BY <2>1
  <2> QED
    BY <2>2
<1>7. PICK x \in Ids : x = Head(q)
  <2>1. q # <<>>
    BY <1>1
  <2> QED
    BY <2>1
<1>8. PICK list \in Seq(Ids \ {x}) : list = g.adjacency0[x] /\ IsInjective(list)
  BY DEF IsGraph
<1> DEFINE new == Only(list, Ids \ V)
           t == VisitNext(g, s)
<1>9. /\ new \in Seq(Ids) /\ IsInjective(new) /\ ToSet(new) = ToSet(list) \ V
  <2>2. list \in Seq(Ids) /\ ToSet(list) \subseteq Ids
    <3>1. Ids \ {x} \subseteq Ids
      OBVIOUS
    <3>2. list \in Seq(Ids) /\ ToSet(list) \subseteq Ids \ {x}
      BY <3>1, Widened
    <3> QED
      BY <3>2
  <2>4. /\ new \in Seq(Ids \cap (Ids \ V)) /\ ToSet(new) = ToSet(list) \cap (Ids \ V)
        /\ IsInjective(new)
    BY <1>8, <2>2, OnlyIs
  <2>5. new \in Seq(Ids)
    BY <2>4, Widened
  <2> QED
    BY <2>2, <2>4, <2>5
<1> HIDE DEF new
<1>10. /\ Append(o, x) \in Seq(Ids) /\ Tail(q) \o new \in Seq(Ids)
       /\ Append(o, x) \o (Tail(q) \o new) = all \o new
       /\ x = all[m + 1]
  <2>1. q # <<>>
    BY <1>1
  <2> QED
    <3>1. PICK w \in Seq(Ids) : w = new
      BY <1>9
    <3>2. Append(o, Head(q)) \in Seq(Ids) /\ Tail(q) \o w \in Seq(Ids)
      BY <2>1, HandedOn
    <3>3. Append(o, Head(q)) \o (Tail(q) \o w) = (o \o q) \o w
      <4>1. Same(Append(o, Head(q)) \o (Tail(q) \o w), (o \o q) \o w)
        BY <2>1, HandedOn
      <4> QED
        BY <4>1 DEF Same
    <3>4. Head(q) = (o \o q)[Len(o) + 1]
      BY <2>1, HandedOn
    <3> QED
      BY <1>3, <1>5, <1>7, <3>1, <3>2, <3>3, <3>4
<1>11. /\ t = [order |-> Append(o, x), queue |-> Tail(q) \o new, visited |-> V \cup ToSet(new)]
       /\ t.order = Append(o, x) /\ t.queue = Tail(q) \o new /\ t.visited = V \cup ToSet(new)
  <2>1. Nodes(g) = Ids
    BY DEF IsGraph, Nodes, Ids
  <2>2. t = [order |-> Append(o, x), queue |-> Tail(q) \o new, visited |-> V \cup ToSet(new)]
    BY <1>1, <1>2, <1>7, <1>8, <2>1 DEF VisitNext, new
  <2> QED
    BY <2>2
<1> HIDE DEF t
<1>12. ToSet(new) \subseteq Ids /\ ToSet(list) \subseteq Ids /\ ToSet(new) \cap V = {}
  BY <1>8, <1>9, Widened
<1>13. t \in BfsStates
  BY <1>10, <1>11, <1>12 DEF BfsStates
<1>14. PICK both \in Seq(Ids) : both = all \o new
  <2>1. all \o new \in Seq(Ids)
    BY <1>9
  <2> QED
    BY <2>1
<1>15. IsInjective(both) /\ ToSet(both) = V \cup ToSet(new)
  BY <1>4, <1>9, <1>12, <1>14, Joined
<1>16. PICK len \in Nat : len = Len(all) /\ DOMAIN all = 1 .. len
  <2>1. Len(all) \in Nat /\ DOMAIN all = 1 .. Len(all)
    BY all \in Seq(Ids)
  <2> QED
    BY <2>1
<1>33. len = m + n
  <2>1. Len(o \o q) = m + n
    BY <1>5, <1>6
  <2> QED
    BY <1>3, <1>16, <2>1
<1>17. PICK more \in Nat : more = Len(new) /\ DOMAIN new = 1 .. more
  BY <1>9
<1>18. /\ Len(both) = len + more
       /\ \A i \in 1 .. len : both[i] = all[i]
       /\ \A i \in 1 .. more : both[len + i] = new[i]
  <2>1. PICK w \in Seq(Ids) : w = new
    BY <1>9
  <2> QED
    BY <1>14, <1>16, <1>17, <2>1, ConcatIs
<1>19. \A i \in 1 .. len : all[i] \in V
  BY <1>4, <1>16 DEF ToSet
<1>20. \A i \in 1 .. more : new[i] \in ToSet(new)
  BY <1>9, <1>17 DEF ToSet
<1>21. \A i \in Ids : h[i] \in Nat /\ h[i] <= N
  <2>1. N \in Nat /\ h \in [Ids -> 0 .. N]
    BY NIs DEF Distances
  <2> QED
    BY <2>1
\* The nodes that wait are no nearer than the head; so the others are farther.
<1>22. \A z \in V \ ToSet(o) : h[z] >= h[x]
  <2>1. TAKE z \in V \ ToSet(o)
  <2>2. PICK i \in 1 .. len : z = all[i]
    BY <1>4, <1>16 DEF ToSet
  <2>3. ~(i <= m)
    <3>1. SUFFICES ASSUME i <= m PROVE FALSE
      OBVIOUS
    <3>2. i \in 1 .. m
      BY <3>1
    <3>3. all[i] = o[i]
      BY <1>3, <1>5, <1>6, <3>2, ConcatIs
    <3>4. o[i] \in ToSet(o)
      BY <1>5, <3>2 DEF ToSet
    <3> QED
      BY <2>2, <3>3, <3>4
  <2>4. CASE i = m + 1
    BY <1>10, <1>21, <2>2, <2>4
  <2>5. CASE i > m + 1
    <3>1. m + 1 \in 1 .. Len(all) /\ i \in 1 .. Len(all)
      BY <1>6, <1>16, <1>33
    <3> QED
      BY <1>4, <1>10, <1>21, <2>2, <2>5, <3>1 DEF Grows
  <2> QED
    BY <2>3, <2>4, <2>5
<1>23. \A y \in Ids \ V : h[y] = N \/ h[y] >= h[x] + 1
  <2>1. ToSet(o) \subseteq V
    <3>1. ToSet(o \o q) = ToSet(o) \cup ToSet(q)
      BY Joined
    <3> QED
      BY <1>3, <1>4, <3>1
  <2>2. PICK O \in SUBSET V : O = ToSet(o)
    BY <2>1
  <2>3. PICK d \in Nat : d = h[x]
    BY <1>21
  <2>4. \A z \in V \ O : h[z] >= d
    BY <1>22, <2>2, <2>3
  <2>5. \A z \in O : ToSet(g.adjacency0[z]) \subseteq V
    BY <1>4, <2>2
  <2>6. \A y \in Ids \ V : h[y] = N \/ h[y] >= d + 1
    BY <1>4, <2>4, <2>5, UnmarkedAreBehind
  <2> QED
    BY <2>3, <2>6
<1>24. \A y \in ToSet(new) : y \in Ids \ V /\ h[y] <= h[x] + 1
  <2>1. \A y \in ToSet(list) : h[y] <= h[x] + 1
    BY <1>8 DEF Distances
  <2> QED
    BY <1>9, <1>12, <2>1
<1>25. \A z \in V : h[z] <= h[x] + 1
  BY <1>4, <1>7
<1>26. \A z \in V \cup ToSet(new) : z \in Ids /\ h[z] <= h[x] + 1
  BY <1>24, <1>25
<1>27. \A z \in V \cup ToSet(new), y \in ToSet(new) : h[z] <= h[y]
  <2>1. TAKE z \in V \cup ToSet(new), y \in ToSet(new)
  <2>2. z \in Ids /\ h[z] <= h[x] + 1 /\ h[z] \in Nat /\ h[z] <= N
    BY <1>21, <1>26
  <2>3. h[y] = N \/ h[y] >= h[x] + 1
    BY <1>23, <1>24
  <2>4. h[y] \in Nat /\ h[x] \in Nat /\ N \in Nat
    BY <1>21, <1>24, NIs
  <2> QED
    BY <2>2, <2>3, <2>4
<1>28. \A i \in 1 .. len + more : i \in 1 .. len \/ \E j \in 1 .. more : i = len + j
  <2>1. TAKE i \in 1 .. len + more
  <2>2. i > len => i - len \in 1 .. more /\ i = len + (i - len)
    OBVIOUS
  <2> QED
    BY <2>2
<1>29. Grows(h, both)
  <2>1. SUFFICES ASSUME NEW i \in 1 .. len + more, NEW j \in 1 .. len + more, i < j
                 PROVE  h[both[i]] <= h[both[j]]
    BY <1>18 DEF Grows
  <2>2. CASE j \in 1 .. len
    <3>1. i \in 1 .. len
      BY <2>1, <2>2
    <3> QED
      BY <1>4, <1>16, <1>18, <2>1, <2>2, <3>1 DEF Grows
  <2>3. CASE \E y \in 1 .. more : j = len + y
    <3>1. both[j] \in ToSet(new)
      BY <1>18, <1>20, <2>3
    <3>2. both[i] \in V \cup ToSet(new)
      <4>1. CASE i \in 1 .. len
        BY <1>18, <1>19, <4>1
      <4>2. CASE \E y \in 1 .. more : i = len + y
        BY <1>18, <1>20, <4>2
      <4> QED
        BY <1>28, <4>1, <4>2
    <3> QED
      BY <1>27, <3>1, <3>2
  <2> QED
    BY <1>28, <2>2, <2>3
<1>30. \A z \in ToSet(t.order) : ToSet(g.adjacency0[z]) \subseteq t.visited
  <2>1. ToSet(t.order) = ToSet(o) \cup {x}
    BY <1>11, Appended
  <2>2. ToSet(list) \subseteq V \cup ToSet(new)
    BY <1>9
  <2> QED
    BY <1>4, <1>8, <1>11, <2>1, <2>2
<1>31. ASSUME t.queue # <<>>
       PROVE  Len(t.order) = k /\ \A z \in t.visited : h[z] <= h[Head(t.queue)] + 1
  <2>1. Len(t.order) = k
    <3>1. Len(Append(o, x)) = m + 1
      BY <1>5
    <3> QED
      BY <1>4, <1>5, <1>11, <3>1
  <2>2. PICK q2 \in Seq(Ids) : q2 = t.queue
    BY <1>10, <1>11
  <2>3. PICK y \in Ids : y = Head(q2) /\ y = q2[1] /\ 1 \in 1 .. Len(q2)
    <3>1. q2 # <<>>
      BY <1>31, <2>2
    <3>2. Len(q2) \in Nat /\ Len(q2) # 0
      BY <3>1
    <3> QED
      BY <3>1, <3>2
  <2>4. PICK o2 \in Seq(Ids) : o2 = Append(o, x) /\ Len(o2) = m + 1
    <3>1. Len(Append(o, x)) = m + 1
      BY <1>5
    <3> QED
      BY <1>10, <3>1
  <2>5. both = o2 \o q2
    BY <1>10, <1>11, <1>14, <2>2, <2>4
  <2>6. both[m + 1 + 1] = y /\ Len(both) = m + 1 + Len(q2)
    <3>1. PICK c \in Nat : c = m + 1
      OBVIOUS
    <3>2. PICK e \in Nat : e = Len(q2)
      OBVIOUS
    <3>3. Len(both) = c + e /\ \A i \in 1 .. e : both[c + i] = q2[i]
      <4>1. c = Len(o2)
        BY <2>4, <3>1
      <4> QED
        BY <2>5, <3>2, <4>1, ConcatIs
    <3> QED
      BY <2>3, <3>1, <3>2, <3>3
  <2>7. both[m + 1] = x
    <3>1. m + 1 \in 1 .. len
      BY <1>6, <1>16, <1>33
    <3> QED
      BY <1>10, <1>18, <3>1
  <2>8. m + 1 \in 1 .. Len(both) /\ m + 1 + 1 \in 1 .. Len(both) /\ m + 1 < m + 1 + 1
    <3>1. Len(q2) \in Nat /\ Len(q2) >= 1
      BY <2>3
    <3> QED
      BY <2>6, <3>1
  <2>9. h[x] <= h[y]
    BY <1>29, <2>6, <2>7, <2>8 DEF Grows
  <2>10. \A z \in V \cup ToSet(new) : h[z] <= h[y] + 1
    BY <1>21, <1>26, <2>9
  <2> QED
    BY <1>11, <2>1, <2>2, <2>3, <2>10
<1>32. IsInjective(t.order \o t.queue) /\ ToSet(t.order \o t.queue) = t.visited
       /\ Grows(h, t.order \o t.queue) /\ g.entry_point \in t.visited
  BY <1>4, <1>10, <1>11, <1>14, <1>15, <1>29
<1> QED
  BY <1>13, <1>30, <1>31, <1>32 DEF Searched, t

LEMMA VisitTyped ==
  ASSUME NEW g, IsGraph(g), NEW s \in BfsStates
  PROVE  VisitNext(g, s) \in BfsStates
<1>1. CASE s.queue = <<>>
  BY <1>1 DEF VisitNext
<1>2. CASE s.queue # <<>>
  <2>1. PICK o \in Seq(Ids), q \in Seq(Ids) : o = s.order /\ q = s.queue
    BY DEF BfsStates
  <2>2. PICK V \in SUBSET Ids : V = s.visited
    BY DEF BfsStates
  <2>3. PICK x \in Ids : x = Head(q) /\ Tail(q) \in Seq(Ids)
    BY <1>2, <2>1
  <2>4. PICK list \in Seq(Ids \ {x}) : list = g.adjacency0[x]
    BY DEF IsGraph
  <2>5. PICK new : new = Only(list, Nodes(g) \ V)
    OBVIOUS
  <2>6. new \in Seq(Ids) /\ ToSet(new) \subseteq Ids
    <3>1. Ids \ {x} \subseteq Ids
      OBVIOUS
    <3>2. list \in Seq(Ids)
      BY <3>1, Widened
    <3>3. new \in Seq(Ids \cap (Nodes(g) \ V))
      BY <2>5, <3>2, OnlyIs
    <3>4. Ids \cap (Nodes(g) \ V) \subseteq Ids
      OBVIOUS
    <3> QED
      BY <3>3, <3>4, Widened
  <2>7. VisitNext(g, s) = [ order |-> Append(o, x), queue |-> Tail(q) \o new,
                            visited |-> V \cup ToSet(new) ]
    BY <1>2, <2>1, <2>2, <2>3, <2>4, <2>5 DEF VisitNext
  <2>8. Append(o, x) \in Seq(Ids) /\ Tail(q) \o new \in Seq(Ids)
    BY <2>3, <2>6
  <2> QED
    BY <2>6, <2>7, <2>8 DEF BfsStates
<1> QED
  BY <1>1, <1>2

LEMMA SearchEnds ==
  ASSUME NEW g, IsGraph(g), NEW h, Distances(g, h)
  PROVE  \E s : /\ Searched(g, h, N, s)
                /\ BfsOrder(g) = ByNode(N, s.order \o Only([i \in 1 .. N |-> i - 1], Ids \ s.visited))
<1> DEFINE U == BfsStates
           b == [ order |-> <<>>, queue |-> <<g.entry_point>>, visited |-> {g.entry_point} ]
           Rule(f) == f = [k \in 0 .. N |-> IF k = 0 THEN b ELSE VisitNext(g, f[k - 1])]
           F == [k \in 1 .. N |-> [s \in U |-> VisitNext(g, s)]]
<1>1. N \in Nat /\ N # 0
  BY NIs
<1>2. BfsOrder(g) = LET s == (CHOOSE f : Rule(f))[N]
                    IN  ByNode(N, s.order \o Only([i \in 1 .. N |-> i - 1], Ids \ s.visited))
  <2>1. g.num_nodes = N /\ Nodes(g) = Ids
    BY DEF IsGraph, Nodes, Ids
  <2> QED
    BY <2>1 DEF BfsOrder
<1>3. Searched(g, h, 0, b)
  BY VisitStarts
<1> HIDE DEF b
<1>4. b \in U
  BY <1>3 DEF Searched
<1>5. F \in [1 .. N -> [U -> U]]
  BY VisitTyped
<1> HIDE DEF U
<1>6. PICK e \in [0 .. N -> U] : e[0] = b /\ \A k \in 1 .. N : e[k] = F[k][e[k - 1]]
  <2>1. \E f \in [0 .. N -> U] : Follows(f, N, b, F)
    <3> HIDE DEF F
    <3> QED
      BY <1>1, <1>4, <1>5, RecursionExists
  <2> QED
    BY <2>1 DEF Follows
<1>7. \A k \in 1 .. N : e[k] = VisitNext(g, e[k - 1]) /\ k \in 0 .. N /\ k - 1 \in 0 .. N /\ k # 0
  <2>1. \A k \in 1 .. N : k \in 0 .. N /\ k - 1 \in 0 .. N /\ k # 0
    BY <1>1
  <2> QED
    BY <1>6, <2>1
<1> HIDE DEF F
<1>8. Rule(e)
  <2>1. e = [k \in 0 .. N |-> e[k]]
    OBVIOUS
  <2>2. \A k \in 0 .. N : e[k] = IF k = 0 THEN b ELSE VisitNext(g, e[k - 1])
    <3>1. \A k \in 0 .. N : k # 0 => k \in 1 .. N
      BY <1>1
    <3> QED
      BY <1>6, <1>7, <3>1
  <2> QED
    BY <2>1, <2>2
<1> DEFINE f == CHOOSE f : Rule(f)
<1>9. Rule(f)
  BY <1>8
<1>10. BfsOrder(g) = ByNode(N, f[N].order \o Only([i \in 1 .. N |-> i - 1], Ids \ f[N].visited))
  BY <1>2
<1> HIDE DEF f
<1>11. 0 \in 0 .. N /\ N \in 0 .. N
  BY <1>1
<1>12. f[0] = b /\ \A k \in 1 .. N : f[k] = VisitNext(g, f[k - 1])
  BY <1>7, <1>9, <1>11
<1>13. ASSUME NEW k \in 1 .. N, NEW s, Searched(g, h, k - 1, s)
       PROVE  Searched(g, h, k, VisitNext(g, s))
  <2>1. k \in Nat \ {0}
    BY <1>1
  <2>2. CASE s.queue # <<>>
    BY <1>13, <2>1, <2>2, VisitSteps
  <2>3. CASE s.queue = <<>>
    <3>1. VisitNext(g, s) = s
      BY <2>3 DEF VisitNext
    <3> QED
      BY <1>13, <2>3, <3>1 DEF Searched
  <2> QED
    BY <2>2, <2>3
<1>14. Searched(g, h, N, f[N])
  <2> DEFINE Ok == [k \in 0 .. N |-> {t \in {f[k]} : Searched(g, h, k, t)}]
  <2>1. f[0] \in Ok[0]
    BY <1>3, <1>11, <1>12
  <2>2. \A k \in 1 .. N : f[k - 1] \in Ok[k - 1] => f[k] \in Ok[k]
    BY <1>7, <1>12, <1>13
  <2>3. \A k \in 0 .. N : f[k] \in Ok[k]
    <3> HIDE DEF Ok
    <3> QED
      BY <1>1, <2>1, <2>2, StepsKeep
  <2> QED
    BY <1>11, <2>3
<1> QED
  BY <1>10, <1>14

\* bfs_reorder's order: all nodes, by their distances.
LEMMA BfsOrderIs ==
  ASSUME NEW g, IsGraph(g), NEW h, Distances(g, h)
  PROVE  \E s \in Seq(Ids) :
           /\ Len(s) = N /\ IsInjective(s) /\ ToSet(s) = Ids /\ Grows(h, s)
           /\ BfsOrder(g) = ByNode(N, s)
<1>1. PICK r : /\ Searched(g, h, N, r)
               /\ BfsOrder(g) = ByNode(N, r.order \o Only([i \in 1 .. N |-> i - 1], Ids \ r.visited))
  BY SearchEnds
<1>2. PICK o \in Seq(Ids), q \in Seq(Ids) : o = r.order /\ q = r.queue
  BY <1>1 DEF Searched, BfsStates
<1>3. PICK V \in SUBSET Ids : V = r.visited
  BY <1>1 DEF Searched, BfsStates
<1>4. N \in Nat /\ \A i \in Ids : h[i] \in Nat /\ h[i] <= N
  <2>1. N \in Nat /\ h \in [Ids -> 0 .. N]
    BY NIs DEF Distances
  <2> QED
    BY <2>1
<1>5. q = <<>>
  <2> SUFFICES ASSUME q # <<>> PROVE FALSE
    OBVIOUS
  <2>1. Len(o) = N /\ IsInjective(o \o q) /\ ToSet(o \o q) = V
    BY <1>1, <1>2, <1>3 DEF Searched
  <2>2. PICK all \in Seq(Ids) : all = o \o q
    <3>1. o \o q \in Seq(Ids)
      OBVIOUS
    <3> QED
      BY <3>1
  <2>3. Cardinality(V) = Len(all)
    BY <2>1, <2>2, InjectiveSize
  <2>4. Len(all) = Len(o) + Len(q)
    BY <2>2
  <2>5. Len(q) \in Nat /\ Len(q) # 0
    OBVIOUS
  <2>6. Cardinality(V) <= N
    BY IdsFinite
  <2> QED
    BY <1>4, <2>1, <2>3, <2>4, <2>5, <2>6
<1>6. /\ IsInjective(o) /\ ToSet(o) = V /\ Grows(h, o) /\ g.entry_point \in V
      /\ \A x \in V : ToSet(g.adjacency0[x]) \subseteq V
  <2>1. o \o q = o
    BY <1>5
  <2> QED
    BY <1>1, <1>2, <1>3, <2>1 DEF Searched
<1>7. \A y \in Ids \ V : h[y] = N
  <2>1. PICK O \in SUBSET V : O = V
    OBVIOUS
  <2>2. \A y \in Ids \ V : h[y] = N \/ h[y] >= N + 1
    BY <1>4, <1>6, <2>1, UnmarkedAreBehind
  <2> QED
    BY <1>4, <2>2
<1> DEFINE natural == [i \in 1 .. N |-> i - 1]
           others == Only(natural, Ids \ V)
<1>8. natural \in Seq(Ids) /\ IsInjective(natural) /\ ToSet(natural) = Ids
  <2>1. natural \in Seq(Ids)
    BY <1>4 DEF Ids
  <2>2. IsInjective(natural)
    BY <1>4 DEF IsInjective
  <2>3. \A n \in Ids : n + 1 \in 1 .. N /\ natural[n + 1] = n
    BY <1>4 DEF Ids
  <2>4. \A i \in 1 .. N : natural[i] \in Ids
    BY <1>4 DEF Ids
  <2>5. DOMAIN natural = 1 .. N
    OBVIOUS
  <2> HIDE DEF natural
  <2> QED
    BY <2>1, <2>2, <2>3, <2>4, <2>5 DEF ToSet
<1> HIDE DEF natural
<1>9. others \in Seq(Ids) /\ IsInjective(others) /\ ToSet(others) = Ids \ V
  <2>1. others \in Seq(Ids \cap (Ids \ V)) /\ IsInjective(others) /\ ToSet(others) = Ids \cap (Ids \ V)
    BY <1>8, OnlyIs
  <2>2. Ids \cap (Ids \ V) \subseteq Ids
    OBVIOUS
  <2> QED
    BY <2>1, <2>2, Widened
<1>10. PICK w \in Seq(Ids) : w = others
  BY <1>9
<1>11. PICK s \in Seq(Ids) : s = o \o w
  <2>1. o \o w \in Seq(Ids)
    OBVIOUS
  <2> QED
    BY <2>1
<1>12. BfsOrder(g) = ByNode(N, s)
  BY <1>1, <1>2, <1>3, <1>10, <1>11 DEF natural
<1>13. IsInjective(w) /\ ToSet(w) = Ids \ V
  BY <1>9, <1>10
<1>14. IsInjective(s) /\ ToSet(s) = Ids
  <2>1. ToSet(s) = V \cup (Ids \ V)
    BY <1>6, <1>11, <1>13, Joined
  <2>2. ToSet(o) \cap ToSet(w) = {}
    BY <1>6, <1>13
  <2> QED
    BY <1>6, <1>11, <1>13, <2>1, <2>2, Joined
<1>15. Len(s) = N
  <2>1. Cardinality(Ids) = Len(s)
    BY <1>14, InjectiveSize
  <2>2. Cardinality(Ids) = N
    <3>1. 0 \in Int /\ N - 1 \in Int /\ ~(0 > N - 1) /\ (N - 1) - 0 + 1 = N
      BY <1>4, NIs
    <3> QED
      BY <3>1, FS_Interval DEF Ids
  <2> QED
    BY <2>1, <2>2
<1>16. PICK m \in Nat : m = Len(o) /\ DOMAIN o = 1 .. m
  OBVIOUS
<1>17. PICK n \in Nat : n = Len(w) /\ DOMAIN w = 1 .. n
  OBVIOUS
<1>18. /\ Len(s) = m + n
       /\ \A i \in 1 .. m : s[i] = o[i]
       /\ \A i \in 1 .. n : s[m + i] = w[i]
  BY <1>11, <1>16, <1>17, ConcatIs
<1>19. \A i \in 1 .. n : h[s[m + i]] = N
  <2>1. \A i \in 1 .. n : w[i] \in ToSet(w)
    BY <1>17 DEF ToSet
  <2> QED
    BY <1>7, <1>13, <1>18, <2>1
<1>20. Grows(h, s)
  <2>1. SUFFICES ASSUME NEW i \in 1 .. m + n, NEW j \in 1 .. m + n, i < j PROVE h[s[i]] <= h[s[j]]
    BY <1>18 DEF Grows
  <2>2. CASE j <= m
    <3>1. i \in 1 .. m /\ j \in 1 .. m
      BY <2>1, <2>2
    <3> QED
      BY <1>6, <1>16, <1>18, <2>1, <3>1 DEF Grows
  <2>3. CASE j > m
    <3>1. j - m \in 1 .. n /\ j = m + (j - m)
      BY <2>3
    <3>2. h[s[j]] = N
      BY <1>19, <3>1
    <3>3. s[i] \in Ids
      BY <1>11, <1>18, <2>1
    <3> QED
      BY <1>4, <3>2, <3>3
  <2> QED
    BY <2>2, <2>3
<1> QED
  BY <1>11, <1>12, <1>14, <1>15, <1>20

\* The two arrays of bfs_order.bin.
Renumbers(b) ==
  /\ b.new_to_old \in [Ids -> Ids] /\ b.old_to_new \in [Ids -> Ids]
  /\ \A i \in Ids : b.new_to_old[b.old_to_new[i]] = i /\ b.old_to_new[b.new_to_old[i]] = i

LEMMA BfsFileIs ==
  ASSUME NEW g, IsGraph(g), NEW h, Distances(g, h)
  PROVE  /\ Renumbers(BfsFile(g))
         /\ \A n \in 1 .. N - 1 : h[BfsFile(g).new_to_old[n - 1]] <= h[BfsFile(g).new_to_old[n]]
<1>1. PICK s \in Seq(Ids) : /\ Len(s) = N /\ IsInjective(s) /\ ToSet(s) = Ids /\ Grows(h, s)
                            /\ BfsOrder(g) = ByNode(N, s)
  BY BfsOrderIs
<1>2. N \in Nat /\ \A i \in Ids : i \in Nat /\ i + 1 \in 1 .. N
  BY NIs DEF Ids
<1>3. DOMAIN s = 1 .. N
  BY <1>1
<1>4. PICK order : order = BfsOrder(g)
  OBVIOUS
<1>5. order = [i \in Ids |-> s[i + 1]]
  BY <1>1, <1>4 DEF ByNode, Ids
<1>6. order \in [Ids -> Ids] /\ \A i \in Ids : order[i] = s[i + 1]
  <2>1. \A i \in 1 .. N : s[i] \in Ids
    BY <1>1
  <2> QED
    BY <1>2, <1>5, <2>1
<1>7. \A i, j \in Ids : order[i] = order[j] => i = j
  <2>1. \A i, j \in 1 .. N : s[i] = s[j] => i = j
    BY <1>1, <1>3 DEF IsInjective
  <2>2. \A i, j \in Ids : i + 1 = j + 1 => i = j
    BY <1>2
  <2> QED
    BY <1>2, <1>6, <2>1, <2>2
<1>8. \A o \in Ids : \E n \in Ids : order[n] = o
  <2>1. TAKE o \in Ids
  <2>2. PICK i \in 1 .. N : s[i] = o
    BY <1>1, <1>3 DEF ToSet
  <2>3. i - 1 \in Ids /\ (i - 1) + 1 = i
    BY <1>2 DEF Ids
  <2> QED
    BY <1>6, <2>2, <2>3
<1> DEFINE back == [o \in Ids |-> CHOOSE n \in Ids : order[n] = o]
<1>9. back \in [Ids -> Ids] /\ \A o \in Ids : back[o] \in Ids /\ order[back[o]] = o
  BY <1>8
<1>10. Nodes(g) = Ids
  BY DEF IsGraph, Nodes, Ids
<1>11. BfsFile(g).new_to_old = order /\ BfsFile(g).old_to_new = back
  BY <1>4, <1>10 DEF BfsFile
<1> HIDE DEF back
<1>12. \A i \in Ids : back[order[i]] = i
  BY <1>6, <1>7, <1>9
<1>13. ASSUME NEW n \in 1 .. N - 1 PROVE h[order[n - 1]] <= h[order[n]]
  <2>1. n - 1 \in Ids /\ n \in Ids /\ n \in 1 .. Len(s) /\ n + 1 \in 1 .. Len(s) /\ (n - 1) + 1 = n /\ n < n + 1
    BY <1>1, <1>2 DEF Ids
  <2> QED
    BY <1>1, <1>6, <2>1 DEF Grows
<1> QED
  BY <1>6, <1>9, <1>11, <1>12, <1>13 DEF Renumbers

\* A file is there only when those are that it is made from.
FilesFollow ==
  /\ bfs_bin # NoFile => graph_bin # NoFile
  /\ vec_bin # NoFile => bfs_bin # NoFile
  /\ blocks_bin # NoFile => vec_bin # NoFile
  /\ route_bin # NoFile => blocks_bin # NoFile
  /\ index # NoFile => route_bin # NoFile
  /\ query # NoFile => index # NoFile
  /\ pq_codes # NoFile => route_bin # NoFile
  /\ tables # NoTables => route_bin # NoFile

LEMMA InitFollows == PipelineInit => FilesFollow
BY DEF PipelineInit, FilesFollow

LEMMA NextFollows ==
  ASSUME FilesFollow, [PipelineNext]_pipelineVars
  PROVE  FilesFollow'
<1>1. CASE UNCHANGED <<files, search>>
  BY <1>1 DEF FilesFollow, files, search
<1>2. CASE Export
  BY <1>2 DEF Export, FilesFollow, search
<1>3. CASE Extract
  BY <1>3 DEF Extract, FilesFollow, search
<1>4. CASE Prune
  BY <1>4 DEF Prune, FilesFollow, search
<1>5. CASE ReorderNodes
  BY <1>5 DEF ReorderNodes, FilesFollow, search
<1>6. CASE WriteVecOnly
  BY <1>6 DEF WriteVecOnly, FilesFollow, search
<1>7. CASE Shuffle
  BY <1>7 DEF Shuffle, FilesFollow, search
<1>8. CASE ClusterReorder
  BY <1>8 DEF ClusterReorder, FilesFollow, search
<1>9. CASE WriteBlocks
  BY <1>9 DEF WriteBlocks, FilesFollow, search
<1>10. CASE WritePQBlocks
  BY <1>10 DEF WritePQBlocks, FilesFollow, search
<1>11. CASE GenRouteTable
  BY <1>11 DEF GenRouteTable, FilesFollow, search
<1>12. CASE OpenIndex
  BY <1>12 DEF OpenIndex, FilesFollow, files
<1>13. CASE BuildFine
  BY <1>13 DEF BuildFine, FilesFollow, files
<1>14. CASE LoadPQCodes
  BY <1>14 DEF LoadPQCodes, FilesFollow, files
<1>15. CASE StartDescent
  BY <1>15 DEF StartDescent, FilesFollow, files
<1>16. CASE Walk
  BY <1>16 DEF Walk, FilesFollow, files
<1> QED
  BY <1>1, <1>2, <1>3, <1>4, <1>5, <1>6, <1>7, <1>8, <1>9, <1>10, <1>11, <1>12, <1>13, <1>14,
     <1>15, <1>16 DEF PipelineNext, pipelineVars, files, search, RunVerify

\* Once a file is made from another, that one stays.
LEMMA FilesStay ==
  ASSUME FilesFollow, [PipelineNext]_pipelineVars
  PROVE  /\ bfs_bin # NoFile => UNCHANGED <<graph_bin, bfs_bin>>
         /\ vec_bin # NoFile => UNCHANGED vec_route
         /\ blocks_bin # NoFile => UNCHANGED <<vec_bin, blocks_bin>>
         /\ route_bin # NoFile => UNCHANGED <<vec_bin, blocks_bin, route_bin>>
<1>1. CASE UNCHANGED files
  BY <1>1 DEF files
<1>2. CASE Export \/ Extract \/ Prune \/ ReorderNodes
  BY <1>2 DEF FilesFollow, Export, Extract, Prune, ReorderNodes
<1>3. CASE WriteVecOnly \/ Shuffle \/ ClusterReorder
  BY <1>3 DEF FilesFollow, WriteVecOnly, Shuffle, ClusterReorder
<1>4. CASE WriteBlocks \/ WritePQBlocks \/ GenRouteTable
  BY <1>4 DEF FilesFollow, WriteBlocks, WritePQBlocks, GenRouteTable
<1> QED
  BY <1>1, <1>2, <1>3, <1>4
     DEF PipelineNext, pipelineVars, RunVerify, OpenIndex, BuildFine, LoadPQCodes, StartDescent, Walk

\* The new order is that of the graph file.
BfsIsRight == bfs_bin # NoFile => bfs_bin = BfsFile(Graph)

LEMMA NextBfsIsRight ==
  ASSUME FilesFollow, BfsIsRight, [PipelineNext]_pipelineVars
  PROVE  BfsIsRight'
<1>1. CASE bfs_bin # NoFile
  BY <1>1, FilesStay DEF BfsIsRight, Graph
<1>2. CASE ReorderNodes
  BY <1>2 DEF ReorderNodes, BfsIsRight, Graph
<1>3. CASE bfs_bin = NoFile /\ ~ReorderNodes
  <2>1. bfs_bin' = bfs_bin
    BY <1>3 DEF PipelineNext, pipelineVars, files, Export, Extract, Prune, WriteVecOnly, Shuffle,
         ClusterReorder, WriteBlocks, WritePQBlocks, GenRouteTable, RunVerify, OpenIndex,
         BuildFine, LoadPQCodes, StartDescent, Walk
  <2> QED
    BY <1>3, <2>1 DEF BfsIsRight
<1> QED
  BY <1>1, <1>2, <1>3

LEMMA OrderFollows ==
  ASSUME FilesFollow, GraphOk, BfsIsRight
  PROVE  /\ OrderIsBfs
         /\ bfs_bin # NoFile => IsGraph(Graph) /\ Plain(Graph) = Graph /\ Renumbers(bfs_bin)
<1> SUFFICES ASSUME bfs_bin # NoFile
             PROVE  /\ OrderIsBfs
                    /\ IsGraph(Graph) /\ Plain(Graph) = Graph /\ Renumbers(bfs_bin)
  BY DEF OrderIsBfs
<1>1. IsGraph(Graph) /\ Plain(Graph) = Graph /\ bfs_bin = BfsFile(Graph)
  BY DEF FilesFollow, GraphOk, BfsIsRight
<1>2. PICK g : g = Graph
  OBVIOUS
<1>3. PICK h : h = Hops(g)
  OBVIOUS
<1>4. Distances(g, h)
  BY <1>1, <1>2, <1>3, HopsAre
<1>5. /\ Renumbers(bfs_bin)
      /\ \A n \in 1 .. N - 1 : h[bfs_bin.new_to_old[n - 1]] <= h[bfs_bin.new_to_old[n]]
  BY <1>1, <1>2, <1>4, BfsFileIs
<1>6. OrderIsBfs
  BY <1>2, <1>3, <1>5 DEF OrderIsBfs, Renumbers
<1> QED
  BY <1>1, <1>5, <1>6

-----------------------------------------------------------------------------
(* Codes, and the open index.                                              *)

LEMMA MinIs ==
  ASSUME NEW S \in SUBSET Nat, S # {}
  PROVE  Min(S) \in S /\ \A m \in S : Min(S) <= m
BY LeastNumber DEF Min

\* A place in the codebook for each part of a vector.
IsCode(code) == \A m \in 1 .. Dim : code[m] \in DOMAIN Codebook[m]

LEMMA EncodeIs ==
  ASSUME NEW v \in Seq(Int), Len(v) = Dim
  PROVE  IsCode(Encode(v))
<1> SUFFICES ASSUME NEW m \in 1 .. Dim
             PROVE  Encode(v)[m] \in DOMAIN Codebook[m]
  BY DEF IsCode
<1>1. PICK book \in Seq(Int) : book = Codebook[m] /\ book # <<>>
  BY LoadedIndexAssumption
<1>2. PICK n \in Nat : n = Len(book) /\ DOMAIN book = 1 .. n
  OBVIOUS
<1>3. v[m] \in Int
  OBVIOUS
<1> DEFINE away(j) == (v[m] - book[j]) * (v[m] - book[j])
           first(c) == \A k \in 1 .. n : away(c) < away(k) \/ (away(c) = away(k) /\ c <= k)
           Lt == { p \in (1 .. n) \X (1 .. n) :
                     away(p[1]) < away(p[2]) \/ (away(p[1]) = away(p[2]) /\ p[1] < p[2]) }
<1>4. \A j \in 1 .. n : away(j) \in Int
  <2>1. \A j \in 1 .. n : book[j] \in Int
    BY <1>2
  <2>2. \A x, y \in Int : (x - y) * (x - y) \in Int
    OBVIOUS
  <2> QED
    BY <1>3, <2>1, <2>2
<1>5. Encode(v)[m] = CHOOSE c \in 1 .. n : first(c)
  BY <1>1, <1>2 DEF Encode
<1> HIDE DEF away
<1>6. \A i, j \in 1 .. n : <<i, j>> \in Lt <=> away(i) < away(j) \/ (away(i) = away(j) /\ i < j)
  OBVIOUS
<1>7. PICK c \in 1 .. n : \A j \in (1 .. n) \ {c} : <<c, j>> \in Lt
  <2>1. PICK S : S = 1 .. n
    OBVIOUS
  <2>2. IsFiniteSet(S) /\ S # {}
    <3>1. n # 0
      BY <1>1, <1>2
    <3>2. 1 \in Int /\ n \in Int
      OBVIOUS
    <3>3. IsFiniteSet(1 .. n)
      BY <3>2, FS_Interval
    <3>4. 1 \in 1 .. n
      BY <3>1
    <3> QED
      BY <2>1, <3>3, <3>4
  <2>3. Lt \in SUBSET (S \X S)
    BY <2>1
  <2>4. \A i, j \in S : i # j => <<i, j>> \in Lt \/ <<j, i>> \in Lt
    <3> HIDE DEF Lt
    <3> QED
      BY <1>4, <1>6, <2>1
  <2>5. \A i, j, k \in S : <<i, j>> \in Lt /\ <<j, k>> \in Lt => <<i, k>> \in Lt
    <3> HIDE DEF Lt
    <3>1. TAKE i, j, k \in S
    <3>2. PICK x \in Int, y \in Int, z \in Int : x = away(i) /\ y = away(j) /\ z = away(k)
      BY <1>4, <2>1
    <3>3. i \in 1 .. n /\ j \in 1 .. n /\ k \in 1 .. n
      BY <2>1
    <3>4. <<i, j>> \in Lt <=> x < y \/ (x = y /\ i < j)
      BY <1>6, <3>2, <3>3
    <3>5. <<j, k>> \in Lt <=> y < z \/ (y = z /\ j < k)
      BY <1>6, <3>2, <3>3
    <3>6. <<i, k>> \in Lt <=> x < z \/ (x = z /\ i < k)
      BY <1>6, <3>2, <3>3
    <3>7. i \in Nat /\ j \in Nat /\ k \in Nat
      BY <3>3
    <3> QED
      BY <3>4, <3>5, <3>6, <3>7
  <2>6. \E c \in S : \A j \in S \ {c} : <<c, j>> \in Lt
    <3> HIDE DEF Lt
    <3> QED
      BY <2>2, <2>3, <2>4, <2>5, FirstExists
  <2> QED
    BY <2>1, <2>6
<1>8. first(c)
  <2> HIDE DEF Lt
  <2>1. SUFFICES ASSUME NEW k \in 1 .. n
                 PROVE  away(c) < away(k) \/ (away(c) = away(k) /\ c <= k)
    OBVIOUS
  <2>2. CASE k = c
    BY <2>2
  <2>3. CASE k # c
    <3>1. <<c, k>> \in Lt
      BY <1>7, <2>3
    <3>2. c \in Nat /\ k \in Nat
      OBVIOUS
    <3> QED
      BY <1>6, <3>1, <3>2
  <2> QED
    BY <2>2, <2>3
<1> QED
  BY <1>1, <1>2, <1>5, <1>8

LEMMA PqDistanceIs ==
  ASSUME NEW q \in Seq(Int), Len(q) = Dim, NEW code, IsCode(code)
  PROVE  PqDistance(q, code) \in Int
<1>1. PICK v : v = [m \in 1 .. Dim |-> Codebook[m][code[m]]]
  OBVIOUS
<1>2. \A m \in 1 .. Dim : Codebook[m][code[m]] \in Int
  <2>1. TAKE m \in 1 .. Dim
  <2>2. PICK book \in Seq(Int) : book = Codebook[m]
    BY LoadedIndexAssumption
  <2>3. code[m] \in DOMAIN book
    BY <2>2 DEF IsCode
  <2> QED
    BY <2>2, <2>3
<1>3. v \in Seq(Int) /\ Len(v) = Dim
  <2>1. PICK d \in Nat : d = Dim
    BY NIs
  <2>2. DOMAIN v = 1 .. d /\ \A m \in 1 .. d : v[m] \in Int
    BY <1>1, <1>2, <2>1
  <2>3. v = [m \in 1 .. d |-> v[m]]
    BY <1>1, <2>1
  <2> QED
    BY <2>1, <2>2, <2>3
<1> QED
  BY <1>1, <1>3, DistanceIs DEF PqDistance

\* The codes a pipeline loads.
CodesOf(g, b) == [n \in Ids |-> Encode(g.vectors[b.new_to_old[n]])]

LEMMA CodesAre ==
  ASSUME NEW g, IsGraph(g), NEW b, Renumbers(b)
  PROVE  /\ LoadPQ([i \in Ids |-> Encode(g.vectors[i])], b) = CodesOf(g, b)
         /\ \A n \in Ids : IsCode(CodesOf(g, b)[n])
         /\ CodesOf(g, b) # NoFile
<1>1. \A n \in Ids : b.new_to_old[n] \in Ids
  BY DEF Renumbers
<1>2. LoadPQ([i \in Ids |-> Encode(g.vectors[i])], b) = CodesOf(g, b)
  BY <1>1 DEF LoadPQ, CodesOf
<1>3. \A n \in Ids : IsCode(CodesOf(g, b)[n])
  <2>1. TAKE n \in Ids
  <2>2. PICK v \in Seq(Int) : v = g.vectors[b.new_to_old[n]] /\ Len(v) = Dim
    BY <1>1 DEF IsGraph
  <2> QED
    BY <2>2, EncodeIs DEF CodesOf
<1>4. CodesOf(g, b) # NoFile
  <2>1. DOMAIN CodesOf(g, b) = Ids /\ 0 \in Ids
    BY NIs DEF CodesOf, Ids
  <2>2. DOMAIN <<>> = {}
    OBVIOUS
  <2> QED
    BY <2>1, <2>2 DEF NoFile
<1> QED
  BY <1>2, <1>3, <1>4

\* The loaded codes are those of the vectors in the graph file, by new ids.
CodesAreRight == pq_codes # NoFile => pq_codes = CodesOf(Graph, bfs_bin)

\* The open index is that of the graph file, over one of the two block files; the
\* vectors of the upper layers are there, or codes instead.
UpperOf(g) == [i \in { j \in Ids : g.levels[j] > 0 } |-> g.vectors[i]]
SlimOf(g, upper) ==
  [ num_nodes |-> N, dim |-> Dim, entry_point |-> g.entry_point, max_level |-> g.max_level,
    levels |-> g.levels, upper_vectors |-> upper, labels |-> g.labels, adjacency0 |-> <<>>,
    upper_adjacency |-> g.upper_adjacency ]

IndexIsRight ==
  index # NoFile =>
    \E upper, f, route :
      /\ index = [ graph |-> SlimOf(Graph, upper),
                   csr   |-> BuildCsr(LoadSlimAdj(graph_bin), bfs_bin),
                   cache |-> OpenCache(f, route) ]
      /\ upper = UpperOf(Graph) \/ (upper = <<>> /\ pq_codes # NoFile)
      /\ (f = blocks_bin /\ route = route_bin) \/ (f = vec_bin /\ route = vec_route)

LEMMA SlimIs ==
  ASSUME GraphOk, graph_bin # NoFile
  PROVE  /\ [LoadSlimAdj(graph_bin) EXCEPT !.adjacency0 = <<>>] = SlimOf(Graph, UpperOf(Graph))
         /\ LoadSlimAdj(graph_bin).num_nodes = N
         /\ LoadSlimAdj(graph_bin).adjacency0 = Graph.adjacency0
<1>1. PICK g : g = Graph
  OBVIOUS
<1>2. IsGraph(g) /\ Plain(g) = g /\ graph_bin = SaveGraph(g)
  BY <1>1 DEF GraphOk
<1>3. PICK s : s = LoadSlimAdj(graph_bin)
  OBVIOUS
<1>4. s = [ num_nodes |-> N, dim |-> Dim, entry_point |-> g.entry_point,
              max_level |-> g.max_level, levels |-> g.levels,
              upper_vectors |-> UpperOf(g), labels |-> g.labels, adjacency0 |-> g.adjacency0,
              upper_adjacency |-> g.upper_adjacency ]
  <2>1. Saved(graph_bin, g)
    BY <1>2, SavedParts
  <2> QED
    BY <1>2, <1>3, <2>1, LoadsSaved DEF UpperOf
<1>5. [s EXCEPT !.adjacency0 = <<>>] = SlimOf(g, UpperOf(g))
  <2>1. PICK upper : upper = UpperOf(g)
    OBVIOUS
  <2> QED
    BY <1>4, <2>1 DEF SlimOf
<1> QED
  BY <1>1, <1>3, <1>4, <1>5

LEMMA NextCodesAreRight ==
  ASSUME FilesFollow, GraphOk, BfsIsRight, CodesAreRight, [PipelineNext]_pipelineVars
  PROVE  CodesAreRight'
<1>1. CASE pq_codes' = pq_codes
  <2>1. pq_codes # NoFile => UNCHANGED <<graph_bin, bfs_bin>>
    BY FilesStay DEF FilesFollow
  <2> QED
    BY <1>1, <2>1 DEF CodesAreRight, Graph
<1>2. CASE LoadPQCodes
  <2>1. /\ pq_codes' = LoadPQ([i \in Ids |-> Encode(Graph.vectors[i])], bfs_bin)
        /\ bfs_bin # NoFile /\ UNCHANGED <<graph_bin, bfs_bin>>
    BY <1>2 DEF LoadPQCodes, FilesFollow, Graph, files
  <2>2. PICK g : g = Graph
    OBVIOUS
  <2>3. IsGraph(g) /\ Renumbers(bfs_bin)
    BY <2>1, <2>2, OrderFollows
  <2>4. pq_codes' = CodesOf(g, bfs_bin)
    BY <2>1, <2>2, <2>3, CodesAre
  <2> QED
    BY <2>1, <2>2, <2>4 DEF CodesAreRight, Graph
<1>3. CASE pq_codes' # pq_codes /\ ~LoadPQCodes
  BY <1>3 DEF PipelineNext, pipelineVars, search, Export, Extract, Prune, ReorderNodes, WriteVecOnly,
       Shuffle, ClusterReorder, WriteBlocks, WritePQBlocks, GenRouteTable, RunVerify, OpenIndex,
       BuildFine, StartDescent, Walk
<1> QED
  BY <1>1, <1>2, <1>3

LEMMA NextIndexIsRight ==
  ASSUME FilesFollow, GraphOk, BfsIsRight, CodesAreRight, IndexIsRight, [PipelineNext]_pipelineVars
  PROVE  IndexIsRight'
<1>1. CASE UNCHANGED <<index, pq_codes>>
  <2>1. index # NoFile => /\ UNCHANGED <<graph_bin, bfs_bin, vec_bin, vec_route>>
                          /\ UNCHANGED <<blocks_bin, route_bin>>
    BY FilesStay DEF FilesFollow
  <2> QED
    BY <1>1, <2>1 DEF IndexIsRight, Graph
<1>2. CASE OpenIndex
  <2>1. PICK graph, over :
          /\ graph = LoadSlimAdj(graph_bin)
          /\ over \in {<<blocks_bin, route_bin>>, <<vec_bin, vec_route>>}
          /\ index' = [ graph |-> [graph EXCEPT !.adjacency0 = <<>>],
                        csr   |-> BuildCsr(graph, bfs_bin),
                        cache |-> OpenCache(over[1], over[2]) ]
    BY <1>2 DEF OpenIndex
  <2>2. graph_bin # NoFile /\ UNCHANGED <<files, pq_codes>>
    BY <1>2 DEF OpenIndex, FilesFollow
  <2>3. PICK f, route : /\ over[1] = f /\ over[2] = route
                        /\ (f = blocks_bin /\ route = route_bin) \/ (f = vec_bin /\ route = vec_route)
    BY <2>1
  <2>4. [graph EXCEPT !.adjacency0 = <<>>] = SlimOf(Graph, UpperOf(Graph))
    BY <2>1, <2>2, SlimIs
  <2>5. index' = [ graph |-> SlimOf(Graph, UpperOf(Graph)),
                   csr   |-> BuildCsr(LoadSlimAdj(graph_bin), bfs_bin),
                   cache |-> OpenCache(f, route) ]
    BY <2>1, <2>3, <2>4
  <2> QED
    BY <2>2, <2>3, <2>5 DEF IndexIsRight, Graph, files
<1>3. CASE LoadPQCodes
  <2>1. index # NoFile /\ pq_codes = NoFile /\ UNCHANGED files
    BY <1>3 DEF LoadPQCodes
  <2>2. PICK upper, f, route :
      /\ index = [ graph |-> SlimOf(Graph, upper),
                   csr   |-> BuildCsr(LoadSlimAdj(graph_bin), bfs_bin),
                   cache |-> OpenCache(f, route) ]
      /\ upper = UpperOf(Graph)
      /\ (f = blocks_bin /\ route = route_bin) \/ (f = vec_bin /\ route = vec_route)
    BY <2>1 DEF IndexIsRight
  <2>3. pq_codes' # NoFile
    <3>1. bfs_bin # NoFile
      BY <2>1 DEF FilesFollow
    <3>2. PICK g : g = Graph
      OBVIOUS
    <3>3. IsGraph(g) /\ Renumbers(bfs_bin)
      BY <3>1, <3>2, OrderFollows
    <3>4. pq_codes' = LoadPQ([i \in Ids |-> Encode(g.vectors[i])], bfs_bin)
      BY <1>3, <3>2 DEF LoadPQCodes, Graph
    <3> QED
      BY <3>3, <3>4, CodesAre
  <2>4. PICK frees \in BOOLEAN :
          index' = IF frees THEN [index EXCEPT !.graph.upper_vectors = << >>] ELSE index
    BY <1>3 DEF LoadPQCodes
  <2>5. CASE ~frees
    BY <2>1, <2>2, <2>4, <2>5 DEF IndexIsRight, Graph, files
  <2>6. CASE frees
    <3>1. PICK csr, cache : csr = BuildCsr(LoadSlimAdj(graph_bin), bfs_bin) /\ cache = OpenCache(f, route)
      OBVIOUS
    <3>2. PICK slim : slim = SlimOf(Graph, upper)
      OBVIOUS
    <3>3. index = [graph |-> slim, csr |-> csr, cache |-> cache]
      BY <2>2, <3>1, <3>2
    <3>4. index' = [graph |-> [slim EXCEPT !.upper_vectors = << >>], csr |-> csr, cache |-> cache]
      BY <2>4, <2>6, <3>3
    <3>5. [slim EXCEPT !.upper_vectors = << >>] = SlimOf(Graph, <<>>)
      BY <3>2 DEF SlimOf
    <3>6. index' = [ graph |-> SlimOf(Graph, <<>>), csr |-> BuildCsr(LoadSlimAdj(graph_bin), bfs_bin),
                     cache |-> OpenCache(f, route) ]
      BY <3>1, <3>4, <3>5
    <3> QED
      BY <2>1, <2>2, <2>3, <3>6 DEF IndexIsRight, Graph, files
  <2> QED
    BY <2>5, <2>6
<1>4. CASE ~(UNCHANGED <<index, pq_codes>>) /\ ~OpenIndex /\ ~LoadPQCodes
  BY <1>4 DEF PipelineNext, pipelineVars, search, Export, Extract, Prune, ReorderNodes, WriteVecOnly,
       Shuffle, ClusterReorder, WriteBlocks, WritePQBlocks, GenRouteTable, RunVerify,
       BuildFine, StartDescent, Walk
<1> QED
  BY <1>1, <1>2, <1>3, <1>4

-----------------------------------------------------------------------------
(* The descent.                                                            *)

\* The nodes at which the levels of a descent end, the entry point first.
Descends(g, q, at) ==
  /\ at \in [0 .. g.max_level -> Ids] /\ at[0] = g.entry_point
  /\ \A k \in 1 .. g.max_level : at[k] = SelfTestSettle(g, q, at[k - 1], g.max_level + 1 - k)

LEMMA DescentExists ==
  ASSUME NEW g, IsGraph(g), NEW q \in Seq(Int), Len(q) = Dim
  PROVE  \E at : Descends(g, q, at) /\ SelfTestDescent(g, q) = at[g.max_level]
<1>1. PICK m \in Nat : m = g.max_level
  BY DEF IsGraph
<1>2. PICK c \in Ids : c = g.entry_point
  BY DEF IsGraph
<1> DEFINE P(x, l) == SelfTestSettle(g, q, x, l)
           Rule(f) == f = [k \in 0 .. m |-> IF k = 0 THEN c ELSE P(f[k - 1], m + 1 - k)]
           F == [k \in 1 .. m |-> [x \in Ids |-> P(x, m + 1 - k)]]
<1>3. \A k \in 1 .. m : m + 1 - k \in Nat \ {0}
  OBVIOUS
<1>4. \A x \in Ids : \A l \in Nat \ {0} : P(x, l) \in Ids
  BY SettleSteps
<1>5. SelfTestDescent(g, q) = (CHOOSE f : Rule(f))[m]
  BY <1>1, <1>2 DEF SelfTestDescent
<1> HIDE DEF P
<1>6. F \in [1 .. m -> [Ids -> Ids]]
  BY <1>3, <1>4
<1>7. PICK h \in [0 .. m -> Ids] : h[0] = c /\ \A k \in 1 .. m : h[k] = F[k][h[k - 1]]
  <2>1. \E f \in [0 .. m -> Ids] : Follows(f, m, c, F)
    <3> HIDE DEF F
    <3> QED
      BY <1>6, RecursionExists
  <2> QED
    BY <2>1 DEF Follows
<1>8. \A k \in 1 .. m : h[k] = P(h[k - 1], m + 1 - k) /\ k \in 0 .. m /\ k - 1 \in 0 .. m
  <2>1. \A k \in 1 .. m : k \in 0 .. m /\ k - 1 \in 0 .. m
    OBVIOUS
  <2> QED
    BY <1>7, <2>1
<1> HIDE DEF F
<1>9. Rule(h)
  <2>1. h = [k \in 0 .. m |-> h[k]]
    OBVIOUS
  <2>2. \A k \in 0 .. m : h[k] = IF k = 0 THEN c ELSE P(h[k - 1], m + 1 - k)
    <3>1. \A k \in 0 .. m : k # 0 => k \in 1 .. m
      OBVIOUS
    <3> QED
      BY <1>7, <1>8, <3>1
  <2> QED
    BY <2>1, <2>2
<1> DEFINE at == CHOOSE f : Rule(f)
<1>10. Rule(at)
  BY <1>9
<1>11. SelfTestDescent(g, q) = at[m]
  BY <1>5
<1> HIDE DEF at
<1>12. at[0] = c /\ \A k \in 1 .. m : at[k] = P(at[k - 1], m + 1 - k)
  <2>1. \A k \in 1 .. m : k \in 0 .. m /\ k # 0
    OBVIOUS
  <2>2. 0 \in 0 .. m
    OBVIOUS
  <2> QED
    BY <1>10, <2>1, <2>2
<1>13. \A k \in 0 .. m : at[k] \in Ids
  <2> DEFINE Ok == [k \in 0 .. m |-> Ids]
  <2>1. at[0] \in Ok[0]
    BY <1>12
  <2>2. \A k \in 1 .. m : at[k - 1] \in Ok[k - 1] => at[k] \in Ok[k]
    BY <1>3, <1>4, <1>8, <1>12
  <2>3. \A k \in 0 .. m : at[k] \in Ok[k]
    <3> HIDE DEF Ok
    <3> QED
      BY <2>1, <2>2, StepsKeep
  <2> QED
    BY <2>3
<1>14. at \in [0 .. m -> Ids]
  <2>1. at = [k \in 0 .. m |-> IF k = 0 THEN c ELSE P(at[k - 1], m + 1 - k)]
    BY <1>10
  <2>2. at = [k \in 0 .. m |-> at[k]]
    BY <2>1
  <2> QED
    BY <1>13, <2>2
<1>15. Descends(g, q, at)
  BY <1>1, <1>2, <1>12, <1>14 DEF Descends, P
<1> QED
  BY <1>1, <1>11, <1>15

\* What the rest of a descent from c on level l ends at is what the whole of it
\* ends at.
GoesOn(g, q, c, l) ==
  \A at : Descends(g, q, at) =>
    IF l = 0 THEN c = at[g.max_level]
    ELSE SelfTestSettle(g, q, c, l) = at[g.max_level - l + 1]

LEMMA DescentStarts ==
  ASSUME NEW g, IsGraph(g), NEW q
  PROVE  GoesOn(g, q, g.entry_point, g.max_level)
<1> SUFFICES ASSUME NEW at, Descends(g, q, at)
             PROVE  IF g.max_level = 0 THEN g.entry_point = at[g.max_level]
                    ELSE SelfTestSettle(g, q, g.entry_point, g.max_level)
                           = at[g.max_level - g.max_level + 1]
  BY DEF GoesOn
<1>1. PICK m \in Nat : m = g.max_level
  BY DEF IsGraph
<1>2. PICK c : c = g.entry_point
  OBVIOUS
<1>3. at[0] = c /\ \A k \in 1 .. m : at[k] = SelfTestSettle(g, q, at[k - 1], m + 1 - k)
  BY <1>1, <1>2 DEF Descends
<1>4. CASE m = 0
  BY <1>1, <1>2, <1>3, <1>4
<1>5. CASE m # 0
  <2>1. 1 \in 1 .. m /\ 1 - 1 = 0 /\ m + 1 - 1 = m /\ m - m + 1 = 1
    BY <1>5
  <2> QED
    BY <1>1, <1>2, <1>3, <1>5, <2>1
<1> QED
  BY <1>4, <1>5

LEMMA DescentWalks ==
  ASSUME NEW g, IsGraph(g), NEW q \in Seq(Int), Len(q) = Dim, NEW c \in Ids, NEW l \in Nat \ {0},
         l <= g.max_level, GoesOn(g, q, c, l)
  PROVE  /\ GoesOn(g, q, SelfTestPass(g, q, c, l), l)
         /\ SelfTestPass(g, q, c, l) = c => GoesOn(g, q, c, l - 1)
<1>1. PICK m \in Nat : m = g.max_level /\ l <= m
  BY DEF IsGraph
<1>2. GoesOn(g, q, SelfTestPass(g, q, c, l), l)
  <2>1. l # 0
    OBVIOUS
  <2> QED
    BY <2>1, SettleSteps DEF GoesOn
<1>3. ASSUME SelfTestPass(g, q, c, l) = c, NEW at, Descends(g, q, at)
      PROVE  IF l - 1 = 0 THEN c = at[m]
             ELSE SelfTestSettle(g, q, c, l - 1) = at[m - (l - 1) + 1]
  <2>1. SelfTestSettle(g, q, c, l) = at[m - l + 1]
    BY <1>1, <1>3 DEF GoesOn
  <2>2. c = at[m - l + 1]
    BY <1>3, <2>1, SettleSteps
  <2>3. CASE l = 1
    BY <2>2, <2>3
  <2>4. CASE l # 1
    <3>1. PICK k : k = m - (l - 1) + 1
      OBVIOUS
    <3>2. k \in 1 .. m /\ k - 1 = m - l + 1 /\ m + 1 - k = l - 1 /\ l - 1 # 0
      <4>1. l \in Nat /\ l > 1 /\ l <= m /\ m \in Nat
        BY <1>1, <2>4
      <4>2. k = m - l + 2
        BY <3>1, <4>1
      <4>3. k \in Nat /\ 1 <= k /\ k <= m
        BY <4>1, <4>2
      <4> QED
        BY <4>1, <4>2, <4>3
    <3>3. at[k] = SelfTestSettle(g, q, at[k - 1], m + 1 - k)
      BY <1>1, <1>3, <3>2 DEF Descends
    <3> QED
      BY <2>2, <3>1, <3>2, <3>3
  <2> QED
    BY <2>3, <2>4
<1>4. SelfTestPass(g, q, c, l) = c => GoesOn(g, q, c, l - 1)
  BY <1>1, <1>3 DEF GoesOn
<1> QED
  BY <1>2, <1>4

LEMMA DescentEndsWell ==
  ASSUME NEW g, IsGraph(g), NEW q \in Seq(Int), Len(q) = Dim, NEW c, GoesOn(g, q, c, 0)
  PROVE  c = SelfTestDescent(g, q)
BY DescentExists DEF GoesOn

\* A walk comes to one place only.
LEMMA StepIsOne ==
  ASSUME NEW g, IsGraph(g), NEW q \in Seq(Int), Len(q) = Dim, NEW c \in Ids, NEW list \in Seq(Ids),
         NEW r, StepsTo(g, q, c, list, r), NEW t, StepsTo(g, q, c, list, t)
  PROVE  r = t
<1>1. PICK n \in Nat : n = Len(list) /\ DOMAIN list = 1 .. n
  OBVIOUS
<1> DEFINE far(x) == Toward(g, q, x)
<1>2. \A i \in 1 .. n : list[i] \in Ids /\ far(list[i]) \in Int
  BY <1>1, TowardIs
<1>3. far(c) \in Int
  BY TowardIs
<1>4. \/ r = c /\ \A i \in 1 .. n : ~(far(list[i]) < far(c))
      \/ \E i \in 1 .. n :
           /\ r = list[i] /\ far(r) < far(c)
           /\ \A j \in 1 .. n : far(r) <= far(list[j]) /\ (j < i => far(r) < far(list[j]))
  BY <1>1 DEF StepsTo
<1>5. \/ t = c /\ \A i \in 1 .. n : ~(far(list[i]) < far(c))
      \/ \E i \in 1 .. n :
           /\ t = list[i] /\ far(t) < far(c)
           /\ \A j \in 1 .. n : far(t) <= far(list[j]) /\ (j < i => far(t) < far(list[j]))
  BY <1>1 DEF StepsTo
<1> HIDE DEF far
<1>6. CASE \A i \in 1 .. n : ~(far(list[i]) < far(c))
  BY <1>4, <1>5, <1>6
<1>7. CASE ~(\A i \in 1 .. n : ~(far(list[i]) < far(c)))
  <2>1. PICK i \in 1 .. n :
           /\ r = list[i] /\ far(r) < far(c)
           /\ \A j \in 1 .. n : far(r) <= far(list[j]) /\ (j < i => far(r) < far(list[j]))
    BY <1>4, <1>7
  <2>2. PICK k \in 1 .. n :
           /\ t = list[k] /\ far(t) < far(c)
           /\ \A j \in 1 .. n : far(t) <= far(list[j]) /\ (j < k => far(t) < far(list[j]))
    BY <1>5, <1>7
  <2>3. PICK x \in Int, y \in Int : x = far(list[i]) /\ y = far(list[k])
    BY <1>2
  <2>4. x <= y /\ y <= x /\ (k < i => x < y) /\ (i < k => y < x)
    BY <2>1, <2>2, <2>3
  <2>5. i \in Nat /\ k \in Nat
    BY <2>1, <2>2
  <2>6. i = k
    BY <2>4, <2>5, <2>3
  <2> QED
    BY <2>1, <2>2, <2>6
<1> QED
  BY <1>6, <1>7

\* Among the places of P there is a first of those with the least value.
LEMMA FirstOfLeast ==
  ASSUME NEW n \in Nat, NEW P, P \subseteq 1 .. n, P # {}, NEW f \in [1 .. n -> Int],
         NEW S, S = { i \in P : \A j \in P : f[i] <= f[j] }
  PROVE  /\ Min(S) \in P
         /\ \A j \in P : f[Min(S)] <= f[j] /\ (j < Min(S) => f[Min(S)] < f[j])
<1> DEFINE Lt == { p \in P \X P : f[p[1]] < f[p[2]] \/ (f[p[1]] = f[p[2]] /\ p[1] < p[2]) }
<1>1. \A i, j \in P : <<i, j>> \in Lt <=> f[i] < f[j] \/ (f[i] = f[j] /\ i < j)
  OBVIOUS
<1>2. \A i \in P : i \in 1 .. n /\ i \in Nat /\ f[i] \in Int
  OBVIOUS
<1>3. IsFiniteSet(P)
  <2>1. IsFiniteSet(1 .. n)
    <3>1. 1 \in Int /\ n \in Int
      OBVIOUS
    <3> QED
      BY <3>1, FS_Interval
  <2> QED
    BY <2>1, FS_Subset
<1>4. Lt \in SUBSET (P \X P)
  OBVIOUS
<1> HIDE DEF Lt
<1>5. \A i, j \in P : i # j => <<i, j>> \in Lt \/ <<j, i>> \in Lt
  <2>1. TAKE i, j \in P
  <2>2. PICK x \in Int, y \in Int : x = f[i] /\ y = f[j]
    BY <1>2
  <2>3. <<i, j>> \in Lt <=> x < y \/ (x = y /\ i < j)
    BY <1>1, <2>2
  <2>4. <<j, i>> \in Lt <=> y < x \/ (y = x /\ j < i)
    BY <1>1, <2>2
  <2>5. i \in Nat /\ j \in Nat
    BY <1>2
  <2> QED
    BY <2>3, <2>4, <2>5
<1>6. \A i, j, k \in P : <<i, j>> \in Lt /\ <<j, k>> \in Lt => <<i, k>> \in Lt
  <2>1. TAKE i, j, k \in P
  <2>2. PICK x \in Int, y \in Int, z \in Int : x = f[i] /\ y = f[j] /\ z = f[k]
    BY <1>2
  <2>3. <<i, j>> \in Lt <=> x < y \/ (x = y /\ i < j)
    BY <1>1, <2>2
  <2>4. <<j, k>> \in Lt <=> y < z \/ (y = z /\ j < k)
    BY <1>1, <2>2
  <2>5. <<i, k>> \in Lt <=> x < z \/ (x = z /\ i < k)
    BY <1>1, <2>2
  <2>6. i \in Nat /\ j \in Nat /\ k \in Nat
    BY <1>2
  <2> QED
    BY <2>3, <2>4, <2>5, <2>6
<1>7. PICK c \in P : \A j \in P \ {c} : <<c, j>> \in Lt
  BY <1>3, <1>4, <1>5, <1>6, FirstExists
<1>8. \A j \in P : f[c] <= f[j]
  <2>1. TAKE j \in P
  <2>2. CASE j = c
    BY <1>2, <2>2
  <2>3. CASE j # c
    <3>1. f[c] < f[j] \/ f[c] = f[j]
      BY <1>1, <1>7, <2>3
    <3> QED
      BY <1>2, <3>1
  <2> QED
    BY <2>2, <2>3
<1>9. c \in S /\ S \in SUBSET Nat
  BY <1>2, <1>8
<1>10. PICK m : m = Min(S)
  OBVIOUS
<1>11. m \in S
  BY <1>9, <1>10, MinIs
<1>12. m \in P /\ \A j \in P : f[m] <= f[j]
  BY <1>11
<1>13. ASSUME NEW j \in P, j < m
       PROVE  f[m] < f[j]
  <2>1. CASE f[m] = f[j]
    <3>1. j \in S
      BY <1>12, <2>1
    <3>2. m <= j
      BY <1>9, <1>10, <3>1, MinIs
    <3> QED
      BY <1>2, <1>12, <1>13, <3>2
  <2>2. CASE f[m] # f[j]
    BY <1>2, <1>12, <2>2
  <2> QED
    BY <2>1, <2>2
<1> QED
  BY <1>10, <1>12, <1>13

\* The descent under way.
QueryIsRight ==
  query # NoFile =>
    /\ query \in Queries /\ currObj \in Ids /\ level \in Nat
    /\ level <= Graph.max_level /\ level <= Graph.levels[currObj]
    /\ index.graph.upper_vectors # <<>> => GoesOn(Graph, query, currObj, level)

\* What the loop has before it: the node's list, and a distance to every node of it.
LEMMA LooksAt ==
  ASSUME FilesFollow, GraphOk, BfsIsRight, CodesAreRight, IndexIsRight, QueryIsRight,
         query # NoFile, level > 0
  PROVE  /\ Looked = UpperList(Graph, currObj, level)
         /\ Looked \in Seq(Ids) /\ \A i \in 1 .. Len(Looked) : Graph.levels[Looked[i]] >= level
         /\ \A n \in Ids : Graph.levels[n] > 0 =>
              /\ Far(n) \in Int
              /\ index.graph.upper_vectors # <<>> =>
                   /\ n \in DOMAIN index.graph.upper_vectors
                   /\ Far(n) = Toward(Graph, query, n)
         /\ index.graph.upper_vectors = <<>> => pq_codes # NoFile
<1>1. PICK g : g = Graph
  OBVIOUS
<1>2. PICK l \in Nat \ {0} : l = level
  BY DEF QueryIsRight
<1>3. PICK c \in Ids : c = currObj
  BY DEF QueryIsRight
<1>4. bfs_bin # NoFile /\ index # NoFile /\ graph_bin # NoFile
  BY DEF FilesFollow
<1>5. IsGraph(g) /\ Renumbers(bfs_bin)
  BY <1>1, <1>4, OrderFollows
<1>6. PICK upper : /\ index.graph = SlimOf(g, upper)
                   /\ upper = UpperOf(g) \/ (upper = <<>> /\ pq_codes # NoFile)
  <2>1. PICK upper, f, route :
      /\ index = [ graph |-> SlimOf(Graph, upper),
                   csr   |-> BuildCsr(LoadSlimAdj(graph_bin), bfs_bin),
                   cache |-> OpenCache(f, route) ]
      /\ upper = UpperOf(Graph) \/ (upper = <<>> /\ pq_codes # NoFile)
    BY <1>4 DEF IndexIsRight
  <2>2. PICK csr, cache : csr = BuildCsr(LoadSlimAdj(graph_bin), bfs_bin) /\ cache = OpenCache(f, route)
    OBVIOUS
  <2>3. index = [graph |-> SlimOf(g, upper), csr |-> csr, cache |-> cache]
    BY <1>1, <2>1, <2>2
  <2>4. index.graph = SlimOf(g, upper)
    BY <2>3
  <2> QED
    BY <1>1, <2>1, <2>4
<1>7. /\ index.graph.levels = g.levels /\ index.graph.upper_adjacency = g.upper_adjacency
      /\ index.graph.num_nodes = N /\ index.graph.upper_vectors = upper
  BY <1>6 DEF SlimOf
<1>8. Nodes(index.graph) = Ids
  BY <1>7 DEF Nodes, Ids
<1>9. Looked = UpperList(g, c, l)
  <2>1. CASE g.levels[c] < l
    BY <1>2, <1>3, <1>7, <2>1 DEF Looked, UpperList
  <2>2. CASE ~(g.levels[c] < l)
    <3>1. PICK s \in Seq(Ids) : s = UpperList(g, c, l)
      BY <1>5, UpperListIs
    <3>2. s = g.upper_adjacency[c][l]
      BY <2>2, <3>1 DEF UpperList
    <3>3. ToSet(s) \subseteq Ids
      BY DEF ToSet
    <3>4. Only(s, Ids) = s
      BY <3>3, OnlyIs
    <3>5. Looked = Only(s, Ids)
      BY <1>2, <1>3, <1>7, <1>8, <2>2, <3>2 DEF Looked
    <3> QED
      BY <3>1, <3>4, <3>5
  <2> QED
    BY <2>1, <2>2
<1>10. Looked \in Seq(Ids) /\ \A i \in 1 .. Len(Looked) : g.levels[Looked[i]] >= l
  BY <1>5, <1>9, UpperListIs
<1>11. PICK q \in Seq(Int) : q = query /\ Len(q) = Dim
  BY PipelineAssumption DEF QueryIsRight
<1>12. ASSUME upper # <<>>, NEW n \in Ids, g.levels[n] > 0
       PROVE  /\ n \in DOMAIN upper /\ Far(n) = Toward(g, query, n) /\ Far(n) \in Int
  <2>1. upper = UpperOf(g)
    BY <1>6, <1>12
  <2>2. n \in DOMAIN upper /\ upper[n] = g.vectors[n]
    BY <1>12, <2>1 DEF UpperOf
  <2>3. Far(n) = Toward(g, q, n)
    BY <1>7, <1>11, <1>12, <2>2 DEF Far, Toward
  <2> QED
    BY <1>5, <1>11, <2>2, <2>3, TowardIs
<1>13. upper = <<>> => pq_codes # NoFile
  <2>1. g.levels[c] > 0
    <3>1. g.levels[c] \in Nat /\ l <= g.levels[c]
      BY <1>1, <1>2, <1>3, <1>5 DEF IsGraph, QueryIsRight
    <3> QED
      BY <3>1
  <2>2. c \in DOMAIN UpperOf(g)
    BY <2>1 DEF UpperOf
  <2>3. DOMAIN <<>> = {}
    OBVIOUS
  <2> QED
    BY <1>6, <2>2, <2>3
<1>14. ASSUME upper = <<>>, NEW n \in Ids
       PROVE  Far(n) \in Int
  <2>1. pq_codes = CodesOf(g, bfs_bin)
    BY <1>1, <1>13, <1>14 DEF CodesAreRight
  <2>2. PICK k \in Ids : k = bfs_bin.old_to_new[n]
    BY <1>5 DEF Renumbers
  <2>3. PICK code : code = pq_codes[k] /\ IsCode(code)
    BY <1>5, <2>1, CodesAre
  <2>4. Far(n) = PqDistance(q, code)
    BY <1>7, <1>11, <1>14, <2>2, <2>3 DEF Far
  <2> QED
    BY <1>11, <2>3, <2>4, PqDistanceIs
<1> QED
  BY <1>1, <1>2, <1>3, <1>7, <1>9, <1>10, <1>12, <1>13, <1>14

\* A pass of the loop keeps the descent on its way.
LEMMA WalkKeeps ==
  ASSUME FilesFollow, GraphOk, BfsIsRight, CodesAreRight, IndexIsRight, QueryIsRight, Walk
  PROVE  QueryIsRight'
<1>1. PICK g : g = Graph
  OBVIOUS
<1>2. PICK l \in Nat \ {0} : l = level
  BY DEF QueryIsRight, Walk
<1>3. PICK c \in Ids : c = currObj
  BY DEF QueryIsRight, Walk
<1>4. query # NoFile /\ level > 0
  BY DEF Walk
<1>5. graph_bin # NoFile
  BY <1>4 DEF FilesFollow
<1>6. IsGraph(g)
  BY <1>1, <1>5 DEF GraphOk
<1>7. PICK q \in Seq(Int) : q = query /\ Len(q) = Dim
  BY <1>4, PipelineAssumption DEF QueryIsRight
<1>8. query \in Queries /\ l <= g.max_level /\ l <= g.levels[c]
  BY <1>1, <1>2, <1>3, <1>4 DEF QueryIsRight
<1>9. g.levels[c] \in Nat /\ g.max_level \in Nat
  BY <1>6 DEF IsGraph
<1>10. /\ Looked = UpperList(g, c, l)
       /\ Looked \in Seq(Ids) /\ \A i \in 1 .. Len(Looked) : g.levels[Looked[i]] >= l
       /\ \A n \in Ids : g.levels[n] > 0 =>
              /\ Far(n) \in Int
              /\ index.graph.upper_vectors # <<>> => Far(n) = Toward(g, q, n)
  BY <1>1, <1>2, <1>3, <1>4, <1>7, LooksAt
<1>11. PICK list \in Seq(Ids) : list = Looked
  BY <1>10
<1>12. PICK n \in Nat : n = Len(list) /\ DOMAIN list = 1 .. n
  OBVIOUS
<1>13. \A i \in 1 .. n : list[i] \in Ids /\ g.levels[list[i]] >= l /\ g.levels[list[i]] > 0
  <2>1. TAKE i \in 1 .. n
  <2>2. list[i] \in Ids
    BY <1>12
  <2>3. g.levels[list[i]] \in Nat /\ g.levels[list[i]] >= l
    BY <1>6, <1>10, <1>11, <1>12, <2>2 DEF IsGraph
  <2> QED
    BY <2>2, <2>3
<1>14. PICK f \in [1 .. n -> Int] : \A i \in 1 .. n : f[i] = Far(list[i])
  <2> DEFINE f == [i \in 1 .. n |-> Far(list[i])]
  <2>1. f \in [1 .. n -> Int]
    BY <1>10, <1>13
  <2> QED
    BY <2>1
<1>15. PICK d \in Int : d = Far(c)
  BY <1>8, <1>9, <1>10
<1>16. PICK P : P = { i \in 1 .. n : f[i] < d }
  OBVIOUS
<1>17. Ahead = P
  BY <1>3, <1>11, <1>12, <1>14, <1>15, <1>16 DEF Ahead
<1>18. PICK S : S = { i \in P : \A j \in P : f[i] <= f[j] }
  OBVIOUS
<1>19. IF P = {} THEN level' = level - 1 /\ currObj' = currObj
       ELSE currObj' = list[Min(S)] /\ level' = level
  <2>1. { i \in P : \A j \in P : Far(Looked[i]) <= Far(Looked[j]) } = S
    BY <1>11, <1>14, <1>16, <1>18
  <2> QED
    BY <1>11, <1>17, <2>1 DEF Walk
<1>20. UNCHANGED <<graph_bin, query, index>>
  BY DEF Walk, files
<1>21. index.graph.upper_vectors # <<>> => GoesOn(g, q, c, l)
  BY <1>1, <1>2, <1>3, <1>4, <1>7 DEF QueryIsRight
<1>22. StepsTo(g, q, c, list, SelfTestPass(g, q, c, l))
  BY <1>6, <1>7, <1>10, <1>11, PassIs
<1>23. CASE P = {}
  <2>1. level' = l - 1 /\ currObj' = c
    BY <1>2, <1>3, <1>19, <1>23
  <2>2. ASSUME index.graph.upper_vectors # <<>>
        PROVE  GoesOn(g, q, c, l - 1)
    <3>1. \A i \in 1 .. n : f[i] = Toward(g, q, list[i])
      BY <1>10, <1>13, <1>14, <2>2
    <3>2. d = Toward(g, q, c)
      BY <1>8, <1>9, <1>10, <1>15, <2>2
    <3>3. \A i \in 1 .. n : ~(Toward(g, q, list[i]) < Toward(g, q, c))
      BY <1>16, <1>23, <3>1, <3>2
    <3>4. StepsTo(g, q, c, list, c)
      BY <1>12, <3>3 DEF StepsTo
    <3>5. SelfTestPass(g, q, c, l) = c
      BY <1>6, <1>7, <1>22, <3>4, StepIsOne
    <3> QED
      BY <1>6, <1>7, <1>8, <1>21, <2>2, <3>5, DescentWalks
  <2>3. l - 1 \in Nat /\ l - 1 <= g.max_level /\ l - 1 <= g.levels[c]
    BY <1>8, <1>9
  <2> QED
    BY <1>1, <1>3, <1>7, <1>8, <1>20, <2>1, <2>2, <2>3 DEF QueryIsRight, Graph
<1>24. CASE P # {}
  <2>1. PICK m : m = Min(S)
    OBVIOUS
  <2>2. m \in P /\ \A j \in P : f[m] <= f[j] /\ (j < m => f[m] < f[j])
    <3>1. P \subseteq 1 .. n
      BY <1>16
    <3> QED
      BY <1>18, <1>24, <2>1, <3>1, FirstOfLeast
  <2>3. m \in 1 .. n /\ f[m] < d /\ m \in Nat
    BY <1>16, <2>2
  <2>4. PICK r : r = list[m]
    OBVIOUS
  <2>5. level' = l /\ currObj' = r
    BY <1>2, <1>19, <1>24, <2>1, <2>4
  <2>6. r \in Ids /\ g.levels[r] >= l /\ g.levels[r] \in Nat
    BY <1>6, <1>13, <2>3, <2>4 DEF IsGraph
  <2>7. ASSUME index.graph.upper_vectors # <<>>
        PROVE  GoesOn(g, q, r, l)
    <3>1. \A i \in 1 .. n : f[i] = Toward(g, q, list[i])
      BY <1>10, <1>13, <1>14, <2>7
    <3>2. d = Toward(g, q, c)
      BY <1>8, <1>9, <1>10, <1>15, <2>7
    <3>3. \A j \in 1 .. n : f[m] <= f[j] /\ (j < m => f[m] < f[j])
      <4>1. TAKE j \in 1 .. n
      <4>2. CASE j \in P
        BY <2>2, <4>2
      <4>3. CASE j \notin P
        <5>1. ~(f[j] < d) /\ f[j] \in Int /\ f[m] \in Int
          BY <1>16, <2>3, <4>3
        <5> QED
          BY <2>3, <5>1
      <4> QED
        BY <4>2, <4>3
    <3>4. StepsTo(g, q, c, list, r)
      <4>1. Toward(g, q, r) = f[m]
        BY <2>3, <2>4, <3>1
      <4>2. /\ r = list[m] /\ Toward(g, q, r) < Toward(g, q, c)
            /\ \A j \in 1 .. n : /\ Toward(g, q, r) <= Toward(g, q, list[j])
                                 /\ j < m => Toward(g, q, r) < Toward(g, q, list[j])
        BY <2>3, <2>4, <3>1, <3>2, <3>3, <4>1
      <4> QED
        BY <1>12, <2>3, <4>2 DEF StepsTo
    <3>5. SelfTestPass(g, q, c, l) = r
      BY <1>6, <1>7, <1>22, <3>4, StepIsOne
    <3> QED
      BY <1>6, <1>7, <1>8, <1>21, <2>7, <3>5, DescentWalks
  <2>8. l \in Nat /\ l <= g.levels[r]
    BY <2>6
  <2> QED
    BY <1>1, <1>7, <1>8, <1>20, <2>5, <2>6, <2>7, <2>8 DEF QueryIsRight, Graph
<1> QED
  BY <1>23, <1>24

LEMMA NextQueryIsRight ==
  ASSUME FilesFollow, GraphOk, BfsIsRight, CodesAreRight, IndexIsRight, QueryIsRight,
         [PipelineNext]_pipelineVars
  PROVE  QueryIsRight'
<1>1. CASE UNCHANGED <<query, currObj, level, index>>
  <2>1. query # NoFile => UNCHANGED graph_bin
    BY FilesStay DEF FilesFollow
  <2> QED
    BY <1>1, <2>1 DEF QueryIsRight, Graph
<1>2. CASE StartDescent
  <2>1. PICK g : g = Graph
    OBVIOUS
  <2>2. index # NoFile /\ graph_bin # NoFile /\ UNCHANGED <<index, graph_bin>>
    BY <1>2 DEF StartDescent, FilesFollow, files
  <2>3. IsGraph(g)
    BY <2>1, <2>2 DEF GraphOk
  <2>4. index.graph.entry_point = g.entry_point /\ index.graph.max_level = g.max_level
    <3>1. PICK upper, f, route :
        /\ index = [ graph |-> SlimOf(Graph, upper),
                     csr   |-> BuildCsr(LoadSlimAdj(graph_bin), bfs_bin),
                     cache |-> OpenCache(f, route) ]
      BY <2>2 DEF IndexIsRight
    <3>2. PICK csr, cache : csr = BuildCsr(LoadSlimAdj(graph_bin), bfs_bin) /\ cache = OpenCache(f, route)
      OBVIOUS
    <3>3. index = [graph |-> SlimOf(g, upper), csr |-> csr, cache |-> cache]
      BY <2>1, <3>1, <3>2
    <3>4. index.graph = SlimOf(g, upper)
      BY <3>3
    <3> QED
      BY <3>4 DEF SlimOf
  <2>5. query' \in Queries /\ currObj' = g.entry_point /\ level' = g.max_level
    BY <1>2, <2>4 DEF StartDescent
  <2>6. /\ g.entry_point \in Ids /\ g.max_level = g.levels[g.entry_point]
        /\ g.max_level \in Nat /\ g.max_level <= g.max_level
    BY <2>3 DEF IsGraph
  <2>7. GoesOn(g, query', g.entry_point, g.max_level)
    BY <2>3, DescentStarts
  <2> QED
    BY <2>1, <2>2, <2>5, <2>6, <2>7 DEF QueryIsRight, Graph
<1>3. CASE Walk
  BY <1>3, WalkKeeps
<1>4. CASE OpenIndex \/ LoadPQCodes
  <2>1. query = NoFile /\ query' = query
    BY <1>4 DEF OpenIndex, LoadPQCodes, FilesFollow
  <2> QED
    BY <2>1 DEF QueryIsRight
<1>5. CASE ~UNCHANGED <<query, currObj, level, index>> /\ ~StartDescent /\ ~Walk /\ ~OpenIndex /\ ~LoadPQCodes
  BY <1>5 DEF PipelineNext, pipelineVars, search, Export, Extract, Prune, ReorderNodes, WriteVecOnly,
       Shuffle, ClusterReorder, WriteBlocks, WritePQBlocks, GenRouteTable, RunVerify, BuildFine
<1> QED
  BY <1>1, <1>2, <1>3, <1>4, <1>5

\* All that the steps of a pipeline keep.
PipelineIsRight ==
  /\ GraphFileInv /\ FilesFollow /\ BfsIsRight
  /\ CodesAreRight /\ IndexIsRight /\ QueryIsRight

LEMMA InitPipelineIsRight == PipelineInit => PipelineIsRight
BY InitGraphFile, InitFollows
   DEF PipelineIsRight, PipelineInit, BfsIsRight, CodesAreRight, IndexIsRight, QueryIsRight

LEMMA NextPipelineIsRight == PipelineIsRight /\ [PipelineNext]_pipelineVars => PipelineIsRight'
<1> SUFFICES ASSUME PipelineIsRight, [PipelineNext]_pipelineVars
             PROVE  PipelineIsRight'
  OBVIOUS
<1>1. GraphFileInv /\ GraphOk /\ FilesFollow /\ BfsIsRight /\ CodesAreRight /\ IndexIsRight /\ QueryIsRight
  BY DEF PipelineIsRight, GraphFileInv
<1>2. GraphFileInv'
  BY <1>1, NextGraphFile
<1>3. FilesFollow' /\ BfsIsRight' /\ CodesAreRight' /\ IndexIsRight' /\ QueryIsRight'
  BY <1>1, NextFollows, NextBfsIsRight, NextCodesAreRight, NextIndexIsRight, NextQueryIsRight
<1> QED
  BY <1>2, <1>3 DEF PipelineIsRight

\* The descent of an open index has the vectors or the codes of whatever it looks
\* at, and with exact vectors it ends where the builder's self-test ends.
LEMMA DescendsRight == PipelineIsRight => DescentIsRight
<1> SUFFICES ASSUME PipelineIsRight
             PROVE  DescentReadsLoaded /\ DescentAgreesWithSelfTest
  BY DEF DescentIsRight
<1>1. GraphOk /\ FilesFollow /\ BfsIsRight /\ CodesAreRight /\ IndexIsRight /\ QueryIsRight
  BY DEF PipelineIsRight, GraphFileInv
<1>2. DescentReadsLoaded
  <2> SUFFICES ASSUME query # NoFile, level > 0, index.graph.upper_vectors # <<>>
               PROVE  {currObj} \cup ToSet(Looked) \subseteq DOMAIN index.graph.upper_vectors
    BY <1>1, LooksAt DEF DescentReadsLoaded
  <2>1. PICK g : g = Graph
    OBVIOUS
  <2>2. PICK dom : dom = DOMAIN index.graph.upper_vectors
    OBVIOUS
  <2>3. PICK list \in Seq(Ids) : list = Looked
    BY <1>1, LooksAt
  <2>4. \A n \in Ids : g.levels[n] > 0 => n \in dom
    BY <1>1, <2>1, <2>2, LooksAt
  <2>5. \A i \in 1 .. Len(list) : g.levels[list[i]] >= level
    BY <1>1, <2>1, <2>3, LooksAt
  <2>6. IsGraph(g)
    BY <1>1, <2>1 DEF GraphOk, FilesFollow
  <2>7. \A n \in Ids : g.levels[n] \in Nat
    BY <2>6 DEF IsGraph
  <2>8. currObj \in dom
    BY <1>1, <2>1, <2>4, <2>7 DEF QueryIsRight
  <2>9. level \in Nat
    BY <1>1 DEF QueryIsRight
  <2>10. ToSet(list) \subseteq dom
    BY <2>4, <2>5, <2>7, <2>9 DEF ToSet
  <2> QED
    BY <2>2, <2>3, <2>8, <2>10
<1>3. DescentAgreesWithSelfTest
  <2> SUFFICES ASSUME query # NoFile, level = 0, index.graph.upper_vectors # <<>>
               PROVE  currObj = SelfTestDescent(Graph, query)
    BY DEF DescentAgreesWithSelfTest
  <2>1. PICK g : g = Graph /\ IsGraph(g)
    BY <1>1 DEF GraphOk, FilesFollow
  <2>2. PICK q \in Seq(Int) : q = query /\ Len(q) = Dim
    BY <1>1, PipelineAssumption DEF QueryIsRight
  <2>3. GoesOn(g, q, currObj, 0)
    BY <1>1, <2>1, <2>2 DEF QueryIsRight
  <2> QED
    BY <2>1, <2>2, <2>3, DescentEndsWell
<1> QED
  BY <1>2, <1>3

\* disk_hnsw.cpp and build_index.cpp, for any graph: a descent over the slim graph
\* finds loaded what it looks at, and enters the base layer where the builder's
\* self-test does.
THEOREM DescentGoesRight == PipelineSpec => []DescentIsRight
<1>1. PipelineIsRight /\ [PipelineNext]_pipelineVars => PipelineIsRight'
  BY NextPipelineIsRight
<1> QED
  BY <1>1, InitPipelineIsRight, DescendsRight, PTL DEF PipelineSpec

\* bfs_reorder, for any graph: the two arrays are inverse to each other, and new ids
\* grow with the distance from the entry point.
THEOREM OrderStaysBfs == PipelineSpec => []OrderIsBfs
<1>1. PipelineIsRight => OrderIsBfs
  BY OrderFollows DEF PipelineIsRight, GraphFileInv
<1> QED
  BY <1>1, InitPipelineIsRight, NextPipelineIsRight, PTL DEF PipelineSpec

=============================================================================
