--------------------------- MODULE GraphPrefetcher ---------------------------
(***************************************************************************)
(* The graph-guided prefetcher (include/graph_prefetcher.h and             *)
(* src/core/graph_prefetcher.cpp): search threads hand it the blocks they  *)
(* are about to need, it reads them with io_uring, and whoever reaps a     *)
(* completion inserts the block into the cache.                            *)
(*                                                                         *)
(* The cache is the one BoundedCache specifies, which BlockCache           *)
(* implements.  A stretch of code under GraphPrefetcher::mutex_ is one     *)
(* action, except the loop of submitPrefetch: it holds the mutex for one   *)
(* step per block, while the kernel and threads that use the cache without *)
(* the prefetcher go on.  waitCompletion is called without the mutex.      *)
(***************************************************************************)
EXTENDS IoUring

CONSTANTS
  Threads,     \* the search threads
  CacheSlots,  \* the capacity of the cache
  AutoModes,   \* values of submitPrefetch's auto_submit
  NOBODY       \* mutex_ is free

ASSUME PrefetcherAssumption ==
  /\ CacheSlots \in Nat
  /\ AutoModes \subseteq BOOLEAN
  /\ NOBODY \notin Threads

VARIABLES
  cache_map,  \* the blocks in the cache
  pending,    \* pending_requests_: block -> buffer, as a set of reads
  mutex,      \* who holds mutex_ in submitPrefetch
  pc,         \* where each thread is
  op,         \* which of the waiting operations it runs
  want,       \* the blocks it has yet to submit, or waits for
  queued,     \* submitPrefetch: has it queued a read?
  auto        \* submitPrefetch: auto_submit

vars == <<ring, cache_map, pending, mutex, pc, op, want, queued, auto>>
local == <<op, want, queued, auto>>

Cache == INSTANCE BoundedCache

PendingBlocks == { r.block : r \in pending }

-----------------------------------------------------------------------------
(* Reaping.                                                                *)

\* The pending reads some completion belongs to, found by block id.
Finished == { r \in pending : \E c \in DOMAIN cq : c.block = r.block }

\* Mutant: the buffer of a failed read is not given back.
MutFreedBuffers ==
  { r.buf : r \in { x \in Finished :
                      \E c \in DOMAIN cq : c.block = x.block /\ cq[c] = "full" } }

FreedBuffers == { r.buf : r \in Finished }

\* The blocks insertBlocksBatch gets to insert.
Arrived ==
  { c.block : c \in { x \in DOMAIN cq :
                        cq[x] = "full" /\ x.block \in PendingBlocks } }

SlotsInUse == IF CacheSlots = 0 THEN 1 ELSE CacheSlots

\* What the cache may hold after a batch S went in, each block in the place of
\* any other once the cache is full: as much as fits, the last one for sure.
AfterBatch(S) ==
  { D \in SUBSET (cache_map \cup S) :
      /\ \/ Cardinality(D) = SlotsInUse
         \/ Cardinality(D) < SlotsInUse /\ D = cache_map \cup S
      /\ S # {} => D \cap S # {} }

\* Mutant: reaping leaves the requests in pending_requests_.
MutReapKeepsPending ==
  /\ pending' = pending
  /\ cq' = [r \in {} |-> "full"]
  /\ inflight' = inflight - Cardinality(DOMAIN cq)
  /\ cache_map' \in AfterBatch(Arrived)

\* Mutant: inflight_ counts only what was read in full.
MutReapCountsFull ==
  /\ pending' = pending \ Finished
  /\ cq' = [r \in {} |-> "full"]
  /\ inflight' = inflight - Cardinality({ c \in DOMAIN cq : cq[c] = "full" })
  /\ cache_map' \in AfterBatch(Arrived)

\* reapCompletionsUnlocked but for the buffers it gives back.
ReapedAll ==
  /\ pending' = pending \ Finished
  /\ cq' = [r \in {} |-> "full"]
  /\ inflight' = inflight - Cardinality(DOMAIN cq)
  /\ cache_map' \in AfterBatch(Arrived)

Reap ==
  /\ ReapedAll
  /\ free' = free \cup FreedBuffers
  /\ UNCHANGED <<sq, kernel>>

-----------------------------------------------------------------------------
(* submitPrefetch.                                                         *)

\* It takes the mutex and asks the cache once which of the blocks are missing.
StartSubmit(t, S, a) ==
  /\ pc[t] = "idle" /\ mutex = NOBODY
  /\ mutex' = t
  /\ pc' = [pc EXCEPT ![t] = "submit"]
  /\ want' = [want EXCEPT ![t] = S \ cache_map]
  /\ queued' = [queued EXCEPT ![t] = FALSE]
  /\ auto' = [auto EXCEPT ![t] = a]
  /\ UNCHANGED <<ring, cache_map, pending, op>>

\* The operation is over, and its locals with it.
Return(t) ==
  /\ pc' = [pc EXCEPT ![t] = "idle"]
  /\ op' = [op EXCEPT ![t] = "blocks"]
  /\ want' = [want EXCEPT ![t] = {}]
  /\ queued' = [queued EXCEPT ![t] = FALSE]
  /\ auto' = [auto EXCEPT ![t] = FALSE]

Submitting(t, b) ==
  /\ pc[t] = "submit"
  /\ b \in want[t]
  /\ want' = [want EXCEPT ![t] = @ \ {b}]
  /\ UNCHANGED <<mutex, pc, op, auto>>

SubmitSkip(t, b) ==
  /\ Submitting(t, b)
  /\ b \in PendingBlocks
  /\ UNCHANGED <<ring, cache_map, pending, queued>>

\* Mutant: a block that is already being read is read again.
MutSubmitTwice(t, b) ==
  /\ Submitting(t, b)
  /\ \E buf \in free :
       LET r == [block |-> b, buf |-> buf]
       IN  /\ sq' \in Queued(r)
           /\ pending' = { x \in pending : x.block # b } \cup {r}
           /\ free' = free \ {buf}
  /\ inflight' = inflight + 1
  /\ queued' = [queued EXCEPT ![t] = TRUE]
  /\ UNCHANGED <<kernel, cq, cache_map>>

\* A buffer is free: the read is queued.
SubmitRead(t, b) ==
  /\ Submitting(t, b)
  /\ b \notin PendingBlocks
  /\ \E buf \in free :
       LET r == [block |-> b, buf |-> buf]
       IN  /\ sq' \in Queued(r)
           /\ pending' = { x \in pending : x.block # b } \cup {r}
           /\ free' = free \ {buf}
  /\ inflight' = inflight + 1
  /\ queued' = [queued EXCEPT ![t] = TRUE]
  /\ UNCHANGED <<kernel, cq, cache_map>>

\* None is: completions are reaped first, and the read takes one of theirs.
SubmitReapRead(t, b) ==
  /\ Submitting(t, b)
  /\ b \notin PendingBlocks
  /\ free = {}
  /\ cache_map' \in AfterBatch(Arrived)
  /\ cq' = [r \in {} |-> "full"]
  /\ \E buf \in FreedBuffers :
       LET r == [block |-> b, buf |-> buf]
       IN  /\ sq' \in Queued(r)
           /\ pending' = (pending \ Finished) \cup {r}
           /\ free' = FreedBuffers \ {buf}
  /\ inflight' = (inflight - Cardinality(DOMAIN cq)) + 1
  /\ queued' = [queued EXCEPT ![t] = TRUE]
  /\ UNCHANGED kernel

\* getBlockById by a thread: the block is there, comes in, or cannot be read.
GetBlockById(b) ==
  \/ b \in cache_map /\ UNCHANGED cache_map
  \/ Cache!Load(b)
  \/ /\ b \notin cache_map
     /\ IF Cache!Full /\ cache_map # {} THEN Cache!LoadFails
                                        ELSE UNCHANGED cache_map

\* Nothing to reap either: the block is loaded synchronously.
SubmitFallback(t, b) ==
  /\ Submitting(t, b)
  /\ b \notin PendingBlocks
  /\ free = {} /\ FreedBuffers = {}
  /\ GetBlockById(b)
  /\ UNCHANGED <<ring, pending, queued>>

\* What submit returns is not looked at.
SubmitEnd(t) ==
  /\ pc[t] = "submit" /\ want[t] = {}
  /\ IF queued[t] /\ auto[t] THEN Submit ELSE UNCHANGED <<sq, kernel>>
  /\ mutex' = NOBODY
  /\ Return(t)
  /\ UNCHANGED <<cq, inflight, free, cache_map, pending>>

FlushSubmits(t) ==
  /\ pc[t] = "idle" /\ mutex = NOBODY
  /\ Submit
  /\ UNCHANGED <<cq, inflight, free, cache_map, pending, mutex, pc, local>>

-----------------------------------------------------------------------------
(* The waiting operations.                                                 *)

ReapCompletions(t) ==
  /\ pc[t] = "idle" /\ mutex = NOBODY
  /\ Reap
  /\ UNCHANGED <<mutex, pc, local>>

\* op: "blocks" waitForBlocks, "block" waitForBlock, "all" waitForCompletions
\* without a limit, "timed" with one.
Start(t, o, S, next) ==
  /\ pc[t] = "idle"
  /\ op' = [op EXCEPT ![t] = o]
  /\ want' = [want EXCEPT ![t] = S]
  /\ pc' = [pc EXCEPT ![t] = next]
  /\ UNCHANGED <<ring, cache_map, pending, mutex, queued, auto>>

\* Blocks that are cached or were never submitted are not waited for.
WaitForBlocks(t, S) ==
  LET w == (S \cap PendingBlocks) \ cache_map
  IN  /\ mutex = NOBODY
      /\ w # {}
      /\ Start(t, "blocks", w, "reap")

\* The cache is asked before the mutex is taken to look at pending_requests_.
WaitForBlock(t, b) == b \notin cache_map /\ Start(t, "block", {b}, "pending")

WaitForCompletions(t, o) == Start(t, o, {}, "reap")

shared == <<ring, cache_map, pending, mutex>>

Goto(t, next) ==
  /\ pc' = [pc EXCEPT ![t] = next]
  /\ UNCHANGED local

\* waitForBlock returns false if its block is not pending.
CheckPending(t) ==
  /\ pc[t] = "pending" /\ mutex = NOBODY
  /\ IF want[t] \subseteq PendingBlocks THEN Goto(t, "reap") ELSE Return(t)
  /\ UNCHANGED shared

WaitReap(t) ==
  /\ pc[t] = "reap" /\ mutex = NOBODY
  /\ Reap
  /\ Goto(t, IF op[t] = "block" THEN "cached" ELSE "check")
  /\ UNCHANGED mutex

\* waitForBlock asks the cache, without the mutex.
CheckCached(t) ==
  /\ pc[t] = "cached"
  /\ IF want[t] \subseteq cache_map THEN Return(t) ELSE Goto(t, "check")
  /\ UNCHANGED shared

\* Mutant: waitForBlocks is content with the first block that arrives.
MutStillWanted(t) ==
  IF \E b \in want[t] : b \in cache_map \/ b \notin PendingBlocks
  THEN {} ELSE want[t]

StillWanted(t) ==
  CASE op[t] = "blocks" -> (want[t] \cap PendingBlocks) \ cache_map
    [] op[t] = "block"  -> want[t] \cap PendingBlocks
    [] OTHER            -> {}

\* What a waiting operation returns on: nothing left to wait for, or no read
\* in flight.
Satisfied(t) ==
  \/ op[t] \in {"block", "blocks"} /\ StillWanted(t) = {}
  \/ inflight = 0

\* The code between two waits.  A limited wait may be out of time.
Check(t) ==
  /\ pc[t] = "check" /\ mutex = NOBODY
  /\ \/ /\ Satisfied(t) \/ op[t] = "timed"
        /\ Return(t)
     \/ /\ ~Satisfied(t)
        /\ pc' = [pc EXCEPT ![t] = "wait"]
        /\ want' = [want EXCEPT ![t] = StillWanted(t)]
        /\ UNCHANGED <<op, queued, auto>>
  /\ UNCHANGED shared

\* waitCompletion reads inflight_ without the mutex...
WaitCompletion(t) ==
  /\ pc[t] = "wait"
  /\ Goto(t, IF inflight = 0 THEN "reap" ELSE "enter")
  /\ UNCHANGED shared

\* ...and only then enters the kernel, which returns at once if there is a
\* completion and puts the thread to sleep if there is none.
Enter(t) ==
  /\ pc[t] = "enter"
  /\ Goto(t, IF DOMAIN cq # {} THEN "reap" ELSE "blocked")
  /\ UNCHANGED shared

-----------------------------------------------------------------------------
(* What goes on around the prefetcher.                                     *)

\* A completion wakes every thread that sleeps in the kernel.
Complete(r) ==
  /\ KernelCompletes(r)
  /\ pc' = [t \in Threads |-> IF pc[t] = "blocked" THEN "reap" ELSE pc[t]]
  /\ UNCHANGED <<cache_map, pending, mutex, local>>

\* A thread loads a block through the cache, without the prefetcher.
LoadDirect(t, b) ==
  /\ pc[t] = "idle"
  /\ GetBlockById(b)
  /\ UNCHANGED <<ring, pending, mutex, pc, local>>

-----------------------------------------------------------------------------
Init ==
  /\ RingInit
  /\ cache_map = {} /\ pending = {}
  /\ mutex = NOBODY
  /\ pc = [t \in Threads |-> "idle"]
  /\ op = [t \in Threads |-> "blocks"]
  /\ want = [t \in Threads |-> {}]
  /\ queued = [t \in Threads |-> FALSE]
  /\ auto = [t \in Threads |-> FALSE]

Batches == SUBSET Blocks \ {{}}

\* A thread enters one of the operations.
Begin(t) ==
  \/ \E S \in Batches :
       \/ \E a \in AutoModes : StartSubmit(t, S, a)
       \/ WaitForBlocks(t, S)
  \/ \E b \in Blocks : WaitForBlock(t, b) \/ LoadDirect(t, b)
  \/ \E o \in {"all", "timed"} : WaitForCompletions(t, o)
  \/ FlushSubmits(t) \/ ReapCompletions(t)

\* A thread goes on with the operation it is in.
Continue(t) ==
  \/ \E b \in Blocks :
       \/ SubmitSkip(t, b) \/ SubmitRead(t, b)
       \/ SubmitReapRead(t, b) \/ SubmitFallback(t, b)
  \/ SubmitEnd(t)
  \/ CheckPending(t) \/ WaitReap(t) \/ CheckCached(t) \/ Check(t)
  \/ WaitCompletion(t) \/ Enter(t)

Next ==
  \/ \E t \in Threads : Begin(t) \/ Continue(t)
  \/ \E r \in Reads : Complete(r)

Spec == Init /\ [][Next]_vars

\* The kernel finishes what it took, and a thread in an operation is scheduled:
\* even one that can go on only now and then (the mutex is taken again and again)
\* goes on in the end.
StrongFairness ==
  /\ \A t \in Threads : SF_vars(Continue(t))
  /\ \A r \in Reads : WF_vars(Complete(r))

StrongFairSpec == Spec /\ StrongFairness

-----------------------------------------------------------------------------
(* Properties.                                                             *)

PCs == {"idle", "submit", "pending", "reap", "cached", "check", "wait",
        "enter", "blocked"}

\* Every variable stays in its domain.
TypeOK ==
  /\ sq \subseteq Reads /\ kernel \subseteq Reads
  /\ DOMAIN cq \subseteq Reads /\ cq \in [DOMAIN cq -> Outcomes]
  /\ inflight \in Nat
  /\ free \subseteq Buffers
  /\ cache_map \subseteq Blocks
  /\ pending \subseteq Reads
  /\ mutex \in Threads \cup {NOBODY}
  /\ pc \in [Threads -> PCs]
  /\ op \in [Threads -> {"block", "blocks", "all", "timed"}]
  /\ want \in [Threads -> SUBSET Blocks]
  /\ queued \in [Threads -> BOOLEAN]
  /\ auto \in [Threads -> BOOLEAN]

\* The kernel never writes to a buffer another read was given or the pool would
\* hand out, and no buffer is ever lost, whatever fails.
BuffersExclusive ==
  /\ { r.buf : r \in pending } = Buffers \ free
  /\ \A r, s \in pending : r.buf = s.buf => r = s

\* pending_requests_ knows exactly the reads that are queued, in the kernel or
\* completed, one per block, with the buffer each of them is read into: no
\* completion is ignored and none is looked up to another read's buffer.
RequestsMatchPending ==
  /\ pending = Outstanding
  /\ \A r, s \in pending : r.block = s.block => r = s

\* "No read in flight, yet the block is pending?  Should not happen"
\* (graph_prefetcher.cpp:258 and 322): the unsigned counter is exact.
InflightExact == inflight = Cardinality(pending)

\* The mutex serialises submitPrefetch: one thread is in its loop.
OneSubmitter ==
  \A t \in Threads : (pc[t] = "submit") = (mutex = t)

\* waitForBlocks never gives up on a block that is still being read: when it
\* returns, each block it waited for is in the cache or no longer pending.
WaitsForEachBlock ==
  [][\A t \in Threads :
       op[t] = "blocks" /\ pc[t] = "check" /\ pc'[t] = "idle" =>
         \A b \in want[t] : b \in cache_map \/ b \notin PendingBlocks]_vars

\* "lock order prefetcher -> cache, no risk of a deadlock"
\* (graph_prefetcher.cpp:167): submitPrefetch always ends and gives the mutex
\* back, even when every buffer of the pool holds a read not yet submitted.
MutexReleased == mutex # NOBODY ~> mutex = NOBODY

\* A thread that blocks in waitCompletion comes out of it: "thread-safe: all
\* public methods are serialised", "waitCompletion does not hold the lock, to let
\* other threads submit" (graph_prefetcher.cpp:3-4).
BlockedWakes == \A t \in Threads : pc[t] = "blocked" ~> pc[t] # "blocked"

\* "waits at most max_wait_us, 0 means non-blocking" (graph_prefetcher.h:76).
ZeroWaitNeverBlocks ==
  \A t \in Threads : op[t] = "all" => pc[t] # "blocked"

=============================================================================
