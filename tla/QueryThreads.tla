----------------------------- MODULE QueryThreads -----------------------------
(***************************************************************************)
(* DiskHNSW::batchSearchConcurrent, called several times: each call starts *)
(* threads that share out the queries, and joins them.  What the threads   *)
(* share: the counter of queries, the tables of the fine rerank and the    *)
(* flag that says they are built, the flat vectors, and the slots through  *)
(* which pages are handed to the thread that hints them to the kernel      *)
(* (WILLNEED_BG).  What is a thread's own: its visited list, which outlives*)
(* a query (VL_POOL_THREADS), and the number of its slot.                  *)
(*                                                                         *)
(* Of a search it keeps what touches these: which nodes it marks, and one  *)
(* candidate that the fine rerank looks up.                                *)
(***************************************************************************)
EXTENDS Naturals, FiniteSets, Sequences, Functions

CONSTANTS
  Threads,   \* the threads of one call
  Total,     \* queries in a call
  Batches,   \* bound: the number of calls
  Elements,     \* the nodes of the base layer
  Marks,     \* 2^8: how many values a mark has
  Slots,     \* MAX_THREADS, the slots of the hinting thread
  VecSlots,  \* flat_vec_num_slots_
  Pages,     \* the pages a query may need
  Modes      \* the settings: records of
             \*   pool      VL_POOL_THREADS reached
             \*   fine      FINE_RERANK
             \*   vec_path  VEC_BLOCKS_PATH: the file of the fine rerank is named
             \*   willneed  L4_WILLNEED and WILLNEED_BG
             \*   flat      are there flat vectors?

ASSUME QueryThreadsAssumption ==
  /\ IsFiniteSet(Threads) /\ Threads # {}
  /\ Total \in Nat /\ Batches \in Nat
  /\ Elements \subseteq Nat \ {0}
  /\ Marks \in Nat \ {0, 1}
  /\ Slots \in Nat \ {0} /\ VecSlots \in Nat \ {0}
  /\ Modes \subseteq [pool : BOOLEAN, fine : BOOLEAN, vec_path : BOOLEAN,
                      willneed : BOOLEAN, flat : BOOLEAN]

NONE == 0

VARIABLES
  mode,          \* the settings: fixed
  batch,         \* which call it is
  next_idx,      \* the next query to take
  answers,       \* how often each query of the call was answered
  pc,            \* where a thread is
  query,         \* the query a thread works on
  mass, curV,    \* a thread's visited list
  marked,        \* history: the nodes it has marked in this query
  once,          \* fine_init_flag: "no", "running" or "done"
  fine_ok,       \* fine_rerank_ok_
  built,         \* history: are the tables built?
  my_slot,       \* the slot of a thread; NONE before it has one
  next_slot,     \* the next to give
  slot_ready, slot_pages,  \* the slots
  bg,            \* the hinting thread: the slot it reads and the pages left
  vec_owner,     \* flat_vec_owners_: the node of a flat vector
  vec_data,      \* flat_vec_data_: the node whose vector it is
  nid,           \* the candidate a thread looks up
  used           \* history: the node whose vector it used for it

calls   == <<mode, batch, next_idx, answers>>
visit   == <<mass, curV, marked>>
init    == <<once, fine_ok, built>>
slots   == <<my_slot, next_slot, slot_ready, slot_pages>>
vectors == <<vec_owner, vec_data>>
lookup  == <<nid, used>>
vars    == <<calls, pc, query, visit, init, slots, bg, vectors, lookup>>

Goto(t, l) == pc' = [pc EXCEPT ![t] = l]

At(t, l) == pc[t] = l

-----------------------------------------------------------------------------
(* Queries.                                                                *)

TakeNext == next_idx' = next_idx + 1

\* Mutant: the list is not cleared when the mark wraps.
MutReset(m, v) == <<m, IF (v + 1) % Marks = 0 THEN 1 ELSE v + 1>>

\* VisitedList::reset; the mark is one byte.
Reset(m, v) ==
  IF (v + 1) % Marks = 0 THEN <<[n \in Elements |-> 0], 1>> ELSE <<m, v + 1>>

\* A new list, or the thread's own after a reset.
TakeQuery(t) ==
  /\ At(t, "take") /\ next_idx < Total
  /\ TakeNext
  /\ query' = [query EXCEPT ![t] = next_idx + 1]
  /\ LET list == IF mode.pool THEN Reset(mass[t], curV[t])
                              ELSE <<[n \in Elements |-> 0], 1>>
     IN  /\ mass' = [mass EXCEPT ![t] = list[1]]
         /\ curV' = [curV EXCEPT ![t] = list[2]]
  /\ marked' = [marked EXCEPT ![t] = {}]
  /\ Goto(t, "search")
  /\ UNCHANGED <<mode, batch, answers, init, slots, bg, vectors, lookup>>

\* fetch_add has gone past the last query: the thread ends.
NoMore(t) ==
  /\ At(t, "take") /\ next_idx >= Total
  /\ next_idx' = IF next_idx < Total + Cardinality(Threads) THEN next_idx + 1
                                                            ELSE next_idx
  /\ Goto(t, "end")
  /\ UNCHANGED <<mode, batch, answers, query, visit, init, slots, bg, vectors, lookup>>

\* The base-layer search marks what it meets.  Nobody looks at the marks in a
\* list that is not kept: they are left out.
Search(t) ==
  /\ At(t, "search")
  /\ \E S \in SUBSET (IF mode.pool THEN Elements ELSE {}) :
       /\ mass' = [mass EXCEPT ![t] = [n \in Elements |-> IF n \in S THEN curV[t] ELSE @[n]]]
       /\ marked' = [marked EXCEPT ![t] = S]
  /\ Goto(t, IF mode.fine THEN "fine" ELSE "finish")
  /\ UNCHANGED <<calls, query, curV, init, slots, bg, vectors, lookup>>

\* results[i] = ...
Finish(t) ==
  /\ At(t, "finish")
  /\ answers' = [answers EXCEPT ![query[t]] = @ + 1]
  /\ query' = [query EXCEPT ![t] = NONE]
  /\ nid' = [nid EXCEPT ![t] = NONE] /\ used' = [used EXCEPT ![t] = NONE]
  /\ Goto(t, "take")
  /\ UNCHANGED <<mode, batch, next_idx, visit, init, slots, bg, vectors>>

FreshThreads ==
  /\ pc' = [t \in Threads |-> "take"]
  /\ query' = [t \in Threads |-> NONE]
  /\ mass' = [t \in Threads |-> [n \in Elements |-> 0]]
  /\ curV' = [t \in Threads |-> 1]
  /\ marked' = [t \in Threads |-> {}]
  /\ my_slot' = [t \in Threads |-> NONE]
  /\ nid' = [t \in Threads |-> NONE] /\ used' = [t \in Threads |-> NONE]

\* All threads are joined, and the next call starts new ones.
NextBatch ==
  /\ \A t \in Threads : At(t, "end")
  /\ batch < Batches
  /\ batch' = batch + 1
  /\ next_idx' = 0
  /\ answers' = [i \in 1 .. Total |-> 0]
  /\ FreshThreads
  /\ UNCHANGED <<mode, init, next_slot, slot_ready, slot_pages, bg, vectors>>

-----------------------------------------------------------------------------
(* The tables of the fine rerank.                                          *)

\* if (!fine_rerank_ok_), read without a lock; without a file nobody builds.
CheckFine(t) ==
  /\ At(t, "fine")
  /\ Goto(t, IF fine_ok THEN "collect" ELSE IF mode.vec_path THEN "once" ELSE "check")
  /\ UNCHANGED <<calls, query, visit, init, slots, bg, vectors, lookup>>

\* Mutant: who finds another thread at it goes on.
MutOnceSeen == once # "no"

\* std::call_once returns when the call has been made, by whomever.
OnceSeen == once = "done"

CallOnce(t) ==
  /\ At(t, "once")
  /\ \/ once = "no" /\ once' = "running" /\ Goto(t, "build")
     \/ OnceSeen /\ UNCHANGED once /\ Goto(t, "check")
  /\ UNCHANGED <<calls, query, visit, fine_ok, built, slots, bg, vectors, lookup>>

\* buildFineRerank: the tables are filled, or the file is refused.
Build(t) ==
  /\ At(t, "build")
  /\ built' \in BOOLEAN
  /\ Goto(t, "set")
  /\ UNCHANGED <<calls, query, visit, once, fine_ok, slots, bg, vectors, lookup>>

\* fine_rerank_ok_ is set inside the call: a thread that reads the flag now ranks by
\* the tables, although call_once has not returned to anybody.
SetFine(t) ==
  /\ At(t, "set")
  /\ fine_ok' = built
  /\ Goto(t, "leave")
  /\ UNCHANGED <<calls, query, visit, once, built, slots, bg, vectors, lookup>>

\* Mutant: the call is not marked as made if it fails.
MutOnceDone(ok) == once' = IF ok THEN "done" ELSE "running"

OnceDone(ok) == once' = "done"

LeaveOnce(t) ==
  /\ At(t, "leave")
  /\ OnceDone(built)
  /\ Goto(t, "check")
  /\ UNCHANGED <<calls, query, visit, fine_ok, built, slots, bg, vectors, lookup>>

\* "init failed, fallback to block rerank", which shares nothing of this.
Recheck(t) ==
  /\ At(t, "check")
  /\ Goto(t, IF fine_ok THEN "collect" ELSE "fallback")
  /\ UNCHANGED <<calls, query, visit, init, slots, bg, vectors, lookup>>

Fallback(t) ==
  /\ At(t, "fallback")
  /\ Goto(t, "finish")
  /\ UNCHANGED <<calls, query, visit, init, slots, bg, vectors, lookup>>

-----------------------------------------------------------------------------
(* Hints: a slot per thread.                                               *)

\* Mutant: threads get one slot.
MutSlotOf(k) == 1

SlotOf(k) == 1 + (k % Slots)

\* The first time, the thread gets a slot; the old list is cleared.
ClearSlot(t) ==
  /\ At(t, "slot")
  /\ LET s == IF my_slot[t] = NONE THEN SlotOf(next_slot) ELSE my_slot[t]
     IN  /\ my_slot' = [my_slot EXCEPT ![t] = s]
         /\ slot_pages' = [slot_pages EXCEPT ![s] = <<>>]
  /\ next_slot' = IF my_slot[t] = NONE THEN next_slot + 1 ELSE next_slot
  /\ Goto(t, "fill")
  /\ UNCHANGED <<calls, query, visit, init, slot_ready, bg, vectors, lookup>>

FillSlot(t) ==
  /\ At(t, "fill")
  /\ \E p \in Pages : slot_pages' = [slot_pages EXCEPT ![my_slot[t]] = Append(@, p)]
  /\ Goto(t, "publish")
  /\ UNCHANGED <<calls, query, visit, init, my_slot, next_slot, slot_ready, bg,
                 vectors, lookup>>

Publish(t) ==
  /\ At(t, "publish")
  /\ slot_ready' = [slot_ready EXCEPT ![my_slot[t]] = TRUE]
  /\ Goto(t, "read")
  /\ UNCHANGED <<calls, query, visit, init, my_slot, next_slot, slot_pages, bg,
                 vectors, lookup>>

\* The hinting thread finds a list, and goes through it.
BgTake(s) ==
  /\ bg = <<NONE, 0>> /\ slot_ready[s]
  /\ bg' = <<s, Len(slot_pages[s])>>
  /\ UNCHANGED <<calls, pc, query, visit, init, slots, vectors, lookup>>

BgHint ==
  /\ bg[1] # NONE /\ bg[2] > 0
  /\ bg' = <<bg[1], bg[2] - 1>>
  /\ UNCHANGED <<calls, pc, query, visit, init, slots, vectors, lookup>>

BgClear ==
  /\ bg[1] # NONE /\ bg[2] = 0
  /\ slot_ready' = [slot_ready EXCEPT ![bg[1]] = FALSE]
  /\ bg' = <<NONE, 0>>
  /\ UNCHANGED <<calls, pc, query, visit, init, my_slot, next_slot, slot_pages,
                 vectors, lookup>>

-----------------------------------------------------------------------------
(* Flat vectors: one slot for all nodes that are equal modulo VecSlots.    *)

VecSlot(n) == n % VecSlots

\* getFlatVector: if the owner is right, a pointer to the vector is returned;
\* if not, the page of the vector is needed.
Collect(t) ==
  /\ At(t, "collect")
  /\ \E n \in Elements :
       /\ nid' = [nid EXCEPT ![t] = n]
       /\ Goto(t, IF vec_owner[VecSlot(n)] = n THEN "use"
                  ELSE IF mode.willneed THEN "slot" ELSE "read")
  /\ UNCHANGED <<calls, query, visit, init, slots, bg, vectors, used>>

\* consider: the vector behind the pointer is read.
FlatUse(t) ==
  /\ At(t, "use")
  /\ used' = [used EXCEPT ![t] = vec_data[VecSlot(nid[t])]]
  /\ Goto(t, "finish")
  /\ UNCHANGED <<calls, query, visit, init, slots, bg, vectors, nid>>

\* The vector is read from its page and used.
ReadPage(t) ==
  /\ At(t, "read")
  /\ used' = [used EXCEPT ![t] = nid[t]]
  /\ Goto(t, IF mode.flat THEN "put" ELSE "finish")
  /\ UNCHANGED <<calls, query, visit, init, slots, bg, vectors, nid>>

\* putFlatVector sets the owner first ...
PutOwner(t) ==
  /\ At(t, "put")
  /\ vec_owner' = [vec_owner EXCEPT ![VecSlot(nid[t])] = nid[t]]
  /\ Goto(t, "copy")
  /\ UNCHANGED <<calls, query, visit, init, slots, bg, vec_data, lookup>>

\* ... and copies the vector then.
PutData(t) ==
  /\ At(t, "copy")
  /\ vec_data' = [vec_data EXCEPT ![VecSlot(nid[t])] = nid[t]]
  /\ Goto(t, "finish")
  /\ UNCHANGED <<calls, query, visit, init, slots, bg, vec_owner, lookup>>

-----------------------------------------------------------------------------

Init ==
  /\ mode \in Modes
  /\ batch = 1 /\ next_idx = 0
  /\ answers = [i \in 1 .. Total |-> 0]
  /\ pc = [t \in Threads |-> "take"]
  /\ query = [t \in Threads |-> NONE]
  /\ mass = [t \in Threads |-> [n \in Elements |-> 0]]
  /\ curV = [t \in Threads |-> 1]
  /\ marked = [t \in Threads |-> {}]
  /\ once = "no" /\ fine_ok = FALSE /\ built = FALSE
  /\ my_slot = [t \in Threads |-> NONE] /\ next_slot = 0
  /\ slot_ready = [s \in 1 .. Slots |-> FALSE]
  /\ slot_pages = [s \in 1 .. Slots |-> <<>>]
  /\ bg = <<NONE, 0>>
  /\ vec_owner = [s \in 0 .. VecSlots - 1 |-> NONE]
  /\ vec_data = [s \in 0 .. VecSlots - 1 |-> NONE]
  /\ nid = [t \in Threads |-> NONE] /\ used = [t \in Threads |-> NONE]

Worker(t) ==
  \/ TakeQuery(t) \/ NoMore(t) \/ Search(t) \/ Finish(t)
  \/ CheckFine(t) \/ CallOnce(t) \/ Build(t) \/ SetFine(t) \/ LeaveOnce(t)
  \/ Recheck(t) \/ Fallback(t)
  \/ ClearSlot(t) \/ FillSlot(t) \/ Publish(t)
  \/ Collect(t) \/ ReadPage(t) \/ FlatUse(t) \/ PutOwner(t) \/ PutData(t)

Hinter == (\E s \in 1 .. Slots : BgTake(s)) \/ BgHint \/ BgClear

Next == (\E t \in Threads : Worker(t)) \/ NextBatch \/ Hinter

Spec == Init /\ [][Next]_vars

\* Every thread runs.
FairSpec ==
  /\ Spec /\ WF_vars(NextBatch) /\ WF_vars(Hinter)
  /\ \A t \in Threads : WF_vars(Worker(t))

-----------------------------------------------------------------------------
(* Properties.                                                             *)

\* Everything has its type, and the owner of a flat vector maps to its slot.
TypeOK ==
  /\ mode \in Modes /\ batch \in 1 .. Batches
  /\ next_idx \in 0 .. Total + Cardinality(Threads)
  /\ answers \in [1 .. Total -> Nat]
  /\ query \in [Threads -> 0 .. Total]
  /\ mass \in [Threads -> [Elements -> 0 .. Marks - 1]]
  /\ curV \in [Threads -> 1 .. Marks - 1]
  /\ once \in {"no", "running", "done"} /\ fine_ok \in BOOLEAN
  /\ my_slot \in [Threads -> 0 .. Slots]
  /\ slot_ready \in [1 .. Slots -> BOOLEAN]
  /\ nid \in [Threads -> Elements \cup {NONE}]
  /\ \A s \in 0 .. VecSlots - 1 :
       vec_owner[s] # NONE => vec_owner[s] \in Elements /\ VecSlot(vec_owner[s]) = s

\* A node counts as visited exactly if this search has marked it: no mark of an
\* earlier query on the same list is taken for one of this, also when the mark
\* has wrapped.
MarksAreOfThisQuery ==
  \A t \in Threads : { n \in Elements : mass[t][n] = curV[t] } = marked[t]

\* Whoever ranks by pages finds the tables built, also if it has read the flag while
\* the thread that builds them is still inside call_once; and where there is a file
\* nobody falls back to blocks before the building has failed.
TablesAreReady ==
  \A t \in Threads :
    /\ pc[t] \in {"collect", "slot", "fill", "publish", "read", "use", "put", "copy"} => built
    /\ At(t, "fallback") => ~mode.vec_path \/ (once = "done" /\ ~built)

\* Threads that run at the same time fill different slots, however many have
\* come and gone before, as long as there are no more of them than slots.
SlotHasOneWriter ==
  Cardinality(Threads) <= Slots =>
    \A t, u \in Threads : my_slot[t] = my_slot[u] /\ my_slot[t] # NONE => t = u

\* Every call returns, and then each query has been answered by one thread.
AllAnsweredOnce ==
  <>( /\ batch = Batches /\ \A t \in Threads : At(t, "end")
      /\ \A q \in 1 .. Total : answers[q] = 1 )

\* "Vectors do not change and can safely be cached" (src/core/block_cache.cpp:622):
\* a node is ranked by its own vector.
RankedByOwnVector == \A t \in Threads : used[t] \in {NONE, nid[t]}

\* "One producer, one consumer per slot, an atomic flag" (disk_hnsw.cpp:1833):
\* nobody changes a list that the hinting thread goes through.
SlotIsExclusive ==
  \A t \in Threads : pc[t] \in {"fill", "publish"} => bg[1] # my_slot[t]

=============================================================================
