-------------------------- MODULE QueryThreadsProofs --------------------------
(***************************************************************************)
(* What the threads of batchSearchConcurrent keep apart and what they      *)
(* share safely, for every number of threads, queries, calls, elements and *)
(* marks; and how a thread ranks the candidates of a search again, for     *)
(* every number of candidates, pages and buffers, in whatever order reads  *)
(* complete or fail.  Last, the search that such a thread may run without  *)
(* waiting for a block: its result is right as far as it has looked, for   *)
(* every graph, layout, cache and ef.                                      *)
(*                                                                         *)
(* A visited list never holds a mark ahead of its current one, so that the *)
(* next mark is new, or the list is cleared (VisitedLists).  One thread at *)
(* a time is inside call_once, and none after it has returned; the flag is *)
(* set by that thread alone, after the tables (Once).  The slots of a call *)
(* are given from consecutive numbers, no more of them than there are      *)
(* threads, so that no two are equal modulo the number of slots (Tickets). *)
(*                                                                         *)
(* A buffer of the rerank belongs to the pool or to one read: the pages in *)
(* it are those the read was made for, until all candidates on them have   *)
(* been ranked (RerankIInv).  When no buffer is left, each has a page of   *)
(* its own that is needed, and one more is (Shortage).                     *)
(*                                                                         *)
(* The non-blocking search may put off a node and ask for it again any     *)
(* number of times; that it waits in one place only, and is not measured   *)
(* while it waits (Waits), keeps it from entering the heaps a second time. *)
(***************************************************************************)
EXTENDS QueryThreads, FineRerank, NonBlockingSearch, BestFirstProofs

Ranking == {"collect", "slot", "fill", "publish", "read", "use", "put", "copy"}

Building == {"build", "set", "leave"}

PCs == Ranking \cup Building \cup {"take", "end", "search", "finish", "fine", "once",
                                  "check", "fallback"}

VisitedLists ==
  /\ pc \in [Threads -> PCs]
  /\ mass \in [Threads -> [Elements -> 0 .. Marks - 1]]
  /\ curV \in [Threads -> 1 .. Marks - 1]
  /\ marked \in [Threads -> SUBSET Elements]
  /\ \A t \in Threads : \A n \in Elements :
       /\ mass[t][n] <= curV[t]
       /\ mass[t][n] = curV[t] <=> n \in marked[t]
  /\ \A t \in Threads : At(t, "search") => marked[t] = {}

Once ==
  /\ pc \in [Threads -> PCs]
  /\ once \in {"no", "running", "done"}
  /\ built \in BOOLEAN /\ fine_ok \in BOOLEAN /\ (fine_ok => built)
  /\ once = "no" => ~built
  /\ once = "done" => fine_ok = built
  /\ ~mode.vec_path => once = "no"
  /\ \A t \in Threads :
       /\ pc[t] \in Building => once = "running"
       /\ pc[t] = "build" => ~built
       /\ pc[t] = "leave" => fine_ok = built
       /\ pc[t] = "once" => mode.vec_path
       /\ pc[t] \in {"check", "fallback"} => once = "done" \/ ~mode.vec_path
       /\ pc[t] \in Ranking => built
       /\ pc[t] = "fallback" => ~built
  /\ \A t, u \in Threads : pc[t] \in Building /\ pc[u] \in Building => t = u

Holders == { t \in Threads : my_slot[t] # NONE }

\* The number that a thread with a slot was given, counted from `first' on.
IsTicket(ticket, first) ==
  /\ next_slot = first + Cardinality(Holders)
  /\ \A t \in Holders : /\ my_slot[t] = SlotOf(ticket[t])
                         /\ first <= ticket[t] /\ ticket[t] < next_slot
  /\ \A t, u \in Holders : ticket[t] = ticket[u] => t = u

Tickets ==
  /\ my_slot \in [Threads -> Nat]
  /\ next_slot \in Nat
  /\ \E ticket \in [Threads -> Nat], first \in Nat : IsTicket(ticket, first)

-----------------------------------------------------------------------------
(* Visited lists.                                                          *)

\* A list that is reset has no node marked, and no mark ahead of its own.
LEMMA ResetIsFresh ==
  ASSUME NEW m \in [Elements -> 0 .. Marks - 1], NEW v \in 1 .. Marks - 1,
         \A n \in Elements : m[n] <= v
  PROVE  /\ Reset(m, v)[1] \in [Elements -> 0 .. Marks - 1]
         /\ Reset(m, v)[2] \in 1 .. Marks - 1
         /\ \A n \in Elements : Reset(m, v)[1][n] < Reset(m, v)[2]
<1>1. Marks \in Nat \ {0, 1}
  BY QueryThreadsAssumption
<1>2. CASE (v + 1) % Marks = 0
  BY <1>1, <1>2 DEF Reset
<1>3. CASE (v + 1) % Marks # 0
  <2>1. Marks % Marks = 0
    BY <1>1
  <2>2. v + 1 # Marks
    BY <1>3, <2>1
  <2>3. v + 1 \in 1 .. Marks - 1
    BY <1>1, <2>2
  <2>4. \A n \in Elements : m[n] < v + 1
    BY <1>1
  <2> QED
    BY <1>3, <2>3, <2>4 DEF Reset
<1> QED
  BY <1>2, <1>3

LEMMA InitLists == Init => VisitedLists
<1> SUFFICES ASSUME Init PROVE VisitedLists
  OBVIOUS
<1>1. Marks \in Nat \ {0, 1}
  BY QueryThreadsAssumption
<1>2. pc \in [Threads -> PCs]
  BY DEF Init, PCs
<1> QED
  BY <1>1, <1>2 DEF Init, VisitedLists, At

\* A thread goes to one place or, for the hinting thread, nobody goes anywhere.
LEMMA PlacesTyped ==
  ASSUME pc \in [Threads -> PCs], [Next]_vars
  PROVE  pc' \in [Threads -> PCs]
<1>1. ASSUME NEW t \in Threads, Worker(t) PROVE pc' \in [Threads -> PCs]
  <2>1. \E l \in PCs : Goto(t, l)
    <3>1. CASE TakeQuery(t) \/ NoMore(t) \/ Search(t) \/ Finish(t)
      BY <3>1 DEF TakeQuery, NoMore, Search, Finish, PCs
    <3>2. CASE CheckFine(t) \/ Recheck(t) \/ Fallback(t)
      BY <3>2 DEF CheckFine, Recheck, Fallback, PCs, Ranking
    <3>3. CASE CallOnce(t) \/ Build(t) \/ SetFine(t) \/ LeaveOnce(t)
      BY <3>3 DEF CallOnce, Build, SetFine, LeaveOnce, PCs, Building
    <3>4. CASE ClearSlot(t) \/ FillSlot(t) \/ Publish(t)
      BY <3>4 DEF ClearSlot, FillSlot, Publish, PCs, Ranking
    <3>5. CASE Collect(t)
      BY <3>5 DEF Collect, PCs, Ranking
    <3>6. CASE ReadPage(t) \/ FlatUse(t) \/ PutOwner(t) \/ PutData(t)
      BY <3>6 DEF ReadPage, FlatUse, PutOwner, PutData, PCs, Ranking
    <3> QED
      BY <1>1, <3>1, <3>2, <3>3, <3>4, <3>5, <3>6 DEF Worker
  <2> QED
    BY <2>1 DEF Goto
<1>2. CASE NextBatch
  BY <1>2 DEF NextBatch, FreshThreads, PCs
<1>3. CASE Hinter
  BY <1>3 DEF Hinter, BgTake, BgHint, BgClear
<1>4. CASE UNCHANGED vars
  BY <1>4 DEF vars
<1> QED
  BY <1>1, <1>2, <1>3, <1>4 DEF Next

LEMMA NextLists ==
  ASSUME VisitedLists, [Next]_vars
  PROVE  VisitedLists'
<1> USE DEF visit
<1>1. Marks \in Nat \ {0, 1} /\ pc \in [Threads -> PCs] /\ pc' \in [Threads -> PCs]
  BY QueryThreadsAssumption, PlacesTyped DEF VisitedLists
<1>2. ASSUME UNCHANGED visit,
             \A u \in Threads : pc'[u] = "search" => pc[u] = "search"
      PROVE  VisitedLists'
  BY <1>1, <1>2 DEF VisitedLists, At
<1>3. ASSUME NEW t \in Threads, NEW l \in PCs \ {"search"}, Goto(t, l), UNCHANGED visit
      PROVE  VisitedLists'
  <2>1. \A u \in Threads : pc'[u] = "search" => pc[u] = "search"
    BY <1>1, <1>3 DEF Goto
  <2> QED
    BY <1>2, <1>3, <2>1
<1>4. ASSUME NEW t \in Threads, TakeQuery(t) PROVE VisitedLists'
  <2> DEFINE list == IF mode.pool THEN Reset(mass[t], curV[t])
                                  ELSE <<[n \in Elements |-> 0], 1>>
  <2>1. /\ mass' = [mass EXCEPT ![t] = list[1]]
        /\ curV' = [curV EXCEPT ![t] = list[2]]
        /\ marked' = [marked EXCEPT ![t] = {}]
        /\ Goto(t, "search")
    BY <1>4 DEF TakeQuery
  <2>2. /\ list[1] \in [Elements -> 0 .. Marks - 1] /\ list[2] \in 1 .. Marks - 1
        /\ \A n \in Elements : list[1][n] < list[2]
    <3>1. CASE mode.pool
      <4>1. /\ mass[t] \in [Elements -> 0 .. Marks - 1] /\ curV[t] \in 1 .. Marks - 1
            /\ \A n \in Elements : mass[t][n] <= curV[t]
        BY DEF VisitedLists
      <4> QED
        BY <3>1, <4>1, ResetIsFresh
    <3>2. CASE ~mode.pool
      BY <1>1, <3>2
    <3> QED
      BY <3>1, <3>2
  <2> HIDE DEF list
  <2>3. /\ mass' \in [Threads -> [Elements -> 0 .. Marks - 1]]
        /\ curV' \in [Threads -> 1 .. Marks - 1]
        /\ marked' \in [Threads -> SUBSET Elements]
    BY <2>1, <2>2 DEF VisitedLists
  <2>4. ASSUME NEW u \in Threads
        PROVE  /\ \A n \in Elements : /\ mass'[u][n] <= curV'[u]
                                      /\ mass'[u][n] = curV'[u] <=> n \in marked'[u]
               /\ pc'[u] = "search" => marked'[u] = {}
    <3>1. CASE u = t
      <4>1. mass'[u] = list[1] /\ curV'[u] = list[2] /\ marked'[u] = {}
        BY <2>1, <3>1 DEF VisitedLists
      <4>2. ASSUME NEW n \in Elements
            PROVE  list[1][n] < list[2] /\ list[1][n] \in Nat /\ list[2] \in Nat
        BY <1>1, <2>2
      <4> QED
        BY <4>1, <4>2
    <3>2. CASE u # t
      <4>1. /\ mass'[u] = mass[u] /\ curV'[u] = curV[u] /\ marked'[u] = marked[u]
            /\ pc'[u] = pc[u]
        BY <1>1, <2>1, <3>2 DEF VisitedLists, Goto
      <4> QED
        BY <4>1 DEF VisitedLists, At
    <3> QED
      BY <3>1, <3>2
  <2> QED
    BY <1>1, <2>3, <2>4 DEF VisitedLists, At
<1>5. ASSUME NEW t \in Threads, Search(t) PROVE VisitedLists'
  <2>1. PICK S \in SUBSET Elements :
          /\ mass' = [mass EXCEPT ![t] =
                        [n \in Elements |-> IF n \in S THEN curV[t] ELSE @[n]]]
          /\ marked' = [marked EXCEPT ![t] = S]
    <3>1. PICK S \in SUBSET (IF mode.pool THEN Elements ELSE {}) :
            /\ mass' = [mass EXCEPT ![t] =
                          [n \in Elements |-> IF n \in S THEN curV[t] ELSE @[n]]]
            /\ marked' = [marked EXCEPT ![t] = S]
      BY <1>5 DEF Search
    <3>2. S \in SUBSET Elements
      OBVIOUS
    <3> QED
      BY <3>1, <3>2
  <2>2. /\ curV' = curV /\ marked[t] = {}
        /\ Goto(t, "fine") \/ Goto(t, "finish")
    BY <1>5 DEF Search, VisitedLists
  <2> DEFINE list == [n \in Elements |-> IF n \in S THEN curV[t] ELSE mass[t][n]]
  <2>3. list \in [Elements -> 0 .. Marks - 1] /\ mass' = [mass EXCEPT ![t] = list]
    <3>1. curV[t] \in 0 .. Marks - 1 /\ mass[t] \in [Elements -> 0 .. Marks - 1]
      BY <1>1 DEF VisitedLists
    <3> QED
      BY <2>1, <3>1
  <2>4. \A n \in Elements : list[n] <= curV[t] /\ (list[n] = curV[t] <=> n \in S)
    <3>1. \A n \in Elements : mass[t][n] <= curV[t] /\ mass[t][n] # curV[t]
      BY <2>2 DEF VisitedLists
    <3>2. curV[t] \in Nat
      BY <1>1 DEF VisitedLists
    <3> QED
      BY <3>1, <3>2
  <2> HIDE DEF list
  <2>5. /\ mass' \in [Threads -> [Elements -> 0 .. Marks - 1]]
        /\ curV' \in [Threads -> 1 .. Marks - 1]
        /\ marked' \in [Threads -> SUBSET Elements]
    BY <2>1, <2>2, <2>3 DEF VisitedLists
  <2>6. ASSUME NEW u \in Threads
        PROVE  /\ \A n \in Elements : /\ mass'[u][n] <= curV'[u]
                                      /\ mass'[u][n] = curV'[u] <=> n \in marked'[u]
               /\ pc'[u] = "search" => marked'[u] = {}
    <3>1. CASE u = t
      <4>1. /\ mass'[u] = list /\ curV'[u] = curV[t] /\ marked'[u] = S
            /\ pc'[u] # "search"
        BY <1>1, <2>1, <2>2, <2>3, <3>1 DEF VisitedLists, Goto
      <4> QED
        BY <2>4, <4>1
    <3>2. CASE u # t
      <4>1. /\ mass'[u] = mass[u] /\ curV'[u] = curV[u] /\ marked'[u] = marked[u]
            /\ pc'[u] = pc[u]
        BY <1>1, <2>1, <2>2, <3>2 DEF VisitedLists, Goto
      <4> QED
        BY <4>1 DEF VisitedLists, At
    <3> QED
      BY <3>1, <3>2
  <2> QED
    BY <1>1, <2>5, <2>6 DEF VisitedLists, At
<1>6. ASSUME NEW t \in Threads, Worker(t), ~TakeQuery(t), ~Search(t) PROVE VisitedLists'
  <2>1. UNCHANGED visit /\ \E l \in PCs \ {"search"} : Goto(t, l)
    <3>1. CASE NoMore(t) \/ Finish(t)
      BY <3>1 DEF NoMore, Finish, PCs
    <3>2. CASE CheckFine(t) \/ Recheck(t) \/ Fallback(t)
      BY <3>2 DEF CheckFine, Recheck, Fallback, PCs, Ranking
    <3>3. CASE CallOnce(t) \/ Build(t) \/ SetFine(t) \/ LeaveOnce(t)
      BY <3>3 DEF CallOnce, Build, SetFine, LeaveOnce, PCs, Building
    <3>4. CASE ClearSlot(t) \/ FillSlot(t) \/ Publish(t)
      BY <3>4 DEF ClearSlot, FillSlot, Publish, PCs, Ranking
    <3>5. CASE Collect(t)
      BY <3>5 DEF Collect, PCs, Ranking
    <3>6. CASE ReadPage(t) \/ FlatUse(t) \/ PutOwner(t) \/ PutData(t)
      BY <3>6 DEF ReadPage, FlatUse, PutOwner, PutData, PCs, Ranking
    <3> QED
      BY <1>6, <3>1, <3>2, <3>3, <3>4, <3>5, <3>6 DEF Worker
  <2> QED
    BY <1>3, <2>1
<1>7. CASE NextBatch
  <2>1. /\ mass' = [t \in Threads |-> [n \in Elements |-> 0]]
        /\ curV' = [t \in Threads |-> 1] /\ marked' = [t \in Threads |-> {}]
    BY <1>7 DEF NextBatch, FreshThreads
  <2> QED
    BY <1>1, <2>1 DEF VisitedLists
<1>8. CASE Hinter \/ UNCHANGED vars
  <2>1. UNCHANGED <<pc, visit>>
    BY <1>8 DEF Hinter, BgTake, BgHint, BgClear, vars
  <2> QED
    BY <1>2, <2>1
<1> QED
  BY <1>4, <1>5, <1>6, <1>7, <1>8 DEF Next

\* No query takes the mark of an earlier one on the same list for its own, however
\* often the mark has wrapped.
THEOREM MarksAreOwn == Spec => []MarksAreOfThisQuery
<1>1. Init => VisitedLists
  BY InitLists
<1>2. VisitedLists /\ [Next]_vars => VisitedLists'
  BY NextLists
<1>3. VisitedLists => MarksAreOfThisQuery
  <2> SUFFICES ASSUME VisitedLists, NEW t \in Threads
               PROVE  { n \in Elements : mass[t][n] = curV[t] } = marked[t]
    BY DEF MarksAreOfThisQuery
  <2> QED
    BY DEF VisitedLists
<1> QED
  BY <1>1, <1>2, <1>3, PTL DEF Spec

-----------------------------------------------------------------------------
(* The tables of the fine rerank.                                          *)

LEMMA InitOnce == Init => Once
<1> SUFFICES ASSUME Init PROVE Once
  OBVIOUS
<1>1. pc \in [Threads -> PCs] /\ \A t \in Threads : pc[t] = "take"
  BY DEF Init, PCs
<1> QED
  BY <1>1 DEF Init, Once, Ranking, Building

\* A thread moves and the tables stay as they are: the place it goes to must not
\* ask for more than the one it has left.
LEMMA OnceFrame ==
  ASSUME Once, UNCHANGED <<mode, init>>, pc' \in [Threads -> PCs],
         NEW t \in Threads, NEW l \in PCs \ Building, Goto(t, l),
         l = "once" => mode.vec_path,
         l \in {"check", "fallback"} => once = "done" \/ ~mode.vec_path,
         l \in Ranking => built,
         l = "fallback" => ~built
  PROVE  Once'
<1>1. \A u \in Threads : pc'[u] = IF u = t THEN l ELSE pc[u]
  BY DEF Once, Goto
<1>2. /\ once' = once /\ built' = built /\ fine_ok' = fine_ok /\ mode' = mode
  BY DEF init
<1>3. l \notin Building /\ l \notin {"build", "leave"}
  BY DEF Building
<1>4. ASSUME NEW u \in Threads
      PROVE  /\ pc'[u] \in Building => once' = "running"
             /\ pc'[u] = "build" => ~built'
             /\ pc'[u] = "leave" => fine_ok' = built'
             /\ pc'[u] = "once" => mode'.vec_path
             /\ pc'[u] \in {"check", "fallback"} => once' = "done" \/ ~mode'.vec_path
             /\ pc'[u] \in Ranking => built'
             /\ pc'[u] = "fallback" => ~built'
  BY <1>1, <1>2, <1>3 DEF Once
<1>5. \A u, w \in Threads : pc'[u] \in Building /\ pc'[w] \in Building => u = w
  BY <1>1, <1>3 DEF Once
<1>6. /\ once' \in {"no", "running", "done"}
      /\ built' \in BOOLEAN /\ fine_ok' \in BOOLEAN /\ (fine_ok' => built')
      /\ once' = "no" => ~built'
      /\ once' = "done" => fine_ok' = built'
      /\ ~mode'.vec_path => once' = "no"
  BY <1>2 DEF Once
<1> QED
  BY <1>4, <1>5, <1>6 DEF Once

\* The thread inside call_once does its next step.
LEMMA BuildingKeeps ==
  ASSUME Once, pc' \in [Threads -> PCs],
         NEW t \in Threads, Build(t) \/ SetFine(t) \/ LeaveOnce(t)
  PROVE  Once'
<1>1. /\ pc[t] \in Building /\ once = "running" /\ mode.vec_path /\ mode' = mode
      /\ pc[t] = "build" => ~built
      /\ pc[t] = "leave" => fine_ok = built
      /\ fine_ok \in BOOLEAN /\ built \in BOOLEAN /\ (fine_ok => built)
  BY DEF Build, SetFine, LeaveOnce, At, Building, Once, calls
<1>2. \A u \in Threads \ {t} : pc[u] \notin Building \cup {"check", "fallback"}
  BY <1>1 DEF Once
<1>3. \A u \in Threads : /\ pc[u] = "once" => mode.vec_path
                         /\ pc[u] \in Ranking => built
  BY DEF Once
<1>4. CASE Build(t)
  <2>1. /\ pc[t] = "build" /\ built' \in BOOLEAN /\ Goto(t, "set")
        /\ once' = once /\ fine_ok' = fine_ok
    BY <1>4 DEF Build, At
  <2>2. \A u \in Threads : pc'[u] = IF u = t THEN "set" ELSE pc[u]
    BY <2>1 DEF Goto, Once
  <2>3. ~fine_ok /\ \A u \in Threads : pc[u] \notin Ranking
    BY <1>1, <1>3, <2>1
  <2>4. \A u \in Threads : pc'[u] \notin Ranking \cup {"build", "leave", "check", "fallback"}
    BY <1>2, <2>2, <2>3 DEF Ranking, Building
  <2> QED
    BY <1>1, <1>2, <1>3, <2>1, <2>2, <2>3, <2>4 DEF Once
<1>5. CASE SetFine(t)
  <2>1. /\ fine_ok' = built /\ Goto(t, "leave") /\ once' = once /\ built' = built
    BY <1>5 DEF SetFine, At
  <2>2. \A u \in Threads : pc'[u] = IF u = t THEN "leave" ELSE pc[u]
    BY <2>1 DEF Goto, Once
  <2>3. \A u \in Threads : /\ pc'[u] \notin {"build", "check", "fallback"}
                           /\ pc'[u] \in Ranking => built
    BY <1>2, <1>3, <2>2 DEF Ranking, Building
  <2> QED
    BY <1>1, <1>2, <1>3, <2>1, <2>2, <2>3 DEF Once
<1>6. CASE LeaveOnce(t)
  <2>1. /\ pc[t] = "leave" /\ Goto(t, "check") /\ once' = "done"
        /\ built' = built /\ fine_ok' = fine_ok
    BY <1>6 DEF LeaveOnce, OnceDone, At
  <2>2. \A u \in Threads : pc'[u] = IF u = t THEN "check" ELSE pc[u]
    BY <2>1 DEF Goto, Once
  <2>3. \A u \in Threads : /\ pc'[u] \notin Building \cup {"build", "leave", "fallback"}
                           /\ pc'[u] \in Ranking => built
    BY <1>2, <1>3, <2>2 DEF Ranking, Building
  <2> QED
    BY <1>1, <1>3, <2>1, <2>2, <2>3 DEF Once
<1> QED
  BY <1>4, <1>5, <1>6

LEMMA NextOnce ==
  ASSUME Once, [Next]_vars
  PROVE  Once'
<1>1. pc \in [Threads -> PCs] /\ pc' \in [Threads -> PCs]
  BY PlacesTyped DEF Once
<1>2. ASSUME NEW t \in Threads,
             NoMore(t) \/ TakeQuery(t) \/ Finish(t) \/ Search(t)
      PROVE  Once'
  <2>1. /\ UNCHANGED <<mode, init>>
        /\ \E l \in {"search", "end", "take", "fine", "finish"} : Goto(t, l)
    BY <1>2 DEF NoMore, TakeQuery, Finish, Search, calls
  <2> QED
    BY <1>1, <2>1, OnceFrame DEF PCs, Ranking, Building
<1>3. ASSUME NEW t \in Threads, CheckFine(t) \/ Recheck(t) \/ Fallback(t)
      PROVE  Once'
  <2>1. UNCHANGED <<mode, init>>
    BY <1>3 DEF CheckFine, Recheck, Fallback, calls
  <2>2. CASE CheckFine(t)
    <3>1. CASE fine_ok
      BY <1>1, <2>1, <2>2, <3>1, OnceFrame DEF CheckFine, Once, PCs, Ranking, Building
    <3>2. CASE ~fine_ok /\ mode.vec_path
      BY <1>1, <2>1, <2>2, <3>2, OnceFrame DEF CheckFine, PCs, Ranking, Building
    <3>3. CASE ~fine_ok /\ ~mode.vec_path
      BY <1>1, <2>1, <2>2, <3>3, OnceFrame DEF CheckFine, PCs, Ranking, Building
    <3> QED
      BY <3>1, <3>2, <3>3
  <2>3. CASE Recheck(t)
    <3>1. (once = "done" \/ ~mode.vec_path) /\ fine_ok = built
      BY <2>3 DEF Recheck, Once, At
    <3>2. CASE fine_ok
      BY <1>1, <2>1, <2>3, <3>1, <3>2, OnceFrame DEF Recheck, PCs, Ranking, Building
    <3>3. CASE ~fine_ok
      BY <1>1, <2>1, <2>3, <3>1, <3>3, OnceFrame DEF Recheck, PCs, Ranking, Building
    <3> QED
      BY <3>2, <3>3
  <2>4. CASE Fallback(t)
    BY <1>1, <2>1, <2>4, OnceFrame DEF Fallback, PCs, Ranking, Building
  <2> QED
    BY <1>3, <2>2, <2>3, <2>4
<1>4. ASSUME NEW t \in Threads, CallOnce(t) PROVE Once'
  <2>1. /\ built' = built /\ fine_ok' = fine_ok /\ mode' = mode /\ mode.vec_path
        /\ pc[t] = "once"
    BY <1>4 DEF CallOnce, At, Once, calls
  <2>2. CASE once = "no" /\ once' = "running" /\ Goto(t, "build")
    <3>1. \A u \in Threads : pc'[u] = IF u = t THEN "build" ELSE pc[u]
      BY <1>1, <2>2 DEF Goto
    <3>2. ~built /\ ~fine_ok
      BY <2>2 DEF Once
    <3>3. \A u \in Threads : pc[u] \notin Building \cup {"check", "fallback"} \cup Ranking
      BY <2>1, <2>2, <3>2 DEF Once
    <3>4. \A u \in Threads :
            /\ pc'[u] \notin {"leave", "check", "fallback"} \cup Ranking
            /\ pc'[u] \in Building => u = t
      BY <3>1, <3>3 DEF Building, Ranking
    <3> QED
      BY <1>1, <2>1, <2>2, <3>2, <3>4 DEF Once
  <2>3. CASE OnceSeen /\ UNCHANGED once /\ Goto(t, "check")
    <3>1. UNCHANGED <<mode, init>> /\ once = "done"
      BY <2>1, <2>3 DEF OnceSeen, init
    <3> QED
      BY <1>1, <2>3, <3>1, OnceFrame DEF PCs, Ranking, Building
  <2> QED
    BY <1>4, <2>2, <2>3 DEF CallOnce
<1>5. ASSUME NEW t \in Threads, Build(t) \/ SetFine(t) \/ LeaveOnce(t) PROVE Once'
  BY <1>1, <1>5, BuildingKeeps
<1>6. ASSUME NEW t \in Threads, NEW l \in Ranking \cup {"finish"},
             UNCHANGED <<mode, init>>, pc[t] \in Ranking, Goto(t, l)
      PROVE  Once'
  <2>1. built /\ l \notin {"once", "check", "fallback"} /\ l \in PCs \ Building
    BY <1>6 DEF Once, PCs, Ranking, Building
  <2> QED
    BY <1>1, <1>6, <2>1, OnceFrame
<1>7. ASSUME NEW t \in Threads, ClearSlot(t) \/ FillSlot(t) \/ Publish(t)
      PROVE  Once'
  <2>1. /\ UNCHANGED <<mode, init>> /\ pc[t] \in Ranking
        /\ \E l \in Ranking \cup {"finish"} : Goto(t, l)
    BY <1>7 DEF ClearSlot, FillSlot, Publish, At, Ranking, calls
  <2> QED
    BY <1>6, <2>1
<1>8. ASSUME NEW t \in Threads,
             Collect(t) \/ ReadPage(t) \/ FlatUse(t) \/ PutOwner(t) \/ PutData(t)
      PROVE  Once'
  <2>1. /\ UNCHANGED <<mode, init>> /\ pc[t] \in Ranking
        /\ \E l \in Ranking \cup {"finish"} : Goto(t, l)
    BY <1>8 DEF Collect, ReadPage, FlatUse, PutOwner, PutData, At, Ranking, calls
  <2> QED
    BY <1>6, <2>1
<1>9. CASE NextBatch
  <2>1. UNCHANGED <<mode, init>> /\ \A t \in Threads : pc'[t] = "take"
    BY <1>9 DEF NextBatch, FreshThreads
  <2> QED
    BY <1>1, <2>1 DEF Once, Ranking, Building, init
<1>10. CASE Hinter \/ UNCHANGED vars
  <2>1. UNCHANGED <<pc, mode, init>>
    BY <1>10 DEF Hinter, BgTake, BgHint, BgClear, vars, calls
  <2> QED
    BY <2>1 DEF Once, init
<1> QED
  BY <1>2, <1>3, <1>4, <1>5, <1>7, <1>8, <1>9, <1>10 DEF Next, Worker

\* Whoever ranks by pages finds the tables built, whenever it has read the flag; and
\* where there is a file nobody falls back to blocks before the building has failed.
THEOREM TablesAreThere == Spec => []TablesAreReady
<1>1. Init => Once
  BY InitOnce
<1>2. Once /\ [Next]_vars => Once'
  BY NextOnce
<1>3. Once => TablesAreReady
  BY DEF Once, TablesAreReady, Ranking, At
<1> QED
  BY <1>1, <1>2, <1>3, PTL DEF Spec

-----------------------------------------------------------------------------
(* Slots.                                                                  *)

LEMMA Division ==
  ASSUME NEW n \in Nat \ {0}, NEW a \in Nat
  PROVE  /\ a = n * (a \div n) + (a % n)
         /\ a \div n \in Int /\ a % n \in Int
<1>1. a = n * (a \div n) + (a % n)
  OBVIOUS
<1>2. a \div n \in Int /\ a % n \in Int
  OBVIOUS
<1> QED
  BY <1>1, <1>2

\* Numbers that are equal modulo n are equal, or at least n apart.
LEMMA RemaindersApart ==
  ASSUME NEW n \in Nat \ {0}, NEW a \in Nat, NEW b \in Nat,
         a % n = b % n, a <= b, b < a + n
  PROVE  a = b
<1> DEFINE qa == a \div n
           qb == b \div n
           r == a % n
<1>1. /\ a = n * qa + r /\ b = n * qb + r
      /\ qa \in Int /\ qb \in Int /\ r \in Int
  BY Division
<1> HIDE DEF qa, qb, r
<1>2. n * qa \in Int /\ n * qb \in Int
  BY <1>1
<1>3. n * qb - n * qa = b - a
  BY <1>1, <1>2
<1>4. CASE qb <= qa
  <2>1. n * qb <= n * qa
    BY <1>1, <1>4
  <2> QED
    BY <1>2, <1>3, <2>1
<1>5. CASE qb >= qa + 1
  <2>1. n * qb >= n * (qa + 1) /\ n * (qa + 1) = n * qa + n
    BY <1>1, <1>5
  <2> QED
    BY <1>2, <1>3, <2>1
<1> QED
  BY <1>1, <1>4, <1>5

LEMMA SlotsApart ==
  ASSUME NEW k \in Nat, NEW l \in Nat, NEW first \in Nat, NEW next \in Nat,
         SlotOf(k) = SlotOf(l), next <= first + Slots,
         first <= k, k < next, first <= l, l < next
  PROVE  k = l
<1>1. Slots \in Nat \ {0}
  BY QueryThreadsAssumption
<1>2. k % Slots \in Nat /\ l % Slots \in Nat
  BY <1>1
<1>3. k % Slots = l % Slots
  BY <1>2 DEF SlotOf
<1>4. k < l + Slots /\ l < k + Slots
  BY <1>1
<1>5. CASE k <= l
  BY <1>1, <1>3, <1>4, <1>5, RemaindersApart
<1>6. CASE l <= k
  BY <1>1, <1>3, <1>4, <1>6, RemaindersApart
<1> QED
  BY <1>5, <1>6

LEMMA InitTickets == Init => Tickets
<1> SUFFICES ASSUME Init PROVE Tickets
  OBVIOUS
<1>1. my_slot = [t \in Threads |-> NONE] /\ next_slot = 0
  BY DEF Init
<1>2. Holders = {} /\ Cardinality({}) = 0
  BY <1>1, FS_EmptySet DEF Holders
<1>3. IsTicket([t \in Threads |-> 0], 0)
  BY <1>1, <1>2 DEF IsTicket
<1> QED
  BY <1>1, <1>3 DEF Tickets, NONE

\* A thread without a slot gets the next number.
LEMMA NewSlotTickets ==
  ASSUME Tickets, NEW t \in Threads, my_slot[t] = NONE,
         my_slot' = [my_slot EXCEPT ![t] = SlotOf(next_slot)],
         next_slot' = next_slot + 1
  PROVE  Tickets'
<1>1. PICK ticket \in [Threads -> Nat], first \in Nat : IsTicket(ticket, first)
  BY DEF Tickets
<1>2. SlotOf(next_slot) \in Nat /\ SlotOf(next_slot) # NONE
  BY QueryThreadsAssumption DEF SlotOf, NONE, Tickets
<1>3. t \notin Holders /\ Holders' = Holders \cup {t}
  BY <1>2 DEF Holders, Tickets
<1>4. IsFiniteSet(Holders)
  BY QueryThreadsAssumption, FS_Subset DEF Holders
<1>5. /\ Cardinality(Holders') = Cardinality(Holders) + 1
      /\ Cardinality(Holders) \in Nat
  BY <1>3, <1>4, FS_AddElement, FS_CardinalityType
<1> DEFINE given == [ticket EXCEPT ![t] = next_slot]
<1>6. /\ given \in [Threads -> Nat] /\ given[t] = next_slot
      /\ \A u \in Holders : u # t /\ given[u] = ticket[u] /\ my_slot'[u] = my_slot[u]
  BY <1>3 DEF Tickets, Holders
<1> HIDE DEF given
<1>7. /\ next_slot' = first + Cardinality(Holders') /\ next_slot \in Nat
      /\ first <= next_slot /\ my_slot'[t] = SlotOf(next_slot)
  BY <1>1, <1>5 DEF IsTicket, Tickets
<1>8. \A u \in Holders : /\ my_slot[u] = SlotOf(ticket[u])
                         /\ first <= ticket[u] /\ ticket[u] < next_slot
                         /\ ticket[u] \in Nat
  BY <1>1 DEF IsTicket, Holders
<1>9. \A u \in Holders' : /\ my_slot'[u] = SlotOf(given[u])
                          /\ first <= given[u] /\ given[u] < next_slot'
  BY <1>3, <1>6, <1>7, <1>8
<1>10. \A u, w \in Holders' : given[u] = given[w] => u = w
  <2>1. \A u, w \in Holders : ticket[u] = ticket[w] => u = w
    BY <1>1 DEF IsTicket
  <2> QED
    BY <1>3, <1>6, <1>7, <1>8, <2>1
<1>11. \E k \in [Threads -> Nat], f \in Nat : IsTicket(k, f)'
  BY <1>6, <1>7, <1>9, <1>10 DEF IsTicket
<1>12. my_slot' \in [Threads -> Nat] /\ next_slot' \in Nat
  BY <1>2 DEF Tickets
<1> QED
  BY <1>11, <1>12 DEF Tickets

LEMMA NextTickets ==
  ASSUME Tickets, [Next]_vars
  PROVE  Tickets'
<1>1. ASSUME UNCHANGED <<my_slot, next_slot>>
      PROVE  Tickets'
  BY <1>1 DEF Tickets, IsTicket, Holders
<1>2. ASSUME NEW t \in Threads, ClearSlot(t) PROVE Tickets'
  <2>1. CASE my_slot[t] = NONE
    BY <1>2, <2>1, NewSlotTickets DEF ClearSlot
  <2>2. CASE my_slot[t] # NONE
    <3>1. UNCHANGED <<my_slot, next_slot>>
      BY <1>2, <2>2 DEF ClearSlot, Tickets
    <3> QED
      BY <1>1, <3>1
  <2> QED
    BY <2>1, <2>2
<1>3. ASSUME NEW t \in Threads, Worker(t), ~ClearSlot(t)
      PROVE  UNCHANGED <<my_slot, next_slot>>
  <2>1. CASE TakeQuery(t) \/ NoMore(t) \/ Search(t) \/ Finish(t)
    BY <2>1 DEF TakeQuery, NoMore, Search, Finish, slots
  <2>2. CASE \/ CheckFine(t) \/ CallOnce(t) \/ Build(t) \/ SetFine(t) \/ LeaveOnce(t)
             \/ Recheck(t) \/ Fallback(t)
    BY <2>2 DEF CheckFine, CallOnce, Build, SetFine, LeaveOnce, Recheck, Fallback, slots
  <2>3. CASE FillSlot(t) \/ Publish(t)
    BY <2>3 DEF FillSlot, Publish
  <2>4. CASE Collect(t) \/ ReadPage(t) \/ FlatUse(t) \/ PutOwner(t) \/ PutData(t)
    BY <2>4 DEF Collect, ReadPage, FlatUse, PutOwner, PutData, slots
  <2> QED
    BY <1>3, <2>1, <2>2, <2>3, <2>4 DEF Worker
<1>4. CASE NextBatch
  <2>1. my_slot' = [t \in Threads |-> NONE] /\ next_slot' = next_slot
    BY <1>4 DEF NextBatch, FreshThreads
  <2>2. Holders' = {} /\ Cardinality({}) = 0
    BY <2>1, FS_EmptySet DEF Holders
  <2>3. IsTicket([t \in Threads |-> 0], next_slot)'
    <3>1. next_slot' = next_slot + Cardinality(Holders')
      BY <2>1, <2>2 DEF Tickets
    <3> QED
      BY <2>1, <2>2, <3>1 DEF IsTicket
  <2>4. \E k \in [Threads -> Nat], f \in Nat : IsTicket(k, f)'
    <3>1. [t \in Threads |-> 0] \in [Threads -> Nat] /\ next_slot \in Nat
      BY DEF Tickets
    <3> QED
      BY <2>1, <2>2, <2>3, <3>1 DEF IsTicket
  <2> QED
    BY <2>1, <2>4 DEF Tickets, NONE
<1>5. CASE Hinter \/ UNCHANGED vars
  <2>1. UNCHANGED <<my_slot, next_slot>>
    BY <1>5 DEF Hinter, BgTake, BgHint, BgClear, vars, slots
  <2> QED
    BY <1>1, <2>1
<1> QED
  BY <1>1, <1>2, <1>3, <1>4, <1>5 DEF Next

\* Threads of one call never fill the same slot of the hinting thread, however many
\* calls there have been and wherever the slots' numbers have wrapped, as long as a
\* call starts no more threads than there are slots.
THEOREM OneWriterPerSlot == Spec => []SlotHasOneWriter
<1>1. Tickets => SlotHasOneWriter
  <2> SUFFICES ASSUME Tickets, Cardinality(Threads) <= Slots,
                      NEW t \in Threads, NEW u \in Threads,
                      my_slot[t] = my_slot[u], my_slot[t] # NONE
               PROVE  t = u
    BY DEF SlotHasOneWriter
  <2>1. PICK ticket \in [Threads -> Nat], first \in Nat : IsTicket(ticket, first)
    BY DEF Tickets
  <2>2. t \in Holders /\ u \in Holders /\ Holders \subseteq Threads
    BY DEF Holders
  <2>3. Cardinality(Holders) <= Cardinality(Threads)
        /\ Cardinality(Holders) \in Nat /\ Cardinality(Threads) \in Nat
    BY <2>2, QueryThreadsAssumption, FS_Subset, FS_CardinalityType
  <2>4. next_slot \in Nat /\ next_slot <= first + Slots
    BY <2>1, <2>3, QueryThreadsAssumption DEF IsTicket, Tickets
  <2>5. /\ SlotOf(ticket[t]) = SlotOf(ticket[u])
        /\ first <= ticket[t] /\ ticket[t] < next_slot
        /\ first <= ticket[u] /\ ticket[u] < next_slot
    BY <2>1, <2>2 DEF IsTicket
  <2>6. ticket[t] = ticket[u]
    BY <2>4, <2>5, SlotsApart
  <2> QED
    BY <2>1, <2>2, <2>6 DEF IsTicket
<1> QED
  BY InitTickets, NextTickets, <1>1, PTL DEF Spec

-----------------------------------------------------------------------------
(***************************************************************************)
(* The second stage of a search, which each of these threads runs with a   *)
(* ring and buffers of its own.                                            *)
(***************************************************************************)

\* The reads that io_uring has not given back, and with them those reaped and
\* not handled.
Flying == sq \cup kernel \cup DOMAIN cq
Live == Flying \cup DOMAIN results

\* The pages that are missing.
Lost == unread \cup left_out

\* The buffers behind the pages.
Held == { page_buf[p][1] : p \in DOMAIN page_buf }

\* Where the loops over the candidates are.
Passing ==
  /\ stage \notin {"collect", "block", "pages", "io", "rest"} => todo = {}
  /\ stage \in {"pages", "io", "rest"} => todo \subseteq io_cands
  /\ stage = "collect" => todo \cap io_cands = {}
  /\ stage = "coarse" => cand_ids = {}

\* A loop that does not ask whether a candidate is ranked has only candidates
\* before it that are not.
FirstTime ==
  /\ again = {}
  /\ stage \in {"collect", "block", "pages"} => todo \cap ranked = {}
  /\ stage \in {"collect", "pread", "ring", "queue"} => io_cands \cap ranked = {}
  /\ stage = "io" /\ setting.path # "peek" => io_cands \cap ranked = {} /\ todo = {}
  /\ stage = "rest" /\ setting.path # "peek" => todo \cap ranked = {}

\* A candidate that is not ranked has a turn to come, or lacks a page.
Covered ==
  /\ \A n \in cand_ids \ ranked :
       \/ n \in todo
       \/ stage \in {"collect", "pread", "ring", "queue", "io"} /\ n \in io_cands
       \/ PagesOf[n] \cap Lost # {}
  /\ stage \in {"coarse", "collect", "pread", "ring"} => Lost = {}

\* How many candidates there are.
Chosen ==
  stage # "coarse" =>
    \/ Cardinality(cand_ids) = Len(coarse)
    \/ setting.cut /\ Len(coarse) > K /\ Cardinality(cand_ids) \in Limits

Answered == stage = "done" => Len(answer) = Cardinality(refined)

\* A buffer is in the pool or behind a page.
Pool ==
  /\ IsInjective(free_list)
  /\ ToSet(free_list) \cap Held = {}
  /\ ToSet(free_list) \cup Held = Buffers

\* A read is in one place, has the buffer of its pages, and no other page has it.
Reads ==
  /\ Live \subseteq [block : Requests, buf : Buffers]
  /\ sq \cap kernel = {} /\ (sq \cup kernel) \cap DOMAIN cq = {}
  /\ Flying \cap DOMAIN results = {}
  /\ \A r \in Live :
       /\ r.block \subseteq DOMAIN page_buf /\ r.block \cap arrived = {}
       /\ \A p \in r.block : page_buf[p] = <<r.buf, Half(r.block, p)>>
       /\ \A p \in DOMAIN page_buf : page_buf[p][1] = r.buf => p \in r.block
  /\ \A r, s \in Live : r.buf = s.buf => r = s
  /\ \A p \in DOMAIN page_buf : p \in arrived \/ \E r \in Live : p \in r.block

\* The loop waits for as many reads as there are.
Counted ==
  /\ IsFiniteSet(Flying)
  /\ inflight = Cardinality(Flying) /\ left = inflight

\* What has been read in full lies in its buffer as long as it is needed.
Bytes ==
  /\ misread = {}
  /\ \A r \in DOMAIN cq : cq[r] = "full" => content[r.buf] = r.block
  /\ \A r \in DOMAIN results : results[r] \in {"full", "short"}
  /\ \A r \in DOMAIN cq : cq[r] \in {"full", "short"}
  /\ \A r \in DOMAIN results : results[r] = "full" => content[r.buf] = r.block
  /\ \A p \in arrived \cap DOMAIN page_buf : HoldsPage(p)

\* A page that is needed is to be asked for, has a buffer, or is known to be missing.
PagesDue ==
  /\ stage \in {"queue", "io", "rest"} =>
       PagesNeeded \subseteq pit \cup DOMAIN page_buf \cup Lost
  /\ pit \subseteq VecPages /\ pit \cap DOMAIN page_buf = {}
  /\ stage # "queue" => pit = {}

\* Outside its loop the ring is at rest.
Idle ==
  /\ stage \notin {"queue", "io", "rest"} => DOMAIN page_buf = {}
  /\ stage \notin {"queue", "io"} => Live = {}
  /\ stage \in {"coarse", "collect", "pread", "ring", "queue"} => arrived = {}

RerankIInv ==
  /\ RerankTypeOK /\ Passing /\ FirstTime /\ Covered /\ Chosen /\ Answered
  /\ HoldsNearest(refined, ranked)
  /\ Pool /\ Reads /\ Counted /\ Bytes /\ PagesDue /\ Idle

-----------------------------------------------------------------------------
(* Numbers, requests and pools.                                            *)

LEMMA LeastExists ==
  ASSUME NEW S \in SUBSET Nat, S # {}
  PROVE  \E n \in S : \A m \in S : n <= m
<1> DEFINE Below == { 0 .. k : k \in S }
           R == StrictSubsetOrdering(Nat)
<1>1. Below \subseteq FiniteSubsetsOf(Nat) /\ Below # {}
  <2>1. \A k \in S : IsFiniteSet(0 .. k) /\ 0 .. k \in SUBSET Nat
    BY FS_Interval
  <2> QED
    BY <2>1 DEF FiniteSubsetsOf
<1>2. IsWellFoundedOn(R, FiniteSubsetsOf(Nat))
  BY FS_StrictSubsetOrderingWellFounded
<1>3. PICK T \in Below : \A U \in Below : <<U, T>> \notin R
  <2> HIDE DEF Below, R
  <2> QED
    BY <1>1, <1>2, WFMin
<1>4. PICK n \in S : T = 0 .. n
  OBVIOUS
<1>5. ASSUME NEW m \in S PROVE n <= m
  <2>1. SUFFICES ASSUME m < n PROVE FALSE
    OBVIOUS
  <2>2. 0 .. m \in SUBSET Nat /\ 0 .. n \in SUBSET Nat /\ 0 .. m \subseteq 0 .. n
    BY <2>1
  <2>3. n \in 0 .. n /\ n \notin 0 .. m
    BY <2>1
  <2>4. 0 .. m # 0 .. n
    BY <2>3
  <2>5. <<0 .. m, 0 .. n>> \in R
    BY <2>2, <2>4 DEF StrictSubsetOrdering
  <2> QED
    BY <1>3, <1>4, <2>5
<1> QED
  BY <1>5

LEMMA FirstIsLeast ==
  ASSUME NEW S \in SUBSET Nat, S # {}
  PROVE  First(S) \in S /\ \A m \in S : First(S) <= m
BY LeastExists DEF First

\* A request has one page, or two that follow each other.
LEMMA RequestPages ==
  ASSUME NEW r \in Requests
  PROVE  /\ r # {} /\ r \in SUBSET Nat /\ First(r) \in r
         /\ \A p \in r : Half(r, p) \in {0, 1} /\ First(r) + Half(r, p) = p
<1>1. PICK p \in Nat : r = {p} \/ r = {p, p + 1}
  BY FineRerankAssumption DEF Requests
<1>2. r # {} /\ r \in SUBSET Nat
  BY <1>1
<1>3. First(r) \in r /\ \A m \in r : First(r) <= m
  BY <1>2, FirstIsLeast
<1>4. First(r) = p
  BY <1>1, <1>3
<1> QED
  BY <1>1, <1>2, <1>3, <1>4 DEF Half

LEMMA BuffersFinite ==
  ASSUME NEW S \in SUBSET Buffers
  PROVE  IsFiniteSet(S) /\ Cardinality(S) \in Nat
BY FineRerankAssumption, FS_Subset, FS_CardinalityType

\* SetToSeq lists a finite set, each element once.
LEMMA SeqOfSet ==
  ASSUME NEW S \in SUBSET Buffers
  PROVE  /\ SetToSeq(S) \in Seq(S) /\ Len(SetToSeq(S)) = Cardinality(S)
         /\ IsInjective(SetToSeq(S)) /\ ToSet(SetToSeq(S)) = S
<1> DEFINE N == Cardinality(S)
           s == SetToSeq(S)
<1>1. IsFiniteSet(S) /\ N \in Nat
  BY BuffersFinite
<1>2. PICK f \in Bijection(1 .. N, S) : TRUE
  BY <1>1, FS_CardinalityType DEF ExistsBijection
<1>3. f \in [1 .. N -> S] /\ IsInjective(f)
  BY <1>2 DEF Bijection, Injection
<1>4. s \in [1 .. N -> S] /\ IsInjective(s)
  BY <1>3 DEF SetToSeq
<1> HIDE DEF s
<1>5. IsFiniteSet(1 .. N) /\ Cardinality(1 .. N) = N
  BY <1>1, FS_Interval
<1>6. s \in Injection(1 .. N, S)
  BY <1>4 DEF Injection
<1>7. s \in Surjection(1 .. N, S)
  <2> HIDE DEF N
  <2>1. Cardinality(1 .. N) = Cardinality(S)
    BY <1>5 DEF N
  <2> QED
    BY <1>1, <1>6, <2>1, FS_Injection
<1>8. ToSet(s) = S
  BY <1>4, <1>7 DEF ToSet, Surjection
<1>9. s \in Seq(S) /\ Len(s) = N
  BY <1>1, <1>4
<1> QED
  BY <1>4, <1>8, <1>9 DEF s

\* As many elements as places.
LEMMA LenOfInjective ==
  ASSUME NEW S, NEW s \in Seq(S), IsInjective(s)
  PROVE  IsFiniteSet(ToSet(s)) /\ Cardinality(ToSet(s)) = Len(s)
<1> DEFINE N == Len(s)
<1>1. N \in Nat /\ s \in [1 .. N -> ToSet(s)] /\ DOMAIN s = 1 .. N
  BY DEF ToSet
<1>2. IsFiniteSet(1 .. N) /\ Cardinality(1 .. N) = N
  BY <1>1, FS_Interval
<1>3. s \in Surjection(1 .. N, ToSet(s)) /\ s \in Injection(1 .. N, ToSet(s))
  BY <1>1 DEF Surjection, Injection, ToSet
<1> HIDE DEF N
<1>4. IsFiniteSet(ToSet(s))
      /\ (Cardinality(ToSet(s)) = Cardinality(1 .. N) <=> s \in Injection(1 .. N, ToSet(s)))
  BY <1>2, <1>3, FS_Surjection
<1> QED
  BY <1>2, <1>3, <1>4 DEF N

\* allocBuffer takes the last buffer of the pool.
LEMMA PoolGives ==
  ASSUME free_list \in Seq(Buffers), IsInjective(free_list), free_list # <<>>
  PROVE  /\ Last(free_list) \in ToSet(free_list)
         /\ Front(free_list) \in Seq(Buffers) /\ IsInjective(Front(free_list))
         /\ ToSet(Front(free_list)) = ToSet(free_list) \ {Last(free_list)}
<1> DEFINE s == free_list
           N == Len(s)
           f == Front(s)
<1>1. /\ s \in Seq(Buffers) /\ N \in Nat \ {0} /\ DOMAIN s = 1 .. N
      /\ \A i, j \in 1 .. N : s[i] = s[j] => i = j
  BY DEF IsInjective
<1>2. /\ f \in Seq(Buffers) /\ Len(f) = N - 1 /\ DOMAIN f = 1 .. N - 1
      /\ \A i \in 1 .. N - 1 : f[i] = s[i]
  BY <1>1 DEF Front
<1> HIDE DEF s, f, N
<1>3. IsInjective(f)
  BY <1>1, <1>2 DEF IsInjective
<1>4. Last(s) = s[N] /\ N \in 1 .. N
  BY <1>1 DEF Last, N
<1>5. ToSet(f) = ToSet(s) \ {s[N]}
  <2>1. ASSUME NEW x \in ToSet(f) PROVE x \in ToSet(s) \ {s[N]}
    <3>1. PICK i \in 1 .. N - 1 : x = f[i]
      BY <1>2 DEF ToSet
    <3>2. i \in 1 .. N /\ i # N /\ x = s[i]
      BY <1>1, <1>2, <3>1
    <3> QED
      BY <1>1, <1>4, <3>2 DEF ToSet
  <2>2. ASSUME NEW x \in ToSet(s) \ {s[N]} PROVE x \in ToSet(f)
    <3>1. PICK i \in 1 .. N : x = s[i]
      BY <1>1 DEF ToSet
    <3>2. i \in 1 .. N - 1
      BY <1>1, <3>1
    <3> QED
      BY <1>2, <3>1, <3>2 DEF ToSet
  <2> QED
    BY <2>1, <2>2
<1>6. Last(s) \in ToSet(s)
  BY <1>1, <1>4 DEF ToSet
<1> QED
  BY <1>2, <1>3, <1>4, <1>5, <1>6 DEF s, f

\* freeBuffer puts one back.
LEMMA PoolTakes ==
  ASSUME free_list \in Seq(Buffers), IsInjective(free_list),
         NEW b \in Buffers \ ToSet(free_list)
  PROVE  /\ Append(free_list, b) \in Seq(Buffers) /\ IsInjective(Append(free_list, b))
         /\ ToSet(Append(free_list, b)) = ToSet(free_list) \cup {b}
<1> DEFINE s == free_list
           N == Len(s)
           f == Append(s, b)
<1>1. /\ s \in Seq(Buffers) /\ N \in Nat /\ DOMAIN s = 1 .. N
      /\ \A i, j \in 1 .. N : s[i] = s[j] => i = j
  BY DEF IsInjective
<1>2. /\ f \in Seq(Buffers) /\ Len(f) = N + 1 /\ DOMAIN f = 1 .. N + 1
      /\ \A i \in 1 .. N : f[i] = s[i]
      /\ f[N + 1] = b
  BY <1>1
<1>3. \A i \in 1 .. N : s[i] # b
  BY <1>1 DEF ToSet
<1> HIDE DEF s, f, N
<1>4. \A i \in 1 .. N + 1 : i \in 1 .. N \/ i = N + 1
  BY <1>1
<1>5. IsInjective(f)
  BY <1>1, <1>2, <1>3, <1>4 DEF IsInjective
<1>6. ToSet(f) = ToSet(s) \cup {b}
  <2>1. N + 1 \in 1 .. N + 1 /\ 1 .. N \subseteq 1 .. N + 1
    BY <1>1
  <2> QED
    BY <1>1, <1>2, <1>4, <2>1 DEF ToSet
<1> QED
  BY <1>2, <1>5, <1>6 DEF s, f

\* Several at once.
LEMMA PoolTakesAll ==
  ASSUME free_list \in Seq(Buffers), IsInjective(free_list), NEW S \in SUBSET Buffers,
         NEW t \in Seq(S), IsInjective(t), ToSet(t) = S, ToSet(free_list) \cap S = {}
  PROVE  /\ free_list \o t \in Seq(Buffers) /\ IsInjective(free_list \o t)
         /\ ToSet(free_list \o t) = ToSet(free_list) \cup S
<1> DEFINE s == free_list
           M == Len(s)
           N == Len(t)
           f == s \o t
<1>1. /\ s \in Seq(Buffers) /\ M \in Nat /\ DOMAIN s = 1 .. M
      /\ \A i, j \in 1 .. M : s[i] = s[j] => i = j
  BY DEF IsInjective
<1>2. /\ t \in Seq(Buffers) /\ N \in Nat /\ DOMAIN t = 1 .. N
      /\ \A i, j \in 1 .. N : t[i] = t[j] => i = j
  BY DEF IsInjective
<1>3. /\ f \in Seq(Buffers) /\ Len(f) = M + N /\ DOMAIN f = 1 .. M + N
      /\ \A i \in 1 .. M : f[i] = s[i]
      /\ \A i \in M + 1 .. M + N : f[i] = t[i - M]
  BY <1>1, <1>2
<1>4. \A i \in 1 .. M, j \in 1 .. N : s[i] # t[j]
  BY <1>1, <1>2 DEF ToSet
<1> HIDE DEF s, f, M, N
<1>5. \A i \in 1 .. M + N : i \in 1 .. M \/ (i \in M + 1 .. M + N /\ i - M \in 1 .. N)
  BY <1>1, <1>2
<1>6. IsInjective(f)
  <2>1. SUFFICES ASSUME NEW i \in 1 .. M + N, NEW j \in 1 .. M + N, f[i] = f[j]
                 PROVE  i = j
    BY <1>3 DEF IsInjective
  <2>2. CASE i \in 1 .. M /\ j \in 1 .. M
    BY <1>1, <1>3, <2>1, <2>2
  <2>3. CASE i \notin 1 .. M /\ j \notin 1 .. M
    <3>1. t[i - M] = t[j - M] /\ i - M \in 1 .. N /\ j - M \in 1 .. N
      BY <1>3, <1>5, <2>1, <2>3
    <3>2. i - M = j - M
      BY <1>2, <3>1
    <3> QED
      BY <1>1, <1>2, <3>2
  <2>4. CASE i \in 1 .. M /\ j \notin 1 .. M
    BY <1>3, <1>4, <1>5, <2>1, <2>4
  <2>5. CASE i \notin 1 .. M /\ j \in 1 .. M
    BY <1>3, <1>4, <1>5, <2>1, <2>5
  <2> QED
    BY <2>2, <2>3, <2>4, <2>5
<1>7. ToSet(f) = ToSet(s) \cup ToSet(t)
  <2>1. ASSUME NEW x \in ToSet(f) PROVE x \in ToSet(s) \cup ToSet(t)
    <3>1. PICK i \in 1 .. M + N : x = f[i]
      BY <1>3 DEF ToSet
    <3>2. CASE i \in 1 .. M
      <4>1. x = s[i] /\ i \in DOMAIN s
        BY <1>1, <1>3, <3>1, <3>2
      <4> QED
        BY <4>1 DEF ToSet
    <3>3. CASE i \in M + 1 .. M + N /\ i - M \in 1 .. N
      <4>1. x = t[i - M] /\ i - M \in DOMAIN t
        BY <1>2, <1>3, <3>1, <3>3
      <4> QED
        BY <4>1 DEF ToSet
    <3> QED
      BY <1>5, <3>2, <3>3
  <2>2. ASSUME NEW x \in ToSet(s) PROVE x \in ToSet(f)
    <3>1. PICK i \in 1 .. M : x = s[i]
      BY <1>1 DEF ToSet
    <3>2. i \in 1 .. M + N
      BY <1>1, <1>2
    <3> QED
      BY <1>3, <3>1, <3>2 DEF ToSet
  <2>3. ASSUME NEW x \in ToSet(t) PROVE x \in ToSet(f)
    <3>1. PICK j \in 1 .. N : x = t[j]
      BY <1>2 DEF ToSet
    <3>2. M + j \in M + 1 .. M + N /\ M + j \in 1 .. M + N /\ (M + j) - M = j
      BY <1>1, <1>2
    <3>3. f[M + j] = t[(M + j) - M]
      BY <1>3, <3>2
    <3>4. x = f[M + j] /\ M + j \in DOMAIN f
      BY <1>3, <3>1, <3>2, <3>3
    <3> QED
      BY <3>4 DEF ToSet
  <2> QED
    BY <2>1, <2>2, <2>3
<1> QED
  BY <1>3, <1>6, <1>7 DEF s, f

-----------------------------------------------------------------------------
(* What a step leaves alone.                                               *)

LEMMA RingRests ==
  ASSUME Pool, Reads, Counted, UNCHANGED <<ring, buffers, reaping>>
  PROVE  /\ Pool' /\ Reads' /\ Counted'
         /\ Live' = Live /\ Held' = Held
         /\ Bytes /\ misread' = {} => Bytes'
<1>1. UNCHANGED <<sq, kernel, cq, inflight, page_buf, free_list, content, pit, left,
                  results, arrived>>
  BY DEF ring, buffers, reaping
<1>2. Live' = Live /\ Held' = Held /\ Flying' = Flying
  BY <1>1 DEF Live, Flying, Held
<1>3. Pool'
  BY <1>1, <1>2 DEF Pool
<1>4. Reads'
  BY <1>1, <1>2 DEF Reads
<1>5. Counted'
  BY <1>1, <1>2 DEF Counted
<1>6. Bytes /\ misread' = {} => Bytes'
  BY <1>1 DEF Bytes, HoldsPage
<1> QED
  BY <1>2, <1>3, <1>4, <1>5, <1>6

\* A node ranked for the first time.
LEMMA RankKeeps ==
  ASSUME NEW n \in Nodes \ ranked, ranked \in SUBSET Nodes,
         HoldsNearest(refined, ranked), again = {}, Rank(n)
  PROVE  /\ HoldsNearest(refined', ranked') /\ ranked' = ranked \cup {n}
         /\ refined' \subseteq ranked' /\ again' = {}
<1>1. ranked' = ranked \cup {n} /\ again' = {} /\ refined' = Consider(refined, n)
  BY DEF Rank
<1>2. CASE Admits(refined, Dist[Farthest(refined)], n)
  <2>1. refined' = Insert(refined, n)
    BY <1>1, <1>2 DEF Consider, Admits, K
  <2> QED
    BY <1>1, <1>2, <2>1, InsertHoldsNearest DEF HoldsNearest
<1>3. CASE ~Admits(refined, Dist[Farthest(refined)], n)
  <2>1. refined' = refined
    BY <1>1, <1>3 DEF Consider, Admits, K
  <2>2. HoldsNearest(refined, ranked \cup {n})
    BY <1>3, RejectedIsFarther
  <2> QED
    BY <1>1, <2>1, <2>2 DEF HoldsNearest
<1> QED
  BY <1>2, <1>3

-----------------------------------------------------------------------------
(* The invariant.                                                          *)

\* What RerankTypeOK says of the candidates, and of the ring.
Typed ==
  /\ setting \in Settings
  /\ coarse \in Seq(Nodes) /\ cand_ids \subseteq Nodes
  /\ io_cands \subseteq cand_ids /\ todo \subseteq cand_ids
  /\ refined \subseteq ranked /\ ranked \subseteq cand_ids

RingTyped ==
  /\ DOMAIN page_buf \subseteq VecPages
  /\ \A p \in DOMAIN page_buf : page_buf[p] \in Buffers \X {0, 1}
  /\ free_list \in Seq(Buffers) /\ content \in [Buffers -> Requests \cup {{}}]
  /\ sq \cup kernel \cup DOMAIN cq \subseteq [block : Requests, buf : Buffers]
  /\ inflight \in Nat /\ left \in Nat

Stages == {"coarse", "collect", "block", "pread", "pages", "ring", "queue", "io",
           "rest", "extract", "done"}

LEMMA TypesSplit == RerankTypeOK <=> Typed /\ RingTyped /\ stage \in Stages
BY DEF RerankTypeOK, Typed, RingTyped, Stages

LEMMA RingTypesRest ==
  ASSUME RingTyped, UNCHANGED <<ring, buffers, reaping>>
  PROVE  RingTyped'
BY DEF RingTyped, ring, buffers, reaping

LEMMA SettingTyped ==
  ASSUME setting \in Settings
  PROVE  /\ setting.path \in {"pread", "peek", "barrier", "block"}
         /\ setting.fails \in BOOLEAN /\ setting.merge \in BOOLEAN
BY FineRerankAssumption

LEMMA NodePages ==
  ASSUME NEW n \in Nodes
  PROVE  PagesOf[n] # {} /\ PagesOf[n] \subseteq VecPages
BY FineRerankAssumption

LEMMA InitRerank == RerankInit => RerankIInv
<1> SUFFICES ASSUME RerankInit PROVE RerankIInv
  OBVIOUS
<1>1. /\ setting \in Settings /\ stage = "coarse"
      /\ coarse = <<>> /\ cand_ids = {} /\ io_cands = {} /\ todo = {}
      /\ refined = {} /\ ranked = {} /\ again = {} /\ misread = {} /\ Lost = {}
      /\ DOMAIN page_buf = {} /\ free_list = SetToSeq(Buffers)
      /\ content = [b \in Buffers |-> {}]
      /\ sq = {} /\ kernel = {} /\ DOMAIN cq = {} /\ DOMAIN results = {}
      /\ inflight = 0 /\ left = 0 /\ pit = {} /\ arrived = {}
  BY DEF RerankInit, Lost
<1>2. Flying = {} /\ Live = {} /\ Held = {} /\ PagesNeeded = {}
  BY <1>1 DEF Flying, Live, Held, PagesNeeded
<1>3. Cardinality({}) = 0 /\ IsFiniteSet({}) /\ Ef \in Nat \ {0}
  BY FS_EmptySet, SearchHeapsAssumption
<1>4. /\ free_list \in Seq(Buffers) /\ IsInjective(free_list)
      /\ ToSet(free_list) = Buffers
  BY <1>1, SeqOfSet
<1>5. <<>> \in Seq(Nodes)
  OBVIOUS
<1>6. Typed /\ RingTyped /\ stage \in Stages
  BY <1>1, <1>4, <1>5 DEF Typed, RingTyped, Stages
<1>7. Passing /\ FirstTime /\ Covered /\ Chosen /\ Answered
  BY <1>1 DEF Passing, FirstTime, Covered, Chosen, Answered
<1>8. HoldsNearest(refined, ranked)
  BY <1>1, <1>3 DEF HoldsNearest
<1>9. Pool
  BY <1>2, <1>4 DEF Pool
<1>10. Reads /\ Counted
  BY <1>1, <1>2, <1>3 DEF Reads, Counted
<1>11. Bytes /\ PagesDue /\ Idle
  BY <1>1, <1>2 DEF Bytes, PagesDue, Idle
<1> QED
  BY <1>6, <1>7, <1>8, <1>9, <1>10, <1>11, TypesSplit DEF RerankIInv

\* A step that leaves ring, pages and buffers alone.
LEMMA RingStaysRight ==
  ASSUME RerankIInv, UNCHANGED <<ring, buffers, reaping>>, misread' = misread
  PROVE  Pool' /\ Reads' /\ Counted' /\ Bytes' /\ RingTyped' /\ Live' = Live
<1>1. Pool /\ Reads /\ Counted /\ Bytes /\ RingTyped
  BY TypesSplit DEF RerankIInv
<1>2. misread' = {}
  BY <1>1 DEF Bytes
<1> QED
  BY <1>1, <1>2, RingRests, RingTypesRest

\* One that keeps the stage too, and what is needed and missing.
LEMMA PagesStay ==
  ASSUME RerankIInv, UNCHANGED <<ring, buffers, reaping, stage, unread>>,
         stage \in {"queue", "io", "rest"} => io_cands' = io_cands
  PROVE  PagesDue' /\ Idle'
<1>1. UNCHANGED <<page_buf, pit, arrived, Lost, stage>>
  BY DEF buffers, reaping, Lost
<1>2. PagesDue /\ Idle /\ Live' = Live
  BY RingRests DEF RerankIInv
<1>3. stage \in {"queue", "io", "rest"} => PagesNeeded' = PagesNeeded
  BY DEF PagesNeeded
<1>4. PagesDue'
  BY <1>1, <1>2, <1>3 DEF PagesDue
<1>5. Idle'
  BY <1>1, <1>2 DEF Idle
<1> QED
  BY <1>4, <1>5

-----------------------------------------------------------------------------
(* The loops over the candidates.                                          *)

\* The candidate is ranked, and was not before.
LEMMA RankedStep ==
  ASSUME RerankIInv, NEW n \in todo \ ranked, Passed(n), Rank(n),
         stage \in {"collect", "block", "pages", "io", "rest"},
         UNCHANGED <<io_cands, unread>>, misread' = misread
  PROVE  RerankIInv'
<1>1. /\ Typed /\ stage \in Stages /\ Passing /\ FirstTime /\ Covered /\ Chosen
      /\ HoldsNearest(refined, ranked)
  BY TypesSplit DEF RerankIInv
<1>2. /\ UNCHANGED <<setting, stage, coarse, cand_ids, io_cands, answer, unread, Lost>>
      /\ UNCHANGED <<ring, buffers, reaping>> /\ todo' = todo \ {n}
  BY DEF Passed, reaping, Lost
<1>3. n \in Nodes \ ranked /\ ranked \in SUBSET Nodes /\ n \in cand_ids /\ again = {}
  BY <1>1 DEF Typed, FirstTime
<1>4. /\ HoldsNearest(refined', ranked') /\ ranked' = ranked \cup {n}
      /\ refined' \subseteq ranked' /\ again' = {}
  BY <1>1, <1>3, RankKeeps
<1>5. Pool' /\ Reads' /\ Counted' /\ Bytes' /\ RingTyped'
  BY <1>2, RingStaysRight
<1>6. PagesDue' /\ Idle'
  BY <1>2, PagesStay
<1>7. Typed' /\ (stage \in Stages)'
  BY <1>1, <1>2, <1>3, <1>4 DEF Typed
<1>8. Passing'
  BY <1>1, <1>2 DEF Passing
<1>9. FirstTime'
  <2>1. stage = "collect" => n \notin io_cands
    BY <1>1 DEF Passing
  <2>2. ~(stage = "io" /\ setting.path # "peek")
    BY <1>1 DEF FirstTime
  <2> QED
    BY <1>1, <1>2, <1>4, <2>1, <2>2 DEF FirstTime
<1>10. Covered'
  <2>1. ASSUME NEW m \in cand_ids \ ranked'
        PROVE  \/ m \in todo'
               \/ stage \in {"collect", "pread", "ring", "queue", "io"} /\ m \in io_cands
               \/ PagesOf[m] \cap Lost # {}
    BY <1>1, <1>2, <1>4, <2>1 DEF Covered
  <2> QED
    BY <1>1, <1>2, <2>1 DEF Covered
<1>11. Chosen' /\ Answered'
  BY <1>1, <1>2 DEF Chosen, Answered
<1>12. RerankTypeOK'
  BY <1>5, <1>7 DEF RerankTypeOK, Typed, RingTyped, Stages
<1> QED
  BY <1>4, <1>5, <1>6, <1>8, <1>9, <1>10, <1>11, <1>12 DEF RerankIInv

\* The candidate is passed over.
LEMMA SkippedStep ==
  ASSUME RerankIInv, NEW n \in todo, Passed(n), UNCHANGED <<heap, io_cands>>,
         stage \in {"block", "pages", "io", "rest"}, unread \subseteq unread',
         stage # "block" => unread' = unread,
         stage = "io" \/ n \in ranked \/ PagesOf[n] \cap Lost' # {}
  PROVE  RerankIInv'
<1>1. /\ Typed /\ stage \in Stages /\ Passing /\ FirstTime /\ Covered /\ Chosen
      /\ HoldsNearest(refined, ranked) /\ PagesDue /\ Idle
  BY TypesSplit DEF RerankIInv
<1>2. /\ UNCHANGED <<setting, stage, coarse, cand_ids, io_cands, answer>>
      /\ UNCHANGED <<ring, buffers, reaping>> /\ todo' = todo \ {n}
      /\ UNCHANGED <<refined, ranked, again, misread>>
      /\ Lost \subseteq Lost' /\ (stage # "block" => Lost' = Lost)
  BY DEF Passed, heap, reaping, Lost
<1>3. Pool' /\ Reads' /\ Counted' /\ Bytes' /\ RingTyped' /\ Live' = Live
  BY <1>2, RingStaysRight
<1>4. Typed' /\ (stage \in Stages)'
  BY <1>1, <1>2 DEF Typed
<1>5. Passing'
  BY <1>1, <1>2 DEF Passing
<1>6. FirstTime'
  BY <1>1, <1>2 DEF FirstTime
<1>7. Covered'
  <2>1. ASSUME NEW m \in cand_ids \ ranked
        PROVE  \/ m \in todo'
               \/ stage \in {"collect", "pread", "ring", "queue", "io"} /\ m \in io_cands
               \/ PagesOf[m] \cap Lost' # {}
    <3>1. CASE m = n
      BY <1>1, <3>1 DEF Passing
    <3>2. CASE m # n
      BY <1>1, <1>2, <3>2 DEF Covered
    <3> QED
      BY <3>1, <3>2
  <2> QED
    BY <1>2, <2>1 DEF Covered
<1>8. Chosen' /\ Answered' /\ HoldsNearest(refined', ranked')
  BY <1>1, <1>2 DEF Chosen, Answered
<1>9. PagesDue' /\ Idle'
  <2>1. UNCHANGED <<page_buf, pit, arrived, stage>>
    BY <1>2 DEF buffers, reaping
  <2>2. PagesNeeded' = PagesNeeded
    BY <1>2 DEF PagesNeeded
  <2>3. PagesDue'
    BY <1>1, <1>2, <2>1, <2>2 DEF PagesDue
  <2>4. Idle'
    BY <1>1, <1>3, <2>1 DEF Idle
  <2> QED
    BY <2>3, <2>4
<1>10. RerankTypeOK'
  BY <1>3, <1>4 DEF RerankTypeOK, Typed, RingTyped, Stages
<1> QED
  BY <1>3, <1>5, <1>6, <1>7, <1>8, <1>9, <1>10 DEF RerankIInv

LEMMA CollectPagesKeeps ==
  ASSUME RerankIInv, NEW n \in todo, CollectPages(n)
  PROVE  RerankIInv'
<1>1. /\ Typed /\ stage \in Stages /\ Passing /\ FirstTime /\ Covered /\ Chosen
      /\ HoldsNearest(refined, ranked)
  BY TypesSplit DEF RerankIInv
<1>2. /\ UNCHANGED <<setting, stage, coarse, cand_ids, answer, unread, Lost>>
      /\ UNCHANGED <<ring, buffers, reaping>> /\ todo' = todo \ {n}
      /\ UNCHANGED <<refined, ranked, again, misread>>
      /\ stage = "collect" /\ io_cands' = io_cands \cup {n}
  BY DEF CollectPages, Passed, heap, reaping, Lost
<1>3. Pool' /\ Reads' /\ Counted' /\ Bytes' /\ RingTyped'
  BY <1>2, RingStaysRight
<1>4. PagesDue' /\ Idle'
  BY <1>2, PagesStay
<1>5. Typed' /\ (stage \in Stages)'
  BY <1>1, <1>2 DEF Typed
<1>6. Passing'
  BY <1>1, <1>2 DEF Passing
<1>7. FirstTime'
  BY <1>1, <1>2 DEF FirstTime
<1>8. Covered'
  BY <1>1, <1>2 DEF Covered
<1>9. Chosen' /\ Answered' /\ HoldsNearest(refined', ranked')
  BY <1>1, <1>2 DEF Chosen, Answered
<1>10. RerankTypeOK'
  BY <1>3, <1>5 DEF RerankTypeOK, Typed, RingTyped, Stages
<1> QED
  BY <1>3, <1>4, <1>6, <1>7, <1>8, <1>9, <1>10 DEF RerankIInv

\* What lies in the buffers of a candidate's pages, when all have arrived.
LEMMA BytesOfCandidate ==
  ASSUME RerankIInv, NEW n \in Nodes, HasBuffers(n), PagesOf[n] \subseteq arrived,
         RankFromBuffers(n)
  PROVE  misread' = misread
<1>1. \A p \in PagesOf[n] : HoldsPage(p)
  BY DEF RerankIInv, Bytes, HasBuffers
<1> QED
  BY <1>1 DEF RankFromBuffers

LEMMA StepKeeps ==
  ASSUME RerankIInv, NEW n \in todo, Step(n)
  PROVE  RerankIInv'
<1>1. /\ Typed /\ Passing /\ FirstTime /\ PagesDue /\ Idle /\ Reads
      /\ n \in Nodes /\ setting.path \in {"pread", "peek", "barrier", "block"}
  BY TypesSplit, SettingTyped DEF RerankIInv, Typed
<1>2. ASSUME CollectVector(n) \/ RankFromBlock(n) PROVE RerankIInv'
  <2>1. /\ stage \in {"collect", "block"} /\ Passed(n) /\ Rank(n)
        /\ UNCHANGED <<io_cands, misread, unread>>
    BY <1>2 DEF CollectVector, RankFromBlock
  <2>2. n \notin ranked
    BY <1>1, <2>1 DEF FirstTime
  <2> QED
    BY <2>1, <2>2, RankedStep
<1>3. ASSUME BlockFails(n) PROVE RerankIInv'
  <2>1. /\ stage = "block" /\ Passed(n) /\ unread' = unread \cup PagesOf[n]
        /\ UNCHANGED <<io_cands, heap>>
    BY <1>3 DEF BlockFails
  <2>2. PagesOf[n] \cap Lost' # {} /\ unread \subseteq unread'
    BY <1>1, <2>1, NodePages DEF Lost
  <2> QED
    BY <2>1, <2>2, SkippedStep
<1>4. ASSUME RankFromPages(n) PROVE RerankIInv'
  <2>1. stage = "pages" /\ Passed(n) /\ UNCHANGED <<io_cands, misread, unread>>
    BY <1>4 DEF RankFromPages
  <2>2. CASE PagesOf[n] \cap unread = {}
    <3>1. Rank(n)
      BY <1>4, <2>2 DEF RankFromPages
    <3>2. n \notin ranked
      BY <1>1, <2>1 DEF FirstTime
    <3> QED
      BY <2>1, <3>1, <3>2, RankedStep
  <2>3. CASE PagesOf[n] \cap unread # {}
    <3>1. UNCHANGED heap
      BY <1>4, <2>1, <2>3 DEF RankFromPages, heap
    <3>2. PagesOf[n] \cap Lost' # {}
      BY <2>1, <2>3 DEF Lost
    <3> QED
      BY <2>1, <3>1, <3>2, SkippedStep
  <2> QED
    BY <2>2, <2>3
<1>5. ASSUME PeekAt(n) PROVE RerankIInv'
  <2>1. stage = "io" /\ Passed(n) /\ UNCHANGED <<io_cands, unread>>
    BY <1>5 DEF PeekAt
  <2>2. CASE Rankable(n)
    <3>1. RankFromBuffers(n)
      BY <1>5, <2>2 DEF PeekAt
    <3>2. n \notin ranked /\ PagesOf[n] \subseteq arrived /\ HasBuffers(n)
      BY <2>2 DEF Rankable
    <3>3. Rank(n) /\ misread' = misread
      BY <1>1, <3>1, <3>2, BytesOfCandidate DEF RankFromBuffers
    <3> QED
      BY <2>1, <3>2, <3>3, RankedStep
  <2>3. CASE ~Rankable(n)
    <3>1. UNCHANGED heap
      BY <1>5, <2>3 DEF PeekAt
    <3> QED
      BY <2>1, <3>1, SkippedStep
  <2> QED
    BY <2>2, <2>3
<1>6. ASSUME RankRest(n) PROVE RerankIInv'
  <2>1. stage = "rest" /\ Passed(n) /\ UNCHANGED <<io_cands, unread>>
    BY <1>6 DEF RankRest
  <2>2. DOMAIN page_buf \subseteq arrived
    <3>1. Live = {}
      BY <1>1, <2>1 DEF Idle
    <3> QED
      BY <1>1, <3>1 DEF Reads
  <2>3. HasBuffers(n) \/ PagesOf[n] \cap Lost' # {}
    <3>1. n \in io_cands /\ pit = {}
      BY <1>1, <2>1 DEF Passing, PagesDue
    <3>2. PagesOf[n] \subseteq PagesNeeded
      BY <3>1 DEF PagesNeeded
    <3>3. PagesOf[n] \subseteq DOMAIN page_buf \cup Lost
      BY <1>1, <2>1, <3>1, <3>2 DEF PagesDue
    <3>4. Lost' = Lost
      BY <2>1 DEF Passed, reaping, Lost
    <3> QED
      BY <3>3, <3>4 DEF HasBuffers
  <2>4. CASE HasBuffers(n) /\ n \notin ranked
    <3>1. PagesOf[n] \subseteq arrived
      BY <2>2, <2>4 DEF HasBuffers
    <3>2. RankFromBuffers(n)
      BY <1>6, <2>4, <3>1 DEF RankRest, Rankable
    <3>3. Rank(n) /\ misread' = misread
      BY <1>1, <2>4, <3>1, <3>2, BytesOfCandidate DEF RankFromBuffers
    <3> QED
      BY <2>1, <2>4, <3>3, RankedStep
  <2>5. CASE ~HasBuffers(n)
    <3>1. UNCHANGED heap
      BY <1>6, <2>5 DEF RankRest, Rankable
    <3> QED
      BY <2>1, <2>3, <2>5, <3>1, SkippedStep
  <2>6. CASE n \in ranked
    <3>1. setting.path = "peek"
      BY <1>1, <2>1, <2>6 DEF FirstTime
    <3>2. UNCHANGED heap
      BY <1>6, <2>6, <3>1 DEF RankRest, Rankable
    <3> QED
      BY <2>1, <2>6, <3>2, SkippedStep
  <2> QED
    BY <2>4, <2>5, <2>6
<1> QED
  BY <1>2, <1>3, <1>4, <1>5, <1>6, CollectPagesKeeps DEF Step

-----------------------------------------------------------------------------
(* From one stage to the next.                                             *)

\* The candidates are all that the coarse search returned, or as many as a limit
\* says.
LEMMA CutsAre ==
  ASSUME NEW c \in Coarse, NEW s \in Cuts(c)
  PROVE  /\ ToSet(s) \subseteq Nodes
         /\ \/ Cardinality(ToSet(s)) = Len(c)
            \/ setting.cut /\ Len(c) > K /\ Cardinality(ToSet(s)) \in Limits
<1>1. /\ c \in Seq(Nodes) /\ IsInjective(c) /\ Len(c) \in Nat /\ DOMAIN c = 1 .. Len(c)
  BY FineRerankAssumption
<1>2. CASE s = c
  <2>1. Cardinality(ToSet(c)) = Len(c)
    BY <1>1, LenOfInjective
  <2>2. ToSet(c) \subseteq Nodes
    BY <1>1 DEF ToSet
  <2> QED
    BY <1>2, <2>1, <2>2
<1>3. ASSUME Len(c) > K, NEW l \in Limits, l < Len(c), s = SubSeq(c, 1, l)
      PROVE  ToSet(s) \subseteq Nodes /\ Cardinality(ToSet(s)) = l
  <2>1. l \in Nat
    BY FineRerankAssumption
  <2>2. /\ s \in Seq(Nodes) /\ Len(s) = l /\ DOMAIN s = 1 .. l
        /\ \A i \in 1 .. l : s[i] = c[i] /\ i \in 1 .. Len(c)
    BY <1>1, <1>3, <2>1
  <2>3. IsInjective(s)
    BY <1>1, <2>2 DEF IsInjective
  <2>4. Cardinality(ToSet(s)) = l
    BY <2>2, <2>3, LenOfInjective
  <2>5. ToSet(s) \subseteq Nodes
    BY <2>2 DEF ToSet
  <2> QED
    BY <2>4, <2>5
<1>4. \/ s = c
      \/ setting.cut /\ Len(c) > K /\ \E l \in Limits : l < Len(c) /\ s = SubSeq(c, 1, l)
  BY DEF Cuts
<1> QED
  BY <1>2, <1>3, <1>4

\* What a change of stage, or of the candidates, leaves as it is.
LEMMA StageFrame ==
  ASSUME RerankIInv, UNCHANGED <<ring, buffers, reaping, heap>>
  PROVE  /\ Pool' /\ Reads' /\ Counted' /\ Bytes' /\ RingTyped' /\ Live' = Live
         /\ HoldsNearest(refined, ranked)'
         /\ UNCHANGED <<refined, ranked, again, page_buf, pit, arrived, left_out>>
<1>1. UNCHANGED <<refined, ranked, again, misread>>
  BY DEF heap
<1>2. UNCHANGED <<page_buf, pit, arrived, left_out>>
  BY DEF buffers, reaping
<1>3. Pool' /\ Reads' /\ Counted' /\ Bytes' /\ RingTyped' /\ Live' = Live
  BY <1>1, RingStaysRight
<1>4. HoldsNearest(refined, ranked)'
  BY <1>1 DEF RerankIInv, HoldsNearest
<1> QED
  BY <1>1, <1>2, <1>3, <1>4

LEMMA FindCoarseKeeps ==
  ASSUME RerankIInv, FindCoarse
  PROVE  RerankIInv'
<1>1. /\ Typed /\ stage \in Stages /\ Passing /\ FirstTime /\ Covered /\ PagesDue /\ Idle
  BY TypesSplit DEF RerankIInv
<1>2. /\ stage = "coarse" /\ todo' = cand_ids' /\ stage' \in {"block", "collect"}
      /\ UNCHANGED <<setting, io_cands, ring, buffers, reaping, heap, answer, unread>>
  BY DEF FindCoarse
<1>3. PICK c \in Coarse : coarse' = c /\ \E s \in Cuts(c) : cand_ids' = ToSet(s)
  BY DEF FindCoarse
<1>4. /\ cand_ids' \subseteq Nodes
      /\ \/ Cardinality(cand_ids') = Len(coarse')
         \/ setting'.cut /\ Len(coarse') > K /\ Cardinality(cand_ids') \in Limits
  BY <1>2, <1>3, CutsAre
<1>5. /\ Pool' /\ Reads' /\ Counted' /\ Bytes' /\ RingTyped' /\ Live' = Live
      /\ HoldsNearest(refined, ranked)'
      /\ UNCHANGED <<refined, ranked, again, page_buf, pit, arrived, left_out>>
  BY <1>2, StageFrame
<1>6. /\ cand_ids = {} /\ ranked = {} /\ io_cands = {} /\ refined = {}
      /\ Lost = {} /\ Lost' = Lost
  BY <1>1, <1>2, <1>5 DEF Passing, Typed, Covered, Lost
<1>7. Typed' /\ stage' \in Stages
  <2>1. coarse' \in Seq(Nodes)
    BY <1>3, FineRerankAssumption
  <2> QED
    BY <1>1, <1>2, <1>4, <1>5, <1>6, <2>1 DEF Typed, Stages
<1>8. RerankTypeOK'
  BY <1>5, <1>7 DEF RerankTypeOK, Typed, RingTyped, Stages
<1>9. Passing'
  BY <1>2, <1>6 DEF Passing
<1>10. FirstTime'
  BY <1>1, <1>2, <1>5, <1>6 DEF FirstTime
<1>11. Covered'
  BY <1>2, <1>6 DEF Covered
<1>12. Chosen' /\ Answered'
  BY <1>2, <1>4 DEF Chosen, Answered
<1>13. PagesDue' /\ Idle'
  BY <1>1, <1>2, <1>5 DEF PagesDue, Idle
<1> QED
  BY <1>5, <1>8, <1>9, <1>10, <1>11, <1>12, <1>13 DEF RerankIInv

\* The ends of the loops, and what is not in the ring.
LEMMA MovesKeep ==
  ASSUME RerankIInv, Collected \/ Pread \/ RankedAll \/ NoRing
  PROVE  RerankIInv'
<1>1. /\ Typed /\ stage \in Stages /\ Passing /\ FirstTime /\ Covered /\ Chosen
      /\ PagesDue /\ Idle
  BY TypesSplit DEF RerankIInv
<1>2. UNCHANGED <<setting, coarse, cand_ids, io_cands, ring, buffers, reaping, heap, answer>>
  BY DEF Collected, Pread, RankedAll, NoRing, cands
<1>3. /\ Pool' /\ Reads' /\ Counted' /\ Bytes' /\ RingTyped' /\ Live' = Live
      /\ HoldsNearest(refined, ranked)'
      /\ UNCHANGED <<refined, ranked, again, page_buf, pit, arrived, left_out>>
  BY <1>2, StageFrame
<1>4. \/ /\ stage = "collect" /\ stage' \in {"pread", "ring"} /\ todo = {}
         /\ UNCHANGED <<todo, unread>>
      \/ /\ stage = "pread" /\ stage' = "pages" /\ todo' = io_cands
      \/ /\ stage \in {"block", "pages"} /\ stage' = "extract" /\ todo = {}
         /\ UNCHANGED <<todo, unread>>
      \/ /\ stage = "ring" /\ stage' = "extract" /\ unread' = PagesNeeded
         /\ UNCHANGED todo
  BY DEF Collected, Pread, RankedAll, NoRing
<1>5. Typed' /\ stage' \in Stages
  BY <1>1, <1>2, <1>3, <1>4 DEF Typed, Stages
<1>6. RerankTypeOK'
  BY <1>3, <1>5 DEF RerankTypeOK, Typed, RingTyped, Stages
<1>7. Passing'
  BY <1>1, <1>2, <1>4 DEF Passing
<1>8. FirstTime'
  BY <1>1, <1>2, <1>3, <1>4 DEF FirstTime
<1>9. Covered'
  <2>1. stage \in {"collect", "pread", "ring"} => Lost = {}
    BY <1>1 DEF Covered
  <2>2. ASSUME NEW n \in cand_ids \ ranked
        PROVE  \/ n \in todo'
               \/ stage' \in {"collect", "pread", "ring", "queue", "io"} /\ n \in io_cands
               \/ PagesOf[n] \cap Lost' # {}
    <3>1. \/ n \in todo
          \/ stage \in {"collect", "pread", "ring", "queue", "io"} /\ n \in io_cands
          \/ PagesOf[n] \cap Lost # {}
      BY <1>1, <2>2 DEF Covered
    <3>2. CASE stage = "ring"
      <4>1. n \in io_cands /\ n \in Nodes /\ unread' = PagesNeeded
        BY <1>1, <1>4, <2>1, <3>1, <3>2 DEF Passing, Typed
      <4>2. PagesOf[n] # {} /\ PagesOf[n] \subseteq PagesNeeded
        BY <4>1, NodePages DEF PagesNeeded
      <4> QED
        BY <4>1, <4>2 DEF Lost
    <3>3. CASE stage # "ring"
      BY <1>1, <1>3, <1>4, <2>1, <3>1, <3>3 DEF Passing, Lost
    <3> QED
      BY <3>2, <3>3
  <2>3. stage' \in {"coarse", "collect", "pread", "ring"} => Lost' = {}
    BY <1>3, <1>4, <2>1 DEF Lost
  <2> QED
    BY <1>2, <1>3, <2>2, <2>3 DEF Covered
<1>10. Chosen' /\ Answered'
  BY <1>1, <1>2, <1>4 DEF Chosen, Answered
<1>11. PagesDue' /\ Idle'
  BY <1>1, <1>3, <1>4 DEF PagesDue, Idle
<1> QED
  BY <1>3, <1>6, <1>7, <1>8, <1>9, <1>10, <1>11 DEF RerankIInv

LEMMA AllInKeeps ==
  ASSUME RerankIInv, AllIn
  PROVE  RerankIInv'
<1>1. /\ Typed /\ stage \in Stages /\ Passing /\ FirstTime /\ Covered /\ Chosen
      /\ PagesDue /\ Idle /\ Counted
  BY TypesSplit DEF RerankIInv
<1>2. /\ stage = "io" /\ todo = {} /\ left = 0 /\ DOMAIN results = {}
      /\ todo' = io_cands /\ stage' = "rest"
      /\ UNCHANGED <<setting, coarse, cand_ids, io_cands, ring, buffers, reaping, heap,
                     answer, unread>>
  BY DEF AllIn, cands
<1>3. /\ Pool' /\ Reads' /\ Counted' /\ Bytes' /\ RingTyped' /\ Live' = Live
      /\ HoldsNearest(refined, ranked)'
      /\ UNCHANGED <<refined, ranked, again, page_buf, pit, arrived, left_out>>
  BY <1>2, StageFrame
<1>4. Live = {}
  <2>1. Flying = {}
    BY <1>1, <1>2, FS_EmptySet DEF Counted
  <2> QED
    BY <1>2, <2>1 DEF Live
<1>5. Typed' /\ stage' \in Stages
  BY <1>1, <1>2, <1>3 DEF Typed, Stages
<1>6. RerankTypeOK'
  BY <1>3, <1>5 DEF RerankTypeOK, Typed, RingTyped, Stages
<1>7. Passing'
  BY <1>1, <1>2 DEF Passing
<1>8. FirstTime'
  BY <1>1, <1>2, <1>3 DEF FirstTime
<1>13. Lost' = Lost
  BY <1>2, <1>3 DEF Lost
<1>9. Covered'
  BY <1>1, <1>2, <1>3, <1>13 DEF Covered
<1>10. Chosen' /\ Answered'
  BY <1>1, <1>2 DEF Chosen, Answered
<1>11. PagesNeeded' = PagesNeeded
  BY <1>2 DEF PagesNeeded
<1>12. PagesDue' /\ Idle'
  BY <1>1, <1>2, <1>3, <1>4, <1>11, <1>13 DEF PagesDue, Idle
<1> QED
  BY <1>3, <1>6, <1>7, <1>8, <1>9, <1>10, <1>12 DEF RerankIInv

LEMMA ExtractLabelsKeeps ==
  ASSUME RerankIInv, ExtractLabels
  PROVE  RerankIInv'
<1>1. /\ Typed /\ stage \in Stages /\ Passing /\ FirstTime /\ Covered /\ Chosen
      /\ PagesDue /\ Idle
  BY TypesSplit DEF RerankIInv
<1>2. /\ stage = "extract" /\ stage' = "done"
      /\ answer' = [i \in 1 .. Cardinality(refined) |-> LabelOf[AtPlace(i, refined)]]
      /\ UNCHANGED <<setting, coarse, cand_ids, io_cands, todo, ring, buffers, reaping,
                     heap, unread>>
  BY DEF ExtractLabels, cands
<1>3. /\ Pool' /\ Reads' /\ Counted' /\ Bytes' /\ RingTyped' /\ Live' = Live
      /\ HoldsNearest(refined, ranked)'
      /\ UNCHANGED <<refined, ranked, again, page_buf, pit, arrived, left_out>>
  BY <1>2, StageFrame
<1>4. Len(answer') = Cardinality(refined)
  <2>1. refined \in SUBSET Nodes
    BY <1>1 DEF Typed
  <2>2. Cardinality(refined) \in Nat
    BY <2>1, NodesFinite
  <2> QED
    BY <1>2, <2>2
<1>5. Typed' /\ stage' \in Stages
  BY <1>1, <1>2, <1>3 DEF Typed, Stages
<1>6. RerankTypeOK'
  BY <1>3, <1>5 DEF RerankTypeOK, Typed, RingTyped, Stages
<1>7. Passing' /\ Covered'
  <2>1. Lost' = Lost
    BY <1>2, <1>3 DEF Lost
  <2> QED
    BY <1>1, <1>2, <1>3, <2>1 DEF Passing, Covered
<1>8. FirstTime'
  BY <1>1, <1>2, <1>3 DEF FirstTime
<1>9. Chosen' /\ Answered'
  BY <1>1, <1>2, <1>3, <1>4 DEF Chosen, Answered
<1>10. PagesDue' /\ Idle'
  BY <1>1, <1>2, <1>3 DEF PagesDue, Idle
<1> QED
  BY <1>3, <1>6, <1>7, <1>8, <1>9, <1>10 DEF RerankIInv

-----------------------------------------------------------------------------
(* The ring.                                                               *)

\* What a step of the ring leaves of the candidates.
LEMMA CandidatesStay ==
  ASSUME RerankIInv, UNCHANGED <<setting, cands, heap, answer>>, Lost \subseteq Lost',
         \/ stage = "ring" /\ stage' = "queue" /\ todo' = todo
         \/ stage = "queue" /\ stage' = "io" /\ todo' = todo
         \/ stage = "rest" /\ stage' = "extract" /\ todo' = todo /\ todo = {}
         \/ stage \in {"queue", "io"} /\ stage' = stage /\ todo' = todo
         \/ /\ stage = "io" /\ stage' = "io" /\ todo = {} /\ todo' \subseteq io_cands
            /\ setting.path # "peek" => todo' = {}
  PROVE  /\ Typed' /\ stage' \in Stages /\ Passing' /\ FirstTime' /\ Covered'
         /\ Chosen' /\ Answered' /\ HoldsNearest(refined, ranked)' /\ misread' = misread
<1>1. /\ Typed /\ stage \in Stages /\ Passing /\ FirstTime /\ Covered /\ Chosen
      /\ HoldsNearest(refined, ranked)
  BY TypesSplit DEF RerankIInv
<1>2. UNCHANGED <<setting, coarse, cand_ids, io_cands, refined, ranked, again, misread>>
  BY DEF cands, heap
<1>3. Typed' /\ stage' \in Stages
  BY <1>1, <1>2 DEF Typed, Stages
<1>4. Passing'
  BY <1>1, <1>2 DEF Passing
<1>5. FirstTime'
  BY <1>1, <1>2 DEF FirstTime, Passing
<1>6. Covered'
  <2>1. ASSUME NEW n \in cand_ids \ ranked
        PROVE  \/ n \in todo'
               \/ stage' \in {"collect", "pread", "ring", "queue", "io"} /\ n \in io_cands
               \/ PagesOf[n] \cap Lost' # {}
    <3>1. \/ n \in todo
          \/ stage \in {"collect", "pread", "ring", "queue", "io"} /\ n \in io_cands
          \/ PagesOf[n] \cap Lost # {}
      BY <1>1, <2>1 DEF Covered
    <3>2. PagesOf[n] \cap Lost # {} => PagesOf[n] \cap Lost' # {}
      OBVIOUS
    <3> QED
      BY <3>1, <3>2
  <2> QED
    BY <1>2, <2>1 DEF Covered
<1>7. Chosen' /\ Answered' /\ HoldsNearest(refined, ranked)'
  BY <1>1, <1>2 DEF Chosen, Answered, HoldsNearest
<1> QED
  BY <1>2, <1>3, <1>4, <1>5, <1>6, <1>7

\* A read that is not over holds a buffer.
LEMMA LiveHolds ==
  ASSUME Reads, NEW r \in Live
  PROVE  /\ r.block \in Requests /\ r.buf \in Buffers /\ r.block # {}
         /\ First(r.block) \in r.block
         /\ page_buf[First(r.block)][1] = r.buf /\ r.buf \in Held
<1>1. r.block \in Requests /\ r.buf \in Buffers
  BY DEF Reads
<1>2. r.block # {} /\ First(r.block) \in r.block
  BY <1>1, RequestPages
<1>3. /\ First(r.block) \in DOMAIN page_buf
      /\ page_buf[First(r.block)] = <<r.buf, Half(r.block, First(r.block))>>
  BY <1>2 DEF Reads
<1>4. page_buf[First(r.block)][1] = r.buf
  BY <1>3
<1>5. r.buf \in Held
  BY <1>3, <1>4 DEF Held
<1> QED
  BY <1>1, <1>2, <1>4, <1>5

LEMMA OpenRingKeeps ==
  ASSUME RerankIInv, OpenRing
  PROVE  RerankIInv'
<1>1. /\ RingTyped /\ Typed /\ Pool /\ Reads /\ Counted /\ Bytes /\ PagesDue /\ Idle
  BY TypesSplit DEF RerankIInv
<1>2. /\ stage = "ring" /\ stage' = "queue" /\ pit' = PagesNeeded
      /\ UNCHANGED <<setting, cands, todo, ring, buffers, left_out, left, results, arrived,
                     heap, answer, unread>>
      /\ Lost' = Lost
  BY DEF OpenRing, reaping, Lost
<1>3. /\ Typed' /\ stage' \in Stages /\ Passing' /\ FirstTime' /\ Covered'
      /\ Chosen' /\ Answered' /\ HoldsNearest(refined, ranked)' /\ misread' = misread
  BY <1>2, CandidatesStay
<1>4. UNCHANGED <<sq, kernel, cq, inflight, page_buf, free_list, content, io_cands>>
  BY <1>2 DEF ring, buffers, cands
<1>5. Flying' = Flying /\ Live' = Live /\ Held' = Held
  BY <1>2, <1>4 DEF Flying, Live, Held
<1>6. RingTyped' /\ Pool' /\ Counted'
  BY <1>1, <1>2, <1>4, <1>5 DEF RingTyped, Pool, Counted
<1>7. Reads'
  BY <1>1, <1>2, <1>4, <1>5 DEF Reads
<1>8. Bytes'
  BY <1>1, <1>2, <1>3, <1>4 DEF Bytes, HoldsPage
<1>9. PagesDue'
  <2>1. PagesNeeded' = PagesNeeded
    BY <1>4 DEF PagesNeeded
  <2>2. PagesNeeded \subseteq VecPages
    BY <1>1, NodePages DEF PagesNeeded, Typed
  <2>3. DOMAIN page_buf' = {}
    BY <1>1, <1>2, <1>4 DEF Idle
  <2> QED
    BY <1>2, <2>1, <2>2, <2>3 DEF PagesDue
<1>10. Idle'
  BY <1>1, <1>2, <1>5 DEF Idle
<1>11. RerankTypeOK'
  BY <1>3, <1>6 DEF RerankTypeOK, Typed, RingTyped, Stages
<1> QED
  BY <1>3, <1>6, <1>7, <1>8, <1>9, <1>10, <1>11 DEF RerankIInv

LEMMA QueueReadKeeps ==
  ASSUME RerankIInv, QueueRead
  PROVE  RerankIInv'
<1> DEFINE r == RequestFor(First(pit))
           buf == Last(free_list)
           new == [block |-> r, buf |-> buf]
<1>1. /\ RingTyped /\ Typed /\ Pool /\ Reads /\ Counted /\ Bytes /\ PagesDue /\ Idle
  BY TypesSplit DEF RerankIInv
<1>2. /\ stage = "queue" /\ pit # {} /\ free_list # <<>>
      /\ UNCHANGED <<setting, stage, cands, todo, kernel, cq, content, results, arrived,
                     heap, answer, unread, left_out>>
      /\ sq' = sq \cup {new}
      /\ page_buf' = [p \in DOMAIN page_buf \cup r |->
                        IF p \in r THEN <<buf, Half(r, p)>> ELSE page_buf[p]]
      /\ pit' = pit \ r /\ free_list' = Front(free_list)
      /\ inflight' = inflight + 1 /\ left' = left + 1
      /\ Lost' = Lost
  BY DEF QueueRead, Queueing, reaping, Lost
<1>3. /\ Typed' /\ stage' \in Stages /\ Passing' /\ FirstTime' /\ Covered'
      /\ Chosen' /\ Answered' /\ HoldsNearest(refined, ranked)' /\ misread' = misread
  BY <1>2, CandidatesStay
<1>4. r \subseteq pit /\ r \in Requests
  <2>1. pit \in SUBSET Nat /\ pit \subseteq VecPages
    BY <1>1, FineRerankAssumption DEF PagesDue
  <2>2. First(pit) \in pit
    BY <1>2, <2>1, FirstIsLeast
  <2> QED
    BY <2>1, <2>2 DEF RequestFor, Requests
<1>5. /\ buf \in ToSet(free_list) /\ buf \in Buffers /\ buf \notin Held
      /\ free_list' \in Seq(Buffers) /\ IsInjective(free_list')
      /\ ToSet(free_list') = ToSet(free_list) \ {buf}
  <2>1. /\ buf \in ToSet(free_list)
        /\ free_list' \in Seq(Buffers) /\ IsInjective(free_list')
        /\ ToSet(free_list') = ToSet(free_list) \ {buf}
    BY <1>1, <1>2, PoolGives DEF RingTyped, Pool
  <2> QED
    BY <1>1, <2>1 DEF Pool
<1>6. r # {} /\ \A p \in r : Half(r, p) \in {0, 1}
  BY <1>4, RequestPages
<1>7. new \in [block : Requests, buf : Buffers] /\ new.block = r /\ new.buf = buf
  BY <1>4, <1>5
<1> HIDE DEF r, buf, new
<1>8. /\ DOMAIN page_buf' = DOMAIN page_buf \cup r /\ r \cap DOMAIN page_buf = {}
      /\ \A p \in DOMAIN page_buf : page_buf'[p] = page_buf[p]
      /\ \A p \in r : page_buf'[p] = <<buf, Half(r, p)>> /\ page_buf'[p][1] = buf
  BY <1>1, <1>2, <1>4 DEF PagesDue
<1>9. Held' = Held \cup {buf}
  BY <1>6, <1>8 DEF Held
<1>10. Flying' = Flying \cup {new} /\ Live' = Live \cup {new}
  BY <1>2 DEF Flying, Live
<1>11. \A s \in Live : s.buf # buf
  BY <1>1, <1>5, LiveHolds
<1>12. new \notin Live
  BY <1>7, <1>11
<1>13. RingTyped'
  <2>1. DOMAIN page_buf' \subseteq VecPages
    BY <1>1, <1>4, <1>8 DEF RingTyped, PagesDue
  <2>2. \A p \in DOMAIN page_buf' : page_buf'[p] \in Buffers \X {0, 1}
    <3>1. SUFFICES ASSUME NEW p \in DOMAIN page_buf'
                   PROVE  page_buf'[p] \in Buffers \X {0, 1}
      OBVIOUS
    <3>2. CASE p \in r
      <4>1. page_buf'[p] = <<buf, Half(r, p)>> /\ Half(r, p) \in {0, 1}
        BY <1>6, <1>8, <3>2
      <4> QED
        BY <1>5, <4>1
    <3>3. CASE p \in DOMAIN page_buf
      BY <1>1, <1>8, <3>3 DEF RingTyped
    <3> QED
      BY <1>8, <3>2, <3>3
  <2>3. sq' \cup kernel' \cup DOMAIN cq' \subseteq [block : Requests, buf : Buffers]
    BY <1>1, <1>2, <1>7 DEF RingTyped
  <2>4. /\ inflight' \in Nat /\ left' \in Nat
        /\ content' \in [Buffers -> Requests \cup {{}}]
    BY <1>1, <1>2 DEF RingTyped
  <2> QED
    BY <1>5, <2>1, <2>2, <2>3, <2>4 DEF RingTyped
<1>14. Pool'
  BY <1>1, <1>5, <1>9 DEF Pool
<1>15. Reads'
  <2>1. /\ Live' \subseteq [block : Requests, buf : Buffers]
        /\ sq' \cap kernel' = {} /\ (sq' \cup kernel') \cap DOMAIN cq' = {}
        /\ Flying' \cap DOMAIN results' = {}
    BY <1>1, <1>2, <1>7, <1>10, <1>12 DEF Reads, Live, Flying
  <2>2. ASSUME NEW s \in Live'
        PROVE  /\ s.block \subseteq DOMAIN page_buf' /\ s.block \cap arrived' = {}
               /\ \A p \in s.block : page_buf'[p] = <<s.buf, Half(s.block, p)>>
               /\ \A p \in DOMAIN page_buf' : page_buf'[p][1] = s.buf => p \in s.block
    <3>1. CASE s = new
      <4>1. \A p \in DOMAIN page_buf : page_buf[p][1] # buf
        BY <1>5 DEF Held
      <4>2. arrived' = {}
        BY <1>1, <1>2 DEF Idle
      <4> QED
        BY <1>7, <1>8, <3>1, <4>1, <4>2
    <3>2. CASE s \in Live
      <4>1. /\ s.block \subseteq DOMAIN page_buf /\ s.block \cap arrived = {}
            /\ \A p \in s.block : page_buf[p] = <<s.buf, Half(s.block, p)>>
            /\ \A p \in DOMAIN page_buf : page_buf[p][1] = s.buf => p \in s.block
        BY <1>1, <3>2 DEF Reads
      <4>2. s.buf # buf
        BY <1>11, <3>2
      <4> QED
        BY <1>2, <1>8, <4>1, <4>2
    <3> QED
      BY <1>10, <3>1, <3>2
  <2>3. \A s, u \in Live' : s.buf = u.buf => s = u
    BY <1>1, <1>7, <1>10, <1>11 DEF Reads
  <2>4. ASSUME NEW p \in DOMAIN page_buf'
        PROVE  p \in arrived' \/ \E s \in Live' : p \in s.block
    <3>1. CASE p \in r
      BY <1>7, <1>10, <3>1
    <3>2. CASE p \in DOMAIN page_buf
      BY <1>1, <1>2, <1>10, <3>2 DEF Reads
    <3> QED
      BY <1>8, <3>1, <3>2
  <2> QED
    BY <2>1, <2>2, <2>3, <2>4 DEF Reads
<1>16. Counted'
  <2>1. new \notin Flying
    BY <1>12 DEF Live
  <2>2. IsFiniteSet(Flying') /\ Cardinality(Flying') = Cardinality(Flying) + 1
    BY <1>1, <1>10, <2>1, FS_AddElement DEF Counted
  <2> QED
    BY <1>1, <1>2, <2>2 DEF Counted
<1>17. Bytes'
  <2>1. arrived' = {}
    BY <1>1, <1>2 DEF Idle
  <2> QED
    BY <1>1, <1>2, <1>3, <2>1 DEF Bytes
<1>18. PagesDue'
  <2>1. PagesNeeded' = PagesNeeded
    BY <1>2 DEF PagesNeeded, cands
  <2> QED
    BY <1>1, <1>2, <1>4, <1>8, <2>1 DEF PagesDue
<1>19. Idle'
  BY <1>1, <1>2 DEF Idle
<1>20. RerankTypeOK'
  BY <1>3, <1>13 DEF RerankTypeOK, Typed, RingTyped, Stages
<1> QED
  BY <1>3, <1>14, <1>15, <1>16, <1>17, <1>18, <1>19, <1>20 DEF RerankIInv

LEMMA NoBufferKeeps ==
  ASSUME RerankIInv, NoBuffer
  PROVE  RerankIInv'
<1>1. /\ RingTyped /\ Typed /\ Pool /\ Reads /\ Counted /\ Bytes /\ PagesDue /\ Idle
  BY TypesSplit DEF RerankIInv
<1>2. /\ stage = "queue"
      /\ UNCHANGED <<setting, stage, cands, todo, kernel, cq, content, results, arrived,
                     heap, answer, sq, page_buf, free_list, inflight, left, unread>>
      /\ pit' = pit \ {First(pit)} /\ left_out' = left_out \cup {First(pit)}
      /\ Lost' = Lost \cup {First(pit)}
  BY DEF NoBuffer, Queueing, reaping, Lost
<1>3. /\ Typed' /\ stage' \in Stages /\ Passing' /\ FirstTime' /\ Covered'
      /\ Chosen' /\ Answered' /\ HoldsNearest(refined, ranked)' /\ misread' = misread
  BY <1>2, CandidatesStay
<1>4. Flying' = Flying /\ Live' = Live /\ Held' = Held /\ PagesNeeded' = PagesNeeded
  BY <1>2 DEF Flying, Live, Held, PagesNeeded, cands
<1>5. RingTyped' /\ Pool' /\ Counted'
  BY <1>1, <1>2, <1>4 DEF RingTyped, Pool, Counted
<1>6. Reads'
  BY <1>1, <1>2, <1>4 DEF Reads
<1>7. Bytes'
  BY <1>1, <1>2, <1>3 DEF Bytes, HoldsPage
<1>8. PagesDue' /\ Idle'
  BY <1>1, <1>2, <1>4 DEF PagesDue, Idle
<1>9. RerankTypeOK'
  BY <1>3, <1>5 DEF RerankTypeOK, Typed, RingTyped, Stages
<1> QED
  BY <1>3, <1>5, <1>6, <1>7, <1>8, <1>9 DEF RerankIInv

LEMMA SubmitReadsKeeps ==
  ASSUME RerankIInv, SubmitReads
  PROVE  RerankIInv'
<1>1. /\ RingTyped /\ Typed /\ Pool /\ Reads /\ Counted /\ Bytes /\ PagesDue /\ Idle
  BY TypesSplit DEF RerankIInv
<1>2. /\ stage = "queue" /\ stage' = "io" /\ pit = {}
      /\ UNCHANGED <<setting, cands, todo, cq, inflight, buffers, reaping, heap, answer,
                     unread>>
      /\ Lost' = Lost
  BY DEF SubmitReads, reaping, Lost
<1>3. PICK q \in SUBSET sq : sq' = sq \ q /\ kernel' = kernel \cup q
  BY DEF SubmitReads, Ring!Submit, Ring!Submittable
<1>4. /\ Typed' /\ stage' \in Stages /\ Passing' /\ FirstTime' /\ Covered'
      /\ Chosen' /\ Answered' /\ HoldsNearest(refined, ranked)' /\ misread' = misread
  BY <1>2, CandidatesStay
<1>5. UNCHANGED <<page_buf, free_list, content, pit, left, results, arrived, io_cands>>
  BY <1>2 DEF buffers, reaping, cands
<1>6. Flying' = Flying /\ Live' = Live /\ Held' = Held /\ PagesNeeded' = PagesNeeded
  BY <1>2, <1>3, <1>5 DEF Flying, Live, Held, PagesNeeded
<1>7. RingTyped' /\ Pool' /\ Counted'
  BY <1>1, <1>2, <1>3, <1>5, <1>6 DEF RingTyped, Pool, Counted
<1>8. Reads'
  <2>1. sq' \cap kernel' = {} /\ (sq' \cup kernel') \cap DOMAIN cq' = {}
    BY <1>1, <1>2, <1>3 DEF Reads
  <2> QED
    BY <1>1, <1>5, <1>6, <2>1 DEF Reads
<1>9. Bytes'
  BY <1>1, <1>2, <1>4, <1>5 DEF Bytes, HoldsPage
<1>10. PagesDue' /\ Idle'
  BY <1>1, <1>2, <1>5, <1>6 DEF PagesDue, Idle
<1>11. RerankTypeOK'
  BY <1>4, <1>7 DEF RerankTypeOK, Typed, RingTyped, Stages
<1> QED
  BY <1>4, <1>7, <1>8, <1>9, <1>10, <1>11 DEF RerankIInv

LEMMA CompleteKeeps ==
  ASSUME RerankIInv, NEW r \in kernel, Complete(r)
  PROVE  RerankIInv'
<1>1. /\ RingTyped /\ Typed /\ Pool /\ Reads /\ Counted /\ Bytes /\ PagesDue /\ Idle
      /\ stage \in Stages
  BY TypesSplit DEF RerankIInv
<1>2. /\ kernel' = kernel \ {r}
      /\ UNCHANGED <<setting, stage, cands, todo, page_buf, free_list, reaping, heap,
                     answer, unread, sq, inflight>>
      /\ content' = IF cq'[r] = "full" THEN [content EXCEPT ![r.buf] = r.block]
                                       ELSE content
      /\ Lost' = Lost
  BY DEF Complete, Ring!KernelCompletes, reaping, Lost
<1>3. PICK o \in {"full", "short"} :
        cq' = [x \in DOMAIN cq \cup {r} |-> IF x = r THEN o ELSE cq[x]]
  BY DEF Complete, Ring!KernelCompletes, Ring!Outcomes
<1>4. r \in Live /\ r \in Flying
  BY DEF Live, Flying
<1>5. stage \in {"queue", "io"}
  BY <1>1, <1>4 DEF Idle
<1>6. /\ Typed' /\ stage' \in Stages /\ Passing' /\ FirstTime' /\ Covered'
      /\ Chosen' /\ Answered' /\ HoldsNearest(refined, ranked)' /\ misread' = misread
  BY <1>2, <1>5, CandidatesStay
<1>7. UNCHANGED <<pit, left, results, arrived, io_cands>>
  BY <1>2 DEF reaping, cands
<1>8. /\ DOMAIN cq' = DOMAIN cq \cup {r} /\ cq'[r] = o /\ r \notin DOMAIN cq
      /\ \A x \in DOMAIN cq : cq'[x] = cq[x]
  BY <1>1, <1>3 DEF Reads
<1>9. Flying' = Flying /\ Live' = Live /\ Held' = Held /\ PagesNeeded' = PagesNeeded
  BY <1>2, <1>7, <1>8 DEF Flying, Live, Held, PagesNeeded
<1>10. r.block \in Requests /\ r.buf \in Buffers
  BY <1>1, <1>4, LiveHolds
<1>11. /\ \A b \in Buffers : b # r.buf => content'[b] = content[b]
       /\ o = "full" => content'[r.buf] = r.block
       /\ content' \in [Buffers -> Requests \cup {{}}]
  BY <1>1, <1>2, <1>8, <1>10 DEF RingTyped
<1>12. RingTyped'
  BY <1>1, <1>2, <1>7, <1>8, <1>11 DEF RingTyped
<1>13. Pool' /\ Counted'
  BY <1>1, <1>2, <1>7, <1>9 DEF Pool, Counted
<1>14. Reads'
  <2>1. sq' \cap kernel' = {} /\ (sq' \cup kernel') \cap DOMAIN cq' = {}
    BY <1>1, <1>2, <1>8 DEF Reads
  <2> QED
    BY <1>1, <1>2, <1>7, <1>9, <2>1 DEF Reads
<1>15. Bytes'
  <2>1. \A s \in Live : s # r => s.buf # r.buf /\ s.buf \in Buffers
    BY <1>1, <1>4 DEF Reads
  <2>2. ASSUME NEW s \in DOMAIN cq' PROVE cq'[s] = "full" => content'[s.buf] = s.block
    <3>1. CASE s = r
      BY <1>8, <1>11, <3>1
    <3>2. CASE s # r
      <4>1. s \in DOMAIN cq /\ s \in Live
        BY <1>8, <3>2 DEF Live, Flying
      <4>2. content'[s.buf] = content[s.buf] /\ cq'[s] = cq[s]
        BY <1>8, <1>11, <2>1, <3>2, <4>1
      <4> QED
        BY <1>1, <4>1, <4>2 DEF Bytes
    <3> QED
      BY <3>1, <3>2
  <2>3. ASSUME NEW s \in DOMAIN results'
        PROVE  results'[s] = "full" => content'[s.buf] = s.block
    <3>1. s \in DOMAIN results /\ s \in Live /\ s # r
      BY <1>1, <1>4, <1>7 DEF Live, Reads
    <3>2. content'[s.buf] = content[s.buf]
      BY <1>11, <2>1, <3>1
    <3> QED
      BY <1>1, <1>7, <3>1, <3>2 DEF Bytes
  <2>4. ASSUME NEW p \in arrived \cap DOMAIN page_buf PROVE HoldsPage(p)'
    <3>1. page_buf[p][1] # r.buf
      BY <1>1, <1>4 DEF Reads
    <3>2. page_buf[p][1] \in Buffers
      BY <1>1 DEF RingTyped
    <3>3. content'[page_buf[p][1]] = content[page_buf[p][1]]
      BY <1>11, <3>1, <3>2
    <3> QED
      BY <1>1, <1>2, <3>3 DEF Bytes, HoldsPage
  <2>5. \A s \in DOMAIN cq' : cq'[s] \in {"full", "short"}
    BY <1>1, <1>8 DEF Bytes
  <2> QED
    BY <1>1, <1>2, <1>6, <1>7, <2>2, <2>3, <2>4, <2>5 DEF Bytes
<1>16. PagesDue' /\ Idle'
  BY <1>1, <1>2, <1>7, <1>9 DEF PagesDue, Idle
<1>17. RerankTypeOK'
  BY <1>6, <1>12 DEF RerankTypeOK, Typed, RingTyped, Stages
<1> QED
  BY <1>6, <1>13, <1>14, <1>15, <1>16, <1>17 DEF RerankIInv

LEMMA ReapKeeps ==
  ASSUME RerankIInv, Reap
  PROVE  RerankIInv'
<1>1. /\ RingTyped /\ Typed /\ Pool /\ Reads /\ Counted /\ Bytes /\ PagesDue /\ Idle
  BY TypesSplit DEF RerankIInv
<1>2. /\ stage = "io" /\ DOMAIN results = {} /\ results' = cq
      /\ left' = left - Cardinality(DOMAIN cq)
      /\ inflight' = inflight - Cardinality(DOMAIN cq)
      /\ DOMAIN cq' = {}
      /\ UNCHANGED <<setting, stage, cands, todo, sq, kernel, buffers, pit, left_out,
                     arrived, heap, answer, unread>>
      /\ Lost' = Lost
  BY DEF Reap, reaping, Lost
<1>3. /\ Typed' /\ stage' \in Stages /\ Passing' /\ FirstTime' /\ Covered'
      /\ Chosen' /\ Answered' /\ HoldsNearest(refined, ranked)' /\ misread' = misread
  BY <1>2, CandidatesStay
<1>4. UNCHANGED <<page_buf, free_list, content, io_cands>>
  BY <1>2 DEF buffers, cands
<1>5. /\ Flying' = Flying \ DOMAIN cq /\ Live' = Live /\ Held' = Held
      /\ PagesNeeded' = PagesNeeded
  BY <1>1, <1>2, <1>4 DEF Flying, Live, Held, PagesNeeded, Reads
<1>6. Counted' /\ inflight' \in Nat
  <2>1. /\ IsFiniteSet(Flying') /\ Flying \cap DOMAIN cq = DOMAIN cq
        /\ Cardinality(Flying') = Cardinality(Flying) - Cardinality(Flying \cap DOMAIN cq)
    BY <1>1, <1>5, FS_Difference DEF Counted, Flying
  <2>2. Cardinality(Flying') \in Nat
    BY <2>1, FS_CardinalityType
  <2> QED
    BY <1>1, <1>2, <2>1, <2>2 DEF Counted
<1>7. RingTyped'
  <2>1. left' \in Nat
    BY <1>6 DEF Counted
  <2> QED
    BY <1>1, <1>2, <1>4, <1>6, <2>1 DEF RingTyped
<1>8. Pool'
  BY <1>1, <1>4, <1>5 DEF Pool
<1>9. Reads'
  <2>1. /\ sq' \cap kernel' = {} /\ (sq' \cup kernel') \cap DOMAIN cq' = {}
        /\ Flying' \cap DOMAIN results' = {}
    BY <1>1, <1>2, <1>5 DEF Reads
  <2> QED
    BY <1>1, <1>2, <1>4, <1>5, <2>1 DEF Reads
<1>10. Bytes'
  BY <1>1, <1>2, <1>3, <1>4 DEF Bytes, HoldsPage
<1>11. PagesDue' /\ Idle'
  BY <1>1, <1>2, <1>4, <1>5 DEF PagesDue, Idle
<1>12. RerankTypeOK'
  BY <1>3, <1>7 DEF RerankTypeOK, Typed, RingTyped, Stages
<1> QED
  BY <1>3, <1>6, <1>8, <1>9, <1>10, <1>11, <1>12 DEF RerankIInv

LEMMA TakeReadKeeps ==
  ASSUME RerankIInv, NEW r \in DOMAIN results, TakeRead(r)
  PROVE  RerankIInv'
<1>1. /\ RingTyped /\ Typed /\ Pool /\ Reads /\ Counted /\ Bytes /\ PagesDue /\ Idle
  BY TypesSplit DEF RerankIInv
<1>2. /\ stage = "io" /\ todo = {} /\ results[r] = "full"
      /\ arrived' = arrived \cup r.block
      /\ results' = [x \in DOMAIN results \ {r} |-> results[x]]
      /\ UNCHANGED <<setting, stage, cands, ring, buffers, pit, left_out, left, heap,
                     answer, unread>>
      /\ Lost' = Lost
  BY DEF TakeRead, Arrivals, Handled, reaping, Lost
<1>3. todo' \subseteq io_cands /\ (setting.path # "peek" => todo' = {})
  BY DEF TakeRead
<1>4. /\ Typed' /\ stage' \in Stages /\ Passing' /\ FirstTime' /\ Covered'
      /\ Chosen' /\ Answered' /\ HoldsNearest(refined, ranked)' /\ misread' = misread
  BY <1>2, <1>3, CandidatesStay
<1>5. UNCHANGED <<sq, kernel, cq, inflight, page_buf, free_list, content, io_cands>>
  BY <1>2 DEF ring, buffers, cands
<1>6. /\ DOMAIN results' = DOMAIN results \ {r}
      /\ \A x \in DOMAIN results' : results'[x] = results[x]
      /\ r \in Live /\ r \notin Flying
  BY <1>1, <1>2 DEF Live, Reads
<1>7. /\ Flying' = Flying /\ Live' = Live \ {r} /\ Held' = Held
      /\ PagesNeeded' = PagesNeeded
  BY <1>5, <1>6 DEF Flying, Live, Held, PagesNeeded
<1>8. RingTyped' /\ Pool' /\ Counted'
  BY <1>1, <1>2, <1>5, <1>7 DEF RingTyped, Pool, Counted
<1>9. Reads'
  <2>1. /\ Live' \subseteq [block : Requests, buf : Buffers]
        /\ sq' \cap kernel' = {} /\ (sq' \cup kernel') \cap DOMAIN cq' = {}
        /\ Flying' \cap DOMAIN results' = {}
    BY <1>1, <1>5, <1>6, <1>7 DEF Reads
  <2>2. ASSUME NEW s \in Live'
        PROVE  /\ s.block \subseteq DOMAIN page_buf' /\ s.block \cap arrived' = {}
               /\ \A p \in s.block : page_buf'[p] = <<s.buf, Half(s.block, p)>>
               /\ \A p \in DOMAIN page_buf' : page_buf'[p][1] = s.buf => p \in s.block
    <3>1. /\ s \in Live /\ s # r
          /\ s.block \subseteq DOMAIN page_buf /\ s.block \cap arrived = {}
          /\ \A p \in s.block : page_buf[p] = <<s.buf, Half(s.block, p)>>
          /\ \A p \in DOMAIN page_buf : page_buf[p][1] = s.buf => p \in s.block
      BY <1>1, <1>7 DEF Reads
    <3>2. s.block \cap r.block = {}
      <4>1. SUFFICES ASSUME NEW p \in s.block, p \in r.block PROVE FALSE
        OBVIOUS
      <4>2. page_buf[p] = <<r.buf, Half(r.block, p)>>
        BY <1>1, <1>6, <4>1 DEF Reads
      <4>3. s.buf = r.buf
        BY <3>1, <4>1, <4>2
      <4> QED
        BY <1>1, <1>6, <3>1, <4>3 DEF Reads
    <3> QED
      BY <1>2, <1>5, <3>1, <3>2
  <2>3. \A s, u \in Live' : s.buf = u.buf => s = u
    BY <1>1, <1>7 DEF Reads
  <2>4. ASSUME NEW p \in DOMAIN page_buf'
        PROVE  p \in arrived' \/ \E s \in Live' : p \in s.block
    BY <1>1, <1>2, <1>5, <1>7 DEF Reads
  <2> QED
    BY <2>1, <2>2, <2>3, <2>4 DEF Reads
<1>10. Bytes'
  <2>1. ASSUME NEW p \in r.block PROVE HoldsPage(p)
    <3>1. /\ page_buf[p] = <<r.buf, Half(r.block, p)>> /\ content[r.buf] = r.block
      BY <1>1, <1>2, <1>6 DEF Reads, Bytes
    <3>2. r.block # {} /\ First(r.block) + Half(r.block, p) = p
      BY <1>1, <1>6, LiveHolds, RequestPages
    <3> QED
      BY <3>1, <3>2 DEF HoldsPage
  <2>2. \A p \in arrived' \cap DOMAIN page_buf' : HoldsPage(p)'
    BY <1>1, <1>2, <1>5, <2>1 DEF Bytes, HoldsPage
  <2> QED
    BY <1>1, <1>4, <1>5, <1>6, <2>2 DEF Bytes
<1>11. PagesDue' /\ Idle'
  BY <1>1, <1>2, <1>5, <1>7 DEF PagesDue, Idle
<1>12. RerankTypeOK'
  BY <1>4, <1>8 DEF RerankTypeOK, Typed, RingTyped, Stages
<1> QED
  BY <1>4, <1>8, <1>9, <1>10, <1>11, <1>12 DEF RerankIInv

LEMMA DropReadKeeps ==
  ASSUME RerankIInv, NEW r \in DOMAIN results, DropRead(r)
  PROVE  RerankIInv'
<1>1. /\ RingTyped /\ Typed /\ Pool /\ Reads /\ Counted /\ Bytes /\ PagesDue /\ Idle
  BY TypesSplit DEF RerankIInv
<1>2. /\ stage = "io" /\ todo = {}
      /\ free_list' = Append(free_list, page_buf[First(r.block)][1])
      /\ page_buf' = [p \in DOMAIN page_buf \ r.block |-> page_buf[p]]
      /\ unread' = unread \cup r.block
      /\ results' = [x \in DOMAIN results \ {r} |-> results[x]]
      /\ UNCHANGED <<setting, stage, cands, todo, ring, content, pit, left_out, left,
                     arrived, heap, answer>>
      /\ Lost' = Lost \cup r.block
  BY DEF DropRead, DropPages, Handled, reaping, Lost
<1>3. /\ Typed' /\ stage' \in Stages /\ Passing' /\ FirstTime' /\ Covered'
      /\ Chosen' /\ Answered' /\ HoldsNearest(refined, ranked)' /\ misread' = misread
  BY <1>2, CandidatesStay
<1>4. UNCHANGED <<sq, kernel, cq, inflight, io_cands>>
  BY <1>2 DEF ring, cands
<1>5. /\ DOMAIN results' = DOMAIN results \ {r}
      /\ \A x \in DOMAIN results' : results'[x] = results[x]
      /\ r \in Live /\ r \notin Flying
  BY <1>1, <1>2 DEF Live, Reads
<1>6. Flying' = Flying /\ Live' = Live \ {r} /\ PagesNeeded' = PagesNeeded
  BY <1>4, <1>5 DEF Flying, Live, PagesNeeded
<1>7. /\ DOMAIN page_buf' = DOMAIN page_buf \ r.block
      /\ \A p \in DOMAIN page_buf' : page_buf'[p] = page_buf[p]
  BY <1>2
<1>8. /\ r.buf \in Buffers /\ r.buf \in Held /\ r.block \subseteq DOMAIN page_buf
      /\ \A p \in r.block : page_buf[p][1] = r.buf
      /\ \A p \in DOMAIN page_buf : page_buf[p][1] = r.buf => p \in r.block
      /\ free_list' = Append(free_list, r.buf)
  BY <1>1, <1>2, <1>5, LiveHolds DEF Reads
<1>9. Held' = Held \ {r.buf}
  BY <1>7, <1>8 DEF Held
<1>10. /\ free_list' \in Seq(Buffers) /\ IsInjective(free_list')
       /\ ToSet(free_list') = ToSet(free_list) \cup {r.buf}
  <2>1. r.buf \in Buffers \ ToSet(free_list)
    BY <1>1, <1>8 DEF Pool
  <2> QED
    BY <1>1, <1>8, <2>1, PoolTakes DEF RingTyped, Pool
<1>11. RingTyped'
  BY <1>1, <1>2, <1>4, <1>7, <1>10 DEF RingTyped
<1>12. Pool' /\ Counted'
  BY <1>1, <1>2, <1>4, <1>6, <1>8, <1>9, <1>10 DEF Pool, Counted
<1>13. Reads'
  <2>1. /\ Live' \subseteq [block : Requests, buf : Buffers]
        /\ sq' \cap kernel' = {} /\ (sq' \cup kernel') \cap DOMAIN cq' = {}
        /\ Flying' \cap DOMAIN results' = {}
    BY <1>1, <1>4, <1>5, <1>6 DEF Reads
  <2>2. ASSUME NEW s \in Live'
        PROVE  /\ s.block \subseteq DOMAIN page_buf' /\ s.block \cap arrived' = {}
               /\ \A p \in s.block : page_buf'[p] = <<s.buf, Half(s.block, p)>>
               /\ \A p \in DOMAIN page_buf' : page_buf'[p][1] = s.buf => p \in s.block
    <3>1. /\ s \in Live /\ s # r
          /\ s.block \subseteq DOMAIN page_buf /\ s.block \cap arrived = {}
          /\ \A p \in s.block : page_buf[p] = <<s.buf, Half(s.block, p)>>
          /\ \A p \in DOMAIN page_buf : page_buf[p][1] = s.buf => p \in s.block
      BY <1>1, <1>6 DEF Reads
    <3>2. s.buf # r.buf
      BY <1>1, <1>5, <3>1 DEF Reads
    <3>3. s.block \cap r.block = {}
      <4>1. SUFFICES ASSUME NEW p \in s.block, p \in r.block PROVE FALSE
        OBVIOUS
      <4>2. page_buf[p][1] = s.buf
        BY <3>1, <4>1
      <4> QED
        BY <1>8, <3>2, <4>1, <4>2
    <3> QED
      BY <1>2, <1>7, <3>1, <3>3
  <2>3. \A s, u \in Live' : s.buf = u.buf => s = u
    BY <1>1, <1>6 DEF Reads
  <2>4. ASSUME NEW p \in DOMAIN page_buf'
        PROVE  p \in arrived' \/ \E s \in Live' : p \in s.block
    BY <1>1, <1>2, <1>6, <1>7 DEF Reads
  <2> QED
    BY <2>1, <2>2, <2>3, <2>4 DEF Reads
<1>14. Bytes'
  <2>1. \A p \in arrived' \cap DOMAIN page_buf' : HoldsPage(p)'
    BY <1>1, <1>2, <1>7 DEF Bytes, HoldsPage
  <2> QED
    BY <1>1, <1>2, <1>3, <1>4, <1>5, <2>1 DEF Bytes
<1>15. PagesDue' /\ Idle'
  BY <1>1, <1>2, <1>6, <1>7 DEF PagesDue, Idle
<1>16. RerankTypeOK'
  BY <1>3, <1>11 DEF RerankTypeOK, Typed, RingTyped, Stages
<1> QED
  BY <1>3, <1>12, <1>13, <1>14, <1>15, <1>16 DEF RerankIInv

LEMMA ReleaseKeeps ==
  ASSUME RerankIInv, Release
  PROVE  RerankIInv'
<1>1. /\ RingTyped /\ Typed /\ Pool /\ Reads /\ Counted /\ Bytes /\ PagesDue /\ Idle
  BY TypesSplit DEF RerankIInv
<1>2. /\ stage = "rest" /\ stage' = "extract" /\ todo = {}
      /\ free_list' = free_list \o SetToSeq(Held) /\ DOMAIN page_buf' = {}
      /\ UNCHANGED <<setting, cands, todo, ring, content, reaping, heap, answer, unread>>
      /\ Lost' = Lost
  BY DEF Release, BuffersHeld, Held, reaping, Lost
<1>3. /\ Typed' /\ stage' \in Stages /\ Passing' /\ FirstTime' /\ Covered'
      /\ Chosen' /\ Answered' /\ HoldsNearest(refined, ranked)' /\ misread' = misread
  BY <1>2, CandidatesStay
<1>4. UNCHANGED <<sq, kernel, cq, inflight, pit, left, results, arrived, io_cands>>
  BY <1>2 DEF ring, reaping, cands
<1>5. Flying' = Flying /\ Live' = Live /\ Live = {} /\ Held' = {}
  BY <1>1, <1>2, <1>4 DEF Flying, Live, Held, Idle
<1>6. /\ free_list' \in Seq(Buffers) /\ IsInjective(free_list')
      /\ ToSet(free_list') = ToSet(free_list) \cup Held
  <2>1. Held \in SUBSET Buffers /\ ToSet(free_list) \cap Held = {}
    BY <1>1 DEF Pool
  <2>2. /\ SetToSeq(Held) \in Seq(Held) /\ IsInjective(SetToSeq(Held))
        /\ ToSet(SetToSeq(Held)) = Held
    BY <2>1, SeqOfSet
  <2>3. free_list \in Seq(Buffers) /\ IsInjective(free_list)
    BY <1>1 DEF RingTyped, Pool
  <2> QED
    BY <1>2, <2>1, <2>2, <2>3, PoolTakesAll
<1>7. RingTyped'
  BY <1>1, <1>2, <1>4, <1>6 DEF RingTyped
<1>8. Pool' /\ Counted'
  BY <1>1, <1>4, <1>5, <1>6 DEF Pool, Counted
<1>9. Reads'
  BY <1>1, <1>2, <1>4, <1>5 DEF Reads
<1>10. Bytes'
  BY <1>1, <1>2, <1>3, <1>4 DEF Bytes
<1>11. PagesDue' /\ Idle'
  BY <1>1, <1>2, <1>4, <1>5 DEF PagesDue, Idle
<1>12. RerankTypeOK'
  BY <1>3, <1>7 DEF RerankTypeOK, Typed, RingTyped, Stages
<1> QED
  BY <1>3, <1>8, <1>9, <1>10, <1>11, <1>12 DEF RerankIInv

-----------------------------------------------------------------------------

LEMMA NextRerank == RerankIInv /\ [RerankNext]_rerankVars => RerankIInv'
<1> SUFFICES ASSUME RerankIInv, [RerankNext]_rerankVars PROVE RerankIInv'
  OBVIOUS
<1>1. CASE Rerank
  <2>1. CASE \E n \in todo : Step(n)
    BY <2>1, StepKeeps
  <2>2. CASE Collected \/ Pread \/ RankedAll \/ NoRing
    BY <2>2, MovesKeep
  <2>3. CASE \E r \in DOMAIN results : TakeRead(r) \/ DropRead(r)
    BY <2>3, TakeReadKeeps, DropReadKeeps
  <2> QED
    BY <1>1, <2>1, <2>2, <2>3, FindCoarseKeeps, OpenRingKeeps, QueueReadKeeps,
       NoBufferKeeps, SubmitReadsKeeps, ReapKeeps, AllInKeeps, ReleaseKeeps,
       ExtractLabelsKeeps DEF Rerank
<1>2. CASE Kernel
  BY <1>2, CompleteKeeps DEF Kernel
<1>3. CASE UNCHANGED rerankVars
  <2>1. /\ UNCHANGED <<setting, stage, coarse, cand_ids, io_cands, todo, answer, unread,
                       Lost>>
        /\ UNCHANGED <<refined, ranked, again, misread>>
        /\ UNCHANGED <<ring, buffers, reaping, heap>>
    BY <1>3 DEF rerankVars, cands, heap, reaping, Lost
  <2>2. /\ Typed /\ stage \in Stages /\ Passing /\ FirstTime /\ Covered /\ Chosen
        /\ Answered
    BY TypesSplit DEF RerankIInv
  <2>3. /\ Pool' /\ Reads' /\ Counted' /\ Bytes' /\ RingTyped'
        /\ HoldsNearest(refined, ranked)'
    BY <2>1, StageFrame
  <2>4. PagesDue' /\ Idle'
    BY <2>1, PagesStay
  <2>5. Typed' /\ stage' \in Stages /\ Passing' /\ FirstTime'
    BY <2>1, <2>2 DEF Typed, Passing, FirstTime
  <2>6. Covered' /\ Chosen' /\ Answered'
    BY <2>1, <2>2 DEF Covered, Chosen, Answered
  <2>7. RerankTypeOK'
    BY <2>3, <2>5 DEF RerankTypeOK, Typed, RingTyped, Stages
  <2> QED
    BY <2>3, <2>4, <2>5, <2>6, <2>7 DEF RerankIInv
<1> QED
  BY <1>1, <1>2, <1>3 DEF RerankNext

LEMMA RerankInvariant == RerankSpec => []RerankIInv
BY InitRerank, NextRerank, PTL DEF RerankSpec

-----------------------------------------------------------------------------
(* What follows.                                                           *)

\* A buffer is in the pool once, or belongs to one read, and is not given out
\* while a page in it is still to be ranked: the merged reads, the completions
\* in any order and the reads that fail all give back what they took.
THEOREM RerankBuffersAreOwned == RerankSpec => []BuffersHaveOneOwner
<1>1. ASSUME RerankIInv PROVE BuffersHaveOneOwner
  <2>1. Pool /\ Reads
    BY <1>1 DEF RerankIInv
  <2>2. Ring!Outstanding = Flying
    BY DEF Ring!Outstanding, Flying
  <2>3. { r.buf : r \in Flying } \cup { r.buf : r \in DOMAIN results } \subseteq Held
    BY <2>1, LiveHolds DEF Live
  <2> QED
    BY <2>1, <2>2, <2>3 DEF BuffersHaveOneOwner, Pool, Held
<1> QED
  BY <1>1, RerankInvariant, PTL

\* After a search, on whatever path and whatever failed, all buffers are in the
\* pool, each once.
THEOREM RerankBuffersComeBack == RerankSpec => []BuffersComeBack
<1>1. ASSUME RerankIInv PROVE BuffersComeBack
  <2>1. SUFFICES ASSUME stage = "done"
                 PROVE  Len(free_list) = Cardinality(Buffers) /\ ToSet(free_list) = Buffers
    BY DEF BuffersComeBack
  <2>2. Pool /\ Idle /\ free_list \in Seq(Buffers)
    BY <1>1, TypesSplit DEF RerankIInv, RingTyped
  <2>3. Held = {}
    BY <2>1, <2>2 DEF Idle, Held
  <2>4. ToSet(free_list) = Buffers /\ IsInjective(free_list)
    BY <2>2, <2>3 DEF Pool
  <2>5. Cardinality(ToSet(free_list)) = Len(free_list)
    BY <2>2, <2>4, LenOfInjective
  <2> QED
    BY <2>4, <2>5
<1> QED
  BY <1>1, RerankInvariant, PTL

\* No page is left out before the requests are queued; those that are make one page
\* more than there are buffers.
Shortage ==
  /\ stage \in {"coarse", "collect", "block", "pread", "pages", "ring"} => left_out = {}
  /\ stage = "queue" => DOMAIN page_buf \cup pit \subseteq PagesNeeded
  /\ left_out # {} => Cardinality(PagesNeeded) > Cardinality(Buffers)

LEMMA PagesNeededFinite ==
  ASSUME Typed
  PROVE  IsFiniteSet(PagesNeeded)
<1>1. IsFiniteSet(io_cands) /\ io_cands \subseteq Nodes
  BY NodesFinite, FS_Subset DEF Typed
<1> DEFINE Groups == { PagesOf[n] : n \in io_cands }
<1>2. IsFiniteSet(Groups)
  <2> DEFINE f == [n \in io_cands |-> PagesOf[n]]
  <2>1. f \in Surjection(io_cands, Groups)
    BY DEF Surjection
  <2> QED
    BY <1>1, <2>1, FS_Surjection
<1>3. \A n \in Nodes : IsFiniteSet(PagesOf[n])
  <2>1. \A p \in Nat : IsFiniteSet({p}) /\ IsFiniteSet({p, p + 1})
    <3> TAKE p \in Nat
    <3>1. IsFiniteSet({p})
      BY FS_Singleton
    <3>2. IsFiniteSet({p} \cup {p + 1})
      BY <3>1, FS_AddElement
    <3>3. {p, p + 1} = {p} \cup {p + 1}
      OBVIOUS
    <3> QED
      BY <3>1, <3>2, <3>3
  <2> QED
    BY <2>1, FineRerankAssumption
<1>4. \A G \in Groups : IsFiniteSet(G)
  BY <1>1, <1>3
<1> QED
  BY <1>2, <1>4, FS_UNION DEF PagesNeeded

LEMMA NoBufferIsShort ==
  ASSUME RerankIInv, Shortage, NoBuffer
  PROVE  Shortage'
<1>1. /\ RingTyped /\ Typed /\ Pool /\ PagesDue
  BY TypesSplit DEF RerankIInv
<1>2. /\ stage = "queue" /\ pit # {} /\ free_list = <<>>
      /\ pit' = pit \ {First(pit)}
      /\ UNCHANGED <<stage, io_cands, page_buf>>
  BY DEF NoBuffer, Queueing, cands
<1>3. PagesNeeded' = PagesNeeded
  BY <1>2 DEF PagesNeeded
<1>4. First(pit) \in PagesNeeded /\ First(pit) \notin DOMAIN page_buf
  <2>1. pit \in SUBSET Nat
    BY <1>1, FineRerankAssumption DEF PagesDue
  <2> QED
    BY <1>1, <1>2, <2>1, FirstIsLeast DEF Shortage, PagesDue
<1>5. Held = Buffers
  <2>1. ToSet(<<>>) = {}
    BY DEF ToSet
  <2> QED
    BY <1>1, <1>2, <2>1 DEF Pool
<1> DEFINE D == DOMAIN page_buf
<1>6. /\ IsFiniteSet(PagesNeeded) /\ IsFiniteSet(D) /\ D \subseteq PagesNeeded
      /\ Cardinality(PagesNeeded) \in Nat /\ Cardinality(D) \in Nat
  BY <1>1, <1>2, PagesNeededFinite, FS_Subset, FS_CardinalityType DEF Shortage
<1>7. Cardinality(D) <= Cardinality(PagesNeeded) /\ Cardinality(D) # Cardinality(PagesNeeded)
  BY <1>4, <1>6, FS_Subset
<1>8. Cardinality(Buffers) <= Cardinality(D) /\ Cardinality(Buffers) \in Nat
  <2> DEFINE f == [p \in D |-> page_buf[p][1]]
  <2>1. f \in Surjection(D, Buffers)
    BY <1>5 DEF Held, Surjection
  <2> QED
    BY <1>6, <2>1, FS_Surjection, FS_CardinalityType
<1>9. Cardinality(PagesNeeded) > Cardinality(Buffers)
  BY <1>6, <1>7, <1>8
<1> QED
  BY <1>2, <1>3, <1>9 DEF Shortage

LEMMA QueueReadIsDue ==
  ASSUME RerankIInv, Shortage, QueueRead
  PROVE  Shortage'
<1>1. RingTyped /\ PagesDue
  BY TypesSplit DEF RerankIInv
<1>2. /\ stage = "queue" /\ pit # {}
      /\ DOMAIN page_buf' = DOMAIN page_buf \cup RequestFor(First(pit))
      /\ pit' = pit \ RequestFor(First(pit))
      /\ UNCHANGED <<stage, io_cands, left_out>>
  BY DEF QueueRead, Queueing, cands
<1>3. RequestFor(First(pit)) \subseteq pit
  <2>1. pit \in SUBSET Nat
    BY <1>1, FineRerankAssumption DEF PagesDue
  <2> QED
    BY <1>2, <2>1, FirstIsLeast DEF RequestFor
<1> QED
  BY <1>2, <1>3 DEF Shortage, PagesNeeded

\* A step that leaves the pages needed and those left out as they are.
LEMMA ShortageStays ==
  ASSUME Shortage, UNCHANGED <<left_out, io_cands>>,
         stage' = "queue" => stage = "queue" /\ UNCHANGED <<page_buf, pit>>,
         stage' \in {"coarse", "collect", "block", "pread", "pages", "ring"} =>
           stage \in {"coarse", "collect", "block", "pread", "pages", "ring"}
  PROVE  Shortage'
BY DEF Shortage, PagesNeeded

LEMMA NextShortage ==
  ASSUME RerankIInv, Shortage, [RerankNext]_rerankVars
  PROVE  Shortage'
<1>1. CASE QueueRead
  BY <1>1, QueueReadIsDue
<1>2. CASE NoBuffer
  BY <1>2, NoBufferIsShort
<1>3. CASE OpenRing
  <2>1. Idle
    BY DEF RerankIInv
  <2>2. /\ stage = "ring" /\ stage' = "queue" /\ pit' = PagesNeeded
        /\ UNCHANGED <<io_cands, left_out, page_buf>>
    BY <1>3 DEF OpenRing, cands, buffers
  <2> QED
    BY <2>1, <2>2 DEF Shortage, Idle, PagesNeeded
<1>4. CASE \E n \in todo : Step(n)
  <2>1. PICK n \in todo : Step(n)
    BY <1>4
  <2>2. stage # "queue" /\ stage' = stage /\ left_out' = left_out
    BY <2>1 DEF Step, CollectVector, CollectPages, RankFromBlock, BlockFails,
                RankFromPages, PeekAt, RankRest, Passed, reaping
  <2>3. stage # "collect" => io_cands' = io_cands
    BY <2>1 DEF Step, CollectVector, CollectPages, RankFromBlock, BlockFails,
                RankFromPages, PeekAt, RankRest
  <2>4. CASE stage = "collect"
    BY <2>2, <2>4 DEF Shortage
  <2>5. CASE stage # "collect"
    BY <2>2, <2>3, <2>5, ShortageStays
  <2> QED
    BY <2>4, <2>5
<1>5. CASE FindCoarse \/ Collected \/ Pread \/ RankedAll \/ NoRing
  BY <1>5, ShortageStays DEF FindCoarse, Collected, Pread, RankedAll, NoRing, cands,
     reaping
<1>6. CASE SubmitReads \/ Reap \/ AllIn \/ Release \/ ExtractLabels
  BY <1>6, ShortageStays DEF SubmitReads, Reap, AllIn, Release, ExtractLabels, cands,
     reaping
<1>7. CASE (\E r \in DOMAIN results : TakeRead(r) \/ DropRead(r))
  BY <1>7, ShortageStays DEF TakeRead, DropRead, cands, reaping
<1>8. CASE Kernel
  BY <1>8, ShortageStays DEF Kernel, Complete, cands, reaping
<1>9. CASE UNCHANGED rerankVars
  BY <1>9, ShortageStays DEF rerankVars, cands, reaping, buffers
<1> QED
  BY <1>1, <1>2, <1>3, <1>4, <1>5, <1>6, <1>7, <1>8, <1>9 DEF RerankNext, Rerank

\* A candidate that a search did not rank has a page that could not be read, or one
\* that no buffer was left for; and as long as the pages needed are no more than the
\* buffers, no page is left out.
THEOREM RerankLosses == RerankSpec => []LostToReadsOrBuffers
<1>1. RerankInit => Shortage
  BY DEF RerankInit, Shortage, PagesNeeded
<1>2. RerankIInv /\ Shortage /\ [RerankNext]_rerankVars => Shortage'
  BY NextShortage
<1>3. ASSUME RerankIInv, Shortage PROVE LostToReadsOrBuffers
  BY <1>3 DEF RerankIInv, Covered, Passing, Lost, Shortage, LostToReadsOrBuffers
<1> QED
  BY <1>1, <1>2, <1>3, RerankInvariant, PTL DEF RerankSpec

\* The answer of a search are the nearest of the candidates whose vectors it could
\* read, each ranked once and by its own bytes, as many as were asked for.
THEOREM RerankIsRight == RerankSpec => []RankingIsRight
<1>1. ASSUME RerankIInv PROVE RankingIsRight
  <2>1. /\ RerankTypeOK /\ Typed /\ RankedByItsBytes /\ RankedOnce
        /\ HoldsNearest(refined, ranked) /\ Passing /\ Covered /\ Chosen /\ Answered
    BY <1>1, TypesSplit DEF RerankIInv, RankedByItsBytes, RankedOnce, Bytes, FirstTime
  <2>2. /\ refined \in SUBSET Nodes /\ Cardinality(refined) \in Nat
        /\ K \in Nat \ {0} /\ Cardinality(refined) <= K
    BY <2>1, NodesFinite, SearchHeapsAssumption DEF Typed, K, HoldsNearest
  <2>3. Cardinality(refined) < K => refined = ranked
    BY <2>1 DEF HoldsNearest, K
  <2>4. RefinedIsNearest
    BY <2>1, <2>2, <2>3 DEF RefinedIsNearest, HoldsNearest
  <2>5. ASSUME stage = "done", unread = {}, left_out = {}
        PROVE  /\ Len(answer) = Smaller(Cardinality(cand_ids), K)
               /\ ~setting.cut \/ (\A l \in Limits : K <= l) =>
                    Len(answer) = Smaller(Len(coarse), K)
    <3>1. ranked = cand_ids
      BY <2>1, <2>5 DEF Covered, Passing, Typed, Lost
    <3>2. refined \subseteq ranked /\ IsFiniteSet(cand_ids) /\ Cardinality(cand_ids) \in Nat
      BY <2>1, NodesFinite DEF Typed
    <3>3. Cardinality(refined) <= Cardinality(cand_ids)
      BY <3>1, <3>2, FS_Subset
    <3>4. Len(coarse) \in Nat /\ Limits \subseteq Nat
      BY <2>1, FineRerankAssumption DEF Typed
    <3>5. ASSUME ~setting.cut \/ \A l \in Limits : K <= l
          PROVE  \/ Cardinality(cand_ids) = Len(coarse)
                 \/ Len(coarse) > K /\ Cardinality(cand_ids) >= K
      BY <2>1, <2>5, <3>2, <3>4, <3>5, <2>2 DEF Chosen
    <3>6. Cardinality(refined) < K => Cardinality(refined) = Cardinality(cand_ids)
      BY <2>3, <3>1
    <3>7. Len(answer) = Cardinality(refined)
      BY <2>1, <2>5 DEF Answered
    <3>8. Len(answer) = Smaller(Cardinality(cand_ids), K)
      BY <2>2, <3>2, <3>3, <3>6, <3>7 DEF Smaller
    <3>9. ASSUME ~setting.cut \/ \A l \in Limits : K <= l
          PROVE  Len(answer) = Smaller(Len(coarse), K)
      BY <2>2, <3>2, <3>4, <3>5, <3>8, <3>9 DEF Smaller
    <3> QED
      BY <3>8, <3>9
  <2>6. AnswersAllAsked
    BY <2>5 DEF AnswersAllAsked
  <2> QED
    BY <2>1, <2>4, <2>6 DEF RankingIsRight
<1> QED
  BY <1>1, RerankInvariant, PTL

-----------------------------------------------------------------------------
(* The non-blocking search.                                                *)

Base ==
  /\ options \in Options /\ graph \in Graphs /\ entry \in Entries
  /\ cache_map \subseteq Blocks /\ in_flight \subseteq Blocks
  /\ at \in Places
  /\ candidate_set \subseteq seen /\ top_candidates \subseteq seen
  /\ seen \subseteq visited /\ visited \subseteq Nodes
  /\ lowerBound \in Nat
  /\ candidateId \in Nodes /\ local_neighbors \subseteq Nodes
  /\ lost \subseteq seen

Waits ==
  /\ Lists(deferred, visited \ seen)
  /\ Lists(unchecked, visited \ seen)
  /\ Apart(deferred, unchecked)

Shape ==
  /\ at = "entry" => /\ visited = {} /\ local_neighbors = {}
                     /\ deferred = <<>> /\ unchecked = <<>>
  /\ at \in {"expand", "again", "scan"} => candidateId \in seen
  /\ at = "fallback" /\ options.prefetch => deferred # <<>>
  /\ local_neighbors \cap visited = {}

Current == top_candidates # {} => lowerBound = Dist[Farthest(top_candidates)]

Expanding(m) ==
  /\ m = candidateId
  /\ \/ at \in {"expand", "again"}
     \/ at = "scan" /\ graph[m] \subseteq visited \cup local_neighbors

Explored ==
  \A m \in top_candidates :
    \/ graph[m] \subseteq visited
    \/ m \in lost
    \/ at \notin {"return", "done"} /\ m \in candidate_set
    \/ Expanding(m)

Right == HoldsNearest(top_candidates, seen) /\ Current /\ Explored

IInv == Base /\ Waits /\ Shape /\ Right

-----------------------------------------------------------------------------
(* What the parts of a step do.                                            *)

LEMMA Typing ==
  ASSUME Base
  PROVE  /\ options \in [pq : BOOLEAN, prefetch : BOOLEAN, fails : BOOLEAN]
         /\ graph \in [Nodes -> SUBSET Nodes]
         /\ entry \in Nodes
         /\ BlockOf \in [Nodes -> Blocks]
         /\ seen \subseteq Nodes
         /\ top_candidates \subseteq Nodes /\ candidate_set \subseteq Nodes
BY NonBlockingSearchAssumption, SharedBlocksAssumption DEF Base

LEMMA BlocksOfTyped ==
  ASSUME Base, NEW S \in SUBSET Nodes
  PROVE  BlocksOf(S) \subseteq Blocks
BY Typing DEF BlocksOf

\* Whatever happens to it, the cache holds blocks of the file.
LEMMA CacheTyped ==
  ASSUME Base, NEW b \in Blocks,
         \/ UNCHANGED cache_map
         \/ GetBlock(b)
         \/ GetBlockFails(b)
         \/ \E c \in Blocks : Cache!Load(c)
         \/ Cache!LoadFails
  PROVE  cache_map' \subseteq Blocks
<1>1. cache_map \subseteq Blocks
  BY DEF Base
<1> QED
  BY <1>1 DEF GetBlock, GetBlockFails, Cache!Load, Cache!LoadFails

\* A node is measured that was not: the heaps keep what they promise.
LEMMA ConsiderHeaps ==
  ASSUME Base, HoldsNearest(top_candidates, seen), Current,
         NEW n \in Nodes \ seen, ConsiderNode(n)
  PROVE  /\ seen' = seen \cup {n}
         /\ candidate_set' \subseteq seen' /\ candidate_set \subseteq candidate_set'
         /\ top_candidates' \subseteq top_candidates \cup {n}
         /\ n \in top_candidates' => n \in candidate_set'
         /\ HoldsNearest(top_candidates', seen')
         /\ lowerBound' \in Nat
         /\ Current'
<1> DEFINE top == top_candidates
<1>1. top \in SUBSET Nodes /\ seen \in SUBSET Nodes /\ n \in Nodes \ top
  BY Typing DEF Base
<1>2. seen' = seen \cup {n} /\ candidate_set \subseteq seen /\ lowerBound \in Nat
  BY DEF ConsiderNode, Base
<1>3. Admits(top, lowerBound, n) <=> Admits(top, Dist[Farthest(top)], n)
  <2>1. CASE top = {}
    <3>1. Cardinality(top) < Ef
      BY <2>1, FS_EmptySet, SearchHeapsAssumption
    <3> QED
      BY <3>1 DEF Admits
  <2>2. CASE top # {}
    BY <2>2 DEF Current
  <2> QED
    BY <2>1, <2>2
<1>4. CASE Admits(top, lowerBound, n)
  <2>1. /\ candidate_set' = candidate_set \cup {n}
        /\ top' = Insert(top, n)
        /\ lowerBound' = Dist[Farthest(top')]
    BY <1>4 DEF ConsiderNode
  <2>2. top' \subseteq top \cup {n} /\ top' # {}
    BY <1>1, <2>1, InsertIsSome
  <2>3. HoldsNearest(top', seen')
    BY <1>1, <1>2, <1>3, <1>4, <2>1, InsertHoldsNearest
  <2>4. lowerBound' \in Nat
    <3>1. top' \in SUBSET Nodes
      BY <1>1, <2>2
    <3>2. Farthest(top') \in Nodes
      BY <2>2, <3>1, FarthestIsTop
    <3> QED
      BY <2>1, <3>2, SearchHeapsAssumption
  <2> QED
    BY <1>2, <2>1, <2>2, <2>3, <2>4 DEF Current
<1>5. CASE ~Admits(top, lowerBound, n)
  <2>1. UNCHANGED <<candidate_set, top_candidates, lowerBound>>
    BY <1>5 DEF ConsiderNode
  <2>2. HoldsNearest(top, seen \cup {n})
    BY <1>1, <1>3, <1>5, RejectedIsFarther
  <2>3. n \notin top' /\ Current'
    BY <1>1, <2>1 DEF Current
  <2> QED
    BY <1>2, <2>1, <2>2, <2>3
<1> QED
  BY <1>4, <1>5

-----------------------------------------------------------------------------
(* The invariant: one lemma per group of actions.                          *)

LEMMA InitIInv == NonBlockingInit => IInv
<1> SUFFICES ASSUME NonBlockingInit PROVE IInv
  OBVIOUS
<1>1. Base
  <2>1. at \in Places /\ lowerBound \in Nat
    BY DEF NonBlockingInit, Places
  <2>2. candidateId \in Nodes
    BY NonBlockingSearchAssumption DEF NonBlockingInit
  <2> QED
    BY <2>1, <2>2 DEF NonBlockingInit, Base
<1>2. Waits
  <2>1. Apart(deferred, unchecked)
    BY DEF NonBlockingInit, Apart
  <2> QED
    BY <2>1, EmptyLists DEF NonBlockingInit, Waits
<1>3. Shape
  BY DEF NonBlockingInit, Shape
<1>4. Right
  BY FS_EmptySet, SearchHeapsAssumption DEF NonBlockingInit, Right, HoldsNearest, Current, Explored
<1> QED
  BY <1>1, <1>2, <1>3, <1>4 DEF IInv

\* Nothing but the cache and the reads in flight changes.
LEMMA SharedOnly ==
  ASSUME IInv, cache_map' \subseteq Blocks, in_flight' \subseteq Blocks,
         UNCHANGED <<fixed, at, heaps, visited, locals, lists, lost>>
  PROVE  IInv'
<1> USE DEF fixed, heaps, locals, lists
<1>1. Base'
  BY DEF IInv, Base
<1>2. Waits' /\ Shape'
  BY DEF IInv, Waits, Shape
<1>3. Right'
  BY DEF IInv, Right, Current, Explored, Expanding
<1> QED
  BY <1>1, <1>2, <1>3 DEF IInv

LEMMA AroundPreserves ==
  ASSUME IInv, (\E b \in Blocks : Arrive(b)) \/ OtherThread
  PROVE  IInv'
<1>1. Base
  BY DEF IInv
<1>2. ASSUME NEW b \in Blocks, Arrive(b) PROVE IInv'
  <2>1. cache_map' \subseteq Blocks
    BY <1>1, <1>2, CacheTyped DEF Arrive, Arrival
  <2>2. in_flight' \subseteq Blocks
    BY <1>1, <1>2 DEF Arrive, Arrival, Base
  <2> QED
    BY <1>2, <2>1, <2>2, SharedOnly DEF Arrive
<1>3. CASE OtherThread
  <2>1. BlockOf[entry] \in Blocks
    BY <1>1, Typing
  <2>2. cache_map' \subseteq Blocks
    BY <1>1, <1>3, <2>1, CacheTyped DEF OtherThread, OtherLookup
  <2>3. in_flight' \subseteq Blocks
    BY <1>1, <1>3 DEF OtherThread, OtherLookup, Base
  <2> QED
    BY <1>3, <2>2, <2>3, SharedOnly DEF OtherThread
<1> QED
  BY <1>2, <1>3

LEMMA EntryPreserves ==
  ASSUME IInv, EntryFound \/ EntryFails
  PROVE  IInv'
<1> USE DEF fixed, heaps, locals, lists
<1>1. Base /\ Waits /\ Shape /\ Right /\ at = "entry"
  BY DEF IInv, EntryFound, EntryFails
<1>2. /\ visited = {} /\ seen = {} /\ top_candidates = {} /\ local_neighbors = {}
      /\ deferred = <<>> /\ unchecked = <<>> /\ candidate_set = {}
  BY <1>1 DEF Base, Shape
<1>3. cache_map' \subseteq Blocks
  BY <1>1, Typing, CacheTyped DEF EntryFound, EntryFails, GetVector
<1>4. Waits'
  <2>1. deferred' = <<>> /\ unchecked' = <<>>
    BY <1>2 DEF EntryFound, EntryFails
  <2>2. Apart(<<>>, <<>>)
    BY DEF Apart
  <2> QED
    BY <2>1, <2>2, EmptyLists DEF Waits
<1>5. CASE EntryFound
  <2>1. /\ entry \in Nodes /\ Dist[entry] \in Nat /\ Cardinality({entry}) = 1
        /\ Ef \in Nat \ {0}
    BY <1>1, Typing, SearchHeapsAssumption, FS_Singleton
  <2>2. /\ candidate_set' = {entry} /\ top_candidates' = {entry}
        /\ visited' = {entry} /\ seen' = {entry} /\ lowerBound' = Dist[entry]
        /\ at' = "pop"
        /\ UNCHANGED <<options, graph, entry, in_flight, candidateId, local_neighbors,
                       deferred, unchecked, lost>>
    BY <1>5 DEF EntryFound
  <2>3. Base'
    BY <1>1, <1>2, <1>3, <2>1, <2>2 DEF Base, Places
  <2>4. Shape'
    BY <1>2, <2>2 DEF Shape
  <2>5. HoldsNearest(top_candidates', seen')
    <3>1. Cardinality({entry}) <= Ef
      BY <2>1
    <3> QED
      BY <2>1, <2>2, <3>1 DEF HoldsNearest
  <2>6. Current'
    <3>1. Farthest({entry}) = entry
      BY <2>1, FarthestIsTop
    <3> QED
      BY <2>2, <3>1 DEF Current
  <2>7. Explored'
    BY <2>2 DEF Explored
  <2> QED
    BY <1>4, <2>3, <2>4, <2>5, <2>6, <2>7 DEF IInv, Right
<1>6. CASE EntryFails
  <2>1. at' = "return" /\ UNCHANGED <<fixed, in_flight, heaps, visited, locals, lists, lost>>
    BY <1>6 DEF EntryFails
  <2>2. Base'
    BY <1>1, <1>3, <2>1 DEF Base, Places
  <2>3. Shape'
    BY <1>2, <2>1 DEF Shape
  <2>4. Right'
    BY <1>1, <1>2, <2>1 DEF Right, Current, Explored
  <2> QED
    BY <1>4, <2>2, <2>3, <2>4 DEF IInv
<1> QED
  BY <1>5, <1>6

\* The candidates run out, or one is taken; what is left is returned.
LEMMA PopPreserves ==
  ASSUME IInv, Pop \/ CheckDeferred \/ Return
  PROVE  IInv'
<1> USE DEF fixed, shared, heaps, locals, lists
<1>1. Base /\ Waits /\ Shape /\ Right
  BY DEF IInv
<1>2. CASE Pop
  <2> DEFINE n == Nearest(candidate_set)
  <2>1. /\ at = "pop" /\ candidate_set # {} /\ at' = "expand"
        /\ candidateId' = n /\ candidate_set' = candidate_set \ {n}
        /\ UNCHANGED <<fixed, shared, top_candidates, lowerBound, seen, visited,
                       local_neighbors, lists, lost>>
    BY <1>2 DEF Pop, NoImprovement
  <2>2. n \in candidate_set
    BY <1>1, <2>1, Typing, NearestIsTop
  <2> HIDE DEF n
  <2>3. Base'
    BY <1>1, <2>1, <2>2, Typing DEF Base, Places
  <2>4. Waits'
    BY <1>1, <2>1 DEF Waits
  <2>5. Shape'
    BY <1>1, <2>1, <2>2 DEF Shape, Base
  <2>6. Right'
    BY <1>1, <2>1 DEF Right, Current, Explored, Expanding
  <2> QED
    BY <2>3, <2>4, <2>5, <2>6 DEF IInv
<1>3. CASE CheckDeferred
  <2>1. /\ at = "pop" /\ at' \in {"return", "check"}
        /\ unchecked' = deferred /\ deferred' = <<>>
        /\ UNCHANGED <<fixed, shared, heaps, visited, locals, lost>>
    BY <1>3 DEF CheckDeferred
  <2>2. candidate_set \cap top_candidates = {}
    <3>1. SUFFICES ASSUME NEW m \in candidate_set, m \in top_candidates PROVE FALSE
      OBVIOUS
    <3>2. lowerBound < Dist[Nearest(candidate_set)]
      BY <1>3, <3>1 DEF CheckDeferred, NoImprovement, Converged
    <3>3. Nearest(candidate_set) \in Nodes /\ Dist[Nearest(candidate_set)] <= Dist[m]
      BY <1>1, <3>1, Typing, NearestIsTop
    <3>4. Dist[m] <= lowerBound
      BY <1>1, <3>1, Typing, FarthestIsTop DEF Right, Current
    <3>5. Dist \in [Nodes -> Nat] /\ lowerBound \in Nat /\ m \in Nodes
      BY <1>1, <3>1, Typing, SearchHeapsAssumption DEF Base
    <3> QED
      BY <3>2, <3>3, <3>4, <3>5
  <2>3. Base'
    BY <1>1, <2>1 DEF Base, Places
  <2>4. Waits'
    <3>1. Apart(<<>>, deferred)
      BY DEF Apart
    <3> QED
      BY <1>1, <2>1, <3>1, EmptyLists DEF Waits
  <2>5. Shape'
    BY <1>1, <2>1 DEF Shape
  <2>6. Right'
    BY <1>1, <2>1, <2>2 DEF Right, Current, Explored, Expanding
  <2> QED
    BY <2>3, <2>4, <2>5, <2>6 DEF IInv
<1>4. CASE Return
  <2>1. /\ at = "return" /\ at' = "done"
        /\ candidate_set' = candidate_set \cup top_candidates
        /\ UNCHANGED <<fixed, shared, top_candidates, lowerBound, seen, visited,
                       locals, lists, lost>>
    BY <1>4 DEF Return
  <2>2. Base'
    BY <1>1, <2>1 DEF Base, Places
  <2>3. Waits' /\ Shape'
    BY <1>1, <2>1 DEF Waits, Shape
  <2>4. Right'
    BY <1>1, <2>1 DEF Right, Current, Explored, Expanding
  <2> QED
    BY <2>2, <2>3, <2>4 DEF IInv
<1> QED
  BY <1>2, <1>3, <1>4

\* A candidate's block is loaded, and the candidate expanded or given up.
LEMMA ExpandPreserves ==
  ASSUME IInv, LoadCandidate \/ GiveUp \/ Expand \/ ScanEnd
  PROVE  IInv'
<1> USE DEF fixed, shared, heaps, locals, lists
<1>1. Base /\ Waits /\ Shape /\ Right
  BY DEF IInv
<1>2. /\ candidateId \in Nodes /\ BlockOf[candidateId] \in Blocks
      /\ graph[candidateId] \subseteq Nodes
  BY <1>1, Typing DEF Base
<1>3. CASE LoadCandidate
  <2>1. /\ at = "expand" /\ at' = "again"
        /\ UNCHANGED <<fixed, in_flight, heaps, visited, locals, lists, lost>>
    BY <1>3 DEF LoadCandidate
  <2>2. cache_map' \subseteq Blocks
    BY <1>1, <1>2, <1>3, CacheTyped DEF LoadCandidate
  <2>3. Base'
    BY <1>1, <2>1, <2>2 DEF Base, Places
  <2>4. Waits' /\ Shape'
    BY <1>1, <2>1 DEF Waits, Shape
  <2>5. Right'
    BY <1>1, <2>1 DEF Right, Current, Explored, Expanding
  <2> QED
    BY <2>3, <2>4, <2>5 DEF IInv
<1>4. CASE GiveUp
  <2>1. /\ at = "again" /\ at' = "pop" /\ lost' = lost \cup {candidateId}
        /\ UNCHANGED <<fixed, shared, heaps, visited, locals, lists>>
    BY <1>4 DEF GiveUp
  <2>2. Base'
    BY <1>1, <2>1 DEF Base, Shape, Places
  <2>3. Waits' /\ Shape'
    BY <1>1, <2>1 DEF Waits, Shape
  <2>4. Right'
    BY <1>1, <2>1 DEF Right, Current, Explored, Expanding
  <2> QED
    BY <2>2, <2>3, <2>4 DEF IInv
<1>5. CASE Expand
  <2>1. /\ at \in {"expand", "again"} /\ at' = "scan"
        /\ local_neighbors' = graph[candidateId] \ visited
        /\ UNCHANGED <<fixed, cache_map, heaps, visited, candidateId, lists, lost>>
    BY <1>5 DEF Expand
  <2>2. in_flight' \subseteq Blocks
    <3>1. BlocksOf(graph[candidateId]) \subseteq Blocks /\ in_flight \subseteq Blocks
      BY <1>1, <1>2, BlocksOfTyped DEF Base
    <3> QED
      BY <1>5, <3>1 DEF Expand, SubmitPrefetch
  <2>3. Base'
    BY <1>1, <1>2, <2>1, <2>2 DEF Base, Places
  <2>4. Waits' /\ Shape'
    BY <1>1, <2>1 DEF Waits, Shape
  <2>5. Right'
    BY <1>1, <2>1 DEF Right, Current, Explored, Expanding
  <2> QED
    BY <2>3, <2>4, <2>5 DEF IInv
<1>6. CASE ScanEnd
  <2>1. /\ at = "scan" /\ at' = "pop" /\ local_neighbors = {}
        /\ UNCHANGED <<fixed, shared, heaps, visited, locals, lists, lost>>
    BY <1>6 DEF ScanEnd
  <2>2. Base'
    BY <1>1, <2>1 DEF Base, Places
  <2>3. Waits' /\ Shape'
    BY <1>1, <2>1 DEF Waits, Shape
  <2>4. Right'
    BY <1>1, <2>1 DEF Right, Current, Explored, Expanding
  <2> QED
    BY <2>2, <2>3, <2>4 DEF IInv
<1> QED
  BY <1>3, <1>4, <1>5, <1>6

\* A neighbour is measured, or put off.
LEMMA ScanPreserves ==
  ASSUME IInv, NEW n \in Nodes, ScanNow(n) \/ Defer(n)
  PROVE  IInv'
<1> USE DEF fixed, shared, locals
<1>1. Base /\ Waits /\ Shape /\ Right
  BY DEF IInv
<1>2. /\ at = "scan" /\ n \in local_neighbors
      /\ local_neighbors' = local_neighbors \ {n}
      /\ visited' = visited \cup {n}
      /\ UNCHANGED <<fixed, shared, at, candidateId, unchecked, lost>>
  BY DEF ScanNow, Defer, Take
<1>3. n \notin visited /\ n \notin seen
  BY <1>1, <1>2 DEF Base, Shape
<1>4. Shape'
  <2>1. candidateId \in seen /\ local_neighbors' \cap visited' = {}
    BY <1>1, <1>2 DEF Shape
  <2>2. seen \subseteq seen'
    BY DEF ScanNow, Defer, ConsiderNode, heaps
  <2> QED
    BY <1>2, <2>1, <2>2 DEF Shape
<1>5. CASE ScanNow(n)
  <2>1. /\ seen' = seen \cup {n}
        /\ candidate_set' \subseteq seen' /\ candidate_set \subseteq candidate_set'
        /\ top_candidates' \subseteq top_candidates \cup {n}
        /\ n \in top_candidates' => n \in candidate_set'
        /\ HoldsNearest(top_candidates', seen')
        /\ lowerBound' \in Nat
        /\ Current'
    BY <1>1, <1>3, <1>5, ConsiderHeaps DEF ScanNow, Right
  <2>2. deferred' = deferred
    BY <1>5 DEF ScanNow
  <2>3. Base'
    BY <1>1, <1>2, <2>1 DEF Base
  <2>4. Waits'
    <3>1. visited' \ seen' = visited \ seen
      BY <1>2, <1>3, <2>1
    <3> QED
      BY <1>1, <1>2, <2>2, <3>1 DEF Waits
  <2>5. Explored'
    BY <1>1, <1>2, <2>1 DEF Right, Explored, Expanding
  <2> QED
    BY <1>4, <2>1, <2>3, <2>4, <2>5 DEF IInv, Right
<1>6. CASE Defer(n)
  <2>1. deferred' = Append(deferred, n) /\ UNCHANGED heaps
    BY <1>6 DEF Defer
  <2> USE DEF heaps
  <2>2. Base'
    BY <1>1, <1>2, <2>1 DEF Base
  <2>3. Waits'
    <3> DEFINE S == visited' \ seen'
    <3>1. n \in Nodes \cap S /\ visited \ seen \subseteq S
      BY <1>2, <1>3, <2>1
    <3>2. /\ \A i \in 1 .. Len(deferred) : deferred[i] # n
          /\ \A i \in 1 .. Len(unchecked) : unchecked[i] # n
      BY <1>1, <1>3 DEF Waits, Lists
    <3>3. Lists(deferred, S) /\ Lists(unchecked, S)
      BY <1>1, <3>1, ListsWithin DEF Waits
    <3> HIDE DEF S
    <3>4. Lists(Append(deferred, n), S)
      BY <3>1, <3>2, <3>3, AppendNew
    <3>5. Apart(Append(deferred, n), unchecked)
      BY <1>1, <3>2, AppendApart DEF Waits
    <3> QED
      BY <1>2, <2>1, <3>3, <3>4, <3>5 DEF Waits, S
  <2>4. Right'
    BY <1>1, <1>2, <2>1 DEF Right, Current, Explored, Expanding
  <2> QED
    BY <1>4, <2>2, <2>3, <2>4 DEF IInv
<1> QED
  BY <1>5, <1>6

\* The deferred neighbours are asked for again: each is either measured already
\* or put off again.
LEMMA CheckPreserves ==
  ASSUME IInv, Ready \/ StillDeferred \/ Checked
  PROVE  IInv'
<1> USE DEF fixed, shared, heaps, locals, lists
<1>1. Base /\ Waits /\ Shape /\ Right
  BY DEF IInv
<1>2. CASE Ready \/ StillDeferred
  <2> DEFINE n == Head(unchecked)
             S == visited \ seen
  <2>1. /\ at = "check" /\ unchecked # <<>> /\ unchecked' = Tail(unchecked)
        /\ UNCHANGED <<fixed, shared, at, locals, lost>>
    BY <1>2 DEF Ready, StillDeferred
  <2>2. Lists(deferred, S) /\ Lists(unchecked, S) /\ Apart(deferred, unchecked)
    BY <1>1 DEF Waits
  <2> HIDE DEF S
  <2>3. /\ n \in Nodes \cap S
        /\ Lists(Tail(unchecked), S \ {n})
        /\ \A i \in 1 .. Len(Tail(unchecked)) : Tail(unchecked)[i] # n
        /\ \A i \in 1 .. Len(Tail(unchecked)) :
             \E j \in 1 .. Len(unchecked) : Tail(unchecked)[i] = unchecked[j]
    <3>1. unchecked # <<>> /\ Lists(unchecked, S)
      BY <2>1, <2>2
    <3>2. /\ n \in Nodes \cap S /\ Lists(Tail(unchecked), S \ {n})
          /\ \A i \in 1 .. Len(Tail(unchecked)) :
               \E j \in 1 .. Len(unchecked) : Tail(unchecked)[i] = unchecked[j]
      BY <3>1, TailDrops
    <3>3. \A i \in 1 .. Len(Tail(unchecked)) : Tail(unchecked)[i] # n
      BY <3>2 DEF Lists
    <3> QED
      BY <3>2, <3>3
  <2> HIDE DEF n
  <2>4. Lists(Tail(unchecked), S) /\ Apart(deferred, Tail(unchecked))
    <3>1. Lists(Tail(unchecked), S)
      BY <2>3, ListsWithin
    <3>2. Apart(deferred, Tail(unchecked))
      BY <2>2, <2>3 DEF Apart
    <3> QED
      BY <3>1, <3>2
  <2>5. UNCHANGED <<heaps, visited>>
    BY <1>2, <2>3 DEF Ready, StillDeferred, S, n
  <2>6. Base'
    BY <1>1, <2>1, <2>5 DEF Base
  <2>7. Shape' /\ Right'
    BY <1>1, <2>1, <2>5 DEF Shape, Right, Current, Explored, Expanding
  <2>8. Waits'
    <3>1. CASE deferred' = deferred
      BY <2>1, <2>2, <2>4, <2>5, <3>1 DEF Waits, S
    <3>2. CASE deferred' = Append(deferred, n)
      <4>1. \A i \in 1 .. Len(deferred) : deferred[i] # n
        <5>1. n = unchecked[1] /\ 1 \in 1 .. Len(unchecked)
          BY <2>1, <2>2 DEF Lists, n
        <5> QED
          BY <2>2, <5>1 DEF Apart
      <4>2. Lists(Append(deferred, n), S)
        BY <2>2, <2>3, <4>1, AppendNew
      <4>3. Apart(Append(deferred, n), Tail(unchecked))
        BY <2>2, <2>3, <2>4, AppendApart
      <4> QED
        BY <2>1, <2>4, <2>5, <3>2, <4>2, <4>3 DEF Waits, S
    <3> QED
      BY <1>2, <3>1, <3>2 DEF Ready, StillDeferred, n
  <2> QED
    BY <2>6, <2>7, <2>8 DEF IInv
<1>3. CASE Checked
  <2>1. /\ at = "check" /\ at' \in {"pop", "return", "fallback"}
        /\ at' = "return" => candidate_set = {}
        /\ at' = "fallback" => deferred # <<>>
        /\ UNCHANGED <<fixed, shared, heaps, visited, locals, lists, lost>>
    BY <1>3 DEF Checked
  <2>2. Base'
    BY <1>1, <2>1 DEF Base, Places
  <2>3. Waits' /\ Shape'
    BY <1>1, <2>1 DEF Waits, Shape
  <2>4. Right'
    BY <1>1, <2>1 DEF Right, Current, Explored, Expanding
  <2> QED
    BY <2>2, <2>3, <2>4 DEF IInv
<1> QED
  BY <1>2, <1>3

\* The last resort: a deferred neighbour is fetched and measured, or passed over.
LEMMA FallbackPreserves ==
  ASSUME IInv, LoadFirst \/ FetchDeferred \/ FetchEnd
  PROVE  IInv'
<1> USE DEF fixed, shared, locals, lists
<1>1. Base /\ Waits /\ Shape /\ Right
  BY DEF IInv
<1> DEFINE n == Head(deferred)
           S == visited \ seen
<1>2. Lists(deferred, S) /\ Lists(unchecked, S) /\ Apart(deferred, unchecked)
  BY <1>1 DEF Waits
<1>3. CASE LoadFirst
  <2>1. /\ at = "fallback" /\ options.prefetch /\ at' = "pop"
        /\ UNCHANGED <<fixed, heaps, visited, locals, lists, lost>>
    BY <1>3 DEF LoadFirst
  <2> USE DEF heaps
  <2>2. deferred # <<>>
    BY <1>1, <2>1 DEF Shape
  <2>3. n \in Nodes
    BY <1>2, <2>2, TailDrops
  <2>4. cache_map' \subseteq Blocks
    <3>1. BlockOf[n] \in Blocks
      BY <1>1, <2>3, Typing
    <3> QED
      BY <1>1, <1>3, <3>1, CacheTyped DEF LoadFirst
  <2>5. in_flight' \subseteq Blocks
    <3>1. ToSet(deferred) \in SUBSET Nodes
      BY <1>2 DEF Lists, ToSet
    <3>2. BlocksOf(ToSet(deferred)) \subseteq Blocks /\ in_flight \subseteq Blocks
      BY <1>1, <3>1, BlocksOfTyped DEF Base
    <3> QED
      BY <1>3, <3>2 DEF LoadFirst
  <2>6. Base'
    BY <1>1, <2>1, <2>4, <2>5 DEF Base, Places
  <2>7. Waits' /\ Shape'
    BY <1>1, <2>1 DEF Waits, Shape
  <2>8. Right'
    BY <1>1, <2>1 DEF Right, Current, Explored, Expanding
  <2> QED
    BY <2>6, <2>7, <2>8 DEF IInv
<1>4. CASE FetchDeferred
  <2>1. /\ at = "fallback" /\ ~options.prefetch /\ deferred # <<>>
        /\ deferred' = Tail(deferred)
        /\ ConsiderNode(n) \/ UNCHANGED heaps
        /\ UNCHANGED <<fixed, in_flight, at, visited, locals, unchecked, lost>>
    BY <1>4 DEF FetchDeferred
  <2> HIDE DEF S
  <2>2. /\ n \in Nodes \cap S
        /\ Lists(Tail(deferred), S \ {n})
        /\ \A i \in 1 .. Len(Tail(deferred)) :
             \E j \in 1 .. Len(deferred) : Tail(deferred)[i] = deferred[j]
    BY <1>2, <2>1, TailDrops
  <2>3. Lists(unchecked, S \ {n}) /\ Apart(Tail(deferred), unchecked)
    <3>1. n = deferred[1] /\ 1 \in 1 .. Len(deferred)
      BY <1>2, <2>1 DEF Lists
    <3>2. \A i \in 1 .. Len(unchecked) : unchecked[i] # n
      BY <1>2, <3>1 DEF Apart
    <3>3. Lists(unchecked, S \ {n})
      BY <1>2, <3>2 DEF Lists
    <3>4. Apart(Tail(deferred), unchecked)
      BY <1>2, <2>2 DEF Apart
    <3> QED
      BY <3>3, <3>4
  <2>4. cache_map' \subseteq Blocks
    <3>1. BlockOf[n] \in Blocks
      BY <1>1, <2>2, Typing
    <3> QED
      BY <1>1, <1>4, <3>1, CacheTyped DEF FetchDeferred, GetVector
  <2> HIDE DEF n
  <2>5. CASE ConsiderNode(n)
    <3>1. n \in Nodes \ seen /\ n \in visited
      BY <2>2 DEF S
    <3>2. /\ seen' = seen \cup {n}
          /\ candidate_set' \subseteq seen' /\ candidate_set \subseteq candidate_set'
          /\ top_candidates' \subseteq top_candidates \cup {n}
          /\ n \in top_candidates' => n \in candidate_set'
          /\ HoldsNearest(top_candidates', seen')
          /\ lowerBound' \in Nat
          /\ Current'
      BY <1>1, <2>5, <3>1, ConsiderHeaps DEF Right
    <3>3. Base'
      BY <1>1, <2>1, <2>4, <3>1, <3>2 DEF Base
    <3>4. Waits'
      <4>1. visited' \ seen' = S \ {n}
        BY <2>1, <3>2 DEF S
      <4> QED
        BY <2>1, <2>2, <2>3, <4>1 DEF Waits
    <3>5. Shape'
      BY <1>1, <2>1 DEF Shape
    <3>6. Explored'
      BY <1>1, <2>1, <3>2 DEF Right, Explored, Expanding
    <3> QED
      BY <3>2, <3>3, <3>4, <3>5, <3>6 DEF IInv, Right
  <2>6. CASE UNCHANGED heaps
    <3> USE DEF heaps
    <3>1. Base'
      BY <1>1, <2>1, <2>4, <2>6 DEF Base
    <3>2. Waits'
      <4>1. Lists(Tail(deferred), S)
        BY <2>2, ListsWithin
      <4> QED
        BY <1>2, <2>1, <2>3, <2>6, <4>1 DEF Waits, S
    <3>3. Shape' /\ Right'
      BY <1>1, <2>1, <2>6 DEF Shape, Right, Current, Explored, Expanding
    <3> QED
      BY <3>1, <3>2, <3>3 DEF IInv
  <2> QED
    BY <2>1, <2>5, <2>6
<1>5. CASE FetchEnd
  <2>1. /\ at = "fallback" /\ at' = "pop"
        /\ UNCHANGED <<fixed, shared, heaps, visited, locals, lists, lost>>
    BY <1>5 DEF FetchEnd
  <2> USE DEF heaps
  <2>2. Base'
    BY <1>1, <2>1 DEF Base, Places
  <2>3. Waits' /\ Shape'
    BY <1>1, <2>1 DEF Waits, Shape
  <2>4. Right'
    BY <1>1, <2>1 DEF Right, Current, Explored, Expanding
  <2> QED
    BY <2>2, <2>3, <2>4 DEF IInv
<1> QED
  BY <1>3, <1>4, <1>5

LEMMA NextPreserves ==
  ASSUME IInv, [NonBlockingNext]_searchVars
  PROVE  IInv'
<1>1. CASE UNCHANGED searchVars
  <2>1. cache_map' \subseteq Blocks /\ in_flight' \subseteq Blocks
    BY <1>1 DEF searchVars, shared, IInv, Base
  <2> QED
    BY <1>1, <2>1, SharedOnly DEF searchVars
<1>2. CASE (\E b \in Blocks : Arrive(b)) \/ OtherThread
  BY <1>2, AroundPreserves
<1>3. CASE SearchStep
  BY <1>3, EntryPreserves, PopPreserves, ExpandPreserves, ScanPreserves,
     CheckPreserves, FallbackPreserves DEF SearchStep
<1> QED
  BY <1>1, <1>2, <1>3 DEF NonBlockingNext

LEMMA SearchInvariant == NonBlockingSpec => []IInv
<1>1. NonBlockingInit => IInv
  BY InitIInv
<1>2. IInv /\ [NonBlockingNext]_searchVars => IInv'
  BY NextPreserves
<1> QED
  BY <1>1, <1>2, PTL DEF NonBlockingSpec

-----------------------------------------------------------------------------
(* The theorem.                                                            *)

\* However often a neighbour is put off, and whatever the cache and the other
\* threads do meanwhile, the result holds the nearest of the nodes measured, and
\* the neighbours of a result have all been met unless its block was lost twice:
\* for every graph, every layout, every cache and every ef.
THEOREM DeferringKeepsTheResult == NonBlockingSpec => []ResultIsRight
<1>1. ASSUME IInv PROVE NonBlockingTypeOK
  <2>1. Base /\ Waits
    BY <1>1 DEF IInv
  <2>2. /\ ToSet(deferred) \cup ToSet(unchecked) \subseteq visited \ seen
        /\ IsInjective(deferred \o unchecked)
    BY <2>1, Joined DEF Waits
  <2> QED
    BY <2>1, <2>2 DEF Base, NonBlockingTypeOK
<1>2. ASSUME IInv PROVE TopIsNearest
  BY <1>2 DEF IInv, Right, HoldsNearest, TopIsNearest
<1>3. ASSUME IInv PROVE ResultIsExplored
  BY <1>3 DEF IInv, Right, Explored, Expanding, ResultIsExplored
<1>4. IInv => ResultIsRight
  BY <1>1, <1>2, <1>3 DEF ResultIsRight
<1> QED
  BY <1>4, SearchInvariant, PTL

=============================================================================
