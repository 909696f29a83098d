------------------------------ MODULE FineRerank ------------------------------
(***************************************************************************)
(* The second stage of DiskHNSW::searchKnn under TWO_STAGE: the nodes that *)
(* the coarse search found by PQ distance are ranked by exact distance.    *)
(* Vectors in memory are used at once; the rest is read in pages of 4 KB,  *)
(* by pread or through a ring of the thread's own, or in whole blocks      *)
(* through the cache.                                                      *)
(*                                                                         *)
(* One thread; the heap `refined' is one of SearchHeaps, of K nodes.       *)
(***************************************************************************)
EXTENDS SearchHeaps, Sequences, SequencesExt

CONSTANTS
  VecPages,    \* the pages of the file of vectors, numbered
  PagesOf,     \* the pages that hold the vector of a node: one, or two in a row
  Buffers,     \* the buffer pool of vec_ring_
  Coarse,      \* what the coarse search may return: nodes, nearest first by PQ
  LabelOf,     \* the label of a node (new_to_old_, then labels)
  Limits,      \* where ADAPTIVE_EF and LEARNED_EF may cut the candidates
  Settings     \* the settings: records of
               \*   path    "pread", "peek" (FINE_CQE_PEEK), "barrier" or "block"
               \*   merge   FINE_MERGE
               \*   cut     ADAPTIVE_EF or LEARNED_EF
               \*   fails   may reads fail, and the ring be refused?
               \*   partial may io_uring_enter take a part of the queue only?

K == Ef

\* The coarse search visits a node once, and so returns it once.
ASSUME FineRerankAssumption ==
  /\ VecPages \subseteq Nat
  /\ PagesOf \in [Nodes -> SUBSET VecPages]
  /\ \A n \in Nodes : \E p \in VecPages : PagesOf[n] \in {{p}, {p, p + 1}}
  /\ IsFiniteSet(Buffers)
  /\ Coarse \subseteq Seq(Nodes) /\ \A c \in Coarse : IsInjective(c)
  /\ Limits \subseteq Nat \ {0}
  /\ Settings \subseteq [path : {"pread", "peek", "barrier", "block"},
                         merge : BOOLEAN, cut : BOOLEAN, fails : BOOLEAN,
                         partial : BOOLEAN]

VARIABLES
  setting,      \* the settings: fixed
  stage,        \* where the search is
  coarse,       \* what the coarse search returned
  cand_ids,     \* the candidates to rank
  refined,      \* the nearest nodes ranked so far
  io_cands,     \* the candidates whose vectors are read
  todo,         \* the candidates that the loop at hand has not come to
  page_buf,     \* page -> <<buffer, half>> of the pages requested and not failed
  free_list,    \* the buffers in the pool
  content,      \* what a buffer holds: the pages last read into it
  sq, kernel, cq, inflight,  \* vec_ring_
  pit,          \* the pages no request was made for yet
  left,         \* total - done
  results,      \* the completions reaped and not handled: read -> outcome
  arrived,      \* the pages that have arrived (page0_ready, page1_ready)
  answer,       \* what the search returns
  ranked,       \* history: the nodes ranked
  again,        \* history: the nodes ranked a second time
  misread,      \* history: the nodes ranked by bytes that are not theirs
  unread,       \* history: the pages whose read failed, or could not be tried
  left_out      \* history: the pages no request was made for: no buffer was left

cands   == <<coarse, cand_ids, io_cands>>
ring    == <<sq, kernel, cq, inflight>>
buffers == <<page_buf, free_list, content>>
reaping == <<pit, left_out, left, results, arrived>>
heap    == <<refined, ranked, again, misread>>
rerankVars ==
  <<setting, stage, cands, todo, ring, buffers, reaping, heap, answer, unread>>

\* What one request reads: a page, or two that follow each other.
Requests == { {p} : p \in VecPages } \cup { {p, p + 1} : p \in VecPages }

First(r) == CHOOSE p \in r : \A q \in r : p <= q

Ring == INSTANCE IoUring WITH
          Blocks <- Requests, SqEntries <- Cardinality(Buffers),
          SubmitMayFail <- TRUE, free <- ToSet(free_list)

PagesNeeded == UNION { PagesOf[n] : n \in io_cands }

-----------------------------------------------------------------------------
(* Ranking.                                                                *)

\* Mutant: a node goes in only if it is the nearest so far.
MutConsider(top, n) ==
  IF Cardinality(top) < K \/ Dist[n] < Dist[Nearest(top)]
  THEN Insert(top, n) ELSE top

\* consider: the heap keeps the K nearest.
Consider(top, n) ==
  IF Cardinality(top) < K \/ Dist[n] < Dist[Farthest(top)]
  THEN Insert(top, n) ELSE top

Rank(n) ==
  /\ refined' = Consider(refined, n)
  /\ ranked' = ranked \cup {n}
  /\ again' = again \cup (ranked \cap {n})

\* getPagePtr, and the bytes found there: those of page p?
HoldsPage(p) ==
  LET held == content[page_buf[p][1]]
  IN  held # {} /\ First(held) + page_buf[p][2] = p

\* The node is ranked by what lies in the buffers of its pages.  (A vector that
\* spans two pages is put together in 512 bytes on the stack: it is taken for
\* granted that it fits.)
RankFromBuffers(n) ==
  /\ Rank(n)
  /\ misread' = misread \cup { m \in {n} : \E p \in PagesOf[m] : ~HoldsPage(p) }

HasBuffers(n) == PagesOf[n] \subseteq DOMAIN page_buf

-----------------------------------------------------------------------------
(* The candidates.  The loops go through them in any order: what the heap  *)
(* keeps does not depend on it.                                            *)

\* ADAPTIVE_EF and LEARNED_EF: more candidates than K may be cut to a limit,
\* which the gaps between PQ distances, or a model trained on them, decide.
Cuts(c) ==
  IF setting.cut /\ Len(c) > K
  THEN {c} \cup { SubSeq(c, 1, l) : l \in { m \in Limits : m < Len(c) } }
  ELSE {c}

FindCoarse ==
  /\ stage = "coarse"
  /\ \E c \in Coarse : coarse' = c /\ \E s \in Cuts(c) : cand_ids' = ToSet(s)
  /\ todo' = cand_ids'
  /\ stage' = IF setting.path = "block" THEN "block" ELSE "collect"
  /\ UNCHANGED <<setting, io_cands, ring, buffers, reaping, heap, answer, unread>>

Passed(n) ==
  /\ todo' = todo \ {n}
  /\ UNCHANGED <<setting, stage, coarse, cand_ids, ring, buffers, reaping, answer>>

\* The vector of a candidate is in the flat vectors or in a cached block.
CollectVector(n) ==
  /\ stage = "collect" /\ Passed(n)
  /\ Rank(n)
  /\ UNCHANGED <<io_cands, misread, unread>>

\* It is in neither: its pages have to be read.
CollectPages(n) ==
  /\ stage = "collect" /\ Passed(n)
  /\ io_cands' = io_cands \cup {n}
  /\ UNCHANGED <<heap, unread>>

Collected ==
  /\ stage = "collect" /\ todo = {}
  /\ stage' = IF setting.path = "pread" THEN "pread" ELSE "ring"
  /\ UNCHANGED <<setting, cands, todo, ring, buffers, reaping, heap, answer, unread>>

-----------------------------------------------------------------------------
(* Whole blocks, and pread.                                                *)

\* The blocks missing have been prefetched and waited for; getNodeVector loads
\* what is missing still.
RankFromBlock(n) ==
  /\ stage = "block" /\ Passed(n)
  /\ Rank(n)
  /\ UNCHANGED <<io_cands, misread, unread>>

\* A node whose block cannot be read is passed over.
BlockFails(n) ==
  /\ stage = "block" /\ setting.fails /\ Passed(n)
  /\ unread' = unread \cup PagesOf[n]
  /\ UNCHANGED <<io_cands, heap>>

\* One pread for each page; a page read in part is left out.
Pread ==
  /\ stage = "pread"
  /\ unread' \in IF setting.fails THEN SUBSET PagesNeeded ELSE {{}}
  /\ todo' = io_cands
  /\ stage' = "pages"
  /\ UNCHANGED <<setting, cands, ring, buffers, reaping, heap, answer>>

\* page_cache.find: a candidate that lacks a page is passed over.
RankFromPages(n) ==
  /\ stage = "pages" /\ Passed(n)
  /\ IF PagesOf[n] \cap unread = {} THEN Rank(n)
                                    ELSE UNCHANGED <<refined, ranked, again>>
  /\ UNCHANGED <<io_cands, misread, unread>>

RankedAll ==
  /\ stage \in {"block", "pages"} /\ todo = {}
  /\ stage' = "extract"
  /\ UNCHANGED <<setting, cands, todo, ring, buffers, reaping, heap, answer, unread>>

-----------------------------------------------------------------------------
(* The ring.                                                               *)

\* The ring cannot be set up: only the vectors in memory have been ranked.
NoRing ==
  /\ stage = "ring" /\ setting.fails
  /\ unread' = PagesNeeded
  /\ stage' = "extract"
  /\ UNCHANGED <<setting, cands, todo, ring, buffers, reaping, heap, answer>>

OpenRing ==
  /\ stage = "ring"
  /\ pit' = PagesNeeded
  /\ stage' = "queue"
  /\ UNCHANGED <<setting, cands, todo, ring, buffers, left_out, left, results, arrived,
                 heap, answer, unread>>

\* The request for page p: with FINE_MERGE, the page after it comes along.
RequestFor(p) == IF setting.merge /\ p + 1 \in pit THEN {p, p + 1} ELSE {p}

\* Which half of its buffer page p of request r is in.
Half(r, p) == p - First(r)

Queueing ==
  /\ stage = "queue" /\ pit # {}
  /\ UNCHANGED <<setting, stage, cands, todo, kernel, cq, content, results, arrived,
                 heap, answer, unread>>

\* A request is queued, and a buffer goes with it.
QueueRead ==
  /\ Queueing /\ free_list # <<>>
  /\ LET r == RequestFor(First(pit))
         buf == Last(free_list)
     IN  /\ sq' = sq \cup {[block |-> r, buf |-> buf]}
         /\ page_buf' = [p \in DOMAIN page_buf \cup r |->
                           IF p \in r THEN <<buf, Half(r, p)>> ELSE page_buf[p]]
         /\ pit' = pit \ r
  /\ free_list' = Front(free_list)
  /\ inflight' = inflight + 1 /\ left' = left + 1
  /\ UNCHANGED left_out

\* Mutant: a page without a buffer is waited for.
MutNoBuffer ==
  /\ Queueing /\ free_list = <<>>
  /\ pit' = pit \ {First(pit)}
  /\ left_out' = left_out \cup {First(pit)}
  /\ left' = left + 1
  /\ UNCHANGED <<sq, page_buf, free_list, inflight>>

\* There is no buffer: the page is left out, and with it the candidates that need
\* it.  Nobody is told.
NoBuffer ==
  /\ Queueing /\ free_list = <<>>
  /\ pit' = pit \ {First(pit)}
  /\ left_out' = left_out \cup {First(pit)}
  /\ UNCHANGED <<sq, page_buf, free_list, inflight, left>>

\* What io_uring_enter takes is not looked at.
SubmitReads ==
  /\ stage = "queue" /\ pit = {}
  /\ Ring!Submit
  /\ setting.partial \/ sq' = {}
  /\ stage' = "io"
  /\ UNCHANGED <<setting, cands, todo, cq, inflight, buffers, reaping, heap, answer,
                 unread>>

\* A read ends; one that fails, or is short, leaves the buffer as it was.
Complete(r) ==
  /\ UNCHANGED free_list
  /\ Ring!KernelCompletes(r)
  /\ setting.fails \/ cq'[r] = "full"
  /\ content' = IF cq'[r] = "full" THEN [content EXCEPT ![r.buf] = r.block] ELSE content
  /\ UNCHANGED <<setting, stage, cands, todo, page_buf, reaping, heap, answer, unread>>

\* waitCompletion has returned; reapCompletions takes what there is.
Reap ==
  /\ stage = "io" /\ left > 0 /\ DOMAIN results = {} /\ todo = {}
  /\ DOMAIN cq # {}
  /\ results' = cq
  /\ left' = left - Cardinality(DOMAIN cq)
  /\ inflight' = inflight - Cardinality(DOMAIN cq)
  /\ cq' = [r \in {} |-> "full"]
  /\ UNCHANGED <<setting, stage, cands, todo, sq, kernel, buffers, pit, left_out,
                 arrived, heap, answer, unread>>

\* Mutant: the second page of a request is not marked.
MutArrivals(r) == {First(r.block)}

\* The pages that are marked when a read is in.
Arrivals(r) == r.block

Handled(r) == results' = [x \in DOMAIN results \ {r} |-> results[x]]

\* markPageReady: with FINE_CQE_PEEK, the candidates with a vector on the pages are
\* looked at.
TakeRead(r) ==
  /\ stage = "io" /\ todo = {} /\ results[r] = "full"
  /\ arrived' = arrived \cup Arrivals(r)
  /\ todo' = IF setting.path = "peek"
             THEN { n \in io_cands : PagesOf[n] \cap Arrivals(r) # {} } ELSE {}
  /\ Handled(r)
  /\ UNCHANGED <<setting, stage, cands, ring, buffers, pit, left_out, left, heap, answer,
                 unread>>

\* tryProcessCand: the candidate is not done, and its pages have arrived.
Rankable(n) == n \notin ranked /\ PagesOf[n] \subseteq arrived /\ HasBuffers(n)

\* A candidate whose last page this was is ranked.
PeekAt(n) ==
  /\ stage = "io" /\ Passed(n)
  /\ IF Rankable(n) THEN RankFromBuffers(n) ELSE UNCHANGED heap
  /\ UNCHANGED <<io_cands, unread>>

\* Mutant: the pages of a failed read keep the buffer.
MutDropPages(pages) == page_buf' = page_buf

DropPages(pages) == page_buf' = [p \in DOMAIN page_buf \ pages |-> page_buf[p]]

\* A read failed or was short: its buffer goes back, its pages are gone.
DropRead(r) ==
  /\ stage = "io" /\ todo = {} /\ results[r] = "short"
  /\ free_list' = Append(free_list, page_buf[First(r.block)][1])
  /\ DropPages(r.block)
  /\ unread' = unread \cup r.block
  /\ Handled(r)
  /\ UNCHANGED <<setting, stage, cands, todo, ring, content, pit, left_out, left,
                 arrived, heap, answer>>

\* All reads are in.
AllIn ==
  /\ stage = "io" /\ todo = {} /\ left = 0 /\ DOMAIN results = {}
  /\ todo' = io_cands
  /\ stage' = "rest"
  /\ UNCHANGED <<setting, cands, ring, buffers, reaping, heap, answer, unread>>

\* Candidates not ranked yet are; with FINE_CQE_PEEK there should be none.
RankRest(n) ==
  /\ stage = "rest" /\ Passed(n)
  /\ IF IF setting.path = "peek" THEN Rankable(n) ELSE HasBuffers(n)
     THEN RankFromBuffers(n) ELSE UNCHANGED heap
  /\ UNCHANGED <<io_cands, unread>>

\* Mutant: a buffer goes back once for each of its pages.
MutBuffersHeld ==
  LET pages == SetToSeq(DOMAIN page_buf)
  IN  [i \in 1 .. Len(pages) |-> page_buf[pages[i]][1]]

\* The buffers behind the pages, each once.
BuffersHeld == SetToSeq({ page_buf[p][1] : p \in DOMAIN page_buf })

\* The buffers go back.
Release ==
  /\ stage = "rest" /\ todo = {}
  /\ free_list' = free_list \o BuffersHeld
  /\ page_buf' = [p \in {} |-> <<>>]
  /\ stage' = "extract"
  /\ UNCHANGED <<setting, cands, todo, ring, content, reaping, heap, answer, unread>>

-----------------------------------------------------------------------------

\* The node at place i of S, nearest first.
AtPlace(i, S) ==
  CHOOSE n \in S : Cardinality({ m \in S : Dist[m] < Dist[n] }) = i - 1

\* The labels of the heap, nearest first.
ExtractLabels ==
  /\ stage = "extract"
  /\ answer' = [i \in 1 .. Cardinality(refined) |-> LabelOf[AtPlace(i, refined)]]
  /\ stage' = "done"
  /\ UNCHANGED <<setting, cands, todo, ring, buffers, reaping, heap, unread>>

RerankInit ==
  /\ setting \in Settings
  /\ stage = "coarse"
  /\ coarse = <<>> /\ cand_ids = {} /\ io_cands = {} /\ todo = {}
  /\ refined = {} /\ ranked = {} /\ again = {} /\ misread = {}
  /\ unread = {} /\ left_out = {}
  /\ page_buf = [p \in {} |-> <<>>]
  /\ free_list = SetToSeq(Buffers)
  /\ content = [b \in Buffers |-> {}]
  /\ sq = {} /\ kernel = {} /\ cq = [r \in {} |-> "full"] /\ inflight = 0
  /\ pit = {} /\ left = 0 /\ results = cq /\ arrived = {}
  /\ answer = <<>>

\* What a loop does with the next candidate.
Step(n) ==
  \/ CollectVector(n) \/ CollectPages(n) \/ RankFromBlock(n) \/ BlockFails(n)
  \/ RankFromPages(n) \/ PeekAt(n) \/ RankRest(n)

Rerank ==
  \/ FindCoarse \/ (\E n \in todo : Step(n)) \/ Collected \/ Pread \/ RankedAll
  \/ NoRing \/ OpenRing \/ QueueRead \/ NoBuffer \/ SubmitReads \/ Reap
  \/ (\E r \in DOMAIN results : TakeRead(r) \/ DropRead(r)) \/ AllIn \/ Release
  \/ ExtractLabels

Kernel == \E r \in kernel : Complete(r)

RerankNext == Rerank \/ Kernel

RerankSpec == RerankInit /\ [][RerankNext]_rerankVars

\* The thread runs, and the kernel completes what it has taken.
RerankFairSpec == RerankSpec /\ WF_rerankVars(Rerank) /\ WF_rerankVars(Kernel)

-----------------------------------------------------------------------------
(* Properties.                                                             *)

\* Every variable stays in its domain, and only candidates are ranked.
RerankTypeOK ==
  /\ setting \in Settings
  /\ stage \in {"coarse", "collect", "block", "pread", "pages", "ring", "queue", "io",
                "rest", "extract", "done"}
  /\ coarse \in Seq(Nodes) /\ cand_ids \subseteq Nodes
  /\ io_cands \subseteq cand_ids /\ todo \subseteq cand_ids
  /\ refined \subseteq ranked /\ ranked \subseteq cand_ids
  /\ DOMAIN page_buf \subseteq VecPages
  /\ \A p \in DOMAIN page_buf : page_buf[p] \in Buffers \X {0, 1}
  /\ free_list \in Seq(Buffers) /\ content \in [Buffers -> Requests \cup {{}}]
  /\ sq \cup kernel \cup DOMAIN cq \subseteq [block : Requests, buf : Buffers]
  /\ inflight \in Nat /\ left \in Nat

\* A buffer is in the pool, once, or else it belongs to one read: it is never
\* handed out while a page in it is still to be ranked, and never twice.
BuffersHaveOneOwner ==
  LET reading == { r.buf : r \in Ring!Outstanding }
      reaped == { r.buf : r \in DOMAIN results }
      holding == { page_buf[p][1] : p \in DOMAIN page_buf }
  IN  /\ IsInjective(free_list)
      /\ ToSet(free_list) \cap (reading \cup reaped \cup holding) = {}
      /\ reading \cup reaped \subseteq holding

\* After the search all buffers are in the pool: the next search on this thread
\* finds as many as this one did.
BuffersComeBack ==
  stage = "done" => Len(free_list) = Cardinality(Buffers) /\ ToSet(free_list) = Buffers

\* A node is ranked by the bytes of its own vector, also when the vector spans two
\* pages that were read apart or together.
RankedByItsBytes == misread = {}

\* In whatever order pages arrive, a candidate is ranked at most once: twice, and
\* it would take two of the k places.
RankedOnce == again = {}

\* The heap holds the nearest of the nodes ranked so far.
RefinedIsNearest ==
  /\ Cardinality(refined) = K \/ refined = ranked
  /\ Cardinality(refined) <= K
  /\ \A m \in refined, n \in ranked \ refined : Dist[m] < Dist[n]

\* A candidate that is not ranked has a page that could not be read, or one that
\* no buffer was left for: such a candidate is dropped, although it could be read
\* in another way.  But no page is left out as long as there are buffers for all.
LostToReadsOrBuffers ==
  stage = "done" =>
    /\ \A n \in cand_ids \ ranked : PagesOf[n] \cap (unread \cup left_out) # {}
    /\ left_out # {} => Cardinality(PagesNeeded) > Cardinality(Buffers)

Smaller(a, b) == IF a < b THEN a ELSE b

\* If no page was lost, the answer has as many nodes as were asked for, or all that
\* the cut has left; and where nothing is cut to less than k, all that were found.
AnswersAllAsked ==
  stage = "done" /\ unread = {} /\ left_out = {} =>
    /\ Len(answer) = Smaller(Cardinality(cand_ids), K)
    /\ ~setting.cut \/ (\A l \in Limits : K <= l) => Len(answer) = Smaller(Len(coarse), K)

\* What the second stage makes of the candidates it could read is their order by
\* exact distance, each of them once, and as many as were asked for.
RankingIsRight ==
  /\ RerankTypeOK
  /\ RankedByItsBytes /\ RankedOnce /\ RefinedIsNearest /\ AnswersAllAsked

\* The search returns, if io_uring_enter takes all reads it is given: of reads it
\* leaves in the queue nobody knows, and they are waited for.
ReturnsIfTaken == ~setting.partial => <>(stage = "done")

=============================================================================
