------------------------------ MODULE LRUKPolicy ------------------------------
(***************************************************************************)
(* LRUKPolicy (include/replacement_policy.h): per block the stamps of its  *)
(* last K uses, the insertion included.                                    *)
(***************************************************************************)
EXTENDS Naturals, Sequences, Functions

K == 2

EmptyLruK == [access_history |-> <<>>, clock |-> 0]

LruKTracked(p) == DOMAIN p.access_history

\* Only the last K stamps are kept.
LastK(h) == IF Len(h) > K THEN Tail(h) ELSE h

LruKOnAccess(p, b) ==
  IF b \in LruKTracked(p)
  THEN [access_history |-> [p.access_history EXCEPT
                              ![b] = LastK(Append(@, p.clock + 1))],
        clock |-> p.clock + 1]
  ELSE p

LruKOnInsert(p, b) ==
  IF b \in LruKTracked(p) THEN p
  ELSE [access_history |-> [x \in LruKTracked(p) \cup {b} |->
                              IF x = b THEN <<p.clock + 1>>
                              ELSE p.access_history[x]],
        clock |-> p.clock + 1]

LruKOnRemove(p, b) ==
  [p EXCEPT !.access_history = Restrict(@, LruKTracked(p) \ {b})]

\* The stamp of the K-th last use, 0 for a block used less often than that.
KthTime(h) == IF Len(h) < K THEN 0 ELSE Head(h)

\* The block whose K-th last use is oldest; of those used less than K times the
\* one that came in first.
LruKVictim(p) ==
  CHOOSE v \in LruKTracked(p) : \A x \in LruKTracked(p) :
    LET hv == p.access_history[v]
        hx == p.access_history[x]
    IN  \/ KthTime(hv) < KthTime(hx)
        \/ KthTime(hv) = KthTime(hx) /\ Head(hv) <= Head(hx)

=============================================================================
