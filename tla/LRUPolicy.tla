------------------------------ MODULE LRUPolicy -------------------------------
(***************************************************************************)
(* LRUPolicy (include/replacement_policy.h): a list of block ids, the most *)
(* recently used in front, the victim at the back.                         *)
(***************************************************************************)
EXTENDS Sequences, SequencesExt

EmptyLru == <<>>

LruTracked(l) == ToSet(l)

\* Mutant: an access leaves the block where it is.
MutLruAccessIgnored(l, b) == l

\* map_: where the list has a tracked block.
Place(l, b) == CHOOSE i \in DOMAIN l : l[i] = b

\* The list without the block.
Rest(l, b) == RemoveAt(l, Place(l, b))

\* An access moves a tracked block to the front.
LruOnAccess(l, b) == IF Contains(l, b) THEN Cons(b, Rest(l, b)) ELSE l

LruOnInsert(l, b) == IF Contains(l, b) THEN l ELSE Cons(b, l)

\* Mutant: a removed block stays in the list.
MutLruNotRemoved(l, b) == l

LruOnRemove(l, b) == IF Contains(l, b) THEN Rest(l, b) ELSE l

LruVictim(l) == Last(l)

=============================================================================
