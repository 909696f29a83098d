----------------------------- MODULE SearchHeaps -----------------------------
(***************************************************************************)
(* What the base-layer searches of src/core/disk_hnsw.cpp do with their    *)
(* two heaps.  A heap of (distance, node) pairs is the set of its nodes: a *)
(* node enters a heap at most once in a search, and its distance to the    *)
(* query does not change.                                                  *)
(*                                                                         *)
(* No two nodes are equally far from the query.  Nodes at equal distance   *)
(* are admitted in the order in which they are met (`lowerBound > dist'),  *)
(* by the search in memory as well as by this one.                         *)
(***************************************************************************)
EXTENDS Naturals, FiniteSets

CONSTANTS
  Nodes,   \* the nodes of the base layer
  Dist,    \* the distance of each node to the query
  Ef       \* ef

ASSUME SearchHeapsAssumption ==
  /\ IsFiniteSet(Nodes)
  /\ Dist \in [Nodes -> Nat]
  /\ \A m, n \in Nodes : Dist[m] = Dist[n] => m = n
  /\ Ef \in Nat \ {0}

\* The top of candidate_set, and of top_candidates.
Nearest(S)  == CHOOSE n \in S : \A m \in S : Dist[n] <= Dist[m]
Farthest(S) == CHOOSE n \in S : \A m \in S : Dist[m] <= Dist[n]

\* Mutant: only nodes nearer than the bound are admitted.
MutAdmits(top, bound, n) == Dist[n] < bound

\* top_candidates.size() < ef || lowerBound > dist
Admits(top, bound, n) == Cardinality(top) < Ef \/ Dist[n] < bound

\* Mutant: a full heap is popped before the node goes in.
MutInsert(top, n) ==
  IF Cardinality(top) < Ef THEN top \cup {n}
                           ELSE (top \ {Farthest(top)}) \cup {n}

\* emplace, and pop if there are more than ef.
Insert(top, n) ==
  IF Cardinality(top) < Ef THEN top \cup {n}
                           ELSE (top \cup {n}) \ {Farthest(top \cup {n})}

\* The search has converged: the nearest candidate c is no improvement.
Converged(top, bound, c) == Dist[c] > bound /\ Cardinality(top) = Ef

=============================================================================
