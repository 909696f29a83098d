------------------------------ MODULE BuildIndex ------------------------------
(***************************************************************************)
(* src/pipeline/build_index.cpp: nodes get levels, and each layer from the *)
(* top down is built as a Vamana graph over the nodes that reach it.  A    *)
(* round of a layer is two parallel loops: every node searches the graph   *)
(* of the last round and prunes what it finds; edges are reversed, and     *)
(* every node prunes once more.  The threads of a loop share out the nodes *)
(* and keep a visited list each, with a mark of one byte.                  *)
(*                                                                         *)
(* The place of a node in its layer (`pos') is the node itself here, and a *)
(* coordinate is an integer.  The random neighbours of a node are listed   *)
(* in one order: where distances differ it makes no difference which.      *)
(***************************************************************************)
EXTENDS Integers, FiniteSets, Sequences, FiniteSetsExt, SequencesExt

CONSTANTS
  N,            \* num_elements
  Points,       \* the vectors: a function on 0 .. N - 1
  LevelChoices, \* the levels the generator may give
  FewestPicks,  \* bound: the generator picks that many random neighbours
  R0, Rup,      \* HV_R0 and HV_RUP: degrees
  Beam,         \* HV_BEAM
  Alpha,        \* HV_ALPHA: a fraction, as a pair
  Alpha2,       \* HV_ALPHA2; <<0, 1>> for no second pass
  Rounds,       \* HV_ROUNDS
  Sample,       \* how many nodes the medoid is looked for in
  Marks,        \* 2^8: how many values a mark has
  Workers

Ids == 0 .. N - 1

ASSUME BuildAssumption ==
  /\ N \in Nat \ {0}
  /\ \A u \in Ids : Points[u] \in Seq(Int) /\ Len(Points[u]) = Len(Points[0])
  /\ LevelChoices \subseteq [Ids -> Nat]
  /\ {R0, Rup, Beam, Rounds, Sample} \subseteq Nat \ {0}
  /\ Marks \in Nat \ {0, 1}
  /\ Workers # {}

VARIABLES
  phase,      \* where main is
  levels, max_level, entry_point,
  layer, round,
  start,      \* the node a search starts from
  out, nxt,   \* the graph of the last round, and what the first loop makes of it
  todo,       \* the nodes a loop has left
  vis, cv,    \* the visited lists
  upper_adj, adj0

levelVars == <<levels, max_level, entry_point>>
buildVars == <<phase, levelVars, layer, round, start, out, nxt, todo, vis, cv,
               upper_adj, adj0>>

-----------------------------------------------------------------------------
(* Distances and the two algorithms.                                       *)

L2(a, b) ==
  LET sum[i \in 0 .. Len(a)] ==
        IF i = 0 THEN 0 ELSE sum[i - 1] + (a[i] - b[i]) * (a[i] - b[i])
  IN  sum[Len(a)]

D(u, v) == L2(Points[u], Points[v])

\* The order of the pairs of a distance to p and an id.
Nearer(p, u, v) == D(p, u) < D(p, v) \/ (D(p, u) = D(p, v) /\ u < v)

Nearest(p, S)  == CHOOSE u \in S : \A v \in S \ {u} : Nearer(p, u, v)
Farthest(p, S) == CHOOSE u \in S : \A v \in S \ {u} : Nearer(p, v, u)

\* u is so near to v that p reaches v over u.
Covers(p, u, v, alpha) == alpha[1] * D(v, u) <= alpha[2] * D(p, v)

\* The nearest that is left is kept if no other one covers it.
Consider(p, s, alpha, R) ==
  IF s.left = {} THEN s
  ELSE LET v == Nearest(p, s.left)
       IN  [ left |-> s.left \ {v},
             kept |-> IF \/ Len(s.kept) >= R
                         \/ \E u \in ToSet(s.kept) : Covers(p, u, v, alpha)
                      THEN s.kept ELSE Append(s.kept, v) ]

\* robust_prune: the nearest first, at most R, none that another one covers.
RobustPrune(p, S, alpha, R) ==
  LET pass[k \in 0 .. N] == IF k = 0 THEN [left |-> S \ {p}, kept |-> <<>>]
                            ELSE Consider(p, pass[k - 1], alpha, R)
  IN  pass[N].kept

\* A new neighbour is marked, and enters both heaps if it is near enough.
Meet(q, s, v) ==
  LET near == Cardinality(s.res) < Beam \/ D(q, v) < D(q, Farthest(q, s.res))
      full == s.res \cup {v}
  IN  IF v \in s.marked THEN s
      ELSE [ cand   |-> IF near THEN s.cand \cup {v} ELSE s.cand,
             res    |-> IF ~near THEN s.res
                        ELSE IF Cardinality(full) > Beam THEN full \ {Farthest(q, full)}
                        ELSE full,
             marked |-> s.marked \cup {v} ]

MeetAll(q, s, list) ==
  LET met[k \in 0 .. Len(list)] == IF k = 0 THEN s ELSE Meet(q, met[k - 1], list[k])
  IN  met[Len(list)]

\* A step of the loop; none if there is no candidate left that is near enough.
ExpandNearest(graph, q, s) ==
  IF s.cand = {} THEN s
  ELSE LET p == Nearest(q, s.cand)
       IN  IF D(q, p) > D(q, Farthest(q, s.res)) THEN [s EXCEPT !.cand = {}]
           ELSE MeetAll(q, [s EXCEPT !.cand = @ \ {p}], graph[p])

\* greedy_search, with the nodes that count as visited when it starts.
GreedySearch(graph, from, q, seen) ==
  LET step[k \in 0 .. N] ==
        IF k = 0 THEN [cand |-> {from}, res |-> {from}, marked |-> seen \cup {from}]
        ELSE ExpandNearest(graph, q, step[k - 1])
  IN  step[N]

-----------------------------------------------------------------------------
(* Levels and layers.                                                      *)

\* The first node of the highest level is the entry point.
AssignLevels ==
  /\ phase = "levels"
  /\ \E l \in LevelChoices :
       /\ levels' = l
       /\ max_level' = Max({ l[i] : i \in Ids })
       /\ entry_point' = Min({ i \in Ids : \A j \in Ids : l[j] <= l[i] })
  /\ layer' = max_level'
  /\ upper_adj' = [i \in Ids |-> [l \in 1 .. levels'[i] |-> <<>>]]
  /\ phase' = "layer"
  /\ UNCHANGED <<round, start, out, nxt, todo, vis, cv, adj0>>

Members(l) == { i \in Ids : levels[i] >= l }

Degree == IF layer = 0 THEN R0 ELSE Rup

\* sample_medoid: the least sum of distances to the sample.
Medoids(S) ==
  LET sum(u) == MapThenSumSet(LAMBDA w : D(u, w), S)
  IN  { u \in S : \A w \in S : sum(u) <= sum(w) }

FreshMarks == [t \in Workers |-> [i \in Ids |-> 0]]
FirstMarks == [t \in Workers |-> 1]

\* Random neighbours for every node, and the node from which searches start.
StartLayer ==
  /\ phase = "layer"
  /\ LET ids == Members(layer)
         target == Min({Degree, Cardinality(ids) - 1})
     IN  /\ \E pick \in [ids -> { S \in SUBSET ids :
                           Cardinality(S) \in Min({FewestPicks, target}) .. target }] :
              /\ \A i \in ids : i \notin pick[i]
              /\ out' = [i \in ids |-> SetToSeq(pick[i])]
         /\ \E S \in SUBSET ids :
              /\ Cardinality(S) = Min({Cardinality(ids), Sample})
              /\ start' \in Medoids(S)
         /\ todo' = ids
         /\ nxt' = [i \in ids |-> <<>>]
  /\ round' = 1
  /\ vis' = FreshMarks /\ cv' = FirstMarks
  /\ phase' = "forward"
  /\ UNCHANGED <<levelVars, layer, upper_adj, adj0>>

-----------------------------------------------------------------------------
(* A round.                                                                *)

\* Mutant: the list is not cleared when the mark wraps.
MutNextMark(v, c) == <<v, IF (c + 1) % Marks = 0 THEN 1 ELSE c + 1>>

\* if (++cv == 0) clear
NextMark(v, c) ==
  IF (c + 1) % Marks = 0 THEN <<[i \in Ids |-> 0], 1>> ELSE <<v, c + 1>>

\* What the first loop makes of a node and what its search has found.
Forwarded(graph, R, i, found) ==
  RobustPrune(i, found.res \cup ToSet(graph[i]), Alpha, R)

Forward(t) ==
  /\ phase = "forward"
  /\ \E i \in todo :
     \E mark \in {NextMark(vis[t], cv[t])} :
     \E found \in {GreedySearch(out, start, i, { n \in Ids : mark[1][n] = mark[2] })} :
       /\ nxt' = [nxt EXCEPT ![i] = Forwarded(out, Degree, i, found)]
       /\ vis' = [vis EXCEPT ![t] = [n \in Ids |->
                    IF n \in found.marked THEN mark[2] ELSE mark[1][n]]]
       /\ cv' = [cv EXCEPT ![t] = mark[2]]
       /\ todo' = todo \ {i}
  /\ UNCHANGED <<phase, levelVars, layer, round, start, out, upper_adj, adj0>>

EndForward ==
  /\ phase = "forward" /\ todo = {}
  /\ todo' = DOMAIN out
  /\ phase' = "prune"
  /\ UNCHANGED <<levelVars, layer, round, start, out, nxt, vis, cv, upper_adj, adj0>>

\* Mutant: edges are not reversed.
MutIncoming(i) == {}

\* The nodes whose lists lead to i.
Incoming(i) == { j \in DOMAIN nxt : i \in ToSet(nxt[j]) }

\* The second loop, by any thread: it reads nxt only.
PruneOnce ==
  /\ phase = "prune"
  /\ \E i \in todo :
       /\ out' = [out EXCEPT ![i] =
                    RobustPrune(i, ToSet(nxt[i]) \cup Incoming(i), Alpha, Degree)]
       /\ todo' = todo \ {i}
  /\ UNCHANGED <<phase, levelVars, layer, round, start, nxt, vis, cv, upper_adj, adj0>>

\* The next round, with empty lists to fill; after the last the layer is done.
EndRound ==
  /\ phase = "prune" /\ todo = {}
  /\ IF round < Rounds
     THEN /\ phase' = "forward" /\ round' = round + 1 /\ todo' = DOMAIN out
          /\ nxt' = [i \in DOMAIN out |-> <<>>]
     ELSE phase' = "store" /\ UNCHANGED <<round, todo, nxt>>
  /\ UNCHANGED <<levelVars, layer, start, out, vis, cv, upper_adj, adj0>>

\* The layer goes into the graph, the builder's lists are gone, and the layer
\* below follows.
StoreLayer ==
  /\ phase = "store"
  /\ IF layer = 0
     THEN /\ adj0' = out
          /\ phase' = "second"
          /\ UNCHANGED <<layer, upper_adj>>
     ELSE /\ upper_adj' = [i \in Ids |-> IF i \in DOMAIN out
                                         THEN [upper_adj[i] EXCEPT ![layer] = out[i]]
                                         ELSE upper_adj[i]]
          /\ layer' = layer - 1
          /\ phase' = "layer"
          /\ UNCHANGED adj0
  /\ out' = << >> /\ nxt' = << >>
  /\ vis' = FreshMarks /\ cv' = FirstMarks
  /\ UNCHANGED <<levelVars, round, start, todo>>

\* The optional second pass over the base layer, and the end.
SecondPass ==
  /\ phase = "second"
  /\ adj0' = IF Alpha2[1] > 0
             THEN [i \in Ids |-> RobustPrune(i, ToSet(adj0[i]), Alpha2, R0)]
             ELSE adj0
  /\ phase' = "built"
  /\ UNCHANGED <<levelVars, layer, round, start, out, nxt, todo, vis, cv, upper_adj>>

-----------------------------------------------------------------------------

BuildInit ==
  /\ phase = "levels"
  /\ levels = [i \in Ids |-> 0] /\ max_level = 0 /\ entry_point = 0
  /\ layer = 0 /\ round = 0 /\ start = 0
  /\ out = << >> /\ nxt = << >> /\ todo = {}
  /\ vis = FreshMarks /\ cv = FirstMarks
  /\ upper_adj = [i \in Ids |-> <<>>]
  /\ adj0 = [i \in Ids |-> <<>>]

BuildNext ==
  \/ AssignLevels \/ StartLayer
  \/ \E t \in Workers : Forward(t)
  \/ EndForward \/ PruneOnce \/ EndRound \/ StoreLayer \/ SecondPass

-----------------------------------------------------------------------------
(* Properties.                                                             *)

\* Every list holds other nodes, each once, and no more than the degree allows.
ListsAreBounded ==
  /\ \A i \in DOMAIN nxt : Len(nxt[i]) <= Degree /\ i \notin ToSet(nxt[i])
  /\ \A i \in DOMAIN out :
       /\ Len(out[i]) <= Degree /\ i \notin ToSet(out[i])
       /\ IsInjective(out[i])

\* The loops are free of races: what a thread makes of a node does not depend on
\* the nodes it had before nor on what the others do.
RoundsAreParallel ==
  phase = "forward" =>
    \A i \in DOMAIN nxt \ todo :
      nxt[i] = Forwarded(out, Degree, i, GreedySearch(out, start, i, {}))

\* An edge of the first loop can be walked both ways after the second, unless
\* the way back is covered by a nearer neighbour or the list is full of those.
EdgesGoBothWays ==
  phase = "store" =>
    \A i \in DOMAIN nxt : \A j \in ToSet(nxt[i]) :
      \/ i \in ToSet(out[j])
      \/ \E u \in ToSet(out[j]) : Nearer(j, u, i) /\ Covers(j, u, i, Alpha)
      \/ Len(out[j]) = Degree /\ \A u \in ToSet(out[j]) : Nearer(j, u, i)

\* A list of a layer leads to nodes of that layer: the descent never comes to a
\* node that has no list, and no vector in memory, for its level.
LayersAreClosed ==
  phase = "built" =>
    /\ \A i \in Ids : levels[i] <= levels[entry_point]
    /\ \A i \in Ids : \A l \in 1 .. levels[i] :
         \A j \in ToSet(upper_adj[i][l]) : levels[j] >= l

\* The graph the builder makes: lists within their bounds, edges that lead back,
\* and layers that are closed.
GraphIsSound == ListsAreBounded /\ EdgesGoBothWays /\ LayersAreClosed

=============================================================================
