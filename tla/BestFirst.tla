------------------------------ MODULE BestFirst ------------------------------
(***************************************************************************)
(* Best-first search of the base layer of an HNSW graph whose vectors are  *)
(* all in memory: the search DiskHNSW promises to be equal to.  A search   *)
(* that is `lossy' may overlook nodes that it should examine.              *)
(***************************************************************************)
EXTENDS SearchHeaps

VARIABLES
  links,       \* the neighbours of each node
  origin,      \* where the search starts
  lossy,       \* may it overlook nodes?
  candidates,  \* the nodes to expand
  best,        \* the nearest nodes so far, at most Ef
  met,         \* the nodes whose distance has been looked at
  unmet,       \* the neighbours of the last expanded node not yet looked at
  ended        \* has the search ended?

bestVars == <<links, origin, lossy, candidates, best, met, unmet, ended>>

Bound == Dist[Farthest(best)]

BestInit ==
  /\ links \in [Nodes -> SUBSET Nodes]
  /\ origin \in Nodes
  /\ lossy \in BOOLEAN
  /\ candidates = {} /\ best = {} /\ met = {}
  /\ unmet = {origin}
  /\ ended = FALSE

Examine(n) ==
  /\ n \in unmet
  /\ unmet' = unmet \ {n}
  /\ met' = met \cup {n}
  /\ IF Admits(best, Bound, n)
     THEN /\ candidates' = candidates \cup {n}
          /\ best' = Insert(best, n)
     ELSE UNCHANGED <<candidates, best>>
  /\ UNCHANGED <<links, origin, lossy, ended>>

Overlook(S) ==
  /\ lossy
  /\ S # {} /\ S \subseteq unmet
  /\ unmet' = unmet \ S
  /\ UNCHANGED <<links, origin, lossy, candidates, best, met, ended>>

BestFinished ==
  candidates # {} => Converged(best, Bound, Nearest(candidates))

Fresh(n) == links[n] \ met

BestExpand ==
  /\ unmet = {} /\ ~ended
  /\ ~BestFinished
  /\ candidates' = candidates \ {Nearest(candidates)}
  /\ unmet' \in SUBSET Fresh(Nearest(candidates))
  /\ lossy \/ unmet' = Fresh(Nearest(candidates))
  /\ UNCHANGED <<links, origin, lossy, best, met, ended>>

BestFinish ==
  /\ unmet = {} /\ ~ended
  /\ BestFinished
  /\ ended' = TRUE
  /\ UNCHANGED <<links, origin, lossy, candidates, best, met, unmet>>

BestNext ==
  \/ \E n \in Nodes : Examine(n)
  \/ \E S \in SUBSET Nodes : Overlook(S)
  \/ BestExpand
  \/ BestFinish

BestSpec == BestInit /\ [][BestNext]_bestVars

-----------------------------------------------------------------------------
(* The same search as a function of the graph and of where it starts.      *)

\* The Ef nearest nodes of S.
Top(S) == { n \in S : Cardinality({ m \in S : Dist[m] < Dist[n] }) < Ef }

\* A state of it: the nodes met, and those expanded.
Outset(o) == [met |-> {o}, expanded |-> {}]

Unexpanded(s) == Top(s.met) \ s.expanded

\* The nearest result that was not expanded is; when all are, that was the search.
NextState(g, s) ==
  LET c == Nearest(Unexpanded(s))
  IN  IF Unexpanded(s) = {} THEN s
      ELSE [met |-> s.met \cup g[c], expanded |-> s.expanded \cup {c}]

Steps == Cardinality(Nodes)

\* A node is expanded once, so as many steps as there are nodes are enough.
SearchResult(g, o) ==
  LET after[k \in 0 .. Steps] ==
        IF k = 0 THEN Outset(o) ELSE NextState(g, after[k - 1])
  IN  Top(after[Steps].met)

-----------------------------------------------------------------------------
(* Properties.                                                             *)

\* Every variable stays in its domain.
BestTypeOK ==
  /\ links \in [Nodes -> SUBSET Nodes]
  /\ origin \in Nodes
  /\ lossy \in BOOLEAN
  /\ candidates \subseteq met
  /\ best \subseteq met
  /\ met \subseteq Nodes
  /\ unmet \subseteq Nodes \ met
  /\ ended \in BOOLEAN

\* The result heap holds the Ef nearest nodes looked at so far.
BestIsNearest ==
  /\ Cardinality(best) <= Ef
  /\ Cardinality(best) < Ef => best = met
  /\ \A m \in best, n \in met \ best : Dist[m] < Dist[n]

\* The result is a local optimum: a neighbour of a node in it was looked at,
\* and by BestIsNearest is in it too unless it is farther than all of it.
BestIsClosed ==
  ended /\ ~lossy => \A n \in best : links[n] \subseteq met

\* In whatever order the neighbours of a node are met, the result of a search that
\* overlooks nothing is the same: that of the function.
BestIsTheResult == ended /\ ~lossy => best = SearchResult(links, origin)

=============================================================================
