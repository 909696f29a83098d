---------------------------- MODULE MCRoundSearch ----------------------------
(* Four nodes in two blocks of two, a cache of one block, rounds of two.    *)
EXTENDS RoundSearch

MCDist == [n \in 1 .. 4 |-> n]
MCBlockOf == [n \in 1 .. 4 |-> n % 2]

\* A ring, and a graph whose entry has a near and a far neighbour,
\* and one in which the nodes nearest to the query hang on the nearest.
MCGraphs ==
  { [n \in 1 .. 4 |-> {1 + (n % 4), 1 + ((n + 2) % 4)}],
    <<{2}, {1, 3, 4}, {2, 4}, {2, 3}>>,
    <<{2, 3, 4}, {1}, {1, 2}, {1}>> }

Setting(b, p, f, x, v) ==
  [batch |-> b, pq |-> p, prefetch |-> f, fails |-> x, vec_only |-> v]

MCModes ==
  { Setting(b, p, f, f, FALSE) : b, p, f \in BOOLEAN }
    \cup { Setting(FALSE, FALSE, FALSE, TRUE, FALSE),
           Setting(TRUE, TRUE, FALSE, TRUE, FALSE) }
    \cup { Setting(FALSE, p, FALSE, FALSE, TRUE) : p \in BOOLEAN }

=============================================================================
