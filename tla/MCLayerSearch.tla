---------------------------- MODULE MCLayerSearch ----------------------------
(* Four nodes in two blocks of two, a cache of one block.                   *)
EXTENDS LayerSearch

MCDist == [n \in 1 .. 4 |-> n]
MCBlockOf == [n \in 1 .. 4 |-> n % 2]

\* A ring, a chain to the nearest node through the farthest, and a graph in
\* which the nodes near the entry hide the nearest one.
MCGraphs ==
  { [n \in 1 .. 4 |-> {1 + (n % 4), 1 + ((n + 2) % 4)}],
    <<{2}, {1, 3}, {4, 2}, {1, 3}>>,
    <<{4}, {3, 4}, {2, 4}, {1, 2, 3}>> }

Setting(p, c, f, x) == [pq |-> p, csr |-> c, prefetch |-> f, fails |-> x]

MCModes ==
  { Setting(FALSE, FALSE, FALSE, FALSE), Setting(FALSE, TRUE, FALSE, FALSE),
    Setting(FALSE, FALSE, FALSE, TRUE), Setting(TRUE, FALSE, TRUE, TRUE),
    Setting(TRUE, FALSE, FALSE, FALSE), Setting(FALSE, TRUE, TRUE, TRUE),
    Setting(FALSE, FALSE, TRUE, FALSE) }

MCPrefetchMode == { Setting(FALSE, FALSE, TRUE, FALSE) }

=============================================================================
