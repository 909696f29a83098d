------------------------- MODULE MCNonBlockingSearch -------------------------
(* Four nodes in two blocks of two, a cache of one block.                   *)
EXTENDS NonBlockingSearch

MCDist == [n \in 1 .. 4 |-> n]
MCBlockOf == [n \in 1 .. 4 |-> n % 2]

MCGraphs ==
  { [n \in 1 .. 4 |-> {1 + (n % 4), 1 + ((n + 2) % 4)}],
    <<{2}, {1, 3, 4}, {2, 4}, {2, 3}>>,
    <<{2, 3, 4}, {1}, {1, 2}, {1}>> }

MCModes == [pq : BOOLEAN, prefetch : BOOLEAN, fails : BOOLEAN]

\* No prefetcher, and every read succeeds.
MCPlainMode == { [pq |-> FALSE, prefetch |-> FALSE, fails |-> FALSE] }
\* The prefetcher is on, and every read succeeds.
MCPrefetchMode == { [pq |-> FALSE, prefetch |-> TRUE, fails |-> FALSE] }

=============================================================================
