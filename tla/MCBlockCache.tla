----------------------------- MODULE MCBlockCache -----------------------------
(* Bounded instances of BlockCache: four nodes, one of which has no block. *)
EXTENDS BlockCache

\* Nodes 0 and 1 share block 0, node 2 is in block 1, node 3 is nowhere.
MCRoute == [n \in Nodes |-> IF n < 2 THEN 0 ELSE IF n = 2 THEN 1 ELSE NULL]

=============================================================================
