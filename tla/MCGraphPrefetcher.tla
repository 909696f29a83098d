-------------------------- MODULE MCGraphPrefetcher --------------------------
(* GraphPrefetcher on a few threads, blocks and buffers.                    *)
EXTENDS GraphPrefetcher, TLC

MCSymmetry ==
  Permutations(Threads) \cup Permutations(Blocks) \cup Permutations(Buffers)
=============================================================================
