---------------------------- MODULE MCEventBatch ----------------------------
(* Two queries on four nodes in two blocks, caches of one or two.         *)
EXTENDS EventBatch

MCDist == [n \in 1 .. 4 |-> n]

\* A ring, and a graph whose entry has a near and a far neighbour.
MCGraphs ==
  { [n \in 1 .. 4 |-> <<1 + (n % 4), 1 + ((n + 2) % 4)>>],
    <<<<2>>, <<1, 4, 3>>, <<2, 4>>, <<3, 2>>>> }

\* Blocks 1 and 2, and blocks 0 and 1.
MCLayouts == { [n \in 1 .. 4 |-> 1 + (n % 2)], [n \in 1 .. 4 |-> n % 2] }

MCEntries == { <<4, 1>>, <<3, 4>> }

\* With a prefetcher, a buffer for each block, or one for both.
MCModes ==
  [pq : BOOLEAN, csr : {TRUE}, prefetch : {FALSE}, slots : {1, 2}, buffers : {1}]
    \cup [pq : BOOLEAN, csr : {TRUE}, prefetch : {TRUE}, slots : {1, 2}, buffers : {1, 2}]
    \cup [pq : {FALSE}, csr : {FALSE}, prefetch : {TRUE}, slots : {1}, buffers : {2}]

\* A cache with room for all blocks.
MCRoomyModes == { m \in MCModes : m.slots = 2 }

=============================================================================
