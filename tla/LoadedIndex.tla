----------------------------- MODULE LoadedIndex -----------------------------
(***************************************************************************)
(* What src/core/disk_hnsw.cpp makes of the files when an index is opened: *)
(* the lists of neighbours in memory, the tables of the fine rerank, the   *)
(* PQ codes.                                                               *)
(***************************************************************************)
EXTENDS PipelineTools

CONSTANT Codebook   \* the centroids of each part of a vector: of a coordinate each

ASSUME LoadedIndexAssumption == \A m \in 1 .. Dim : Codebook[m] \in Seq(Int) \ {<<>>}

-----------------------------------------------------------------------------
(* buildInMemoryAdjacency and decodeCsrNeighbors.                          *)

\* The bytes of all lists by new ids, and where each list begins.
BuildCsr(g, bfs) ==
  LET adj == NewAdjacency(g, bfs)
      lists == [i \in 1 .. g.num_nodes |-> DeltaEncode(Ascending(adj[i - 1]))]
  IN  [ bytes   |-> FlattenSeq(lists),
        offsets |-> [i \in 1 .. g.num_nodes + 1 |-> Len(FlattenSeq(SubSeq(lists, 1, i - 1)))] ]

\* The numbers between the node's offset and the next one's, until one does not
\* parse.
DecodeCsr(csr, id) ==
  LET from == csr.offsets[id + 1]
      end == csr.offsets[id + 2]
      after(s) ==
        LET d == VarintDecode(csr.bytes, s.at, end)
        IN  IF s.at >= end \/ d.size = 0 THEN [s EXCEPT !.at = end]
            ELSE [ ids |-> Append(s.ids, s.prev + d.value), at |-> s.at + d.size,
                   prev |-> s.prev + d.value ]
      read[i \in 0 .. end - from] ==
        IF i = 0 THEN [ids |-> <<>>, at |-> from, prev |-> 0] ELSE after(read[i - 1])
  IN  read[end - from].ids

\* getInMemNeighbors
InMemNeighbors(csr, id) ==
  IF id + 2 > Len(csr.offsets) THEN <<>> ELSE DecodeCsr(csr, id)

-----------------------------------------------------------------------------
(* BlockCache over a file of blocks, with the layout of a route table.     *)

\* BfsLayoutProvider: the table, and how many blocks it leads to.  A node in no
\* block counts for none: its entry, plus one, wraps to zero.
Layout(route) ==
  [ route      |-> route,
    num_blocks |-> Max({0} \cup { route[n] + 1 : n \in { m \in DOMAIN route :
                                                    route[m] # NotFound } }) ]

GetBlockId(layout, n) ==
  IF n \in DOMAIN layout.route THEN layout.route[n] ELSE NotFound

\* The constructor.  A layout of another number of blocks is only warned of.
OpenCache(f, route) ==
  [file |-> f, num_blocks |-> NumBlocks(f), layout |-> Layout(route)]

\* The block a miss for the node reads and parses; none for a node without one.
BlockByNodeId(cache, n) ==
  LET b == GetBlockId(cache.layout, n)
  IN  IF b = NotFound THEN [node_count |-> 0, first_node_id |-> 0, pq_mode |-> FALSE]
      ELSE ParseBlock(BlockOf(cache.file, b))

-----------------------------------------------------------------------------
(* buildFineRerank and the reads that rely on its tables.                  *)

NoTables == [built |-> FALSE]

\* A node's place is where its id stands.
SlotOf(ids, i) == i - 1

\* The tables, read from the first page of each block; none if a block is not
\* vec-only or its ids may not end in that page.
FineTables(f) ==
  LET blocks == 0 .. NumBlocks(f) - 1
      ok(b) == IsVecOnly(BlockOf(f, b)) /\ BlockOf(f, b)[2] <= Page - 4
      places == UNION { { <<b, i>> : i \in 1 .. BlockOf(f, b)[2] } : b \in blocks }
      node(p) == VecIds(BlockOf(f, p[1]))[p[2]]
      place(n) == CHOOSE p \in places : node(p) = n
      all == { node(p) : p \in places }
  IN  IF \E b \in blocks : ~ok(b) THEN NoTables
      ELSE [ built |-> TRUE,
             node_slot_table   |-> [n \in all |->
                SlotOf(VecIds(BlockOf(f, place(n)[1])), place(n)[2])],
             vec_route_table   |-> [n \in all |-> place(n)[1]],
             block_data_offset |-> [b \in blocks |-> BlockOf(f, b)[3]] ]

\* The bytes the fine rerank takes for a node's vector.
FineVector(f, tables, id) ==
  LET b == tables.vec_route_table[id]
  IN  VectorAt(f, Page + b * BlockSize(f) + tables.block_data_offset[b] \div 4
                  + tables.node_slot_table[id] * Dim)

-----------------------------------------------------------------------------
(* loadPQCodes and pqDistance.                                             *)

\* The codes by new ids.
LoadPQ(codes, bfs) == [n \in DOMAIN codes |-> codes[bfs.new_to_old[n]]]

\* The distance to what the code stands for, computed from the codebook: the table
\* of distances is one of buildPqDistTable's own, and the one looked at here is
\* always empty.
PqDistance(query, code) == Distance2(query, [m \in 1 .. Dim |-> Codebook[m][code[m]]])

\* External, scripts/train_pq.py: the nearest centroid of each part.
Encode(vector) ==
  [m \in 1 .. Dim |->
     CHOOSE c \in DOMAIN Codebook[m] : \A k \in DOMAIN Codebook[m] :
       LET away(j) == (vector[m] - Codebook[m][j]) * (vector[m] - Codebook[m][j])
       IN  away(c) < away(k) \/ (away(c) = away(k) /\ c <= k)]

=============================================================================
