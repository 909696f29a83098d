---------------------------- MODULE PipelineTools ----------------------------
(***************************************************************************)
(* What the tools of src/pipeline/ between the builder and the search make *)
(* of their inputs, as functions of the files they read.                   *)
(*                                                                         *)
(* Graphs are records as in GraphFiles, block files sequences of cells as  *)
(* in BlockFiles.  bfs_order.bin is a record of its two arrays, a route    *)
(* table a function from nodes to blocks.                                  *)
(***************************************************************************)
EXTENDS GraphFiles

NotFound == 2000000000   \* 0xFFFFFFFF, or what stands for it: no block's number

Distance2(a, b) ==
  LET sum[i \in 0 .. Len(a)] ==
        IF i = 0 THEN 0 ELSE sum[i - 1] + (a[i] - b[i]) * (a[i] - b[i])
  IN  sum[Len(a)]

Nodes(g) == 0 .. g.num_nodes - 1

-----------------------------------------------------------------------------
(* prune_graph.                                                            *)

\* The neighbours of u, nearest first; of equally near ones the lower number.
NearestFirst(g, u) ==
  LET all == ToSet(g.adjacency0[u])
      dist(v) == Distance2(g.vectors[u], g.vectors[v])
  IN  SortedBy(g.adjacency0[u],
               { p \in all \X all : \/ dist(p[1]) < dist(p[2])
                                    \/ dist(p[1]) = dist(p[2]) /\ p[1] < p[2] })

\* Mutant: a neighbour stays if none that is kept is farther from it than u is.
MutMrng(g, u, max) ==
  LET all == NearestFirst(g, u)
      look(s, v) ==
        IF \/ Len(s) >= max
           \/ \E w \in ToSet(s) :
                Distance2(g.vectors[v], g.vectors[w]) > Distance2(g.vectors[u], g.vectors[v])
        THEN s ELSE Append(s, v)
      kept[k \in 0 .. Len(all)] == IF k = 0 THEN <<>> ELSE look(kept[k - 1], all[k])
  IN  kept[Len(all)]

\* A neighbour stays if none that is kept is nearer to it than u is.
Mrng(g, u, max) ==
  LET all == NearestFirst(g, u)
      look(s, v) ==
        IF \/ Len(s) >= max
           \/ \E w \in ToSet(s) :
                Distance2(g.vectors[v], g.vectors[w]) < Distance2(g.vectors[u], g.vectors[v])
        THEN s ELSE Append(s, v)
      kept[k \in 0 .. Len(all)] == IF k = 0 THEN <<>> ELSE look(kept[k - 1], all[k])
  IN  kept[Len(all)]

\* The nearest of the others, up to R_min.
FilledUp(kept, all, min) ==
  LET add(s, v) == IF Len(s) >= min \/ v \in ToSet(s) THEN s ELSE Append(s, v)
      filled[k \in 0 .. Len(all)] == IF k = 0 THEN kept ELSE add(filled[k - 1], all[k])
  IN  filled[Len(all)]

\* Lists that are not too long stay as they are.
Pruned(g, mode, min, max) ==
  LET list(u) ==
        IF Len(g.adjacency0[u]) <= max THEN g.adjacency0[u]
        ELSE IF mode = "cap" THEN SubSeq(NearestFirst(g, u), 1, max)
        ELSE FilledUp(Mrng(g, u, max), NearestFirst(g, u), min)
  IN  [g EXCEPT !.adjacency0 = [u \in Nodes(g) |-> list(u)]]

-----------------------------------------------------------------------------
(* bfs_reorder.                                                            *)

\* Mutant: the neighbours are put in front.
MutVisitNext(g, s) ==
  IF s.queue = <<>> THEN s
  ELSE LET new == Only(g.adjacency0[Head(s.queue)], Nodes(g) \ s.visited)
       IN  [ order   |-> Append(s.order, Head(s.queue)),
             queue   |-> new \o Tail(s.queue),
             visited |-> s.visited \cup ToSet(new) ]

\* The head of the queue comes next; its unmarked neighbours join the queue.
VisitNext(g, s) ==
  IF s.queue = <<>> THEN s
  ELSE LET new == Only(g.adjacency0[Head(s.queue)], Nodes(g) \ s.visited)
       IN  [ order   |-> Append(s.order, Head(s.queue)),
             queue   |-> Tail(s.queue) \o new,
             visited |-> s.visited \cup ToSet(new) ]

\* new id -> old id: the nodes in BFS order, then those it does not reach.
BfsOrder(g) ==
  LET visit[k \in 0 .. g.num_nodes] ==
        IF k = 0 THEN [ order |-> <<>>, queue |-> <<g.entry_point>>,
                        visited |-> {g.entry_point} ]
        ELSE VisitNext(g, visit[k - 1])
      reached == visit[g.num_nodes]
      others == Only([i \in 1 .. g.num_nodes |-> i - 1], Nodes(g) \ reached.visited)
  IN  ByNode(g.num_nodes, reached.order \o others)

BfsFile(g) ==
  LET order == BfsOrder(g)
  IN  [ num_nodes  |-> g.num_nodes,
        old_to_new |-> [o \in Nodes(g) |-> CHOOSE n \in Nodes(g) : order[n] = o],
        new_to_old |-> order ]

-----------------------------------------------------------------------------
(* write_blocks, write_pq_blocks, write_blocks_veconly and gen_route.      *)

\* The lists and the vectors by new ids.
NewAdjacency(g, bfs) ==
  [n \in Nodes(g) |-> LET old == g.adjacency0[bfs.new_to_old[n]]
                      IN  [i \in DOMAIN old |-> bfs.old_to_new[old[i]]]]

NewVectors(g, bfs) == [n \in Nodes(g) |-> g.vectors[bfs.new_to_old[n]]]

\* What a node takes in a block, apart from its list.
StandardBlocks(g, bfs, room) ==
  LET adj == NewAdjacency(g, bfs)
      sizes == [i \in 1 .. g.num_nodes |-> 1 + g.dim + Len(ListImage(adj[i - 1]))]
      plans == Pack(sizes, 6, room)
  IN  BlocksFile(FORMAT_VERSION_COMPRESSED, room,
                 [b \in DOMAIN plans |->
                    StandardBlock(b - 1, plans[b], NewVectors(g, bfs), adj)])

PQBlocks(g, bfs, room) ==
  LET adj == NewAdjacency(g, bfs)
      sizes == [i \in 1 .. g.num_nodes |-> 1 + Len(ListImage(adj[i - 1]))]
      plans == Pack(sizes, 6, room)
  IN  BlocksFile(FORMAT_VERSION_COMPRESSED, room,
                 [b \in DOMAIN plans |-> PQBlock(b - 1, plans[b], adj)])

VecOnlyPlans(g, room) == Pack([i \in 1 .. g.num_nodes |-> 1 + g.dim], 4, room)

VecOnlyBlocks(g, bfs, room) ==
  LET plans == VecOnlyPlans(g, room)
  IN  BlocksFile(FORMAT_VERSION_VEC_ONLY, room,
                 [b \in DOMAIN plans |->
                    VecOnlyBlock(b - 1, plans[b], NewVectors(g, bfs))])

\* The route write_blocks_veconly writes beside its blocks.
VecOnlyRoute(g, room) ==
  LET plans == VecOnlyPlans(g, room)
  IN  [n \in Nodes(g) |-> (CHOOSE b \in DOMAIN plans : n \in ToSet(plans[b])) - 1]

\* The ids of a block, which both headers of the standard formats precede.
IdsOf(base) == SubSeq(base, 7, 6 + base[2])

\* gen_route: the blocks are read, and the last one that has a node counts.
GenRoute(f) ==
  LET blocks == 0 .. NumBlocks(f) - 1
      holders(n) == { b \in blocks : n \in ToSet(IdsOf(BlockOf(f, b))) }
      top == Max(UNION { ToSet(IdsOf(BlockOf(f, b))) : b \in blocks })
  IN  [n \in 0 .. top |-> IF holders(n) = {} THEN NotFound ELSE Max(holders(n))]

-----------------------------------------------------------------------------
(* shuffle_vecblocks and cluster_reorder.                                  *)

VectorsPerPage == Page \div Dim

\* The nodes of a block that i's list leads to, by their places in the block.
InBlock(ids, adj, i) ==
  Only([k \in DOMAIN adj[ids[i]] |->
          IF adj[ids[i]][k] \in ToSet(ids)
          THEN CHOOSE j \in DOMAIN ids : ids[j] = adj[ids[i]][k] ELSE 0],
       DOMAIN ids)

\* The next place: the one with most neighbours on the page, and of those the
\* one with most in the block; for a new page the last of the best connected.
NextPlace(ids, adj, s) ==
  LET rest == DOMAIN ids \ ToSet(s.order)
      deg(i) == Len(InBlock(ids, adj, i))
      links(i) == Len(Only(InBlock(ids, adj, i), ToSet(s.page)))
      better(i, j) == links(i) > links(j) \/ (links(i) = links(j) /\ deg(i) > deg(j))
      best == { i \in rest : /\ links(i) > 0 \/ deg(i) > 0
                             /\ \A j \in rest : ~better(j, i) }
      seed == Max({ i \in rest : \A j \in rest : deg(j) <= deg(i) })
  IN  IF Len(s.page) \in 1 .. VectorsPerPage - 1 /\ best # {}
      THEN [order |-> Append(s.order, Min(best)), page |-> Append(s.page, Min(best))]
      ELSE [order |-> Append(s.order, seed), page |-> <<seed>>]

\* greedy_page_cluster
GreedyOrder(ids, adj) ==
  LET place[k \in 0 .. Len(ids)] == IF k = 0 THEN [order |-> <<>>, page |-> <<>>]
                                    ELSE NextPlace(ids, adj, place[k - 1])
  IN  place[Len(ids)].order

\* Mutant: the vectors stay where they are.
MutReordered(base, order) ==
  SubSeq(base, 1, 4) \o [i \in DOMAIN order |-> base[4 + order[i]]]
  \o SubSeq(base, 5 + Len(order), Len(base))

\* A vec-only block with its ids and vectors in another order.
Reordered(base, order) ==
  LET data == base[3] \div 4
  IN  SubSeq(base, 1, 4) \o [i \in DOMAIN order |-> base[4 + order[i]]]
      \o SubSeq(base, 5 + Len(order), data)
      \o FlattenSeq([i \in DOMAIN order |-> VectorAt(base, data + (order[i] - 1) * Dim)])
      \o SubSeq(base, data + Len(order) * Dim + 1, Len(base))

\* All blocks of a file, reordered.
ReorderedFile(f, orders) ==
  SubSeq(f, 1, Page)
  \o FlattenSeq([b \in 1 .. NumBlocks(f) |-> Reordered(BlockOf(f, b - 1), orders[b])])

VecIds(base) == SubSeq(base, 5, 4 + base[2])

GreedyShuffle(f, adj) ==
  IF VectorsPerPage <= 1 THEN f
  ELSE ReorderedFile(f, [b \in 1 .. NumBlocks(f) |-> GreedyOrder(VecIds(BlockOf(f, b - 1)), adj)])

\* The sizes of the blocks of a file.
Counts(f) == [b \in 1 .. NumBlocks(f) |-> BlockOf(f, b - 1)[2]]

\* Any order of each block: what random_shuffle may come to.
RandomOrders(f) ==
  { o \in [1 .. NumBlocks(f) -> UNION { PermutationsOf(n) : n \in ToSet(Counts(f)) }] :
      \A b \in 1 .. NumBlocks(f) : Len(o[b]) = Counts(f)[b] }

\* The clusters KMeans may assign to the vectors of a file: any.
Assignments(f, k) ==
  LET total == FoldLeft(LAMBDA s, n : s + n, 0, Counts(f))
  IN  [1 .. total -> 0 .. k - 1]

\* The orders in which each block is sorted by cluster.  The vectors are numbered
\* through all blocks; std::sort may leave those of a cluster in any order.
ClusterOrders(f, assignments) ==
  LET before(b) == FoldLeft(LAMBDA s, n : s + n, 0, SubSeq(Counts(f), 1, b - 1))
  IN  { o \in RandomOrders(f) :
          \A b \in 1 .. NumBlocks(f) : \A i \in 1 .. Len(o[b]) - 1 :
            assignments[before(b) + o[b][i]] <= assignments[before(b) + o[b][i + 1]] }

-----------------------------------------------------------------------------
(* verify.                                                                 *)

\* The blocks are read one after the other from behind BlocksFileHeader on.
VerifyBlock(f, b) == ReadBlock(f, 4, b)

\* Does verify find all in order?  A count that leads out of the buffer is read
\* as a failure.
Verify(g, bfs, f, route) ==
  LET blocks == 0 .. NumBlocks(f) - 1
      inside(b) == 6 + VerifyBlock(f, b)[2] <= BlockSize(f)
      ids(b) == IdsOf(VerifyBlock(f, b))
  IN  /\ \A u \in Nodes(g) : ToSet(g.adjacency0[u]) \subseteq Nodes(g)
      /\ { bfs.old_to_new[u] : u \in Nodes(g) } = Nodes(g)
      /\ \A u \in Nodes(g) : bfs.new_to_old[bfs.old_to_new[u]] = u
      /\ \A b \in blocks : VerifyBlock(f, b)[1] = b /\ inside(b) /\ IsInjective(ids(b))
      /\ \A b, c \in blocks : b # c => ToSet(ids(b)) \cap ToSet(ids(c)) = {}
      /\ FoldLeft(LAMBDA s, b : s + Len(ids(b - 1)), 0, Upto(NumBlocks(f))) = g.num_nodes
      /\ \A b \in blocks : \A n \in ToSet(ids(b)) :
           n \in DOMAIN route /\ route[n] < NumBlocks(f)

=============================================================================
