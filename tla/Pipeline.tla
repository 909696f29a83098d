------------------------------- MODULE Pipeline -------------------------------
(***************************************************************************)
(* scripts/build_pipeline.sh and what follows it: the tools of             *)
(* src/pipeline/ each read the files of the tools before and write one of  *)
(* their own, an index is opened from the files, and a query descends the  *)
(* upper layers.  A tool runs when its inputs are there.  A file that      *)
(* others were made from is not written again, but the vec-only file may   *)
(* be put in another order.                                                *)
(***************************************************************************)
EXTENDS BuildIndex, LoadedIndex

CONSTANTS
  Indexes,    \* graphs an hnswlib index may hold, as GraphStructure
  MaxM0,      \* maxM0: the neighbours a node may have in the base layer
  Prunings,   \* mode, R_min and R_max of prune_graph
  VecRoom, StdRoom, PQRoom,   \* block sizes
  Clusters,   \* K of cluster_reorder
  Queries,
  MaxPasses   \* bound: how often the vec-only file is reordered

\* A graph as GraphStructure holds it: lists of other nodes, each once, and on the
\* upper levels of nodes that have lists there; vectors of one length; labels of
\* their own.
IsGraph(g) ==
  /\ g.num_nodes = N /\ g.dim = Dim
  /\ g.entry_point \in Ids /\ g.max_level = g.levels[g.entry_point]
  /\ \A i \in Ids :
       /\ g.levels[i] \in Nat /\ g.levels[i] <= g.max_level
       /\ g.vectors[i] \in Seq(Int) /\ Len(g.vectors[i]) = Dim
       /\ g.labels[i] \in Int
       /\ g.adjacency0[i] \in Seq(Ids \ {i}) /\ IsInjective(g.adjacency0[i])
       /\ Len(g.adjacency0[i]) <= MaxM0
       /\ g.upper_adjacency[i] \in Seq(Seq(Ids))
       /\ Len(g.upper_adjacency[i]) = g.levels[i]
       /\ \A l \in 1 .. g.levels[i] :
            \A j \in ToSet(g.upper_adjacency[i][l]) : g.levels[j] >= l
  /\ \A i, j \in Ids : g.labels[i] = g.labels[j] => i = j

\* The lists a node may have in the base layer.
Lists == { s \in UNION { [1 .. n -> Ids] : n \in 0 .. MaxM0 } : IsInjective(s) }

\* A number has room for every id, and a block for every node.
ASSUME PipelineAssumption ==
  /\ Dim = Len(Points[0])
  /\ MaxM0 \in Nat /\ R0 <= MaxM0
  /\ N <= NotFound /\ Shifted(N - 1)[MaxBytes] = 0
  /\ {VecRoom, StdRoom, PQRoom} \subseteq Nat
  /\ 5 + Dim <= VecRoom
  /\ \A s \in Lists : 7 + Dim + Len(ListImage(s)) <= StdRoom /\ 7 + Len(ListImage(s)) <= PQRoom
  /\ \A g \in Indexes : IsGraph(g)
  /\ \A p \in Prunings : p[2] \in Nat /\ p[3] \in Nat
  /\ \A q \in Queries : q \in Seq(Int) /\ Len(q) = Dim

NoFile == <<>>

VARIABLES
  graph_bin, bfs_bin, vec_bin, vec_route, blocks_bin, route_bin,  \* the files
  verdict,       \* what verify said, if it ran
  passes,        \* how often vec_bin was reordered
  index,         \* the open index: graph, lists, and the cache over a block file
  tables,        \* of the fine rerank
  pq_codes,
  query, currObj, level   \* greedyDescent

files == <<graph_bin, bfs_bin, vec_bin, vec_route, blocks_bin, route_bin>>
search == <<index, tables, pq_codes, query, currObj, level>>
pipelineVars == <<buildVars, files, verdict, passes, search>>

-----------------------------------------------------------------------------
(* The graph.                                                              *)

Built == [ num_nodes |-> N, dim |-> Dim, entry_point |-> entry_point,
           max_level |-> max_level, levels |-> levels, vectors |-> Points,
           labels |-> [i \in Ids |-> i], adjacency0 |-> adj0,
           upper_adjacency |-> upper_adj ]

\* build_index saves its graph and ends.
Export ==
  /\ phase = "built" /\ graph_bin = NoFile
  /\ graph_bin' = SaveGraph(Built)
  /\ phase' = "ended"
  /\ start' = 0
  /\ upper_adj' = [i \in Ids |-> <<>>] /\ adj0' = [i \in Ids |-> <<>>]
  /\ UNCHANGED <<levelVars, layer, round, out, nxt, todo, vis, cv,
                 bfs_bin, vec_bin, vec_route, blocks_bin, route_bin, verdict, passes, search>>

\* extract_graph saves that of an hnswlib index instead.
Extract ==
  /\ phase = "levels" /\ graph_bin = NoFile
  /\ \E g \in Indexes : graph_bin' = SaveGraph(g)
  /\ phase' = "ended"
  /\ UNCHANGED <<levelVars, layer, round, start, out, nxt, todo, vis, cv, upper_adj, adj0,
                 bfs_bin, vec_bin, vec_route, blocks_bin, route_bin, verdict, passes, search>>

Prune ==
  /\ graph_bin # NoFile /\ bfs_bin = NoFile
  /\ \E p \in Prunings : graph_bin' = SaveGraph(Pruned(LoadGraph(graph_bin), p[1], p[2], p[3]))
  /\ UNCHANGED <<buildVars, bfs_bin, vec_bin, vec_route, blocks_bin, route_bin, verdict,
                 passes, search>>

ReorderNodes ==
  /\ graph_bin # NoFile /\ bfs_bin = NoFile
  /\ bfs_bin' = BfsFile(LoadGraph(graph_bin))
  /\ UNCHANGED <<buildVars, graph_bin, vec_bin, vec_route, blocks_bin, route_bin, verdict,
                 passes, search>>

-----------------------------------------------------------------------------
(* The blocks.                                                             *)

WriteVecOnly ==
  /\ bfs_bin # NoFile /\ vec_bin = NoFile
  /\ vec_bin' = VecOnlyBlocks(LoadGraph(graph_bin), bfs_bin, VecRoom)
  /\ vec_route' = VecOnlyRoute(LoadGraph(graph_bin), VecRoom)
  /\ UNCHANGED <<buildVars, graph_bin, bfs_bin, blocks_bin, route_bin, verdict, passes, search>>

\* Either mode, over the whole file.
Shuffle ==
  /\ vec_bin # NoFile /\ blocks_bin = NoFile /\ passes < MaxPasses
  /\ \/ vec_bin' = GreedyShuffle(vec_bin, NewAdjacency(LoadGraph(graph_bin), bfs_bin))
     \/ \E orders \in RandomOrders(vec_bin) : vec_bin' = ReorderedFile(vec_bin, orders)
  /\ passes' = passes + 1
  /\ UNCHANGED <<buildVars, graph_bin, bfs_bin, vec_route, blocks_bin, route_bin, verdict, search>>

ClusterReorder ==
  /\ vec_bin # NoFile /\ blocks_bin = NoFile /\ passes < MaxPasses
  /\ \E a \in Assignments(vec_bin, Clusters) : \E orders \in ClusterOrders(vec_bin, a) :
       vec_bin' = ReorderedFile(vec_bin, orders)
  /\ passes' = passes + 1
  /\ UNCHANGED <<buildVars, graph_bin, bfs_bin, vec_route, blocks_bin, route_bin, verdict, search>>

WriteBlocks ==
  /\ vec_bin # NoFile /\ blocks_bin = NoFile
  /\ blocks_bin' = StandardBlocks(LoadGraph(graph_bin), bfs_bin, StdRoom)
  /\ UNCHANGED <<buildVars, graph_bin, bfs_bin, vec_bin, vec_route, route_bin, verdict,
                 passes, search>>

WritePQBlocks ==
  /\ vec_bin # NoFile /\ blocks_bin = NoFile
  /\ blocks_bin' = PQBlocks(LoadGraph(graph_bin), bfs_bin, PQRoom)
  /\ UNCHANGED <<buildVars, graph_bin, bfs_bin, vec_bin, vec_route, route_bin, verdict,
                 passes, search>>

GenRouteTable ==
  /\ blocks_bin # NoFile /\ route_bin = NoFile
  /\ route_bin' = GenRoute(blocks_bin)
  /\ UNCHANGED <<buildVars, graph_bin, bfs_bin, vec_bin, vec_route, blocks_bin, verdict,
                 passes, search>>

\* Before an index is opened: verify and the search only read.
RunVerify ==
  /\ route_bin # NoFile /\ verdict = "none" /\ index = NoFile
  /\ verdict' = IF Verify(LoadGraph(graph_bin), bfs_bin, blocks_bin, route_bin)
                THEN "passed" ELSE "failed"
  /\ UNCHANGED <<buildVars, files, passes, search>>

-----------------------------------------------------------------------------
(* The index.                                                              *)

\* The constructor: the graph without its base layer, the lists of the base
\* layer compressed, and a cache over either kind of file.
OpenIndex ==
  /\ route_bin # NoFile /\ index = NoFile
  /\ \E graph \in {LoadSlimAdj(graph_bin)} :
     \E over \in {<<blocks_bin, route_bin>>, <<vec_bin, vec_route>>} :
       index' = [ graph |-> [graph EXCEPT !.adjacency0 = <<>>],
                  csr   |-> BuildCsr(graph, bfs_bin),
                  cache |-> OpenCache(over[1], over[2]) ]
  /\ UNCHANGED <<buildVars, files, verdict, passes, tables, pq_codes, query, currObj, level>>

BuildFine ==
  /\ index # NoFile /\ tables = NoTables /\ query = NoFile
  /\ tables' = FineTables(vec_bin)
  /\ UNCHANGED <<buildVars, files, verdict, passes, index, pq_codes, query, currObj, level>>

\* DISABLE_UPPER_PQ keeps the exact vectors of the upper layers.
LoadPQCodes ==
  /\ index # NoFile /\ pq_codes = NoFile /\ query = NoFile
  /\ pq_codes' = LoadPQ([i \in Ids |-> Encode(LoadGraph(graph_bin).vectors[i])], bfs_bin)
  /\ \E frees \in BOOLEAN :
       index' = IF frees THEN [index EXCEPT !.graph.upper_vectors = << >>] ELSE index
  /\ UNCHANGED <<buildVars, files, verdict, passes, tables, query, currObj, level>>

-----------------------------------------------------------------------------
(* greedyDescent: one action is one pass through the loop.                 *)

\* Exact, unless the vectors have been freed.
Far(n) == IF index.graph.upper_vectors # << >>
          THEN Distance2(query, index.graph.upper_vectors[n])
          ELSE PqDistance(query, pq_codes[bfs_bin.old_to_new[n]])

StartDescent ==
  /\ index # NoFile /\ query = NoFile
  /\ \E q \in Queries : query' = q
  /\ currObj' = index.graph.entry_point
  /\ level' = index.graph.max_level
  /\ UNCHANGED <<buildVars, files, verdict, passes, index, tables, pq_codes>>

\* Mutant: a node's own top level is left out.
MutLooked == IF index.graph.levels[currObj] <= level THEN <<>>
             ELSE Only(index.graph.upper_adjacency[currObj][level], Nodes(index.graph))

\* The neighbours looked at: none where the node has no list.
Looked == IF index.graph.levels[currObj] < level THEN <<>>
          ELSE Only(index.graph.upper_adjacency[currObj][level], Nodes(index.graph))

\* Mutant: a neighbour as near is a step ahead, too.
MutAhead == { i \in DOMAIN Looked : Far(Looked[i]) <= Far(currObj) }

\* The places of the nearer ones.
Ahead == { i \in DOMAIN Looked : Far(Looked[i]) < Far(currObj) }

\* To the nearest neighbour, the first of those; a level down if none is nearer.
Walk ==
  /\ query # NoFile /\ level > 0
  /\ \E places \in {Ahead} :
       IF places = {}
       THEN level' = level - 1 /\ UNCHANGED currObj
       ELSE /\ currObj' = Looked[Min({ i \in places :
                            \A j \in places : Far(Looked[i]) <= Far(Looked[j]) })]
            /\ UNCHANGED level
  /\ UNCHANGED <<buildVars, files, verdict, passes, index, tables, pq_codes, query>>

-----------------------------------------------------------------------------

PipelineInit ==
  /\ BuildInit
  /\ graph_bin = NoFile /\ bfs_bin = NoFile /\ vec_bin = NoFile /\ vec_route = NoFile
  /\ blocks_bin = NoFile /\ route_bin = NoFile
  /\ verdict = "none" /\ passes = 0
  /\ index = NoFile /\ tables = NoTables /\ pq_codes = NoFile
  /\ query = NoFile /\ currObj = 0 /\ level = 0

PipelineNext ==
  \/ BuildNext /\ UNCHANGED <<files, verdict, passes, search>>
  \/ Export \/ Extract \/ Prune \/ ReorderNodes
  \/ WriteVecOnly \/ Shuffle \/ ClusterReorder \/ WriteBlocks \/ WritePQBlocks
  \/ GenRouteTable \/ RunVerify
  \/ OpenIndex \/ BuildFine \/ LoadPQCodes
  \/ StartDescent \/ Walk

\* A descent is a loop of one thread.
PipelineSpec == PipelineInit /\ [][PipelineNext]_pipelineVars /\ WF_pipelineVars(Walk)

-----------------------------------------------------------------------------
(* Properties.  Files and the index do not change any more once others are  *)
(* made from them, so that what they must be is said of them when they are  *)
(* new.                                                                    *)

Opened == index # NoFile /\ query = NoFile

Graph == LoadGraph(graph_bin)

\* The vector of the node that a search returns for the new id n.
Own(n) == Graph.vectors[CHOOSE i \in Ids : Graph.labels[i] = index.graph.labels[bfs_bin.new_to_old[n]]]

Neighbours(n) == Ascending(NewAdjacency(Graph, bfs_bin)[n])

\* The lengths of the shortest paths over base-layer edges, from the entry point
\* on; N where there is none.
Hops(g) ==
  LET farther(h, k) == [i \in Ids |->
        IF h[i] = N /\ \E j \in Ids : h[j] = k - 1 /\ i \in ToSet(g.adjacency0[j])
        THEN k ELSE h[i]]
      hops[k \in 0 .. N] == IF k = 0 THEN [i \in Ids |-> IF i = g.entry_point THEN 0 ELSE N]
                            ELSE farther(hops[k - 1], k)
  IN  hops[N]

\* bfs_reorder.cpp: the two arrays are inverse to each other, new ids grow with
\* the distance from the entry point, and a node's neighbours are only as far
\* behind it as the order allows.
OrderIsBfs ==
  bfs_bin # NoFile /\ vec_bin = NoFile =>
    /\ \A i \in Ids : bfs_bin.old_to_new[i] \in Ids
                      /\ bfs_bin.new_to_old[bfs_bin.old_to_new[i]] = i
    /\ \A hops \in {Hops(Graph)} : \A n \in 1 .. N - 1 :
         hops[bfs_bin.new_to_old[n - 1]] <= hops[bfs_bin.new_to_old[n]]

\* Both route tables lead every node to the one block that has it, and the block
\* is found to have it by the distance to its first id.  A layout knows of as many
\* blocks as the file has: the cache gives no warning.
EveryNodeInOneBlock ==
  route_bin # NoFile /\ index = NoFile =>
    /\ DOMAIN route_bin = Ids /\ DOMAIN vec_route = Ids
    /\ Layout(route_bin).num_blocks = NumBlocks(blocks_bin)
    /\ Layout(vec_route).num_blocks = NumBlocks(vec_bin)
    /\ \A n \in Ids : \A b \in 0 .. NumBlocks(blocks_bin) - 1 :
         (b = route_bin[n]) <=> ContainsNode(ParseBlock(BlockOf(blocks_bin, b)), n)
    /\ \A n \in Ids : \A b \in 0 .. NumBlocks(vec_bin) - 1 :
         (b = vec_route[n]) <=> n \in ToSet(VecIds(BlockOf(vec_bin, b)))

\* The vector the cache hands out for a node, the one the fine rerank reads, and
\* the one of the label the search returns are the same, whatever order the
\* nodes of a vec-only block were given; the cache only reads blocks in order.
VectorsAreOwn ==
  Opened =>
    /\ tables # NoTables => \A n \in Ids : FineVector(vec_bin, tables, n) = Own(n)
    /\ index.cache.file # vec_bin \/ passes = 0 =>
         \A n \in Ids : GetVector(BlockByNodeId(index.cache, n), n) \in {Own(n), <<>>}

\* A node's list is the same wherever it is read: in memory, and in a block that
\* holds lists.
NeighboursAreTheGraphs ==
  Opened =>
    \A n \in Ids :
      /\ InMemNeighbors(index.csr, n) = Neighbours(n)
      /\ index.cache.file = blocks_bin =>
           GetNeighbors(BlockByNodeId(index.cache, n), n) = Neighbours(n)

\* The three loaders of common.h read the same from a file, and what was saved.
LoadersAgree ==
  graph_bin # NoFile /\ bfs_bin = NoFile =>
    \A g \in {Graph} : \A s \in {LoadSlimAdj(graph_bin)} :
      /\ SaveGraph(g) = graph_bin
      /\ s = [x \in DOMAIN s |-> IF x = "upper_vectors"
                 THEN [i \in { j \in Ids : g.levels[j] > 0 } |-> g.vectors[i]] ELSE g[x]]
      /\ LoadSlim(graph_bin) = [x \in DOMAIN s \ {"adjacency0"} |-> s[x]]

\* A node's code is that of the vector that the fine rerank compares in its place.
CodesFollowVectors ==
  Opened /\ pq_codes # NoFile /\ tables # NoTables =>
    \A n \in Ids : pq_codes[n] = Encode(FineVector(vec_bin, tables, n))

\* The descent touches nodes only that have what it needs: their vectors, or all
\* codes.
DescentReadsLoaded ==
  query # NoFile /\ level > 0 =>
    \/ index.graph.upper_vectors = << >> /\ pq_codes # NoFile
    \/ {currObj} \cup ToSet(Looked) \subseteq DOMAIN index.graph.upper_vectors

\* The files fit one another.
FilesAreInOrder == OrderIsBfs /\ EveryNodeInOneBlock /\ LoadersAgree

\* What a search reads for a node, by whichever way, is that node's.
ReadsAreOwn == VectorsAreOwn /\ NeighboursAreTheGraphs /\ CodesFollowVectors

\* build_index's self-test: a descent over the graph the builder has in memory.
\* A pass over the list of a node, and passes until they change nothing.
SelfTestPass(g, q, curr, l) ==
  LET list == IF g.levels[curr] < l THEN <<>> ELSE g.upper_adjacency[curr][l]
      nearer(c, n) == IF Distance2(q, g.vectors[n]) < Distance2(q, g.vectors[c]) THEN n ELSE c
      best[k \in 0 .. Len(list)] == IF k = 0 THEN curr ELSE nearer(best[k - 1], list[k])
  IN  best[Len(list)]

SelfTestSettle(g, q, curr, l) ==
  LET at[k \in 0 .. g.num_nodes] == IF k = 0 THEN curr ELSE SelfTestPass(g, q, at[k - 1], l)
  IN  at[g.num_nodes]

SelfTestDescent(g, q) ==
  LET at[k \in 0 .. g.max_level] ==
        IF k = 0 THEN g.entry_point
        ELSE SelfTestSettle(g, q, at[k - 1], g.max_level + 1 - k)
  IN  at[g.max_level]

\* With exact vectors the search of the deployed index enters the base layer at
\* the node at which the builder's self-test enters it.
DescentAgreesWithSelfTest ==
  query # NoFile /\ level = 0 /\ index.graph.upper_vectors # << >> =>
    currObj = SelfTestDescent(Graph, query)

\* The descent has what it needs, and ends where the builder's own ends.
DescentIsRight == DescentReadsLoaded /\ DescentAgreesWithSelfTest

\* prune_graph.cpp: what loses its place in a list has a neighbour left that is
\* nearer to it, so that a walk towards it still gets nearer, unless the list is
\* full of nearer ones.
PruningKeepsProgress ==
  [][graph_bin # NoFile /\ graph_bin' # graph_bin =>
       \A g \in {Graph} : \A h \in {LoadGraph(graph_bin')} : \A u \in Ids :
         LET kept == ToSet(h.adjacency0[u])
             dist(v, w) == Distance2(g.vectors[v], g.vectors[w])
         IN  \A v \in ToSet(g.adjacency0[u]) \ kept :
               \/ \E w \in kept : dist(w, v) < dist(u, v)
               \/ /\ Cardinality(kept) >= Min({ p[3] : p \in Prunings })
                  /\ \A w \in kept : dist(u, w) <= dist(u, v)]_pipelineVars

\* Equal distances, which codes often have, do not lead the descent round in
\* circles.
DescentEnds == (query # NoFile) ~> (query # NoFile /\ level = 0)

\* verify.cpp: the files of a pipeline that went well pass the checks.
VerifyAccepts == verdict # "failed"

=============================================================================
