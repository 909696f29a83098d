------------------------------ MODULE GraphFiles ------------------------------
(***************************************************************************)
(* graph_structure.bin: how src/include/common.h writes a graph, reads it  *)
(* in full, and reads the part of it that a search keeps in memory.        *)
(*                                                                         *)
(* A graph is a record of what GraphStructure holds.  The file is a        *)
(* sequence of cells: a cell is a field, a label, a coordinate, or the     *)
(* count or an entry of a list.                                            *)
(***************************************************************************)
EXTENDS BlockFiles

MAGIC_GRAPH == 71
GraphHeader == 7   \* the cells of GraphHeader and its padding

\* The values of f for the nodes 0 .. n - 1.
InOrder(f, n) == [i \in 1 .. n |-> f[i - 1]]
Listed(nbrs) == <<Len(nbrs)>> \o nbrs

SaveGraph(g) ==
  <<MAGIC_GRAPH, g.num_nodes, g.dim, g.entry_point, g.max_level, g.dim, 0>>
  \o InOrder(g.levels, g.num_nodes)
  \o FlattenSeq(InOrder(g.vectors, g.num_nodes))
  \o InOrder(g.labels, g.num_nodes)
  \o FlattenSeq([i \in 1 .. g.num_nodes |-> Listed(g.adjacency0[i - 1])])
  \o FlattenSeq([i \in 1 .. g.num_nodes |->
       FlattenSeq([l \in 1 .. g.levels[i - 1] |-> Listed(g.upper_adjacency[i - 1][l])])])

\* The nodes of a file, in order, as a function.
ByNode(n, s) == [i \in 0 .. n - 1 |-> s[i + 1]]

\* `count' lists from `at' on, and where the stream is then.
ReadLists(f, at, count) ==
  LET behind(a) == a + 1 + f[a + 1]
      start[i \in 0 .. count] == IF i = 0 THEN at ELSE behind(start[i - 1])
  IN  [ at    |-> start[count],
        lists |-> [i \in 1 .. count |-> SubSeq(f, start[i - 1] + 2, start[i])] ]

\* The lists of the upper levels, which are the rest of the file.
ReadUpper(f, at, levels, n) ==
  LET start[i \in 0 .. n] ==
        IF i = 0 THEN at ELSE ReadLists(f, start[i - 1], levels[i - 1]).at
  IN  [i \in 0 .. n - 1 |-> ReadLists(f, start[i], levels[i]).lists]

Levels(f) == [i \in 0 .. f[2] - 1 |-> f[GraphHeader + i + 1]]

\* load_graph_structure: one part after the other.
LoadGraph(f) ==
  LET n == f[2]
      vectors == GraphHeader + n
      labels == vectors + n * f[3]
      base == ReadLists(f, labels + n, n)
  IN  [ num_nodes |-> n, dim |-> f[3], entry_point |-> f[4], max_level |-> f[5],
        levels    |-> Levels(f),
        vectors   |-> [i \in 0 .. n - 1 |-> VectorAt(f, vectors + i * f[3])],
        labels    |-> ByNode(n, SubSeq(f, labels + 1, labels + n)),
        adjacency0      |-> ByNode(n, base.lists),
        upper_adjacency |-> ReadUpper(f, base.at, Levels(f), n) ]

\* The vectors of the nodes above the base layer, each found by a seek.
UpperVectors(f) ==
  [i \in { j \in DOMAIN Levels(f) : Levels(f)[j] > 0 } |->
     VectorAt(f, GraphHeader + f[2] + i * f[6])]

\* load_graph_structure_slim: the lists of the base layer are skipped, too.
LoadSlim(f) ==
  LET n == f[2]
      labels == GraphHeader + n + n * f[6]
      base == ReadLists(f, labels + n, n).at
  IN  [ num_nodes |-> n, dim |-> f[3], entry_point |-> f[4], max_level |-> f[5],
        levels    |-> Levels(f),
        upper_vectors   |-> UpperVectors(f),
        labels          |-> ByNode(n, SubSeq(f, labels + 1, labels + n)),
        upper_adjacency |-> ReadUpper(f, base, Levels(f), n) ]

\* load_graph_structure_slim_adj: the other vectors stay in the file.
LoadSlimAdj(f) ==
  LET n == f[2]
      labels == GraphHeader + n + n * f[6]
      base == ReadLists(f, labels + n, n)
  IN  [ num_nodes |-> n, dim |-> f[3], entry_point |-> f[4], max_level |-> f[5],
        levels    |-> Levels(f),
        upper_vectors   |-> UpperVectors(f),
        labels          |-> ByNode(n, SubSeq(f, labels + 1, labels + n)),
        adjacency0      |-> ByNode(n, base.lists),
        upper_adjacency |-> ReadUpper(f, base.at, Levels(f), n) ]

=============================================================================
