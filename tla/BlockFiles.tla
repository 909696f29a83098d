------------------------------ MODULE BlockFiles ------------------------------
(***************************************************************************)
(* The files of blocks, as src/include/common.h declares them, the         *)
(* pipeline tools write them and the search reads them.                    *)
(*                                                                         *)
(* A file, and a block, is a sequence of cells.  A cell is a field of four *)
(* bytes, a coordinate of a vector, or, in a list of neighbours, the count *)
(* or a byte of a number.  Offsets inside a block are stored in bytes, so  *)
(* that the field at offset n is cell n / 4.                               *)
(***************************************************************************)
EXTENDS Integers, Sequences, FiniteSets, FiniteSetsExt, SequencesExt

CONSTANTS
  Dim,       \* dim
  Page,      \* 4096 bytes: the header of a file, the unit of a read
  Base,      \* 2^7: what a byte of a number counts to
  MaxBytes   \* 5: the bytes a number may have

ASSUME BlockFilesAssumption ==
  /\ Dim \in Nat \ {0} /\ MaxBytes \in Nat \ {0}
  /\ Page \in Nat /\ Page > 6
  /\ Base \in Nat \ {0, 1}

FLAG_NEIGHBOR_DELTA_VARINT == 1
FLAG_VEC_ONLY == 2
MAGIC_BLOCKS == 66
FORMAT_VERSION_COMPRESSED == 2
FORMAT_VERSION_VEC_ONLY == 3

Upto(n) == [i \in 1 .. n |-> i]
Zeros(n) == [i \in 1 .. n |-> 0]
Padded(s, room) == s \o Zeros(room - Len(s))

\* The elements of s that are in S, in their order.  (The prover has no
\* definition of SelectSeq and SortSeq.)
Only(s, S) ==
  LET only[k \in 0 .. Len(s)] ==
        IF k = 0 THEN <<>>
        ELSE IF s[k] \in S THEN Append(only[k - 1], s[k]) ELSE only[k - 1]
  IN  only[Len(s)]

PermutationsOf(n) == { p \in [1 .. n -> 1 .. n] : IsInjective(p) }

\* s in the order of the pairs of lt.
SortedBy(s, lt) ==
  LET order == CHOOSE p \in PermutationsOf(Len(s)) :
                 \A i, j \in DOMAIN s : i < j => \/ <<s[p[i]], s[p[j]]>> \in lt
                                                \/ s[p[i]] = s[p[j]]
  IN  [i \in DOMAIN s |-> s[order[i]]]

Ascending(s) == SortedBy(s, { p \in ToSet(s) \X ToSet(s) : p[1] < p[2] })

-----------------------------------------------------------------------------
(* Numbers and lists of neighbours.                                        *)

\* The number v, shifted on and on.
Shifted(v) ==
  LET rest[k \in 0 .. MaxBytes] == IF k = 0 THEN v ELSE rest[k - 1] \div Base
  IN  rest

\* Low digits first; all but the last byte carry the flag of a successor.
VarintEncode(v) ==
  LET rest == Shifted(v)
      size == Min({ k \in 1 .. MaxBytes : rest[k] = 0 })
  IN  [k \in 1 .. size |-> IF k = size THEN rest[k - 1] ELSE Base + (rest[k - 1] % Base)]

\* The number behind `at', and its size; 0 if no byte ends it in time.
VarintDecode(buf, at, end) ==
  LET last == { n \in 1 .. MaxBytes : at + n <= end /\ buf[at + n] < Base }
      size == Min(last)
      value[k \in 0 .. size] ==
        IF k = 0 THEN 0 ELSE value[k - 1] * Base + (buf[at + size + 1 - k] % Base)
  IN  IF last = {} THEN [size |-> 0, value |-> 0]
      ELSE [size |-> size, value |-> value[size]]

\* delta_varint_encode, of ids in ascending order.
DeltaEncode(ids) ==
  FlattenSeq([i \in DOMAIN ids |->
                VarintEncode(IF i = 1 THEN ids[i] ELSE ids[i] - ids[i - 1])])

\* delta_varint_decode: the ids and the bytes they took; 0 if they do not parse.
DeltaDecode(buf, at, end, count) ==
  LET after(s) == LET d == VarintDecode(buf, s.at, end)
                  IN  [at |-> s.at + d.size, id |-> s.id + d.value]
      read[i \in 0 .. count] == IF i = 0 THEN [at |-> at, id |-> 0] ELSE after(read[i - 1])
  IN  IF \A i \in 1 .. count : VarintDecode(buf, read[i - 1].at, end).size > 0
      THEN [ids |-> [i \in 1 .. count |-> read[i].id], size |-> read[count].at - at]
      ELSE [ids |-> <<>>, size |-> 0]

\* A node's list in a block: the count, and the sorted list.
ListImage(nbrs) == <<Len(nbrs)>> \o DeltaEncode(Ascending(nbrs))

-----------------------------------------------------------------------------
(* Blocks as the tools write them.                                         *)

\* Nodes (new ids, the ranks less one) go into a block as long as they fit.
Pack(sizes, header, room) ==
  LET put(s, i) ==
        IF s.plans = <<>> \/ s.used + sizes[i] > room
        THEN [ plans |-> Append(s.plans, <<i - 1>>), used |-> header + sizes[i] ]
        ELSE [ plans |-> [s.plans EXCEPT ![Len(s.plans)] = Append(@, i - 1)],
               used  |-> s.used + sizes[i] ]
      packed[i \in 0 .. Len(sizes)] ==
        IF i = 0 THEN [plans |-> <<>>, used |-> 0] ELSE put(packed[i - 1], i)
  IN  packed[Len(sizes)].plans

Flattened(f, ids) == FlattenSeq([i \in DOMAIN ids |-> f[ids[i]]])

\* write_blocks: BlockHeader, ids, vectors, lists.
StandardBlock(b, ids, vectors, adjacency) ==
  LET data_offset == 6 + Len(ids)
  IN  <<b, Len(ids), 4 * data_offset, 4 * (data_offset + Len(ids) * Dim),
        FLAG_NEIGHBOR_DELTA_VARINT, 0>>
      \o ids \o Flattened(vectors, ids)
      \o FlattenSeq([i \in DOMAIN ids |-> ListImage(adjacency[ids[i]])])

\* write_pq_blocks: the same without vectors.
PQBlock(b, ids, adjacency) ==
  <<b, Len(ids), 0, 4 * (6 + Len(ids)), FLAG_NEIGHBOR_DELTA_VARINT, 0>>
  \o ids \o FlattenSeq([i \in DOMAIN ids |-> ListImage(adjacency[ids[i]])])

\* write_blocks_veconly: VecOnlyHeader, ids, vectors.
VecOnlyBlock(b, ids, vectors) ==
  <<b, Len(ids), 4 * (4 + Len(ids)), FLAG_VEC_ONLY>> \o ids \o Flattened(vectors, ids)

\* BlocksFileHeader, padded to a page, and the blocks, padded to their size.
BlocksFile(version, room, blocks) ==
  Padded(<<MAGIC_BLOCKS, version, room, Len(blocks)>>, Page)
  \o FlattenSeq([i \in DOMAIN blocks |-> Padded(blocks[i], room)])

BlockSize(f) == f[3]
NumBlocks(f) == f[4]

\* A block, read behind the first `header' cells of the file.
ReadBlock(f, header, b) ==
  SubSeq(f, header + b * BlockSize(f) + 1, header + (b + 1) * BlockSize(f))

BlockOf(f, b) == ReadBlock(f, Page, b)

-----------------------------------------------------------------------------
(* Blocks as the search reads them: BlockCache::parseBlock.                *)

VectorAt(base, at) == SubSeq(base, at + 1, at + Dim)

IsVecOnly(base) == (base[4] \div FLAG_VEC_ONLY) % 2 = 1

ParseVecOnly(base) ==
  [ node_count |-> base[2], first_node_id |-> base[5], pq_mode |-> FALSE,
    nodes |-> [i \in 1 .. base[2] |->
                 [ node_id   |-> base[4 + i],
                   vector    |-> VectorAt(base, base[3] \div 4 + (i - 1) * Dim),
                   neighbors |-> <<>> ]] ]

\* The list behind `at', and where the next one starts.
ReadList(base, at, compressed) ==
  IF at + 1 > Len(base) THEN [ids |-> <<>>, next |-> at]
  ELSE IF ~compressed
       THEN [ ids  |-> SubSeq(base, at + 2, at + 1 + base[at + 1]),
              next |-> at + 1 + base[at + 1] ]
       ELSE LET d == DeltaDecode(base, at + 1, Len(base), base[at + 1])
            IN  [ids |-> d.ids, next |-> at + 1 + d.size]

ParseStandard(base) ==
  LET count == base[2]
      pq == base[3] = 0
      sane == pq \/ (base[4] # 0 /\ {base[3], base[4]} \subseteq 0 .. 4 * Len(base))
      data == IF sane THEN base[3] \div 4 ELSE 6 + count
      lists == IF pq THEN 6 + count
               ELSE IF sane THEN base[4] \div 4 ELSE data + count * Dim
      read(at) == ReadList(base, at, base[5] % 2 = 1)
      start[i \in 0 .. count] == IF i = 0 THEN lists ELSE read(start[i - 1]).next
  IN  [ node_count |-> count, first_node_id |-> base[7], pq_mode |-> pq,
        nodes |-> [i \in 1 .. count |->
                     [ node_id   |-> base[6 + i],
                       vector    |-> IF pq THEN <<>> ELSE VectorAt(base, data + (i - 1) * Dim),
                       neighbors |-> read(start[i - 1]).ids ]] ]

ParseBlock(base) == IF IsVecOnly(base) THEN ParseVecOnly(base) ELSE ParseStandard(base)

\* CachedBlock: a node is found by its distance to the first one.
ContainsNode(block, id) ==
  block.first_node_id <= id /\ id < block.first_node_id + block.node_count

Node(block, id) == block.nodes[id - block.first_node_id + 1]

\* getVector and getNeighbors; <<>> stands for nullptr.
GetVector(block, id) ==
  IF block.pq_mode \/ ~ContainsNode(block, id) THEN <<>> ELSE Node(block, id).vector

GetNeighbors(block, id) ==
  IF ContainsNode(block, id) THEN Node(block, id).neighbors ELSE <<>>

=============================================================================
