------------------------------ MODULE MCPipeline ------------------------------
(* Four nodes: one in the middle, which has the same code as node 3.           *)
EXTENDS Pipeline

MCPoints == 0 :> <<0, 0, 0>> @@ 1 :> <<5, 0, 0>> @@ 2 :> <<0, 6, 0>> @@ 3 :> <<0, 0, 7>>
MCCodebook == << <<0, 5>>, <<0, 6>>, <<0>> >>
MCLevels == {0 :> 0 @@ 1 :> 1 @@ 2 :> 0 @@ 3 :> 1}
MCAlpha == <<6, 5>>
MCAlpha2 == <<6, 5>>

Index(entry, max, lev, base, upper) ==
  [ num_nodes |-> 4, dim |-> 3, entry_point |-> entry, max_level |-> max,
    levels |-> lev, vectors |-> MCPoints, labels |-> [i \in 0 .. 3 |-> i],
    adjacency0 |-> base, upper_adjacency |-> upper ]

\* Every node leads to every other, until it is pruned: then node 3 is not
\* reached.  Three nodes are on level 1, one on level 2.
Complete == Index(2, 2, 0 :> 1 @@ 1 :> 0 @@ 2 :> 2 @@ 3 :> 1,
                  0 :> <<3, 1, 2>> @@ 1 :> <<0, 2, 3>> @@ 2 :> <<1, 3, 0>> @@ 3 :> <<2, 0, 1>>,
                  0 :> << <<2, 3>> >> @@ 1 :> <<>> @@ 2 :> << <<3, 0>>, <<>> >> @@ 3 :> << <<2, 0>> >>)

\* Node 1 is two steps from the entry point, the others one.
Deep == Index(3, 1, 0 :> 0 @@ 1 :> 0 @@ 2 :> 1 @@ 3 :> 1,
              0 :> <<3>> @@ 1 :> <<2, 0>> @@ 2 :> <<1>> @@ 3 :> <<2, 0>>,
              0 :> <<>> @@ 1 :> <<>> @@ 2 :> << <<3>> >> @@ 3 :> << <<2>> >>)

MCIndexes == {Complete, Deep}
MCPrunings == {<<"cap", 0, 2>>, <<"mrng", 1, 2>>, <<"mrng", 2, 2>>}
MCQueries == {<<0, 1, 0>>, <<4, 1, 3>>}
==============================================================================
