--------------------------- MODULE BestFirstProofs ---------------------------
(***************************************************************************)
(* What the proofs about all searches rest on: what the heaps of a search  *)
(* return, for every finite set of nodes, every order of their distances   *)
(* and every size of the result, and lists of distinct nodes.              *)
(*                                                                         *)
(* Then the best-first search itself, which is right on every graph: what  *)
(* it returns are the nearest of the nodes it has looked at, and, unless   *)
(* it is lossy, no neighbour of what it returns was left out.              *)
(*                                                                         *)
(* That the result is closed is not inductive.  Until the search ends, a   *)
(* result that has been expanded has its neighbours met or in unmet, and   *)
(* the others are still candidates (FrontierIsKnown); when it ends, no     *)
(* candidate is near enough to be a result.                                *)
(***************************************************************************)
EXTENDS BestFirst, SequencesExt, FiniteSetTheorems, TLAPS

-----------------------------------------------------------------------------
(* The heaps.                                                              *)

\* The result heap holds the nearest of the nodes S.
HoldsNearest(top, S) ==
  /\ top \subseteq S
  /\ Cardinality(top) <= Ef
  /\ Cardinality(top) < Ef => top = S
  /\ \A m \in top, n \in S \ top : Dist[m] < Dist[n]

LEMMA NodesFinite ==
  ASSUME NEW S \in SUBSET Nodes
  PROVE  IsFiniteSet(S) /\ Cardinality(S) \in Nat
BY SearchHeapsAssumption, FS_Subset, FS_CardinalityType

-----------------------------------------------------------------------------
(* A heap that is not empty has a top.  A smallest set without a farthest  *)
(* node would have one: the farthest of the others, or the one left out.   *)

LEMMA FarthestExists ==
  ASSUME NEW S \in SUBSET Nodes, S # {}
  PROVE  \E n \in S : \A m \in S : Dist[m] <= Dist[n]
<1> DEFINE Bad == { T \in SUBSET Nodes :
                      T # {} /\ ~\E n \in T : \A m \in T : Dist[m] <= Dist[n] }
           R == StrictSubsetOrdering(Nodes)
<1>1. SUFFICES ASSUME Bad # {} PROVE FALSE
  OBVIOUS
<1>2. Bad \subseteq FiniteSubsetsOf(Nodes)
  BY NodesFinite DEF FiniteSubsetsOf
<1>3. IsWellFoundedOn(R, FiniteSubsetsOf(Nodes))
  BY FS_StrictSubsetOrderingWellFounded
<1>4. PICK T \in Bad : \A U \in Bad : <<U, T>> \notin R
  <2> HIDE DEF Bad, R
  <2> QED
    BY <1>1, <1>2, <1>3, WFMin
<1>5. \A n \in Nodes : Dist[n] \in Nat
  BY SearchHeapsAssumption
<1>6. PICK x \in T : TRUE
  OBVIOUS
<1> DEFINE U == T \ {x}
<1>7. U # {}
  <2>1. SUFFICES ASSUME U = {} PROVE FALSE
    OBVIOUS
  <2>2. T = {x}
    BY <2>1
  <2> QED
    BY <1>5, <2>2
<1>8. U \in SUBSET Nodes /\ <<U, T>> \in R
  BY DEF StrictSubsetOrdering
<1>9. PICK n \in U : \A m \in U : Dist[m] <= Dist[n]
  BY <1>4, <1>7, <1>8
<1>10. CASE Dist[x] <= Dist[n]
  BY <1>9, <1>10
<1>11. CASE Dist[n] <= Dist[x]
  BY <1>5, <1>9, <1>11
<1> QED
  BY <1>5, <1>9, <1>10, <1>11

LEMMA NearestExists ==
  ASSUME NEW S \in SUBSET Nodes, S # {}
  PROVE  \E n \in S : \A m \in S : Dist[n] <= Dist[m]
<1> DEFINE Bad == { T \in SUBSET Nodes :
                      T # {} /\ ~\E n \in T : \A m \in T : Dist[n] <= Dist[m] }
           R == StrictSubsetOrdering(Nodes)
<1>1. SUFFICES ASSUME Bad # {} PROVE FALSE
  OBVIOUS
<1>2. Bad \subseteq FiniteSubsetsOf(Nodes)
  BY NodesFinite DEF FiniteSubsetsOf
<1>3. IsWellFoundedOn(R, FiniteSubsetsOf(Nodes))
  BY FS_StrictSubsetOrderingWellFounded
<1>4. PICK T \in Bad : \A U \in Bad : <<U, T>> \notin R
  <2> HIDE DEF Bad, R
  <2> QED
    BY <1>1, <1>2, <1>3, WFMin
<1>5. \A n \in Nodes : Dist[n] \in Nat
  BY SearchHeapsAssumption
<1>6. PICK x \in T : TRUE
  OBVIOUS
<1> DEFINE U == T \ {x}
<1>7. U # {}
  <2>1. SUFFICES ASSUME U = {} PROVE FALSE
    OBVIOUS
  <2>2. T = {x}
    BY <2>1
  <2> QED
    BY <1>5, <2>2
<1>8. U \in SUBSET Nodes /\ <<U, T>> \in R
  BY DEF StrictSubsetOrdering
<1>9. PICK n \in U : \A m \in U : Dist[n] <= Dist[m]
  BY <1>4, <1>7, <1>8
<1>10. CASE Dist[n] <= Dist[x]
  BY <1>9, <1>10
<1>11. CASE Dist[x] <= Dist[n]
  BY <1>5, <1>9, <1>11
<1> QED
  BY <1>5, <1>9, <1>10, <1>11

LEMMA FarthestIsTop ==
  ASSUME NEW S \in SUBSET Nodes, S # {}
  PROVE  Farthest(S) \in S /\ \A m \in S : Dist[m] <= Dist[Farthest(S)]
BY FarthestExists DEF Farthest

LEMMA NearestIsTop ==
  ASSUME NEW S \in SUBSET Nodes, S # {}
  PROVE  Nearest(S) \in S /\ \A m \in S : Dist[Nearest(S)] <= Dist[m]
BY NearestExists DEF Nearest

-----------------------------------------------------------------------------
(* The result heap.                                                        *)

\* Inserting a node that is admitted keeps the nearest nodes.
LEMMA InsertHoldsNearest ==
  ASSUME NEW S \in SUBSET Nodes, NEW top, HoldsNearest(top, S),
         NEW n \in Nodes \ S, Admits(top, Dist[Farthest(top)], n)
  PROVE  HoldsNearest(Insert(top, n), S \cup {n})
<1> DEFINE T == top \cup {n}
<1>1. top \in SUBSET Nodes /\ T \in SUBSET Nodes /\ n \notin top
  BY DEF HoldsNearest
<1>2. IsFiniteSet(top) /\ Cardinality(top) \in Nat
  BY <1>1, NodesFinite
<1>3. IsFiniteSet(T) /\ Cardinality(T) = Cardinality(top) + 1
  BY <1>1, <1>2, FS_AddElement
<1>4. Ef \in Nat \ {0} /\ Dist \in [Nodes -> Nat]
  BY SearchHeapsAssumption
<1>5. CASE Cardinality(top) < Ef
  <2>1. Insert(top, n) = T /\ top = S
    BY <1>5 DEF Insert, HoldsNearest
  <2>2. Cardinality(T) <= Ef
    BY <1>2, <1>3, <1>4, <1>5
  <2> QED
    BY <2>1, <2>2 DEF HoldsNearest
<1>6. CASE ~(Cardinality(top) < Ef)
  <2> DEFINE f == Farthest(T)
  <2>1. Cardinality(top) = Ef
    BY <1>2, <1>4, <1>6 DEF HoldsNearest
  <2>2. f \in T /\ \A m \in T : Dist[m] <= Dist[f]
    BY <1>1, FarthestIsTop
  <2>3. Insert(top, n) = T \ {f}
    BY <1>6 DEF Insert
  <2>4. Cardinality(T \ {f}) = Ef
    <3>1. Cardinality(T \ {f}) = Cardinality(T) - 1
      <4> HIDE DEF T, f
      <4> QED
        BY <1>3, <2>2, FS_RemoveElement
    <3> QED
      BY <1>3, <1>4, <2>1, <3>1
  <2>5. top # {}
    BY <1>4, <2>1, FS_EmptySet
  <2>6. Farthest(top) \in top
    BY <1>1, <2>5, FarthestIsTop
  <2>7. Dist[n] < Dist[Farthest(top)]
    BY <1>6 DEF Admits
  <2>8. ASSUME NEW m \in T \ {f}, NEW q \in (S \cup {n}) \ (T \ {f})
        PROVE  Dist[m] < Dist[q]
    <3>1. m \in Nodes /\ q \in Nodes /\ f \in Nodes /\ Farthest(top) \in Nodes
      BY <1>1, <2>2, <2>6
    <3>2. CASE q = f
      <4>1. Dist[m] <= Dist[f] /\ Dist[m] # Dist[f]
        BY <2>2, <3>1, SearchHeapsAssumption
      <4> QED
        BY <1>4, <3>1, <3>2, <4>1
    <3>3. CASE q # f
      <4>1. q \in S \ top
        BY <3>3
      <4>2. CASE m \in top
        BY <4>1, <4>2 DEF HoldsNearest
      <4>3. CASE m = n
        <5>1. Dist[Farthest(top)] < Dist[q]
          BY <2>6, <4>1 DEF HoldsNearest
        <5> QED
          BY <1>4, <2>7, <3>1, <4>3, <5>1
      <4> QED
        BY <4>2, <4>3
    <3> QED
      BY <3>2, <3>3
  <2>9. T \ {f} \subseteq S \cup {n}
    BY DEF HoldsNearest
  <2> HIDE DEF T, f
  <2> QED
    BY <1>4, <2>3, <2>4, <2>8, <2>9 DEF HoldsNearest
<1> QED
  BY <1>5, <1>6

\* A node that is not admitted is farther than all of a full result.
LEMMA RejectedIsFarther ==
  ASSUME NEW S \in SUBSET Nodes, NEW top, HoldsNearest(top, S),
         NEW n \in Nodes \ S, ~Admits(top, Dist[Farthest(top)], n)
  PROVE  HoldsNearest(top, S \cup {n})
<1>1. top \in SUBSET Nodes /\ n \notin top
  BY DEF HoldsNearest
<1>2. Dist \in [Nodes -> Nat] /\ ~(Cardinality(top) < Ef)
  BY SearchHeapsAssumption DEF Admits
<1>3. ASSUME NEW m \in top
      PROVE  Dist[m] < Dist[n]
  <2>1. Farthest(top) \in top /\ Dist[m] <= Dist[Farthest(top)]
    BY <1>1, FarthestIsTop
  <2>2. Dist[Farthest(top)] <= Dist[n]
    BY <1>1, <1>2, <2>1 DEF Admits
  <2>3. Dist[m] # Dist[n]
    BY <1>1, SearchHeapsAssumption
  <2> QED
    BY <1>1, <1>2, <2>1, <2>2, <2>3
<1> QED
  BY <1>2, <1>3 DEF HoldsNearest

\* A heap that takes a node holds some of what it had and the node.
LEMMA InsertIsSome ==
  ASSUME NEW top \in SUBSET Nodes, NEW n \in Nodes \ top
  PROVE  Insert(top, n) \subseteq top \cup {n} /\ Insert(top, n) # {}
<1>1. Insert(top, n) \subseteq top \cup {n}
  BY DEF Insert
<1>2. CASE Cardinality(top) < Ef
  BY <1>1, <1>2 DEF Insert
<1>3. CASE ~(Cardinality(top) < Ef)
  <2>1. top # {}
    BY <1>3, FS_EmptySet, SearchHeapsAssumption
  <2>2. \E x \in top : x # n
    BY <2>1
  <2> QED
    BY <1>1, <1>3, <2>2 DEF Insert
<1> QED
  BY <1>2, <1>3

\* A full heap that takes a node stays full and pops what is farther than all it
\* keeps.
LEMMA InsertKeepsFull ==
  ASSUME NEW top \in SUBSET Nodes, NEW n \in Nodes \ top, Cardinality(top) = Ef
  PROVE  \E far \in top \cup {n} :
           /\ Insert(top, n) = (top \cup {n}) \ {far}
           /\ Cardinality(Insert(top, n)) = Ef
           /\ \A m \in Insert(top, n) : Dist[m] < Dist[far]
<1> DEFINE T == top \cup {n}
           far == Farthest(T)
<1>1. T \in SUBSET Nodes /\ T # {} /\ n \notin top
  OBVIOUS
<1>2. IsFiniteSet(top) /\ Ef \in Nat \ {0} /\ Dist \in [Nodes -> Nat]
  BY NodesFinite, SearchHeapsAssumption
<1>3. far \in T /\ \A m \in T : Dist[m] <= Dist[far]
  <2> HIDE DEF T
  <2> QED
    BY <1>1, FarthestIsTop
<1>4. Insert(top, n) = T \ {far}
  BY <1>2 DEF Insert
<1>5. IsFiniteSet(T) /\ Cardinality(T) = Ef + 1
  BY <1>1, <1>2, FS_AddElement
<1>6. Cardinality(T \ {far}) = Ef
  <2> HIDE DEF T, far
  <2>1. Cardinality(T \ {far}) = Cardinality(T) - 1
    BY <1>3, <1>5, FS_RemoveElement
  <2> QED
    BY <1>2, <1>5, <2>1
<1>7. ASSUME NEW m \in T \ {far}
      PROVE  Dist[m] < Dist[far]
  <2> HIDE DEF T, far
  <2>1. m \in Nodes /\ far \in Nodes /\ m # far /\ Dist[m] <= Dist[far]
    BY <1>1, <1>3
  <2>2. Dist[m] # Dist[far] /\ Dist[m] \in Nat /\ Dist[far] \in Nat
    BY <2>1, SearchHeapsAssumption
  <2> QED
    BY <2>1, <2>2
<1> HIDE DEF far, T
<1>8. far \in T /\ Insert(top, n) = T \ {far}
      /\ Cardinality(Insert(top, n)) = Ef
      /\ \A m \in Insert(top, n) : Dist[m] < Dist[far]
  BY <1>3, <1>4, <1>6, <1>7
<1> QED
  BY <1>8 DEF T

-----------------------------------------------------------------------------
(* Lists of distinct nodes.                                                *)

\* The elements of s are nodes of S, each of them once.
Lists(s, S) ==
  /\ s \in Seq(Nodes)
  /\ \A i \in 1 .. Len(s) : s[i] \in S
  /\ \A i, j \in 1 .. Len(s) : s[i] = s[j] => i = j

Apart(s, t) == \A i \in 1 .. Len(s), j \in 1 .. Len(t) : s[i] # t[j]

LEMMA AppendNew ==
  ASSUME NEW S, NEW s, Lists(s, S), NEW n \in Nodes \cap S,
         \A i \in 1 .. Len(s) : s[i] # n
  PROVE  Lists(Append(s, n), S)
<1>1. s \in Seq(Nodes)
  BY DEF Lists
<1>2. /\ Append(s, n) \in Seq(Nodes) /\ Len(Append(s, n)) = Len(s) + 1
      /\ Len(s) \in Nat
      /\ \A i \in 1 .. Len(s) : Append(s, n)[i] = s[i]
      /\ Append(s, n)[Len(s) + 1] = n
  BY <1>1
<1>3. ASSUME NEW i \in 1 .. Len(s) + 1
      PROVE  i \in 1 .. Len(s) \/ i = Len(s) + 1
  BY <1>2
<1>4. \A i \in 1 .. Len(s) + 1 : Append(s, n)[i] \in S
  BY <1>2, <1>3 DEF Lists
<1>5. \A i, j \in 1 .. Len(s) + 1 : Append(s, n)[i] = Append(s, n)[j] => i = j
  BY <1>2, <1>3 DEF Lists
<1> QED
  BY <1>2, <1>4, <1>5 DEF Lists

\* Without its head, a list is one without this node.
LEMMA TailDrops ==
  ASSUME NEW S, NEW s, Lists(s, S), s # <<>>
  PROVE  /\ Head(s) \in Nodes \cap S
         /\ Lists(Tail(s), S \ {Head(s)})
         /\ \A i \in 1 .. Len(Tail(s)) : \E j \in 1 .. Len(s) : Tail(s)[i] = s[j]
<1>1. s \in Seq(Nodes)
  BY DEF Lists
<1>2. /\ Tail(s) \in Seq(Nodes) /\ Len(s) \in Nat \ {0} /\ Len(Tail(s)) = Len(s) - 1
      /\ \A i \in 1 .. Len(Tail(s)) : Tail(s)[i] = s[i + 1]
      /\ Head(s) = s[1]
  BY <1>1
<1>3. ASSUME NEW i \in 1 .. Len(Tail(s))
      PROVE  i + 1 \in 1 .. Len(s) /\ i + 1 # 1
  BY <1>2
<1>4. 1 \in 1 .. Len(s) /\ s[1] \in Nodes
  BY <1>1, <1>2
<1>5. \A i \in 1 .. Len(Tail(s)) : Tail(s)[i] \in S /\ Tail(s)[i] # Head(s)
  BY <1>2, <1>3, <1>4 DEF Lists
<1>6. \A i, j \in 1 .. Len(Tail(s)) : Tail(s)[i] = Tail(s)[j] => i = j
  <2>1. SUFFICES ASSUME NEW i \in 1 .. Len(Tail(s)), NEW j \in 1 .. Len(Tail(s)),
                        Tail(s)[i] = Tail(s)[j]
                 PROVE  i = j
    OBVIOUS
  <2>2. i + 1 = j + 1
    BY <1>2, <1>3, <2>1 DEF Lists
  <2> QED
    BY <1>2, <2>2
<1> QED
  BY <1>2, <1>3, <1>4, <1>5, <1>6 DEF Lists

LEMMA AppendApart ==
  ASSUME NEW S, NEW s, NEW t, Lists(s, S), Apart(s, t), NEW n \in Nodes,
         \A i \in 1 .. Len(t) : t[i] # n
  PROVE  Apart(Append(s, n), t)
<1>1. s \in Seq(Nodes) /\ Len(s) \in Nat
  BY DEF Lists
<1>2. /\ Len(Append(s, n)) = Len(s) + 1
      /\ \A i \in 1 .. Len(s) : Append(s, n)[i] = s[i]
      /\ Append(s, n)[Len(s) + 1] = n
  BY <1>1
<1>3. ASSUME NEW i \in 1 .. Len(s) + 1
      PROVE  i \in 1 .. Len(s) \/ i = Len(s) + 1
  BY <1>1
<1> QED
  BY <1>2, <1>3 DEF Apart

LEMMA ListsWithin ==
  ASSUME NEW S, NEW T, NEW s, Lists(s, S), S \subseteq T
  PROVE  Lists(s, T)
BY DEF Lists

LEMMA EmptyLists ==
  ASSUME NEW S
  PROVE  Lists(<<>>, S)
BY DEF Lists

\* Two lists of distinct nodes that have none in common make one.
LEMMA Joined ==
  ASSUME NEW S, NEW s, NEW t, Lists(s, S), Lists(t, S), Apart(s, t)
  PROVE  ToSet(s) \cup ToSet(t) \subseteq S /\ IsInjective(s \o t)
<1>1. s \in Seq(Nodes) /\ t \in Seq(Nodes)
  BY DEF Lists
<1>2. /\ Len(s) \in Nat /\ Len(t) \in Nat
      /\ DOMAIN s = 1 .. Len(s) /\ DOMAIN t = 1 .. Len(t)
      /\ DOMAIN (s \o t) = 1 .. Len(s) + Len(t)
  BY <1>1
<1>3. ToSet(s) \cup ToSet(t) \subseteq S
  BY <1>2 DEF ToSet, Lists
<1>4. ASSUME NEW i \in 1 .. Len(s) + Len(t)
      PROVE  \/ i \in 1 .. Len(s) /\ (s \o t)[i] = s[i]
             \/ i - Len(s) \in 1 .. Len(t) /\ (s \o t)[i] = t[i - Len(s)]
  BY <1>1, <1>2
<1>5. ASSUME NEW i \in 1 .. Len(s) + Len(t), NEW j \in 1 .. Len(s) + Len(t),
             (s \o t)[i] = (s \o t)[j]
      PROVE  i = j
  <2>1. CASE i \in 1 .. Len(s) /\ (s \o t)[i] = s[i]
    <3>1. CASE j \in 1 .. Len(s) /\ (s \o t)[j] = s[j]
      BY <1>5, <2>1, <3>1 DEF Lists
    <3>2. CASE j - Len(s) \in 1 .. Len(t) /\ (s \o t)[j] = t[j - Len(s)]
      BY <1>5, <2>1, <3>2 DEF Apart
    <3> QED
      BY <1>4, <3>1, <3>2
  <2>2. CASE i - Len(s) \in 1 .. Len(t) /\ (s \o t)[i] = t[i - Len(s)]
    <3>1. CASE j \in 1 .. Len(s) /\ (s \o t)[j] = s[j]
      BY <1>5, <2>2, <3>1 DEF Apart
    <3>2. CASE j - Len(s) \in 1 .. Len(t) /\ (s \o t)[j] = t[j - Len(s)]
      <4>1. i - Len(s) = j - Len(s)
        BY <1>5, <2>2, <3>2 DEF Lists
      <4> QED
        BY <1>2, <4>1
    <3> QED
      BY <1>4, <3>1, <3>2
  <2> QED
    BY <1>4, <2>1, <2>2
<1> QED
  BY <1>2, <1>3, <1>5 DEF IsInjective

-----------------------------------------------------------------------------
(* The best-first search.                                                  *)

FrontierIsKnown ==
  ~lossy => \A n \in best : n \in candidates \/ links[n] \subseteq met \cup unmet

EndedForGood == ended => unmet = {} /\ BestFinished

BestIInv ==
  /\ BestTypeOK
  /\ BestIsNearest
  /\ FrontierIsKnown
  /\ EndedForGood

\* BestIsNearest is HoldsNearest, but for the typing.
LEMMA BestHolds ==
  ASSUME BestTypeOK
  PROVE  BestIsNearest <=> HoldsNearest(best, met)
BY DEF BestTypeOK, BestIsNearest, HoldsNearest

LEMMA InitBestIInv == BestInit => BestIInv
<1> SUFFICES ASSUME BestInit PROVE BestIInv
  OBVIOUS
<1>1. Cardinality({}) = 0 /\ Ef \in Nat \ {0}
  BY FS_EmptySet, SearchHeapsAssumption
<1>2. BestTypeOK
  BY DEF BestInit, BestTypeOK
<1>3. BestIsNearest
  BY <1>1 DEF BestInit, BestIsNearest
<1>4. FrontierIsKnown
  BY DEF BestInit, FrontierIsKnown
<1>5. EndedForGood
  BY DEF BestInit, EndedForGood
<1> QED
  BY <1>2, <1>3, <1>4, <1>5 DEF BestIInv

\* The heaps take in a node or leave it.
LEMMA ExamineKeepsHeaps ==
  ASSUME BestIInv, NEW n \in Nodes, Examine(n)
  PROVE  /\ BestTypeOK'
         /\ BestIsNearest'
         /\ best' \subseteq best \cup {n}
         /\ n \in best' => n \in candidates'
<1>1. BestTypeOK /\ HoldsNearest(best, met) /\ n \in Nodes \ met /\ met \in SUBSET Nodes
  BY BestHolds DEF BestIInv, BestTypeOK, Examine
<1>2. CASE Admits(best, Bound, n)
  <2>1. /\ candidates' = candidates \cup {n} /\ best' = Insert(best, n)
        /\ met' = met \cup {n} /\ unmet' = unmet \ {n}
        /\ UNCHANGED <<links, origin, lossy, ended>>
    BY <1>2 DEF Examine
  <2>2. HoldsNearest(Insert(best, n), met \cup {n})
    BY <1>1, <1>2, InsertHoldsNearest DEF Bound
  <2>3. BestTypeOK'
    BY <1>1, <2>1, <2>2 DEF BestTypeOK, HoldsNearest
  <2>4. BestIsNearest'
    BY <2>1, <2>2 DEF BestIsNearest, HoldsNearest
  <2> QED
    BY <2>1, <2>3, <2>4 DEF Insert
<1>3. CASE ~Admits(best, Bound, n)
  <2>1. /\ UNCHANGED <<candidates, best>>
        /\ met' = met \cup {n} /\ unmet' = unmet \ {n}
        /\ UNCHANGED <<links, origin, lossy, ended>>
    BY <1>3 DEF Examine
  <2>2. HoldsNearest(best, met \cup {n})
    BY <1>1, <1>3, RejectedIsFarther DEF Bound
  <2>3. BestTypeOK'
    BY <1>1, <2>1 DEF BestTypeOK
  <2>4. BestIsNearest'
    BY <2>1, <2>2 DEF BestIsNearest, HoldsNearest
  <2> QED
    BY <1>1, <2>1, <2>3, <2>4 DEF BestTypeOK
<1> QED
  BY <1>2, <1>3

LEMMA NextBestIInv == BestIInv /\ [BestNext]_bestVars => BestIInv'
<1> SUFFICES ASSUME BestIInv, [BestNext]_bestVars PROVE BestIInv'
  OBVIOUS
<1>1. ASSUME NEW n \in Nodes, Examine(n) PROVE BestIInv'
  <2>1. /\ BestTypeOK' /\ BestIsNearest'
        /\ best' \subseteq best \cup {n} /\ (n \in best' => n \in candidates')
    BY <1>1, ExamineKeepsHeaps
  <2>2. /\ met' = met \cup {n} /\ unmet' = unmet \ {n} /\ n \in unmet
        /\ candidates \subseteq candidates' /\ UNCHANGED <<links, lossy, ended>>
    BY <1>1 DEF Examine
  <2>3. FrontierIsKnown'
    BY <2>1, <2>2 DEF BestIInv, FrontierIsKnown
  <2>4. EndedForGood'
    BY <2>2 DEF BestIInv, EndedForGood
  <2> QED
    BY <2>1, <2>3, <2>4 DEF BestIInv
<1>2. ASSUME NEW S \in SUBSET Nodes, Overlook(S) PROVE BestIInv'
  BY <1>2 DEF BestIInv, Overlook, BestTypeOK, BestIsNearest, FrontierIsKnown, EndedForGood
<1>3. CASE BestExpand
  <2> DEFINE c == Nearest(candidates)
  <2>1. /\ unmet = {} /\ ~ended /\ candidates' = candidates \ {c}
        /\ unmet' \subseteq links[c] \ met
        /\ lossy \/ unmet' = links[c] \ met
        /\ UNCHANGED <<links, origin, lossy, best, met, ended>>
    BY <1>3 DEF BestExpand, Fresh
  <2>2. c \in Nodes
    <3>1. candidates # {} /\ candidates \in SUBSET Nodes
      BY <1>3 DEF BestExpand, BestFinished, BestIInv, BestTypeOK
    <3> QED
      BY <3>1, NearestIsTop
  <2>3. BestTypeOK'
    BY <2>1, <2>2 DEF BestIInv, BestTypeOK
  <2>4. BestIsNearest'
    BY <2>1 DEF BestIInv, BestIsNearest
  <2>5. FrontierIsKnown'
    BY <2>1 DEF BestIInv, FrontierIsKnown
  <2>6. EndedForGood'
    BY <2>1 DEF EndedForGood
  <2> QED
    BY <2>3, <2>4, <2>5, <2>6 DEF BestIInv
<1>4. CASE BestFinish
  BY <1>4 DEF BestFinish, BestIInv, BestTypeOK, BestIsNearest, FrontierIsKnown, EndedForGood,
              BestFinished, Bound
<1>5. CASE UNCHANGED bestVars
  BY <1>5 DEF bestVars, BestIInv, BestTypeOK, BestIsNearest, FrontierIsKnown, EndedForGood,
              BestFinished, Bound
<1> QED
  BY <1>1, <1>2, <1>3, <1>4, <1>5 DEF BestNext

\* When the search has converged, no result waits to be expanded.
LEMMA ConvergedIsClosed ==
  ASSUME BestIInv
  PROVE  BestIsClosed
<1> SUFFICES ASSUME ended, ~lossy, NEW n \in best
             PROVE  links[n] \subseteq met
  BY DEF BestIsClosed
<1>1. best \in SUBSET Nodes /\ candidates \in SUBSET Nodes
  BY DEF BestIInv, BestTypeOK
<1>2. n \notin candidates
  <2>1. SUFFICES ASSUME n \in candidates PROVE FALSE
    OBVIOUS
  <2>2. Dist[Nearest(candidates)] > Dist[Farthest(best)]
    BY <2>1 DEF BestIInv, EndedForGood, BestFinished, Converged, Bound
  <2>3. Nearest(candidates) \in Nodes /\ Dist[Nearest(candidates)] <= Dist[n]
    BY <1>1, <2>1, NearestIsTop
  <2>4. Farthest(best) \in Nodes /\ Dist[n] <= Dist[Farthest(best)]
    BY <1>1, FarthestIsTop
  <2>5. Dist \in [Nodes -> Nat] /\ n \in Nodes
    BY <1>1, SearchHeapsAssumption
  <2> QED
    BY <2>2, <2>3, <2>4, <2>5
<1>3. unmet = {}
  BY DEF BestIInv, EndedForGood
<1> QED
  BY <1>2, <1>3 DEF BestIInv, FrontierIsKnown

-----------------------------------------------------------------------------
(* The search as a function.                                               *)

LEMMA LeastNumber ==
  ASSUME NEW S \in SUBSET Nat, S # {}
  PROVE  \E n \in S : \A m \in S : n <= m
<1> DEFINE Below == { 0 .. k : k \in S }
           R == StrictSubsetOrdering(Nat)
<1>1. Below \subseteq FiniteSubsetsOf(Nat) /\ Below # {}
  <2>1. \A k \in S : IsFiniteSet(0 .. k) /\ 0 .. k \in SUBSET Nat
    BY FS_Interval
  <2> QED
    BY <2>1 DEF FiniteSubsetsOf
<1>2. IsWellFoundedOn(R, FiniteSubsetsOf(Nat))
  BY FS_StrictSubsetOrderingWellFounded
<1>3. PICK T \in Below : \A U \in Below : <<U, T>> \notin R
  <2> HIDE DEF Below, R
  <2> QED
    BY <1>1, <1>2, WFMin
<1>4. PICK n \in S : T = 0 .. n
  OBVIOUS
<1>5. ASSUME NEW m \in S PROVE n <= m
  <2>1. SUFFICES ASSUME m < n PROVE FALSE
    OBVIOUS
  <2>2. 0 .. m \in SUBSET Nat /\ 0 .. n \in SUBSET Nat /\ 0 .. m \subseteq 0 .. n
    BY <2>1
  <2>3. n \in 0 .. n /\ n \notin 0 .. m
    BY <2>1
  <2>4. 0 .. m # 0 .. n
    BY <2>3
  <2>5. <<0 .. m, 0 .. n>> \in R
    BY <2>2, <2>4 DEF StrictSubsetOrdering
  <2> QED
    BY <1>3, <1>4, <2>5
<1> QED
  BY <1>5

\* A function that is defined step by step exists.
Follows(f, n, b, F) == f[0] = b /\ \A k \in 1 .. n : f[k] = F[f[k - 1]]

LEMMA StepsExist ==
  ASSUME NEW U, NEW b \in U, NEW n \in Nat, NEW F \in [U -> U]
  PROVE  \E f \in [0 .. n -> U] : Follows(f, n, b, F)
<1> DEFINE Right(m, f) == f[0] = b /\ \A k \in 1 .. m : f[k] = F[f[k - 1]]
           Bad == { m \in 0 .. n : ~ \E f \in [0 .. m -> U] : Right(m, f) }
<1>1. Bad = {}
  <2>1. SUFFICES ASSUME Bad # {} PROVE FALSE
    OBVIOUS
  <2>2. PICK m \in Bad : \A j \in Bad : m <= j
    <3>1. Bad \in SUBSET Nat
      OBVIOUS
    <3> HIDE DEF Bad
    <3> QED
      BY <2>1, <3>1, LeastNumber
  <2>3. m # 0
    <3>1. SUFFICES ASSUME m = 0 PROVE FALSE
      OBVIOUS
    <3> DEFINE g == [k \in 0 .. 0 |-> b]
    <3>2. g \in [0 .. 0 -> U] /\ Right(0, g)
      OBVIOUS
    <3> QED
      BY <3>1, <3>2
  <2>4. m \in 1 .. n /\ m - 1 \in 0 .. n /\ ~(m <= m - 1)
    BY <2>3
  <2>5. PICK f \in [0 .. m - 1 -> U] : Right(m - 1, f)
    BY <2>2, <2>4
  <2> DEFINE g == [k \in 0 .. m |-> IF k = m THEN F[f[m - 1]] ELSE f[k]]
  <2>6. f[m - 1] \in U /\ F[f[m - 1]] \in U
    BY <2>4
  <2>7. g \in [0 .. m -> U]
    BY <2>4, <2>6
  <2>8. \A k \in 1 .. m : g[k] = F[g[k - 1]]
    BY <2>4, <2>5
  <2>9. g[0] = b
    BY <2>4, <2>5
  <2> QED
    BY <2>7, <2>8, <2>9
<1>2. n \in 0 .. n
  OBVIOUS
<1> QED
  BY <1>1, <1>2 DEF Follows

SearchStates == [met : SUBSET Nodes, expanded : SUBSET Nodes]

AreStates(f, g, o) ==
  f = [k \in 0 .. Steps |-> IF k = 0 THEN Outset(o) ELSE NextState(g, f[k - 1])]

After(g, o) == CHOOSE f : AreStates(f, g, o)

LEMMA TopIs ==
  ASSUME NEW S \in SUBSET Nodes, NEW top, HoldsNearest(top, S)
  PROVE  top = Top(S)
<1> DEFINE Nearer(n) == { m \in S : Dist[m] < Dist[n] }
<1>1. top \in SUBSET Nodes /\ Ef \in Nat \ {0} /\ Dist \in [Nodes -> Nat]
  BY SearchHeapsAssumption DEF HoldsNearest
<1>2. IsFiniteSet(top) /\ Cardinality(top) \in Nat
  BY <1>1, NodesFinite
<1>3. \A n \in S : IsFiniteSet(Nearer(n)) /\ Cardinality(Nearer(n)) \in Nat
  BY NodesFinite
<1>4. ASSUME NEW n \in top PROVE Cardinality(Nearer(n)) < Ef
  <2>1. Nearer(n) \subseteq top \ {n}
    <3>1. SUFFICES ASSUME NEW m \in Nearer(n) PROVE m \in top \ {n}
      OBVIOUS
    <3>2. m \in Nodes /\ n \in Nodes /\ m \in S /\ Dist[m] < Dist[n]
      BY <1>1
    <3>3. ~(Dist[n] < Dist[m]) /\ m # n
      BY <1>1, <3>2
    <3> QED
      BY <3>2, <3>3 DEF HoldsNearest
  <2>2. IsFiniteSet(top \ {n}) /\ Cardinality(top \ {n}) = Cardinality(top) - 1
    BY <1>2, <1>4, FS_RemoveElement
  <2>3. Cardinality(Nearer(n)) <= Cardinality(top \ {n})
    <3> HIDE DEF Nearer
    <3> QED
      BY <2>1, <2>2, FS_Subset
  <2>4. n \in S /\ Cardinality(top) <= Ef
    BY DEF HoldsNearest
  <2> HIDE DEF Nearer
  <2> QED
    BY <1>1, <1>2, <1>3, <2>2, <2>3, <2>4
<1>5. ASSUME NEW n \in S \ top PROVE ~(Cardinality(Nearer(n)) < Ef)
  <2>1. Cardinality(top) = Ef
    BY <1>1, <1>2 DEF HoldsNearest
  <2>2. top \subseteq Nearer(n)
    BY DEF HoldsNearest
  <2>3. Cardinality(top) <= Cardinality(Nearer(n))
    <3> HIDE DEF Nearer
    <3> QED
      BY <1>3, <2>2, FS_Subset
  <2> HIDE DEF Nearer
  <2> QED
    BY <1>1, <1>3, <2>1, <2>3
<1>6. top \subseteq S
  BY DEF HoldsNearest
<1>7. Top(S) = { n \in S : Cardinality(Nearer(n)) < Ef }
  BY DEF Top
<1> HIDE DEF Nearer
<1> QED
  BY <1>4, <1>5, <1>6, <1>7

\* A state is followed by a state; one in which all results are expanded, by itself.
LEMMA NextStateIs ==
  ASSUME NEW g \in [Nodes -> SUBSET Nodes], NEW s \in SearchStates
  PROVE  NextState(g, s) \in SearchStates
<1>1. CASE Unexpanded(s) = {}
  BY <1>1 DEF NextState
<1>2. CASE Unexpanded(s) # {}
  <2>1. Unexpanded(s) \in SUBSET Nodes
    BY DEF Unexpanded, Top, SearchStates
  <2>2. Nearest(Unexpanded(s)) \in Nodes
    BY <1>2, <2>1, NearestIsTop
  <2> QED
    BY <1>2, <2>2 DEF NextState, SearchStates
<1> QED
  BY <1>1, <1>2

LEMMA AfterIs ==
  ASSUME NEW g \in [Nodes -> SUBSET Nodes], NEW o \in Nodes
  PROVE  /\ Steps \in Nat
         /\ SearchResult(g, o) = Top(After(g, o)[Steps].met)
         /\ After(g, o)[0] = Outset(o)
         /\ \A k \in 1 .. Steps : After(g, o)[k] = NextState(g, After(g, o)[k - 1])
<1> DEFINE b == Outset(o)
           F == [x \in SearchStates |-> NextState(g, x)]
<1>1. Steps \in Nat /\ b \in SearchStates /\ F \in [SearchStates -> SearchStates]
  <2>1. \A x \in SearchStates : NextState(g, x) \in SearchStates
    BY NextStateIs
  <2>2. Steps \in Nat
    BY NodesFinite DEF Steps
  <2> QED
    BY <2>1, <2>2 DEF Outset, SearchStates
<1>2. \E f : AreStates(f, g, o)
  <2>1. PICK f \in [0 .. Steps -> SearchStates] : Follows(f, Steps, b, F)
    <3> HIDE DEF b, F
    <3> QED
      BY <1>1, StepsExist
  <2>2. \A k \in 0 .. Steps :
          f[k] = IF k = 0 THEN Outset(o) ELSE NextState(g, f[k - 1])
    <3>1. TAKE k \in 0 .. Steps
    <3>2. CASE k = 0
      BY <2>1, <3>2 DEF Follows
    <3>3. CASE k # 0
      <4>1. k \in 1 .. Steps /\ k - 1 \in 0 .. Steps
        BY <1>1, <3>3
      <4>2. f[k - 1] \in SearchStates
        BY <4>1
      <4> QED
        BY <2>1, <3>3, <4>1, <4>2 DEF Follows
    <3> QED
      BY <3>2, <3>3
  <2>3. f = [k \in 0 .. Steps |-> f[k]]
    OBVIOUS
  <2> QED
    BY <2>2, <2>3 DEF AreStates
<1>3. AreStates(After(g, o), g, o)
  BY <1>2 DEF After
<1>4. SearchResult(g, o) = Top(After(g, o)[Steps].met)
  BY DEF SearchResult, After, AreStates
<1>5. 0 \in 0 .. Steps /\ \A k \in 1 .. Steps : k \in 0 .. Steps /\ k # 0
  BY <1>1
<1> QED
  BY <1>1, <1>3, <1>4, <1>5 DEF AreStates

\* Once all results are expanded, nothing changes any more.
LEMMA LastState ==
  ASSUME NEW g \in [Nodes -> SUBSET Nodes], NEW o \in Nodes, NEW k \in 0 .. Steps,
         Unexpanded(After(g, o)[k]) = {}
  PROVE  After(g, o)[Steps] = After(g, o)[k]
<1> DEFINE f == After(g, o)
           Bad == { j \in k .. Steps : f[j] # f[k] }
<1>1. Steps \in Nat /\ k \in Nat /\ Steps \in k .. Steps
  BY AfterIs
<1>2. ASSUME Bad # {} PROVE FALSE
  <2>1. PICK j \in Bad : \A i \in Bad : j <= i
    <3>1. Bad \in SUBSET Nat
      BY <1>1
    <3> HIDE DEF Bad
    <3> QED
      BY <1>2, <3>1, LeastNumber
  <2>2. j # k
    OBVIOUS
  <2>3. j \in 1 .. Steps /\ j - 1 \in k .. Steps /\ ~(j <= j - 1)
    BY <1>1, <2>2
  <2>4. f[j - 1] = f[k]
    BY <2>1, <2>3
  <2>5. f[j] = NextState(g, f[j - 1])
    BY <2>3, AfterIs
  <2>6. NextState(g, f[k]) = f[k]
    BY DEF NextState
  <2> QED
    BY <2>4, <2>5, <2>6
<1>3. Steps \notin Bad
  BY <1>2
<1> QED
  BY <1>1, <1>3

\* The search is where the function is after k steps, whichever neighbours of the
\* node expanded last it has met: a result is a candidate, or has been expanded.
Agrees(s) ==
  /\ met \cup unmet = s.met
  /\ s.expanded \subseteq met
  /\ best \subseteq candidates \cup s.expanded
  /\ candidates \cap s.expanded = {}

KeepsStep ==
  ~lossy => \E k \in 0 .. Steps :
              /\ Agrees(After(links, origin)[k])
              /\ Cardinality(After(links, origin)[k].expanded) = k

LEMMA InitKeepsStep == BestInit => KeepsStep
<1> SUFFICES ASSUME BestInit PROVE KeepsStep
  OBVIOUS
<1>1. After(links, origin)[0] = Outset(origin) /\ 0 \in 0 .. Steps
  BY AfterIs DEF BestInit
<1>2. Cardinality({}) = 0
  BY FS_EmptySet
<1>3. Agrees(After(links, origin)[0])
  BY <1>1 DEF BestInit, Agrees, Outset
<1>4. Cardinality(After(links, origin)[0].expanded) = 0
  BY <1>1, <1>2 DEF Outset
<1> QED
  BY <1>1, <1>3, <1>4 DEF KeepsStep

\* A search that has met all there was to meet holds the results of its state.
LEMMA BestIsTop ==
  ASSUME BestIInv, unmet = {}, NEW s, Agrees(s)
  PROVE  best = Top(s.met) /\ Unexpanded(s) = best \cap candidates
<1>1. HoldsNearest(best, met) /\ met \in SUBSET Nodes
  BY BestHolds DEF BestIInv, BestTypeOK
<1>2. s.met = met /\ best = Top(met)
  BY <1>1, TopIs DEF Agrees
<1> QED
  BY <1>2 DEF Agrees, Unexpanded

\* A result among the candidates is no farther than the bound.
LEMMA CandidateAmongBest ==
  ASSUME BestIInv, NEW n \in best \cap candidates
  PROVE  ~BestFinished
<1>1. best \in SUBSET Nodes /\ candidates \in SUBSET Nodes /\ Dist \in [Nodes -> Nat]
  BY SearchHeapsAssumption DEF BestIInv, BestTypeOK
<1>2. Nearest(candidates) \in candidates /\ Dist[Nearest(candidates)] <= Dist[n]
  BY <1>1, NearestIsTop
<1>3. Farthest(best) \in best /\ Dist[n] <= Dist[Farthest(best)]
  BY <1>1, FarthestIsTop
<1>4. ~(Dist[Nearest(candidates)] > Dist[Farthest(best)])
  BY <1>1, <1>2, <1>3
<1> QED
  BY <1>4 DEF BestFinished, Converged, Bound

\* The candidate that is expanded is the nearest result not expanded.
LEMMA ExpandsTheNext ==
  ASSUME BestIInv, unmet = {}, ~BestFinished, NEW s, Agrees(s)
  PROVE  /\ Unexpanded(s) # {}
         /\ Nearest(Unexpanded(s)) = Nearest(candidates)
<1> DEFINE c == Nearest(candidates)
<1>1. /\ best \in SUBSET Nodes /\ candidates \in SUBSET Nodes /\ candidates \subseteq met
      /\ Dist \in [Nodes -> Nat] /\ Ef \in Nat \ {0}
      /\ HoldsNearest(best, met)
  BY BestHolds, SearchHeapsAssumption DEF BestIInv, BestTypeOK
<1>2. candidates # {} /\ ~Converged(best, Bound, c)
  BY DEF BestFinished
<1>3. c \in candidates /\ \A m \in candidates : Dist[c] <= Dist[m]
  BY <1>1, <1>2, NearestIsTop
<1>4. c \in best
  <2>1. SUFFICES ASSUME c \notin best PROVE FALSE
    OBVIOUS
  <2>2. c \in met \ best
    BY <1>1, <1>3, <2>1
  <2>3. Cardinality(best) \in Nat
    BY <1>1, NodesFinite
  <2>4. Cardinality(best) = Ef
    <3>1. Cardinality(best) <= Ef /\ ~(Cardinality(best) < Ef)
      BY <1>1, <2>2 DEF HoldsNearest
    <3> QED
      BY <1>1, <2>3, <3>1
  <2>5. best # {}
    BY <1>1, <2>4, FS_EmptySet
  <2>6. Farthest(best) \in best
    BY <1>1, <2>5, FarthestIsTop
  <2>7. Dist[Farthest(best)] < Dist[c]
    BY <1>1, <2>2, <2>6 DEF HoldsNearest
  <2>8. Dist[c] > Bound
    BY <1>1, <1>3, <2>6, <2>7 DEF Bound
  <2> QED
    BY <1>2, <2>4, <2>8 DEF Converged
<1>5. Unexpanded(s) = best \cap candidates
  BY BestIsTop
<1> DEFINE w == Nearest(Unexpanded(s))
<1>6. Unexpanded(s) \in SUBSET Nodes /\ c \in Unexpanded(s)
  BY <1>1, <1>3, <1>4, <1>5
<1>7. w \in Unexpanded(s) /\ Dist[w] <= Dist[c]
  BY <1>6, NearestIsTop
<1>8. Dist[c] <= Dist[w] /\ w \in Nodes /\ c \in Nodes
  BY <1>1, <1>3, <1>5, <1>6, <1>7
<1>9. w = c
  <2> HIDE DEF w, c
  <2>1. Dist[w] = Dist[c]
    BY <1>1, <1>7, <1>8
  <2> QED
    BY <1>8, <2>1, SearchHeapsAssumption
<1> QED
  BY <1>6, <1>9

LEMMA ExpandKeepsStep ==
  ASSUME BestIInv, KeepsStep, BestExpand
  PROVE  KeepsStep'
<1> DEFINE f == After(links, origin)
           c == Nearest(candidates)
<1>1. SUFFICES ASSUME ~lossy PROVE KeepsStep'
  BY DEF KeepsStep, BestExpand
<1>2. PICK k \in 0 .. Steps : Agrees(f[k]) /\ Cardinality(f[k].expanded) = k
  BY <1>1 DEF KeepsStep
<1>3. /\ unmet = {} /\ ~BestFinished /\ candidates' = candidates \ {c}
      /\ unmet' = links[c] \ met
      /\ UNCHANGED <<links, origin, lossy, best, met, ended>>
  BY <1>1 DEF BestExpand, Fresh
<1>4. Unexpanded(f[k]) # {} /\ Nearest(Unexpanded(f[k])) = c
  BY <1>2, <1>3, ExpandsTheNext
<1>5. f[k].met = met /\ f[k].expanded \subseteq met
  BY <1>2, <1>3 DEF Agrees
<1>6. links \in [Nodes -> SUBSET Nodes] /\ origin \in Nodes
      /\ met \in SUBSET Nodes /\ candidates \in SUBSET Nodes /\ candidates \subseteq met
  BY DEF BestIInv, BestTypeOK
<1>7. c \in candidates
  <2>1. candidates # {}
    BY <1>3 DEF BestFinished
  <2> QED
    BY <1>6, <2>1, NearestIsTop
<1>8. c \notin f[k].expanded /\ c \in Nodes /\ f[k].expanded \in SUBSET Nodes
  BY <1>2, <1>5, <1>6, <1>7 DEF Agrees
<1> DEFINE e == f[k].expanded \cup {c}
<1>9. Cardinality(e) = k + 1 /\ k + 1 \in 1 .. Steps
  <2> HIDE DEF f, c
  <2>1. IsFiniteSet(f[k].expanded) /\ k \in Nat /\ Steps \in Nat
    BY <1>6, <1>8, AfterIs, NodesFinite
  <2>2. Cardinality(e) = k + 1
    BY <1>2, <1>8, <2>1, FS_AddElement
  <2>3. Cardinality(e) <= Cardinality(Nodes)
    BY <1>8, SearchHeapsAssumption, FS_Subset
  <2> QED
    BY <2>1, <2>2, <2>3 DEF Steps
<1>10. f[k + 1] = [met |-> met \cup links[c], expanded |-> e]
  <2>1. f[k + 1] = NextState(links, f[k + 1 - 1]) /\ k + 1 - 1 = k
    BY <1>6, <1>9, AfterIs
  <2> QED
    BY <1>4, <1>5, <2>1 DEF NextState
<1>11. /\ met' \cup unmet' = f[k + 1].met
       /\ f[k + 1].expanded \subseteq met'
       /\ best' \subseteq candidates' \cup f[k + 1].expanded
       /\ candidates' \cap f[k + 1].expanded = {}
  <2> HIDE DEF f, c
  <2>1. best \subseteq candidates \cup f[k].expanded /\ candidates \cap f[k].expanded = {}
    BY <1>2 DEF Agrees
  <2> QED
    BY <1>3, <1>5, <1>6, <1>7, <1>10, <2>1
<1>12. Cardinality(f[k + 1].expanded) = k + 1 /\ k + 1 \in 0 .. Steps
  BY <1>9, <1>10
<1>13. After(links', origin') = f
  BY <1>3
<1> HIDE DEF f
<1> QED
  BY <1>11, <1>12, <1>13 DEF KeepsStep, Agrees

LEMMA NextKeepsStep ==
  ASSUME BestIInv, KeepsStep, [BestNext]_bestVars
  PROVE  KeepsStep'
<1> DEFINE f == After(links, origin)
<1>1. ASSUME NEW n \in Nodes, Examine(n) PROVE KeepsStep'
  <2>1. SUFFICES ASSUME ~lossy PROVE KeepsStep'
    BY <1>1 DEF KeepsStep, Examine
  <2>2. PICK k \in 0 .. Steps : Agrees(f[k]) /\ Cardinality(f[k].expanded) = k
    BY <2>1 DEF KeepsStep
  <2>3. best' \subseteq best \cup {n} /\ (n \in best' => n \in candidates')
    BY <1>1, ExamineKeepsHeaps
  <2>4. /\ n \in unmet /\ met' = met \cup {n} /\ unmet' = unmet \ {n}
        /\ candidates \subseteq candidates' /\ candidates' \subseteq candidates \cup {n}
        /\ UNCHANGED <<links, origin, lossy>>
    BY <1>1 DEF Examine
  <2>5. n \notin met
    BY <2>4 DEF BestIInv, BestTypeOK
  <2>6. /\ met' \cup unmet' = f[k].met
        /\ f[k].expanded \subseteq met'
        /\ best' \subseteq candidates' \cup f[k].expanded
        /\ candidates' \cap f[k].expanded = {}
    <3> HIDE DEF f
    <3> QED
      BY <2>2, <2>3, <2>4, <2>5 DEF Agrees
  <2>7. After(links', origin') = f
    BY <2>4
  <2> HIDE DEF f
  <2> QED
    BY <2>2, <2>6, <2>7 DEF KeepsStep, Agrees
<1>2. ASSUME NEW S \in SUBSET Nodes, Overlook(S) PROVE KeepsStep'
  BY <1>2 DEF Overlook, KeepsStep
<1>3. CASE BestExpand
  BY <1>3, ExpandKeepsStep
<1>4. CASE BestFinish \/ UNCHANGED bestVars
  <2>1. UNCHANGED <<links, origin, lossy, candidates, best, met, unmet>>
    BY <1>4 DEF BestFinish, bestVars
  <2> QED
    BY <2>1 DEF KeepsStep, Agrees
<1> QED
  BY <1>1, <1>2, <1>3, <1>4 DEF BestNext

\* When the search has ended no result is left to be expanded, as in the function.
LEMMA ResultIsUnique ==
  ASSUME BestIInv, KeepsStep
  PROVE  BestIsTheResult
<1> DEFINE f == After(links, origin)
<1>1. SUFFICES ASSUME ended, ~lossy PROVE best = SearchResult(links, origin)
  BY DEF BestIsTheResult
<1>2. unmet = {} /\ BestFinished
  BY <1>1 DEF BestIInv, EndedForGood
<1>3. PICK k \in 0 .. Steps : Agrees(f[k])
  BY <1>1 DEF KeepsStep
<1>4. best = Top(f[k].met) /\ Unexpanded(f[k]) = best \cap candidates
  BY <1>2, <1>3, BestIsTop
<1>5. Unexpanded(f[k]) = {}
  BY <1>2, <1>4, CandidateAmongBest
<1>6. links \in [Nodes -> SUBSET Nodes] /\ origin \in Nodes
  BY DEF BestIInv, BestTypeOK
<1>7. f[Steps] = f[k]
  BY <1>5, <1>6, LastState
<1> QED
  BY <1>4, <1>6, <1>7, AfterIs

-----------------------------------------------------------------------------
(* The theorems.                                                           *)

\* On every graph and from every entry, at every moment the result heap holds the
\* Ef nearest of the nodes looked at, and the result is closed when the search
\* that overlooks nothing ends.
THEOREM BestFirstIsCorrect ==
  BestSpec => [](BestTypeOK /\ BestIsNearest /\ BestIsClosed)
<1>1. BestIInv => BestTypeOK /\ BestIsNearest /\ BestIsClosed
  BY ConvergedIsClosed DEF BestIInv
<1> QED
  BY InitBestIInv, NextBestIInv, <1>1, PTL DEF BestSpec

\* On every graph, from every entry and for every size of the result, the result of
\* a search that overlooks nothing is that of the function SearchResult, in whatever
\* order it meets the neighbours of a node.
THEOREM BestFirstIsDetermined == BestSpec => []BestIsTheResult
BY InitBestIInv, NextBestIInv, InitKeepsStep, NextKeepsStep, ResultIsUnique, PTL DEF BestSpec

=============================================================================
