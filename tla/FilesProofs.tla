------------------------------ MODULE FilesProofs ------------------------------
(***************************************************************************)
(* The block files, the file of vectors and the route tables, for any      *)
(* graph: that they fit one another, and that a search reads of a node     *)
(* what belongs to it.                                                     *)
(*                                                                         *)
(* Packing is followed node by node: the blocks are stretches of the ids,  *)
(* none empty and none too full (Packed).  A reorder gives each block      *)
(* another order of its nodes (Shuffled), and no more than that is known   *)
(* of one (FilesAreRight).                                                 *)
(*                                                                         *)
(* Reading is followed byte by byte: the digits of a number, the           *)
(* differences of a sorted list, the lists of a block one after another    *)
(* are read back as they were written, whatever comes behind them.         *)
(* ReadsAreRight adds the codes, the open index and the tables, as they    *)
(* were loaded.                                                            *)
(***************************************************************************)
EXTENDS ParallelProofs

-----------------------------------------------------------------------------
(* Numbers and lists.                                                      *)

\* Quotients and remainders.
LEMMA DivMod ==
  ASSUME NEW b \in Nat \ {0}, NEW a \in Nat
  PROVE  /\ a \div b \in Nat /\ a % b \in Nat /\ a % b < b
         /\ (a \div b) * b + (a % b) = a
<1>1. a \div b \in Nat /\ a % b \in Nat /\ a % b < b
  OBVIOUS
<1>2. a = b * (a \div b) + (a % b)
  OBVIOUS
<1>3. PICK q \in Nat, r \in Nat : q = a \div b /\ r = a % b
  BY <1>1
<1> QED
  BY <1>1, <1>2, <1>3

LEMMA QuotientsGrow ==
  ASSUME NEW b \in Nat \ {0}, NEW a \in Nat, NEW c \in Nat, a <= c
  PROVE  a \div b <= c \div b
<1>1. PICK q \in Nat, r \in Nat : q = a \div b /\ r = a % b /\ r < b /\ q * b + r = a
  BY DivMod
<1>2. PICK p \in Nat, t \in Nat : p = c \div b /\ t = c % b /\ t < b /\ p * b + t = c
  BY DivMod
<1>3. q * b < (p + 1) * b
  <2>1. (p + 1) * b = p * b + b
    OBVIOUS
  <2>2. q * b \in Nat /\ p * b \in Nat
    OBVIOUS
  <2> QED
    BY <1>1, <1>2, <2>1, <2>2
<1>4. CASE q <= p
  BY <1>1, <1>2, <1>4
<1>5. CASE p + 1 <= q
  <2>1. PICK d \in Nat : q = p + 1 + d
    <3>1. q - (p + 1) \in Nat /\ q = p + 1 + (q - (p + 1))
      BY <1>5
    <3> QED
      BY <3>1
  <2>2. q * b = (p + 1) * b + d * b /\ d * b \in Nat /\ (p + 1) * b \in Nat
    BY <2>1
  <2> QED
    BY <1>3, <2>2
<1> QED
  BY <1>4, <1>5

LEMMA SmallQuotient ==
  ASSUME NEW b \in Nat \ {0}, NEW a \in Nat
  PROVE  /\ a < b => a % b = a
         /\ a \div b = 0 => a < b
         /\ (b + (a % b)) % b = a % b
         /\ b + (a % b) >= b
<1>1. PICK q \in Nat, r \in Nat : q = a \div b /\ r = a % b /\ r < b /\ q * b + r = a
  BY DivMod
<1>2. a \div b = 0 => a < b
  BY <1>1
<1>3. ASSUME NEW c \in Nat, c < b
      PROVE  c % b = c
  <2>1. PICK p \in Nat, t \in Nat : p = c \div b /\ t = c % b /\ t < b /\ p * b + t = c
    BY DivMod
  <2>2. CASE p = 0
    <3>1. p * b = 0
      BY <2>2
    <3> QED
      BY <2>1, <3>1
  <2>3. CASE p > 0
    <3>1. PICK d \in Nat : p = 1 + d
      <4>1. p - 1 \in Nat /\ p = 1 + (p - 1)
        BY <2>3
      <4> QED
        BY <4>1
    <3>2. p * b = b + d * b /\ d * b \in Nat
      BY <3>1
    <3> QED
      BY <1>3, <2>1, <3>2
  <2> QED
    BY <2>2, <2>3
<1>4. (b + r) % b = r
  <2>1. PICK p \in Nat, t \in Nat : p = (b + r) \div b /\ t = (b + r) % b /\ t < b /\ p * b + t = b + r
    <3>1. PICK x \in Nat : x = b + r
      OBVIOUS
    <3>2. /\ x \div b \in Nat /\ x % b \in Nat /\ x % b < b
          /\ (x \div b) * b + (x % b) = x
      BY DivMod
    <3> QED
      BY <3>1, <3>2
  <2>2. CASE p = 0
    <3>1. p * b = 0
      BY <2>2
    <3> QED
      BY <1>1, <2>1, <3>1
  <2>3. CASE p = 1
    <3>1. p * b = b
      BY <2>3
    <3> QED
      BY <1>1, <2>1, <3>1
  <2>4. CASE p > 1
    <3>1. PICK d \in Nat : p = 2 + d
      <4>1. p - 2 \in Nat /\ p = 2 + (p - 2)
        BY <2>4
      <4> QED
        BY <4>1
    <3>2. p * b = 2 * b + d * b /\ d * b \in Nat
      BY <3>1
    <3> QED
      BY <1>1, <2>1, <3>2
  <2> QED
    BY <2>2, <2>3, <2>4
<1> QED
  BY <1>1, <1>2, <1>3, <1>4

LEMMA FileConstants ==
  /\ Base \in Nat \ {0} /\ Base > 1 /\ MaxBytes \in Nat \ {0}
  /\ Page \in Nat /\ Page > 6 /\ Dim \in Nat \ {0}
BY BlockFilesAssumption

\* v shifted k times.
LEMMA ShiftedIs ==
  ASSUME NEW v \in Nat
  PROVE  /\ Shifted(v) \in [0 .. MaxBytes -> Nat] /\ Shifted(v)[0] = v
         /\ \A k \in 1 .. MaxBytes : Shifted(v)[k] = Shifted(v)[k - 1] \div Base
<1>1. PICK m \in Nat : m = MaxBytes
  BY FileConstants
<1>2. PICK b \in Nat \ {0} : b = Base
  BY FileConstants
<1> DEFINE Rule(f) == f = [k \in 0 .. m |-> IF k = 0 THEN v ELSE f[k - 1] \div b]
           F == [k \in 1 .. m |-> [x \in Nat |-> x \div b]]
<1>3. Shifted(v) = CHOOSE f : Rule(f)
  BY <1>1, <1>2 DEF Shifted
<1>4. \A x \in Nat : x \div b \in Nat
  BY DivMod
<1>5. F \in [1 .. m -> [Nat -> Nat]]
  BY <1>4
<1>6. PICK h \in [0 .. m -> Nat] : h[0] = v /\ \A k \in 1 .. m : h[k] = F[k][h[k - 1]]
  <2>1. \E f \in [0 .. m -> Nat] : Follows(f, m, v, F)
    <3> HIDE DEF F
    <3> QED
      BY <1>5, RecursionExists
  <2> QED
    BY <2>1 DEF Follows
<1>7. \A k \in 1 .. m : h[k] = h[k - 1] \div b /\ k \in 0 .. m /\ k - 1 \in 0 .. m
  <2>1. \A k \in 1 .. m : k \in 0 .. m /\ k - 1 \in 0 .. m
    OBVIOUS
  <2> QED
    BY <1>6, <2>1
<1> HIDE DEF F
<1>8. Rule(h)
  <2>1. h = [k \in 0 .. m |-> h[k]]
    OBVIOUS
  <2>2. \A k \in 0 .. m : h[k] = IF k = 0 THEN v ELSE h[k - 1] \div b
    <3>1. \A k \in 0 .. m : k # 0 => k \in 1 .. m
      OBVIOUS
    <3> QED
      BY <1>6, <1>7, <3>1
  <2> QED
    BY <2>1, <2>2
<1> DEFINE at == CHOOSE f : Rule(f)
<1>9. Rule(at)
  BY <1>8
<1>10. Shifted(v) = at
  BY <1>3
<1> HIDE DEF at
<1>11. at[0] = v /\ \A k \in 1 .. m : at[k] = at[k - 1] \div b
  <2>1. \A k \in 1 .. m : k \in 0 .. m /\ k # 0
    OBVIOUS
  <2>2. 0 \in 0 .. m
    OBVIOUS
  <2> QED
    BY <1>9, <2>1, <2>2
<1>12. \A k \in 0 .. m : at[k] = h[k]
  <2>1. GoOnAlike(at, h, m)
    BY <1>6, <1>7, <1>11 DEF GoOnAlike
  <2> QED
    BY <2>1, SameSteps
<1>13. at = h
  <2>1. at = [k \in 0 .. m |-> IF k = 0 THEN v ELSE at[k - 1] \div b]
    BY <1>9
  <2>2. at = [k \in 0 .. m |-> at[k]] /\ h = [k \in 0 .. m |-> h[k]]
    BY <2>1
  <2> QED
    BY <1>12, <2>2
<1> QED
  BY <1>1, <1>2, <1>6, <1>7, <1>10, <1>13

\* The bytes of a number that is no greater than the greatest id: all but the last
\* carry the flag.
LEMMA VarintIs ==
  ASSUME NEW v \in Nat, v <= N - 1
  PROVE  \E size \in 1 .. MaxBytes :
           /\ VarintEncode(v) \in Seq(Nat) /\ Len(VarintEncode(v)) = size
           /\ \A k \in 1 .. size - 1 : /\ VarintEncode(v)[k] >= Base
                                       /\ VarintEncode(v)[k] % Base = Shifted(v)[k - 1] % Base
           /\ VarintEncode(v)[size] < Base /\ VarintEncode(v)[size] % Base = Shifted(v)[size - 1] % Base
           /\ Shifted(v)[size] = 0
<1>1. PICK m \in Nat : m = MaxBytes /\ m # 0
  BY FileConstants
<1>2. PICK b \in Nat \ {0} : b = Base
  BY FileConstants
<1>3. PICK s \in [0 .. m -> Nat] :
        s = Shifted(v) /\ s[0] = v /\ \A k \in 1 .. m : s[k] = s[k - 1] \div b
  BY <1>1, <1>2, ShiftedIs
<1>4. PICK w \in Nat : w = N - 1 /\ v <= w
  BY NIs
<1>5. PICK t \in [0 .. m -> Nat] :
        t = Shifted(w) /\ t[0] = w /\ \A k \in 1 .. m : t[k] = t[k - 1] \div b
  <2>1. \A x \in Nat : /\ Shifted(x) \in [0 .. m -> Nat] /\ Shifted(x)[0] = x
                      /\ \A k \in 1 .. m : Shifted(x)[k] = Shifted(x)[k - 1] \div b
    BY <1>1, <1>2, ShiftedIs
  <2>2. w \in Nat
    OBVIOUS
  <2> QED
    BY <2>1, <2>2
<1>6. t[m] = 0
  BY <1>1, <1>4, <1>5, PipelineAssumption
<1>7. \A k \in 0 .. m : s[k] <= t[k]
  <2> DEFINE Ok == [k \in 0 .. m |-> { x \in Nat : x <= t[k] }]
  <2>1. s[0] \in Ok[0]
    BY <1>3, <1>4, <1>5
  <2>2. \A k \in 1 .. m : s[k - 1] \in Ok[k - 1] => s[k] \in Ok[k]
    <3>1. TAKE k \in 1 .. m
    <3>2. k \in 0 .. m /\ k - 1 \in 0 .. m
      OBVIOUS
    <3>3. s[k - 1] <= t[k - 1] => s[k - 1] \div b <= t[k - 1] \div b
      BY <1>3, <1>5, <3>2, QuotientsGrow
    <3> QED
      BY <1>3, <1>5, <3>2, <3>3
  <2>3. \A k \in 0 .. m : s[k] \in Ok[k]
    <3> HIDE DEF Ok
    <3> QED
      BY <2>1, <2>2, StepsKeep
  <2> QED
    BY <2>3
<1>8. m \in 1 .. m /\ s[m] = 0
  <2>1. m \in 0 .. m /\ s[m] \in Nat
    BY <1>3
  <2>2. s[m] <= 0
    BY <1>6, <1>7, <2>1
  <2> QED
    BY <1>1, <2>1, <2>2
<1>9. PICK S : S = { k \in 1 .. m : s[k] = 0 }
  OBVIOUS
<1>10. S \in SUBSET Nat /\ S # {}
  BY <1>8, <1>9
<1>11. PICK size : size = Min(S)
  OBVIOUS
<1>12. size \in S /\ \A k \in S : size <= k
  BY <1>10, <1>11, MinIs
<1>13. size \in 1 .. m /\ s[size] = 0 /\ \A k \in 1 .. size - 1 : s[k] # 0
  <2>1. size \in 1 .. m /\ s[size] = 0
    BY <1>9, <1>12
  <2>2. ASSUME NEW k \in 1 .. size - 1, s[k] = 0 PROVE FALSE
    <3>1. k \in 1 .. m /\ k < size
      BY <2>1
    <3>2. k \in S
      BY <1>9, <2>2, <3>1
    <3> QED
      BY <1>12, <2>1, <3>1, <3>2
  <2> QED
    BY <2>1, <2>2
<1>14. PICK c : c = VarintEncode(v)
  OBVIOUS
<1>15. c = [k \in 1 .. size |-> IF k = size THEN s[k - 1] ELSE b + (s[k - 1] % b)]
  BY <1>1, <1>2, <1>3, <1>9, <1>11, <1>14 DEF VarintEncode
<1>16. \A k \in 1 .. size : k \in 1 .. m /\ k - 1 \in 0 .. m /\ s[k - 1] \in Nat
  <2>1. size \in Nat /\ size <= m
    BY <1>13
  <2>2. \A k \in 1 .. size : k \in 1 .. m /\ k - 1 \in 0 .. m
    BY <2>1
  <2> QED
    BY <1>3, <2>2
<1>17. \A k \in 1 .. size : s[k - 1] % b \in Nat /\ b + (s[k - 1] % b) \in Nat
  <2>1. TAKE k \in 1 .. size
  <2>2. PICK x \in Nat : x = s[k - 1]
    BY <1>16
  <2>3. PICK r \in Nat : r = x % b
    BY DivMod
  <2>4. b + r \in Nat
    OBVIOUS
  <2> QED
    BY <2>2, <2>3, <2>4
<1>18. c \in Seq(Nat) /\ Len(c) = size
  <2>1. \A k \in 1 .. size : c[k] \in Nat
    BY <1>15, <1>16, <1>17
  <2>2. c \in [1 .. size -> Nat] /\ size \in Nat
    <3>1. size \in Nat
      BY <1>13
    <3>2. \A k \in 1 .. size : (IF k = size THEN s[k - 1] ELSE b + (s[k - 1] % b)) \in Nat
      BY <1>16, <1>17
    <3> QED
      BY <1>15, <3>1, <3>2
  <2> QED
    BY <2>2
<1>19. ASSUME NEW k \in 1 .. size - 1
       PROVE  c[k] >= b /\ c[k] % b = s[k - 1] % b
  <2>1. k \in 1 .. size /\ k # size
    BY <1>13
  <2>2. c[k] = b + (s[k - 1] % b)
    BY <1>15, <2>1
  <2> QED
    BY <1>16, <2>1, <2>2, SmallQuotient
<1>20. c[size] < b /\ c[size] % b = s[size - 1] % b
  <2>1. size \in 1 .. size
    BY <1>13
  <2>2. c[size] = s[size - 1]
    BY <1>15, <2>1
  <2>3. s[size - 1] \div b = 0
    BY <1>3, <1>13
  <2> QED
    BY <1>16, <2>1, <2>2, <2>3, SmallQuotient
<1> QED
  BY <1>1, <1>2, <1>3, <1>13, <1>14, <1>18, <1>19, <1>20

\* Ids in ascending order, each once.
Rising(s) == \A i, j \in 1 .. Len(s) : i < j => s[i] < s[j]

LEMMA AscendingIs ==
  ASSUME NEW s \in Seq(Ids), IsInjective(s)
  PROVE  /\ Ascending(s) \in Seq(Ids) /\ Len(Ascending(s)) = Len(s)
         /\ ToSet(Ascending(s)) = ToSet(s) /\ Rising(Ascending(s))
<1> DEFINE lt == { p \in ToSet(s) \X ToSet(s) : p[1] < p[2] }
<1>1. \A u, v \in ToSet(s) : (<<u, v>> \in lt <=> u < v) /\ u \in Nat /\ v \in Nat
  <2>1. ToSet(s) \subseteq Ids
    BY DEF ToSet
  <2>2. Ids \subseteq Nat
    BY NIs DEF Ids
  <2>3. \A u, v \in ToSet(s) : <<u, v>> \in ToSet(s) \X ToSet(s) /\ <<u, v>>[1] = u /\ <<u, v>>[2] = v
    OBVIOUS
  <2> QED
    BY <2>1, <2>2, <2>3
<1>2. Orders(lt, ToSet(s))
  <2> HIDE DEF lt
  <2>1. \A u \in ToSet(s) : <<u, u>> \notin lt
    BY <1>1
  <2>2. \A u, v \in ToSet(s) : u # v => <<u, v>> \in lt \/ <<v, u>> \in lt
    BY <1>1
  <2>3. \A u, v, w \in ToSet(s) : <<u, v>> \in lt /\ <<v, w>> \in lt => <<u, w>> \in lt
    BY <1>1
  <2> QED
    BY <2>1, <2>2, <2>3 DEF Orders
<1>3. Ascending(s) = SortedBy(s, lt)
  BY DEF Ascending
<1>4. PICK t : t = SortedBy(s, lt)
  OBVIOUS
<1>5. /\ t \in Seq(Ids) /\ Len(t) = Len(s) /\ ToSet(t) = ToSet(s) /\ IsInjective(t)
      /\ \A i, j \in 1 .. Len(s) : i < j => <<t[i], t[j]>> \in lt \/ t[i] = t[j]
  <2> HIDE DEF lt
  <2> QED
    BY <1>2, <1>4, SortedByIs, SortedByKeeps
<1>6. PICK n \in Nat : n = Len(t) /\ n = Len(s) /\ DOMAIN t = 1 .. n
  BY <1>5
<1>7. \A i \in 1 .. n : t[i] \in ToSet(s)
  BY <1>5, <1>6 DEF ToSet
<1>8. Rising(t)
  <2>1. ASSUME NEW i \in 1 .. n, NEW j \in 1 .. n, i < j PROVE t[i] < t[j]
    <3>1. t[i] # t[j]
      BY <1>5, <1>6, <2>1 DEF IsInjective
    <3>2. <<t[i], t[j]>> \in lt
      <4> HIDE DEF lt
      <4> QED
        BY <1>5, <1>6, <2>1, <3>1
    <3> HIDE DEF lt
    <3> QED
      BY <1>1, <1>7, <3>2
  <2> QED
    BY <1>6, <2>1 DEF Rising
<1> QED
  BY <1>3, <1>4, <1>5, <1>8

\* What is encoded of an ascending list: its first id, and the distances.
Gaps(s) == [i \in 1 .. Len(s) |-> IF i = 1 THEN s[i] ELSE s[i] - s[i - 1]]
Codes(s) == [i \in 1 .. Len(s) |-> VarintEncode(Gaps(s)[i])]

LEMMA GapsAre ==
  ASSUME NEW s \in Seq(Ids), Rising(s)
  PROVE  \A i \in 1 .. Len(s) : Gaps(s)[i] \in Nat /\ Gaps(s)[i] <= N - 1
<1>1. PICK n \in Nat : n = Len(s) /\ DOMAIN s = 1 .. n
  OBVIOUS
<1>2. \A i \in 1 .. n : s[i] \in Nat /\ s[i] <= N - 1
  <2>1. \A i \in 1 .. n : s[i] \in Ids
    BY <1>1
  <2> QED
    BY <2>1, NIs DEF Ids
<1>3. TAKE i \in 1 .. Len(s)
<1>4. i \in 1 .. n
  BY <1>1
<1>5. CASE i = 1
  BY <1>1, <1>2, <1>4, <1>5 DEF Gaps
<1>6. CASE i # 1
  <2>1. i - 1 \in 1 .. n /\ i - 1 < i
    BY <1>4, <1>6
  <2>2. s[i - 1] < s[i]
    BY <1>1, <1>4, <2>1 DEF Rising
  <2>3. Gaps(s)[i] = s[i] - s[i - 1]
    BY <1>6 DEF Gaps
  <2>4. PICK x \in Nat, y \in Nat : x = s[i] /\ y = s[i - 1] /\ x <= N - 1
    BY <1>2, <1>4, <2>1
  <2> QED
    BY <2>2, <2>3, <2>4, NIs
<1> QED
  BY <1>5, <1>6

LEMMA DeltaEncodeIs ==
  ASSUME NEW s \in Seq(Ids), Rising(s)
  PROVE  /\ Codes(s) \in Seq(Seq(Nat)) /\ Len(Codes(s)) = Len(s)
         /\ DeltaEncode(s) = FlattenSeq(Codes(s)) /\ DeltaEncode(s) \in Seq(Nat)
<1>1. PICK n \in Nat : n = Len(s) /\ DOMAIN s = 1 .. n
  OBVIOUS
<1>2. \A i \in 1 .. n : VarintEncode(Gaps(s)[i]) \in Seq(Nat)
  BY <1>1, GapsAre, VarintIs
<1>3. Codes(s) \in Seq(Seq(Nat)) /\ Len(Codes(s)) = n
  BY <1>1, <1>2 DEF Codes
<1>4. DeltaEncode(s) = FlattenSeq(Codes(s))
  <2>1. \A i \in 1 .. n : Gaps(s)[i] = IF i = 1 THEN s[i] ELSE s[i] - s[i - 1]
    BY <1>1 DEF Gaps
  <2>2. Codes(s) = [i \in DOMAIN s |-> VarintEncode(IF i = 1 THEN s[i] ELSE s[i] - s[i - 1])]
    BY <1>1, <2>1 DEF Codes
  <2> QED
    BY <2>2 DEF DeltaEncode
<1> QED
  BY <1>1, <1>3, <1>4, FlattenSeqHolds

LEMMA ListImageIs ==
  ASSUME NEW s \in Seq(Ids), IsInjective(s)
  PROVE  /\ ListImage(s) \in Seq(Nat)
         /\ ListImage(s) = <<Len(s)>> \o DeltaEncode(Ascending(s))
<1>1. DeltaEncode(Ascending(s)) \in Seq(Nat)
  BY AscendingIs, DeltaEncodeIs
<1>2. <<Len(s)>> \in Seq(Nat)
  OBVIOUS
<1> QED
  BY <1>1, <1>2, HoldsConcat DEF ListImage

\* The lists by new ids.
LEMMA NewListsAre ==
  ASSUME NEW g, IsGraph(g), NEW b, Renumbers(b), NEW n \in Ids
  PROVE  /\ NewAdjacency(g, b)[n] \in Seq(Ids) /\ IsInjective(NewAdjacency(g, b)[n])
         /\ Len(NewAdjacency(g, b)[n]) <= MaxM0
         /\ NewVectors(g, b)[n] = g.vectors[b.new_to_old[n]]
         /\ NewVectors(g, b)[n] \in Seq(Int) /\ Len(NewVectors(g, b)[n]) = Dim
<1>1. Nodes(g) = Ids
  BY DEF IsGraph, Nodes, Ids
<1>2. PICK o \in Ids : o = b.new_to_old[n]
  BY DEF Renumbers
<1>3. PICK old : old = g.adjacency0[o]
  OBVIOUS
<1>4. old \in Seq(Ids \ {o}) /\ IsInjective(old) /\ Len(old) <= MaxM0
  BY <1>3 DEF IsGraph
<1>5. PICK k \in Nat : k = Len(old) /\ DOMAIN old = 1 .. k
  BY <1>4
<1>6. \A i \in 1 .. k : old[i] \in Ids
  BY <1>4, <1>5
<1>7. PICK new : new = NewAdjacency(g, b)[n]
  OBVIOUS
<1>8. new = [i \in 1 .. k |-> b.old_to_new[old[i]]]
  BY <1>1, <1>2, <1>3, <1>5, <1>7 DEF NewAdjacency
<1>9. new \in Seq(Ids) /\ Len(new) = k
  BY <1>6, <1>8 DEF Renumbers
<1>10. IsInjective(new)
  <2>1. \A i, j \in 1 .. k : new[i] = new[j] => old[i] = old[j]
    BY <1>6, <1>8 DEF Renumbers
  <2>2. \A i, j \in 1 .. k : old[i] = old[j] => i = j
    BY <1>4, <1>5 DEF IsInjective
  <2> QED
    BY <1>8, <2>1, <2>2 DEF IsInjective
<1>11. NewVectors(g, b)[n] = g.vectors[o]
  BY <1>1, <1>2 DEF NewVectors
<1>12. g.vectors[o] \in Seq(Int) /\ Len(g.vectors[o]) = Dim
  BY DEF IsGraph
<1> QED
  BY <1>2, <1>4, <1>5, <1>7, <1>9, <1>10, <1>11, <1>12

LEMMA IsAList ==
  ASSUME NEW s \in Seq(Ids), IsInjective(s), Len(s) <= MaxM0
  PROVE  s \in Lists
<1>1. PICK n \in Nat : n = Len(s) /\ DOMAIN s = 1 .. n
  OBVIOUS
<1>2. n \in 0 .. MaxM0
  BY <1>1, PipelineAssumption
<1>3. s \in [1 .. n -> Ids]
  BY <1>1
<1> QED
  BY <1>2, <1>3 DEF Lists

-----------------------------------------------------------------------------
(* Packing nodes into blocks.                                              *)

\* What the first i sizes come to.
Sums(sizes, cum) ==
  /\ cum \in [0 .. Len(sizes) -> Nat] /\ cum[0] = 0
  /\ \A i \in 1 .. Len(sizes) : cum[i] = cum[i - 1] + sizes[i]

LEMMA SumsExist ==
  ASSUME NEW sizes \in Seq(Nat)
  PROVE  \E cum : Sums(sizes, cum)
<1>1. PICK n \in Nat : n = Len(sizes) /\ DOMAIN sizes = 1 .. n
  OBVIOUS
<1> DEFINE F == [i \in 1 .. n |-> [x \in Nat |-> x + sizes[i]]]
<1>2. F \in [1 .. n -> [Nat -> Nat]]
  <2>1. \A i \in 1 .. n : sizes[i] \in Nat
    BY <1>1
  <2> QED
    BY <2>1
<1>3. PICK f \in [0 .. n -> Nat] : Follows(f, n, 0, F)
  <2> HIDE DEF F
  <2> QED
    BY <1>2, RecursionExists
<1>4. f[0] = 0 /\ \A i \in 1 .. n : f[i] = f[i - 1] + sizes[i]
  <2>1. \A i \in 1 .. n : i - 1 \in 0 .. n /\ f[i - 1] \in Nat
    BY <1>3
  <2>2. \A i \in 1 .. n : \A x \in Nat : F[i][x] = x + sizes[i]
    OBVIOUS
  <2> HIDE DEF F
  <2> QED
    BY <1>3, <2>1, <2>2 DEF Follows
<1> QED
  BY <1>1, <1>3, <1>4 DEF Sums

\* The nodes of a block: consecutive ones, below i, that fit.
Part(p, i, header, room, cum) ==
  /\ p \in Seq(Nat) /\ Len(p) # 0
  /\ \A j \in 1 .. Len(p) : p[j] = p[1] + j - 1
  /\ p[1] + Len(p) <= i
  /\ header + (cum[p[1] + Len(p)] - cum[p[1]]) <= room

LEMMA NewPart ==
  ASSUME NEW sizes \in Seq(Nat), NEW cum, Sums(sizes, cum), NEW header \in Nat, NEW room \in Nat,
         NEW i \in 1 .. Len(sizes), header + sizes[i] <= room
  PROVE  Part(<<i - 1>>, i, header, room, cum)
<1>1. PICK p : p = <<i - 1>>
  OBVIOUS
<1>2. i - 1 \in Nat /\ i - 1 \in 0 .. Len(sizes) /\ (i - 1) + 1 = i /\ sizes[i] \in Nat
  OBVIOUS
<1>3. p \in Seq(Nat) /\ Len(p) = 1 /\ p[1] = i - 1
  BY <1>1, <1>2
<1>4. cum[i] - cum[i - 1] = sizes[i]
  <2>1. cum[i - 1] \in Nat /\ cum[i] = cum[i - 1] + sizes[i]
    BY <1>2 DEF Sums
  <2> QED
    BY <1>2, <2>1
<1>5. \A j \in 1 .. 1 : p[j] = p[1] + j - 1
  BY <1>3
<1> QED
  BY <1>1, <1>2, <1>3, <1>4, <1>5 DEF Part

LEMMA LongerPart ==
  ASSUME NEW sizes \in Seq(Nat), NEW cum, Sums(sizes, cum), NEW header \in Nat, NEW room \in Nat,
         NEW i \in 1 .. Len(sizes), NEW p, Part(p, i - 1, header, room, cum),
         p[1] + Len(p) = i - 1,
         header + (cum[i - 1] - cum[p[1]]) + sizes[i] <= room
  PROVE  /\ Part(Append(p, i - 1), i, header, room, cum)
         /\ Append(p, i - 1)[1] = p[1] /\ Len(Append(p, i - 1)) = Len(p) + 1
<1>1. PICK n \in Nat : n = Len(p) /\ n # 0
  BY DEF Part
<1>2. PICK q : q = Append(p, i - 1)
  OBVIOUS
<1>3. i - 1 \in Nat /\ i - 1 \in 0 .. Len(sizes) /\ i \in 0 .. Len(sizes) /\ (i - 1) + 1 = i
  OBVIOUS
<1>4. q \in Seq(Nat) /\ Len(q) = n + 1 /\ q[n + 1] = i - 1 /\ \A j \in 1 .. n : q[j] = p[j]
  BY <1>1, <1>2, <1>3 DEF Part
<1>5. q[1] = p[1] /\ p[1] \in Nat
  <2>1. 1 \in 1 .. n
    BY <1>1
  <2>2. p \in Seq(Nat) /\ Len(p) = n
    BY <1>1 DEF Part
  <2>3. p[1] \in Nat
    BY <2>1, <2>2
  <2> QED
    BY <1>4, <2>1, <2>3
<1>6. \A j \in 1 .. n + 1 : q[j] = q[1] + j - 1
  <2>1. \A j \in 1 .. n : q[j] = q[1] + j - 1
    BY <1>1, <1>4, <1>5 DEF Part
  <2>2. q[n + 1] = q[1] + (n + 1) - 1
    BY <1>1, <1>3, <1>4, <1>5
  <2>3. \A j \in 1 .. n + 1 : j \in 1 .. n \/ j = n + 1
    BY <1>1
  <2> QED
    BY <2>1, <2>2, <2>3
<1>7. q[1] + Len(q) = i
  <2>1. PICK a \in Nat : a = p[1]
    BY <1>5
  <2>2. a + n = i - 1
    BY <1>1, <2>1
  <2>3. a + (n + 1) = i
    BY <2>2
  <2> QED
    BY <1>4, <1>5, <2>1, <2>3
<1>8. header + (cum[i] - cum[q[1]]) <= room
  <2>1. PICK a \in Nat : a = cum[i - 1]
    BY <1>3 DEF Sums
  <2>2. PICK z \in Nat : z = sizes[i]
    OBVIOUS
  <2>3. PICK c \in Nat : c = cum[p[1]]
    <3>1. p[1] \in 0 .. Len(sizes)
      BY <1>1, <1>5
    <3> QED
      BY <3>1 DEF Sums
  <2>4. cum[i] = a + z
    BY <2>1, <2>2 DEF Sums
  <2>5. header + (a - c) + z <= room
    BY <2>1, <2>2, <2>3
  <2>6. header + ((a + z) - c) <= room
    BY <2>5
  <2> QED
    BY <1>5, <2>3, <2>4, <2>6
<1>9. Part(q, i, header, room, cum)
  <2>1. header + (cum[q[1] + Len(q)] - cum[q[1]]) <= room
    BY <1>7, <1>8
  <2>2. Len(q) # 0 /\ q[1] + Len(q) <= i
    BY <1>1, <1>4, <1>7
  <2>3. \A j \in 1 .. Len(q) : q[j] = q[1] + j - 1
    BY <1>4, <1>6
  <2> QED
    BY <1>4, <2>1, <2>2, <2>3 DEF Part
<1> QED
  BY <1>1, <1>2, <1>4, <1>5, <1>9

\* The blocks of the first i nodes.
Packed(ps, i, header, room, cum) ==
  /\ ps \in Seq(Seq(Nat)) /\ Len(ps) <= i
  /\ \A k \in 1 .. Len(ps) : Part(ps[k], i, header, room, cum)
  /\ \A k, l \in 1 .. Len(ps) : k < l => ps[k][1] + Len(ps[k]) <= ps[l][1]
  /\ \A x \in 0 .. i - 1 : \E k \in 1 .. Len(ps) : ps[k][1] <= x /\ x < ps[k][1] + Len(ps[k])

\* The last of them, and what it has used.
LastIs(ps, used, i, header, cum) ==
  ps # <<>> => /\ ps[Len(ps)][1] + Len(ps[Len(ps)]) = i
               /\ used = header + (cum[i] - cum[ps[Len(ps)][1]])

LEMMA PartStays ==
  ASSUME NEW p, NEW i \in Nat, NEW header, NEW room, NEW cum, Part(p, i - 1, header, room, cum)
  PROVE  Part(p, i, header, room, cum)
<1>1. p[1] \in Nat /\ Len(p) \in Nat
  BY DEF Part
<1> QED
  BY <1>1 DEF Part

\* A block more.
LEMMA OpensBlock ==
  ASSUME NEW sizes \in Seq(Nat), NEW cum, Sums(sizes, cum), NEW header \in Nat, NEW room \in Nat,
         NEW i \in 1 .. Len(sizes), header + sizes[i] <= room,
         NEW ps, Packed(ps, i - 1, header, room, cum)
  PROVE  /\ Packed(Append(ps, <<i - 1>>), i, header, room, cum)
         /\ LastIs(Append(ps, <<i - 1>>), header + sizes[i], i, header, cum)
<1>1. PICK m \in Nat : m = Len(ps) /\ m <= i - 1
  BY DEF Packed
<1>2. PICK p : p = <<i - 1>>
  OBVIOUS
<1>3. PICK qs : qs = Append(ps, p)
  OBVIOUS
<1>4. Part(p, i, header, room, cum) /\ p[1] = i - 1 /\ Len(p) = 1 /\ i - 1 \in Nat /\ i \in Nat
  BY <1>2, NewPart
<1>5. qs \in Seq(Seq(Nat)) /\ Len(qs) = m + 1 /\ qs[m + 1] = p /\ \A k \in 1 .. m : qs[k] = ps[k]
  BY <1>1, <1>3, <1>4 DEF Packed, Part
<1>6. \A k \in 1 .. m + 1 : k \in 1 .. m \/ k = m + 1
  BY <1>1
<1>7. \A k \in 1 .. m : /\ Part(ps[k], i - 1, header, room, cum)
                        /\ ps[k][1] \in Nat /\ Len(ps[k]) \in Nat /\ ps[k][1] + Len(ps[k]) <= i - 1
  <2>1. TAKE k \in 1 .. m
  <2>2. Part(ps[k], i - 1, header, room, cum)
    BY <1>1 DEF Packed
  <2>3. PICK q : q = ps[k]
    OBVIOUS
  <2>4. Part(q, i - 1, header, room, cum)
    BY <2>2, <2>3
  <2>5. q[1] \in Nat /\ Len(q) \in Nat /\ q[1] + Len(q) <= i - 1
    BY <2>4 DEF Part
  <2> QED
    BY <2>2, <2>3, <2>5
<1>8. \A k \in 1 .. m + 1 : Part(qs[k], i, header, room, cum)
  BY <1>4, <1>5, <1>6, <1>7, PartStays
<1>9. \A k, l \in 1 .. m + 1 : k < l => qs[k][1] + Len(qs[k]) <= qs[l][1]
  <2>1. ASSUME NEW k \in 1 .. m + 1, NEW l \in 1 .. m + 1, k < l
        PROVE  qs[k][1] + Len(qs[k]) <= qs[l][1]
    <3>1. k \in 1 .. m
      BY <1>1, <2>1
    <3>2. CASE l = m + 1
      BY <1>4, <1>5, <1>7, <3>1, <3>2
    <3>3. CASE l \in 1 .. m
      BY <1>1, <1>5, <2>1, <3>1, <3>3 DEF Packed
    <3> QED
      BY <1>6, <3>2, <3>3
  <2> QED
    BY <2>1
<1>10. \A x \in 0 .. i - 1 : \E k \in 1 .. m + 1 : qs[k][1] <= x /\ x < qs[k][1] + Len(qs[k])
  <2>1. TAKE x \in 0 .. i - 1
  <2>2. CASE x = i - 1
    <3>1. m + 1 \in 1 .. m + 1
      BY <1>1
    <3>2. p[1] <= x /\ x < p[1] + Len(p)
      BY <1>4, <2>2
    <3> QED
      BY <1>5, <3>1, <3>2
  <2>3. CASE x # i - 1
    <3>1. x \in 0 .. (i - 1) - 1
      BY <2>3
    <3>2. PICK k \in 1 .. m : ps[k][1] <= x /\ x < ps[k][1] + Len(ps[k])
      BY <1>1, <3>1 DEF Packed
    <3>3. k \in 1 .. m + 1
      BY <1>1
    <3> QED
      BY <1>5, <3>2, <3>3
  <2> QED
    BY <2>2, <2>3
<1>11. m + 1 <= i
  BY <1>1
<1>12. LastIs(qs, header + sizes[i], i, header, cum)
  <2>1. i - 1 \in 0 .. Len(sizes) /\ cum[i - 1] \in Nat /\ sizes[i] \in Nat
        /\ cum[i] = cum[i - 1] + sizes[i]
    <3>1. i - 1 \in 0 .. Len(sizes) /\ sizes[i] \in Nat
      OBVIOUS
    <3> QED
      BY <3>1 DEF Sums
  <2>2. cum[i] - cum[i - 1] = sizes[i]
    BY <2>1
  <2>3. p[1] + Len(p) = i
    BY <1>4
  <2> QED
    BY <1>4, <1>5, <2>2, <2>3 DEF LastIs
<1> QED
  BY <1>2, <1>3, <1>5, <1>8, <1>9, <1>10, <1>11, <1>12 DEF Packed

\* A node more in the last block.
LEMMA FillsBlock ==
  ASSUME NEW sizes \in Seq(Nat), NEW cum, Sums(sizes, cum), NEW header \in Nat, NEW room \in Nat,
         NEW i \in 1 .. Len(sizes), NEW ps, Packed(ps, i - 1, header, room, cum), ps # <<>>,
         NEW used, LastIs(ps, used, i - 1, header, cum), used + sizes[i] <= room
  PROVE  /\ Packed([ps EXCEPT ![Len(ps)] = Append(@, i - 1)], i, header, room, cum)
         /\ LastIs([ps EXCEPT ![Len(ps)] = Append(@, i - 1)], used + sizes[i], i, header, cum)
<1>1. ps \in Seq(Seq(Nat))
  BY DEF Packed
<1>2. PICK m \in Nat : m = Len(ps) /\ m # 0 /\ DOMAIN ps = 1 .. m
  BY <1>1
<1>3. m \in 1 .. m /\ m <= i - 1
  BY <1>2 DEF Packed
<1>4. PICK p \in Seq(Nat) : p = ps[m]
  BY <1>1, <1>2, <1>3
<1>5. Part(p, i - 1, header, room, cum)
  BY <1>2, <1>3, <1>4 DEF Packed
<1>6. p[1] + Len(p) = i - 1 /\ used = header + (cum[i - 1] - cum[p[1]])
  BY <1>2, <1>4 DEF LastIs
<1>7. PICK q : q = Append(p, i - 1)
  OBVIOUS
<1>8. Part(q, i, header, room, cum) /\ q[1] = p[1] /\ Len(q) = Len(p) + 1
  BY <1>5, <1>6, <1>7, LongerPart
<1>9. PICK qs : qs = [ps EXCEPT ![Len(ps)] = Append(@, i - 1)]
  OBVIOUS
<1>10. qs \in Seq(Seq(Nat)) /\ Len(qs) = m /\ qs[m] = q /\ \A k \in 1 .. m : k # m => qs[k] = ps[k]
  <2>1. q \in Seq(Nat)
    BY <1>8 DEF Part
  <2>2. qs = [ps EXCEPT ![m] = q]
    BY <1>2, <1>4, <1>7, <1>9
  <2> QED
    BY <1>1, <1>2, <1>3, <2>1, <2>2
<1>11. \A k \in 1 .. m : /\ Part(ps[k], i - 1, header, room, cum)
                         /\ ps[k][1] \in Nat /\ Len(ps[k]) \in Nat /\ ps[k][1] + Len(ps[k]) <= i - 1
  <2>1. TAKE k \in 1 .. m
  <2>2. Part(ps[k], i - 1, header, room, cum)
    BY <1>2 DEF Packed
  <2>3. PICK r : r = ps[k]
    OBVIOUS
  <2>4. Part(r, i - 1, header, room, cum)
    BY <2>2, <2>3
  <2>5. r[1] \in Nat /\ Len(r) \in Nat /\ r[1] + Len(r) <= i - 1
    BY <2>4 DEF Part
  <2> QED
    BY <2>2, <2>3, <2>5
<1>12. \A k \in 1 .. m : Part(qs[k], i, header, room, cum)
  <2>1. i \in Nat
    OBVIOUS
  <2> QED
    BY <1>8, <1>10, <1>11, <2>1, PartStays
<1>13. \A k, l \in 1 .. m : k < l => qs[k][1] + Len(qs[k]) <= qs[l][1]
  <2>1. ASSUME NEW k \in 1 .. m, NEW l \in 1 .. m, k < l
        PROVE  qs[k][1] + Len(qs[k]) <= qs[l][1]
    <3>1. k # m /\ ps[k][1] + Len(ps[k]) <= ps[l][1]
      BY <1>2, <2>1 DEF Packed
    <3>2. qs[l][1] = ps[l][1]
      BY <1>4, <1>8, <1>10
    <3> QED
      BY <1>10, <3>1, <3>2
  <2> QED
    BY <2>1
<1>14. p[1] \in Nat /\ Len(p) \in Nat /\ q[1] + Len(q) = i
  <2>1. p[1] \in Nat /\ Len(p) \in Nat
    BY <1>3, <1>4, <1>11
  <2>2. PICK a \in Nat, b \in Nat : a = p[1] /\ b = Len(p)
    BY <2>1
  <2>3. a + b = i - 1
    BY <1>6, <2>2
  <2>4. a + (b + 1) = i
    BY <2>3
  <2> QED
    BY <1>8, <2>1, <2>2, <2>4
<1>15. \A x \in 0 .. i - 1 : \E k \in 1 .. m : qs[k][1] <= x /\ x < qs[k][1] + Len(qs[k])
  <2>1. TAKE x \in 0 .. i - 1
  <2>2. CASE x = i - 1
    <3>1. q[1] <= x /\ x < q[1] + Len(q)
      <4>1. PICK a \in Nat, b \in Nat : a = p[1] /\ b = Len(p)
        BY <1>14
      <4>2. a + b = i - 1
        BY <1>6, <4>1
      <4>3. a <= x /\ x < i
        BY <2>2, <4>2
      <4> QED
        BY <1>8, <1>14, <4>1, <4>3
    <3> QED
      BY <1>3, <1>10, <3>1
  <2>3. CASE x # i - 1
    <3>1. x \in 0 .. (i - 1) - 1
      BY <2>3
    <3>2. PICK k \in 1 .. m : ps[k][1] <= x /\ x < ps[k][1] + Len(ps[k])
      BY <1>2, <3>1 DEF Packed
    <3>3. CASE k # m
      BY <1>10, <3>2, <3>3
    <3>4. CASE k = m
      <4>1. q[1] <= x /\ x < q[1] + Len(q)
        BY <1>4, <1>6, <1>8, <1>14, <3>2, <3>4, <2>1
      <4> QED
        BY <1>3, <1>10, <4>1
    <3> QED
      BY <3>3, <3>4
  <2> QED
    BY <2>2, <2>3
<1>16. LastIs(qs, used + sizes[i], i, header, cum)
  <2>1. i - 1 \in 0 .. Len(sizes) /\ sizes[i] \in Nat /\ p[1] \in 0 .. Len(sizes)
    <3>1. i - 1 \in 0 .. Len(sizes) /\ sizes[i] \in Nat
      OBVIOUS
    <3>2. PICK a \in Nat, b \in Nat : a = p[1] /\ b = Len(p)
      BY <1>14
    <3>3. a + b = i - 1
      BY <1>6, <3>2
    <3>4. a \in 0 .. Len(sizes)
      BY <3>3
    <3> QED
      BY <3>1, <3>2, <3>4
  <2>2. PICK a \in Nat, z \in Nat, c \in Nat : a = cum[i - 1] /\ z = sizes[i] /\ c = cum[p[1]]
    BY <2>1 DEF Sums
  <2>3. cum[i] = a + z
    BY <2>2 DEF Sums
  <2>4. used + z = header + ((a + z) - c)
    <3>1. used = header + (a - c)
      BY <1>6, <2>2
    <3> QED
      BY <3>1
  <2> QED
    BY <1>8, <1>10, <1>14, <2>2, <2>3, <2>4 DEF LastIs
<1>17. m <= i
  BY <1>3
<1> QED
  BY <1>9, <1>10, <1>12, <1>13, <1>15, <1>16, <1>17 DEF Packed

LEMMA PackIs ==
  ASSUME NEW sizes \in Seq(Nat), NEW cum, Sums(sizes, cum), NEW header \in Nat, NEW room \in Nat,
         \A i \in 1 .. Len(sizes) : header + sizes[i] <= room
  PROVE  Packed(Pack(sizes, header, room), Len(sizes), header, room, cum)
<1>1. PICK n \in Nat : n = Len(sizes) /\ DOMAIN sizes = 1 .. n
  OBVIOUS
<1> DEFINE U == [plans : Seq(Seq(Nat)), used : Nat]
           put(s, i) ==
             IF s.plans = <<>> \/ s.used + sizes[i] > room
             THEN [ plans |-> Append(s.plans, <<i - 1>>), used |-> header + sizes[i] ]
             ELSE [ plans |-> [s.plans EXCEPT ![Len(s.plans)] = Append(@, i - 1)],
                    used  |-> s.used + sizes[i] ]
           none == [plans |-> <<>>, used |-> 0]
           F == [i \in 1 .. n |-> [s \in U |-> put(s, i)]]
           Rule(f) == f = [i \in 0 .. n |-> IF i = 0 THEN none ELSE put(f[i - 1], i)]
<1>2. Pack(sizes, header, room) = (CHOOSE f : Rule(f))[n].plans
  BY <1>1 DEF Pack
<1>3. \A i \in 1 .. n : sizes[i] \in Nat /\ i - 1 \in Nat /\ i - 1 \in 0 .. n /\ i \in 0 .. n
  BY <1>1
<1>4. ASSUME NEW i \in 1 .. n, NEW s \in U
      PROVE  put(s, i) \in U
  <2>1. PICK ps \in Seq(Seq(Nat)) : ps = s.plans
    OBVIOUS
  <2>2. PICK u \in Nat : u = s.used
    OBVIOUS
  <2>3. Append(ps, <<i - 1>>) \in Seq(Seq(Nat)) /\ header + sizes[i] \in Nat /\ u + sizes[i] \in Nat
    BY <1>3
  <2>4. ps # <<>> => [ps EXCEPT ![Len(ps)] = Append(@, i - 1)] \in Seq(Seq(Nat))
    <3>1. HAVE ps # <<>>
    <3>2. Len(ps) \in 1 .. Len(ps) /\ ps[Len(ps)] \in Seq(Nat)
      BY <3>1
    <3>3. Append(ps[Len(ps)], i - 1) \in Seq(Nat)
      BY <1>3, <3>2
    <3> QED
      BY <3>2, <3>3
  <2> QED
    BY <2>1, <2>2, <2>3, <2>4
<1>5. none \in U
  OBVIOUS
<1>6. F \in [1 .. n -> [U -> U]]
  <2> HIDE DEF put, U
  <2> QED
    BY <1>4
<1>7. PICK h \in [0 .. n -> U] : h[0] = none /\ \A i \in 1 .. n : h[i] = put(h[i - 1], i)
  <2>1. PICK f \in [0 .. n -> U] : Follows(f, n, none, F)
    <3> HIDE DEF F, U, none
    <3> QED
      BY <1>5, <1>6, RecursionExists
  <2>2. \A i \in 1 .. n : f[i] = put(f[i - 1], i)
    <3> HIDE DEF put, U, none
    <3> QED
      BY <1>3, <2>1 DEF Follows
  <2> HIDE DEF put, U, none, F
  <2> QED
    BY <2>1, <2>2 DEF Follows
<1>8. Rule(h)
  <2> HIDE DEF put, U, none
  <2>1. h = [i \in 0 .. n |-> h[i]]
    OBVIOUS
  <2>2. \A i \in 0 .. n : h[i] = IF i = 0 THEN none ELSE put(h[i - 1], i)
    <3>1. \A i \in 0 .. n : i # 0 => i \in 1 .. n
      OBVIOUS
    <3> QED
      BY <1>7, <3>1
  <2> QED
    BY <2>1, <2>2
<1> DEFINE at == CHOOSE f : Rule(f)
<1>9. Rule(at)
  BY <1>8
<1> HIDE DEF at
<1>10. at[0] = none /\ \A i \in 1 .. n : at[i] = put(at[i - 1], i)
  <2> HIDE DEF put, none
  <2>1. \A i \in 1 .. n : i # 0
    OBVIOUS
  <2>2. 0 \in 0 .. n
    OBVIOUS
  <2> QED
    BY <1>3, <1>9, <2>1, <2>2
<1> DEFINE Good(s, i) == /\ s \in U /\ Packed(s.plans, i, header, room, cum)
                         /\ LastIs(s.plans, s.used, i, header, cum)
           Ok == [i \in 0 .. n |-> { s \in U : Good(s, i) }]
<1>11. at[0] \in Ok[0]
  <2>1. Packed(<<>>, 0, header, room, cum) /\ LastIs(<<>>, 0, 0, header, cum)
    BY DEF Packed, LastIs
  <2>2. none.plans = <<>> /\ none.used = 0
    OBVIOUS
  <2>3. Good(none, 0)
    BY <1>5, <2>1, <2>2
  <2> HIDE DEF none, U, Good
  <2> QED
    BY <1>5, <1>10, <2>3
<1>12. ASSUME NEW i \in 1 .. n, NEW s \in U, Good(s, i - 1)
       PROVE  Good(put(s, i), i)
  <2>1. PICK ps : ps = s.plans
    OBVIOUS
  <2>2. PICK u \in Nat : u = s.used
    OBVIOUS
  <2>3. Packed(ps, i - 1, header, room, cum) /\ LastIs(ps, u, i - 1, header, cum)
    BY <1>12, <2>1, <2>2
  <2>4. i \in 1 .. Len(sizes) /\ header + sizes[i] <= room /\ sizes[i] \in Nat
    BY <1>1, <1>3
  <2>5. put(s, i) \in U
    BY <1>4
  <2>6. CASE ps = <<>> \/ u + sizes[i] > room
    <3>1. put(s, i).plans = Append(ps, <<i - 1>>) /\ put(s, i).used = header + sizes[i]
      BY <2>1, <2>2, <2>6
    <3> HIDE DEF put, U
    <3> QED
      BY <2>3, <2>4, <2>5, <3>1, OpensBlock
  <2>7. CASE ~(ps = <<>> \/ u + sizes[i] > room)
    <3>1. /\ put(s, i).plans = [ps EXCEPT ![Len(ps)] = Append(@, i - 1)]
          /\ put(s, i).used = u + sizes[i]
      BY <2>1, <2>2, <2>7
    <3> HIDE DEF put, U
    <3>2. PICK z \in Nat : z = sizes[i]
      BY <2>4
    <3>3. u + sizes[i] <= room /\ ps # <<>>
      BY <2>7, <3>2
    <3>4. PICK qs : qs = [ps EXCEPT ![Len(ps)] = Append(@, i - 1)]
      OBVIOUS
    <3>5. Packed(qs, i, header, room, cum) /\ LastIs(qs, u + sizes[i], i, header, cum)
      BY <2>3, <2>4, <3>3, <3>4, FillsBlock
    <3> QED
      BY <2>5, <3>1, <3>4, <3>5
  <2> HIDE DEF put, U, Good
  <2> QED
    BY <2>6, <2>7
<1>13. \A i \in 1 .. n : at[i - 1] \in Ok[i - 1] => at[i] \in Ok[i]
  <2>1. TAKE i \in 1 .. n
  <2>2. HAVE at[i - 1] \in Ok[i - 1]
  <2> HIDE DEF Good, put, U
  <2>3. at[i - 1] \in U /\ Good(at[i - 1], i - 1)
    BY <1>3, <2>2
  <2>4. Good(put(at[i - 1], i), i)
    BY <1>12, <2>3
  <2>5. put(at[i - 1], i) \in U
    BY <1>4, <2>3
  <2> QED
    BY <1>3, <1>10, <2>4, <2>5
<1>14. \A i \in 0 .. n : at[i] \in Ok[i]
  <2> HIDE DEF Ok
  <2> QED
    BY <1>11, <1>13, StepsKeep
<1>15. Good(at[n], n)
  <2>1. n \in 0 .. n
    OBVIOUS
  <2> HIDE DEF Good, U
  <2> QED
    BY <1>14, <2>1
<1> QED
  BY <1>1, <1>2, <1>15 DEF at

-----------------------------------------------------------------------------
(* Blocks and their files.                                                 *)

LEMMA StartsWith ==
  ASSUME NEW A, NEW f \in Seq(A), NEW s \in Seq(A), Holds(f, 0, s)
  PROVE  /\ Len(s) <= Len(f) /\ SubSeq(f, 1, Len(s)) = s
         /\ \A i \in 1 .. Len(s) : f[i] = s[i]
<1>1. PICK n \in Nat : n = Len(s)
  OBVIOUS
<1>2. SubSeq(f, 0 + 1, 0 + n) = s
  BY <1>1, HoldsSubSeq
<1>3. 0 + 1 = 1 /\ 0 + n = n
  OBVIOUS
<1>4. SubSeq(f, 1, n) = s
  BY <1>2, <1>3
<1>5. \A i \in 1 .. n : f[0 + i] = s[i] /\ 0 + i = i
  BY <1>1 DEF Holds
<1>6. 0 + n <= Len(f)
  BY <1>1 DEF Holds
<1> QED
  BY <1>1, <1>4, <1>5, <1>6

LEMMA PaddedIs ==
  ASSUME NEW s \in Seq(Int), NEW room \in Nat, Len(s) <= room
  PROVE  /\ Padded(s, room) \in Seq(Int) /\ Len(Padded(s, room)) = room
         /\ Holds(Padded(s, room), 0, s)
<1>1. PICK m \in Nat : m = room - Len(s) /\ Len(s) + m = room
  <2>1. room - Len(s) \in Nat /\ Len(s) + (room - Len(s)) = room
    OBVIOUS
  <2> QED
    BY <2>1
<1>2. Zeros(m) \in Seq(Int) /\ Len(Zeros(m)) = m
  BY DEF Zeros
<1>3. Padded(s, room) = s \o Zeros(m)
  BY <1>1 DEF Padded
<1> QED
  BY <1>1, <1>2, <1>3, HoldsConcat

FileHeader(version, room, n) == Padded(<<MAGIC_BLOCKS, version, room, n>>, Page)

LEMMA FileHeaderIs ==
  ASSUME NEW version \in Int, NEW room \in Nat, NEW n \in Nat
  PROVE  /\ FileHeader(version, room, n) \in Seq(Int) /\ Len(FileHeader(version, room, n)) = Page
         /\ FileHeader(version, room, n)[3] = room /\ FileHeader(version, room, n)[4] = n
<1>1. PICK h : h = <<MAGIC_BLOCKS, version, room, n>>
  OBVIOUS
<1>2. h \in Seq(Int) /\ Len(h) = 4 /\ h[3] = room /\ h[4] = n
  BY <1>1 DEF MAGIC_BLOCKS
<1>3. Page \in Nat /\ Len(h) <= Page
  BY <1>2, FileConstants
<1>4. PICK f : f = FileHeader(version, room, n)
  OBVIOUS
<1>5. f \in Seq(Int) /\ Len(f) = Page /\ Holds(f, 0, h)
  BY <1>1, <1>2, <1>3, <1>4, PaddedIs DEF FileHeader
<1>6. f[0 + 3] = h[3] /\ f[0 + 4] = h[4]
  BY <1>2, <1>5 DEF Holds
<1> QED
  BY <1>2, <1>4, <1>5, <1>6

\* A file of a header and blocks of one size: block and file are found again.
EvenBlocks(bs, room) == bs \in Seq(Seq(Int)) /\ \A k \in 1 .. Len(bs) : Len(bs[k]) = room

IsFileOf(f, version, bs, room) == f = FileHeader(version, room, Len(bs)) \o FlattenSeq(bs)

Found(f, version, bs, room) ==
  /\ f \in Seq(Int) /\ BlockSize(f) = room /\ NumBlocks(f) = Len(bs) /\ Len(bs) \in Nat
  /\ Len(f) = Page + Len(bs) * room
  /\ SubSeq(f, 1, Page) = FileHeader(version, room, Len(bs))
  /\ \A b \in 0 .. Len(bs) - 1 : /\ b + 1 \in 1 .. Len(bs)
                                 /\ BlockOf(f, b) = bs[b + 1]
                                 /\ Holds(f, Page + b * room, bs[b + 1])

LEMMA BlocksFound ==
  ASSUME NEW version \in Int, NEW room \in Nat, NEW bs, EvenBlocks(bs, room), NEW f,
         IsFileOf(f, version, bs, room)
  PROVE  Found(f, version, bs, room)
<1>1. PICK n \in Nat : /\ n = Len(bs) /\ bs \in Seq(Seq(Int))
                      /\ \A k \in 1 .. Len(bs) : Len(bs[k]) = room
  BY DEF EvenBlocks
<1>2. PICK h \in Seq(Int) : h = FileHeader(version, room, n) /\ Len(h) = Page /\ h[3] = room /\ h[4] = n
  BY FileHeaderIs
<1>3. PICK c \in Seq(Int) : /\ c = FlattenSeq(bs) /\ Len(c) = n * room
                            /\ \A k \in 1 .. n : Holds(c, (k - 1) * room, bs[k])
  BY <1>1, EvenParts
<1>4. f = h \o c
  BY <1>1, <1>2, <1>3 DEF IsFileOf
<1>5. f \in Seq(Int) /\ Len(f) = Page + n * room /\ Holds(f, 0, h) /\ Holds(f, Page, c)
  <2>1. /\ h \o c \in Seq(Int) /\ Len(h \o c) = Len(h) + Len(c)
        /\ Holds(h \o c, 0, h) /\ Holds(h \o c, Len(h), c)
    BY HoldsConcat
  <2> QED
    BY <1>2, <1>3, <1>4, <2>1
<1>6. f[3] = room /\ f[4] = n
  <2>1. 3 \in 1 .. Len(h) /\ 4 \in 1 .. Len(h)
    BY <1>2, FileConstants
  <2>2. f[3] = h[3] /\ f[4] = h[4]
    BY <1>2, <1>5, <2>1, StartsWith
  <2> QED
    BY <1>2, <2>2
<1>7. SubSeq(f, 1, Page) = h
  <2>1. SubSeq(f, 1, Len(h)) = h
    BY <1>2, <1>5, StartsWith
  <2> QED
    BY <1>2, <2>1
<1>8. ASSUME NEW b \in 0 .. n - 1
      PROVE  b + 1 \in 1 .. n /\ BlockOf(f, b) = bs[b + 1] /\ Holds(f, Page + b * room, bs[b + 1])
  <2>1. b + 1 \in 1 .. n /\ (b + 1) - 1 = b
    BY <1>1
  <2>2. PICK s \in Seq(Int) : s = bs[b + 1] /\ Len(s) = room
    BY <1>1, <2>1
  <2>3. Holds(c, b * room, s)
    BY <1>3, <2>1, <2>2
  <2>4. Holds(f, Page + b * room, s)
    BY <1>3, <1>5, <2>2, <2>3, HoldsPart
  <2>5. PICK a \in Nat : a = b * room
    <3>1. b \in Nat
      OBVIOUS
    <3>2. b * room \in Nat
      BY <3>1
    <3> QED
      BY <3>2
  <2>6. SubSeq(f, (Page + a) + 1, (Page + a) + Len(s)) = s
    BY <1>5, <2>2, <2>4, <2>5, HoldsSubSeq
  <2>7. (b + 1) * room = a + room
    BY <2>5
  <2>8. Page + (b + 1) * room = (Page + a) + room
    BY <2>5, <2>7, FileConstants
  <2>9. BlockOf(f, b) = SubSeq(f, (Page + a) + 1, (Page + a) + room)
    BY <1>6, <2>5, <2>8 DEF BlockOf, ReadBlock, BlockSize
  <2> QED
    BY <2>1, <2>2, <2>4, <2>6, <2>9
<1> QED
  BY <1>1, <1>2, <1>5, <1>6, <1>7, <1>8 DEF BlockSize, NumBlocks, Found

BlocksFit(blocks, room) ==
  blocks \in Seq(Seq(Int)) /\ \A k \in 1 .. Len(blocks) : Len(blocks[k]) <= room

LEMMA EvenBlocksAre ==
  ASSUME NEW room \in Nat, NEW blocks, BlocksFit(blocks, room), NEW n, n = Len(blocks),
         NEW bs, bs = [k \in 1 .. n |-> Padded(blocks[k], room)]
  PROVE  EvenBlocks(bs, room) /\ Len(bs) = n
<1>1. /\ n \in Nat /\ n = Len(blocks) /\ DOMAIN blocks = 1 .. n
      /\ \A k \in 1 .. n : blocks[k] \in Seq(Int) /\ Len(blocks[k]) <= room
  BY DEF BlocksFit
<1>2. \A k \in 1 .. n : Padded(blocks[k], room) \in Seq(Int) /\ Len(Padded(blocks[k], room)) = room
  <2>1. TAKE k \in 1 .. n
  <2>2. PICK s \in Seq(Int) : s = blocks[k] /\ Len(s) <= room
    BY <1>1
  <2> QED
    BY <2>2, PaddedIs
<1>3. bs \in Seq(Seq(Int)) /\ Len(bs) = n /\ \A k \in 1 .. n : bs[k] = Padded(blocks[k], room)
  BY <1>1, <1>2
<1>4. \A k \in 1 .. n : Len(bs[k]) = room
  BY <1>2, <1>3
<1> QED
  BY <1>1, <1>3, <1>4 DEF EvenBlocks

LEMMA ThreeParts ==
  ASSUME NEW h \in Seq(Int), NEW s \in Seq(Int), NEW t \in Seq(Int), NEW u, u = h \o s \o t
  PROVE  /\ u \in Seq(Int) /\ Len(u) = Len(h) + Len(s) + Len(t)
         /\ Holds(u, 0, h) /\ Holds(u, Len(h), s) /\ Holds(u, Len(h) + Len(s), t)
<1>1. PICK a \in Seq(Int) : /\ a = h \o s /\ Len(a) = Len(h) + Len(s)
                            /\ Holds(a, 0, h) /\ Holds(a, Len(h), s)
  BY HoldsConcat
<1>2. /\ a \o t \in Seq(Int) /\ Len(a \o t) = Len(a) + Len(t)
      /\ Holds(a \o t, Len(a), t)
  BY HoldsConcat
<1>3. Holds(a \o t, 0, h) /\ Holds(a \o t, Len(h), s)
  BY <1>1, HoldsMore
<1> QED
  BY <1>1, <1>2, <1>3

\* The vectors of a block.
LEMMA VectorsFlat ==
  ASSUME NEW vectors, \A n \in Ids : vectors[n] \in Seq(Int) /\ Len(vectors[n]) = Dim,
         NEW ids \in Seq(Ids)
  PROVE  /\ Flattened(vectors, ids) \in Seq(Int) /\ Len(Flattened(vectors, ids)) = Len(ids) * Dim
         /\ \A i \in 1 .. Len(ids) : Holds(Flattened(vectors, ids), (i - 1) * Dim, vectors[ids[i]])
<1>1. PICK n \in Nat : n = Len(ids) /\ DOMAIN ids = 1 .. n
  OBVIOUS
<1>2. PICK ss : ss = [i \in 1 .. n |-> vectors[ids[i]]]
  OBVIOUS
<1>3. \A i \in 1 .. n : vectors[ids[i]] \in Seq(Int) /\ Len(vectors[ids[i]]) = Dim
  <2>1. \A i \in 1 .. n : ids[i] \in Ids
    BY <1>1
  <2> QED
    BY <2>1
<1>4. ss \in Seq(Seq(Int)) /\ Len(ss) = n /\ \A i \in 1 .. n : Len(ss[i]) = Dim
  BY <1>2, <1>3
<1>5. Flattened(vectors, ids) = FlattenSeq(ss)
  BY <1>1, <1>2 DEF Flattened
<1> QED
  BY <1>1, <1>2, <1>4, <1>5, NIs, EvenParts

\* A block of three parts, padded.
Parts(base, room, u, h, s, t) ==
  /\ u \in Seq(Int) /\ Len(u) = Len(h) + Len(s) + Len(t) /\ Holds(base, 0, u)
  /\ base \in Seq(Int) /\ Len(base) = room
  /\ Holds(base, 0, h) /\ Holds(base, Len(h), s) /\ Holds(base, Len(h) + Len(s), t)
  /\ \A i \in 1 .. Len(h) : base[i] = h[i]
  /\ SubSeq(base, Len(h) + 1, Len(h) + Len(s)) = s

LEMMA HeadedBlock ==
  ASSUME NEW h \in Seq(Int), NEW s \in Seq(Int), NEW t \in Seq(Int), NEW room \in Nat,
         Len(h) + Len(s) + Len(t) <= room, NEW u, u = h \o s \o t, NEW base, base = Padded(u, room)
  PROVE  Parts(base, room, u, h, s, t)
<1>1. PICK blk \in Seq(Int) :
        /\ blk = u /\ Len(blk) = Len(h) + Len(s) + Len(t)
        /\ Holds(blk, 0, h) /\ Holds(blk, Len(h), s) /\ Holds(blk, Len(h) + Len(s), t)
  BY ThreeParts
<1>2. base \in Seq(Int) /\ Len(base) = room /\ Holds(base, 0, blk)
  BY <1>1, PaddedIs
<1>3. \A x \in Seq(Int) : \A a \in Nat : Holds(blk, a, x) => Holds(base, a, x)
  <2>1. TAKE x \in Seq(Int), a \in Nat
  <2>2. HAVE Holds(blk, a, x)
  <2>3. Holds(base, 0 + a, x)
    BY <1>2, <2>2, HoldsPart
  <2>4. 0 + a = a
    OBVIOUS
  <2> QED
    BY <2>3, <2>4
<1>4. Holds(base, 0, h) /\ Holds(base, Len(h), s) /\ Holds(base, Len(h) + Len(s), t)
  <2>1. 0 \in Nat /\ Len(h) \in Nat /\ Len(h) + Len(s) \in Nat
    OBVIOUS
  <2> QED
    BY <1>1, <1>3, <2>1
<1> QED
  <2>1. \A i \in 1 .. Len(h) : base[i] = h[i]
    BY <1>2, <1>4, StartsWith
  <2>2. SubSeq(base, Len(h) + 1, Len(h) + Len(s)) = s
    BY <1>2, <1>4, HoldsSubSeq
  <2> QED
    BY <1>1, <1>2, <1>4, <2>1, <2>2 DEF Parts

\* What a vec-only block holds.
VecBlock(base, ids, vectors) ==
  /\ base \in Seq(Int) /\ base[2] = Len(ids) /\ base[3] = 4 * (4 + Len(ids))
  /\ base[4] = FLAG_VEC_ONLY
  /\ SubSeq(base, 1, 4 + Len(ids)) = SubSeq(base, 1, 4) \o ids
  /\ Holds(base, 4, ids) /\ VecIds(base) = ids
  /\ Holds(base, 4 + Len(ids), Flattened(vectors, ids))

\* What a node takes in a block without its list.
VectorsFit(vectors) == \A n \in Ids : vectors[n] \in Seq(Int) /\ Len(vectors[n]) = Dim

LEMMA IdsAreInts == \A s \in Seq(Ids) : s \in Seq(Int)
<1>1. Ids \subseteq Int
  BY NIs DEF Ids
<1>2. TAKE s \in Seq(Ids)
<1>3. PICK n \in Nat : n = Len(s) /\ s \in [1 .. n -> Ids]
  OBVIOUS
<1>4. s \in [1 .. n -> Int]
  BY <1>1, <1>3
<1> QED
  BY <1>3, <1>4

LEMMA VecBlockIs ==
  ASSUME NEW vectors, VectorsFit(vectors), NEW ids \in Seq(Ids), NEW b \in Nat, NEW room \in Nat,
         4 + Len(ids) + Len(ids) * Dim <= room,
         NEW base, base = Padded(VecOnlyBlock(b, ids, vectors), room)
  PROVE  /\ VecOnlyBlock(b, ids, vectors) \in Seq(Int)
         /\ Len(VecOnlyBlock(b, ids, vectors)) = 4 + Len(ids) + Len(ids) * Dim
         /\ Len(base) = room /\ VecBlock(base, ids, vectors) /\ base[1] = b
<1>1. PICK n \in Nat : n = Len(ids) /\ ids \in Seq(Int)
  BY IdsAreInts
<1>2. PICK h : h = <<b, n, 4 * (4 + n), FLAG_VEC_ONLY>>
  OBVIOUS
<1>3. /\ h \in Seq(Int) /\ Len(h) = 4
      /\ h[1] = b /\ h[2] = n /\ h[3] = 4 * (4 + n) /\ h[4] = FLAG_VEC_ONLY
  BY <1>2 DEF FLAG_VEC_ONLY
<1>4. PICK v \in Seq(Int) : v = Flattened(vectors, ids) /\ Len(v) = n * Dim
  BY <1>1, VectorsFlat DEF VectorsFit
<1>5. PICK u : u = h \o ids \o v
  OBVIOUS
<1>6. VecOnlyBlock(b, ids, vectors) = u
  BY <1>1, <1>2, <1>4, <1>5 DEF VecOnlyBlock
<1>7. Len(h) + Len(ids) + Len(v) <= room /\ base = Padded(u, room)
  BY <1>1, <1>3, <1>4, <1>6
<1>8. /\ u \in Seq(Int) /\ Len(u) = Len(h) + Len(ids) + Len(v) /\ Holds(base, 0, u)
      /\ base \in Seq(Int) /\ Len(base) = room
      /\ Holds(base, Len(h), ids) /\ Holds(base, Len(h) + Len(ids), v) /\ Holds(base, 0, h)
      /\ \A i \in 1 .. Len(h) : base[i] = h[i]
      /\ SubSeq(base, Len(h) + 1, Len(h) + Len(ids)) = ids
  <2>1. Parts(base, room, u, h, ids, v)
    BY <1>1, <1>3, <1>4, <1>5, <1>7, HeadedBlock
  <2> QED
    BY <2>1 DEF Parts
<1>9. base[1] = b /\ base[2] = n /\ base[3] = 4 * (4 + n) /\ base[4] = FLAG_VEC_ONLY
  <2>1. \A i \in 1 .. 4 : base[i] = h[i]
    BY <1>3, <1>8
  <2> QED
    BY <1>3, <2>1
<1>10. VecIds(base) = ids
  BY <1>1, <1>3, <1>8, <1>9 DEF VecIds
<1>11. SubSeq(base, 1, 4 + n) = SubSeq(base, 1, 4) \o ids
  <2>1. SubSeq(base, 1, 4) = h
    BY <1>3, <1>8, StartsWith
  <2>2. PICK p : p = h \o ids
    OBVIOUS
  <2>3. p \in Seq(Int) /\ Len(p) = 4 + n
    <3>1. p \in Seq(Int) /\ Len(p) = Len(h) + Len(ids)
      BY <1>1, <1>3, <2>2, HoldsConcat
    <3> QED
      BY <1>1, <1>3, <3>1
  <2>4. Holds(p \o v, 0, p) /\ p \o v = u
    BY <1>4, <1>5, <2>2, <2>3, HoldsConcat
  <2>5. Holds(base, 0 + 0, p)
    BY <1>8, <2>3, <2>4, HoldsPart
  <2>6. 0 + 0 = 0
    OBVIOUS
  <2>7. SubSeq(base, 1, Len(p)) = p
    BY <1>8, <2>3, <2>5, <2>6, StartsWith
  <2> QED
    BY <2>1, <2>2, <2>3, <2>7
<1>12. Len(u) = 4 + n + n * Dim
  <2>1. PICK m : m = n * Dim
    OBVIOUS
  <2>2. Len(v) = m
    BY <1>4, <2>1
  <2> QED
    BY <1>1, <1>3, <1>8, <2>1, <2>2
<1> QED
  BY <1>1, <1>3, <1>4, <1>6, <1>8, <1>9, <1>10, <1>11, <1>12 DEF VecBlock

\* What a standard block holds.
StandardIs(base, ids, vectors, lists) ==
  /\ base \in Seq(Int) /\ base[2] = Len(ids)
  /\ base[3] = 4 * (6 + Len(ids)) /\ base[4] = 4 * (6 + Len(ids) + Len(ids) * Dim)
  /\ 6 + Len(ids) + Len(ids) * Dim <= Len(base)
  /\ base[5] = 1
  /\ Holds(base, 6, ids) /\ IdsOf(base) = ids
  /\ Holds(base, 6 + Len(ids), Flattened(vectors, ids))
  /\ Holds(base, 6 + Len(ids) + Len(ids) * Dim, FlattenSeq(lists))

\* What a block of lists holds.
PQIs(base, ids, lists) ==
  /\ base \in Seq(Int) /\ base[2] = Len(ids) /\ base[3] = 0 /\ base[4] = 4 * (6 + Len(ids))
  /\ base[5] = 1
  /\ Holds(base, 6, ids) /\ IdsOf(base) = ids
  /\ Holds(base, 6 + Len(ids), FlattenSeq(lists))

ListsOf(adjacency, ids) == [i \in DOMAIN ids |-> ListImage(adjacency[ids[i]])]

LEMMA StandardBlockIs ==
  ASSUME NEW vectors, VectorsFit(vectors), NEW ids \in Seq(Ids), NEW b \in Nat, NEW room \in Nat,
         NEW adjacency, NEW lists, lists = ListsOf(adjacency, ids), lists \in Seq(Seq(Int)),
         6 + Len(ids) + Len(ids) * Dim + Len(FlattenSeq(lists)) <= room,
         NEW base, base = Padded(StandardBlock(b, ids, vectors, adjacency), room)
  PROVE  /\ StandardBlock(b, ids, vectors, adjacency) \in Seq(Int)
         /\ Len(StandardBlock(b, ids, vectors, adjacency))
              = 6 + Len(ids) + Len(ids) * Dim + Len(FlattenSeq(lists))
         /\ StandardIs(base, ids, vectors, lists)
<1>1. PICK n \in Nat : n = Len(ids) /\ ids \in Seq(Int)
  BY IdsAreInts
<1>2. PICK h : h = <<b, n, 4 * (6 + n), 4 * ((6 + n) + n * Dim), FLAG_NEIGHBOR_DELTA_VARINT, 0>>
  OBVIOUS
<1>3. PICK m \in Nat : m = n * Dim
  BY NIs
<1>4. /\ h \in Seq(Int) /\ Len(h) = 6 /\ h[2] = n /\ h[3] = 4 * (6 + n) /\ h[4] = 4 * (6 + n + m)
      /\ h[5] = 1
  BY <1>2, <1>3 DEF FLAG_NEIGHBOR_DELTA_VARINT
<1>5. PICK v \in Seq(Int) : v = Flattened(vectors, ids) /\ Len(v) = m
  BY <1>1, <1>3, VectorsFlat DEF VectorsFit
<1>6. PICK l \in Seq(Int) : l = FlattenSeq(lists)
  BY FlattenSeqHolds
<1>7. PICK p \in Seq(Int) : p = h \o ids /\ Len(p) = 6 + n /\ Holds(p, 0, h) /\ Holds(p, 6, ids)
  BY <1>1, <1>4, HoldsConcat
<1>8. PICK u : u = p \o v \o l
  OBVIOUS
<1>9. StandardBlock(b, ids, vectors, adjacency) = u
  <2>1. StandardBlock(b, ids, vectors, adjacency) = h \o ids \o v \o l
    BY <1>1, <1>2, <1>5, <1>6 DEF StandardBlock, ListsOf
  <2> QED
    BY <1>7, <1>8, <2>1
<1>10. Len(p) + Len(v) + Len(l) <= room /\ base = Padded(u, room)
  BY <1>1, <1>3, <1>5, <1>6, <1>7, <1>9
<1>11. /\ u \in Seq(Int) /\ Len(u) = Len(p) + Len(v) + Len(l)
       /\ base \in Seq(Int) /\ Len(base) = room
       /\ Holds(base, 0, p) /\ Holds(base, Len(p), v) /\ Holds(base, Len(p) + Len(v), l)
  <2>1. Parts(base, room, u, p, v, l)
    BY <1>5, <1>6, <1>7, <1>8, <1>10, HeadedBlock
  <2> QED
    BY <2>1 DEF Parts
<1>12. Holds(base, 0 + 0, h) /\ Holds(base, 0 + 6, ids)
  BY <1>1, <1>4, <1>7, <1>11, HoldsPart
<1>13. Holds(base, 0, h) /\ Holds(base, 6, ids)
  <2>1. 0 + 0 = 0 /\ 0 + 6 = 6
    OBVIOUS
  <2> QED
    BY <1>12, <2>1
<1>14. base[2] = n /\ base[3] = 4 * (6 + n) /\ base[4] = 4 * (6 + n + m) /\ base[5] = 1
  <2>1. \A i \in 1 .. Len(h) : base[i] = h[i]
    BY <1>4, <1>11, <1>13, StartsWith
  <2> QED
    BY <1>4, <2>1
<1>15. IdsOf(base) = ids
  <2>1. SubSeq(base, 6 + 1, 6 + Len(ids)) = ids
    BY <1>1, <1>11, <1>13, HoldsSubSeq
  <2>2. 6 + 1 = 7
    OBVIOUS
  <2> QED
    BY <1>1, <1>14, <2>1, <2>2 DEF IdsOf
<1>16. 6 + n + m <= room
  BY <1>5, <1>6, <1>7, <1>10
<1> QED
  BY <1>1, <1>3, <1>5, <1>6, <1>7, <1>8, <1>9, <1>11, <1>13, <1>14, <1>15, <1>16 DEF StandardIs

LEMMA PQBlockIs ==
  ASSUME NEW ids \in Seq(Ids), NEW b \in Nat, NEW room \in Nat,
         NEW adjacency, NEW lists, lists = ListsOf(adjacency, ids), lists \in Seq(Seq(Int)),
         6 + Len(ids) + Len(FlattenSeq(lists)) <= room,
         NEW base, base = Padded(PQBlock(b, ids, adjacency), room)
  PROVE  /\ PQBlock(b, ids, adjacency) \in Seq(Int)
         /\ Len(PQBlock(b, ids, adjacency)) = 6 + Len(ids) + Len(FlattenSeq(lists))
         /\ PQIs(base, ids, lists)
<1>1. PICK n \in Nat : n = Len(ids) /\ ids \in Seq(Int)
  BY IdsAreInts
<1>2. PICK h : h = <<b, n, 0, 4 * (6 + n), FLAG_NEIGHBOR_DELTA_VARINT, 0>>
  OBVIOUS
<1>3. /\ h \in Seq(Int) /\ Len(h) = 6 /\ h[2] = n /\ h[3] = 0 /\ h[4] = 4 * (6 + n) /\ h[5] = 1
  BY <1>2 DEF FLAG_NEIGHBOR_DELTA_VARINT
<1>4. PICK l \in Seq(Int) : l = FlattenSeq(lists)
  BY FlattenSeqHolds
<1>5. PICK u : u = h \o ids \o l
  OBVIOUS
<1>6. PQBlock(b, ids, adjacency) = u
  BY <1>1, <1>2, <1>4, <1>5 DEF PQBlock, ListsOf
<1>7. Len(h) + Len(ids) + Len(l) <= room /\ base = Padded(u, room)
  BY <1>1, <1>3, <1>4, <1>6
<1>8. /\ u \in Seq(Int) /\ Len(u) = Len(h) + Len(ids) + Len(l)
      /\ base \in Seq(Int) /\ Len(base) = room
      /\ Holds(base, Len(h), ids) /\ Holds(base, Len(h) + Len(ids), l)
      /\ \A i \in 1 .. Len(h) : base[i] = h[i]
      /\ SubSeq(base, Len(h) + 1, Len(h) + Len(ids)) = ids
  <2>1. Parts(base, room, u, h, ids, l)
    BY <1>1, <1>3, <1>4, <1>5, <1>7, HeadedBlock
  <2> QED
    BY <2>1 DEF Parts
<1>9. base[2] = n /\ base[3] = 0 /\ base[4] = 4 * (6 + n) /\ base[5] = 1
  BY <1>3, <1>8
<1>10. IdsOf(base) = ids
  BY <1>1, <1>3, <1>8, <1>9 DEF IdsOf
<1> QED
  BY <1>1, <1>3, <1>4, <1>5, <1>6, <1>8, <1>9, <1>10 DEF PQIs

\* What the nodes of a block take is what was added up for them: u for each node,
\* and its list.
SizesAre(sizes, p, u, lists) ==
  /\ lists \in Seq(Seq(Int)) /\ Len(lists) = Len(p)
  /\ \A j \in 1 .. Len(p) : sizes[p[j] + 1] = u + Len(lists[j])

LEMMA PartSize ==
  ASSUME NEW sizes \in Seq(Nat), NEW cum, Sums(sizes, cum), NEW header \in Nat, NEW room \in Nat,
         NEW p, Part(p, Len(sizes), header, room, cum), NEW u \in Nat,
         NEW lists, SizesAre(sizes, p, u, lists)
  PROVE  header + Len(p) * u + Len(FlattenSeq(lists)) <= room
<1>0. /\ lists \in Seq(Seq(Int)) /\ Len(lists) = Len(p)
      /\ \A j \in 1 .. Len(p) : sizes[p[j] + 1] = u + Len(lists[j])
  BY DEF SizesAre
<1>1. PICK m \in Nat : m = Len(p) /\ m = Len(lists)
  BY <1>0 DEF Part
<1>2. PICK a \in Nat : a = p[1]
  <2>1. 1 \in 1 .. Len(p)
    BY DEF Part
  <2> QED
    BY <2>1 DEF Part
<1>3. PICK ends \in [0 .. m -> Nat] :
        /\ ends[0] = 0 /\ ends[m] = Len(FlattenSeq(lists))
        /\ \A k \in 1 .. m : ends[k] = ends[k - 1] + Len(lists[k])
  <2>1. Len(lists) = m
    BY <1>1
  <2>2. PICK ends \in [0 .. Len(lists) -> Nat] :
          /\ ends[0] = 0 /\ ends[Len(lists)] = Len(FlattenSeq(lists))
          /\ \A k \in 1 .. Len(lists) : /\ ends[k] = ends[k - 1] + Len(lists[k])
                                       /\ Holds(FlattenSeq(lists), ends[k - 1], lists[k])
    BY <1>0, FlattenSeqHolds
  <2> QED
    BY <2>1, <2>2
<1>4. a + m <= Len(sizes) /\ header + (cum[a + m] - cum[a]) <= room
  BY <1>1, <1>2 DEF Part
<1>5. \A j \in 0 .. m : a + j \in 0 .. Len(sizes) /\ cum[a + j] \in Nat
  <2>1. \A j \in 0 .. m : a + j \in 0 .. Len(sizes)
    BY <1>4
  <2> QED
    BY <2>1 DEF Sums
<1>6. PICK c \in Nat : c = cum[a]
  <2>1. 0 \in 0 .. m /\ a + 0 = a
    OBVIOUS
  <2> QED
    BY <1>5, <2>1
<1> DEFINE f == [j \in 0 .. m |-> cum[a + j]]
           g == [j \in 0 .. m |-> c + j * u + ends[j]]
<1>7. f[0] = g[0]
  <2>1. 0 \in 0 .. m /\ a + 0 = a /\ c + 0 * u + 0 = c
    OBVIOUS
  <2> QED
    BY <1>3, <1>6, <2>1
<1>8. \A j \in 1 .. m : f[j - 1] = g[j - 1] => f[j] = g[j]
  <2>1. TAKE j \in 1 .. m
  <2>2. j - 1 \in 0 .. m /\ j \in 0 .. m /\ (a + j) - 1 = a + (j - 1)
    OBVIOUS
  <2>3. f[j] = cum[a + j] /\ f[j - 1] = cum[a + (j - 1)] /\ g[j] = c + j * u + ends[j]
        /\ g[j - 1] = c + (j - 1) * u + ends[j - 1]
    BY <2>2
  <2> HIDE DEF f, g
  <2>4. HAVE f[j - 1] = g[j - 1]
  <2>5. p[j] + 1 = a + j
    <3>1. p[j] = a + j - 1
      BY <1>1, <1>2 DEF Part
    <3> QED
      BY <3>1
  <2>6. PICK l \in Nat : l = Len(lists[j])
    <3>1. lists[j] \in Seq(Int)
      BY <1>0, <1>1
    <3> QED
      BY <3>1
  <2>7. sizes[a + j] = u + l
    BY <1>0, <1>1, <2>5, <2>6
  <2>8. a + j \in 1 .. Len(sizes)
    <3>1. a + j \in 0 .. Len(sizes)
      BY <1>5, <2>2
    <3>2. a + j >= 1
      OBVIOUS
    <3> QED
      BY <3>1, <3>2
  <2>9. cum[a + j] = cum[a + (j - 1)] + (u + l)
    BY <2>2, <2>7, <2>8 DEF Sums
  <2>10. PICK e \in Nat : e = ends[j - 1] /\ ends[j] = e + l
    BY <1>3, <2>2, <2>6
  <2>11. PICK x \in Nat : x = (j - 1) * u
    <3>1. j - 1 \in Nat
      OBVIOUS
    <3>2. (j - 1) * u \in Nat
      BY <3>1
    <3> QED
      BY <3>2
  <2>12. j * u = x + u
    BY <2>11
  <2>13. PICK y \in Nat : y = cum[a + (j - 1)]
    BY <1>5, <2>2
  <2>14. y = c + x + e
    BY <2>3, <2>4, <2>10, <2>11, <2>13
  <2>15. cum[a + j] = y + (u + l)
    BY <2>9, <2>13
  <2>16. g[j] = c + (x + u) + (e + l)
    BY <2>3, <2>10, <2>12
  <2>17. y + (u + l) = c + (x + u) + (e + l)
    BY <2>14
  <2> QED
    BY <2>3, <2>15, <2>16, <2>17
<1>9. cum[a + m] = c + m * u + ends[m]
  <2>1. m \in 0 .. m
    OBVIOUS
  <2>2. f[m] = cum[a + m] /\ g[m] = c + m * u + ends[m]
    BY <2>1
  <2> HIDE DEF f, g
  <2>3. GoOnAlike(f, g, m)
    BY <1>7, <1>8 DEF GoOnAlike
  <2> QED
    BY <2>1, <2>2, <2>3, SameSteps
<1>10. PICK x \in Nat, e \in Nat : x = m * u /\ e = ends[m]
  <2>1. m * u \in Nat /\ m \in 0 .. m
    OBVIOUS
  <2> QED
    BY <1>3, <2>1
<1>11. header + ((c + x + e) - c) <= room
  BY <1>4, <1>6, <1>9, <1>10
<1>12. header + x + e <= room
  BY <1>11
<1> QED
  BY <1>1, <1>3, <1>10, <1>12

\* The nodes in blocks: each in one, and in order.
Split(ps) ==
  /\ ps \in Seq(Seq(Ids)) /\ Len(ps) <= N
  /\ \A k \in 1 .. Len(ps) : /\ Len(ps[k]) # 0 /\ ps[k][1] \in Nat
                             /\ \A j \in 1 .. Len(ps[k]) : ps[k][j] = ps[k][1] + j - 1
  /\ \A k, l \in 1 .. Len(ps) : k < l => ps[k][1] + Len(ps[k]) <= ps[l][1]
  /\ \A x \in Ids : \E k \in 1 .. Len(ps) : ps[k][1] <= x /\ x < ps[k][1] + Len(ps[k])

LEMMA SplitIs ==
  ASSUME NEW ps, NEW header, NEW room, NEW cum, Packed(ps, N, header, room, cum)
  PROVE  Split(ps)
<1>1. PICK n \in Nat : n = Len(ps) /\ DOMAIN ps = 1 .. n /\ n <= N
  BY DEF Packed
<1>2. ASSUME NEW k \in 1 .. n
      PROVE  /\ ps[k] \in Seq(Ids) /\ Len(ps[k]) # 0 /\ ps[k][1] \in Nat
             /\ \A j \in 1 .. Len(ps[k]) : ps[k][j] = ps[k][1] + j - 1
  <2>1. PICK p : p = ps[k]
    OBVIOUS
  <2>2. Part(p, N, header, room, cum)
    BY <1>1, <2>1 DEF Packed
  <2>3. PICK m \in Nat : m = Len(p) /\ m # 0 /\ p \in [1 .. m -> Nat]
    BY <2>2 DEF Part
  <2>4. PICK a \in Nat : a = p[1]
    BY <2>3
  <2>5. \A j \in 1 .. m : p[j] = a + j - 1
    BY <2>2, <2>3, <2>4 DEF Part
  <2>6. a + m <= N
    BY <2>2, <2>3, <2>4 DEF Part
  <2>7. \A j \in 1 .. m : p[j] \in Ids
    BY <2>5, <2>6, NIs DEF Ids
  <2>8. p \in Seq(Ids)
    BY <2>3, <2>7
  <2> QED
    BY <2>1, <2>3, <2>4, <2>5, <2>8
<1>3. ps \in Seq(Seq(Ids))
  <2>1. ps \in [1 .. n -> Seq(Ids)]
    <3>1. ps = [k \in 1 .. n |-> ps[k]]
      BY <1>1 DEF Packed
    <3> QED
      BY <1>2, <3>1
  <2> QED
    BY <2>1
<1>4. \A k, l \in 1 .. n : k < l => ps[k][1] + Len(ps[k]) <= ps[l][1]
  BY <1>1 DEF Packed
<1>5. \A x \in Ids : \E k \in 1 .. n : ps[k][1] <= x /\ x < ps[k][1] + Len(ps[k])
  BY <1>1 DEF Packed, Ids
<1> QED
  BY <1>1, <1>2, <1>3, <1>4, <1>5 DEF Split

LEMMA InPart ==
  ASSUME NEW ps, Split(ps), NEW k \in 1 .. Len(ps), NEW x \in Int
  PROVE  x \in ToSet(ps[k]) <=> ps[k][1] <= x /\ x < ps[k][1] + Len(ps[k])
<1>1. PICK p : p = ps[k]
  OBVIOUS
<1>2. p \in Seq(Ids) /\ p[1] \in Nat /\ \A j \in 1 .. Len(p) : p[j] = p[1] + j - 1
  <2>1. ps \in Seq(Seq(Ids))
    BY DEF Split
  <2>2. p \in Seq(Ids)
    BY <1>1, <2>1
  <2> QED
    BY <1>1, <2>2 DEF Split
<1>3. PICK m \in Nat : m = Len(p) /\ DOMAIN p = 1 .. m
  BY <1>2
<1>4. PICK a \in Nat : a = p[1]
  BY <1>2
<1>5. \A j \in 1 .. m : p[j] = a + j - 1
  BY <1>2, <1>3, <1>4
<1>6. x \in ToSet(p) <=> \E j \in 1 .. m : p[j] = x
  BY <1>3 DEF ToSet
<1>7. (\E j \in 1 .. m : p[j] = x) => a <= x /\ x < a + m
  <2>1. ASSUME NEW j \in 1 .. m, p[j] = x PROVE a <= x /\ x < a + m
    BY <1>5, <2>1
  <2> QED
    BY <2>1
<1>8. a <= x /\ x < a + m => \E j \in 1 .. m : p[j] = x
  <2>1. HAVE a <= x /\ x < a + m
  <2>2. x - a + 1 \in 1 .. m /\ a + (x - a + 1) - 1 = x
    BY <2>1
  <2> QED
    BY <1>5, <2>2
<1> QED
  BY <1>1, <1>3, <1>4, <1>6, <1>7, <1>8

LEMMA OneBlock ==
  ASSUME NEW ps, Split(ps), NEW x \in Ids
  PROVE  \E k \in 1 .. Len(ps) : /\ x \in ToSet(ps[k])
                                 /\ \A l \in 1 .. Len(ps) : x \in ToSet(ps[l]) => l = k
<1>1. x \in Int
  BY NIs DEF Ids
<1>2. PICK k \in 1 .. Len(ps) : ps[k][1] <= x /\ x < ps[k][1] + Len(ps[k])
  BY DEF Split
<1>3. ASSUME NEW i \in 1 .. Len(ps), NEW j \in 1 .. Len(ps), i < j,
             x \in ToSet(ps[i]), x \in ToSet(ps[j])
      PROVE  FALSE
  <2>1. x < ps[i][1] + Len(ps[i]) /\ ps[j][1] <= x
    BY <1>1, <1>3, InPart
  <2>2. ps[i][1] + Len(ps[i]) <= ps[j][1]
    BY <1>3 DEF Split
  <2>3. ps[i] \in Seq(Ids) /\ ps[i][1] \in Nat /\ ps[j][1] \in Nat
    BY DEF Split
  <2>4. PICK a \in Nat, b \in Nat, m \in Nat : a = ps[i][1] /\ b = ps[j][1] /\ m = Len(ps[i])
    BY <2>3
  <2> QED
    BY <1>1, <2>1, <2>2, <2>4
<1>4. x \in ToSet(ps[k])
  BY <1>1, <1>2, InPart
<1>5. ASSUME NEW l \in 1 .. Len(ps), x \in ToSet(ps[l]) PROVE l = k
  <2>1. l \in Int /\ k \in Int
    OBVIOUS
  <2>2. ~(l < k) /\ ~(k < l)
    BY <1>3, <1>4, <1>5
  <2> QED
    BY <2>1, <2>2
<1> QED
  BY <1>4, <1>5

\* The lists of a block.
ListsFit(adj) ==
  \A n \in Ids : adj[n] \in Seq(Ids) /\ IsInjective(adj[n]) /\ Len(adj[n]) <= MaxM0

LEMMA ListsOfAre ==
  ASSUME NEW adj, ListsFit(adj), NEW ids \in Seq(Ids)
  PROVE  /\ ListsOf(adj, ids) \in Seq(Seq(Int)) /\ Len(ListsOf(adj, ids)) = Len(ids)
         /\ \A i \in 1 .. Len(ids) : ListsOf(adj, ids)[i] = ListImage(adj[ids[i]])
<1>1. PICK n \in Nat : n = Len(ids) /\ DOMAIN ids = 1 .. n
  OBVIOUS
<1>2. ASSUME NEW i \in 1 .. n PROVE ListImage(adj[ids[i]]) \in Seq(Int)
  <2>1. ids[i] \in Ids
    BY <1>1
  <2>2. PICK c \in Seq(Nat) : c = ListImage(adj[ids[i]])
    BY <2>1, ListImageIs DEF ListsFit
  <2>3. PICK m \in Nat : m = Len(c) /\ c \in [1 .. m -> Nat]
    OBVIOUS
  <2>4. c \in [1 .. m -> Int]
    BY <2>3
  <2> QED
    BY <2>2, <2>3, <2>4
<1>3. ListsOf(adj, ids) = [i \in 1 .. n |-> ListImage(adj[ids[i]])]
  BY <1>1 DEF ListsOf
<1> QED
  BY <1>1, <1>2, <1>3

\* The blocks of the nodes: u for each, and its list.
LEMMA PlansFit ==
  ASSUME NEW adj, ListsFit(adj), NEW u \in Nat, NEW room \in Nat,
         \A s \in Lists : 6 + u + Len(ListImage(s)) <= room,
         NEW sizes, sizes = [i \in 1 .. N |-> u + Len(ListImage(adj[i - 1]))]
  PROVE  \E ps : /\ ps = Pack(sizes, 6, room) /\ Split(ps)
                 /\ \A k \in 1 .. Len(ps) :
                      6 + Len(ps[k]) * u + Len(FlattenSeq(ListsOf(adj, ps[k]))) <= room
<1>1. ASSUME NEW i \in 1 .. N
      PROVE  /\ i - 1 \in Ids /\ u + Len(ListImage(adj[i - 1])) \in Nat
             /\ 6 + (u + Len(ListImage(adj[i - 1]))) <= room
  <2>1. i - 1 \in Ids
    BY NIs DEF Ids
  <2>2. PICK s : s = adj[i - 1]
    OBVIOUS
  <2>3. s \in Seq(Ids) /\ IsInjective(s) /\ Len(s) <= MaxM0
    BY <2>1, <2>2 DEF ListsFit
  <2>4. PICK m \in Nat : m = Len(ListImage(s))
    <3>1. ListImage(s) \in Seq(Nat)
      BY <2>3, ListImageIs
    <3> QED
      BY <3>1
  <2>5. 6 + u + m <= room
    BY <2>3, <2>4, IsAList
  <2> QED
    BY <2>1, <2>2, <2>4, <2>5
<1>2. sizes \in Seq(Nat) /\ Len(sizes) = N
  BY <1>1, NIs
<1>3. \A i \in 1 .. N : sizes[i] = u + Len(ListImage(adj[i - 1])) /\ 6 + sizes[i] <= room
  BY <1>1
<1>4. PICK cum : Sums(sizes, cum)
  BY <1>2, SumsExist
<1>5. PICK ps : ps = Pack(sizes, 6, room)
  OBVIOUS
<1>6. Packed(ps, N, 6, room, cum)
  <2>1. \A i \in 1 .. Len(sizes) : 6 + sizes[i] <= room
    BY <1>2, <1>3
  <2>2. Packed(ps, Len(sizes), 6, room, cum)
    BY <1>2, <1>4, <1>5, <2>1, PackIs
  <2> QED
    BY <1>2, <2>2
<1>7. Split(ps)
  BY <1>6, SplitIs
<1>8. ASSUME NEW k \in 1 .. Len(ps)
      PROVE  6 + Len(ps[k]) * u + Len(FlattenSeq(ListsOf(adj, ps[k]))) <= room
  <2>1. PICK p : p = ps[k]
    OBVIOUS
  <2>2. p \in Seq(Ids)
    <3>1. ps \in Seq(Seq(Ids))
      BY <1>7 DEF Split
    <3> QED
      BY <2>1, <3>1
  <2>3. Part(p, Len(sizes), 6, room, cum)
    BY <1>2, <1>6, <2>1 DEF Packed
  <2>4. PICK lists : lists = ListsOf(adj, p)
    OBVIOUS
  <2>5. /\ lists \in Seq(Seq(Int)) /\ Len(lists) = Len(p)
        /\ \A j \in 1 .. Len(p) : lists[j] = ListImage(adj[p[j]])
    BY <2>2, <2>4, ListsOfAre
  <2>6. ASSUME NEW j \in 1 .. Len(p) PROVE sizes[p[j] + 1] = u + Len(lists[j])
    <3>1. p[j] \in Ids
      BY <2>2
    <3>2. p[j] + 1 \in 1 .. N /\ (p[j] + 1) - 1 = p[j]
      BY <3>1, NIs DEF Ids
    <3> QED
      BY <1>3, <2>5, <3>2
  <2>7. 6 + Len(p) * u + Len(FlattenSeq(lists)) <= room
    <3>1. \A j \in 1 .. Len(p) : sizes[p[j] + 1] = u + Len(lists[j])
      BY <2>6
    <3>2. SizesAre(sizes, p, u, lists)
      BY <2>5, <3>1 DEF SizesAre
    <3>3. 6 \in Nat
      OBVIOUS
    <3> QED
      BY <1>2, <1>4, <2>3, <3>2, <3>3, PartSize
  <2> QED
    BY <2>1, <2>4, <2>7
<1> QED
  BY <1>5, <1>7, <1>8

\* What a file of lists holds, with vectors or without.
BlockHolds(base, ids, g, b) ==
  \/ StandardIs(base, ids, NewVectors(g, b), ListsOf(NewAdjacency(g, b), ids))
  \/ PQIs(base, ids, ListsOf(NewAdjacency(g, b), ids))

BlocksHold(f, ps, g, b) ==
  /\ Split(ps) /\ NumBlocks(f) = Len(ps)
  /\ \A k \in 1 .. Len(ps) : BlockHolds(BlockOf(f, k - 1), ps[k], g, b)

LEMMA NewIs ==
  ASSUME NEW g, IsGraph(g), NEW b, Renumbers(b)
  PROVE  ListsFit(NewAdjacency(g, b)) /\ VectorsFit(NewVectors(g, b))
BY NewListsAre DEF ListsFit, VectorsFit

LEMMA FileOfBlocks ==
  ASSUME NEW room \in Nat, NEW blocks, NEW n \in Nat, NEW f,
         BlocksFit(blocks, room), Len(blocks) = n,
         f = BlocksFile(FORMAT_VERSION_COMPRESSED, room, blocks)
  PROVE  /\ NumBlocks(f) = n
         /\ \A k \in 1 .. n : BlockOf(f, k - 1) = Padded(blocks[k], room)
<1>1. PICK bs : bs = [k \in 1 .. n |-> Padded(blocks[k], room)]
  OBVIOUS
<1>2. EvenBlocks(bs, room) /\ Len(bs) = n /\ IsFileOf(f, FORMAT_VERSION_COMPRESSED, bs, room)
  <2>1. EvenBlocks(bs, room) /\ Len(bs) = n
    BY <1>1, EvenBlocksAre
  <2>2. DOMAIN blocks = 1 .. n
    BY DEF BlocksFit
  <2>3. BlocksFile(FORMAT_VERSION_COMPRESSED, room, blocks)
          = FileHeader(FORMAT_VERSION_COMPRESSED, room, n) \o FlattenSeq(bs)
    BY <1>1, <2>2 DEF BlocksFile, FileHeader
  <2> QED
    BY <2>1, <2>3 DEF IsFileOf
<1>3. NumBlocks(f) = n /\ \A b \in 0 .. n - 1 : BlockOf(f, b) = bs[b + 1]
  <2>1. FORMAT_VERSION_COMPRESSED \in Int
    BY DEF FORMAT_VERSION_COMPRESSED
  <2>2. Found(f, FORMAT_VERSION_COMPRESSED, bs, room)
    BY <1>2, <2>1, BlocksFound
  <2> QED
    BY <1>2, <2>2 DEF Found
<1>4. ASSUME NEW k \in 1 .. n PROVE BlockOf(f, k - 1) = Padded(blocks[k], room)
  <2>1. k - 1 \in 0 .. n - 1 /\ (k - 1) + 1 = k
    OBVIOUS
  <2>2. bs[k] = Padded(blocks[k], room)
    BY <1>1
  <2> QED
    BY <1>3, <2>1, <2>2
<1> QED
  BY <1>3, <1>4

LEMMA StandardFileHolds ==
  ASSUME NEW g, IsGraph(g), NEW b, Renumbers(b)
  PROVE  \E ps : BlocksHold(StandardBlocks(g, b, StdRoom), ps, g, b)
<1>1. PICK adj : adj = NewAdjacency(g, b)
  OBVIOUS
<1>2. PICK vectors : vectors = NewVectors(g, b)
  OBVIOUS
<1>3. ListsFit(adj) /\ VectorsFit(vectors)
  BY <1>1, <1>2, NewIs
<1>4. PICK u \in Nat : u = 1 + Dim
  BY NIs
<1>5. StdRoom \in Nat /\ \A s \in Lists : 6 + u + Len(ListImage(s)) <= StdRoom
  <2>1. StdRoom \in Nat /\ \A s \in Lists : 7 + Dim + Len(ListImage(s)) <= StdRoom
    BY PipelineAssumption
  <2>2. 6 + u = 7 + Dim
    BY <1>4, NIs
  <2> QED
    BY <2>1, <2>2
<1>6. PICK sizes : sizes = [i \in 1 .. N |-> u + Len(ListImage(adj[i - 1]))]
  OBVIOUS
<1>7. PICK ps : /\ ps = Pack(sizes, 6, StdRoom) /\ Split(ps)
                /\ \A k \in 1 .. Len(ps) :
                     6 + Len(ps[k]) * u + Len(FlattenSeq(ListsOf(adj, ps[k]))) <= StdRoom
  BY <1>3, <1>5, <1>6, PlansFit
<1>8. PICK n \in Nat : n = Len(ps) /\ DOMAIN ps = 1 .. n /\ \A k \in 1 .. n : ps[k] \in Seq(Ids)
  <2>1. ps \in Seq(Seq(Ids))
    BY <1>7 DEF Split
  <2> QED
    BY <2>1
<1>9. PICK blocks : blocks = [k \in 1 .. n |-> StandardBlock(k - 1, ps[k], vectors, adj)]
  OBVIOUS
<1>10. StandardBlocks(g, b, StdRoom) = BlocksFile(FORMAT_VERSION_COMPRESSED, StdRoom, blocks)
  <2>1. g.num_nodes = N /\ g.dim = Dim
    BY DEF IsGraph
  <2>2. sizes = [i \in 1 .. N |-> 1 + Dim + Len(ListImage(adj[i - 1]))]
    BY <1>4, <1>6
  <2>3. Pack([i \in 1 .. N |-> 1 + Dim + Len(ListImage(adj[i - 1]))], 6, StdRoom) = ps
    BY <1>7, <2>2
  <2> QED
    BY <1>1, <1>2, <1>8, <1>9, <2>1, <2>3 DEF StandardBlocks
<1>11. ASSUME NEW k \in 1 .. n
       PROVE  /\ blocks[k] \in Seq(Int) /\ Len(blocks[k]) <= StdRoom
              /\ BlockHolds(Padded(blocks[k], StdRoom), ps[k], g, b)
  <2>1. PICK ids \in Seq(Ids) : ids = ps[k]
    BY <1>8
  <2>2. PICK lists \in Seq(Seq(Int)) : lists = ListsOf(adj, ids)
    BY <1>3, ListsOfAre
  <2>3. PICK l \in Nat : l = Len(FlattenSeq(lists))
    BY FlattenSeqHolds
  <2>4. 6 + Len(ids) * u + l <= StdRoom
    BY <1>7, <1>8, <2>1, <2>2, <2>3
  <2>5. PICK m \in Nat : m = Len(ids)
    OBVIOUS
  <2>6. PICK x \in Nat : x = m * Dim
    BY NIs
  <2>7. m * u = m + x
    BY <1>4, <2>6, NIs
  <2>8. 6 + m + x + l <= StdRoom
    BY <1>5, <2>4, <2>5, <2>7
  <2>9. 6 + Len(ids) + Len(ids) * Dim + Len(FlattenSeq(lists)) <= StdRoom
    BY <2>3, <2>5, <2>6, <2>8
  <2>10. k - 1 \in Nat /\ blocks[k] = StandardBlock(k - 1, ids, vectors, adj)
    BY <1>9, <2>1
  <2>11. PICK base : base = Padded(blocks[k], StdRoom)
    OBVIOUS
  <2>12. /\ blocks[k] \in Seq(Int)
         /\ Len(blocks[k]) = 6 + Len(ids) + Len(ids) * Dim + Len(FlattenSeq(lists))
         /\ StandardIs(base, ids, vectors, lists)
    BY <1>3, <1>5, <2>2, <2>9, <2>10, <2>11, StandardBlockIs
  <2> QED
    BY <1>1, <1>2, <2>1, <2>2, <2>9, <2>11, <2>12 DEF BlockHolds
<1>12. blocks \in Seq(Seq(Int)) /\ Len(blocks) = n
  BY <1>9, <1>11
<1>13. PICK f : f = StandardBlocks(g, b, StdRoom)
  OBVIOUS
<1>14. NumBlocks(f) = n /\ \A k \in 1 .. n : BlockOf(f, k - 1) = Padded(blocks[k], StdRoom)
  <2>1. BlocksFit(blocks, StdRoom)
    BY <1>11, <1>12 DEF BlocksFit
  <2>2. StdRoom \in Nat /\ f = BlocksFile(FORMAT_VERSION_COMPRESSED, StdRoom, blocks)
    BY <1>5, <1>10, <1>13
  <2> QED
    BY <1>12, <2>1, <2>2, FileOfBlocks
<1> QED
  BY <1>7, <1>8, <1>11, <1>13, <1>14 DEF BlocksHold

LEMMA PQFileHolds ==
  ASSUME NEW g, IsGraph(g), NEW b, Renumbers(b)
  PROVE  \E ps : BlocksHold(PQBlocks(g, b, PQRoom), ps, g, b)
<1>1. PICK adj : adj = NewAdjacency(g, b)
  OBVIOUS
<1>2. ListsFit(adj)
  BY <1>1, NewIs
<1>3. PQRoom \in Nat /\ \A s \in Lists : 6 + 1 + Len(ListImage(s)) <= PQRoom
  <2>1. PQRoom \in Nat /\ \A s \in Lists : 7 + Len(ListImage(s)) <= PQRoom
    BY PipelineAssumption
  <2>2. 6 + 1 = 7
    OBVIOUS
  <2> QED
    BY <2>1, <2>2
<1>4. PICK sizes : sizes = [i \in 1 .. N |-> 1 + Len(ListImage(adj[i - 1]))]
  OBVIOUS
<1>5. PICK ps : /\ ps = Pack(sizes, 6, PQRoom) /\ Split(ps)
                /\ \A k \in 1 .. Len(ps) :
                     6 + Len(ps[k]) * 1 + Len(FlattenSeq(ListsOf(adj, ps[k]))) <= PQRoom
  <2>1. 1 \in Nat
    OBVIOUS
  <2> QED
    BY <1>2, <1>3, <1>4, <2>1, PlansFit
<1>6. PICK n \in Nat : n = Len(ps) /\ DOMAIN ps = 1 .. n /\ \A k \in 1 .. n : ps[k] \in Seq(Ids)
  <2>1. ps \in Seq(Seq(Ids))
    BY <1>5 DEF Split
  <2> QED
    BY <2>1
<1>7. PICK blocks : blocks = [k \in 1 .. n |-> PQBlock(k - 1, ps[k], adj)]
  OBVIOUS
<1>8. PQBlocks(g, b, PQRoom) = BlocksFile(FORMAT_VERSION_COMPRESSED, PQRoom, blocks)
  <2>1. g.num_nodes = N
    BY DEF IsGraph
  <2> QED
    BY <1>1, <1>4, <1>5, <1>6, <1>7, <2>1 DEF PQBlocks
<1>9. ASSUME NEW k \in 1 .. n
      PROVE  /\ blocks[k] \in Seq(Int) /\ Len(blocks[k]) <= PQRoom
             /\ BlockHolds(Padded(blocks[k], PQRoom), ps[k], g, b)
  <2>1. PICK ids \in Seq(Ids) : ids = ps[k]
    BY <1>6
  <2>2. PICK lists \in Seq(Seq(Int)) : lists = ListsOf(adj, ids)
    BY <1>2, ListsOfAre
  <2>3. PICK l \in Nat : l = Len(FlattenSeq(lists))
    BY FlattenSeqHolds
  <2>4. 6 + Len(ids) + l <= PQRoom
    <3>1. 6 + Len(ids) * 1 + l <= PQRoom
      BY <1>5, <1>6, <2>1, <2>2, <2>3
    <3> QED
      BY <3>1
  <2>5. k - 1 \in Nat /\ blocks[k] = PQBlock(k - 1, ids, adj)
    BY <1>7, <2>1
  <2>6. PICK base : base = Padded(blocks[k], PQRoom)
    OBVIOUS
  <2>7. /\ blocks[k] \in Seq(Int) /\ Len(blocks[k]) = 6 + Len(ids) + Len(FlattenSeq(lists))
        /\ PQIs(base, ids, lists)
    BY <1>3, <2>2, <2>3, <2>4, <2>5, <2>6, PQBlockIs
  <2> QED
    BY <1>1, <2>1, <2>2, <2>3, <2>4, <2>6, <2>7 DEF BlockHolds
<1>10. blocks \in Seq(Seq(Int)) /\ Len(blocks) = n
  BY <1>7, <1>9
<1>11. PICK f : f = PQBlocks(g, b, PQRoom)
  OBVIOUS
<1>12. NumBlocks(f) = n /\ \A k \in 1 .. n : BlockOf(f, k - 1) = Padded(blocks[k], PQRoom)
  <2>1. BlocksFit(blocks, PQRoom)
    BY <1>9, <1>10 DEF BlocksFit
  <2>2. PQRoom \in Nat /\ f = BlocksFile(FORMAT_VERSION_COMPRESSED, PQRoom, blocks)
    BY <1>3, <1>8, <1>11
  <2> QED
    BY <1>10, <2>1, <2>2, FileOfBlocks
<1> QED
  BY <1>5, <1>6, <1>9, <1>11, <1>12 DEF BlocksHold

-----------------------------------------------------------------------------
(* Route tables.                                                           *)

LEMMA MaxIs ==
  ASSUME NEW S \in SUBSET Int, NEW m \in S, \A x \in S : x <= m
  PROVE  Max(S) = m
<1>1. \A y \in S : m >= y
  OBVIOUS
<1>2. Max(S) \in S /\ \A y \in S : Max(S) >= y
  BY <1>1 DEF Max
<1>3. PICK y : y = Max(S)
  OBVIOUS
<1>4. y \in Int /\ m \in Int /\ m >= y /\ y >= m
  BY <1>1, <1>2, <1>3
<1> QED
  BY <1>3, <1>4

\* What is found in a block before its lists are looked at.
LEMMA BlockParses ==
  ASSUME NEW base, NEW ids, NEW g, NEW b, BlockHolds(base, ids, g, b), Len(ids) \in Nat, Len(ids) # 0
  PROVE  /\ IdsOf(base) = ids /\ ~IsVecOnly(base)
         /\ ParseBlock(base) = ParseStandard(base)
         /\ ParseBlock(base).node_count = Len(ids) /\ ParseBlock(base).first_node_id = ids[1]
<1>1. /\ base[2] = Len(ids) /\ Holds(base, 6, ids) /\ IdsOf(base) = ids
      /\ \E x \in Nat : base[4] = 4 * x
  <2>1. PICK n \in Nat, m \in Nat : n = Len(ids) /\ m = n * Dim
    <3>1. PICK n \in Nat : n = Len(ids)
      OBVIOUS
    <3>2. n * Dim \in Nat
      BY NIs
    <3> QED
      BY <3>1, <3>2
  <2>2. 6 + n + m \in Nat /\ 6 + n \in Nat
    OBVIOUS
  <2>3. CASE StandardIs(base, ids, NewVectors(g, b), ListsOf(NewAdjacency(g, b), ids))
    <3>1. base[4] = 4 * (6 + n + m)
      BY <2>1, <2>3 DEF StandardIs
    <3> QED
      BY <2>2, <2>3, <3>1 DEF StandardIs
  <2>4. CASE PQIs(base, ids, ListsOf(NewAdjacency(g, b), ids))
    <3>1. base[4] = 4 * (6 + n)
      BY <2>1, <2>4 DEF PQIs
    <3> QED
      BY <2>2, <2>4, <3>1 DEF PQIs
  <2> QED
    BY <2>3, <2>4 DEF BlockHolds
<1>2. ~IsVecOnly(base)
  <2>1. PICK x \in Nat : base[4] = 4 * x
    BY <1>1
  <2>2. \A y \in Nat : ((4 * y) \div 2) % 2 # 1
    <3>1. \A y \in Nat : (4 * y) \div 2 = 2 * y
      OBVIOUS
    <3>2. \A y \in Nat : (2 * y) % 2 = 0
      OBVIOUS
    <3> QED
      BY <3>1, <3>2
  <2> QED
    BY <2>1, <2>2 DEF IsVecOnly, FLAG_VEC_ONLY
<1>3. ParseBlock(base) = ParseStandard(base)
  BY <1>2 DEF ParseBlock
<1>4. ParseStandard(base).node_count = base[2] /\ ParseStandard(base).first_node_id = base[7]
  BY DEF ParseStandard
<1>5. base[7] = ids[1]
  <2>1. 1 \in 1 .. Len(ids)
    OBVIOUS
  <2>2. base[6 + 1] = ids[1]
    BY <1>1, <2>1 DEF Holds
  <2>3. 6 + 1 = 7
    OBVIOUS
  <2> QED
    BY <2>2, <2>3
<1> QED
  BY <1>1, <1>2, <1>3, <1>4, <1>5

\* A route table that leads to the blocks.
Routes(r, ps) ==
  /\ DOMAIN r = Ids
  /\ \A n \in Ids : r[n] \in 0 .. Len(ps) - 1 /\ n \in ToSet(ps[r[n] + 1])

LEMMA RoutesRight ==
  ASSUME NEW ps, Split(ps), NEW r, Routes(r, ps), NEW n \in Ids, NEW c \in 0 .. Len(ps) - 1
  PROVE  c = r[n] <=> n \in ToSet(ps[c + 1])
<1>1. PICK d \in 0 .. Len(ps) - 1 : d = r[n] /\ n \in ToSet(ps[d + 1])
  BY DEF Routes
<1>2. c + 1 \in 1 .. Len(ps) /\ d + 1 \in 1 .. Len(ps)
  BY DEF Split
<1>3. PICK k \in 1 .. Len(ps) : \A l \in 1 .. Len(ps) : n \in ToSet(ps[l]) => l = k
  BY OneBlock
<1>4. n \in ToSet(ps[c + 1]) => c + 1 = d + 1
  BY <1>1, <1>2, <1>3
<1>5. c + 1 = d + 1 => c = d
  BY <1>1
<1> QED
  BY <1>1, <1>4, <1>5

LEMMA GenRouteIs ==
  ASSUME NEW f, NEW ps, NEW g, NEW b, BlocksHold(f, ps, g, b)
  PROVE  Routes(GenRoute(f), ps)
<1>1. Split(ps)
  BY DEF BlocksHold
<1>2. PICK m \in Nat : m = Len(ps) /\ m = NumBlocks(f)
  BY <1>1 DEF BlocksHold, Split
<1>3. ASSUME NEW c \in 0 .. m - 1
      PROVE  c + 1 \in 1 .. m /\ IdsOf(BlockOf(f, c)) = ps[c + 1] /\ ToSet(ps[c + 1]) \subseteq Ids
  <2>1. c + 1 \in 1 .. m /\ (c + 1) - 1 = c
    OBVIOUS
  <2>2. PICK ids \in Seq(Ids) : ids = ps[c + 1] /\ Len(ids) # 0
    <3>1. PICK x \in 1 .. Len(ps) : x = c + 1
      BY <1>2, <2>1
    <3>2. ps \in Seq(Seq(Ids)) /\ Len(ps[x]) # 0
      BY <1>1 DEF Split
    <3>3. ps[x] \in Seq(Ids)
      BY <3>2
    <3> QED
      BY <3>1, <3>2, <3>3
  <2>3. BlockHolds(BlockOf(f, c), ids, g, b)
    BY <1>2, <2>1, <2>2 DEF BlocksHold
  <2>4. IdsOf(BlockOf(f, c)) = ids
    <3>1. PICK base : base = BlockOf(f, c)
      OBVIOUS
    <3>2. Len(ids) \in Nat
      OBVIOUS
    <3> QED
      BY <2>2, <2>3, <3>1, <3>2, BlockParses
  <2> QED
    BY <2>1, <2>2, <2>4 DEF ToSet
<1> DEFINE holders(n) == { c \in 0 .. m - 1 : n \in ToSet(IdsOf(BlockOf(f, c))) }
           all == UNION { ToSet(IdsOf(BlockOf(f, c))) : c \in 0 .. m - 1 }
<1>4. ASSUME NEW n \in Ids
      PROVE  \E c \in 0 .. m - 1 : holders(n) = {c} /\ n \in ToSet(ps[c + 1])
  <2>1. PICK k \in 1 .. m : n \in ToSet(ps[k]) /\ \A l \in 1 .. m : n \in ToSet(ps[l]) => l = k
    BY <1>1, <1>2, OneBlock
  <2>2. k - 1 \in 0 .. m - 1 /\ (k - 1) + 1 = k
    OBVIOUS
  <2>3. \A c \in 0 .. m - 1 : n \in ToSet(IdsOf(BlockOf(f, c))) <=> c = k - 1
    <3>1. TAKE c \in 0 .. m - 1
    <3>2. IdsOf(BlockOf(f, c)) = ps[c + 1] /\ c + 1 \in 1 .. m
      BY <1>3
    <3>3. c + 1 = k <=> c = k - 1
      OBVIOUS
    <3> QED
      BY <2>1, <3>2, <3>3
  <2>4. holders(n) = {k - 1}
    BY <2>2, <2>3
  <2> QED
    BY <2>1, <2>2, <2>4
<1>5. all = Ids
  <2>1. ASSUME NEW x \in all PROVE x \in Ids
    <3>1. PICK c \in 0 .. m - 1 : x \in ToSet(IdsOf(BlockOf(f, c)))
      BY <2>1
    <3> QED
      BY <1>3, <3>1
  <2>2. ASSUME NEW n \in Ids PROVE n \in all
    <3>1. PICK c \in 0 .. m - 1 : c \in holders(n)
      BY <1>4
    <3> QED
      BY <3>1
  <2> QED
    BY <2>1, <2>2
<1>6. Max(all) = N - 1
  <2>1. Ids \in SUBSET Int /\ N - 1 \in Ids /\ \A x \in Ids : x <= N - 1
    BY NIs DEF Ids
  <2> HIDE DEF all
  <2> QED
    BY <1>5, <2>1, MaxIs
<1>7. PICK r : r = GenRoute(f)
  OBVIOUS
<1>8. r = [n \in 0 .. Max(all) |-> IF holders(n) = {} THEN NotFound ELSE Max(holders(n))]
  BY <1>2, <1>7 DEF GenRoute
<1> HIDE DEF all, holders
<1>9. DOMAIN r = Ids /\ \A n \in Ids : r[n] = IF holders(n) = {} THEN NotFound ELSE Max(holders(n))
  BY <1>6, <1>8 DEF Ids
<1>10. ASSUME NEW n \in Ids PROVE r[n] \in 0 .. m - 1 /\ n \in ToSet(ps[r[n] + 1])
  <2>1. PICK c \in 0 .. m - 1 : holders(n) = {c} /\ n \in ToSet(ps[c + 1])
    BY <1>4
  <2>2. Max({c}) = c
    <3>1. {c} \in SUBSET Int /\ c \in {c} /\ \A x \in {c} : x <= c
      OBVIOUS
    <3> QED
      BY <3>1, MaxIs
  <2>3. r[n] = c
    BY <1>9, <2>1, <2>2
  <2> QED
    BY <2>1, <2>3
<1> QED
  BY <1>2, <1>7, <1>9, <1>10 DEF Routes

\* The layout of a route table knows of as many blocks as there are.
LEMMA LayoutIs ==
  ASSUME NEW ps, Split(ps), NEW r, Routes(r, ps)
  PROVE  /\ Layout(r).num_blocks = Len(ps)
         /\ \A n \in Ids : GetBlockId(Layout(r), n) = r[n] /\ r[n] # NotFound
<1>1. PICK m \in Nat : m = Len(ps) /\ m <= N
  BY DEF Split
<1>2. \A n \in Ids : r[n] \in 0 .. m - 1 /\ r[n] # NotFound
  <2>1. N <= NotFound
    BY PipelineAssumption
  <2>2. \A c \in 0 .. m - 1 : c # NotFound
    <3>1. NotFound \in Nat
      BY DEF NotFound
    <3> QED
      BY <1>1, <2>1, <3>1, NIs
  <2> QED
    BY <1>1, <2>2 DEF Routes
<1>3. m # 0
  <2>1. 0 \in Ids
    BY NIs DEF Ids
  <2> QED
    BY <1>2, <2>1
<1>4. PICK x \in Ids : r[x] = m - 1
  <2>1. m \in 1 .. m /\ m - 1 \in 0 .. m - 1 /\ (m - 1) + 1 = m
    BY <1>3
  <2>2. PICK p \in Seq(Ids) : p = ps[m] /\ Len(p) # 0
    <3>1. ps \in Seq(Seq(Ids)) /\ Len(ps[m]) # 0
      BY <1>1, <2>1 DEF Split
    <3> QED
      BY <1>1, <2>1, <3>1
  <2>3. p[1] \in Ids /\ p[1] \in ToSet(p)
    BY <2>2 DEF ToSet
  <2>4. m - 1 = r[p[1]]
    <3>1. p[1] \in ToSet(ps[(m - 1) + 1])
      BY <2>1, <2>2, <2>3
    <3> QED
      BY <1>1, <2>1, <2>3, <3>1, RoutesRight
  <2> QED
    BY <2>3, <2>4
<1>5. PICK S : S = {0} \cup { r[n] + 1 : n \in { i \in DOMAIN r : r[i] # NotFound } }
  OBVIOUS
<1>6. Layout(r).num_blocks = Max(S)
  BY <1>5 DEF Layout
<1>7. { i \in DOMAIN r : r[i] # NotFound } = Ids
  BY <1>2 DEF Routes
<1>8. S \in SUBSET Int /\ m \in S /\ \A y \in S : y <= m
  <2>1. ASSUME NEW y \in S PROVE y \in Int /\ y <= m
    <3>1. y = 0 \/ \E n \in Ids : y = r[n] + 1
      BY <1>5, <1>7
    <3> QED
      BY <1>2, <3>1
  <2>2. r[x] + 1 = m
    BY <1>3, <1>4
  <2>3. r[x] + 1 \in S
    BY <1>5, <1>7
  <2> QED
    BY <2>1, <2>2, <2>3
<1>9. Max(S) = m
  BY <1>8, MaxIs
<1>10. \A n \in Ids : GetBlockId(Layout(r), n) = r[n]
  BY DEF GetBlockId, Layout, Routes
<1> QED
  BY <1>1, <1>2, <1>6, <1>9, <1>10

-----------------------------------------------------------------------------
(* The file of vectors.                                                    *)

\* Blocks of vectors only, as they fit.
VecPlans(ps) ==
  /\ Split(ps)
  /\ \A k \in 1 .. Len(ps) : 4 + Len(ps[k]) + Len(ps[k]) * Dim <= VecRoom

LEMMA VecPlansAre ==
  ASSUME NEW g, IsGraph(g)
  PROVE  VecPlans(VecOnlyPlans(g, VecRoom))
<1>1. PICK u \in Nat : u = 1 + Dim
  BY NIs
<1>2. VecRoom \in Nat /\ 4 + u <= VecRoom
  <2>1. VecRoom \in Nat /\ 5 + Dim <= VecRoom
    BY PipelineAssumption
  <2> QED
    BY <1>1, <2>1, NIs
<1>3. PICK sizes : sizes = [i \in 1 .. N |-> u]
  OBVIOUS
<1>4. sizes \in Seq(Nat) /\ Len(sizes) = N /\ \A i \in 1 .. N : sizes[i] = u
  BY <1>3, NIs
<1>5. PICK cum : Sums(sizes, cum)
  BY <1>4, SumsExist
<1>6. PICK ps : ps = Pack(sizes, 4, VecRoom)
  OBVIOUS
<1>7. VecOnlyPlans(g, VecRoom) = ps
  <2>1. g.num_nodes = N /\ g.dim = Dim
    BY DEF IsGraph
  <2> QED
    BY <1>1, <1>3, <1>6, <2>1 DEF VecOnlyPlans
<1>8. Packed(ps, N, 4, VecRoom, cum)
  <2>1. \A i \in 1 .. Len(sizes) : 4 + sizes[i] <= VecRoom
    BY <1>2, <1>4
  <2>2. Packed(ps, Len(sizes), 4, VecRoom, cum)
    BY <1>2, <1>4, <1>5, <1>6, <2>1, PackIs
  <2> QED
    BY <1>4, <2>2
<1>9. Split(ps)
  BY <1>8, SplitIs
<1>10. ASSUME NEW k \in 1 .. Len(ps)
       PROVE  4 + Len(ps[k]) + Len(ps[k]) * Dim <= VecRoom
  <2>1. PICK p \in Seq(Ids) : p = ps[k]
    <3>1. ps \in Seq(Seq(Ids))
      BY <1>9 DEF Split
    <3> QED
      BY <3>1
  <2>2. Part(p, Len(sizes), 4, VecRoom, cum)
    BY <1>4, <1>8, <2>1 DEF Packed
  <2>3. PICK m \in Nat : m = Len(p)
    OBVIOUS
  <2>4. PICK lists : lists = [j \in 1 .. m |-> <<>>]
    OBVIOUS
  <2>5. lists \in Seq(Seq(Int)) /\ Len(lists) = m /\ \A j \in 1 .. m : Len(lists[j]) = 0
    BY <2>4
  <2>6. SizesAre(sizes, p, u, lists)
    <3>1. \A j \in 1 .. m : p[j] + 1 \in 1 .. N
      BY <2>1, <2>3, NIs DEF Ids
    <3>2. \A j \in 1 .. m : sizes[p[j] + 1] = u + Len(lists[j])
      <4>1. u + 0 = u
        OBVIOUS
      <4>2. TAKE j \in 1 .. m
      <4>3. sizes[p[j] + 1] = u /\ Len(lists[j]) = 0
        BY <1>4, <2>5, <3>1
      <4> QED
        BY <4>1, <4>3
    <3> QED
      BY <2>3, <2>5, <3>2 DEF SizesAre
  <2>7. PICK l \in Nat : l = Len(FlattenSeq(lists))
    BY <2>5, FlattenSeqHolds
  <2>8. 4 + Len(p) * u + Len(FlattenSeq(lists)) <= VecRoom
    <3>1. 4 \in Nat
      OBVIOUS
    <3> QED
      BY <1>2, <1>4, <1>5, <2>2, <2>6, <3>1, PartSize
  <2>9. PICK x \in Nat : x = m * Dim
    BY NIs
  <2>10. m * u = m + x
    BY <1>1, <2>9, NIs
  <2>11. 4 + (m + x) + l <= VecRoom
    BY <2>3, <2>7, <2>8, <2>10
  <2>12. 4 + m + x <= VecRoom
    BY <1>2, <2>11
  <2> QED
    BY <2>1, <2>3, <2>9, <2>12
<1> QED
  BY <1>7, <1>9, <1>10 DEF VecPlans

LEMMA VecRouteIs ==
  ASSUME NEW g, IsGraph(g), NEW ps, ps = VecOnlyPlans(g, VecRoom), Split(ps)
  PROVE  Routes(VecOnlyRoute(g, VecRoom), ps)
<1>1. PICK m \in Nat : m = Len(ps) /\ DOMAIN ps = 1 .. m
  BY DEF Split
<1>2. Nodes(g) = Ids
  BY DEF IsGraph, Nodes, Ids
<1>3. PICK r : r = [n \in Ids |-> (CHOOSE b \in 1 .. m : n \in ToSet(ps[b])) - 1]
  OBVIOUS
<1>4. VecOnlyRoute(g, VecRoom) = r
  BY <1>1, <1>2, <1>3 DEF VecOnlyRoute
<1>5. ASSUME NEW n \in Ids PROVE r[n] \in 0 .. m - 1 /\ n \in ToSet(ps[r[n] + 1])
  <2>1. \E b \in 1 .. m : n \in ToSet(ps[b])
    BY <1>1, OneBlock
  <2>2. PICK b \in 1 .. m : b = (CHOOSE c \in 1 .. m : n \in ToSet(ps[c])) /\ n \in ToSet(ps[b])
    BY <2>1
  <2>3. r[n] = b - 1 /\ (b - 1) + 1 = b
    BY <1>3, <2>2
  <2> QED
    BY <2>2, <2>3
<1> QED
  BY <1>1, <1>3, <1>4, <1>5 DEF Routes

\* Every block with its nodes, in any order.
Shuffled(ids, ps) ==
  /\ ids \in Seq(Seq(Ids)) /\ Len(ids) = Len(ps)
  /\ \A k \in 1 .. Len(ps) : /\ Len(ids[k]) = Len(ps[k]) /\ IsInjective(ids[k])
                             /\ ToSet(ids[k]) = ToSet(ps[k])

LEMMA UnshuffledIs ==
  ASSUME NEW ps, Split(ps)
  PROVE  Shuffled(ps, ps)
<1>1. ASSUME NEW k \in 1 .. Len(ps) PROVE IsInjective(ps[k])
  <2>1. PICK p \in Seq(Ids) : p = ps[k]
    <3>1. ps \in Seq(Seq(Ids))
      BY DEF Split
    <3> QED
      BY <3>1
  <2>2. PICK a \in Nat : a = p[1] /\ \A j \in 1 .. Len(p) : p[j] = a + j - 1
    BY <2>1 DEF Split
  <2>3. \A i, j \in 1 .. Len(p) : p[i] = p[j] => i = j
    BY <2>2
  <2>4. IsInjective(p)
    BY <2>3 DEF IsInjective
  <2> QED
    BY <2>1, <2>4
<1> QED
  BY <1>1 DEF Split, Shuffled

\* The blocks of a file of vectors.
VecImages(ids, n, vectors) ==
  [k \in 1 .. n |-> Padded(VecOnlyBlock(k - 1, ids[k], vectors), VecRoom)]

VecHeader(n) == FileHeader(FORMAT_VERSION_VEC_ONLY, VecRoom, n)

Headed(f, n) == SubSeq(f, 1, Page) = VecHeader(n)

VecFile(f, ids, ps, vectors) ==
  Shuffled(ids, ps) /\ IsFileOf(f, FORMAT_VERSION_VEC_ONLY, VecImages(ids, Len(ps), vectors), VecRoom)

LEMMA VecImagesAre ==
  ASSUME NEW ps, VecPlans(ps), NEW ids, Shuffled(ids, ps), NEW vectors, VectorsFit(vectors),
         NEW n, n = Len(ps), NEW bs, bs = VecImages(ids, n, vectors)
  PROVE  /\ EvenBlocks(bs, VecRoom) /\ Len(bs) = n /\ n \in Nat
         /\ \A k \in 1 .. n :
              /\ ids[k] \in Seq(Ids) /\ 4 + Len(ids[k]) + Len(ids[k]) * Dim <= VecRoom
              /\ VecBlock(bs[k], ids[k], vectors) /\ bs[k][1] = k - 1
              /\ VecOnlyBlock(k - 1, ids[k], vectors) \in Seq(Int)
              /\ Len(VecOnlyBlock(k - 1, ids[k], vectors)) <= VecRoom
<1>1. n \in Nat
  BY DEF VecPlans, Split
<1>2. ASSUME NEW k \in 1 .. n
      PROVE  /\ ids[k] \in Seq(Ids) /\ 4 + Len(ids[k]) + Len(ids[k]) * Dim <= VecRoom
             /\ bs[k] = Padded(VecOnlyBlock(k - 1, ids[k], vectors), VecRoom)
             /\ bs[k] \in Seq(Int) /\ Len(bs[k]) = VecRoom
             /\ VecBlock(bs[k], ids[k], vectors) /\ bs[k][1] = k - 1
             /\ VecOnlyBlock(k - 1, ids[k], vectors) \in Seq(Int)
             /\ Len(VecOnlyBlock(k - 1, ids[k], vectors)) <= VecRoom
  <2>1. PICK s \in Seq(Ids) : s = ids[k]
    <3>1. ids \in Seq(Seq(Ids)) /\ k \in 1 .. Len(ids)
      BY DEF Shuffled
    <3> QED
      BY <3>1
  <2>2. 4 + Len(s) + Len(s) * Dim <= VecRoom
    BY <2>1 DEF VecPlans, Shuffled
  <2>3. PICK base : base = Padded(VecOnlyBlock(k - 1, s, vectors), VecRoom)
    OBVIOUS
  <2>4. bs[k] = base
    BY <2>1, <2>3 DEF VecImages
  <2>5. k - 1 \in Nat /\ VecRoom \in Nat
    BY <1>1, PipelineAssumption
  <2>6. /\ VecOnlyBlock(k - 1, s, vectors) \in Seq(Int)
        /\ Len(VecOnlyBlock(k - 1, s, vectors)) = 4 + Len(s) + Len(s) * Dim
        /\ Len(base) = VecRoom /\ VecBlock(base, s, vectors) /\ base[1] = k - 1
    BY <2>2, <2>3, <2>5, VecBlockIs
  <2>7. base \in Seq(Int)
    BY <2>6 DEF VecBlock
  <2> QED
    BY <2>1, <2>2, <2>3, <2>4, <2>6, <2>7
<1>3. bs \in Seq(Seq(Int)) /\ Len(bs) = n
  <2>1. bs = [k \in 1 .. n |-> Padded(VecOnlyBlock(k - 1, ids[k], vectors), VecRoom)]
    BY DEF VecImages
  <2> QED
    BY <1>1, <1>2, <2>1
<1> QED
  BY <1>1, <1>2, <1>3 DEF EvenBlocks

LEMMA VecFileNew ==
  ASSUME NEW g, IsGraph(g), NEW b, Renumbers(b), NEW ps, ps = VecOnlyPlans(g, VecRoom)
  PROVE  VecFile(VecOnlyBlocks(g, b, VecRoom), ps, ps, NewVectors(g, b))
<1>1. PICK vectors : vectors = NewVectors(g, b)
  OBVIOUS
<1>2. VecPlans(ps) /\ Split(ps) /\ Shuffled(ps, ps) /\ VectorsFit(vectors)
  BY <1>1, VecPlansAre, UnshuffledIs, NewIs DEF VecPlans
<1>3. PICK n \in Nat : n = Len(ps) /\ DOMAIN ps = 1 .. n
  BY <1>2 DEF Split
<1>4. PICK blocks : blocks = [k \in 1 .. n |-> VecOnlyBlock(k - 1, ps[k], vectors)]
  OBVIOUS
<1>5. PICK bs : bs = VecImages(ps, n, vectors)
  OBVIOUS
<1>6. VecOnlyBlocks(g, b, VecRoom) = BlocksFile(FORMAT_VERSION_VEC_ONLY, VecRoom, blocks)
  BY <1>1, <1>3, <1>4 DEF VecOnlyBlocks
<1>7. \A k \in 1 .. n : /\ VecOnlyBlock(k - 1, ps[k], vectors) \in Seq(Int)
                        /\ Len(VecOnlyBlock(k - 1, ps[k], vectors)) <= VecRoom
  BY <1>2, <1>3, <1>5, VecImagesAre
<1>8. blocks \in Seq(Seq(Int)) /\ Len(blocks) = n
  BY <1>4, <1>7
<1>9. BlocksFit(blocks, VecRoom)
  BY <1>4, <1>7, <1>8 DEF BlocksFit
<1>10. bs = [k \in 1 .. n |-> Padded(blocks[k], VecRoom)]
  BY <1>4, <1>5 DEF VecImages
<1>11. IsFileOf(BlocksFile(FORMAT_VERSION_VEC_ONLY, VecRoom, blocks), FORMAT_VERSION_VEC_ONLY, bs, VecRoom)
  <2>1. VecRoom \in Nat /\ DOMAIN blocks = 1 .. n
    BY <1>8, PipelineAssumption
  <2>2. Len(bs) = n
    BY <1>8, <1>9, <1>10, <2>1, EvenBlocksAre
  <2>3. BlocksFile(FORMAT_VERSION_VEC_ONLY, VecRoom, blocks)
          = FileHeader(FORMAT_VERSION_VEC_ONLY, VecRoom, n) \o FlattenSeq(bs)
    BY <1>8, <1>10, <2>1 DEF BlocksFile, FileHeader
  <2> QED
    BY <2>2, <2>3 DEF IsFileOf
<1> QED
  BY <1>1, <1>2, <1>3, <1>5, <1>6, <1>11 DEF VecFile

LEMMA VecImagesFound ==
  ASSUME NEW ps, VecPlans(ps), NEW ids, NEW vectors, VectorsFit(vectors),
         NEW f, VecFile(f, ids, ps, vectors), NEW n, n = Len(ps),
         NEW bs, bs = VecImages(ids, n, vectors)
  PROVE  /\ Shuffled(ids, ps) /\ n \in Nat /\ Len(bs) = n
         /\ Found(f, FORMAT_VERSION_VEC_ONLY, bs, VecRoom)
<1>1. Shuffled(ids, ps)
  BY DEF VecFile
<1>2. EvenBlocks(bs, VecRoom) /\ Len(bs) = n /\ n \in Nat
  BY <1>1, VecImagesAre
<1>3. IsFileOf(f, FORMAT_VERSION_VEC_ONLY, bs, VecRoom) /\ VecRoom \in Nat
  BY PipelineAssumption DEF VecFile
<1> QED
  BY <1>1, <1>2, <1>3, BlocksFound DEF FORMAT_VERSION_VEC_ONLY

LEMMA VecFileFound ==
  ASSUME NEW ps, VecPlans(ps), NEW ids, NEW vectors, VectorsFit(vectors),
         NEW f, VecFile(f, ids, ps, vectors), NEW n, n = Len(ps)
  PROVE  /\ NumBlocks(f) = n /\ n \in Nat /\ Shuffled(ids, ps)
         /\ f \in Seq(Int) /\ Headed(f, n)
         /\ \A c \in 0 .. n - 1 :
              /\ c + 1 \in 1 .. n
              /\ BlockOf(f, c) = VecImages(ids, n, vectors)[c + 1]
              /\ VecBlock(BlockOf(f, c), ids[c + 1], vectors)
<1>1. PICK bs : bs = VecImages(ids, n, vectors)
  OBVIOUS
<1>2. /\ Shuffled(ids, ps) /\ n \in Nat /\ Len(bs) = n
      /\ Found(f, FORMAT_VERSION_VEC_ONLY, bs, VecRoom)
  BY <1>1, VecImagesFound
<1>3. \A k \in 1 .. n : VecBlock(bs[k], ids[k], vectors)
  BY <1>1, <1>2, VecImagesAre
<1>4. /\ NumBlocks(f) = n /\ f \in Seq(Int) /\ Headed(f, n)
      /\ \A c \in 0 .. n - 1 : c + 1 \in 1 .. n /\ BlockOf(f, c) = bs[c + 1]
  BY <1>2 DEF Found, Headed, VecHeader
<1> QED
  BY <1>1, <1>2, <1>3, <1>4

\* A block in another order is the block that is made of the other order.
LEMMA ReorderedIs ==
  ASSUME NEW vectors, VectorsFit(vectors), NEW ids \in Seq(Ids), NEW b \in Nat, NEW room \in Nat,
         4 + Len(ids) + Len(ids) * Dim <= room,
         NEW order \in PermutationsOf(Len(ids)),
         NEW other, other = [i \in 1 .. Len(ids) |-> ids[order[i]]]
  PROVE  /\ other \in Seq(Ids) /\ Len(other) = Len(ids)
         /\ Reordered(Padded(VecOnlyBlock(b, ids, vectors), room), order)
              = Padded(VecOnlyBlock(b, other, vectors), room)
<1>1. PICK n \in Nat : n = Len(ids) /\ DOMAIN ids = 1 .. n
  OBVIOUS
<1>2. order \in [1 .. n -> 1 .. n] /\ DOMAIN order = 1 .. n /\ Len(order) = n
  BY <1>1 DEF PermutationsOf
<1>3. other \in Seq(Ids) /\ Len(other) = n /\ \A i \in 1 .. n : other[i] = ids[order[i]]
  BY <1>1, <1>2
<1>4. PICK m \in Nat : m = n * Dim
  BY NIs
<1>5. PICK blk : blk = VecOnlyBlock(b, ids, vectors)
  OBVIOUS
<1>6. PICK base : base = Padded(blk, room)
  OBVIOUS
<1>7. /\ blk \in Seq(Int) /\ Len(blk) = 4 + n + m
      /\ base \in Seq(Int) /\ Len(base) = room
      /\ base[1] = b /\ base[2] = n /\ base[3] = 4 * (4 + n) /\ base[4] = FLAG_VEC_ONLY
      /\ Holds(base, 4, ids) /\ Holds(base, 4 + n, Flattened(vectors, ids))
  <2>1. /\ blk \in Seq(Int) /\ Len(blk) = 4 + Len(ids) + Len(ids) * Dim
        /\ Len(base) = room /\ VecBlock(base, ids, vectors) /\ base[1] = b
    BY <1>5, <1>6, VecBlockIs
  <2> QED
    BY <1>1, <1>4, <2>1 DEF VecBlock
<1>8. PICK h : h = <<b, n, 4 * (4 + n), FLAG_VEC_ONLY>>
  OBVIOUS
<1>9. h \in Seq(Int) /\ Len(h) = 4
  BY <1>1, <1>8 DEF FLAG_VEC_ONLY
<1>10. SubSeq(base, 1, 4) = h
  <2>1. 4 <= Len(base)
    BY <1>1, <1>4, <1>7
  <2>2. \A i \in 1 .. 4 : base[0 + i] = h[i]
    <3>1. h[1] = b /\ h[2] = n /\ h[3] = 4 * (4 + n) /\ h[4] = FLAG_VEC_ONLY
      BY <1>8
    <3>2. \A i \in 1 .. 4 : 0 + i = i /\ (i = 1 \/ i = 2 \/ i = 3 \/ i = 4)
      OBVIOUS
    <3> QED
      BY <1>7, <3>1, <3>2
  <2>3. Holds(base, 0, h)
    BY <1>9, <2>1, <2>2 DEF Holds
  <2> QED
    BY <1>7, <1>9, <2>3, StartsWith
<1>11. [i \in DOMAIN order |-> base[4 + order[i]]] = other
  <2>1. \A i \in 1 .. n : base[4 + order[i]] = other[i]
    <3>1. TAKE i \in 1 .. n
    <3>2. order[i] \in 1 .. n
      BY <1>2
    <3>3. base[4 + order[i]] = ids[order[i]]
      BY <1>1, <1>7, <3>2 DEF Holds
    <3> QED
      BY <1>3, <3>3
  <2> QED
    BY <1>1, <1>2, <2>1
<1>12. base[3] \div 4 = 4 + n
  BY <1>7
<1>13. SubSeq(base, 5 + n, 4 + n) = <<>>
  BY <1>7
<1>14. PICK v \in Seq(Int) : v = Flattened(vectors, ids) /\ Len(v) = m
  BY <1>1, <1>4, VectorsFlat DEF VectorsFit
<1>15. PICK w \in Seq(Int) : w = Flattened(vectors, other)
  BY <1>3, VectorsFlat DEF VectorsFit
<1>16. FlattenSeq([i \in DOMAIN order |-> VectorAt(base, (4 + n) + (order[i] - 1) * Dim)]) = w
  <2>1. ASSUME NEW i \in 1 .. n
        PROVE  VectorAt(base, (4 + n) + (order[i] - 1) * Dim) = vectors[other[i]]
    <3>1. PICK j \in 1 .. n : j = order[i]
      BY <1>2
    <3>2. PICK x \in Seq(Int) : x = vectors[ids[j]] /\ Len(x) = Dim
      BY <1>1 DEF VectorsFit
    <3>3. PICK a \in Nat : a = (j - 1) * Dim
      <4>1. j - 1 \in Nat
        BY <1>1
      <4>2. (j - 1) * Dim \in Nat
        BY <4>1, NIs
      <4> QED
        BY <4>2
    <3>4. Holds(v, a, x)
      BY <1>1, <1>14, <3>2, <3>3, VectorsFlat DEF VectorsFit
    <3>5. Holds(base, (4 + n) + a, x)
      BY <1>7, <1>14, <3>2, <3>4, HoldsPart
    <3>6. SubSeq(base, ((4 + n) + a) + 1, ((4 + n) + a) + Len(x)) = x
      BY <1>7, <3>2, <3>5, HoldsSubSeq
    <3> QED
      BY <1>3, <3>1, <3>2, <3>3, <3>6 DEF VectorAt
  <2>2. [i \in DOMAIN order |-> VectorAt(base, (4 + n) + (order[i] - 1) * Dim)]
          = [i \in DOMAIN other |-> vectors[other[i]]]
    <3>1. DOMAIN other = 1 .. n
      BY <1>3
    <3> QED
      BY <1>2, <2>1, <3>1
  <2> QED
    BY <1>15, <2>2 DEF Flattened
<1>17. PICK z : z = Zeros(room - (4 + n + m))
  OBVIOUS
<1>18. SubSeq(base, (4 + n) + m + 1, room) = z
  <2>1. PICK k \in Nat : k = room - (4 + n + m) /\ (4 + n + m) + k = room
    <3>1. 4 + n + m <= room
      BY <1>1, <1>4
    <3>2. room - (4 + n + m) \in Nat /\ (4 + n + m) + (room - (4 + n + m)) = room
      BY <3>1
    <3> QED
      BY <3>2
  <2>2. z \in Seq(Int) /\ Len(z) = k
    BY <1>17, <2>1 DEF Zeros
  <2>3. base = blk \o z
    BY <1>6, <1>7, <1>17, <2>1 DEF Padded
  <2>4. Holds(base, Len(blk), z)
    BY <1>7, <2>2, <2>3, HoldsConcat
  <2>5. SubSeq(base, Len(blk) + 1, Len(blk) + Len(z)) = z
    BY <1>7, <2>2, <2>4, HoldsSubSeq
  <2> QED
    BY <1>7, <2>1, <2>2, <2>5
<1>19. Reordered(base, order) = h \o other \o <<>> \o w \o z
  <2>1. Reordered(base, order)
          = SubSeq(base, 1, 4) \o [i \in DOMAIN order |-> base[4 + order[i]]]
            \o SubSeq(base, 5 + n, 4 + n)
            \o FlattenSeq([i \in DOMAIN order |-> VectorAt(base, (4 + n) + (order[i] - 1) * Dim)])
            \o SubSeq(base, (4 + n) + n * Dim + 1, Len(base))
    BY <1>2, <1>12 DEF Reordered
  <2> QED
    BY <1>4, <1>7, <1>10, <1>11, <1>13, <1>16, <1>18, <2>1
<1>20. h \o other \o <<>> = h \o other
  <2>1. h \o other \in Seq(Int)
    BY <1>3, <1>9, IdsAreInts, HoldsConcat
  <2> QED
    BY <2>1
<1>21. VecOnlyBlock(b, other, vectors) = h \o other \o w
  BY <1>3, <1>8, <1>15 DEF VecOnlyBlock
<1>22. Len(VecOnlyBlock(b, other, vectors)) = 4 + n + m
  <2>1. PICK o \in Seq(Ids) : o = other /\ Len(o) = n
    BY <1>3
  <2>2. PICK c : c = Padded(VecOnlyBlock(b, o, vectors), room)
    OBVIOUS
  <2>3. 4 + Len(o) + Len(o) * Dim <= room
    BY <1>1, <2>1
  <2>4. Len(VecOnlyBlock(b, o, vectors)) = 4 + Len(o) + Len(o) * Dim
    BY <2>2, <2>3, VecBlockIs
  <2> QED
    BY <1>4, <2>1, <2>4
<1>23. Padded(VecOnlyBlock(b, other, vectors), room) = h \o other \o w \o z
  BY <1>17, <1>21, <1>22 DEF Padded
<1> QED
  BY <1>1, <1>3, <1>5, <1>6, <1>19, <1>20, <1>23

\* Orders for the blocks of a file.
OrdersFor(orders, ids, n) == \A k \in 1 .. n : orders[k] \in PermutationsOf(Len(ids[k]))

InOrders(ids, orders, n) == [k \in 1 .. n |-> [i \in 1 .. Len(ids[k]) |-> ids[k][orders[k][i]]]]

LEMMA ShuffledAgain ==
  ASSUME NEW ps, Split(ps), NEW ids, Shuffled(ids, ps), NEW n, n = Len(ps),
         NEW orders, OrdersFor(orders, ids, n)
  PROVE  Shuffled(InOrders(ids, orders, n), ps)
<1>1. n \in Nat /\ ids \in Seq(Seq(Ids)) /\ Len(ids) = n
  BY DEF Split, Shuffled
<1>2. PICK others : others = InOrders(ids, orders, n)
  OBVIOUS
<1>3. ASSUME NEW k \in 1 .. n
      PROVE  /\ others[k] \in Seq(Ids) /\ Len(others[k]) = Len(ps[k]) /\ IsInjective(others[k])
             /\ ToSet(others[k]) = ToSet(ps[k])
  <2>1. PICK s \in Seq(Ids) : s = ids[k]
    BY <1>1
  <2>2. PICK m \in Nat : m = Len(s) /\ DOMAIN s = 1 .. m
    OBVIOUS
  <2>3. PICK p \in PermutationsOf(m) : p = orders[k]
    BY <2>1, <2>2 DEF OrdersFor
  <2>4. PICK t : t = [i \in 1 .. m |-> s[p[i]]]
    OBVIOUS
  <2>5. others[k] = t
    BY <1>2, <2>1, <2>2, <2>3, <2>4 DEF InOrders
  <2>6. m = Len(ps[k]) /\ IsInjective(s) /\ ToSet(s) = ToSet(ps[k])
    BY <2>1, <2>2 DEF Shuffled
  <2>7. p \in [1 .. m -> 1 .. m] /\ IsInjective(p)
    BY DEF PermutationsOf
  <2>8. t \in Seq(Ids) /\ Len(t) = m /\ DOMAIN t = 1 .. m
    <3>1. \A i \in 1 .. m : s[p[i]] \in Ids
      BY <2>2, <2>7
    <3> QED
      BY <2>2, <2>4, <3>1
  <2>9. IsInjective(t)
    <3>1. ASSUME NEW i \in 1 .. m, NEW j \in 1 .. m, t[i] = t[j] PROVE i = j
      <4>1. s[p[i]] = s[p[j]] /\ p[i] \in 1 .. m /\ p[j] \in 1 .. m
        BY <2>4, <2>7, <3>1
      <4>2. p[i] = p[j]
        BY <2>2, <2>6, <4>1 DEF IsInjective
      <4> QED
        BY <2>7, <4>2 DEF IsInjective
    <3> QED
      BY <2>8, <3>1 DEF IsInjective
  <2>10. ToSet(t) = ToSet(s)
    <3>1. \A k2 \in 1 .. m : \E i \in 1 .. m : p[i] = k2
      BY PermutationsCover
    <3>2. ToSet(t) = { t[i] : i \in 1 .. m } /\ ToSet(s) = { s[i] : i \in 1 .. m }
      BY <2>2, <2>8 DEF ToSet
    <3>3. \A i \in 1 .. m : t[i] \in { s[j] : j \in 1 .. m }
      BY <2>4, <2>7
    <3>4. \A j \in 1 .. m : s[j] \in { t[i] : i \in 1 .. m }
      BY <2>4, <3>1
    <3> QED
      BY <3>2, <3>3, <3>4
  <2> QED
    BY <2>5, <2>6, <2>8, <2>9, <2>10
<1>4. others \in Seq(Seq(Ids)) /\ Len(others) = n
  <2>1. others = [k \in 1 .. n |-> others[k]]
    BY <1>2 DEF InOrders
  <2>2. others \in [1 .. n -> Seq(Ids)]
    BY <1>3, <2>1
  <2> QED
    BY <1>1, <2>2
<1> QED
  BY <1>2, <1>3, <1>4 DEF Shuffled

\* A file with each block in another order.
LEMMA ReorderedFileIs ==
  ASSUME NEW ps, VecPlans(ps), NEW ids, NEW vectors, VectorsFit(vectors),
         NEW f, VecFile(f, ids, ps, vectors), NEW n, n = Len(ps),
         NEW orders, OrdersFor(orders, ids, n)
  PROVE  VecFile(ReorderedFile(f, orders), InOrders(ids, orders, n), ps, vectors)
<1>1. /\ NumBlocks(f) = n /\ n \in Nat /\ Shuffled(ids, ps)
      /\ Headed(f, n)
      /\ \A c \in 0 .. n - 1 : BlockOf(f, c) = VecImages(ids, n, vectors)[c + 1]
  <2>1. PICK bs : bs = VecImages(ids, n, vectors)
    OBVIOUS
  <2>2. /\ Shuffled(ids, ps) /\ n \in Nat /\ Len(bs) = n
        /\ Found(f, FORMAT_VERSION_VEC_ONLY, bs, VecRoom)
    BY <2>1, VecImagesFound
  <2>3. /\ NumBlocks(f) = n /\ Headed(f, n)
        /\ \A c \in 0 .. n - 1 : BlockOf(f, c) = bs[c + 1]
    BY <2>2 DEF Found, Headed, VecHeader
  <2> QED
    BY <2>1, <2>2, <2>3
<1>2. PICK others : others = InOrders(ids, orders, n)
  OBVIOUS
<1>3. Shuffled(others, ps)
  BY <1>1, <1>2, ShuffledAgain DEF VecPlans
<1>4. PICK bs : bs = VecImages(others, n, vectors)
  OBVIOUS
<1>5. ASSUME NEW k \in 1 .. n
      PROVE  Reordered(BlockOf(f, k - 1), orders[k]) = bs[k]
  <2>1. PICK s : s = ids[k]
    OBVIOUS
  <2>2. s \in Seq(Ids) /\ 4 + Len(s) + Len(s) * Dim <= VecRoom
    <3>1. PICK x : x = VecImages(ids, n, vectors)
      OBVIOUS
    <3> QED
      BY <1>1, <2>1, <3>1, VecImagesAre
  <2>3. PICK p : p = orders[k]
    OBVIOUS
  <2>4. PICK t : t = [i \in 1 .. Len(s) |-> s[p[i]]]
    OBVIOUS
  <2>5. p \in PermutationsOf(Len(s))
    BY <2>1, <2>3 DEF OrdersFor
  <2>6. k - 1 \in Nat /\ k - 1 \in 0 .. n - 1 /\ (k - 1) + 1 = k /\ VecRoom \in Nat
    BY <1>1, PipelineAssumption
  <2>7. BlockOf(f, k - 1) = Padded(VecOnlyBlock(k - 1, s, vectors), VecRoom)
    BY <1>1, <2>1, <2>6 DEF VecImages
  <2>8. Reordered(Padded(VecOnlyBlock(k - 1, s, vectors), VecRoom), p)
          = Padded(VecOnlyBlock(k - 1, t, vectors), VecRoom)
    BY <2>2, <2>4, <2>5, <2>6, ReorderedIs
  <2>9. others[k] = t
    BY <1>2, <2>1, <2>3, <2>4 DEF InOrders
  <2>10. bs[k] = Padded(VecOnlyBlock(k - 1, t, vectors), VecRoom)
    BY <1>4, <2>9 DEF VecImages
  <2> QED
    BY <2>3, <2>7, <2>8, <2>10
<1>6. [b \in 1 .. n |-> Reordered(BlockOf(f, b - 1), orders[b])] = bs /\ Len(bs) = n
  <2>1. bs = [k \in 1 .. n |-> bs[k]]
    BY <1>4 DEF VecImages
  <2>2. Len(bs) = n
    BY <1>3, <1>4, VecImagesAre
  <2> QED
    BY <1>5, <2>1, <2>2
<1>7. ReorderedFile(f, orders) = VecHeader(n) \o FlattenSeq(bs)
  BY <1>1, <1>6 DEF ReorderedFile, Headed
<1> QED
  BY <1>2, <1>3, <1>4, <1>6, <1>7 DEF VecFile, IsFileOf, VecHeader

\* A function on some numbers has a greatest value there.
LEMMA GreatestOf ==
  ASSUME NEW n \in Nat, NEW S \in SUBSET (1 .. n), S # {}, NEW l \in [1 .. n -> Nat]
  PROVE  \E i \in S : \A j \in S : l[j] <= l[i]
<1> DEFINE Lt == { x \in S \X S : l[x[2]] < l[x[1]] \/ (l[x[1]] = l[x[2]] /\ x[1] < x[2]) }
<1>1. \A u \in S, v \in S : <<u, v>> \in Lt <=> l[v] < l[u] \/ (l[u] = l[v] /\ u < v)
  OBVIOUS
<1>2. \A u \in S : u \in Nat /\ l[u] \in Nat
  OBVIOUS
<1>3. IsFiniteSet(S) /\ Lt \in SUBSET (S \X S)
  <2>1. IsFiniteSet(1 .. n)
    BY FS_Interval
  <2> QED
    BY <2>1, FS_Subset
<1> HIDE DEF Lt
<1>4. \A u \in S, v \in S : u # v => <<u, v>> \in Lt \/ <<v, u>> \in Lt
  BY <1>1, <1>2
<1>5. \A u \in S, v \in S, w \in S : <<u, v>> \in Lt /\ <<v, w>> \in Lt => <<u, w>> \in Lt
  BY <1>1, <1>2
<1>6. PICK u \in S : \A v \in S \ {u} : <<u, v>> \in Lt
  BY <1>3, <1>4, <1>5, FirstExists
<1>7. \A j \in S : l[j] <= l[u]
  <2>1. TAKE j \in S
  <2>2. CASE j = u
    BY <1>2, <2>2
  <2>3. CASE j # u
    <3>1. <<u, j>> \in Lt
      BY <1>6, <2>3
    <3>2. l[j] < l[u] \/ l[u] = l[j]
      BY <1>1, <3>1
    <3> QED
      BY <1>2, <3>2
  <2> QED
    BY <2>2, <2>3
<1> QED
  BY <1>7

LEMMA MaxOf ==
  ASSUME NEW n \in Nat, NEW S \in SUBSET (1 .. n), S # {}
  PROVE  Max(S) \in S
<1>1. PICK l : l = [i \in 1 .. n |-> i]
  OBVIOUS
<1>2. l \in [1 .. n -> Nat] /\ \A i \in S : l[i] = i
  BY <1>1
<1>3. PICK m \in S : \A j \in S : l[j] <= l[m]
  BY <1>2, GreatestOf
<1>4. \A j \in S : j <= m
  BY <1>2, <1>3
<1>5. Max(S) = m
  BY <1>4, MaxIs
<1> QED
  BY <1>5

\* The next place is one that is still free.
Takes(r, s, rest, x) ==
  /\ r.order = Append(s.order, x)
  /\ \/ r = [order |-> Append(s.order, x), page |-> Append(s.page, x)]
     \/ r = [order |-> Append(s.order, x), page |-> <<x>>]
  /\ rest # {} => x \in rest
  /\ rest = {} => x = Max({})

LEMMA NextPlaceIs ==
  ASSUME NEW adj, \A x \in Ids : adj[x] \in Seq(Ids), NEW ids \in Seq(Ids),
         NEW s, NEW rest, rest = DOMAIN ids \ ToSet(s.order), NEW r, r = NextPlace(ids, adj, s)
  PROVE  \E x : Takes(r, s, rest, x)
<1>1. PICK n \in Nat : n = Len(ids) /\ DOMAIN ids = 1 .. n
  OBVIOUS
<1> DEFINE deg(i) == Len(InBlock(ids, adj, i))
           links(i) == Len(Only(InBlock(ids, adj, i), ToSet(s.page)))
           better(i, j) == links(i) > links(j) \/ (links(i) = links(j) /\ deg(i) > deg(j))
           best == { i \in rest : /\ links(i) > 0 \/ deg(i) > 0
                                  /\ \A j \in rest : ~better(j, i) }
           most == { i \in rest : \A j \in rest : deg(j) <= deg(i) }
<1>2. NextPlace(ids, adj, s)
        = IF Len(s.page) \in 1 .. VectorsPerPage - 1 /\ best # {}
          THEN [order |-> Append(s.order, Min(best)), page |-> Append(s.page, Min(best))]
          ELSE [order |-> Append(s.order, Max(most)), page |-> <<Max(most)>>]
  BY DEF NextPlace
<1>3. \A i \in 1 .. n : deg(i) \in Nat
  <2>1. TAKE i \in 1 .. n
  <2>2. PICK a \in Seq(Ids) : a = adj[ids[i]]
    <3>1. ids[i] \in Ids
      BY <1>1
    <3> QED
      BY <3>1
  <2>3. PICK m \in Nat : m = Len(a) /\ DOMAIN a = 1 .. m
    OBVIOUS
  <2>4. PICK t : t = [k \in 1 .. m |-> IF a[k] \in ToSet(ids)
                        THEN CHOOSE j \in 1 .. n : ids[j] = a[k] ELSE 0]
    OBVIOUS
  <2>5. \A k \in 1 .. m : t[k] \in Nat
    <3>1. TAKE k \in 1 .. m
    <3>2. CASE a[k] \in ToSet(ids)
      <4>1. \E j \in 1 .. n : ids[j] = a[k]
        BY <1>1, <3>2 DEF ToSet
      <4>2. t[k] \in 1 .. n
        BY <2>4, <3>2, <4>1
      <4> QED
        BY <1>1, <4>2
    <3>3. CASE a[k] \notin ToSet(ids)
      BY <2>4, <3>3
    <3> QED
      BY <3>2, <3>3
  <2>6. t \in Seq(Nat)
    BY <2>3, <2>4, <2>5
  <2>7. InBlock(ids, adj, i) = Only(t, 1 .. n)
    BY <1>1, <2>2, <2>3, <2>4 DEF InBlock
  <2>8. Only(t, 1 .. n) \in Seq(Nat \cap (1 .. n))
    BY <2>6, OnlyIs
  <2>9. Len(Only(t, 1 .. n)) \in Nat
    BY <2>8
  <2> QED
    BY <2>7, <2>9
<1> HIDE DEF deg, links, better
<1>4. best \in SUBSET Nat /\ best \subseteq rest /\ rest \in SUBSET (1 .. n) /\ most \subseteq rest
  BY <1>1
<1>5. rest # {} => most # {}
  <2>1. HAVE rest # {}
  <2>2. PICK l : l = [i \in 1 .. n |-> deg(i)]
    OBVIOUS
  <2>3. l \in [1 .. n -> Nat] /\ \A i \in rest : l[i] = deg(i)
    BY <1>3, <1>4, <2>2
  <2>4. PICK i \in rest : \A j \in rest : l[j] <= l[i]
    BY <1>4, <2>1, <2>3, GreatestOf
  <2>5. i \in most
    BY <2>3, <2>4
  <2> QED
    BY <2>5
<1>6. rest = {} => most = {} /\ best = {}
  OBVIOUS
<1> HIDE DEF best, most
<1>7. best # {} => Min(best) \in rest
  BY <1>4, MinIs
<1>8. rest # {} => Max(most) \in rest
  <2>1. most \in SUBSET (1 .. n)
    BY <1>4
  <2> QED
    BY <1>4, <1>5, <2>1, MaxOf
<1>9. CASE Len(s.page) \in 1 .. VectorsPerPage - 1 /\ best # {}
  <2>1. PICK x : x = Min(best)
    OBVIOUS
  <2>2. NextPlace(ids, adj, s) = [order |-> Append(s.order, x), page |-> Append(s.page, x)]
    BY <1>2, <1>9, <2>1
  <2>3. x \in rest /\ rest # {}
    BY <1>6, <1>7, <1>9, <2>1
  <2>4. NextPlace(ids, adj, s).order = Append(s.order, x)
    BY <2>2
  <2> QED
    BY <2>2, <2>3, <2>4 DEF Takes
<1>10. CASE ~(Len(s.page) \in 1 .. VectorsPerPage - 1 /\ best # {})
  <2>1. PICK x : x = Max(most)
    OBVIOUS
  <2>2. NextPlace(ids, adj, s) = [order |-> Append(s.order, x), page |-> <<x>>]
    BY <1>2, <1>10, <2>1
  <2>3. (rest # {} => x \in rest) /\ (rest = {} => x = Max({}))
    BY <1>6, <1>8, <2>1
  <2>4. NextPlace(ids, adj, s).order = Append(s.order, x)
    BY <2>2
  <2> QED
    BY <2>2, <2>3, <2>4 DEF Takes
<1> QED
  BY <1>9, <1>10

\* Fewer places than nodes leave one free.
LEMMA OneIsFree ==
  ASSUME NEW n \in Nat, NEW s \in Seq(1 .. n), IsInjective(s), Len(s) < n
  PROVE  (1 .. n) \ ToSet(s) # {}
<1>1. IsFiniteSet(ToSet(s)) /\ Cardinality(ToSet(s)) = Len(s)
  BY InjectiveSize
<1>2. SUFFICES ASSUME (1 .. n) \ ToSet(s) = {} PROVE FALSE
  OBVIOUS
<1>3. 1 .. n = ToSet(s)
  BY <1>2 DEF ToSet
<1>4. Cardinality(1 .. n) = n
  <2>1. ~(1 > n) /\ n - 1 + 1 = n
    OBVIOUS
  <2> QED
    BY <2>1, FS_Interval
<1> QED
  BY <1>1, <1>3, <1>4

\* The greedy order names every place once.
LEMMA GreedyOrderIs ==
  ASSUME NEW adj, \A x \in Ids : adj[x] \in Seq(Ids), NEW ids \in Seq(Ids)
  PROVE  GreedyOrder(ids, adj) \in PermutationsOf(Len(ids))
<1>1. PICK n \in Nat : n = Len(ids) /\ DOMAIN ids = 1 .. n
  OBVIOUS
<1>2. PICK X : X = (1 .. n) \cup {Max({})}
  OBVIOUS
<1> DEFINE U == [order : Seq(X), page : Seq(X)]
           put(s) == NextPlace(ids, adj, s)
           none == [order |-> <<>>, page |-> <<>>]
           Rule(f) == f = [k \in 0 .. n |-> IF k = 0 THEN none ELSE put(f[k - 1])]
           F == [k \in 1 .. n |-> [s \in U |-> put(s)]]
<1>3. GreedyOrder(ids, adj) = (CHOOSE f : Rule(f))[n].order
  BY <1>1 DEF GreedyOrder
<1>4. ASSUME NEW s \in U
      PROVE  /\ put(s) \in U
             /\ \E x : /\ put(s).order = Append(s.order, x)
                       /\ (1 .. n) \ ToSet(s.order) # {} => x \in (1 .. n) \ ToSet(s.order)
  <2>1. PICK rest : rest = (1 .. n) \ ToSet(s.order)
    OBVIOUS
  <2>2. PICK x : Takes(put(s), s, rest, x)
    <3>1. rest = DOMAIN ids \ ToSet(s.order)
      BY <1>1, <2>1
    <3>2. PICK r : r = put(s)
      OBVIOUS
    <3>3. r = NextPlace(ids, adj, s)
      BY <3>2
    <3>4. \E x : Takes(r, s, rest, x)
      BY <3>1, <3>3, NextPlaceIs
    <3> QED
      BY <3>2, <3>4
  <2>3. x \in X
    BY <1>2, <2>1, <2>2 DEF Takes
  <2>4. Append(s.order, x) \in Seq(X) /\ Append(s.page, x) \in Seq(X) /\ <<x>> \in Seq(X)
    BY <2>3
  <2>5. put(s) \in U
    <3>1. PICK a \in Seq(X), b \in Seq(X), c \in Seq(X) :
            a = Append(s.order, x) /\ b = Append(s.page, x) /\ c = <<x>>
      BY <2>4
    <3>2. [order |-> a, page |-> b] \in U /\ [order |-> a, page |-> c] \in U
      OBVIOUS
    <3>3. put(s) = [order |-> a, page |-> b] \/ put(s) = [order |-> a, page |-> c]
      BY <2>2, <3>1 DEF Takes
    <3> HIDE DEF put, U
    <3> QED
      BY <3>2, <3>3
  <2>6. put(s).order = Append(s.order, x) /\ (rest # {} => x \in rest)
    BY <2>2 DEF Takes
  <2> HIDE DEF put, U
  <2> QED
    BY <2>1, <2>5, <2>6
<1>5. none \in U
  OBVIOUS
<1> HIDE DEF put
<1>6. F \in [1 .. n -> [U -> U]]
  <2> HIDE DEF U
  <2> QED
    BY <1>4
<1>7. PICK h \in [0 .. n -> U] : h[0] = none /\ \A k \in 1 .. n : h[k] = F[k][h[k - 1]]
  <2>1. \E f \in [0 .. n -> U] : Follows(f, n, none, F)
    <3> HIDE DEF F, U, none
    <3> QED
      BY <1>5, <1>6, RecursionExists
  <2> QED
    BY <2>1 DEF Follows
<1>8. \A k \in 1 .. n : h[k] = put(h[k - 1]) /\ k \in 0 .. n /\ k - 1 \in 0 .. n
  <2>1. \A k \in 1 .. n : k \in 0 .. n /\ k - 1 \in 0 .. n
    OBVIOUS
  <2> HIDE DEF U
  <2> QED
    BY <1>7, <2>1
<1> HIDE DEF F, U
<1>9. Rule(h)
  <2>1. h = [k \in 0 .. n |-> h[k]]
    OBVIOUS
  <2>2. \A k \in 0 .. n : h[k] = IF k = 0 THEN none ELSE put(h[k - 1])
    <3>1. \A k \in 0 .. n : k # 0 => k \in 1 .. n
      OBVIOUS
    <3> QED
      BY <1>7, <1>8, <3>1
  <2> QED
    BY <2>1, <2>2
<1> DEFINE f == CHOOSE f : Rule(f)
<1>10. Rule(f)
  BY <1>9
<1>11. GreedyOrder(ids, adj) = f[n].order
  BY <1>3
<1> HIDE DEF f
<1>12. f[0] = none /\ \A k \in 1 .. n : f[k] = put(f[k - 1])
  <2>1. \A k \in 1 .. n : k \in 0 .. n /\ k # 0
    OBVIOUS
  <2>2. 0 \in 0 .. n
    OBVIOUS
  <2> HIDE DEF none
  <2> QED
    BY <1>10, <2>1, <2>2
<1> DEFINE Good(k, s) == /\ s \in U
                         /\ s.order \in Seq(1 .. n) /\ Len(s.order) = k /\ IsInjective(s.order)
<1>13. Good(0, none)
  <2>1. none.order = <<>>
    OBVIOUS
  <2>2. <<>> \in Seq(1 .. n) /\ IsInjective(<<>>) /\ Len(<<>>) = 0
    BY DEF IsInjective
  <2> HIDE DEF none
  <2> QED
    BY <1>5, <2>1, <2>2
<1>14. ASSUME NEW k \in 1 .. n, NEW s, Good(k - 1, s)
       PROVE  Good(k, put(s))
  <2>1. PICK o \in Seq(1 .. n) : o = s.order /\ Len(o) = k - 1 /\ IsInjective(o)
    BY <1>14
  <2>2. (1 .. n) \ ToSet(o) # {}
    <3>1. Len(o) < n
      BY <2>1
    <3> QED
      BY <2>1, <3>1, OneIsFree
  <2>3. PICK x \in (1 .. n) \ ToSet(o) : put(s).order = Append(o, x)
    BY <1>4, <1>14, <2>1, <2>2
  <2>4. Append(o, x) \in Seq(1 .. n) /\ Len(Append(o, x)) = Len(o) + 1 /\ IsInjective(Append(o, x))
    BY <2>1, Appended
  <2>5. Len(o) + 1 = k
    BY <2>1
  <2>6. put(s) \in U
    BY <1>4, <1>14
  <2> QED
    BY <2>3, <2>4, <2>5, <2>6
<1> HIDE DEF Good, none
<1>15. Good(n, f[n])
  <2> DEFINE Ok == [k \in 0 .. n |-> {t \in {f[k]} : Good(k, t)}]
  <2>1. f[0] \in Ok[0]
    BY <1>12, <1>13
  <2>2. \A k \in 1 .. n : f[k - 1] \in Ok[k - 1] => f[k] \in Ok[k]
    BY <1>8, <1>12, <1>14
  <2>3. \A k \in 0 .. n : f[k] \in Ok[k]
    <3> HIDE DEF Ok
    <3> QED
      BY <2>1, <2>2, StepsKeep
  <2>4. n \in 0 .. n
    OBVIOUS
  <2> QED
    BY <2>3, <2>4
<1>16. PICK o \in Seq(1 .. n) : o = f[n].order /\ Len(o) = n /\ IsInjective(o)
  BY <1>15 DEF Good
<1>17. o \in [1 .. n -> 1 .. n]
  <2>1. PICK m \in Nat : m = Len(o) /\ o \in [1 .. m -> 1 .. n]
    OBVIOUS
  <2> QED
    BY <1>16, <2>1
<1> QED
  BY <1>1, <1>11, <1>16, <1>17 DEF PermutationsOf

\* Any other order that is tried names every place once, too.
LEMMA RandomOrderIs ==
  ASSUME NEW f, NEW n, n = NumBlocks(f), NEW ids,
         \A k \in 1 .. n : Len(ids[k]) \in Nat /\ BlockOf(f, k - 1)[2] = Len(ids[k]),
         n \in Nat, NEW orders \in RandomOrders(f)
  PROVE  OrdersFor(orders, ids, n)
<1>1. PICK counts : counts = Counts(f)
  OBVIOUS
<1>2. DOMAIN counts = 1 .. n /\ \A k \in 1 .. n : counts[k] = Len(ids[k]) /\ counts[k] \in Nat
  BY <1>1 DEF Counts
<1>3. /\ orders \in [1 .. n -> UNION { PermutationsOf(m) : m \in ToSet(counts) }]
      /\ \A k \in 1 .. n : Len(orders[k]) = counts[k]
  BY <1>1 DEF RandomOrders
<1>4. ASSUME NEW k \in 1 .. n PROVE orders[k] \in PermutationsOf(Len(ids[k]))
  <2>1. PICK m \in ToSet(counts) : orders[k] \in PermutationsOf(m)
    BY <1>3
  <2>2. m \in Nat
    BY <1>2, <2>1 DEF ToSet
  <2>3. PICK o : o = orders[k] /\ o \in [1 .. m -> 1 .. m]
    BY <2>1 DEF PermutationsOf
  <2>4. Len(o) = m
    BY <2>2, <2>3
  <2>5. m = Len(ids[k])
    BY <1>2, <1>3, <2>3, <2>4
  <2> QED
    BY <2>1, <2>5
<1> QED
  BY <1>4 DEF OrdersFor

-----------------------------------------------------------------------------
(* The files fit one another.                                              *)

\* The file of vectors has every node in its place's block, in some order.
VecIsRight ==
  /\ passes \in Nat
  /\ vec_bin # NoFile =>
       /\ vec_route = VecOnlyRoute(Graph, VecRoom)
       /\ \E ids : /\ VecFile(vec_bin, ids, VecOnlyPlans(Graph, VecRoom), NewVectors(Graph, bfs_bin))
                   /\ passes = 0 => ids = VecOnlyPlans(Graph, VecRoom)

\* The blocks hold what the tools put there, and the route table is theirs.
BlocksAreRight ==
  /\ blocks_bin # NoFile => \E ps : BlocksHold(blocks_bin, ps, Graph, bfs_bin)
  /\ route_bin # NoFile => route_bin = GenRoute(blocks_bin)

\* Either way of reordering.
LEMMA OtherOrder ==
  ASSUME NEW g, IsGraph(g), NEW b, Renumbers(b), NEW ps, ps = VecOnlyPlans(g, VecRoom),
         NEW f, NEW ids, VecFile(f, ids, ps, NewVectors(g, b))
  PROVE  /\ \E others : VecFile(GreedyShuffle(f, NewAdjacency(g, b)), others, ps, NewVectors(g, b))
         /\ \A orders \in RandomOrders(f) :
              \E others : VecFile(ReorderedFile(f, orders), others, ps, NewVectors(g, b))
<1>1. PICK vectors : vectors = NewVectors(g, b)
  OBVIOUS
<1>2. PICK adj : adj = NewAdjacency(g, b)
  OBVIOUS
<1>3. VecPlans(ps) /\ VectorsFit(vectors) /\ \A x \in Ids : adj[x] \in Seq(Ids)
  BY <1>1, <1>2, VecPlansAre, NewIs DEF ListsFit
<1>4. VecFile(f, ids, ps, vectors)
  BY <1>1
<1>5. PICK n \in Nat : n = Len(ps) /\ n = NumBlocks(f)
  <2>1. PICK n : n = Len(ps)
    OBVIOUS
  <2>2. NumBlocks(f) = n /\ n \in Nat
    BY <1>3, <1>4, <2>1, VecFileFound
  <2> QED
    BY <2>1, <2>2
<1>6. /\ Shuffled(ids, ps)
      /\ \A c \in 0 .. n - 1 : VecBlock(BlockOf(f, c), ids[c + 1], vectors)
  BY <1>3, <1>4, <1>5, VecFileFound
<1>7. ASSUME NEW k \in 1 .. n
      PROVE  /\ ids[k] \in Seq(Ids) /\ Len(ids[k]) \in Nat
             /\ BlockOf(f, k - 1)[2] = Len(ids[k]) /\ VecIds(BlockOf(f, k - 1)) = ids[k]
  <2>1. ids \in Seq(Seq(Ids)) /\ Len(ids) = n
    BY <1>5, <1>6 DEF Shuffled
  <2>2. ids[k] \in Seq(Ids)
    BY <2>1
  <2>3. k - 1 \in 0 .. n - 1 /\ (k - 1) + 1 = k
    BY <1>5
  <2>4. VecBlock(BlockOf(f, k - 1), ids[k], vectors)
    BY <1>6, <2>3
  <2> QED
    BY <2>2, <2>4 DEF VecBlock
<1>8. ASSUME NEW orders, OrdersFor(orders, ids, n)
      PROVE  \E others : VecFile(ReorderedFile(f, orders), others, ps, vectors)
  BY <1>3, <1>4, <1>5, <1>8, ReorderedFileIs
<1>9. \A orders \in RandomOrders(f) :
        \E others : VecFile(ReorderedFile(f, orders), others, ps, vectors)
  <2>1. TAKE orders \in RandomOrders(f)
  <2>2. OrdersFor(orders, ids, n)
    BY <1>5, <1>7, RandomOrderIs
  <2> QED
    BY <1>8, <2>2
<1>10. \E others : VecFile(GreedyShuffle(f, adj), others, ps, vectors)
  <2>1. CASE VectorsPerPage <= 1
    BY <1>4, <2>1 DEF GreedyShuffle
  <2>2. CASE ~(VectorsPerPage <= 1)
    <3>1. PICK orders : orders = [k \in 1 .. n |-> GreedyOrder(VecIds(BlockOf(f, k - 1)), adj)]
      OBVIOUS
    <3>2. GreedyShuffle(f, adj) = ReorderedFile(f, orders)
      BY <1>5, <2>2, <3>1 DEF GreedyShuffle
    <3>3. \A k \in 1 .. n : orders[k] \in PermutationsOf(Len(ids[k]))
      BY <1>3, <1>7, <3>1, GreedyOrderIs
    <3>4. OrdersFor(orders, ids, n)
      BY <3>3 DEF OrdersFor
    <3> QED
      BY <1>8, <3>2, <3>4
  <2> QED
    BY <2>1, <2>2
<1> QED
  BY <1>1, <1>2, <1>9, <1>10

LEMMA NextVecIsRight ==
  ASSUME FilesFollow, GraphOk, BfsIsRight, VecIsRight, [PipelineNext]_pipelineVars
  PROVE  VecIsRight'
<1>1. bfs_bin # NoFile => IsGraph(Graph) /\ Renumbers(bfs_bin)
  BY OrderFollows
<1>2. CASE WriteVecOnly
  <2>1. /\ bfs_bin # NoFile /\ vec_bin' = VecOnlyBlocks(Graph, bfs_bin, VecRoom)
        /\ vec_route' = VecOnlyRoute(Graph, VecRoom)
        /\ UNCHANGED <<graph_bin, bfs_bin, passes>>
    BY <1>2 DEF WriteVecOnly, Graph
  <2>2. PICK ps : ps = VecOnlyPlans(Graph, VecRoom)
    OBVIOUS
  <2>3. VecFile(vec_bin', ps, ps, NewVectors(Graph, bfs_bin))
    BY <1>1, <2>1, <2>2, VecFileNew
  <2>4. Graph' = Graph
    BY <2>1 DEF Graph
  <2> QED
    BY <2>1, <2>2, <2>3, <2>4 DEF VecIsRight
<1>3. CASE Shuffle \/ ClusterReorder
  <2>1. /\ vec_bin # NoFile /\ passes' = passes + 1
        /\ UNCHANGED <<graph_bin, bfs_bin, vec_route>>
    BY <1>3 DEF Shuffle, ClusterReorder
  <2>2. \/ vec_bin' = GreedyShuffle(vec_bin, NewAdjacency(Graph, bfs_bin))
        \/ \E orders \in RandomOrders(vec_bin) : vec_bin' = ReorderedFile(vec_bin, orders)
    <3>1. CASE Shuffle
      BY <3>1 DEF Shuffle, Graph
    <3>2. CASE ClusterReorder
      <4>1. PICK a : \E orders \in ClusterOrders(vec_bin, a) : vec_bin' = ReorderedFile(vec_bin, orders)
        BY <3>2 DEF ClusterReorder
      <4>2. ClusterOrders(vec_bin, a) \subseteq RandomOrders(vec_bin)
        BY DEF ClusterOrders
      <4> QED
        BY <4>1, <4>2
    <3> QED
      BY <1>3, <3>1, <3>2
  <2>3. bfs_bin # NoFile
    BY <2>1 DEF FilesFollow
  <2>4. PICK ps : ps = VecOnlyPlans(Graph, VecRoom)
    OBVIOUS
  <2>5. PICK ids : VecFile(vec_bin, ids, ps, NewVectors(Graph, bfs_bin))
    BY <2>1, <2>4 DEF VecIsRight
  <2>6. \E others : VecFile(vec_bin', others, ps, NewVectors(Graph, bfs_bin))
    BY <1>1, <2>2, <2>3, <2>4, <2>5, OtherOrder
  <2>7. Graph' = Graph
    BY <2>1 DEF Graph
  <2>8. passes' \in Nat /\ passes' # 0
    BY <2>1 DEF VecIsRight
  <2>9. vec_route' = VecOnlyRoute(Graph, VecRoom)
    BY <2>1 DEF VecIsRight
  <2> QED
    BY <2>1, <2>4, <2>6, <2>7, <2>8, <2>9 DEF VecIsRight
<1>4. CASE ~WriteVecOnly /\ ~Shuffle /\ ~ClusterReorder
  <2>1. UNCHANGED <<vec_bin, vec_route, passes>>
    BY <1>4 DEF PipelineNext, pipelineVars, files, Export, Extract, Prune, ReorderNodes,
         WriteBlocks, WritePQBlocks, GenRouteTable, RunVerify, OpenIndex,
         BuildFine, LoadPQCodes, StartDescent, Walk
  <2>2. CASE vec_bin = NoFile
    BY <2>1, <2>2 DEF VecIsRight
  <2>3. CASE vec_bin # NoFile
    <3>1. UNCHANGED <<graph_bin, bfs_bin>>
      BY <2>3, FilesStay DEF FilesFollow
    <3>2. Graph' = Graph
      BY <3>1 DEF Graph
    <3> QED
      BY <2>1, <2>3, <3>1, <3>2 DEF VecIsRight
  <2> QED
    BY <2>2, <2>3
<1> QED
  BY <1>2, <1>3, <1>4

LEMMA NextBlocksAreRight ==
  ASSUME FilesFollow, GraphOk, BfsIsRight, BlocksAreRight, [PipelineNext]_pipelineVars
  PROVE  BlocksAreRight'
<1>1. bfs_bin # NoFile => IsGraph(Graph) /\ Renumbers(bfs_bin)
  BY OrderFollows
<1>2. CASE WriteBlocks \/ WritePQBlocks
  <2>1. /\ vec_bin # NoFile /\ blocks_bin = NoFile
        /\ \/ blocks_bin' = StandardBlocks(Graph, bfs_bin, StdRoom)
           \/ blocks_bin' = PQBlocks(Graph, bfs_bin, PQRoom)
        /\ UNCHANGED <<graph_bin, bfs_bin, route_bin>>
    BY <1>2 DEF WriteBlocks, WritePQBlocks, Graph
  <2>2. bfs_bin # NoFile /\ route_bin' = NoFile
    BY <2>1 DEF FilesFollow
  <2>3. Graph' = Graph
    BY <2>1 DEF Graph
  <2>4. \E ps : BlocksHold(blocks_bin', ps, Graph, bfs_bin)
    BY <1>1, <2>1, <2>2, StandardFileHolds, PQFileHolds
  <2> QED
    BY <2>1, <2>2, <2>3, <2>4 DEF BlocksAreRight
<1>3. CASE GenRouteTable
  BY <1>3 DEF GenRouteTable, BlocksAreRight, Graph
<1>4. CASE ~WriteBlocks /\ ~WritePQBlocks /\ ~GenRouteTable
  <2>1. UNCHANGED <<blocks_bin, route_bin>>
    BY <1>4 DEF PipelineNext, pipelineVars, files, Export, Extract, Prune, ReorderNodes, WriteVecOnly,
         Shuffle, ClusterReorder, RunVerify, OpenIndex, BuildFine, LoadPQCodes, StartDescent, Walk
  <2>2. CASE blocks_bin = NoFile
    <3>1. route_bin = NoFile
      BY <2>2 DEF FilesFollow
    <3> QED
      BY <2>1, <2>2, <3>1 DEF BlocksAreRight
  <2>3. CASE blocks_bin # NoFile
    <3>1. UNCHANGED <<graph_bin, bfs_bin>>
      BY <2>3, FilesStay DEF FilesFollow
    <3>2. Graph' = Graph
      BY <3>1 DEF Graph
    <3> QED
      BY <2>1, <2>3, <3>1, <3>2 DEF BlocksAreRight
  <2> QED
    BY <2>2, <2>3
<1> QED
  BY <1>2, <1>3, <1>4

\* What leads to a block leads to the one that has the node.
LEMMA AllInOneBlock ==
  ASSUME FilesFollow, GraphOk, BfsIsRight, VecIsRight, BlocksAreRight
  PROVE  EveryNodeInOneBlock
<1> SUFFICES ASSUME route_bin # NoFile
             PROVE  /\ DOMAIN route_bin = Ids /\ DOMAIN vec_route = Ids
                    /\ Layout(route_bin).num_blocks = NumBlocks(blocks_bin)
                    /\ Layout(vec_route).num_blocks = NumBlocks(vec_bin)
                    /\ \A n \in Ids : \A b \in 0 .. NumBlocks(blocks_bin) - 1 :
                         (b = route_bin[n]) <=> ContainsNode(ParseBlock(BlockOf(blocks_bin, b)), n)
                    /\ \A n \in Ids : \A b \in 0 .. NumBlocks(vec_bin) - 1 :
                         (b = vec_route[n]) <=> n \in ToSet(VecIds(BlockOf(vec_bin, b)))
  BY DEF EveryNodeInOneBlock
<1>1. blocks_bin # NoFile /\ vec_bin # NoFile /\ bfs_bin # NoFile
  BY DEF FilesFollow
<1>2. PICK g : g = Graph /\ IsGraph(g) /\ Renumbers(bfs_bin)
  BY <1>1, OrderFollows
<1>3. PICK ps : BlocksHold(blocks_bin, ps, g, bfs_bin)
  BY <1>1, <1>2 DEF BlocksAreRight
<1>4. Routes(route_bin, ps) /\ Split(ps) /\ NumBlocks(blocks_bin) = Len(ps)
  BY <1>3, GenRouteIs DEF BlocksAreRight, BlocksHold
<1>5. ASSUME NEW n \in Ids, NEW b \in 0 .. NumBlocks(blocks_bin) - 1
      PROVE  (b = route_bin[n]) <=> ContainsNode(ParseBlock(BlockOf(blocks_bin, b)), n)
  <2>1. PICK m \in Nat : m = Len(ps) /\ b \in 0 .. m - 1
    BY <1>4 DEF Split
  <2>2. PICK k \in 1 .. m : k = b + 1 /\ k - 1 = b
    <3>1. b + 1 \in 1 .. m /\ (b + 1) - 1 = b
      BY <2>1
    <3> QED
      BY <3>1
  <2>3. PICK p \in Seq(Ids) : p = ps[k] /\ Len(p) # 0 /\ p[1] \in Nat
    <3>1. ps \in Seq(Seq(Ids))
      BY <1>4 DEF Split
    <3>2. ps[k] \in Seq(Ids)
      BY <2>1, <3>1
    <3> QED
      BY <1>4, <2>1, <3>2 DEF Split
  <2>4. PICK base : base = BlockOf(blocks_bin, b)
    OBVIOUS
  <2>5. BlockHolds(base, p, g, bfs_bin)
    BY <1>3, <2>1, <2>2, <2>3, <2>4 DEF BlocksHold
  <2>6. PICK l \in Nat : l = Len(p)
    OBVIOUS
  <2>7. ParseBlock(base).node_count = l /\ ParseBlock(base).first_node_id = p[1]
    BY <2>3, <2>5, <2>6, BlockParses
  <2>8. n \in Int
    BY NIs DEF Ids
  <2>9. n \in ToSet(p) <=> p[1] <= n /\ n < p[1] + l
    BY <1>4, <2>1, <2>3, <2>6, <2>8, InPart
  <2>10. b = route_bin[n] <=> n \in ToSet(ps[b + 1])
    BY <1>4, <2>1, RoutesRight
  <2> QED
    BY <2>2, <2>3, <2>4, <2>7, <2>9, <2>10 DEF ContainsNode
<1>6. PICK vps : vps = VecOnlyPlans(g, VecRoom)
  OBVIOUS
<1>7. PICK vectors : vectors = NewVectors(g, bfs_bin)
  OBVIOUS
<1>8. PICK ids : VecFile(vec_bin, ids, vps, vectors)
  BY <1>1, <1>2, <1>6, <1>7 DEF VecIsRight
<1>9. VecPlans(vps) /\ VectorsFit(vectors) /\ Split(vps)
  BY <1>2, <1>6, <1>7, VecPlansAre, NewIs DEF VecPlans
<1>10. Routes(vec_route, vps)
  <2>1. vec_route = VecOnlyRoute(g, VecRoom)
    BY <1>1, <1>2 DEF VecIsRight
  <2> QED
    BY <1>2, <1>6, <1>9, <2>1, VecRouteIs
<1>11. PICK m \in Nat : m = Len(vps) /\ NumBlocks(vec_bin) = m
  <2>1. PICK m : m = Len(vps)
    OBVIOUS
  <2>2. NumBlocks(vec_bin) = m /\ m \in Nat
    BY <1>8, <1>9, <2>1, VecFileFound
  <2> QED
    BY <2>1, <2>2
<1>12. /\ Shuffled(ids, vps)
       /\ \A c \in 0 .. m - 1 : VecBlock(BlockOf(vec_bin, c), ids[c + 1], vectors)
  BY <1>8, <1>9, <1>11, VecFileFound
<1>13. ASSUME NEW n \in Ids, NEW b \in 0 .. NumBlocks(vec_bin) - 1
       PROVE  (b = vec_route[n]) <=> n \in ToSet(VecIds(BlockOf(vec_bin, b)))
  <2>1. b \in 0 .. m - 1 /\ b + 1 \in 1 .. m
    BY <1>11
  <2>2. VecIds(BlockOf(vec_bin, b)) = ids[b + 1]
    BY <1>12, <2>1 DEF VecBlock
  <2>3. ToSet(ids[b + 1]) = ToSet(vps[b + 1])
    BY <1>11, <1>12, <2>1 DEF Shuffled
  <2>4. b = vec_route[n] <=> n \in ToSet(vps[b + 1])
    BY <1>9, <1>10, <1>11, <2>1, RoutesRight
  <2> QED
    BY <2>2, <2>3, <2>4
<1>14. Layout(route_bin).num_blocks = Len(ps) /\ Layout(vec_route).num_blocks = Len(vps)
  BY <1>4, <1>9, <1>10, LayoutIs
<1> QED
  BY <1>4, <1>5, <1>10, <1>11, <1>13, <1>14 DEF Routes

\* All that the tools keep.
FilesAreRight == GraphFileInv /\ FilesFollow /\ BfsIsRight /\ VecIsRight /\ BlocksAreRight

LEMMA InitFilesAreRight == PipelineInit => FilesAreRight
<1> SUFFICES ASSUME PipelineInit PROVE FilesAreRight
  OBVIOUS
<1>1. GraphFileInv /\ FilesFollow
  BY InitGraphFile, InitFollows
<1>2. BfsIsRight /\ BlocksAreRight
  BY DEF PipelineInit, BfsIsRight, BlocksAreRight
<1>3. passes \in Nat /\ vec_bin = NoFile
  BY DEF PipelineInit
<1> QED
  BY <1>1, <1>2, <1>3 DEF FilesAreRight, VecIsRight

LEMMA NextFilesAreRight == FilesAreRight /\ [PipelineNext]_pipelineVars => FilesAreRight'
<1> SUFFICES ASSUME FilesAreRight, [PipelineNext]_pipelineVars
             PROVE  FilesAreRight'
  OBVIOUS
<1>1. GraphFileInv /\ GraphOk /\ FilesFollow /\ BfsIsRight /\ VecIsRight /\ BlocksAreRight
  BY DEF FilesAreRight, GraphFileInv
<1>2. GraphFileInv' /\ FilesFollow' /\ BfsIsRight'
  BY <1>1, NextGraphFile, NextFollows, NextBfsIsRight
<1>3. VecIsRight' /\ BlocksAreRight'
  BY <1>1, NextVecIsRight, NextBlocksAreRight
<1> QED
  BY <1>2, <1>3 DEF FilesAreRight

\* The files of a pipeline fit one another: the new order is that of a
\* breadth-first search, every node is in the one block that the route tables
\* lead to, in whatever order a block has its nodes, and what a loader reads is
\* what was saved.
THEOREM FilesFit == PipelineSpec => []FilesAreInOrder
<1>1. FilesAreRight => FilesAreInOrder
  <2> SUFFICES ASSUME FilesAreRight PROVE FilesAreInOrder
    OBVIOUS
  <2>1. GraphOk /\ FilesFollow /\ BfsIsRight /\ VecIsRight /\ BlocksAreRight
    BY DEF FilesAreRight, GraphFileInv
  <2>2. OrderIsBfs /\ EveryNodeInOneBlock /\ LoadersAgree
    BY <2>1, OrderFollows, AllInOneBlock, LoadersRead
  <2> QED
    BY <2>2 DEF FilesAreInOrder
<1> QED
  BY <1>1, InitFilesAreRight, NextFilesAreRight, PTL DEF PipelineSpec

-----------------------------------------------------------------------------
(* Numbers and lists read back.                                            *)

\* What a number is made of.
Coded(c, size, v) ==
  /\ c \in Seq(Nat) /\ Len(c) = size /\ size \in 1 .. MaxBytes
  /\ \A k \in 1 .. size - 1 : c[k] >= Base /\ c[k] % Base = Shifted(v)[k - 1] % Base
  /\ c[size] < Base /\ c[size] % Base = Shifted(v)[size - 1] % Base
  /\ Shifted(v)[size] = 0

\* A number is read as it was written.
LEMMA VarintReadBack ==
  ASSUME NEW v \in Nat, v <= N - 1, NEW c, c = VarintEncode(v),
         NEW buf, NEW at \in Nat, NEW end \in Int, Holds(buf, at, c), at + Len(c) <= end
  PROVE  /\ VarintDecode(buf, at, end).size = Len(c) /\ VarintDecode(buf, at, end).value = v
         /\ Len(c) \in Nat \ {0}
<1>1. PICK size \in 1 .. MaxBytes : Coded(c, size, v)
  BY VarintIs DEF Coded
<1>2. PICK m \in Nat : m = MaxBytes /\ size \in 1 .. m
  BY <1>1, FileConstants
<1>3. PICK b \in Nat \ {0} : b = Base
  BY FileConstants
<1>4. /\ c \in Seq(Nat) /\ Len(c) = size
      /\ \A k \in 1 .. size - 1 : c[k] >= b /\ c[k] % b = Shifted(v)[k - 1] % b
      /\ c[size] < b /\ c[size] % b = Shifted(v)[size - 1] % b
      /\ Shifted(v)[size] = 0
  BY <1>1, <1>3 DEF Coded
<1>5. PICK rest \in [0 .. m -> Nat] :
        rest = Shifted(v) /\ rest[0] = v /\ \A k \in 1 .. m : rest[k] = rest[k - 1] \div b
  BY <1>2, <1>3, ShiftedIs
<1>6. \A k \in 1 .. size : buf[at + k] = c[k]
  BY <1>4 DEF Holds
<1>7. PICK last : last = { n \in 1 .. m : at + n <= end /\ buf[at + n] < b }
  OBVIOUS
<1>8. size \in last /\ \A n \in last : size <= n
  <2>1. size \in last
    BY <1>2, <1>4, <1>6, <1>7
  <2>2. ASSUME NEW n \in last, n < size PROVE FALSE
    <3>1. n \in 1 .. size - 1
      BY <1>2, <1>7, <2>2
    <3>2. buf[at + n] = c[n] /\ c[n] >= b /\ c[n] \in Nat
      <4>1. n \in 1 .. size /\ n \in 1 .. Len(c)
        BY <1>2, <1>4, <3>1
      <4>2. c[n] \in Nat
        <5>1. c \in Seq(Nat) /\ n \in 1 .. Len(c)
          BY <1>4, <4>1
        <5> QED
          BY <5>1
      <4> QED
        BY <1>4, <1>6, <3>1, <4>1, <4>2
    <3> QED
      BY <1>3, <1>7, <3>2
  <2>3. \A n \in last : n \in Int
    BY <1>7
  <2> QED
    BY <1>2, <2>1, <2>2, <2>3
<1>9. Min(last) = size
  <2>1. last \in SUBSET Nat /\ last # {}
    <3>1. \A n \in last : n \in 1 .. m
      BY <1>7
    <3>2. \A n \in 1 .. m : n \in Nat
      OBVIOUS
    <3> QED
      BY <1>8, <3>1, <3>2
  <2>2. Min(last) \in last /\ \A n \in last : Min(last) <= n
    BY <2>1, MinIs
  <2>3. PICK x \in Nat : x = Min(last)
    BY <2>1, <2>2
  <2>4. x <= size /\ size <= x
    BY <1>8, <2>2, <2>3
  <2> QED
    BY <1>2, <2>3, <2>4
<1> DEFINE Rule(f) == f = [k \in 0 .. size |-> IF k = 0 THEN 0
                             ELSE f[k - 1] * b + (buf[at + size + 1 - k] % b)]
<1>10. VarintDecode(buf, at, end) = [size |-> size, value |-> (CHOOSE f : Rule(f))[size]]
  <2>1. last # {}
    BY <1>8
  <2>2. last = { n \in 1 .. MaxBytes : at + n <= end /\ buf[at + n] < Base }
    BY <1>2, <1>3, <1>7
  <2>3. VarintDecode(buf, at, end)
          = [ size |-> Min(last),
              value |-> (CHOOSE f : f = [k \in 0 .. Min(last) |-> IF k = 0 THEN 0
                           ELSE f[k - 1] * Base + (buf[at + Min(last) + 1 - k] % Base)])[Min(last)] ]
    BY <2>1, <2>2, Zenon DEF VarintDecode
  <2> QED
    BY <1>3, <1>9, <2>3
<1>11. PICK h : h = [k \in 0 .. size |-> rest[size - k]]
  OBVIOUS
<1>12. ASSUME NEW k \in 1 .. size
       PROVE  h[k] = h[k - 1] * b + (buf[at + size + 1 - k] % b)
  <2>1. PICK j \in 1 .. size : j = size - k + 1 /\ j - 1 = size - k /\ size - (k - 1) = j
    BY <1>2
  <2>2. h[k] = rest[j - 1] /\ h[k - 1] = rest[j]
    BY <1>11, <2>1
  <2>3. at + size + 1 - k = at + j
    BY <2>1
  <2>4. buf[at + size + 1 - k] = c[j]
    BY <1>6, <2>3
  <2>5. c[j] % b = rest[j - 1] % b
    <3>1. j = size \/ j \in 1 .. size - 1
      BY <1>2
    <3> QED
      BY <1>4, <1>5, <3>1
  <2>6. PICK x \in Nat : x = rest[j - 1] /\ rest[j] = x \div b
    <3>1. j \in 1 .. m /\ j - 1 \in 0 .. m
      BY <1>2
    <3> QED
      BY <1>5, <3>1
  <2>7. (x \div b) * b + (x % b) = x
    BY DivMod
  <2> QED
    BY <2>2, <2>4, <2>5, <2>6, <2>7
<1>13. h[0] = 0
  BY <1>2, <1>4, <1>5, <1>11
<1>14. Rule(h)
  <2>1. \A k \in 0 .. size : h[k] = IF k = 0 THEN 0 ELSE h[k - 1] * b + (buf[at + size + 1 - k] % b)
    <3>1. \A k \in 0 .. size : k # 0 => k \in 1 .. size
      BY <1>2
    <3> QED
      BY <1>12, <1>13, <3>1
  <2>2. h = [k \in 0 .. size |-> h[k]]
    BY <1>11
  <2> QED
    BY <2>1, <2>2
<1> DEFINE f == CHOOSE f : Rule(f)
<1>15. Rule(f)
  BY <1>14
<1> HIDE DEF f
<1>16. GoOnAlike(f, h, size)
  <2>1. f[0] = 0 /\ \A k \in 1 .. size : f[k] = f[k - 1] * b + (buf[at + size + 1 - k] % b)
    <3>1. \A k \in 1 .. size : k \in 0 .. size /\ k # 0
      BY <1>2
    <3>2. 0 \in 0 .. size
      BY <1>2
    <3> QED
      BY <1>15, <3>1, <3>2
  <2> QED
    BY <1>12, <1>13, <2>1 DEF GoOnAlike
<1>17. f[size] = v
  <2>1. \A k \in 0 .. size : f[k] = h[k]
    BY <1>2, <1>16, SameSteps
  <2>2. size \in 0 .. size /\ size - size = 0
    BY <1>2
  <2> QED
    BY <1>5, <1>11, <2>1, <2>2
<1> QED
  BY <1>2, <1>4, <1>10, <1>17 DEF f

\* A list's numbers, one after the other.
Readable(base, at, end, s, ends) ==
  /\ ends \in [0 .. Len(s) -> Nat] /\ ends[0] = 0 /\ ends[Len(s)] = Len(DeltaEncode(s))
  /\ \A k \in 1 .. Len(s) :
       /\ ends[k - 1] < ends[k]
       /\ VarintDecode(base, at + ends[k - 1], end).size = ends[k] - ends[k - 1]
       /\ VarintDecode(base, at + ends[k - 1], end).value = Gaps(s)[k]

LEMMA CodesReadBack ==
  ASSUME NEW s \in Seq(Ids), Rising(s), NEW base \in Seq(Int), NEW at \in Nat, NEW end \in Int,
         Holds(base, at, DeltaEncode(s)), at + Len(DeltaEncode(s)) <= end
  PROVE  \E ends : Readable(base, at, end, s, ends)
<1>1. PICK n \in Nat : n = Len(s)
  OBVIOUS
<1>2. PICK cs \in Seq(Seq(Nat)) : cs = Codes(s) /\ Len(cs) = n
  BY <1>1, DeltaEncodeIs
<1>3. PICK d \in Seq(Nat) : d = DeltaEncode(s) /\ d = FlattenSeq(cs)
  BY <1>2, DeltaEncodeIs
<1>4. PICK ends \in [0 .. n -> Nat] :
        /\ ends[0] = 0 /\ ends[n] = Len(d)
        /\ \A k \in 1 .. n : ends[k] = ends[k - 1] + Len(cs[k]) /\ Holds(d, ends[k - 1], cs[k])
  <2>1. \E ends \in [0 .. Len(cs) -> Nat] :
          /\ ends[0] = 0 /\ ends[Len(cs)] = Len(FlattenSeq(cs))
          /\ \A k \in 1 .. Len(cs) : /\ ends[k] = ends[k - 1] + Len(cs[k])
                                     /\ Holds(FlattenSeq(cs), ends[k - 1], cs[k])
    BY FlattenSeqHolds
  <2>2. Len(cs) = n /\ FlattenSeq(cs) = d
    BY <1>2, <1>3
  <2> QED
    BY <2>1, <2>2, Zenon
<1>5. PICK l \in Nat : l = Len(d) /\ at + l <= end
  BY <1>3
<1>6. ASSUME NEW k \in 1 .. n
      PROVE  /\ ends[k - 1] < ends[k]
             /\ VarintDecode(base, at + ends[k - 1], end).size = ends[k] - ends[k - 1]
             /\ VarintDecode(base, at + ends[k - 1], end).value = Gaps(s)[k]
  <2>1. PICK v \in Nat : v = Gaps(s)[k] /\ v <= N - 1
    BY <1>1, GapsAre
  <2>2. PICK c \in Seq(Nat) : c = cs[k] /\ c = VarintEncode(v)
    BY <1>1, <1>2, <2>1 DEF Codes
  <2>3. PICK m \in Nat : m = Len(c)
    OBVIOUS
  <2>4. PICK a \in Nat, z \in Nat : a = ends[k - 1] /\ z = ends[k]
    <3>1. k - 1 \in 0 .. n /\ k \in 0 .. n
      BY <1>1
    <3> QED
      BY <1>4, <3>1
  <2>5. z = a + m /\ Holds(d, a, c)
    BY <1>4, <2>2, <2>3, <2>4
  <2>6. a + m <= l
    BY <1>5, <2>3, <2>5 DEF Holds
  <2>7. Holds(base, at + a, c)
    <3>1. d \in Seq(Int) /\ c \in Seq(Int) /\ Holds(base, at, d)
      <4>1. Nat \subseteq Int
        OBVIOUS
      <4> QED
        BY <1>3, <4>1, Widened
    <3> QED
      BY <2>5, <3>1, HoldsPart
  <2>8. PICK at2 \in Nat : at2 = at + a
    OBVIOUS
  <2>9. at2 + Len(c) <= end
    BY <1>5, <2>3, <2>6, <2>8
  <2>10. /\ VarintDecode(base, at2, end).size = Len(c) /\ VarintDecode(base, at2, end).value = v
         /\ Len(c) \in Nat \ {0}
    <3>1. Holds(base, at2, c)
      BY <2>7, <2>8
    <3>2. at2 \in Nat /\ end \in Int /\ v \in Nat /\ v <= N - 1 /\ c = VarintEncode(v)
      BY <2>1, <2>2
    <3> QED
      BY <2>9, <3>1, <3>2, VarintReadBack
  <2>11. a < z /\ z - a = m
    BY <2>3, <2>5, <2>10
  <2> QED
    BY <2>1, <2>3, <2>4, <2>8, <2>10, <2>11
<1> QED
  BY <1>1, <1>3, <1>4, <1>6 DEF Readable

\* A list is read as it was written.
LEMMA DeltaReadBack ==
  ASSUME NEW s \in Seq(Ids), Rising(s), NEW base \in Seq(Int), NEW at \in Nat, NEW end \in Int,
         Holds(base, at, DeltaEncode(s)), at + Len(DeltaEncode(s)) <= end,
         NEW n, n = Len(s)
  PROVE  /\ DeltaDecode(base, at, end, n).ids = s
         /\ DeltaDecode(base, at, end, n).size = Len(DeltaEncode(s))
<1>1. n \in Nat /\ DOMAIN s = 1 .. n
  OBVIOUS
<1>2. PICK ends : Readable(base, at, end, s, ends)
  BY CodesReadBack
<1>3. /\ ends \in [0 .. n -> Nat] /\ ends[0] = 0 /\ ends[n] = Len(DeltaEncode(s))
      /\ \A k \in 1 .. n :
           /\ ends[k - 1] < ends[k]
           /\ VarintDecode(base, at + ends[k - 1], end).size = ends[k] - ends[k - 1]
           /\ VarintDecode(base, at + ends[k - 1], end).value = Gaps(s)[k]
  BY <1>2 DEF Readable
<1> DEFINE decode(a) == VarintDecode(base, a, end)
           after(t) == [at |-> t.at + decode(t.at).size, id |-> t.id + decode(t.at).value]
           Rule(f) == f = [i \in 0 .. n |-> IF i = 0 THEN [at |-> at, id |-> 0] ELSE after(f[i - 1])]
           read == CHOOSE f : Rule(f)
<1>4. DeltaDecode(base, at, end, n)
        = IF \A i \in 1 .. n : decode(read[i - 1].at).size > 0
          THEN [ids |-> [i \in 1 .. n |-> read[i].id], size |-> read[n].at - at]
          ELSE [ids |-> <<>>, size |-> 0]
  BY Zenon DEF DeltaDecode
<1> HIDE DEF decode
<1>5. PICK h : h = [i \in 0 .. n |-> [at |-> at + ends[i], id |-> IF i = 0 THEN 0 ELSE s[i]]]
  OBVIOUS
<1>6. \A i \in 0 .. n : h[i].at = at + ends[i] /\ h[i].id = IF i = 0 THEN 0 ELSE s[i]
  BY <1>5
<1>7. h[0] = [at |-> at, id |-> 0]
  BY <1>1, <1>3, <1>5
<1>8. ASSUME NEW i \in 1 .. n
      PROVE  /\ h[i] = after(h[i - 1])
             /\ decode(h[i - 1].at).size > 0
  <2>1. i - 1 \in 0 .. n /\ i \in 0 .. n /\ i # 0
    BY <1>1
  <2>2. PICK a \in Nat, z \in Nat : a = ends[i - 1] /\ z = ends[i] /\ a < z
    BY <1>3, <2>1
  <2>3. decode(at + a).size = z - a /\ decode(at + a).value = Gaps(s)[i]
    BY <1>3, <2>2 DEF decode
  <2>4. PICK x \in Int : x = h[i - 1].id /\ x + Gaps(s)[i] = s[i] /\ Gaps(s)[i] \in Int
    <3>1. s[i] \in Int /\ (i # 1 => s[i - 1] \in Int)
      <4>1. i # 1 => i - 1 \in 1 .. n
        BY <1>1
      <4>2. \A k \in 1 .. n : s[k] \in Ids
        BY <1>1
      <4> QED
        BY <4>1, <4>2, NIs DEF Ids
    <3>2. CASE i = 1
      <4>1. h[i - 1].id = 0
        BY <1>6, <2>1, <3>2
      <4>2. Gaps(s)[i] = s[i]
        BY <1>1, <3>2 DEF Gaps
      <4> QED
        BY <3>1, <4>1, <4>2
    <3>3. CASE i # 1
      <4>1. h[i - 1].id = s[i - 1]
        <5>1. i - 1 # 0
          BY <3>3
        <5> QED
          BY <1>6, <2>1, <5>1
      <4>2. Gaps(s)[i] = s[i] - s[i - 1]
        BY <1>1, <3>3 DEF Gaps
      <4> QED
        BY <3>1, <3>3, <4>1, <4>2
    <3> QED
      BY <3>2, <3>3
  <2>5. h[i - 1].at = at + a
    BY <1>6, <2>1, <2>2
  <2>6. after(h[i - 1]) = [at |-> at + z, id |-> s[i]]
    <3>1. (at + a) + (z - a) = at + z
      BY <2>2
    <3> QED
      BY <2>3, <2>4, <2>5, <3>1
  <2>7. h[i] = [at |-> at + z, id |-> s[i]]
    BY <1>5, <2>1, <2>2
  <2>8. z - a > 0
    BY <2>2
  <2> QED
    BY <2>3, <2>5, <2>6, <2>7, <2>8
<1> HIDE DEF after
<1>9. Rule(h)
  <2>1. \A i \in 0 .. n : h[i] = IF i = 0 THEN [at |-> at, id |-> 0] ELSE after(h[i - 1])
    <3>1. \A i \in 0 .. n : i # 0 => i \in 1 .. n
      BY <1>1
    <3> QED
      BY <1>7, <1>8, <3>1
  <2>2. h = [i \in 0 .. n |-> h[i]]
    BY <1>5
  <2> QED
    BY <2>1, <2>2
<1>10. Rule(read)
  BY <1>9
<1> HIDE DEF read
<1>11. GoOnAlike(read, h, n)
  <2>1. read[0] = [at |-> at, id |-> 0] /\ \A i \in 1 .. n : read[i] = after(read[i - 1])
    <3>1. \A i \in 1 .. n : i \in 0 .. n /\ i # 0
      BY <1>1
    <3>2. 0 \in 0 .. n
      BY <1>1
    <3> QED
      BY <1>10, <3>1, <3>2
  <2> QED
    BY <1>7, <1>8, <2>1 DEF GoOnAlike
<1>12. \A i \in 0 .. n : read[i] = h[i]
  BY <1>1, <1>11, SameSteps
<1>13. \A i \in 1 .. n : decode(read[i - 1].at).size > 0 /\ read[i].id = s[i]
  <2>1. TAKE i \in 1 .. n
  <2>2. i \in 0 .. n /\ i - 1 \in 0 .. n /\ i # 0
    BY <1>1
  <2> QED
    BY <1>6, <1>8, <1>12, <2>2
<1>14. read[n].at - at = Len(DeltaEncode(s))
  <2>1. n \in 0 .. n
    BY <1>1
  <2>2. PICK l \in Nat : l = ends[n]
    BY <1>3, <2>1
  <2>3. read[n].at = at + l
    BY <1>6, <1>12, <2>1, <2>2
  <2>4. (at + l) - at = l
    BY <2>2
  <2> QED
    BY <1>3, <2>2, <2>3, <2>4
<1>15. [i \in 1 .. n |-> read[i].id] = s
  <2>1. s = [i \in 1 .. n |-> s[i]]
    BY <1>1
  <2> QED
    BY <1>13, <2>1
<1>16. DeltaDecode(base, at, end, n) = [ids |-> s, size |-> Len(DeltaEncode(s))]
  BY <1>4, <1>13, <1>14, <1>15
<1> QED
  BY <1>16

-----------------------------------------------------------------------------
(* The lists in memory.                                                    *)

\* A list of n numbers takes n bytes, or more.
LEMMA ShortLists ==
  ASSUME NEW n \in Nat, NEW ends \in [0 .. n -> Nat], \A k \in 1 .. n : ends[k - 1] < ends[k]
  PROVE  /\ \A k \in 0 .. n : k <= ends[k]
         /\ \A k \in 0 .. n : ends[k] <= ends[n]
<1> DEFINE Ok == [k \in 0 .. n |-> { x \in Nat : k <= x }]
<1>1. \A k \in 0 .. n : ends[k] \in Ok[k]
  <2>1. ends[0] \in Ok[0]
    OBVIOUS
  <2>2. ASSUME NEW k \in 1 .. n, ends[k - 1] \in Ok[k - 1] PROVE ends[k] \in Ok[k]
    <3>1. k - 1 \in 0 .. n /\ k \in 0 .. n
      OBVIOUS
    <3>2. PICK x \in Nat, y \in Nat : x = ends[k - 1] /\ y = ends[k] /\ x < y
      BY <3>1
    <3> QED
      BY <2>2, <3>1, <3>2
  <2> HIDE DEF Ok
  <2> QED
    BY <2>1, <2>2, StepsKeep
<1> DEFINE back == [k \in 0 .. n |-> ends[n - k]]
           Less == [k \in 0 .. n |-> { x \in Nat : x <= ends[n] }]
<1>2. \A k \in 0 .. n : back[k] \in Less[k]
  <2>1. back[0] \in Less[0]
    OBVIOUS
  <2>2. ASSUME NEW k \in 1 .. n, back[k - 1] \in Less[k - 1] PROVE back[k] \in Less[k]
    <3>1. PICK j \in 1 .. n : j = n - k + 1 /\ n - k = j - 1 /\ n - (k - 1) = j
      OBVIOUS
    <3>2. k - 1 \in 0 .. n /\ k \in 0 .. n /\ j \in 0 .. n /\ j - 1 \in 0 .. n
      OBVIOUS
    <3>3. PICK x \in Nat, y \in Nat, z \in Nat : x = ends[j - 1] /\ y = ends[j] /\ z = ends[n]
      BY <3>2
    <3>4. x < y
      BY <3>3
    <3> QED
      BY <2>2, <3>1, <3>2, <3>3, <3>4
  <2> HIDE DEF back, Less
  <2> QED
    BY <2>1, <2>2, StepsKeep
<1>3. ASSUME NEW k \in 0 .. n PROVE ends[k] <= ends[n]
  <2>1. PICK j \in 0 .. n : j = n - k /\ n - j = k
    OBVIOUS
  <2> QED
    BY <1>2, <2>1
<1>4. \A k \in 0 .. n : k <= ends[k]
  BY <1>1
<1> QED
  BY <1>3, <1>4

\* A list in memory is read as it was written.
LEMMA CsrReadBack ==
  ASSUME NEW s \in Seq(Ids), Rising(s), NEW csr, csr.bytes \in Seq(Int), NEW id,
         csr.offsets[id + 1] \in Nat,
         csr.offsets[id + 2] = csr.offsets[id + 1] + Len(DeltaEncode(s)),
         Holds(csr.bytes, csr.offsets[id + 1], DeltaEncode(s))
  PROVE  DecodeCsr(csr, id) = s
<1> DEFINE bytes == csr.bytes
           from == csr.offsets[id + 1]
           end == csr.offsets[id + 2]
           l == end - from
           decode(a) == VarintDecode(bytes, a, end)
           after(t) == IF t.at >= end \/ decode(t.at).size = 0 THEN [t EXCEPT !.at = end]
                       ELSE [ ids |-> Append(t.ids, t.prev + decode(t.at).value),
                              at |-> t.at + decode(t.at).size,
                              prev |-> t.prev + decode(t.at).value ]
           init == [ids |-> <<>>, at |-> from, prev |-> 0]
           Rule(f) == f = [i \in 0 .. l |-> IF i = 0 THEN init ELSE after(f[i - 1])]
           read == CHOOSE f : Rule(f)
<1>6. DecodeCsr(csr, id) = read[l].ids
  BY Zenon DEF DecodeCsr
<1>0. /\ bytes \in Seq(Int) /\ from \in Nat /\ end = from + Len(DeltaEncode(s))
      /\ Holds(bytes, from, DeltaEncode(s))
  OBVIOUS
<1>2. l \in Nat /\ l = Len(DeltaEncode(s)) /\ end = from + l /\ end \in Int
  <2>1. Len(DeltaEncode(s)) \in Nat
    BY DeltaEncodeIs
  <2> QED
    BY <1>0, <2>1
<1> HIDE DEF bytes, from, end, l, decode
<1>1. PICK m \in Nat : m = Len(s) /\ DOMAIN s = 1 .. m
  OBVIOUS
<1>3. PICK ends : Readable(bytes, from, end, s, ends)
  <2>1. from + Len(DeltaEncode(s)) <= end
    BY <1>2
  <2> QED
    BY <1>0, <1>2, <2>1, CodesReadBack
<1>4. /\ ends \in [0 .. m -> Nat] /\ ends[0] = 0 /\ ends[m] = l
      /\ \A k \in 1 .. m :
           /\ ends[k - 1] < ends[k]
           /\ VarintDecode(bytes, from + ends[k - 1], end).size = ends[k] - ends[k - 1]
           /\ VarintDecode(bytes, from + ends[k - 1], end).value = Gaps(s)[k]
  BY <1>1, <1>2, <1>3 DEF Readable
<1>5. m <= l /\ \A k \in 0 .. m : ends[k] <= l
  <2>1. m \in 0 .. m
    BY <1>1
  <2> QED
    BY <1>4, <2>1, ShortLists
<1> DEFINE st(i) == [ids |-> SubSeq(s, 1, i), at |-> from + ends[i], prev |-> IF i = 0 THEN 0 ELSE s[i]]
<1>7. PICK h : h = [i \in 0 .. l |-> IF i <= m THEN st(i) ELSE st(m)]
  OBVIOUS
<1>8. h[0] = init
  <2>1. SubSeq(s, 1, 0) = <<>>
    OBVIOUS
  <2> QED
    <3>1. 0 \in 0 .. l /\ 0 <= m /\ from + ends[0] = from
      BY <1>0, <1>1, <1>2, <1>4
    <3> QED
      BY <1>7, <2>1, <3>1
<1>9. ASSUME NEW i \in 1 .. m PROVE after(st(i - 1)) = st(i)
  <2>1. i - 1 \in 0 .. m /\ i \in 0 .. m /\ i # 0
    BY <1>1
  <2>2. PICK a \in Nat, z \in Nat : a = ends[i - 1] /\ z = ends[i] /\ a < z /\ z <= l
    BY <1>4, <1>5, <2>1
  <2>3. decode(from + a).size = z - a /\ decode(from + a).value = Gaps(s)[i]
    BY <1>4, <2>2 DEF decode
  <2>4. PICK x \in Int : x = st(i - 1).prev /\ x + Gaps(s)[i] = s[i] /\ Gaps(s)[i] \in Int
    <3>1. s[i] \in Int /\ (i # 1 => s[i - 1] \in Int)
      <4>1. i # 1 => i - 1 \in 1 .. m
        BY <1>1
      <4>2. \A k \in 1 .. m : s[k] \in Ids
        BY <1>1
      <4> QED
        <5>1. s[i] \in Ids /\ (i # 1 => s[i - 1] \in Ids)
          BY <4>1, <4>2
        <5> QED
          BY <5>1, NIs DEF Ids
    <3>2. CASE i = 1
      <4>1. Gaps(s)[i] = s[i]
        BY <1>1, <3>2 DEF Gaps
      <4>2. st(i - 1).prev = 0
        BY <3>2
      <4> QED
        BY <3>1, <4>1, <4>2
    <3>3. CASE i # 1
      <4>1. st(i - 1).prev = s[i - 1]
        <5>1. i - 1 # 0
          BY <3>3
        <5> QED
          BY <5>1
      <4>2. Gaps(s)[i] = s[i] - s[i - 1]
        BY <1>1, <3>3 DEF Gaps
      <4> QED
        <5>1. PICK p \in Int, q \in Int : p = s[i - 1] /\ q = s[i]
          BY <3>1, <3>3
        <5>2. p + (q - p) = q /\ q - p \in Int
          OBVIOUS
        <5>3. st(i - 1).prev = p /\ Gaps(s)[i] = q - p
          BY <4>1, <4>2, <5>1
        <5> HIDE DEF st
        <5> QED
          BY <5>1, <5>2, <5>3
    <3> QED
      BY <3>2, <3>3
  <2>5. st(i - 1).at = from + a /\ st(i - 1).ids = SubSeq(s, 1, i - 1)
    BY <2>2
  <2>6. SubSeq(s, 1, i) = Append(SubSeq(s, 1, i - 1), s[i])
    BY <1>1
  <2>7. (from + a) + (z - a) = from + z /\ ~ from + a >= end /\ ~ z - a = 0
    <3>1. PICK f0 \in Nat, l0 \in Nat : f0 = from /\ l0 = l /\ end = f0 + l0
      BY <1>0, <1>2
    <3>2. (f0 + a) + (z - a) = f0 + z /\ ~ f0 + a >= f0 + l0 /\ ~ z - a = 0
      <4>1. z <= l0
        BY <2>2, <3>1
      <4> QED
        BY <2>2, <4>1
    <3> QED
      BY <3>1, <3>2
  <2>8. PICK t : t = st(i - 1)
    OBVIOUS
  <2>9. st(i) = [ids |-> SubSeq(s, 1, i), at |-> from + z, prev |-> s[i]]
    BY <2>1, <2>2
  <2> HIDE DEF st
  <2>10. after(t) = [ids |-> Append(SubSeq(s, 1, i - 1), s[i]), at |-> from + z, prev |-> s[i]]
    <3>1. t.at = from + a /\ t.ids = SubSeq(s, 1, i - 1) /\ t.prev = x
      BY <2>4, <2>5, <2>8
    <3>2. ~ t.at >= end /\ ~ decode(t.at).size = 0
      BY <2>3, <2>7, <3>1
    <3>3. t.at + decode(t.at).size = from + z /\ t.prev + decode(t.at).value = s[i]
      BY <2>3, <2>4, <2>7, <3>1
    <3>4. after(t) = [ ids |-> Append(t.ids, t.prev + decode(t.at).value),
                       at |-> t.at + decode(t.at).size,
                       prev |-> t.prev + decode(t.at).value ]
      BY <3>2
    <3> QED
      BY <3>1, <3>3, <3>4
  <2> QED
    BY <2>6, <2>8, <2>9, <2>10
<1>10. after(st(m)) = st(m)
  <2>1. st(m).at = end
    BY <1>1, <1>2, <1>4
  <2>2. PICK y, z, w : st(m) = [ids |-> y, at |-> z, prev |-> w]
    OBVIOUS
  <2>3. [[ids |-> y, at |-> z, prev |-> w] EXCEPT !.at = z] = [ids |-> y, at |-> z, prev |-> w]
    OBVIOUS
  <2>4. z = end /\ end >= end
    BY <1>2, <2>1, <2>2
  <2> HIDE DEF st
  <2> QED
    BY <2>1, <2>2, <2>3, <2>4
<1> HIDE DEF st, after
<1>11. \A i \in 1 .. l : h[i] = after(h[i - 1])
  <2>1. TAKE i \in 1 .. l
  <2>2. i - 1 \in 0 .. l /\ i \in 0 .. l
    BY <1>2
  <2>3. CASE i <= m
    <3>1. i \in 1 .. m /\ i - 1 <= m
      BY <1>1, <2>3
    <3> QED
      BY <1>7, <1>9, <2>2, <2>3, <3>1
  <2>4. CASE ~ i <= m
    <3>1. h[i] = st(m)
      BY <1>7, <2>2, <2>4
    <3>2. h[i - 1] = st(m)
      <4>1. i - 1 <= m => i - 1 = m
        BY <1>1, <2>4
      <4> QED
        BY <1>7, <2>2, <4>1
    <3> QED
      BY <1>10, <3>1, <3>2
  <2> QED
    BY <2>3, <2>4
<1>12. Rule(h)
  <2>1. \A i \in 0 .. l : h[i] = IF i = 0 THEN init ELSE after(h[i - 1])
    <3>1. \A i \in 0 .. l : i # 0 => i \in 1 .. l
      BY <1>2
    <3> QED
      BY <1>8, <1>11, <3>1
  <2>2. h = [i \in 0 .. l |-> h[i]]
    BY <1>7
  <2> QED
    BY <2>1, <2>2
<1>13. Rule(read)
  BY <1>12
<1> HIDE DEF read
<1>14. GoOnAlike(read, h, l)
  <2>1. read[0] = init /\ \A i \in 1 .. l : read[i] = after(read[i - 1])
    <3>1. \A i \in 1 .. l : i \in 0 .. l /\ i # 0
      BY <1>2
    <3>2. 0 \in 0 .. l
      BY <1>2
    <3> QED
      BY <1>13, <3>1, <3>2
  <2> QED
    BY <1>8, <1>11, <2>1 DEF GoOnAlike
<1>15. read[l] = st(m)
  <2>1. l \in 0 .. l /\ (l <= m => l = m)
    BY <1>1, <1>2, <1>5
  <2>2. read[l] = h[l]
    <3>1. \A k \in 0 .. l : read[k] = h[k]
      BY <1>2, <1>14, SameSteps
    <3> QED
      BY <2>1, <3>1
  <2> QED
    BY <1>7, <2>1, <2>2
<1>16. SubSeq(s, 1, m) = s
  BY <1>1
<1> QED
  BY <1>6, <1>15, <1>16 DEF st

\* Where each part begins is what the parts before take.
LEMMA FlatPrefix ==
  ASSUME NEW A, NEW ss \in Seq(Seq(A)), NEW n \in Nat, n = Len(ss), NEW ends \in [0 .. n -> Nat],
         ends[0] = 0, \A k \in 1 .. n : ends[k] = ends[k - 1] + Len(ss[k]), NEW m \in 0 .. n
  PROVE  Len(FlattenSeq(SubSeq(ss, 1, m))) = ends[m]
<1>1. PICK part \in Seq(Seq(A)) : part = SubSeq(ss, 1, m) /\ Len(part) = m
  <2> DEFINE U == Seq(A)
  <2>1. ss \in Seq(U) /\ n = Len(ss)
    OBVIOUS
  <2>2. SubSeq(ss, 1, m) \in Seq(U) /\ Len(SubSeq(ss, 1, m)) = m
    <3> HIDE DEF U
    <3> QED
      BY <2>1
  <2> QED
    BY <2>2
<1>2. \A k \in 1 .. m : part[k] = ss[k]
  BY <1>1
<1>3. PICK other \in [0 .. m -> Nat] :
        /\ other[0] = 0 /\ other[m] = Len(FlattenSeq(part))
        /\ \A k \in 1 .. m : other[k] = other[k - 1] + Len(part[k])
  <2>1. \E other \in [0 .. Len(part) -> Nat] :
          /\ other[0] = 0 /\ other[Len(part)] = Len(FlattenSeq(part))
          /\ \A k \in 1 .. Len(part) : other[k] = other[k - 1] + Len(part[k])
    BY FlattenSeqHolds
  <2> QED
    BY <1>1, <2>1, Zenon
<1>4. GoOnAlike(other, ends, m)
  <2>1. \A k \in 1 .. m : k \in 1 .. n
    OBVIOUS
  <2> QED
    BY <1>2, <1>3, <2>1 DEF GoOnAlike
<1>5. \A k \in 0 .. m : other[k] = ends[k]
  <2>1. m \in Nat
    OBVIOUS
  <2> QED
    <3>1. PICK f, g, p : f = other /\ g = ends /\ p = m
      OBVIOUS
    <3>2. p \in Nat /\ GoOnAlike(f, g, p)
      BY <1>4, <2>1, <3>1
    <3>3. \A k \in 0 .. p : f[k] = g[k]
      BY <3>2, SameSteps
    <3> QED
      BY <3>1, <3>3
<1> QED
  BY <1>1, <1>3, <1>5

\* The lists in memory are those of the graph, in ascending order.
LEMMA InMemIs ==
  ASSUME NEW g, g.num_nodes = N, NEW b, NEW adj, adj = NewAdjacency(g, b), ListsFit(adj),
         NEW n \in Ids
  PROVE  InMemNeighbors(BuildCsr(g, b), n) = Ascending(adj[n])
<1>1. PICK m \in Nat : m = N /\ n \in 0 .. m - 1
  BY NIs DEF Ids
<1>2. PICK lists : lists = [i \in 1 .. m |-> DeltaEncode(Ascending(adj[i - 1]))]
  OBVIOUS
<1>3. \A i \in Ids : Ascending(adj[i]) \in Seq(Ids) /\ Rising(Ascending(adj[i]))
  BY AscendingIs DEF ListsFit
<1>4. lists \in Seq(Seq(Nat)) /\ Len(lists) = m
  <2>1. ASSUME NEW i \in 1 .. m PROVE DeltaEncode(Ascending(adj[i - 1])) \in Seq(Nat)
    <3>1. i - 1 \in Ids
      BY <1>1 DEF Ids
    <3> QED
      BY <1>3, <3>1, DeltaEncodeIs
  <2>2. lists \in [1 .. m -> Seq(Nat)]
    BY <1>2, <2>1
  <2> QED
    BY <2>2
<1>5. PICK ends \in [0 .. m -> Nat] :
        /\ ends[0] = 0 /\ ends[m] = Len(FlattenSeq(lists))
        /\ \A k \in 1 .. m : ends[k] = ends[k - 1] + Len(lists[k])
                             /\ Holds(FlattenSeq(lists), ends[k - 1], lists[k])
  <2>1. \E ends \in [0 .. Len(lists) -> Nat] :
          /\ ends[0] = 0 /\ ends[Len(lists)] = Len(FlattenSeq(lists))
          /\ \A k \in 1 .. Len(lists) : /\ ends[k] = ends[k - 1] + Len(lists[k])
                                        /\ Holds(FlattenSeq(lists), ends[k - 1], lists[k])
    BY <1>4, FlattenSeqHolds
  <2> QED
    BY <1>4, <2>1, Zenon
<1>6. PICK csr : csr = BuildCsr(g, b)
  OBVIOUS
<1>7. /\ csr.bytes = FlattenSeq(lists)
      /\ csr.offsets = [i \in 1 .. m + 1 |-> Len(FlattenSeq(SubSeq(lists, 1, i - 1)))]
  <2>1. BuildCsr(g, b)
          = [ bytes |-> FlattenSeq([i \in 1 .. g.num_nodes |-> DeltaEncode(Ascending(adj[i - 1]))]),
              offsets |-> [i \in 1 .. g.num_nodes + 1 |->
                 Len(FlattenSeq(SubSeq([j \in 1 .. g.num_nodes |->
                                          DeltaEncode(Ascending(adj[j - 1]))], 1, i - 1)))] ]
    BY Zenon DEF BuildCsr
  <2>2. g.num_nodes = m
    BY <1>1
  <2>3. BuildCsr(g, b)
          = [ bytes |-> FlattenSeq(lists),
              offsets |-> [i \in 1 .. m + 1 |-> Len(FlattenSeq(SubSeq(lists, 1, i - 1)))] ]
    BY <1>2, <2>1, <2>2, Zenon
  <2> QED
    BY <1>6, <2>3
<1>8. csr.bytes \in Seq(Int)
  <2>1. FlattenSeq(lists) \in Seq(Nat) /\ Nat \subseteq Int
    BY <1>4, FlattenSeqHolds
  <2> QED
    BY <1>7, <2>1, Widened
<1>9. csr.offsets[n + 1] = ends[n] /\ csr.offsets[n + 2] = ends[n + 1]
  <2>1. \A k \in 0 .. m : Len(FlattenSeq(SubSeq(lists, 1, k))) = ends[k]
    <3>1. \A k \in 1 .. m : ends[k] = ends[k - 1] + Len(lists[k])
      BY <1>5
    <3>2. ends[0] = 0 /\ m = Len(lists)
      BY <1>4, <1>5
    <3> QED
      BY <1>4, <3>1, <3>2, FlatPrefix
  <2>2. n \in 0 .. m /\ n + 1 \in 0 .. m /\ n + 1 \in 1 .. m + 1 /\ n + 2 \in 1 .. m + 1
        /\ (n + 1) - 1 = n /\ (n + 2) - 1 = n + 1
    BY <1>1
  <2> QED
    BY <1>7, <2>1, <2>2
<1>10. PICK s \in Seq(Ids) : s = Ascending(adj[n]) /\ Rising(s)
  BY <1>3
<1>11. lists[n + 1] = DeltaEncode(s)
  <2>1. n + 1 \in 1 .. m /\ (n + 1) - 1 = n
    BY <1>1
  <2> QED
    BY <1>2, <1>10, <2>1
<1>12. ends[n] \in Nat /\ ends[n + 1] = ends[n] + Len(DeltaEncode(s))
       /\ Holds(csr.bytes, ends[n], DeltaEncode(s))
  <2>1. n + 1 \in 1 .. m /\ (n + 1) - 1 = n /\ n \in 0 .. m
    BY <1>1
  <2> QED
    BY <1>5, <1>7, <1>11, <2>1
<1>13. DecodeCsr(csr, n) = s
  <2>1. csr.offsets[n + 1] \in Nat
        /\ csr.offsets[n + 2] = csr.offsets[n + 1] + Len(DeltaEncode(s))
        /\ Holds(csr.bytes, csr.offsets[n + 1], DeltaEncode(s))
    BY <1>9, <1>12
  <2> QED
    BY <1>8, <1>10, <2>1, CsrReadBack
<1>14. ~ n + 2 > Len(csr.offsets)
  <2>1. Len(csr.offsets) = m + 1
    BY <1>7
  <2> QED
    BY <1>1, <2>1
<1> QED
  BY <1>6, <1>10, <1>13, <1>14 DEF InMemNeighbors

-----------------------------------------------------------------------------
(* Blocks read back.                                                       *)

\* A list in a block is read as it was written.
LEMMA ListReadBack ==
  ASSUME NEW s \in Seq(Ids), IsInjective(s), NEW base \in Seq(Int), NEW at \in Nat,
         Holds(base, at, ListImage(s)), base[5] = 1
  PROVE  ReadList(base, at, base[5] % 2 = 1)
           = [ids |-> Ascending(s), next |-> at + Len(ListImage(s))]
<1>1. PICK asc \in Seq(Ids) : asc = Ascending(s) /\ Len(asc) = Len(s) /\ Rising(asc)
  BY AscendingIs
<1>2. PICK d \in Seq(Nat) : d = DeltaEncode(asc)
  BY <1>1, DeltaEncodeIs
<1>3. PICK n \in Nat, l \in Nat, m \in Nat : n = Len(s) /\ l = Len(d) /\ m = Len(base)
  OBVIOUS
<1>4. PICK head \in Seq(Int) : head = <<n>> /\ Len(head) = 1 /\ head[1] = n
  <2>1. n \in Int
    BY <1>3
  <2>2. <<n>> \in Seq(Int) /\ Len(<<n>>) = 1 /\ <<n>>[1] = n
    BY <2>1
  <2> QED
    BY <2>2
<1>5. d \in Seq(Int) /\ head \in Seq(Int)
  <2>1. Nat \subseteq Int
    OBVIOUS
  <2> QED
    BY <2>1, Widened
<1>6. PICK image \in Seq(Int) : image = ListImage(s) /\ image = head \o d /\ Len(image) = 1 + l
        /\ Holds(image, 0, head) /\ Holds(image, 1, d)
  <2>1. ListImage(s) = head \o d
    BY <1>1, <1>2, <1>3, <1>4 DEF ListImage
  <2>2. /\ head \o d \in Seq(Int) /\ Len(head \o d) = Len(head) + Len(d)
        /\ Holds(head \o d, 0, head) /\ Holds(head \o d, Len(head), d)
    BY <1>5, HoldsConcat
  <2> QED
    BY <1>3, <1>4, <2>1, <2>2
<1>7. at + 1 + l <= m /\ base[at + 1] = n
  <2>1. at + Len(image) <= Len(base) /\ \A i \in 1 .. Len(image) : base[at + i] = image[i]
    BY <1>6 DEF Holds
  <2>2. image[1] = n
    <3>1. 1 \in 1 .. Len(head) /\ 0 + 1 = 1
      BY <1>4
    <3> QED
      BY <1>4, <1>6, <3>1 DEF Holds
  <2>3. 1 \in 1 .. Len(image)
    BY <1>6
  <2>4. at + (1 + l) <= m
    BY <1>3, <1>6, <2>1
  <2>5. at + 1 + l <= m
    <3>1. at + 1 + l = at + (1 + l)
      BY <1>3
    <3> QED
      BY <2>4, <3>1
  <2>6. base[at + 1] = image[1]
    BY <2>1, <2>3
  <2> QED
    BY <2>2, <2>5, <2>6
<1>8. Holds(base, at + 1, d)
  BY <1>5, <1>6, HoldsPart
<1>9. PICK back : back = DeltaDecode(base, at + 1, m, n) /\ back.ids = asc /\ back.size = l
  <2>1. PICK from \in Nat : from = at + 1
    OBVIOUS
  <2>2. Holds(base, from, DeltaEncode(asc)) /\ from + Len(DeltaEncode(asc)) <= m /\ n = Len(asc)
    BY <1>1, <1>2, <1>3, <1>7, <1>8, <2>1
  <2>3. DeltaDecode(base, from, m, n).ids = asc
        /\ DeltaDecode(base, from, m, n).size = Len(DeltaEncode(asc))
    BY <1>1, <2>2, DeltaReadBack
  <2> QED
    BY <1>2, <1>3, <2>1, <2>3
<1>10. ~ at + 1 > m /\ base[5] % 2 = 1
  BY <1>7
<1>11. ReadList(base, at, base[5] % 2 = 1)
       = [ids |-> DeltaDecode(base, at + 1, Len(base), base[at + 1]).ids,
          next |-> at + 1 + DeltaDecode(base, at + 1, Len(base), base[at + 1]).size]
  BY <1>3, <1>10 DEF ReadList
<1>12. ReadList(base, at, base[5] % 2 = 1) = [ids |-> back.ids, next |-> at + 1 + back.size]
  BY <1>3, <1>7, <1>9, <1>11
<1>13. at + 1 + l = at + (1 + l)
  OBVIOUS
<1> QED
  BY <1>1, <1>6, <1>9, <1>12, <1>13

\* Where the lists of a block begin, as they are read.
ReadFrom(base, at, n) ==
  CHOOSE f : f = [i \in 0 .. n |-> IF i = 0 THEN at ELSE ReadList(base, f[i - 1], base[5] % 2 = 1).next]

\* One after the other, the lists are read as they were written.
LEMMA BlockListsReadBack ==
  ASSUME NEW adj, ListsFit(adj), NEW ids \in Seq(Ids), NEW base \in Seq(Int), NEW at \in Nat,
         Holds(base, at, FlattenSeq(ListsOf(adj, ids))), base[5] = 1, NEW j \in 1 .. Len(ids)
  PROVE  ReadList(base, ReadFrom(base, at, Len(ids))[j - 1], base[5] % 2 = 1).ids = Ascending(adj[ids[j]])
<1>0. PICK n : n = Len(ids)
  OBVIOUS
<1>1. n \in Nat /\ DOMAIN ids = 1 .. n /\ \A i \in 1 .. n : ids[i] \in Ids
  <2>1. n \in Nat /\ DOMAIN ids = 1 .. n
    BY <1>0
  <2> QED
    BY <2>1
<1>2. PICK lists \in Seq(Seq(Int)) : lists = ListsOf(adj, ids) /\ Len(lists) = n
        /\ \A i \in 1 .. n : lists[i] = ListImage(adj[ids[i]])
  BY <1>0, <1>1, ListsOfAre
<1>3. PICK flat \in Seq(Int) : flat = FlattenSeq(lists)
  BY FlattenSeqHolds
<1>4. PICK ends \in [0 .. n -> Nat] :
        /\ ends[0] = 0
        /\ \A k \in 1 .. n : ends[k] = ends[k - 1] + Len(lists[k]) /\ Holds(flat, ends[k - 1], lists[k])
  <2>1. \E ends \in [0 .. Len(lists) -> Nat] :
          /\ ends[0] = 0 /\ ends[Len(lists)] = Len(FlattenSeq(lists))
          /\ \A k \in 1 .. Len(lists) : /\ ends[k] = ends[k - 1] + Len(lists[k])
                                        /\ Holds(FlattenSeq(lists), ends[k - 1], lists[k])
    BY FlattenSeqHolds
  <2> QED
    BY <1>2, <1>3, <2>1, Zenon
<1> DEFINE read(a) == ReadList(base, a, base[5] % 2 = 1)
<1>5. ASSUME NEW i \in 1 .. n
      PROVE  /\ read(at + ends[i - 1]).ids = Ascending(adj[ids[i]])
             /\ read(at + ends[i - 1]).next = at + ends[i]
  <2>1. PICK s \in Seq(Ids) : s = adj[ids[i]] /\ IsInjective(s) /\ lists[i] = ListImage(s)
    BY <1>1, <1>2 DEF ListsFit
  <2>2. PICK a \in Nat, z \in Nat, c \in Nat : a = ends[i - 1] /\ z = ends[i] /\ c = Len(ListImage(s))
    <3>1. i - 1 \in 0 .. n /\ i \in 0 .. n /\ i \in 1 .. Len(lists)
      BY <1>1, <1>2
    <3>2. lists[i] \in Seq(Int)
      BY <3>1
    <3>3. Len(ListImage(s)) \in Nat
      BY <2>1, <3>2
    <3> QED
      BY <3>1, <3>3
  <2>3. z = a + c /\ Holds(flat, a, ListImage(s))
    BY <1>4, <2>1, <2>2
  <2>4. Holds(base, at + a, ListImage(s))
    <3>1. ListImage(s) \in Seq(Int)
      <4>1. i \in 1 .. Len(lists)
        BY <1>2
      <4> QED
        BY <2>1, <4>1
    <3>2. Holds(base, at, flat)
      BY <1>2, <1>3
    <3> QED
      BY <2>3, <3>1, <3>2, HoldsPart
  <2>5. PICK from \in Nat : from = at + a
    OBVIOUS
  <2>6. read(from) = [ids |-> Ascending(s), next |-> from + Len(ListImage(s))]
    BY <2>1, <2>4, <2>5, ListReadBack
  <2>7. from + c = at + z
    BY <2>3, <2>5
  <2> HIDE DEF read
  <2>8. read(from).ids = Ascending(adj[ids[i]]) /\ read(from).next = from + c
    BY <2>1, <2>2, <2>6
  <2>9. at + ends[i - 1] = from /\ at + ends[i] = from + c
    BY <2>2, <2>5, <2>7
  <2> QED
    BY <2>8, <2>9
<1> DEFINE Rule(f) == f = [i \in 0 .. n |-> IF i = 0 THEN at ELSE read(f[i - 1]).next]
<1>6. PICK h : h = [i \in 0 .. n |-> at + ends[i]]
  OBVIOUS
<1>7. \A i \in 0 .. n : h[i] = at + ends[i]
  BY <1>6
<1>8. h[0] = at
  <2>1. 0 \in 0 .. n /\ at + 0 = at
    BY <1>1
  <2> QED
    BY <1>4, <1>7, <2>1
<1> HIDE DEF read
<1>9. \A i \in 1 .. n : h[i] = read(h[i - 1]).next
  <2>1. TAKE i \in 1 .. n
  <2>2. i - 1 \in 0 .. n /\ i \in 0 .. n
    BY <1>1
  <2> QED
    <3>1. h[i - 1] = at + ends[i - 1] /\ h[i] = at + ends[i]
      BY <1>7, <2>2
    <3>2. read(at + ends[i - 1]).next = at + ends[i]
      BY <1>5
    <3> QED
      BY <3>1, <3>2
<1>10. Rule(h)
  <2>1. \A i \in 0 .. n : h[i] = IF i = 0 THEN at ELSE read(h[i - 1]).next
    <3>1. \A i \in 0 .. n : i # 0 => i \in 1 .. n
      BY <1>1
    <3> QED
      BY <1>8, <1>9, <3>1
  <2>2. h = [i \in 0 .. n |-> h[i]]
    BY <1>6
  <2> QED
    BY <2>1, <2>2
<1>11. PICK f : f = ReadFrom(base, at, n) /\ Rule(f)
  <2>1. ReadFrom(base, at, n) = CHOOSE f : Rule(f)
    BY Zenon DEF ReadFrom, read
  <2>2. Rule(CHOOSE f : Rule(f))
    BY <1>10
  <2> HIDE DEF Rule
  <2> QED
    BY <2>1, <2>2
<1>12. GoOnAlike(f, h, n)
  <2>1. f[0] = at /\ \A i \in 1 .. n : f[i] = read(f[i - 1]).next
    <3>1. \A i \in 1 .. n : i \in 0 .. n /\ i # 0
      BY <1>1
    <3>2. 0 \in 0 .. n
      BY <1>1
    <3> QED
      BY <1>11, <3>1, <3>2
  <2> QED
    BY <1>8, <1>9, <2>1 DEF GoOnAlike
<1>13. \A i \in 0 .. n : f[i] = h[i]
  BY <1>1, <1>12, SameSteps
<1>14. ASSUME NEW i \in 1 .. n
       PROVE  read(f[i - 1]).ids = Ascending(adj[ids[i]])
  <2>1. i - 1 \in 0 .. n
    BY <1>1
  <2> QED
    <3>1. f[i - 1] = at + ends[i - 1]
      BY <1>7, <1>13, <2>1
    <3>2. read(at + ends[i - 1]).ids = Ascending(adj[ids[i]])
      BY <1>5
    <3> QED
      BY <3>1, <3>2
<1>15. ASSUME NEW i \in 1 .. n
       PROVE  ReadList(base, ReadFrom(base, at, n)[i - 1], base[5] % 2 = 1).ids = Ascending(adj[ids[i]])
  <2>1. read(f[i - 1]).ids = Ascending(adj[ids[i]]) /\ f = ReadFrom(base, at, n)
    BY <1>11, <1>14
  <2>2. read(ReadFrom(base, at, n)[i - 1]) = read(f[i - 1])
    BY <2>1
  <2> QED
    BY <2>1, <2>2, Zenon DEF read
<1> QED
  BY <1>0, <1>15

\* A vector is read where it was written.
LEMMA VectorAtIs ==
  ASSUME NEW base \in Seq(Int), NEW v \in Seq(Int), Len(v) = Dim, NEW a, Holds(base, a, v)
  PROVE  VectorAt(base, a) = v
BY HoldsSubSeq DEF VectorAt

LEMMA FlatVectorAt ==
  ASSUME NEW base \in Seq(Int), NEW vectors, VectorsFit(vectors), NEW ids \in Seq(Ids),
         NEW data \in Nat, Holds(base, data, Flattened(vectors, ids)), NEW i \in 1 .. Len(ids)
  PROVE  VectorAt(base, data + (i - 1) * Dim) = vectors[ids[i]]
<1>1. PICK flat \in Seq(Int) : flat = Flattened(vectors, ids) /\ Holds(flat, (i - 1) * Dim, vectors[ids[i]])
  BY VectorsFlat DEF VectorsFit
<1>2. PICK v \in Seq(Int) : v = vectors[ids[i]] /\ Len(v) = Dim
  BY DEF VectorsFit
<1>3. PICK a : a = (i - 1) * Dim
  OBVIOUS
<1>4. Holds(base, data + a, v)
  BY <1>1, <1>2, <1>3, HoldsPart
<1>5. VectorAt(base, data + a) = v
  BY <1>2, <1>4, VectorAtIs
<1> QED
  BY <1>2, <1>3, <1>5

\* What is read for a node of a block, by its place, is the node's.
LEMMA BlockReads ==
  ASSUME NEW g, IsGraph(g), NEW b, Renumbers(b), NEW base, NEW ids \in Seq(Ids),
         BlockHolds(base, ids, g, b), NEW i \in 1 .. Len(ids)
  PROVE  /\ ParseStandard(base).nodes[i].neighbors = Ascending(NewAdjacency(g, b)[ids[i]])
         /\ ParseStandard(base).pq_mode
              \/ ParseStandard(base).nodes[i].vector = NewVectors(g, b)[ids[i]]
<1>1. PICK adj, vectors : /\ adj = NewAdjacency(g, b) /\ ListsFit(adj)
                          /\ vectors = NewVectors(g, b) /\ VectorsFit(vectors)
  BY NewIs
<1> DEFINE count == base[2]
           pq == base[3] = 0
           sane == pq \/ (base[4] # 0 /\ {base[3], base[4]} \subseteq 0 .. 4 * Len(base))
           data == IF sane THEN base[3] \div 4 ELSE 6 + count
           lists == IF pq THEN 6 + count
                    ELSE IF sane THEN base[4] \div 4 ELSE data + count * Dim
           nodes == [k \in 1 .. count |->
                      [ node_id   |-> base[6 + k],
                        vector    |-> IF pq THEN <<>> ELSE VectorAt(base, data + (k - 1) * Dim),
                        neighbors |-> ReadList(base, ReadFrom(base, lists, count)[k - 1],
                                               base[5] % 2 = 1).ids ]]
<1>2. ParseStandard(base)
        = [node_count |-> count, first_node_id |-> base[7], pq_mode |-> pq, nodes |-> nodes]
  BY Zenon DEF ParseStandard, ReadFrom
<1> HIDE DEF nodes, lists, data, sane, pq, count
<1>3. ParseStandard(base).nodes = nodes /\ (ParseStandard(base).pq_mode <=> pq)
  BY <1>2
<1>4. PICK n \in Nat, m \in Nat : n = Len(ids) /\ m = n * Dim
  <2>1. PICK n \in Nat : n = Len(ids)
    OBVIOUS
  <2>2. n * Dim \in Nat
    BY NIs
  <2> QED
    BY <2>1, <2>2
<1>5. CASE StandardIs(base, ids, vectors, ListsOf(adj, ids))
  <2>1. /\ base \in Seq(Int) /\ base[2] = n /\ base[3] = 4 * (6 + n) /\ base[4] = 4 * (6 + n + m)
        /\ 6 + n + m <= Len(base) /\ base[5] = 1
        /\ Holds(base, 6 + n, Flattened(vectors, ids))
        /\ Holds(base, 6 + n + m, FlattenSeq(ListsOf(adj, ids)))
    BY <1>4, <1>5 DEF StandardIs
  <2>2. PICK p \in Nat, q \in Nat, l \in Nat : p = 6 + n /\ q = 6 + n + m /\ p <= q /\ q <= l /\ l = Len(base)
                                               /\ p # 0 /\ q # 0
    <3>1. PICK l \in Nat : l = Len(base) /\ 6 + n + m <= l
      BY <2>1
    <3>2. 6 + n \in Nat /\ 6 + n + m \in Nat /\ 6 + n <= 6 + n + m /\ 6 + n # 0 /\ 6 + n + m # 0
      OBVIOUS
    <3> QED
      BY <3>1, <3>2
  <2>3. count = n /\ ~pq
    BY <2>1 DEF count, pq
  <2>4. sane
    BY <2>1, <2>2 DEF sane
  <2>5. data = p /\ lists = q
    <3>1. base[3] = 4 * p /\ base[4] = 4 * q /\ (4 * p) \div 4 = p /\ (4 * q) \div 4 = q
      BY <2>1, <2>2
    <3> QED
      BY <2>3, <2>4, <3>1 DEF data, lists
  <2>6. ReadList(base, ReadFrom(base, q, n)[i - 1], base[5] % 2 = 1).ids = Ascending(adj[ids[i]])
    <3>1. Holds(base, q, FlattenSeq(ListsOf(adj, ids))) /\ n = Len(ids) /\ i \in 1 .. n
      BY <1>4, <2>1, <2>2
    <3>2. ReadList(base, ReadFrom(base, q, Len(ids))[i - 1], base[5] % 2 = 1).ids = Ascending(adj[ids[i]])
      BY <1>1, <2>1, <3>1, BlockListsReadBack
    <3> QED
      BY <3>1, <3>2
  <2>7. VectorAt(base, p + (i - 1) * Dim) = vectors[ids[i]]
    <3>1. VectorsFit(vectors) /\ base \in Seq(Int) /\ Holds(base, p, Flattened(vectors, ids))
      BY <1>1, <2>1, <2>2
    <3> QED
      BY <3>1, FlatVectorAt
  <2>8. nodes[i] = [ node_id   |-> base[6 + i],
                     vector    |-> IF pq THEN <<>> ELSE VectorAt(base, data + (i - 1) * Dim),
                     neighbors |-> ReadList(base, ReadFrom(base, lists, count)[i - 1],
                                            base[5] % 2 = 1).ids ]
    <3>1. i \in 1 .. count
      BY <1>4, <2>3
    <3> QED
      BY <3>1 DEF nodes
  <2>9. nodes[i].vector = VectorAt(base, p + (i - 1) * Dim)
    BY <2>3, <2>5, <2>8
  <2>10. nodes[i].neighbors = ReadList(base, ReadFrom(base, q, n)[i - 1], base[5] % 2 = 1).ids
    BY <2>3, <2>5, <2>8
  <2> QED
    BY <1>1, <1>3, <2>6, <2>7, <2>9, <2>10
<1>6. CASE PQIs(base, ids, ListsOf(adj, ids))
  <2>1. /\ base \in Seq(Int) /\ base[2] = n /\ base[3] = 0 /\ base[5] = 1
        /\ Holds(base, 6 + n, FlattenSeq(ListsOf(adj, ids)))
    BY <1>4, <1>6 DEF PQIs
  <2>2. PICK q \in Nat : q = 6 + n
    OBVIOUS
  <2>3. count = n /\ pq
    BY <2>1 DEF count, pq
  <2>4. lists = q
    BY <2>2, <2>3 DEF lists
  <2>5. ReadList(base, ReadFrom(base, q, n)[i - 1], base[5] % 2 = 1).ids = Ascending(adj[ids[i]])
    <3>1. Holds(base, q, FlattenSeq(ListsOf(adj, ids))) /\ n = Len(ids) /\ i \in 1 .. n
      BY <1>4, <2>1, <2>2
    <3>2. ReadList(base, ReadFrom(base, q, Len(ids))[i - 1], base[5] % 2 = 1).ids = Ascending(adj[ids[i]])
      BY <1>1, <2>1, <3>1, BlockListsReadBack
    <3> QED
      BY <3>1, <3>2
  <2>6. nodes[i].neighbors = ReadList(base, ReadFrom(base, q, n)[i - 1], base[5] % 2 = 1).ids
    <3>1. i \in 1 .. count
      BY <1>4, <2>3
    <3>2. nodes[i].neighbors = ReadList(base, ReadFrom(base, lists, count)[i - 1], base[5] % 2 = 1).ids
      BY <3>1 DEF nodes
    <3> QED
      BY <2>3, <2>4, <3>2
  <2> QED
    BY <1>1, <1>3, <2>3, <2>5, <2>6
<1> QED
  BY <1>1, <1>5, <1>6 DEF BlockHolds

\* A node's place in its block is its distance from the first one.
LEMMA AtItsPlace ==
  ASSUME NEW ps, Split(ps), NEW k \in 1 .. Len(ps), NEW n \in Ids, n \in ToSet(ps[k])
  PROVE  /\ ps[k] \in Seq(Ids) /\ Len(ps[k]) \in Nat /\ Len(ps[k]) # 0 /\ ps[k][1] \in Nat
         /\ ps[k][1] <= n /\ n < ps[k][1] + Len(ps[k])
         /\ n - ps[k][1] + 1 \in 1 .. Len(ps[k]) /\ ps[k][n - ps[k][1] + 1] = n
<1>1. PICK p \in Seq(Ids) : p = ps[k] /\ Len(p) # 0 /\ p[1] \in Nat
        /\ \A j \in 1 .. Len(p) : p[j] = p[1] + j - 1
  <2>1. ps \in Seq(Seq(Ids))
    BY DEF Split
  <2>2. ps[k] \in Seq(Ids)
    BY <2>1
  <2> QED
    BY <2>2 DEF Split
<1>2. n \in Int
  BY NIs DEF Ids
<1>3. PICK l \in Nat, a \in Nat : l = Len(p) /\ a = p[1]
  BY <1>1
<1>4. a <= n /\ n < a + l
  BY <1>1, <1>2, <1>3, InPart
<1>5. PICK j \in 1 .. l : j = n - a + 1 /\ a + j - 1 = n
  <2>1. n - a + 1 \in 1 .. l /\ a + (n - a + 1) - 1 = n
    BY <1>2, <1>4
  <2> QED
    BY <2>1
<1>6. p[j] = n
  BY <1>1, <1>3, <1>5
<1> QED
  BY <1>1, <1>3, <1>4, <1>5, <1>6

\* A miss for a node reads the block that its route leads to.
LEMMA MissReads ==
  ASSUME NEW ps, Split(ps), NEW r, Routes(r, ps), NEW f, NEW n \in Ids
  PROVE  /\ BlockByNodeId(OpenCache(f, r), n) = ParseBlock(BlockOf(f, r[n]))
         /\ r[n] + 1 \in 1 .. Len(ps) /\ (r[n] + 1) - 1 = r[n] /\ n \in ToSet(ps[r[n] + 1])
<1>1. PICK m \in Nat : m = Len(ps)
  <2>1. ps \in Seq(Seq(Ids))
    BY DEF Split
  <2> QED
    BY <2>1
<1>2. r[n] \in 0 .. m - 1 /\ n \in ToSet(ps[r[n] + 1])
  BY <1>1 DEF Routes
<1>3. r[n] + 1 \in 1 .. m /\ (r[n] + 1) - 1 = r[n]
  BY <1>2
<1>4. GetBlockId(Layout(r), n) = r[n] /\ r[n] # NotFound
  BY LayoutIs
<1>5. OpenCache(f, r).layout = Layout(r) /\ OpenCache(f, r).file = f
  BY DEF OpenCache
<1>6. BlockByNodeId(OpenCache(f, r), n) = ParseBlock(BlockOf(f, r[n]))
  BY <1>4, <1>5 DEF BlockByNodeId
<1> QED
  BY <1>1, <1>2, <1>3, <1>6

\* What is found in a block with lists is the node's.
LEMMA ListBlockReads ==
  ASSUME NEW g, IsGraph(g), NEW b, Renumbers(b), NEW f, NEW ps, BlocksHold(f, ps, g, b), NEW n \in Ids,
         NEW block, block = BlockByNodeId(OpenCache(f, GenRoute(f)), n)
  PROVE  /\ GetVector(block, n) \in {NewVectors(g, b)[n], <<>>}
         /\ GetNeighbors(block, n) = Ascending(NewAdjacency(g, b)[n])
<1>1. PICK r : r = GenRoute(f) /\ Routes(r, ps) /\ Split(ps)
  BY GenRouteIs DEF BlocksHold
<1>2. PICK k \in 1 .. Len(ps) : k = r[n] + 1 /\ k - 1 = r[n] /\ n \in ToSet(ps[k])
        /\ block = ParseBlock(BlockOf(f, r[n]))
  BY <1>1, MissReads
<1>3. PICK p \in Seq(Ids) : p = ps[k] /\ Len(p) \in Nat /\ Len(p) # 0 /\ p[1] \in Nat
        /\ p[1] <= n /\ n < p[1] + Len(p) /\ n - p[1] + 1 \in 1 .. Len(p) /\ p[n - p[1] + 1] = n
  BY <1>1, <1>2, AtItsPlace
<1>4. PICK base : base = BlockOf(f, r[n]) /\ BlockHolds(base, p, g, b)
  BY <1>2, <1>3 DEF BlocksHold
<1>5. /\ block = ParseStandard(base) /\ block.node_count = Len(p) /\ block.first_node_id = p[1]
  BY <1>2, <1>3, <1>4, BlockParses
<1>6. PICK i \in 1 .. Len(p) : i = n - p[1] + 1 /\ p[i] = n
  BY <1>3
<1>7. ContainsNode(block, n) /\ Node(block, n) = block.nodes[i]
  BY <1>3, <1>5, <1>6 DEF ContainsNode, Node
<1>8. /\ block.nodes[i].neighbors = Ascending(NewAdjacency(g, b)[n])
      /\ block.pq_mode \/ block.nodes[i].vector = NewVectors(g, b)[n]
  BY <1>4, <1>5, <1>6, BlockReads
<1> QED
  BY <1>7, <1>8 DEF GetVector, GetNeighbors

\* What is found in a block of vectors is the node's, if its nodes are in order.
LEMMA VecBlockReads ==
  ASSUME NEW vectors, VectorsFit(vectors), NEW f, NEW ps, VecPlans(ps), VecFile(f, ps, ps, vectors),
         NEW r, Routes(r, ps), NEW n \in Ids, NEW block, block = BlockByNodeId(OpenCache(f, r), n)
  PROVE  GetVector(block, n) = vectors[n]
<1>1. Split(ps)
  BY DEF VecPlans
<1>2. PICK k \in 1 .. Len(ps) : k = r[n] + 1 /\ k - 1 = r[n] /\ n \in ToSet(ps[k])
        /\ block = ParseBlock(BlockOf(f, r[n]))
  BY <1>1, MissReads
<1>3. PICK p \in Seq(Ids) : p = ps[k] /\ Len(p) \in Nat /\ Len(p) # 0 /\ p[1] \in Nat
        /\ p[1] <= n /\ n < p[1] + Len(p) /\ n - p[1] + 1 \in 1 .. Len(p) /\ p[n - p[1] + 1] = n
  BY <1>1, <1>2, AtItsPlace
<1>4. PICK base : base = BlockOf(f, r[n]) /\ VecBlock(base, p, vectors)
  <2>1. PICK m : m = Len(ps)
    OBVIOUS
  <2>2. m \in Nat /\ \A c \in 0 .. m - 1 : VecBlock(BlockOf(f, c), ps[c + 1], vectors)
    BY <2>1, VecFileFound
  <2>3. r[n] \in 0 .. m - 1 /\ ps[r[n] + 1] = p
    <3>1. k \in 1 .. m
      BY <2>1
    <3>2. k - 1 \in 0 .. m - 1
      BY <2>2, <3>1
    <3> QED
      BY <1>2, <1>3, <3>2
  <2> QED
    BY <2>2, <2>3
<1>5. PICK l \in Nat, q \in Nat : l = Len(p) /\ q = 4 + l
  BY <1>3
<1>6. /\ base \in Seq(Int) /\ base[2] = l /\ base[3] = 4 * q /\ base[4] = FLAG_VEC_ONLY
      /\ Holds(base, 4, p) /\ Holds(base, q, Flattened(vectors, p))
  BY <1>4, <1>5 DEF VecBlock
<1>7. IsVecOnly(base)
  BY <1>6 DEF IsVecOnly, FLAG_VEC_ONLY
<1>8. base[5] = p[1]
  <2>1. 1 \in 1 .. Len(p) /\ 4 + 1 = 5
    BY <1>3
  <2> QED
    BY <1>6, <2>1 DEF Holds
<1>9. PICK i \in 1 .. l : i = n - p[1] + 1 /\ p[i] = n
  BY <1>3, <1>5
<1>10. block = ParseVecOnly(base)
  BY <1>2, <1>4, <1>7 DEF ParseBlock
<1>11. /\ block.node_count = l /\ block.first_node_id = p[1] /\ block.pq_mode = FALSE
       /\ block.nodes = [j \in 1 .. l |->
                           [ node_id   |-> base[4 + j],
                             vector    |-> VectorAt(base, base[3] \div 4 + (j - 1) * Dim),
                             neighbors |-> <<>> ]]
  BY <1>6, <1>8, <1>10 DEF ParseVecOnly
<1>12. block.nodes[i].vector = VectorAt(base, q + (i - 1) * Dim)
  <2>1. base[3] \div 4 = q
    BY <1>6
  <2> QED
    BY <1>11, <2>1
<1>13. VectorAt(base, q + (i - 1) * Dim) = vectors[n]
  <2>1. i \in 1 .. Len(p) /\ q \in Nat /\ base \in Seq(Int) /\ Holds(base, q, Flattened(vectors, p))
    BY <1>5, <1>6
  <2>2. VectorAt(base, q + (i - 1) * Dim) = vectors[p[i]]
    BY <2>1, FlatVectorAt
  <2> QED
    BY <1>9, <2>2
<1>14. ContainsNode(block, n) /\ Node(block, n) = block.nodes[i]
  BY <1>3, <1>5, <1>9, <1>11 DEF ContainsNode, Node
<1> QED
  BY <1>11, <1>12, <1>13, <1>14 DEF GetVector

-----------------------------------------------------------------------------
(* The fine rerank.                                                        *)

\* Where a node stands in the file of vectors, whatever order its block has.
LEMMA StandsSomewhere ==
  ASSUME NEW ps, Split(ps), NEW ids, Shuffled(ids, ps), NEW n \in Ids, NEW m, m = Len(ps)
  PROVE  \E c \in 0 .. m - 1 : \E i \in 1 .. Len(ids[c + 1]) : ids[c + 1][i] = n
<1>1. PICK k \in 1 .. Len(ps) : n \in ToSet(ps[k])
  BY OneBlock
<1>2. n \in ToSet(ids[k]) /\ ids[k] \in Seq(Ids)
  <2>1. ids \in Seq(Seq(Ids)) /\ Len(ids) = Len(ps) /\ ToSet(ids[k]) = ToSet(ps[k])
    BY DEF Shuffled
  <2>2. k \in 1 .. Len(ids)
    BY <2>1
  <2>3. ids[k] \in Seq(Ids)
    BY <2>1, <2>2
  <2> QED
    BY <1>1, <2>1, <2>3
<1>3. PICK i \in 1 .. Len(ids[k]) : ids[k][i] = n
  BY <1>2 DEF ToSet
<1>4. m \in Nat /\ k \in 1 .. m
  <2>1. ps \in Seq(Seq(Ids))
    BY DEF Split
  <2>2. Len(ps) \in Nat
    BY <2>1
  <2> QED
    BY <2>2
<1>5. PICK c \in 0 .. m - 1 : c + 1 = k
  <2>1. k - 1 \in 0 .. m - 1 /\ (k - 1) + 1 = k
    BY <1>4
  <2> QED
    BY <2>1
<1> QED
  BY <1>3, <1>5

\* The fine rerank reads a node's own vector, whatever order its block has.
LEMMA FineVectorIs ==
  ASSUME NEW vectors, VectorsFit(vectors), NEW f, NEW ps, VecPlans(ps), NEW ids,
         VecFile(f, ids, ps, vectors), FineTables(f) # NoTables, NEW n \in Ids
  PROVE  FineVector(f, FineTables(f), n) = vectors[n]
<1>1. PICK m \in Nat : m = Len(ps) /\ NumBlocks(f) = m
  <2>1. PICK m : m = Len(ps)
    OBVIOUS
  <2> QED
    BY <2>1, VecFileFound
<1>2. Shuffled(ids, ps) /\ \A c \in 0 .. m - 1 : VecBlock(BlockOf(f, c), ids[c + 1], vectors)
  BY <1>1, VecFileFound
<1> DEFINE blocks == 0 .. NumBlocks(f) - 1
           ok(b) == IsVecOnly(BlockOf(f, b)) /\ BlockOf(f, b)[2] <= Page - 4
           places == UNION { { <<b, i>> : i \in 1 .. BlockOf(f, b)[2] } : b \in blocks }
           node(p) == VecIds(BlockOf(f, p[1]))[p[2]]
           place(x) == CHOOSE p \in places : node(p) = x
           all == { node(p) : p \in places }
<1>3. FineTables(f)
        = [ built |-> TRUE,
            node_slot_table   |-> [x \in all |->
               SlotOf(VecIds(BlockOf(f, place(x)[1])), place(x)[2])],
            vec_route_table   |-> [x \in all |-> place(x)[1]],
            block_data_offset |-> [b \in blocks |-> BlockOf(f, b)[3]] ]
  <2>1. FineTables(f)
          = IF \E b \in blocks : ~ok(b) THEN NoTables
            ELSE [ built |-> TRUE,
                   node_slot_table   |-> [x \in all |->
                      SlotOf(VecIds(BlockOf(f, place(x)[1])), place(x)[2])],
                   vec_route_table   |-> [x \in all |-> place(x)[1]],
                   block_data_offset |-> [b \in blocks |-> BlockOf(f, b)[3]] ]
    BY Zenon DEF FineTables
  <2> HIDE DEF blocks, ok, all, place
  <2> QED
    BY <2>1
<1>4. \A c \in 0 .. m - 1 : VecIds(BlockOf(f, c)) = ids[c + 1] /\ BlockOf(f, c)[2] = Len(ids[c + 1])
  BY <1>2 DEF VecBlock
<1>5. \A p \in places : p[1] \in 0 .. m - 1 /\ p[2] \in 1 .. Len(ids[p[1] + 1])
                        /\ node(p) = ids[p[1] + 1][p[2]]
  <2>1. TAKE p \in places
  <2>2. PICK b \in blocks : p \in { <<b, i>> : i \in 1 .. BlockOf(f, b)[2] }
    OBVIOUS
  <2>3. PICK i \in 1 .. BlockOf(f, b)[2] : p = <<b, i>>
    BY <2>2
  <2>4. p[1] = b /\ p[2] = i /\ b \in 0 .. m - 1
    BY <1>1, <2>3
  <2> QED
    BY <1>4, <2>3, <2>4
<1>6. \E p \in places : node(p) = n
  <2>1. PICK c \in 0 .. m - 1 : \E i \in 1 .. Len(ids[c + 1]) : ids[c + 1][i] = n
    <3>1. Split(ps)
      BY DEF VecPlans
    <3> QED
      BY <1>1, <1>2, <3>1, StandsSomewhere
  <2>2. PICK i \in 1 .. Len(ids[c + 1]) : ids[c + 1][i] = n
    BY <2>1
  <2>3. c \in blocks /\ i \in 1 .. BlockOf(f, c)[2]
    BY <1>1, <1>4, <2>2
  <2>4. <<c, i>> \in places
    BY <2>3
  <2>5. <<c, i>>[1] = c /\ <<c, i>>[2] = i
    OBVIOUS
  <2>6. node(<<c, i>>) = ids[c + 1][i]
    BY <1>4, <2>5
  <2> QED
    BY <2>2, <2>4, <2>6
<1>7. n \in all
  BY <1>6
<1>8. place(n) \in places /\ node(place(n)) = n
  BY <1>6
<1> HIDE DEF places, node, place, all
<1>9. PICK c, i : c = place(n)[1] /\ i = place(n)[2] /\ c \in 0 .. m - 1 /\ i \in 1 .. Len(ids[c + 1])
                  /\ ids[c + 1][i] = n
  BY <1>5, <1>8
<1>10. PICK t : t = FineTables(f)
  OBVIOUS
<1>11. t.vec_route_table[n] = c
  BY <1>3, <1>7, <1>9, <1>10
<1>12. t.node_slot_table[n] = i - 1
  <2>1. t.node_slot_table = [x \in all |-> SlotOf(VecIds(BlockOf(f, place(x)[1])), place(x)[2])]
    BY <1>3, <1>10
  <2>2. t.node_slot_table[n] = SlotOf(VecIds(BlockOf(f, place(n)[1])), place(n)[2])
    BY <1>7, <2>1
  <2> QED
    BY <1>9, <2>2 DEF SlotOf
<1>13. t.block_data_offset[c] = BlockOf(f, c)[3]
  <2>1. c \in blocks
    BY <1>1, <1>9
  <2>2. t.block_data_offset = [b \in blocks |-> BlockOf(f, b)[3]]
    BY <1>3, <1>10
  <2> QED
    BY <2>1, <2>2
<1>14. PICK s \in Seq(Ids) : s = ids[c + 1]
  <2>1. ids \in Seq(Seq(Ids)) /\ Len(ids) = Len(ps)
    BY <1>2 DEF Shuffled
  <2>2. c + 1 \in 1 .. Len(ids)
    BY <1>1, <1>9, <2>1
  <2>3. ids[c + 1] \in Seq(Ids)
    BY <2>1, <2>2
  <2> QED
    BY <2>3
<1>15. PICK base : base = BlockOf(f, c) /\ VecBlock(base, s, vectors)
  BY <1>2, <1>9, <1>14
<1>16. PICK l \in Nat, q \in Nat : l = Len(s) /\ q = 4 + l
  OBVIOUS
<1>17. base \in Seq(Int) /\ base[3] = 4 * q /\ Holds(base, q, Flattened(vectors, s))
  BY <1>15, <1>16 DEF VecBlock
<1>18. base[3] \div 4 = q
  BY <1>17
<1>19. PICK at \in Nat : at = Page + c * VecRoom /\ f \in Seq(Int) /\ BlockSize(f) = VecRoom
                         /\ Holds(f, at, base)
  <2>1. PICK bs : bs = VecImages(ids, m, vectors)
    OBVIOUS
  <2>2. VecRoom \in Nat
    BY PipelineAssumption
  <2>3. EvenBlocks(bs, VecRoom) /\ Len(bs) = m
    BY <1>1, <1>2, <2>1, VecImagesAre
  <2>4. IsFileOf(f, FORMAT_VERSION_VEC_ONLY, bs, VecRoom)
    BY <1>1, <2>1 DEF VecFile
  <2>5. Found(f, FORMAT_VERSION_VEC_ONLY, bs, VecRoom)
    BY <2>2, <2>3, <2>4, BlocksFound DEF FORMAT_VERSION_VEC_ONLY
  <2>6. f \in Seq(Int) /\ BlockSize(f) = VecRoom /\ BlockOf(f, c) = bs[c + 1]
        /\ Holds(f, Page + c * VecRoom, bs[c + 1])
    BY <1>9, <2>3, <2>5 DEF Found
  <2>7. Page + c * VecRoom \in Nat
    BY <2>6 DEF Holds
  <2> QED
    BY <1>15, <2>6, <2>7
<1>20. Holds(f, at + q, Flattened(vectors, s))
  <2>1. Flattened(vectors, s) \in Seq(Int)
    BY VectorsFlat DEF VectorsFit
  <2> QED
    BY <1>17, <1>19, <2>1, HoldsPart
<1>21. VectorAt(f, (at + q) + (i - 1) * Dim) = vectors[n]
  <2>1. i \in 1 .. Len(s) /\ at + q \in Nat /\ s[i] = n
    BY <1>9, <1>14
  <2>2. VectorAt(f, (at + q) + (i - 1) * Dim) = vectors[s[i]]
    BY <1>19, <1>20, <2>1, FlatVectorAt
  <2> QED
    BY <2>1, <2>2
<1>22. FineVector(f, t, n) = VectorAt(f, Page + c * VecRoom + q + (i - 1) * Dim)
  <2>1. FineVector(f, t, n)
          = VectorAt(f, Page + t.vec_route_table[n] * BlockSize(f)
                        + t.block_data_offset[t.vec_route_table[n]] \div 4
                        + t.node_slot_table[n] * Dim)
    BY DEF FineVector
  <2>2. t.block_data_offset[t.vec_route_table[n]] \div 4 = q
    BY <1>11, <1>13, <1>15, <1>18
  <2> QED
    BY <1>11, <1>12, <1>19, <2>1, <2>2
<1> QED
  BY <1>10, <1>19, <1>21, <1>22

-----------------------------------------------------------------------------
(* What a search reads.                                                    *)

\* A file of vectors is none of lists.
LEMMA TwoKinds ==
  ASSUME NEW f, NEW ps, NEW g, NEW b, BlocksHold(f, ps, g, b),
         NEW vps, VecPlans(vps), NEW ids, NEW vectors, VectorsFit(vectors)
  PROVE  ~VecFile(f, ids, vps, vectors)
<1> SUFFICES ASSUME VecFile(f, ids, vps, vectors) PROVE FALSE
  OBVIOUS
<1>1. Split(ps) /\ NumBlocks(f) = Len(ps)
  BY DEF BlocksHold
<1>2. PICK n \in Ids : TRUE
  <2>1. 0 \in Ids
    BY NIs DEF Ids
  <2> QED
    BY <2>1
<1>3. PICK k \in 1 .. Len(ps) : n \in ToSet(ps[k])
  BY <1>1, OneBlock
<1>4. PICK p \in Seq(Ids) : p = ps[k] /\ Len(p) \in Nat /\ Len(p) # 0
  BY <1>1, <1>3, AtItsPlace
<1>5. ~IsVecOnly(BlockOf(f, k - 1))
  <2>1. BlockHolds(BlockOf(f, k - 1), p, g, b)
    BY <1>4 DEF BlocksHold
  <2> QED
    BY <1>4, <2>1, BlockParses
<1>6. PICK m \in Nat : m = Len(vps) /\ NumBlocks(f) = m
                       /\ \A c \in 0 .. m - 1 : VecBlock(BlockOf(f, c), ids[c + 1], vectors)
  <2>1. PICK m : m = Len(vps)
    OBVIOUS
  <2> QED
    BY <2>1, VecFileFound
<1>7. k - 1 \in 0 .. m - 1
  <2>1. k \in 1 .. m
    BY <1>1, <1>6
  <2> QED
    BY <2>1
<1>8. IsVecOnly(BlockOf(f, k - 1))
  BY <1>6, <1>7 DEF VecBlock, IsVecOnly, FLAG_VEC_ONLY
<1> QED
  BY <1>5, <1>8

\* The tables of the fine rerank are those of the file of vectors as it is.
TablesAreRight == tables # NoTables => tables = FineTables(vec_bin)

LEMMA NextTablesAreRight ==
  ASSUME FilesFollow, TablesAreRight, [PipelineNext]_pipelineVars
  PROVE  TablesAreRight'
<1>1. CASE BuildFine
  BY <1>1 DEF BuildFine, files, TablesAreRight
<1>2. CASE ~BuildFine
  <2>1. tables' = tables
    BY <1>2 DEF PipelineNext, pipelineVars, search, Export, Extract, Prune, ReorderNodes, WriteVecOnly,
         Shuffle, ClusterReorder, WriteBlocks, WritePQBlocks, GenRouteTable, RunVerify, OpenIndex,
         LoadPQCodes, StartDescent, Walk
  <2>2. tables # NoTables => vec_bin' = vec_bin
    BY FilesStay DEF FilesFollow
  <2> QED
    BY <2>1, <2>2 DEF TablesAreRight
<1> QED
  BY <1>1, <1>2

\* All that an open index keeps.
ReadsAreRight == FilesAreRight /\ CodesAreRight /\ IndexIsRight /\ TablesAreRight

\* The vector of the label that a search returns for a node.
LEMMA OwnIs ==
  ASSUME FilesFollow, GraphOk, BfsIsRight, IndexIsRight, index # NoFile, NEW n \in Ids
  PROVE  Own(n) = NewVectors(Graph, bfs_bin)[n]
<1>1. PICK g : g = Graph /\ IsGraph(g) /\ Renumbers(bfs_bin)
  BY OrderFollows DEF FilesFollow
<1>2. index.graph.labels = g.labels
  BY <1>1 DEF IndexIsRight, SlimOf
<1>3. PICK o \in Ids : o = bfs_bin.new_to_old[n]
  BY <1>1 DEF Renumbers
<1>4. Own(n) = g.vectors[CHOOSE i \in Ids : g.labels[i] = g.labels[o]]
  <2>1. Own(n) = Graph.vectors[CHOOSE i \in Ids :
                   Graph.labels[i] = index.graph.labels[bfs_bin.new_to_old[n]]]
    BY Zenon DEF Own
  <2> QED
    BY <1>1, <1>2, <1>3, <2>1, Zenon
<1>5. (CHOOSE i \in Ids : g.labels[i] = g.labels[o]) = o
  <2>1. \A i, j \in Ids : g.labels[i] = g.labels[j] => i = j
    BY <1>1 DEF IsGraph
  <2> QED
    BY <2>1
<1>6. NewVectors(g, bfs_bin)[n] = g.vectors[o]
  BY <1>1, <1>3, NewListsAre
<1> QED
  BY <1>1, <1>4, <1>5, <1>6

\* What is read is as it was written, by whichever way it is read.
LEMMA AllReadsAreOwn ==
  ASSUME FilesFollow, GraphOk, BfsIsRight, VecIsRight, BlocksAreRight,
         CodesAreRight, IndexIsRight, TablesAreRight
  PROVE  ReadsAreOwn
<1> SUFFICES ASSUME index # NoFile PROVE ReadsAreOwn
  BY DEF ReadsAreOwn, VectorsAreOwn, NeighboursAreTheGraphs, CodesFollowVectors, Opened
<1>1. /\ graph_bin # NoFile /\ bfs_bin # NoFile /\ vec_bin # NoFile
      /\ blocks_bin # NoFile /\ route_bin # NoFile
  BY DEF FilesFollow
<1>2. PICK g : g = Graph /\ IsGraph(g) /\ Renumbers(bfs_bin)
  BY <1>1, OrderFollows
<1>3. PICK adj, vectors : adj = NewAdjacency(g, bfs_bin) /\ vectors = NewVectors(g, bfs_bin)
                          /\ ListsFit(adj) /\ VectorsFit(vectors)
  BY <1>2, NewIs
<1>4. PICK upper, f, route :
        /\ index = [ graph |-> SlimOf(Graph, upper),
                     csr   |-> BuildCsr(LoadSlimAdj(graph_bin), bfs_bin),
                     cache |-> OpenCache(f, route) ]
        /\ (f = blocks_bin /\ route = route_bin) \/ (f = vec_bin /\ route = vec_route)
  BY DEF IndexIsRight
<1>5. index.csr = BuildCsr(LoadSlimAdj(graph_bin), bfs_bin) /\ index.cache = OpenCache(f, route)
      /\ index.cache.file = f
  BY <1>4 DEF OpenCache
<1>6. PICK ps : BlocksHold(blocks_bin, ps, g, bfs_bin)
  BY <1>1, <1>2 DEF BlocksAreRight
<1>7. route_bin = GenRoute(blocks_bin)
  BY <1>1 DEF BlocksAreRight
<1>8. PICK vps : vps = VecOnlyPlans(g, VecRoom) /\ VecPlans(vps)
  BY <1>2, VecPlansAre
<1>9. PICK ids : VecFile(vec_bin, ids, vps, vectors) /\ (passes = 0 => ids = vps)
  BY <1>1, <1>2, <1>3, <1>8 DEF VecIsRight
<1>10. Routes(vec_route, vps)
  <2>1. vec_route = VecOnlyRoute(g, VecRoom) /\ Split(vps)
    BY <1>1, <1>2, <1>8 DEF VecIsRight, VecPlans
  <2> QED
    BY <1>2, <1>8, <2>1, VecRouteIs
<1>11. vec_bin # blocks_bin
  BY <1>3, <1>6, <1>8, <1>9, TwoKinds
<1>12. \A n \in Ids : Own(n) = vectors[n]
  BY <1>2, <1>3, OwnIs
<1>13. tables # NoTables => \A n \in Ids : FineVector(vec_bin, tables, n) = vectors[n]
  <2> SUFFICES ASSUME tables # NoTables, NEW n \in Ids
               PROVE  FineVector(vec_bin, tables, n) = vectors[n]
    OBVIOUS
  <2>1. tables = FineTables(vec_bin)
    BY DEF TablesAreRight
  <2> QED
    BY <1>3, <1>8, <1>9, <2>1, FineVectorIs
<1>14. index.cache.file # vec_bin \/ passes = 0 =>
         \A n \in Ids : GetVector(BlockByNodeId(index.cache, n), n) \in {vectors[n], <<>>}
  <2>1. CASE f = blocks_bin /\ route = route_bin
    BY <1>2, <1>3, <1>5, <1>6, <1>7, <2>1, ListBlockReads
  <2>2. CASE f = vec_bin /\ route = vec_route
    <3> SUFFICES ASSUME passes = 0, NEW n \in Ids
                 PROVE  GetVector(BlockByNodeId(index.cache, n), n) = vectors[n]
      BY <1>5, <2>2
    <3>1. VecFile(vec_bin, vps, vps, vectors)
      BY <1>9
    <3>2. GetVector(BlockByNodeId(OpenCache(vec_bin, vec_route), n), n) = vectors[n]
      BY <1>3, <1>8, <1>10, <3>1, VecBlockReads
    <3> QED
      BY <1>5, <2>2, <3>2
  <2> QED
    BY <1>4, <2>1, <2>2
<1>15. VectorsAreOwn
  BY <1>12, <1>13, <1>14 DEF VectorsAreOwn
<1>16. \A n \in Ids : Neighbours(n) = Ascending(adj[n])
  BY <1>2, <1>3 DEF Neighbours
<1>17. \A n \in Ids : InMemNeighbors(index.csr, n) = Ascending(adj[n])
  <2>1. PICK s : s = LoadSlimAdj(graph_bin) /\ s.num_nodes = N /\ s.adjacency0 = g.adjacency0
    BY <1>1, <1>2, SlimIs
  <2>2. NewAdjacency(s, bfs_bin) = adj
    <3>1. g.num_nodes = N
      BY <1>2 DEF IsGraph
    <3> QED
      BY <1>3, <2>1, <3>1 DEF NewAdjacency, Nodes
  <2> QED
    BY <1>3, <1>5, <2>1, <2>2, InMemIs
<1>18. index.cache.file = blocks_bin =>
         \A n \in Ids : GetNeighbors(BlockByNodeId(index.cache, n), n) = Ascending(adj[n])
  <2>1. CASE f = blocks_bin /\ route = route_bin
    BY <1>2, <1>3, <1>5, <1>6, <1>7, <2>1, ListBlockReads
  <2>2. CASE f = vec_bin /\ route = vec_route
    BY <1>5, <1>11, <2>2
  <2> QED
    BY <1>4, <2>1, <2>2
<1>19. NeighboursAreTheGraphs
  BY <1>16, <1>17, <1>18 DEF NeighboursAreTheGraphs
<1>20. CodesFollowVectors
  <2> SUFFICES ASSUME pq_codes # NoFile, tables # NoTables, NEW n \in Ids
               PROVE  pq_codes[n] = Encode(FineVector(vec_bin, tables, n))
    BY DEF CodesFollowVectors
  <2>1. pq_codes = CodesOf(g, bfs_bin)
    BY <1>2 DEF CodesAreRight
  <2>2. pq_codes[n] = Encode(g.vectors[bfs_bin.new_to_old[n]])
    BY <2>1 DEF CodesOf
  <2>3. g.vectors[bfs_bin.new_to_old[n]] = vectors[n]
    BY <1>2, <1>3, NewListsAre
  <2> QED
    BY <1>13, <2>2, <2>3
<1> QED
  BY <1>15, <1>19, <1>20 DEF ReadsAreOwn

LEMMA InitReadsAreRight == PipelineInit => ReadsAreRight
BY InitFilesAreRight
   DEF PipelineInit, ReadsAreRight, CodesAreRight, IndexIsRight, TablesAreRight

LEMMA NextReadsAreRight == ReadsAreRight /\ [PipelineNext]_pipelineVars => ReadsAreRight'
<1> SUFFICES ASSUME ReadsAreRight, [PipelineNext]_pipelineVars
             PROVE  ReadsAreRight'
  OBVIOUS
<1>1. /\ FilesAreRight /\ FilesFollow /\ GraphOk /\ BfsIsRight
      /\ CodesAreRight /\ IndexIsRight /\ TablesAreRight
  BY DEF ReadsAreRight, FilesAreRight, GraphFileInv
<1>2. FilesAreRight'
  BY <1>1, NextFilesAreRight
<1>3. CodesAreRight' /\ IndexIsRight' /\ TablesAreRight'
  BY <1>1, NextCodesAreRight, NextIndexIsRight, NextTablesAreRight
<1> QED
  BY <1>2, <1>3 DEF ReadsAreRight

\* Whatever a search reads of a node, by whichever way, is that node's: the vector
\* of the label it returns, in a block or through the tables of the fine rerank,
\* whatever order the blocks were given; its list, in memory or in a block; and
\* the code of its vector.
THEOREM ReadsStayOwn == PipelineSpec => []ReadsAreOwn
<1>1. ReadsAreRight => ReadsAreOwn
  <2> SUFFICES ASSUME ReadsAreRight PROVE ReadsAreOwn
    OBVIOUS
  <2>1. /\ FilesFollow /\ GraphOk /\ BfsIsRight /\ VecIsRight /\ BlocksAreRight
        /\ CodesAreRight /\ IndexIsRight /\ TablesAreRight
    BY DEF ReadsAreRight, FilesAreRight, GraphFileInv
  <2> QED
    BY <2>1, AllReadsAreOwn
<1> QED
  BY <1>1, InitReadsAreRight, NextReadsAreRight, PTL DEF PipelineSpec

=============================================================================
