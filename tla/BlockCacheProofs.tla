--------------------------- MODULE BlockCacheProofs ---------------------------
(***************************************************************************)
(* The invariants of BlockCache, for every number of blocks and slots and  *)
(* for every replacement policy, and those of the policies the code has.   *)
(*                                                                         *)
(* IInv is inductive.  Its parts need one another: capacity needs that the *)
(* policy tracks what is resident (else the eviction loop ends early), the *)
(* flat pointers need it too (a victim the policy names must be the block  *)
(* that is destroyed), and the settlement of prefetched blocks needs the   *)
(* type invariant (flags belong to resident blocks only).  The slots are   *)
(* written one word at a time: SlotsFollow says of each slot that it leads *)
(* to its owner unless it is among those still to be written, and          *)
(* CalmLookups carries that over the steps of a lookup.                    *)
(*                                                                         *)
(* PolicyIInv is the invariant of PolicyCache: the list of LRU is in the   *)
(* order of the last uses, LFU counts the uses and stamps the first, LRU-2 *)
(* keeps the stamps of the last two.  That the victim is the right one     *)
(* follows from it, and that the cache keeps a bounded cache's promises.   *)
(***************************************************************************)
EXTENDS BlockCache, PolicyCache, FiniteSetTheorems, SequenceTheorems,
        WellFoundedInduction, TLAPS

\* A slot follows its owner, but for the slots that the holder of the mutex has
\* still to write.
SlotsFollow ==
  /\ \A s \in FlatSlots : flat_owners[s] # NULL => FlatSlot(flat_owners[s]) = s
  /\ \A s \in FlatSlots \ (writes.clear \cup writes.half) :
       writes.entered = NULL \/ s # FlatSlot(writes.entered) =>
         /\ flat_ptrs[s] = flat_owners[s]
         /\ flat_owners[s] # NULL => flat_owners[s] \in cache_map
  /\ \A s \in writes.half : flat_owners[s] = NULL /\ writes.half = {s}
  /\ writes.enter # NULL => /\ FlatSlots # {} /\ writes.enter \in cache_map
                            /\ writes.entered = NULL
  /\ writes.entered # NULL =>
       /\ FlatSlots # {} /\ writes.entered \in cache_map
       /\ writes = [NoWrites EXCEPT !.entered = writes.entered]
       /\ flat_owners[FlatSlot(writes.entered)] = writes.entered

\* What a lookup past its first test knows: that its block has a slot and, if
\* nothing has disturbed it yet, that its block owns it and no writes are due.
LookupAt(l) ==
  l.at \notin {"idle", "locked"} =>
    /\ FlatSlots # {} /\ l.block \in Blocks
    /\ l.calm => /\ Settled
                 /\ flat_owners[FlatSlot(l.block)] = l.block
                 /\ l.at # "owned" => l.ptr = l.block

CalmLookups == \A r \in Readers : LookupAt(reading[r])

IInv ==
  /\ TypeOK
  /\ CapacityRespected
  /\ PolicyTracksResidents
  /\ SlotsFollow
  /\ CalmLookups
  /\ PrefetchSettledOnce

-----------------------------------------------------------------------------
(* Facts about the parts an operation is made of.                          *)

\* Sets of blocks are finite.
LEMMA BlocksFinite ==
  ASSUME NEW S \in SUBSET Blocks
  PROVE  IsFiniteSet(S) /\ Cardinality(S) \in Nat
<1>1. IsFiniteSet(Blocks)
  BY BlockCacheAssumption, FS_Interval DEF Blocks
<1>2. IsFiniteSet(S)
  BY <1>1, FS_Subset
<1> QED
  BY <1>2, FS_CardinalityType

\* With as many victims as the loop takes, there is room for one block more.
LEMMA EvictionMakesRoom ==
  ASSUME TypeOK, PolicyTracksResidents, CapacityRespected,
         NEW E \in SUBSET tracked, Evicts(E), NEW b \in Blocks
  PROVE  /\ Cardinality(cache_map \ E) <= (IF CacheSlots = 0 THEN 1 ELSE CacheSlots)
         /\ Cardinality((cache_map \ E) \cup {b})
              <= (IF CacheSlots = 0 THEN 1 ELSE CacheSlots)
<1> DEFINE R == cache_map \ E
<1>1. cache_map \subseteq Blocks /\ CacheSlots \in Nat
  BY BlockCacheAssumption DEF TypeOK
<1>2. IsFiniteSet(cache_map) /\ Cardinality(cache_map) \in Nat
  BY <1>1, BlocksFinite
<1>3. IsFiniteSet(R) /\ Cardinality(R) \in Nat
  BY <1>1, BlocksFinite
<1>4. Cardinality(R) <= Cardinality(cache_map)
  BY <1>2, FS_Subset
<1>5. Cardinality(R \cup {b}) <= Cardinality(R) + 1
  <2>1. Cardinality(R \cup {b}) = IF b \in R THEN Cardinality(R) ELSE Cardinality(R) + 1
    BY <1>3, FS_AddElement
  <2> QED
    BY <1>3, <2>1
<1>5a. Cardinality(R \cup {b}) \in Nat
  BY <1>1, BlocksFinite
<1>6. CASE Cardinality(R) < CacheSlots
  BY <1>1, <1>2, <1>3, <1>4, <1>5, <1>5a, <1>6 DEF CapacityRespected
<1>7. CASE E = tracked
  <2>1. R = {}
    BY <1>7 DEF PolicyTracksResidents
  <2>2. Cardinality(R) = 0 /\ Cardinality(R \cup {b}) = 1
    BY <2>1, FS_EmptySet, FS_Singleton
  <2> QED
    BY <1>1, <2>2
<1> QED
  BY <1>6, <1>7 DEF Evicts

\* The slot of a block is one of the slots.
LEMMA SlotOfBlock ==
  ASSUME FlatSlots # {}, NEW b \in Blocks
  PROVE  FlatSlot(b) \in FlatSlots
<1>1. NumBlocks \in Nat /\ CacheSlots * FlatRatio \in Nat
  BY BlockCacheAssumption
<1>2. FlatNumSlots \in Nat
  BY <1>1 DEF FlatNumSlots
<1>3. FlatNumSlots > 0
  BY <1>2 DEF FlatSlots
<1>4. b \in Nat
  BY BlockCacheAssumption DEF Blocks
<1>5. b % FlatNumSlots \in 0 .. FlatNumSlots - 1
  BY <1>2, <1>3, <1>4
<1> QED
  BY <1>3, <1>5 DEF FlatSlots, FlatSlot

\* What the slots and the lookups are.
FlatTyped ==
  /\ flat_owners \in [FlatSlots -> Blocks \cup {NULL}]
  /\ flat_ptrs \in [FlatSlots -> Blocks \cup {NULL, FREED}]
  /\ writes \in [clear : SUBSET FlatSlots, half : SUBSET FlatSlots,
                 enter : Blocks \cup {NULL}, entered : Blocks \cup {NULL}]
  /\ reading \in [Readers -> Lookups]

FlatInv == FlatTyped /\ SlotsFollow /\ CalmLookups

\* When nothing is left to write, owned slots lead to their owners.
LEMMA SettledSlots ==
  ASSUME FlatInv, Settled, NEW s \in FlatSlots
  PROVE  /\ flat_ptrs[s] = flat_owners[s]
         /\ flat_owners[s] # NULL => /\ flat_owners[s] \in cache_map
                                     /\ FlatSlot(flat_owners[s]) = s
<1>1. writes.clear = {} /\ writes.half = {} /\ writes.entered = NULL
  BY DEF Settled, NoWrites
<1> QED
  BY <1>1 DEF FlatInv, SlotsFollow

\* The fields of the writes that an update begins with.
LEMMA WritesForFields ==
  ASSUME NEW E, NEW b \in Blocks \cup {NULL}
  PROVE  /\ WritesFor(E, b).clear = { s \in FlatSlots : Invalidated(E, s) }
         /\ WritesFor(E, b).half = {}
         /\ WritesFor(E, b).enter = (IF FlatSlots = {} THEN NULL ELSE b)
         /\ WritesFor(E, b).entered = NULL
         /\ WritesFor(E, b) \in [clear : SUBSET FlatSlots, half : SUBSET FlatSlots,
                 enter : Blocks \cup {NULL}, entered : Blocks \cup {NULL}]
<1> DEFINE C == { s \in FlatSlots : Invalidated(E, s) }
           c == IF FlatSlots = {} THEN NULL ELSE b
<1>1. C \in SUBSET FlatSlots /\ c \in Blocks \cup {NULL}
  OBVIOUS
<1>2. WritesFor(E, b) = [NoWrites EXCEPT !.clear = C, !.enter = c]
  BY DEF WritesFor
<1> HIDE DEF C, c
<1>3. WritesFor(E, b) = [clear |-> C, half |-> {}, enter |-> c, entered |-> NULL]
  BY <1>2 DEF NoWrites
<1>4. /\ WritesFor(E, b).clear = C /\ WritesFor(E, b).half = {}
      /\ WritesFor(E, b).enter = c /\ WritesFor(E, b).entered = NULL
      /\ WritesFor(E, b) \in [clear : SUBSET FlatSlots, half : SUBSET FlatSlots,
                enter : Blocks \cup {NULL}, entered : Blocks \cup {NULL}]
  BY <1>1, <1>3
<1> QED
  BY <1>4 DEF C, c

\* A lookup beside an update keeps its place and its block.
LEMMA LookupsBesideFields ==
  ASSUME FlatTyped, NEW E, NEW w, NEW r \in Readers
  PROVE  LET l == LookupsBeside(E, w)[r]
         IN  /\ l \in Lookups
             /\ l.at = reading[r].at /\ l.block = reading[r].block
             /\ l.ptr = (IF reading[r].ptr \in E THEN FREED ELSE reading[r].ptr)
             /\ l.calm = (reading[r].calm /\ w = NoWrites)
<1>1. reading[r] \in Lookups
  BY DEF FlatTyped
<1>2. LookupsBeside(E, w)[r] =
        [reading[r] EXCEPT !.ptr  = IF @ \in E THEN FREED ELSE @,
                           !.calm = @ /\ w = NoWrites]
  BY DEF LookupsBeside
<1>3. (reading[r].calm /\ w = NoWrites) \in BOOLEAN
  OBVIOUS
<1> QED
  BY <1>1, <1>2, <1>3 DEF Lookups

LEMMA LookupsBesideTyped ==
  ASSUME FlatTyped, NEW E, NEW w
  PROVE  LookupsBeside(E, w) \in [Readers -> Lookups]
<1> DEFINE l(r) == [reading[r] EXCEPT !.ptr  = IF @ \in E THEN FREED ELSE @,
                                      !.calm = @ /\ w = NoWrites]
<1>1. LookupsBeside(E, w) = [r \in Readers |-> l(r)]
  BY DEF LookupsBeside
<1> HIDE DEF l
<1>2. \A r \in Readers : l(r) = LookupsBeside(E, w)[r]
  BY <1>1
<1>3. \A r \in Readers : LookupsBeside(E, w)[r] \in Lookups
  BY LookupsBesideFields
<1> QED
  BY <1>1, <1>2, <1>3

\* An update of the slots begins with victims that leave the map and a block
\* that is in it by now.
LEMMA WritesBegin ==
  ASSUME FlatInv, Settled, NEW E \in SUBSET Blocks, NEW b \in Blocks \cup {NULL},
         BeginWrites(E, b), cache_map \ E \subseteq cache_map',
         b # NULL => b \in cache_map'
  PROVE  FlatInv'
<1> DEFINE w == WritesFor(E, b)
<1>1. /\ writes' = w /\ reading' = LookupsBeside(E, w)
      /\ flat_owners' = flat_owners
      /\ flat_ptrs' = [s \in FlatSlots |->
                         IF flat_ptrs[s] \in E THEN FREED ELSE flat_ptrs[s]]
  BY DEF BeginWrites
<1>2. /\ w.clear = { s \in FlatSlots : Invalidated(E, s) } /\ w.half = {}
      /\ w.enter = (IF FlatSlots = {} THEN NULL ELSE b) /\ w.entered = NULL
      /\ w \in [clear : SUBSET FlatSlots, half : SUBSET FlatSlots,
                enter : Blocks \cup {NULL}, entered : Blocks \cup {NULL}]
  BY WritesForFields
<1> HIDE DEF w
<1>3. NULL \notin E
  BY BlockCacheAssumption
<1>4. ASSUME NEW s \in FlatSlots, s \notin w.clear
      PROVE  /\ flat_owners[s] \notin E /\ flat_ptrs'[s] = flat_owners[s]
             /\ flat_owners[s] # NULL => flat_owners[s] \in cache_map'
  BY <1>1, <1>2, <1>3, <1>4, SettledSlots DEF Invalidated
<1>5. SlotsFollow'
  BY <1>1, <1>2, <1>4 DEF FlatInv, SlotsFollow
<1>6. LookupsBeside(E, w) \in [Readers -> Lookups]
  BY LookupsBesideTyped DEF FlatInv
<1>7. FlatTyped'
  BY <1>1, <1>2, <1>6 DEF FlatInv, FlatTyped
<1>8. ASSUME NEW r \in Readers PROVE LookupAt(reading[r])'
  <2> SUFFICES ASSUME reading'[r].at \notin {"idle", "locked"}
               PROVE  /\ FlatSlots # {} /\ reading'[r].block \in Blocks
                      /\ reading'[r].calm =>
                           /\ Settled'
                           /\ flat_owners'[FlatSlot(reading'[r].block)]
                                = reading'[r].block
                           /\ reading'[r].at # "owned" =>
                                reading'[r].ptr = reading'[r].block
    BY DEF LookupAt
  <2>1. /\ reading'[r].at = reading[r].at /\ reading'[r].block = reading[r].block
        /\ reading'[r].calm = (reading[r].calm /\ w = NoWrites)
        /\ reading'[r].ptr =
             (IF reading[r].ptr \in E THEN FREED ELSE reading[r].ptr)
    BY <1>1, LookupsBesideFields DEF FlatInv
  <2>2. LookupAt(reading[r])
    BY DEF FlatInv, CalmLookups
  <2>3. FlatSlots # {} /\ reading[r].block \in Blocks
    BY <2>1, <2>2 DEF LookupAt
  <2>4. ASSUME reading'[r].calm
        PROVE  /\ Settled'
               /\ flat_owners'[FlatSlot(reading'[r].block)] = reading'[r].block
               /\ reading'[r].at # "owned" =>
                    reading'[r].ptr = reading'[r].block
    <3>1. /\ reading[r].calm /\ w = NoWrites
          /\ flat_owners[FlatSlot(reading[r].block)] = reading[r].block
          /\ reading[r].at # "owned" => reading[r].ptr = reading[r].block
      BY <2>1, <2>2, <2>4 DEF LookupAt
    <3>2. FlatSlot(reading[r].block) \in FlatSlots \ w.clear
      BY <2>3, <3>1, SlotOfBlock DEF NoWrites
    <3>3. reading[r].block \notin E
      BY <1>4, <3>1, <3>2
    <3> QED
      BY <1>1, <2>1, <3>1, <3>3 DEF Settled
  <2> QED
    BY <2>1, <2>3, <2>4
<1>9. CalmLookups'
  BY <1>8 DEF CalmLookups
<1> QED
  BY <1>5, <1>7, <1>9 DEF FlatInv

\* The counters an eviction leaves account for the prefetched victims.
LEMMA EvictionSettles ==
  ASSUME TypeOK, NEW E \in SUBSET cache_map
  PROVE  LET st == CountEvictions(stats, E)
         IN  /\ st \in [Counters -> Nat]
             /\ st.prefetch_useful + st.prefetch_wasted
                  + Cardinality(was_prefetched \ E)
                = stats.prefetch_useful + stats.prefetch_wasted
                  + Cardinality(was_prefetched)
<1> DEFINE P == was_prefetched \cap E
           U == P \cap was_accessed
           W == P \ was_accessed
<1>1. /\ was_prefetched \subseteq Blocks /\ E \subseteq Blocks
      /\ P \subseteq Blocks /\ U \subseteq Blocks /\ W \subseteq Blocks
  BY DEF TypeOK
<1>2. /\ IsFiniteSet(was_prefetched) /\ Cardinality(was_prefetched) \in Nat
      /\ IsFiniteSet(P) /\ Cardinality(P) \in Nat
      /\ Cardinality(U) \in Nat /\ Cardinality(W) \in Nat
      /\ Cardinality(E) \in Nat
      /\ Cardinality(was_prefetched \ E) \in Nat
  BY <1>1, BlocksFinite
<1>3. Cardinality(was_prefetched \ E) = Cardinality(was_prefetched) - Cardinality(P)
  BY <1>2, FS_Difference
<1>4. Cardinality(W) = Cardinality(P) - Cardinality(U)
  BY <1>2, FS_Difference
<1>5. stats \in [Counters -> Nat] /\ E \cap cache_map \cap was_prefetched = P
  BY DEF TypeOK
<1>6. CountEvictions(stats, E) \in [Counters -> Nat]
  <2> DEFINE d(c) ==
        CASE c = "prefetch_useful" -> Cardinality(U)
          [] c = "prefetch_wasted" -> Cardinality(W)
          [] OTHER                 -> 0
  <2>1. \A c \in Counters : stats[c] \in Nat /\ d(c) \in Nat
    BY <1>2, <1>5
  <2>2. CountEvictions(stats, E) = [c \in Counters |-> stats[c] + d(c)]
    BY <1>5 DEF CountEvictions
  <2> HIDE DEF d
  <2>3. \A c \in Counters : stats[c] + d(c) \in Nat
    BY <2>1
  <2> QED
    BY <2>2, <2>3
<1>7. /\ CountEvictions(stats, E).prefetch_useful = stats.prefetch_useful + Cardinality(U)
      /\ CountEvictions(stats, E).prefetch_wasted = stats.prefetch_wasted + Cardinality(W)
      /\ stats.prefetch_useful \in Nat /\ stats.prefetch_wasted \in Nat
  BY <1>2, <1>5 DEF CountEvictions, Counters
<1> QED
  BY <1>2, <1>3, <1>4, <1>6, <1>7

\* Counting a read settles nothing.
LEMMA ReadSettlesNothing ==
  ASSUME NEW st \in [Counters -> Nat]
  PROVE  /\ CountRead(st) \in [Counters -> Nat]
         /\ CountRead(st).prefetch_useful = st.prefetch_useful
         /\ CountRead(st).prefetch_wasted = st.prefetch_wasted
BY DEF CountRead, Counters

-----------------------------------------------------------------------------
(* The two things the eviction loop is followed by: nothing, when the read *)
(* fails, or the new block.                                                *)

\* The part of IInv about the resident blocks.
ResidentOK ==
  /\ cache_map \subseteq Blocks
  /\ was_prefetched \subseteq cache_map
  /\ was_accessed \subseteq cache_map
  /\ tracked \subseteq Blocks
  /\ CapacityRespected
  /\ PolicyTracksResidents

LEMMA EvictOnlyStep ==
  ASSUME IInv, Settled, NEW E \in SUBSET tracked, Evicts(E), EvictOnly(E)
  PROVE  /\ ResidentOK'
         /\ was_prefetched' = was_prefetched \ E
         /\ FlatInv'
<1>1. 0 \in Blocks
  BY BlockCacheAssumption DEF Blocks
<1>2. Cardinality(cache_map \ E) <= (IF CacheSlots = 0 THEN 1 ELSE CacheSlots)
  BY <1>1, EvictionMakesRoom DEF IInv
<1>3. FlatInv /\ E \in SUBSET Blocks
  BY DEF IInv, TypeOK, FlatInv, FlatTyped
<1>4. FlatInv'
  BY <1>3, WritesBegin DEF EvictOnly
<1>5. ResidentOK'
  BY <1>2 DEF EvictOnly, ResidentOK, IInv, TypeOK, CapacityRespected,
              PolicyTracksResidents
<1> QED
  BY <1>4, <1>5 DEF EvictOnly

LEMMA EmplaceStep ==
  ASSUME IInv, NEW E \in SUBSET tracked, Evicts(E), NEW b \in Blocks,
         b \notin cache_map, NEW pf \in BOOLEAN, EvictAndEmplace(E, b, pf)
  PROVE  /\ ResidentOK'
         /\ Cardinality(was_prefetched')
              = Cardinality(was_prefetched \ E) + (IF pf THEN 1 ELSE 0)
<1>1. Cardinality((cache_map \ E) \cup {b})
        <= (IF CacheSlots = 0 THEN 1 ELSE CacheSlots)
  BY EvictionMakesRoom DEF IInv
<1>2. was_prefetched \ E \subseteq Blocks /\ b \notin was_prefetched \ E
  BY DEF IInv, TypeOK
<1>3. /\ IsFiniteSet(was_prefetched \ E)
      /\ Cardinality(was_prefetched \ E) \in Nat
  BY <1>2, BlocksFinite
<1>4. Cardinality((was_prefetched \ E) \cup {b})
        = Cardinality(was_prefetched \ E) + 1
  BY <1>2, <1>3, FS_AddElement
<1>5. Cardinality(was_prefetched')
        = Cardinality(was_prefetched \ E) + (IF pf THEN 1 ELSE 0)
  <2>1. CASE pf
    <3>1. was_prefetched' = (was_prefetched \ E) \cup {b}
      BY <2>1 DEF EvictAndEmplace
    <3> QED
      BY <1>4, <2>1, <3>1
  <2>2. CASE ~pf
    <3>1. was_prefetched' = was_prefetched \ E
      BY <2>2 DEF EvictAndEmplace
    <3> QED
      BY <1>3, <2>2, <3>1
  <2> QED
    BY <2>1, <2>2
<1> QED
  BY <1>1, <1>5 DEF EvictAndEmplace, ResidentOK, IInv, TypeOK,
                    CapacityRespected, PolicyTracksResidents

-----------------------------------------------------------------------------
(* The steps.                                                              *)

\* The counters after an eviction and whatever else an operation counts.
Counted(E) ==
  /\ stats' \in [Counters -> Nat]
  /\ stats'.prefetch_useful = CountEvictions(stats, E).prefetch_useful
  /\ stats'.prefetch_wasted = CountEvictions(stats, E).prefetch_wasted

\* The variables that no eviction touches.
OthersTyped ==
  /\ batch \in Seq(Blocks)
  /\ open \in BOOLEAN

LEMMA ReadCounts ==
  ASSUME IInv, NEW E \in SUBSET tracked
  PROVE  /\ stats' = CountRead(CountEvictions(stats, E)) => Counted(E)
         /\ stats' = CountRead(CountRead(CountEvictions(stats, E))) => Counted(E)
         /\ stats' = CountEvictions(stats, E) => Counted(E)
<1>1. E \in SUBSET cache_map
  BY DEF IInv, PolicyTracksResidents
<1>2. CountEvictions(stats, E) \in [Counters -> Nat]
  BY <1>1, EvictionSettles DEF IInv
<1> QED
  BY <1>2, ReadSettlesNothing DEF Counted

\* The eviction loop followed by the new block preserves the invariant, ...
LEMMA LoadPreserves ==
  ASSUME IInv, Settled, NEW E \in SUBSET tracked, Evicts(E), NEW b \in Blocks,
         b \notin cache_map, NEW pf \in BOOLEAN, EvictAndEmplace(E, b, pf),
         BeginWrites(E, b) \/ BeginWrites(E, NULL),
         Counted(E), inserted' = inserted + (IF pf THEN 1 ELSE 0), OthersTyped'
  PROVE  IInv'
<1>1. E \in SUBSET cache_map
  BY DEF IInv, PolicyTracksResidents
<1>2. stats'.prefetch_useful + stats'.prefetch_wasted
        + Cardinality(was_prefetched \ E) = inserted
  BY <1>1, EvictionSettles DEF Counted, IInv, PrefetchSettledOnce
<1>3. /\ ResidentOK'
      /\ Cardinality(was_prefetched')
           = Cardinality(was_prefetched \ E) + (IF pf THEN 1 ELSE 0)
  BY EmplaceStep
<1>4. FlatInv'
  <2>1. FlatInv /\ E \in SUBSET Blocks
    BY DEF IInv, TypeOK, FlatInv, FlatTyped
  <2>2. cache_map \ E \subseteq cache_map' /\ b \in cache_map'
    BY DEF EvictAndEmplace
  <2> QED
    BY <2>1, <2>2, WritesBegin
<1>5. /\ stats'.prefetch_useful \in Nat /\ stats'.prefetch_wasted \in Nat
      /\ stats' \in [Counters -> Nat]
  BY DEF Counted, Counters
<1>6. inserted \in Nat /\ inserted' \in Nat
  BY DEF IInv, TypeOK
<1>7. Cardinality(was_prefetched \ E) \in Nat
  BY BlocksFinite DEF IInv, TypeOK
<1>8. PrefetchSettledOnce'
  BY <1>2, <1>3, <1>5, <1>6, <1>7 DEF PrefetchSettledOnce
<1> QED
  BY <1>3, <1>4, <1>5, <1>6, <1>8
     DEF IInv, TypeOK, ResidentOK, FlatInv, FlatTyped, OthersTyped

\* ... and so does the loop alone.
LEMMA FailPreserves ==
  ASSUME IInv, Settled, NEW E \in SUBSET tracked, Evicts(E), EvictOnly(E), Counted(E),
         inserted' = inserted, OthersTyped'
  PROVE  IInv'
<1>1. E \in SUBSET cache_map
  BY DEF IInv, PolicyTracksResidents
<1>2. stats'.prefetch_useful + stats'.prefetch_wasted
        + Cardinality(was_prefetched \ E) = inserted
  BY <1>1, EvictionSettles DEF Counted, IInv, PrefetchSettledOnce
<1>3. /\ ResidentOK'
      /\ was_prefetched' = was_prefetched \ E
      /\ FlatInv'
  BY EvictOnlyStep
<1>4. PrefetchSettledOnce'
  BY <1>2, <1>3 DEF PrefetchSettledOnce
<1> QED
  BY <1>3, <1>4
     DEF IInv, TypeOK, ResidentOK, FlatInv, FlatTyped, OthersTyped, Counted

LEMMA MissPreserves ==
  ASSUME IInv, Settled, NEW b \in Blocks, Miss(b)
  PROVE  IInv'
<1>1. b \notin cache_map /\ inserted' = inserted /\ OthersTyped'
  BY DEF Miss, IInv, TypeOK, OthersTyped
<1>2. PICK E \in SUBSET tracked : /\ Evicts(E)
                                  /\ MissLoaded(b, E) \/ MissFailed(E)
  BY DEF Miss
<1>3. CASE MissLoaded(b, E)
  <2>1. Counted(E)
    BY <1>3, ReadCounts DEF MissLoaded
  <2>2. /\ FALSE \in BOOLEAN
        /\ inserted' = inserted + (IF FALSE THEN 1 ELSE 0)
    BY <1>1 DEF IInv, TypeOK
  <2>3. EvictAndEmplace(E, b, FALSE) /\ BeginWrites(E, b)
    BY <1>3 DEF MissLoaded
  <2> QED
    BY <1>1, <1>2, <2>1, <2>2, <2>3, LoadPreserves
<1>4. CASE MissFailed(E)
  <2>1. Counted(E) /\ EvictOnly(E)
    BY <1>4, ReadCounts DEF MissFailed
  <2> QED
    BY <1>1, <1>2, <2>1, FailPreserves
<1> QED
  BY <1>2, <1>3, <1>4

LEMMA InsertReadPreserves ==
  ASSUME IInv, Settled, NEW b \in Blocks, b \notin cache_map, InsertRead(b),
         OthersTyped'
  PROVE  IInv'
<1>1. PICK E \in SUBSET tracked :
         /\ Evicts(E)
         /\ EvictAndEmplace(E, b, TRUE)
         /\ BeginWrites(E, b)
         /\ stats' = CountRead(CountEvictions(stats, E))
         /\ inserted' = inserted + 1
  BY DEF InsertRead
<1>2. Counted(E)
  BY <1>1, ReadCounts
<1>3. TRUE \in BOOLEAN /\ inserted' = inserted + (IF TRUE THEN 1 ELSE 0)
  BY <1>1
<1> QED
  BY <1>1, <1>2, <1>3, LoadPreserves

LEMMA TryPrefetchPreserves ==
  ASSUME IInv, NEW b \in Blocks, TryPrefetch(b)
  PROVE  IInv'
<1>1. b \notin cache_map /\ inserted' = inserted /\ OthersTyped' /\ Settled
  BY DEF TryPrefetch, Unlocked, IInv, TypeOK, OthersTyped
<1>2. PICK E \in SUBSET tracked :
        /\ Evicts(E)
        /\ \/ /\ EvictAndEmplace(E, b, FALSE)
              /\ BeginWrites(E, NULL)
              /\ stats' = CountRead(CountRead(CountEvictions(stats, E)))
           \/ /\ EvictOnly(E)
              /\ stats' = CountEvictions(stats, E)
  BY DEF TryPrefetch
<1>3. Counted(E)
  BY <1>2, ReadCounts
<1>4. /\ FALSE \in BOOLEAN
      /\ inserted' = inserted + (IF FALSE THEN 1 ELSE 0)
  BY <1>1 DEF IInv, TypeOK
<1>5. CASE EvictAndEmplace(E, b, FALSE) /\ BeginWrites(E, NULL)
  BY <1>1, <1>2, <1>3, <1>4, <1>5, LoadPreserves
<1>6. CASE EvictOnly(E)
  BY <1>1, <1>2, <1>3, <1>6, FailPreserves
<1> QED
  BY <1>2, <1>5, <1>6

-----------------------------------------------------------------------------
(* The operations that neither evict nor load.                             *)

\* What a step that leaves the map and the counters keeps, if it keeps the slots
\* and the lookups in order: blocks that were accessed may be marked.
LEMMA FlatStepPreserves ==
  ASSUME IInv, NEW S \in SUBSET cache_map,
         was_accessed' = was_accessed \cup S,
         FlatInv',
         UNCHANGED <<cache_map, was_prefetched, tracked, batch, stats, inserted,
                     open>>
  PROVE  IInv'
<1>1. CapacityRespected' /\ PolicyTracksResidents' /\ PrefetchSettledOnce'
  BY DEF IInv, CapacityRespected, PolicyTracksResidents, PrefetchSettledOnce
<1> QED
  BY <1>1 DEF IInv, TypeOK, FlatInv, FlatTyped

\* The slots and lookups of a state of the invariant.
LEMMA FlatOfInvariant ==
  ASSUME IInv
  PROVE  FlatInv
BY DEF IInv, TypeOK, FlatInv, FlatTyped

\* A step that leaves the map, the slots and the lookups alone.
LEMMA FlatSame ==
  ASSUME FlatInv, UNCHANGED <<cache_map, flat, reading>>
  PROVE  FlatInv'
BY DEF FlatInv, FlatTyped, SlotsFollow, CalmLookups, LookupAt, Settled, flat

LEMMA GetBlockPreserves ==
  ASSUME IInv, Settled, NEW b \in Blocks, Hit(b) \/ Miss(b)
  PROVE  IInv'
<1>1. CASE Hit(b)
  <2>1. /\ {b} \in SUBSET cache_map
        /\ was_accessed' = was_accessed \cup {b}
        /\ UNCHANGED <<cache_map, was_prefetched, tracked, batch, stats,
                       inserted, open>>
        /\ UNCHANGED <<flat, reading>>
    BY <1>1 DEF Hit
  <2>2. FlatInv'
    BY <2>1, FlatOfInvariant, FlatSame
  <2> QED
    BY <2>1, <2>2, FlatStepPreserves
<1> QED
  BY <1>1, MissPreserves

LEMMA GetBlockByNodeIdPreserves ==
  ASSUME IInv, NEW n \in Nodes, GetBlockByNodeId(n)
  PROVE  IInv'
<1>1. Settled /\ Route[n] \in Blocks /\ (Hit(Route[n]) \/ Miss(Route[n]))
  BY BlockCacheAssumption DEF GetBlockByNodeId, Unlocked
<1> QED
  BY <1>1, GetBlockPreserves

-----------------------------------------------------------------------------
(* The slot writes.                                                        *)

\* The lookups are as they were, and while writes are due none is undisturbed.
LEMMA CalmWhileWriting ==
  ASSUME FlatInv, ~Settled, UNCHANGED reading
  PROVE  CalmLookups'
BY DEF FlatInv, CalmLookups, LookupAt

LEMMA InvalidateOwnerPreserves ==
  ASSUME IInv, NEW s \in FlatSlots, InvalidateOwner(s)
  PROVE  IInv'
<1>1. FlatInv
  BY FlatOfInvariant
<1>2. /\ writes.half = {} /\ s \in writes.clear
      /\ flat_owners' = [flat_owners EXCEPT ![s] = NULL]
      /\ writes' = [writes EXCEPT !.clear = @ \ {s}, !.half = {s}]
      /\ flat_ptrs' = flat_ptrs
      /\ UNCHANGED <<cache_map, was_prefetched, tracked, batch, stats, inserted,
                     open>>
      /\ was_accessed' = was_accessed /\ reading' = reading
  BY DEF InvalidateOwner, unflat, resident
<1>3. writes.entered = NULL /\ ~Settled
  BY <1>1, <1>2 DEF FlatInv, SlotsFollow, Settled, NoWrites
<1>4. /\ writes'.clear = writes.clear \ {s} /\ writes'.half = {s}
      /\ writes'.enter = writes.enter /\ writes'.entered = NULL
  BY <1>1, <1>2, <1>3 DEF FlatInv, FlatTyped
<1>5. FlatTyped'
  BY <1>1, <1>2 DEF FlatInv, FlatTyped
<1>6. \A x \in FlatSlots : flat_owners'[x] = IF x = s THEN NULL ELSE flat_owners[x]
  BY <1>1, <1>2 DEF FlatInv, FlatTyped
<1>7. SlotsFollow'
  BY <1>1, <1>2, <1>3, <1>4, <1>6 DEF FlatInv, SlotsFollow
<1>8. FlatInv'
  BY <1>1, <1>2, <1>3, <1>5, <1>7, CalmWhileWriting DEF FlatInv
<1>9. {} \in SUBSET cache_map /\ was_accessed' = was_accessed \cup {}
  BY <1>2
<1> QED
  BY <1>2, <1>8, <1>9, FlatStepPreserves

LEMMA InvalidatePointerPreserves ==
  ASSUME IInv, NEW s \in FlatSlots, InvalidatePointer(s)
  PROVE  IInv'
<1>1. FlatInv
  BY FlatOfInvariant
<1>2. /\ s \in writes.half
      /\ flat_ptrs' = [flat_ptrs EXCEPT ![s] = NULL]
      /\ writes' = [writes EXCEPT !.half = {}]
      /\ flat_owners' = flat_owners
      /\ UNCHANGED <<cache_map, was_prefetched, tracked, batch, stats, inserted,
                     open>>
      /\ was_accessed' = was_accessed /\ reading' = reading
  BY DEF InvalidatePointer, unflat, resident
<1>3. writes.entered = NULL /\ ~Settled /\ writes.half = {s} /\ flat_owners[s] = NULL
  BY <1>1, <1>2 DEF FlatInv, SlotsFollow, Settled, NoWrites
<1>4. /\ writes'.clear = writes.clear /\ writes'.half = {}
      /\ writes'.enter = writes.enter /\ writes'.entered = NULL
  BY <1>1, <1>2, <1>3 DEF FlatInv, FlatTyped
<1>5. FlatTyped'
  BY <1>1, <1>2 DEF FlatInv, FlatTyped
<1>6. \A x \in FlatSlots : flat_ptrs'[x] = IF x = s THEN NULL ELSE flat_ptrs[x]
  BY <1>1, <1>2 DEF FlatInv, FlatTyped
<1>7. SlotsFollow'
  BY <1>1, <1>2, <1>3, <1>4, <1>6 DEF FlatInv, SlotsFollow
<1>8. FlatInv'
  BY <1>1, <1>2, <1>3, <1>5, <1>7, CalmWhileWriting DEF FlatInv
<1>9. {} \in SUBSET cache_map /\ was_accessed' = was_accessed \cup {}
  BY <1>2
<1> QED
  BY <1>2, <1>8, <1>9, FlatStepPreserves

LEMMA PopulateOwnerPreserves ==
  ASSUME IInv, PopulateOwner
  PROVE  IInv'
<1> DEFINE b == writes.enter
<1>1. FlatInv
  BY FlatOfInvariant
<1>2. /\ writes.clear = {} /\ writes.half = {} /\ b # NULL
      /\ flat_owners' = [flat_owners EXCEPT ![FlatSlot(b)] = b]
      /\ writes' = [NoWrites EXCEPT !.entered = b]
      /\ flat_ptrs' = flat_ptrs
      /\ UNCHANGED <<cache_map, was_prefetched, tracked, batch, stats, inserted,
                     open>>
      /\ was_accessed' = was_accessed /\ reading' = reading
  BY DEF PopulateOwner, unflat, resident
<1>3. /\ writes.entered = NULL /\ ~Settled /\ FlatSlots # {} /\ b \in cache_map
      /\ b \in Blocks
  BY <1>1, <1>2 DEF FlatInv, FlatTyped, SlotsFollow, Settled, NoWrites
<1>4. /\ writes'.clear = {} /\ writes'.half = {}
      /\ writes'.enter = NULL /\ writes'.entered = b
      /\ writes' = [NoWrites EXCEPT !.entered = writes'.entered]
  BY <1>2 DEF NoWrites
<1> HIDE DEF b
<1>5. FlatSlot(b) \in FlatSlots
  BY <1>3, SlotOfBlock
<1>6. FlatTyped'
  BY <1>1, <1>2, <1>3, <1>5 DEF FlatInv, FlatTyped, NoWrites
<1>7. \A x \in FlatSlots :
        flat_owners'[x] = IF x = FlatSlot(b) THEN b ELSE flat_owners[x]
  BY <1>1, <1>2 DEF FlatInv, FlatTyped
<1>8. SlotsFollow'
  BY <1>1, <1>2, <1>3, <1>4, <1>5, <1>7 DEF FlatInv, SlotsFollow
<1>9. FlatInv'
  BY <1>1, <1>2, <1>3, <1>6, <1>8, CalmWhileWriting DEF FlatInv
<1>10. {} \in SUBSET cache_map /\ was_accessed' = was_accessed \cup {}
  BY <1>2
<1> QED
  BY <1>2, <1>9, <1>10, FlatStepPreserves

LEMMA PopulatePointerPreserves ==
  ASSUME IInv, PopulatePointer
  PROVE  IInv'
<1> DEFINE b == writes.entered
<1>1. FlatInv
  BY FlatOfInvariant
<1>2. /\ b # NULL
      /\ flat_ptrs' = [flat_ptrs EXCEPT ![FlatSlot(b)] = b]
      /\ writes' = NoWrites
      /\ flat_owners' = flat_owners
      /\ UNCHANGED <<cache_map, was_prefetched, tracked, batch, stats, inserted,
                     open>>
      /\ was_accessed' = was_accessed /\ reading' = reading
  BY DEF PopulatePointer, unflat, resident
<1>3. /\ ~Settled /\ FlatSlots # {} /\ b \in cache_map /\ b \in Blocks
      /\ writes.clear = {} /\ writes.half = {}
      /\ flat_owners[FlatSlot(b)] = b
  BY <1>1, <1>2 DEF FlatInv, FlatTyped, SlotsFollow, Settled, NoWrites
<1>4. /\ writes'.clear = {} /\ writes'.half = {}
      /\ writes'.enter = NULL /\ writes'.entered = NULL
  BY <1>2 DEF NoWrites
<1>5. FlatSlot(b) \in FlatSlots
  BY <1>3, SlotOfBlock
<1>6. FlatTyped'
  BY <1>1, <1>2, <1>3, <1>5 DEF FlatInv, FlatTyped, NoWrites
<1>7. \A x \in FlatSlots :
        flat_ptrs'[x] = IF x = FlatSlot(b) THEN b ELSE flat_ptrs[x]
  BY <1>1, <1>2 DEF FlatInv, FlatTyped
<1>8. SlotsFollow'
  BY <1>1, <1>2, <1>3, <1>4, <1>5, <1>7 DEF FlatInv, SlotsFollow
<1>9. FlatInv'
  BY <1>1, <1>2, <1>3, <1>6, <1>8, CalmWhileWriting DEF FlatInv
<1>10. {} \in SUBSET cache_map /\ was_accessed' = was_accessed \cup {}
  BY <1>2
<1> QED
  BY <1>2, <1>9, <1>10, FlatStepPreserves

-----------------------------------------------------------------------------
(* The lookup without the lock.                                            *)

\* One lookup gets to l, the slots stay.
LEMMA LookupMoves ==
  ASSUME IInv, NEW r \in Readers, NEW l \in Lookups,
         reading' = [reading EXCEPT ![r] = l], UNCHANGED unlooked,
         NEW S \in SUBSET cache_map, was_accessed' = was_accessed \cup S,
         LookupAt(l)
  PROVE  IInv'
<1>1. FlatInv
  BY FlatOfInvariant
<1>2. /\ UNCHANGED <<cache_map, was_prefetched, tracked, batch, stats, inserted,
                     open>>
      /\ flat_owners' = flat_owners /\ flat_ptrs' = flat_ptrs
      /\ writes' = writes
  BY DEF unlooked, flat
<1>3. FlatTyped'
  BY <1>1, <1>2 DEF FlatInv, FlatTyped
<1>4. SlotsFollow'
  BY <1>1, <1>2 DEF FlatInv, SlotsFollow
<1>5. \A x \in Readers : reading'[x] = IF x = r THEN l ELSE reading[x]
  BY <1>1 DEF FlatInv, FlatTyped
<1>6. CalmLookups'
  BY <1>1, <1>2, <1>5 DEF FlatInv, CalmLookups, LookupAt, Settled
<1> QED
  BY <1>2, <1>3, <1>4, <1>6, FlatStepPreserves DEF FlatInv

LEMMA TestOwnerPreserves ==
  ASSUME IInv, NEW r \in Readers, NEW b \in Blocks, TestOwner(r, b)
  PROVE  IInv'
<1> DEFINE l == [at |-> IF FlatSlots # {} /\ flat_owners[FlatSlot(b)] = b
                        THEN "owned" ELSE "locked",
                 block |-> b, ptr |-> NULL, calm |-> Settled]
<1>1. /\ reading' = [reading EXCEPT ![r] = l] /\ UNCHANGED unlooked
      /\ was_accessed' = was_accessed \cup {}
  BY DEF TestOwner
<1>2. Settled \in BOOLEAN
  BY DEF Settled
<1>3. l \in Lookups
  BY <1>2 DEF Lookups
<1>4. LookupAt(l)
  BY DEF LookupAt
<1>5. {} \in SUBSET cache_map
  OBVIOUS
<1> HIDE DEF l
<1> QED
  BY <1>1, <1>3, <1>4, <1>5, LookupMoves

\* What an undisturbed lookup finds in its slot, and what it can hold.
LEMMA CalmPointer ==
  ASSUME IInv, NEW r \in Readers, reading[r].calm,
         reading[r].at \notin {"idle", "locked"}
  PROVE  /\ Settled /\ FlatSlots # {} /\ reading[r].block \in Blocks
         /\ flat_owners[FlatSlot(reading[r].block)] = reading[r].block
         /\ SlotPointer(r) = reading[r].block
         /\ reading[r].at # "owned" => reading[r].ptr = reading[r].block
         /\ reading[r].block \in cache_map
<1>1. /\ Settled /\ FlatSlots # {} /\ reading[r].block \in Blocks
      /\ flat_owners[FlatSlot(reading[r].block)] = reading[r].block
      /\ reading[r].at # "owned" => reading[r].ptr = reading[r].block
  BY DEF IInv, CalmLookups, LookupAt
<1>2. FlatSlot(reading[r].block) \in FlatSlots /\ reading[r].block # NULL
  BY <1>1, SlotOfBlock, BlockCacheAssumption
<1> QED
  BY <1>1, <1>2, FlatOfInvariant, SettledSlots DEF SlotPointer

\* A lookup past the first test has a slot, and finds a block or none in it.
LEMMA PointerTyped ==
  ASSUME IInv, NEW r \in Readers, reading[r].at \notin {"idle", "locked"}
  PROVE  /\ FlatSlots # {} /\ reading[r].block \in Blocks
         /\ reading[r] \in Lookups
         /\ SlotPointer(r) \in Blocks \cup {NULL, FREED}
         /\ PointerRead(r) \subseteq Blocks \cup {NULL, FREED}
<1>1. FlatSlots # {} /\ reading[r].block \in Blocks /\ reading[r] \in Lookups
  BY DEF IInv, CalmLookups, LookupAt, TypeOK
<1>2. FlatSlot(reading[r].block) \in FlatSlots
  BY <1>1, SlotOfBlock
<1>3. SlotPointer(r) \in Blocks \cup {NULL, FREED}
  BY <1>2 DEF SlotPointer, IInv, TypeOK
<1> QED
  BY <1>1, <1>3 DEF PointerRead, Lookups

\* A lookup goes on to another place with a pointer it has just read.
LEMMA LookupGoesOn ==
  ASSUME IInv, NEW r \in Readers, reading[r].at \notin {"idle", "locked"},
         NEW p \in Blocks \cup {NULL, FREED},
         NEW at \in {"marking", "returning", "returned", "locked"},
         reading' = [reading EXCEPT ![r].at = at, ![r].ptr = p],
         reading[r].calm => p = reading[r].block,
         UNCHANGED unlooked,
         NEW S \in SUBSET cache_map, was_accessed' = was_accessed \cup S
  PROVE  IInv'
<1> DEFINE l == [reading[r] EXCEPT !.at = at, !.ptr = p]
<1>1. FlatSlots # {} /\ reading[r].block \in Blocks /\ reading[r] \in Lookups
  BY PointerTyped
<1>2. reading' = [reading EXCEPT ![r] = l]
  BY DEF IInv, TypeOK
<1>3. /\ l \in Lookups /\ l.at = at /\ l.ptr = p /\ l.block = reading[r].block
      /\ l.calm = reading[r].calm
  BY <1>1 DEF Lookups
<1> HIDE DEF l
<1>4. LookupAt(l)
  <2>1. reading[r].calm =>
          /\ Settled
          /\ flat_owners[FlatSlot(reading[r].block)] = reading[r].block
    BY CalmPointer
  <2> QED
    BY <1>1, <1>3, <2>1 DEF LookupAt
<1> QED
  BY <1>2, <1>3, <1>4, LookupMoves

LEMMA TestPointerPreserves ==
  ASSUME IInv, NEW r \in Readers, TestPointer(r)
  PROVE  IInv'
<1> DEFINE p == SlotPointer(r)
           at == IF p = NULL THEN "locked" ELSE "marking"
<1>1. /\ reading[r].at = "owned"
      /\ reading' = [reading EXCEPT ![r].at = at, ![r].ptr = p]
      /\ UNCHANGED unlooked /\ was_accessed' = was_accessed \cup {}
  BY DEF TestPointer
<1>2. at \in {"marking", "returning", "returned", "locked"}
  OBVIOUS
<1>3. /\ p \in Blocks \cup {NULL, FREED}
      /\ reading[r].calm => p = reading[r].block
  BY <1>1, PointerTyped, CalmPointer
<1>4. {} \in SUBSET cache_map
  OBVIOUS
<1> HIDE DEF at, p
<1> QED
  BY <1>1, <1>2, <1>3, <1>4, LookupGoesOn

\* Whichever pointer a use of it reads, an undisturbed lookup has its block's.
LEMMA PointerReadRight ==
  ASSUME IInv, NEW r \in Readers, reading[r].at \in {"marking", "returning"},
         NEW p \in PointerRead(r)
  PROVE  /\ p \in Blocks \cup {NULL, FREED}
         /\ reading[r].calm => p = reading[r].block
BY PointerTyped, CalmPointer DEF PointerRead

LEMMA MarkAccessedPreserves ==
  ASSUME IInv, NEW r \in Readers, MarkAccessed(r)
  PROVE  IInv'
<1>1. PICK p \in PointerRead(r) :
        /\ reading' = [reading EXCEPT ![r].at = "returning", ![r].ptr = p]
        /\ was_accessed' = was_accessed \cup ({p} \cap cache_map)
  BY DEF MarkAccessed
<1>2. reading[r].at = "marking" /\ UNCHANGED unlooked
  BY DEF MarkAccessed
<1>3. /\ p \in Blocks \cup {NULL, FREED}
      /\ reading[r].calm => p = reading[r].block
  BY <1>2, PointerReadRight
<1>4. {p} \cap cache_map \in SUBSET cache_map
  OBVIOUS
<1> QED
  BY <1>1, <1>2, <1>3, <1>4, LookupGoesOn

LEMMA ReturnFlatPreserves ==
  ASSUME IInv, NEW r \in Readers, ReturnFlat(r)
  PROVE  IInv'
<1>1. PICK p \in PointerRead(r) :
        reading' = [reading EXCEPT ![r].at = "returned", ![r].ptr = p]
  BY DEF ReturnFlat
<1>2. /\ reading[r].at = "returning" /\ UNCHANGED unlooked
      /\ was_accessed' = was_accessed \cup {}
  BY DEF ReturnFlat
<1>3. /\ p \in Blocks \cup {NULL, FREED}
      /\ reading[r].calm => p = reading[r].block
  BY <1>2, PointerReadRight
<1>4. {} \in SUBSET cache_map
  OBVIOUS
<1> QED
  BY <1>1, <1>2, <1>3, <1>4, LookupGoesOn

\* The slow path begins an update without victims, and ends the lookup.
LEMMA GetCachedBlockLockedPreserves ==
  ASSUME IInv, NEW r \in Readers, GetCachedBlockLocked(r)
  PROVE  IInv'
<1> DEFINE b == reading[r].block
           c == IF b \in cache_map THEN b ELSE NULL
           w == WritesFor({}, c)
           beside == LookupsBeside({}, w)
<1>1. /\ Settled
      /\ was_accessed' = was_accessed \cup ({b} \cap cache_map)
      /\ writes' = w /\ reading' = [beside EXCEPT ![r] = NoLookup]
      /\ flat_owners' = flat_owners /\ flat_ptrs' = flat_ptrs
      /\ UNCHANGED <<cache_map, was_prefetched, tracked, batch, stats, inserted,
                     open>>
  BY DEF GetCachedBlockLocked, Unlocked
<1>2. FlatInv
  BY FlatOfInvariant
<1>3. c \in Blocks \cup {NULL} /\ (c # NULL => c \in cache_map)
  BY DEF IInv, TypeOK
<1> HIDE DEF c
<1>4. /\ w.clear = {} /\ w.half = {} /\ w.entered = NULL
      /\ w.enter = (IF FlatSlots = {} THEN NULL ELSE c)
      /\ w \in [clear : SUBSET FlatSlots, half : SUBSET FlatSlots,
                enter : Blocks \cup {NULL}, entered : Blocks \cup {NULL}]
  BY <1>3, WritesForFields DEF Invalidated
<1> HIDE DEF w
<1>5. \A x \in Readers :
        /\ beside[x] \in Lookups
        /\ beside[x].at = reading[x].at /\ beside[x].block = reading[x].block
        /\ beside[x].ptr = reading[x].ptr
        /\ beside[x].calm = (reading[x].calm /\ w = NoWrites)
  BY <1>2, LookupsBesideFields DEF FlatInv
<1>6. beside \in [Readers -> Lookups]
  BY <1>2, LookupsBesideTyped DEF FlatInv
<1> HIDE DEF beside
<1>7. NoLookup \in Lookups
  BY DEF NoLookup, Lookups
<1>8. reading' \in [Readers -> Lookups]
  BY <1>1, <1>6, <1>7
<1>9. FlatTyped'
  BY <1>1, <1>2, <1>4, <1>8 DEF FlatInv, FlatTyped
<1>10. SlotsFollow'
  BY <1>1, <1>2, <1>3, <1>4, SettledSlots DEF FlatInv, SlotsFollow
<1>11. ASSUME NEW x \in Readers PROVE LookupAt(reading[x])'
  <2>1. CASE x = r
    <3>1. reading'[x].at = "idle"
      BY <1>1, <1>6, <2>1 DEF NoLookup
    <3> QED
      BY <3>1 DEF LookupAt
  <2>2. CASE x # r
    <3>1. reading'[x] = beside[x] /\ LookupAt(reading[x])
      BY <1>1, <1>2, <1>6, <2>2 DEF FlatInv, CalmLookups
    <3>2. /\ beside[x].at = reading[x].at /\ beside[x].block = reading[x].block
          /\ beside[x].ptr = reading[x].ptr
          /\ beside[x].calm = (reading[x].calm /\ w = NoWrites)
      BY <1>5
    <3>3. writes' = w /\ flat_owners' = flat_owners
      BY <1>1
    <3> QED
      BY <3>1, <3>2, <3>3 DEF LookupAt, Settled
  <2> QED
    BY <2>1, <2>2
<1>12. FlatInv'
  BY <1>9, <1>10, <1>11 DEF FlatInv, CalmLookups
<1>13. {b} \cap cache_map \in SUBSET cache_map
  OBVIOUS
<1> QED
  BY <1>1, <1>12, <1>13, FlatStepPreserves

\* Empty slots, nothing to write, nobody looking.
EmptyFlat ==
  /\ flat_owners = [s \in FlatSlots |-> NULL]
  /\ flat_ptrs = [s \in FlatSlots |-> NULL]
  /\ writes = NoWrites
  /\ reading = [r \in Readers |-> NoLookup]

LEMMA EmptyFlatInv == EmptyFlat => FlatInv
<1> SUFFICES ASSUME EmptyFlat PROVE FlatInv
  OBVIOUS
<1>1. FlatTyped
  BY DEF EmptyFlat, FlatTyped, NoWrites, NoLookup, Lookups
<1>2. SlotsFollow
  BY DEF EmptyFlat, SlotsFollow, NoWrites
<1>3. CalmLookups
  BY DEF EmptyFlat, CalmLookups, LookupAt, NoLookup
<1> QED
  BY <1>1, <1>2, <1>3 DEF FlatInv

LEMMA DestroyPreserves ==
  ASSUME IInv, Destroy
  PROVE  IInv'
<1> DEFINE U == was_prefetched \cap was_accessed
           W == was_prefetched \ was_accessed
<1>1. /\ IsFiniteSet(was_prefetched) /\ Cardinality(was_prefetched) \in Nat
      /\ Cardinality(U) \in Nat /\ Cardinality(W) \in Nat
  BY BlocksFinite DEF IInv, TypeOK
<1>2. Cardinality(W) = Cardinality(was_prefetched) - Cardinality(U)
  BY <1>1, FS_Difference
<1>3. stats \in [Counters -> Nat]
  BY DEF IInv, TypeOK
<1>4. stats' \in [Counters -> Nat]
  <2> DEFINE d(c) ==
        CASE c = "prefetch_useful" -> Cardinality(U)
          [] c = "prefetch_wasted" -> Cardinality(W)
          [] OTHER                 -> 0
  <2>1. \A c \in Counters : stats[c] \in Nat /\ d(c) \in Nat
    BY <1>1, <1>3
  <2>2. stats' = [c \in Counters |-> stats[c] + d(c)]
    BY DEF Destroy
  <2> HIDE DEF d
  <2>3. \A c \in Counters : stats[c] + d(c) \in Nat
    BY <2>1
  <2> QED
    BY <2>2, <2>3
<1>5. /\ stats'.prefetch_useful = stats.prefetch_useful + Cardinality(U)
      /\ stats'.prefetch_wasted = stats.prefetch_wasted + Cardinality(W)
      /\ stats.prefetch_useful \in Nat /\ stats.prefetch_wasted \in Nat
  BY <1>1, <1>3 DEF Destroy, Counters
<1>6. Cardinality({}) = 0 /\ CacheSlots \in Nat
  BY FS_EmptySet, BlockCacheAssumption
<1>7. PrefetchSettledOnce'
  BY <1>1, <1>2, <1>5, <1>6 DEF IInv, PrefetchSettledOnce, Destroy
<1>8. CapacityRespected' /\ PolicyTracksResidents'
  BY <1>6 DEF CapacityRespected, PolicyTracksResidents, Destroy
<1>9. writes = NoWrites /\ writes' = NoWrites
  BY DEF Destroy, Settled
<1>10. EmptyFlat'
  BY <1>9 DEF Destroy, EmptyFlat
<1>11. FlatInv'
  BY <1>10, EmptyFlatInv, PTL
<1> QED
  BY <1>4, <1>7, <1>8, <1>11 DEF IInv, TypeOK, Destroy, FlatInv, FlatTyped

LEMMA InsertBlockPreserves ==
  ASSUME IInv, NEW b \in Blocks, InsertBlock(b)
  PROVE  IInv'
<1>1. OthersTyped'
  BY DEF InsertBlock, OthersTyped, IInv, TypeOK
<1> QED
  BY <1>1, InsertReadPreserves DEF InsertBlock, Unlocked

LEMMA InsertBlocksBatchPreserves ==
  ASSUME IInv, NEW q \in Batches, InsertBlocksBatch(q)
  PROVE  IInv'
<1>1. q \in Seq(Blocks)
  <2>1. PICK n \in 1 .. MaxBatch : q \in [1 .. n -> Blocks]
    BY DEF Batches
  <2>2. n \in Nat
    BY <2>1, BlockCacheAssumption
  <2> QED
    BY <2>1, <2>2
<1>2. FlatInv'
  BY FlatOfInvariant, FlatSame DEF InsertBlocksBatch, resident
<1> QED
  BY <1>1, <1>2 DEF InsertBlocksBatch, IInv, TypeOK, CapacityRespected, resident,
              PolicyTracksResidents, PrefetchSettledOnce, FlatInv, FlatTyped

LEMMA BatchInsertNextPreserves ==
  ASSUME IInv, BatchInsertNext
  PROVE  IInv'
<1>1. batch \in Seq(Blocks) /\ batch # <<>>
  BY DEF BatchInsertNext, IInv, TypeOK
<1>2. Head(batch) \in Blocks /\ Tail(batch) \in Seq(Blocks)
  BY <1>1
<1>3. OthersTyped'
  BY <1>2 DEF BatchInsertNext, OthersTyped, IInv, TypeOK
<1>4. CASE UNCHANGED <<resident, flat, reading, stats, inserted>>
  <2>1. FlatInv'
    BY <1>4, FlatOfInvariant, FlatSame DEF resident
  <2> QED
    BY <1>3, <1>4, <2>1
       DEF OthersTyped, IInv, TypeOK, CapacityRespected, resident,
           PolicyTracksResidents, PrefetchSettledOnce, FlatInv, FlatTyped
<1>5. CASE Head(batch) \notin cache_map /\ InsertRead(Head(batch))
  BY <1>2, <1>3, <1>5, InsertReadPreserves DEF BatchInsertNext
<1> QED
  BY <1>4, <1>5 DEF BatchInsertNext

\* The prefetch counters are the only ones the invariant speaks of, and the
\* ones resetStats spares.
LEMMA ResetStatsPreserves ==
  ASSUME IInv, ResetStats
  PROVE  IInv'
<1>1. stats \in [Counters -> Nat]
  BY DEF IInv, TypeOK
<1>2. stats' \in [Counters -> Nat]
  BY <1>1 DEF ResetStats
<1>3. /\ stats'.prefetch_useful = stats.prefetch_useful
      /\ stats'.prefetch_wasted = stats.prefetch_wasted
  BY DEF ResetStats, Counters, PrefetchCounters
<1>4. FlatInv'
  BY FlatOfInvariant, FlatSame DEF ResetStats, resident
<1> QED
  BY <1>2, <1>3, <1>4
     DEF ResetStats, IInv, TypeOK, CapacityRespected, resident,
         PolicyTracksResidents, PrefetchSettledOnce, FlatInv, FlatTyped

-----------------------------------------------------------------------------
(* The invariants.                                                         *)

LEMMA InitIInv == Init => IInv
<1> SUFFICES ASSUME Init PROVE IInv
  OBVIOUS
<1>1. Cardinality({}) = 0 /\ CacheSlots \in Nat
  BY FS_EmptySet, BlockCacheAssumption
<1>2. FlatInv
  BY EmptyFlatInv DEF Init, EmptyFlat
<1>3. CapacityRespected /\ PolicyTracksResidents
  BY <1>1 DEF Init, CapacityRespected, PolicyTracksResidents
<1>4. TypeOK
  BY <1>1, <1>2 DEF Init, TypeOK, FlatInv, FlatTyped
<1>5. PrefetchSettledOnce
  BY <1>1 DEF Init, PrefetchSettledOnce, Counters
<1> QED
  BY <1>2, <1>3, <1>4, <1>5 DEF IInv, FlatInv

LEMMA NextIInv == IInv /\ [Next]_vars => IInv'
<1> SUFFICES ASSUME IInv, [Next]_vars PROVE IInv'
  OBVIOUS
<1>1. ASSUME NEW n \in Nodes, GetBlockByNodeId(n) PROVE IInv'
  BY <1>1, GetBlockByNodeIdPreserves
<1>2. ASSUME NEW b \in Blocks, GetBlockById(b) PROVE IInv'
  BY <1>2, GetBlockPreserves DEF GetBlockById, Unlocked
<1>3. ASSUME NEW b \in Blocks, PrefetchBlock(b) PROVE IInv'
  BY <1>3, MissPreserves DEF PrefetchBlock, Unlocked
<1>4. ASSUME NEW b \in Blocks, TryPrefetch(b) PROVE IInv'
  BY <1>4, TryPrefetchPreserves
<1>5. ASSUME NEW b \in Blocks, InsertBlock(b) PROVE IInv'
  BY <1>5, InsertBlockPreserves
<1>6. ASSUME NEW s \in FlatSlots, InvalidateOwner(s) \/ InvalidatePointer(s)
      PROVE  IInv'
  BY <1>6, InvalidateOwnerPreserves, InvalidatePointerPreserves
<1>7. CASE PopulateOwner \/ PopulatePointer
  BY <1>7, PopulateOwnerPreserves, PopulatePointerPreserves
<1>8. ASSUME NEW r \in Readers, NEW b \in Blocks, TestOwner(r, b) PROVE IInv'
  BY <1>8, TestOwnerPreserves
<1>9. ASSUME NEW r \in Readers,
             TestPointer(r) \/ MarkAccessed(r) \/ ReturnFlat(r)
      PROVE  IInv'
  BY <1>9, TestPointerPreserves, MarkAccessedPreserves, ReturnFlatPreserves
<1>10. ASSUME NEW r \in Readers, GetCachedBlockLocked(r) PROVE IInv'
  BY <1>10, GetCachedBlockLockedPreserves
<1>11. ASSUME NEW q \in Batches, InsertBlocksBatch(q) PROVE IInv'
  BY <1>11, InsertBlocksBatchPreserves
<1>12. CASE BatchInsertNext
  BY <1>12, BatchInsertNextPreserves
<1>13. CASE ResetStats
  BY <1>13, ResetStatsPreserves
<1>14. CASE Destroy
  BY <1>14, DestroyPreserves
<1>15. CASE UNCHANGED vars
  <2>1. FlatInv'
    BY <1>15, FlatOfInvariant, FlatSame DEF vars, resident
  <2> QED
    BY <1>15, <2>1
       DEF vars, resident, IInv, TypeOK, CapacityRespected,
           PolicyTracksResidents, PrefetchSettledOnce, FlatInv, FlatTyped
<1> QED
  BY <1>1, <1>2, <1>3, <1>4, <1>5, <1>6, <1>7, <1>8, <1>9, <1>10, <1>11, <1>12,
     <1>13, <1>14, <1>15
  DEF Next

\* The inductive invariant holds of every behaviour.
THEOREM CacheInvariant == Spec => []IInv
<1> QED
  BY InitIInv, NextIInv, PTL DEF Spec

\* Every variable of the cache stays in its domain.
THEOREM CacheTypeCorrect == Spec => []TypeOK
<1>1. IInv => TypeOK
  BY DEF IInv
<1> QED
  BY <1>1, CacheInvariant, PTL

\* The DRAM budget holds on every path that loads or inserts a block
\* (block_cache.cpp, the `while (cache_map_.size() >= cache_slots_)' loops).
THEOREM CacheCapacity == Spec => []CapacityRespected
<1>1. IInv => CapacityRespected
  BY DEF IInv
<1> QED
  BY <1>1, CacheInvariant, PTL

\* The policy always knows exactly the resident blocks (onInsert and onRemove
\* are called on every path).
THEOREM CachePolicyInSync == Spec => []PolicyTracksResidents
<1>1. IInv => PolicyTracksResidents
  BY DEF IInv
<1> QED
  BY <1>1, CacheInvariant, PTL

\* A lookup without the lock that no update of the slots overlaps returns the
\* block it was asked for, alive: the updates of getBlockById, evictOne and the
\* insertions leave no stale pointer behind (invalidateFlatBlockCache and
\* populateFlatCache, write by write).
THEOREM CacheLookups == Spec => []UndisturbedLookupIsRight
<1>1. IInv => UndisturbedLookupIsRight
  <2> SUFFICES ASSUME IInv, NEW r \in Readers,
                      reading[r].at = "returned", reading[r].calm
               PROVE  /\ reading[r].ptr = reading[r].block
                      /\ reading[r].block \in cache_map
    BY DEF UndisturbedLookupIsRight
  <2> QED
    BY CalmPointer
<1> QED
  BY <1>1, CacheInvariant, PTL

\* Every block the prefetcher inserted is settled once as useful or wasted
\* (evictOne and the destructor).
THEOREM CachePrefetchAccounting == Spec => []PrefetchSettledOnce
<1>1. IInv => PrefetchSettledOnce
  BY DEF IInv
<1> QED
  BY <1>1, CacheInvariant, PTL

-----------------------------------------------------------------------------
(* BlockCache implements BoundedCache.                                     *)

\* The two modules mean the same by Cardinality.
LEMMA SameCardinality ==
  ASSUME NEW S
  PROVE  Abstract!Cardinality(S) = Cardinality(S)
<1> QED
  BY DEF Abstract!Cardinality, Cardinality, Abstract!IsFiniteSet, IsFiniteSet

\* The `while' loop of an operation evicts one block, and only if the cache is
\* full: the reason a cache of the code behaves like the abstract one.
LEMMA OneVictim ==
  ASSUME IInv, NEW E \in SUBSET tracked, Evicts(E)
  PROVE  \/ E = {} /\ (~Abstract!Full \/ cache_map = {})
         \/ Abstract!Full /\ \E v \in cache_map : E = {v}
<1> DEFINE N == Cardinality(cache_map)
<1>1. tracked = cache_map /\ cache_map \subseteq Blocks
  BY DEF IInv, TypeOK, PolicyTracksResidents
<1>2. IsFiniteSet(cache_map) /\ N \in Nat /\ CacheSlots \in Nat
  BY <1>1, BlocksFinite, BlockCacheAssumption
<1>3. N <= (IF CacheSlots = 0 THEN 1 ELSE CacheSlots)
  BY DEF IInv, CapacityRespected
<1>4. \A v \in E : Cardinality(cache_map \ (E \ {v})) >= CacheSlots
  BY DEF Evicts
<1>5. \A S \in SUBSET cache_map : Cardinality(S) \in Nat /\ Cardinality(S) <= N
  BY <1>1, <1>2, BlocksFinite, FS_Subset
<1>6. ASSUME NEW v \in E, NEW w \in E, v # w PROVE FALSE
  <2>1. v \in cache_map /\ w \in cache_map
    BY <1>1, <1>6
  <2>2. Cardinality(cache_map \ {w}) = N - 1
    BY <1>2, <2>1, FS_RemoveElement
  <2>3. IsFiniteSet(cache_map \ {w}) /\ Cardinality(cache_map \ {w}) \in Nat
    BY <1>1, BlocksFinite
  <2>4. cache_map \ (E \ {v}) \subseteq cache_map \ {w}
    BY <1>6
  <2>5. /\ Cardinality(cache_map \ (E \ {v})) <= N - 1
        /\ Cardinality(cache_map \ (E \ {v})) \in Nat
    BY <1>5, <2>2, <2>3, <2>4, FS_Subset
  <2>6. CASE CacheSlots # 0
    BY <1>2, <1>3, <1>4, <2>5, <2>6
  <2>7. CASE CacheSlots = 0
    <3>1. Cardinality(cache_map \ {w}) = 0
      BY <1>2, <1>3, <2>2, <2>3, <2>7
    <3>2. cache_map \ {w} = {}
      BY <2>3, <3>1, FS_EmptySet
    <3> QED
      BY <1>6, <2>1, <3>2
  <2> QED
    BY <2>6, <2>7
<1>7. CASE E = {}
  <2>1. Cardinality(cache_map) < CacheSlots \/ cache_map = {}
    BY <1>1, <1>7 DEF Evicts
  <2> QED
    BY <1>2, <1>7, <2>1, SameCardinality DEF Abstract!Full
<1>8. CASE E # {}
  <2>1. PICK v \in E : TRUE
    BY <1>8
  <2>2. E = {v} /\ v \in cache_map
    BY <1>1, <1>6, <2>1
  <2>3. cache_map \ (E \ {v}) = cache_map
    BY <2>2
  <2>4. N >= CacheSlots
    BY <1>4, <2>1, <2>3
  <2> QED
    BY <2>2, <2>4, SameCardinality DEF Abstract!Full
<1> QED
  BY <1>7, <1>8

\* What an eviction loop and the insertion after it do to the resident blocks.
LEMMA LoadRefines ==
  ASSUME IInv, NEW b \in Blocks, b \notin cache_map,
         NEW E \in SUBSET tracked, Evicts(E),
         cache_map' = (cache_map \ E) \cup {b}
  PROVE  Abstract!Next
<1>1. Abstract!Load(b)
  BY OneVictim DEF Abstract!Load
<1> QED
  BY <1>1 DEF Abstract!Next

LEMMA EvictRefines ==
  ASSUME IInv, NEW E \in SUBSET tracked, Evicts(E), cache_map' = cache_map \ E
  PROVE  [Abstract!Next]_cache_map
<1>1. CASE E = {}
  BY <1>1
<1>2. CASE E # {}
  BY <1>2, OneVictim DEF Abstract!Next, Abstract!LoadFails
<1> QED
  BY <1>1, <1>2

LEMMA MissRefines ==
  ASSUME IInv, NEW b \in Blocks, Miss(b)
  PROVE  [Abstract!Next]_cache_map
<1>1. PICK E \in SUBSET tracked : Evicts(E) /\ (MissLoaded(b, E) \/ MissFailed(E))
  BY DEF Miss
<1>2. b \notin cache_map
  BY DEF Miss
<1>3. CASE MissLoaded(b, E)
  BY <1>1, <1>2, <1>3, LoadRefines DEF MissLoaded, EvictAndEmplace
<1>4. CASE MissFailed(E)
  BY <1>1, <1>4, EvictRefines DEF MissFailed, EvictOnly
<1> QED
  BY <1>1, <1>3, <1>4

\* A step of the cache is a step of the bounded cache or leaves the set of
\* resident blocks alone.
LEMMA NextRefines ==
  ASSUME IInv, [Next]_vars
  PROVE  [Abstract!Next]_cache_map
<1>1. ASSUME NEW n \in Nodes, GetBlockByNodeId(n)
      PROVE  [Abstract!Next]_cache_map
  <2>1. Route[n] \in Blocks
    BY <1>1, BlockCacheAssumption DEF GetBlockByNodeId
  <2> QED
    BY <1>1, <2>1, MissRefines DEF GetBlockByNodeId, Hit
<1>2. ASSUME NEW b \in Blocks, GetBlockById(b)
      PROVE  [Abstract!Next]_cache_map
  BY <1>2, MissRefines DEF GetBlockById, Hit
<1>3. ASSUME NEW b \in Blocks, PrefetchBlock(b)
      PROVE  [Abstract!Next]_cache_map
  BY <1>3, MissRefines DEF PrefetchBlock
<1>4. ASSUME NEW b \in Blocks, TryPrefetch(b)
      PROVE  [Abstract!Next]_cache_map
  <2>1. PICK E \in SUBSET tracked :
          /\ Evicts(E)
          /\ EvictAndEmplace(E, b, FALSE) \/ EvictOnly(E)
    BY <1>4 DEF TryPrefetch
  <2>2. b \notin cache_map
    BY <1>4 DEF TryPrefetch
  <2> QED
    BY <2>1, <2>2, LoadRefines, EvictRefines DEF EvictAndEmplace, EvictOnly
<1>5. ASSUME NEW b \in Blocks, b \notin cache_map, InsertRead(b)
      PROVE  [Abstract!Next]_cache_map
  BY <1>5, LoadRefines DEF InsertRead, EvictAndEmplace
<1>6. ASSUME NEW b \in Blocks, InsertBlock(b)
      PROVE  [Abstract!Next]_cache_map
  BY <1>5, <1>6 DEF InsertBlock
<1>7. ASSUME \/ \E s \in FlatSlots : InvalidateOwner(s) \/ InvalidatePointer(s)
             \/ PopulateOwner \/ PopulatePointer
      PROVE  cache_map' = cache_map
  <2>1. UNCHANGED unflat
    BY <1>7 DEF InvalidateOwner, InvalidatePointer, PopulateOwner, PopulatePointer
  <2> QED
    BY <2>1 DEF unflat, resident
<1>7a. ASSUME NEW r \in Readers,
              \/ \E b \in Blocks : TestOwner(r, b)
              \/ TestPointer(r) \/ MarkAccessed(r) \/ ReturnFlat(r)
       PROVE  cache_map' = cache_map
  <2>1. UNCHANGED unlooked
    BY <1>7a DEF TestOwner, TestPointer, MarkAccessed, ReturnFlat
  <2> QED
    BY <2>1 DEF unlooked
<1>7b. ASSUME NEW r \in Readers, GetCachedBlockLocked(r)
       PROVE  cache_map' = cache_map
  BY <1>7b DEF GetCachedBlockLocked
<1>8. ASSUME NEW q \in Batches, InsertBlocksBatch(q)
      PROVE  [Abstract!Next]_cache_map
  BY <1>8 DEF InsertBlocksBatch, resident
<1>9. CASE BatchInsertNext
  <2>1. Head(batch) \in Blocks
    BY <1>9 DEF BatchInsertNext, IInv, TypeOK
  <2> QED
    BY <1>5, <1>9, <2>1 DEF BatchInsertNext, resident
<1>10. CASE ResetStats
  BY <1>10 DEF ResetStats, resident
<1>11. CASE Destroy
  BY <1>11 DEF Destroy, Abstract!Next, Abstract!Destroy
<1>12. CASE UNCHANGED vars
  BY <1>12 DEF vars, resident
<1> QED
  BY <1>1, <1>2, <1>3, <1>4, <1>6, <1>7, <1>7a, <1>7b, <1>8, <1>9, <1>10, <1>11,
     <1>12
  DEF Next

\* The cache of the code, with its policy, pointer cache, counters and batches,
\* is a bounded cache: one block comes in at a time, one block leaves for it and
\* only when the cache is full.
THEOREM CacheRefinesBoundedCache == Spec => ImplementsBoundedCache
<1>1. Init => Abstract!Init
  BY DEF Init, Abstract!Init
<1>2. IInv /\ [Next]_vars => [Abstract!Next]_cache_map
  BY NextRefines
<1> QED
  BY <1>1, <1>2, CacheInvariant, PTL DEF Spec, ImplementsBoundedCache, Abstract!Spec

-----------------------------------------------------------------------------
(* The policies.  PolicyIInv says for each what its structure knows of the *)
(* history of uses; `residents', `policy' and `uses' are parameters, since *)
(* an operation may evict one block before it brings in another.           *)

\* The histories speak of the past, and of each resident block.
Dated(M, u, now) ==
  /\ M \subseteq BlockIds /\ now \in Nat
  /\ u \in [BlockIds -> Seq(Nat)]
  /\ \A b \in BlockIds : \A i \in DOMAIN u[b] : u[b][i] \in 1 .. now
  /\ \A b \in M : Len(u[b]) > 0

\* The list of LRU is in the order of the last uses.
LruRight(l, M, u) ==
  /\ l \in Seq(BlockIds) /\ IsInjective(l) /\ ToSet(l) = M
  /\ \A i, j \in DOMAIN l : i < j => Last(u[l[j]]) < Last(u[l[i]])

\* LFU counts the uses, and its stamps are in the order of the first uses.
LfuRight(p, M, u) ==
  /\ p \in [freq_map : [M -> [frequency : Nat, last_access : Nat]], counter : Nat]
  /\ \A b \in M : /\ p.freq_map[b].frequency = Len(u[b])
                  /\ p.freq_map[b].last_access <= p.counter
  /\ \A b, c \in M : p.freq_map[b].last_access <= p.freq_map[c].last_access
                       <=> Head(u[b]) <= Head(u[c])

\* The use that stamp i of the history h is of, where the uses are s.
UseAt(s, h, i) == s[Len(s) - Len(h) + i]

\* The last K stamps are kept.
Kept(s, h) ==
  /\ Len(s) < K => Len(h) = Len(s)
  /\ Len(s) >= K => Len(h) = K

\* LRU-2 keeps the last K stamps; all stamps are in the order of the uses.
LruKRight(p, M, u) ==
  /\ p \in [access_history : [M -> Seq(Nat)], clock : Nat]
  /\ \A b \in M :
       LET h == p.access_history[b]
       IN  /\ Kept(u[b], h)
           /\ \A i \in DOMAIN h : h[i] \in 1 .. p.clock
  /\ \A b, c \in M :
       \A i \in DOMAIN p.access_history[b], j \in DOMAIN p.access_history[c] :
         LET x == p.access_history[b][i]
             y == p.access_history[c][j]
         IN  /\ x <= y <=> UseAt(u[b], p.access_history[b], i)
                             <= UseAt(u[c], p.access_history[c], j)
             /\ x = y => b = c

Right(p, M, u) ==
  /\ policy_name = "lru" => LruRight(p, M, u)
  /\ policy_name = "lfu" => LfuRight(p, M, u)
  /\ policy_name = "lru-k" => LruKRight(p, M, u)

PolicyIInv ==
  /\ policy_name \in {"lru", "lfu", "lru-k"}
  /\ Dated(residents, uses, clock)
  /\ Right(policy, residents, uses)

-----------------------------------------------------------------------------
(* LRU.                                                                    *)

LEMMA PlaceHolds ==
  ASSUME NEW S, NEW l \in Seq(S), NEW b \in ToSet(l)
  PROVE  Place(l, b) \in 1 .. Len(l) /\ l[Place(l, b)] = b /\ Contains(l, b)
<1>1. DOMAIN l = 1 .. Len(l)
  OBVIOUS
<1>2. \E i \in DOMAIN l : l[i] = b
  BY DEF ToSet
<1> QED
  BY <1>1, <1>2 DEF Place, Contains

LEMMA RestDrops ==
  ASSUME NEW S, NEW l \in Seq(S), IsInjective(l), NEW b \in ToSet(l)
  PROVE  LET r == Rest(l, b)
         IN  /\ r \in Seq(S) /\ IsInjective(r) /\ ToSet(r) = ToSet(l) \ {b}
             /\ \A j, k \in DOMAIN r : j < k =>
                  \E m, n \in DOMAIN l : m < n /\ l[m] = r[j] /\ l[n] = r[k]
<1> DEFINE i == Place(l, b)
           r == Rest(l, b)
           at(j) == IF j < i THEN j ELSE j + 1
<1>1. i \in 1 .. Len(l) /\ l[i] = b
  BY PlaceHolds
<1> HIDE DEF i
<1>2. r = SubSeq(l, 1, i - 1) \o SubSeq(l, i + 1, Len(l))
  BY DEF Rest, RemoveAt, i
<1> DEFINE s == SubSeq(l, 1, i - 1)
           t == SubSeq(l, i + 1, Len(l))
<1>3. /\ s \in Seq(S) /\ Len(s) = i - 1
      /\ \A j \in 1 .. i - 1 : s[j] = l[j]
  BY <1>1
<1>4. /\ t \in Seq(S) /\ Len(t) = Len(l) - i
      /\ \A j \in 1 .. Len(l) - i : t[j] = l[i + j]
  BY <1>1
<1> HIDE DEF s, t, r
<1>5. r \in Seq(S) /\ Len(r) = Len(l) - 1
  <2>1. r = s \o t
    BY <1>2 DEF s, t
  <2>2. s \in Seq(S) /\ t \in Seq(S)
    BY <1>3, <1>4
  <2>3. s \o t \in Seq(S)
    BY <2>2
  <2>4. Len(s \o t) = Len(s) + Len(t)
    BY <2>2
  <2> QED
    BY <1>1, <1>3, <1>4, <2>1, <2>3, <2>4
<1>6. \A j \in 1 .. Len(l) - 1 : r[j] = l[at(j)]
  <2> SUFFICES ASSUME NEW j \in 1 .. Len(l) - 1 PROVE r[j] = l[at(j)]
    OBVIOUS
  <2>1. r = s \o t
    BY <1>2 DEF s, t
  <2>2. CASE j < i
    BY <1>1, <1>3, <1>4, <2>1, <2>2
  <2>3. CASE j >= i
    <3>1. r[j] = t[j - (i - 1)]
      BY <1>1, <1>3, <1>4, <2>1, <2>3
    <3>2. t[j - (i - 1)] = l[i + (j - (i - 1))]
      BY <1>1, <1>4, <2>3
    <3>3. i + (j - (i - 1)) = j + 1
      BY <1>1
    <3> QED
      BY <1>1, <2>3, <3>1, <3>2, <3>3
  <2> QED
    BY <1>1, <2>2, <2>3
<1>7. /\ DOMAIN r = 1 .. Len(l) - 1 /\ DOMAIN l = 1 .. Len(l)
      /\ Len(l) \in Nat
  BY <1>5
<1>8. \A j \in DOMAIN r : at(j) \in DOMAIN l /\ at(j) # i /\ r[j] = l[at(j)]
  BY <1>1, <1>6, <1>7
<1>9. \A j, k \in DOMAIN r : j < k => at(j) < at(k)
  BY <1>1, <1>7
<1>10. \A m \in DOMAIN l : m # i => \E j \in DOMAIN r : at(j) = m
  <2> SUFFICES ASSUME NEW m \in DOMAIN l, m # i
               PROVE  \E j \in DOMAIN r : at(j) = m
    OBVIOUS
  <2>1. CASE m < i
    BY <1>1, <1>7, <2>1
  <2>2. CASE m > i
    <3>1. m - 1 \in DOMAIN r /\ at(m - 1) = m
      BY <1>1, <1>7, <2>2
    <3> QED
      BY <3>1
  <2> QED
    BY <1>1, <1>7, <2>1, <2>2
<1> HIDE DEF at
<1>11. ToSet(r) = ToSet(l) \ {b}
  <2>1. \A j \in DOMAIN r : l[at(j)] # b
    BY <1>1, <1>7, <1>8 DEF IsInjective
  <2>2. \A m \in DOMAIN l : l[m] # b => \E j \in DOMAIN r : r[j] = l[m]
    BY <1>1, <1>8, <1>10
  <2> QED
    BY <1>8, <2>1, <2>2 DEF ToSet
<1>12. IsInjective(r)
  <2> SUFFICES ASSUME NEW j \in DOMAIN r, NEW k \in DOMAIN r, r[j] = r[k], j # k
               PROVE  FALSE
    BY DEF IsInjective
  <2>1. at(j) = at(k)
    BY <1>8 DEF IsInjective
  <2>2. j < k \/ k < j
    BY <1>7
  <2>3. at(j) < at(k) \/ at(k) < at(j)
    BY <1>9, <2>2
  <2> QED
    BY <1>7, <1>8, <2>1, <2>3
<1> QED
  BY <1>5, <1>8, <1>9, <1>11, <1>12 DEF r

LEMMA LruRest ==
  ASSUME NEW l, NEW M, NEW u, LruRight(l, M, u), NEW b \in M
  PROVE  LruRight(Rest(l, b), M \ {b}, u) /\ Contains(l, b)
<1>1. l \in Seq(BlockIds) /\ IsInjective(l) /\ ToSet(l) = M
  BY DEF LruRight
<1> DEFINE r == Rest(l, b)
<1>2. /\ r \in Seq(BlockIds) /\ IsInjective(r) /\ ToSet(r) = M \ {b}
      /\ \A j, k \in DOMAIN r : j < k =>
           \E m, n \in DOMAIN l : m < n /\ l[m] = r[j] /\ l[n] = r[k]
  BY <1>1, RestDrops
<1>3. Contains(l, b)
  BY <1>1, PlaceHolds
<1> HIDE DEF r
<1>4. ASSUME NEW j \in DOMAIN r, NEW k \in DOMAIN r, j < k
      PROVE  Last(u[r[k]]) < Last(u[r[j]])
  <2>1. PICK m, n \in DOMAIN l : m < n /\ l[m] = r[j] /\ l[n] = r[k]
    BY <1>2, <1>4
  <2>2. Last(u[l[n]]) < Last(u[l[m]])
    BY <2>1 DEF LruRight
  <2> QED
    BY <2>1, <2>2
<1>5. LruRight(r, M \ {b}, u)
  BY <1>2, <1>4 DEF LruRight
<1> QED
  BY <1>3, <1>5 DEF r

LEMMA LruFront ==
  ASSUME NEW l, NEW M, NEW u, LruRight(l, M, u), NEW b \in BlockIds, b \notin M,
         NEW v, \A x \in M : v[x] = u[x] /\ Last(u[x]) < Last(v[b])
  PROVE  LruRight(Cons(b, l), M \cup {b}, v)
<1>1. l \in Seq(BlockIds) /\ IsInjective(l) /\ ToSet(l) = M
  BY DEF LruRight
<1> DEFINE c == Cons(b, l)
<1>2. /\ c \in Seq(BlockIds) /\ Len(c) = Len(l) + 1 /\ c[1] = b
      /\ \A j \in 1 .. Len(l) : c[j + 1] = l[j]
  BY <1>1 DEF Cons
<1> HIDE DEF c
<1>3. /\ DOMAIN l = 1 .. Len(l) /\ Len(l) \in Nat
      /\ DOMAIN c = 1 .. Len(l) + 1
  BY <1>1, <1>2
<1>4. \A j \in DOMAIN c : j # 1 => j - 1 \in DOMAIN l /\ c[j] = l[j - 1]
  <2> SUFFICES ASSUME NEW j \in DOMAIN c, j # 1
               PROVE  j - 1 \in DOMAIN l /\ c[j] = l[j - 1]
    OBVIOUS
  <2>1. j - 1 \in 1 .. Len(l) /\ (j - 1) + 1 = j
    BY <1>3
  <2> QED
    BY <1>2, <1>3, <2>1
<1>5. \A j \in DOMAIN l : l[j] \in M /\ l[j] # b /\ j + 1 \in DOMAIN c /\ c[j + 1] = l[j]
  BY <1>1, <1>2, <1>3 DEF ToSet
<1>6. ToSet(c) = M \cup {b}
  <2>1. \A j \in DOMAIN c : c[j] \in M \cup {b}
    BY <1>2, <1>4, <1>5
  <2>2. 1 \in DOMAIN c
    BY <1>3
  <2>3. \A x \in M : \E j \in DOMAIN c : c[j] = x
    BY <1>1, <1>5 DEF ToSet
  <2> QED
    BY <1>2, <2>1, <2>2, <2>3 DEF ToSet
<1>7. IsInjective(c)
  <2> SUFFICES ASSUME NEW j \in DOMAIN c, NEW k \in DOMAIN c, c[j] = c[k]
               PROVE  j = k
    BY DEF IsInjective
  <2>1. CASE j = 1 \/ k = 1
    BY <1>2, <1>4, <1>5, <2>1
  <2>2. CASE j # 1 /\ k # 1
    <3>1. j - 1 = k - 1
      BY <1>1, <1>4, <2>2 DEF IsInjective
    <3> QED
      BY <1>3, <3>1
  <2> QED
    BY <2>1, <2>2
<1>8. ASSUME NEW j \in DOMAIN c, NEW k \in DOMAIN c, j < k
      PROVE  Last(v[c[k]]) < Last(v[c[j]])
  <2>1. k # 1 /\ k - 1 \in DOMAIN l /\ c[k] = l[k - 1] /\ l[k - 1] \in M
    BY <1>3, <1>4, <1>5, <1>8
  <2>2. CASE j = 1
    BY <1>2, <2>1, <2>2
  <2>3. CASE j # 1
    <3>1. j - 1 \in DOMAIN l /\ c[j] = l[j - 1] /\ l[j - 1] \in M
      BY <1>4, <1>5, <2>3
    <3>2. j - 1 < k - 1
      BY <1>3, <1>8
    <3>3. Last(u[l[k - 1]]) < Last(u[l[j - 1]])
      BY <2>1, <3>1, <3>2 DEF LruRight
    <3> QED
      BY <2>1, <3>1, <3>3
  <2> QED
    BY <2>2, <2>3
<1> QED
  BY <1>2, <1>6, <1>7, <1>8 DEF LruRight, c

LEMMA LruSame ==
  ASSUME NEW l, NEW M, NEW u, LruRight(l, M, u), NEW v, \A x \in M : v[x] = u[x]
  PROVE  LruRight(l, M, v)
<1>1. \A j \in DOMAIN l : l[j] \in M
  BY DEF LruRight, ToSet
<1> QED
  BY <1>1 DEF LruRight

-----------------------------------------------------------------------------
(* LFU.                                                                    *)

LEMMA AppendKeepsHead ==
  ASSUME NEW s \in Seq(Nat), Len(s) > 0, NEW t \in Nat
  PROVE  /\ Append(s, t) \in Seq(Nat) /\ Len(Append(s, t)) = Len(s) + 1
         /\ Head(Append(s, t)) = Head(s) /\ Last(Append(s, t)) = t
         /\ \A i \in 1 .. Len(s) : Append(s, t)[i] = s[i]
         /\ Append(s, t)[Len(s) + 1] = t
BY DEF Last

LEMMA LfuAccess ==
  ASSUME NEW p, NEW M, NEW u, NEW now, LfuRight(p, M, u), Dated(M, u, now),
         NEW b \in M, NEW v, v[b] = Append(u[b], now + 1),
         \A x \in M \ {b} : v[x] = u[x]
  PROVE  LfuRight(LfuOnAccess(p, b), M, v)
<1> DEFINE f == p.freq_map
           q == LfuOnAccess(p, b)
<1>1. /\ f \in [M -> [frequency : Nat, last_access : Nat]] /\ p.counter \in Nat
      /\ p = [freq_map |-> f, counter |-> p.counter]
  BY DEF LfuRight
<1>2. q = [p EXCEPT !.freq_map[b].frequency = @ + 1]
  BY <1>1 DEF LfuOnAccess, LfuTracked
<1>3. /\ q.freq_map = [f EXCEPT ![b] = [f[b] EXCEPT !.frequency = @ + 1]]
      /\ q.counter = p.counter /\ q = [freq_map |-> q.freq_map, counter |-> q.counter]
  BY <1>1, <1>2
<1>4. f[b] \in [frequency : Nat, last_access : Nat]
  BY <1>1
<1> HIDE DEF q, f
<1>5. q.freq_map \in [M -> [frequency : Nat, last_access : Nat]]
  <2>1. [f[b] EXCEPT !.frequency = @ + 1] \in [frequency : Nat, last_access : Nat]
    BY <1>4
  <2> QED
    BY <1>1, <1>3, <2>1
<1>6. /\ q.freq_map[b].frequency = f[b].frequency + 1
      /\ q.freq_map[b].last_access = f[b].last_access
      /\ \A x \in M \ {b} : q.freq_map[x] = f[x]
  BY <1>1, <1>3, <1>4
<1>7. \A x \in M : u[x] \in Seq(Nat) /\ Len(u[x]) > 0
  BY DEF Dated
<1>8. now + 1 \in Nat
  BY DEF Dated
<1>9. /\ Len(v[b]) = Len(u[b]) + 1
      /\ \A x \in M : Head(v[x]) = Head(u[x])
  <2>1. u[b] \in Seq(Nat) /\ Len(u[b]) > 0
    BY <1>7
  <2>2. /\ Len(Append(u[b], now + 1)) = Len(u[b]) + 1
        /\ Head(Append(u[b], now + 1)) = Head(u[b])
    BY <1>8, <2>1, AppendKeepsHead
  <2>3. Len(v[b]) = Len(u[b]) + 1 /\ Head(v[b]) = Head(u[b])
    BY <2>2
  <2>4. \A x \in M : x # b => Head(v[x]) = Head(u[x])
    OBVIOUS
  <2> QED
    BY <2>3, <2>4
<1>10. /\ \A x \in M : f[x].frequency = Len(u[x]) /\ f[x].last_access <= p.counter
       /\ \A x, y \in M : f[x].last_access <= f[y].last_access
                             <=> Head(u[x]) <= Head(u[y])
  BY DEF LfuRight, f
<1>11. /\ \A x \in M : q.freq_map[x].frequency = Len(v[x])
       /\ \A x \in M : q.freq_map[x].last_access = f[x].last_access
  BY <1>6, <1>9, <1>10
<1>12. q \in [freq_map : [M -> [frequency : Nat, last_access : Nat]], counter : Nat]
  BY <1>1, <1>3, <1>5
<1>13. LfuRight(q, M, v)
  BY <1>3, <1>9, <1>10, <1>11, <1>12 DEF LfuRight
<1> QED
  BY <1>13 DEF q

LEMMA LfuInsert ==
  ASSUME NEW p, NEW M, NEW u, NEW now, LfuRight(p, M, u), Dated(M, u, now),
         NEW b \in BlockIds, b \notin M, NEW v, v[b] = <<now + 1>>,
         \A x \in M : v[x] = u[x]
  PROVE  LfuRight(LfuOnInsert(p, b), M \cup {b}, v)
<1> DEFINE f == p.freq_map
           q == LfuOnInsert(p, b)
<1>1. /\ f \in [M -> [frequency : Nat, last_access : Nat]] /\ p.counter \in Nat
  BY DEF LfuRight
<1>2. q = [freq_map |-> [x \in M \cup {b} |->
                           IF x = b THEN [frequency |-> 1,
                                          last_access |-> p.counter + 1]
                           ELSE f[x]],
           counter |-> p.counter + 1]
  BY <1>1 DEF LfuOnInsert, LfuTracked
<1>3. /\ q.freq_map[b].frequency = 1 /\ q.freq_map[b].last_access = p.counter + 1
      /\ q.counter = p.counter + 1
      /\ \A x \in M : q.freq_map[x] = f[x]
  BY <1>2
<1>4. q \in [freq_map : [M \cup {b} -> [frequency : Nat, last_access : Nat]],
             counter : Nat]
  BY <1>1, <1>2
<1>5. \A x \in M : f[x].last_access \in Nat
  BY <1>1
<1> HIDE DEF q, f
<1>6. now \in Nat /\ \A x \in M : Head(u[x]) \in 1 .. now
  <2>1. \A x \in M : 1 \in DOMAIN u[x] /\ Head(u[x]) = u[x][1]
    BY DEF Dated
  <2> QED
    BY <2>1 DEF Dated
<1>7. Len(v[b]) = 1 /\ Head(v[b]) = now + 1
  OBVIOUS
<1>8. /\ \A x \in M : f[x].frequency = Len(u[x]) /\ f[x].last_access <= p.counter
      /\ \A x, y \in M : f[x].last_access <= f[y].last_access
                            <=> Head(u[x]) <= Head(u[y])
  BY DEF LfuRight, f
<1>9. ASSUME NEW x \in M \cup {b}
      PROVE  /\ q.freq_map[x].frequency = Len(v[x])
             /\ q.freq_map[x].last_access <= q.counter
  <2>1. CASE x \in M
    <3>1. q.freq_map[x] = f[x] /\ v[x] = u[x]
      BY <1>3, <2>1
    <3>2. f[x].frequency = Len(u[x])
      BY <1>8, <2>1
    <3>3. f[x].last_access \in Nat /\ f[x].last_access <= p.counter
      BY <1>5, <1>8, <2>1
    <3>4. f[x].last_access <= p.counter + 1
      BY <1>1, <3>3
    <3> QED
      BY <1>3, <3>1, <3>2, <3>4
  <2>2. CASE x = b
    <3>1. p.counter + 1 <= p.counter + 1
      BY <1>1
    <3>2. q.freq_map[b].frequency = Len(v[b])
      BY <1>3, <1>7
    <3> QED
      BY <1>3, <2>2, <3>1, <3>2
  <2> QED
    BY <2>1, <2>2
<1>10. ASSUME NEW x \in M \cup {b}, NEW y \in M \cup {b}
       PROVE  q.freq_map[x].last_access <= q.freq_map[y].last_access
                <=> Head(v[x]) <= Head(v[y])
  <2>1. CASE x \in M /\ y \in M
    BY <1>3, <1>8, <2>1
  <2>2. CASE x = b /\ y \in M
    BY <1>1, <1>3, <1>5, <1>6, <1>7, <1>8, <2>2
  <2>3. CASE y = b
    BY <1>1, <1>3, <1>5, <1>6, <1>7, <1>8, <2>3
  <2> QED
    BY <2>1, <2>2, <2>3
<1>11. LfuRight(q, M \cup {b}, v)
  BY <1>4, <1>9, <1>10 DEF LfuRight
<1> QED
  BY <1>11 DEF q

LEMMA LfuRemove ==
  ASSUME NEW p, NEW M, NEW u, LfuRight(p, M, u), NEW b \in M,
         NEW v, \A x \in M \ {b} : v[x] = u[x]
  PROVE  LfuRight(LfuOnRemove(p, b), M \ {b}, v)
<1> DEFINE f == p.freq_map
           q == LfuOnRemove(p, b)
<1>1. /\ f \in [M -> [frequency : Nat, last_access : Nat]] /\ p.counter \in Nat
      /\ p = [freq_map |-> f, counter |-> p.counter]
  BY DEF LfuRight
<1>2. q = [freq_map |-> [x \in M \ {b} |-> f[x]], counter |-> p.counter]
  BY <1>1 DEF LfuOnRemove, LfuTracked, Restrict
<1>3. /\ q \in [freq_map : [M \ {b} -> [frequency : Nat, last_access : Nat]],
                counter : Nat]
      /\ q.counter = p.counter /\ \A x \in M \ {b} : q.freq_map[x] = f[x]
  BY <1>1, <1>2
<1> HIDE DEF q
<1>4. LfuRight(q, M \ {b}, v)
  BY <1>3 DEF LfuRight
<1> QED
  BY <1>4 DEF q

-----------------------------------------------------------------------------
(* LRU-2.                                                                  *)

\* The last stamps of a block stand for its last uses.
LEMMA StampsOfUses ==
  ASSUME NEW p, NEW M, NEW u, NEW now, LruKRight(p, M, u), Dated(M, u, now),
         NEW x \in M
  PROVE  LET h == p.access_history[x]
         IN  /\ h \in Seq(Nat) /\ Kept(u[x], h)
             /\ \A i \in DOMAIN h :
                  /\ i \in 1 .. Len(h) /\ h[i] \in 1 .. p.clock
                  /\ UseAt(u[x], h, i) \in 1 .. now
<1> DEFINE h == p.access_history[x]
<1>1. h \in Seq(Nat)
  BY DEF LruKRight
<1>2. u[x] \in Seq(Nat) /\ Len(u[x]) \in Nat \ {0}
  BY DEF Dated
<1>3. /\ Kept(u[x], h)
      /\ \A i \in DOMAIN h : h[i] \in 1 .. p.clock
  BY DEF LruKRight, K
<1> HIDE DEF h
<1>4. Len(h) <= Len(u[x])
  BY <1>1, <1>2, <1>3 DEF Kept, K
<1>5. ASSUME NEW i \in DOMAIN h
      PROVE  i \in 1 .. Len(h) /\ UseAt(u[x], h, i) \in 1 .. now
  <2>1. i \in 1 .. Len(h)
    BY <1>1
  <2>2. Len(u[x]) - Len(h) + i \in 1 .. Len(u[x])
    BY <1>2, <1>4, <2>1
  <2>3. Len(u[x]) - Len(h) + i \in DOMAIN u[x]
    BY <1>2, <2>2
  <2>4. x \in BlockIds
    BY DEF Dated
  <2> QED
    BY <2>1, <2>3, <2>4 DEF Dated, UseAt
<1> QED
  BY <1>1, <1>3, <1>4, <1>5 DEF h

\* The stamps are those of before, but for the newest one, of the newest use.
Follows(p, M, u, q, L, v, b, use) ==
  \A x \in L : \A i \in DOMAIN q.access_history[x] :
    \/ x \in M /\ \E j \in DOMAIN p.access_history[x] :
         /\ q.access_history[x][i] = p.access_history[x][j]
         /\ UseAt(v[x], q.access_history[x], i) = UseAt(u[x], p.access_history[x], j)
    \/ /\ x = b /\ q.access_history[x][i] = q.clock /\ q.clock > p.clock
       /\ UseAt(v[x], q.access_history[x], i) = use

\* A step keeps stamps with their uses, or adds the newest stamp for the newest use.
LEMMA LruKStep ==
  ASSUME NEW p, NEW M, NEW u, NEW now, LruKRight(p, M, u), Dated(M, u, now),
         NEW L, NEW q \in [access_history : [L -> Seq(Nat)], clock : Nat],
         NEW b, NEW v, q.clock >= p.clock,
         \A x \in L : Kept(v[x], q.access_history[x]),
         Follows(p, M, u, q, L, v, b, now + 1)
  PROVE  LruKRight(q, L, v)
<1> DEFINE g == q.access_history
           h == p.access_history
           Old(x, i) == x \in M /\ \E j \in DOMAIN h[x] :
                          /\ g[x][i] = h[x][j]
                          /\ UseAt(v[x], g[x], i) = UseAt(u[x], h[x], j)
           New(x, i) == /\ x = b /\ g[x][i] = q.clock /\ q.clock > p.clock
                        /\ UseAt(v[x], g[x], i) = now + 1
<1>1. q.clock \in Nat /\ p.clock \in Nat /\ now \in Nat
  BY DEF LruKRight, Dated
<1>2. \A x \in L : \A i \in DOMAIN g[x] : Old(x, i) \/ New(x, i)
  BY DEF Follows
<1>3. \A x \in M : \A j \in DOMAIN h[x] :
        h[x][j] \in 1 .. p.clock /\ UseAt(u[x], h[x], j) \in 1 .. now
  BY StampsOfUses
<1>4. \A x, y \in M : \A i \in DOMAIN h[x], j \in DOMAIN h[y] :
        /\ h[x][i] <= h[y][j] <=> UseAt(u[x], h[x], i) <= UseAt(u[y], h[y], j)
        /\ h[x][i] = h[y][j] => x = y
  BY DEF LruKRight
<1>5. ASSUME NEW x \in L, NEW i \in DOMAIN g[x] PROVE g[x][i] \in 1 .. q.clock
  <2>1. CASE Old(x, i)
    BY <1>1, <1>3, <2>1
  <2>2. CASE New(x, i)
    BY <1>1, <2>2
  <2> QED
    BY <1>2, <2>1, <2>2
<1>6. ASSUME NEW x \in L, NEW y \in L, NEW i \in DOMAIN g[x], NEW j \in DOMAIN g[y]
      PROVE  /\ g[x][i] <= g[y][j] <=> UseAt(v[x], g[x], i) <= UseAt(v[y], g[y], j)
             /\ g[x][i] = g[y][j] => x = y
  <2>1. CASE Old(x, i) /\ Old(y, j)
    <3>1. PICK m \in DOMAIN h[x] : /\ g[x][i] = h[x][m]
                                   /\ UseAt(v[x], g[x], i) = UseAt(u[x], h[x], m)
      BY <2>1
    <3>2. PICK n \in DOMAIN h[y] : /\ g[y][j] = h[y][n]
                                   /\ UseAt(v[y], g[y], j) = UseAt(u[y], h[y], n)
      BY <2>1
    <3> QED
      BY <1>4, <2>1, <3>1, <3>2
  <2>2. CASE Old(x, i) /\ New(y, j)
    <3>1. g[x][i] \in 1 .. p.clock /\ UseAt(v[x], g[x], i) \in 1 .. now
      BY <1>3, <2>2
    <3>2. /\ g[y][j] = q.clock /\ q.clock > p.clock
          /\ UseAt(v[y], g[y], j) = now + 1
      BY <2>2
    <3> HIDE DEF g
    <3> QED
      BY <1>1, <3>1, <3>2
  <2>3. CASE New(x, i) /\ Old(y, j)
    <3>1. g[y][j] \in 1 .. p.clock /\ UseAt(v[y], g[y], j) \in 1 .. now
      BY <1>3, <2>3
    <3>2. /\ g[x][i] = q.clock /\ q.clock > p.clock
          /\ UseAt(v[x], g[x], i) = now + 1
      BY <2>3
    <3> HIDE DEF g
    <3> QED
      BY <1>1, <3>1, <3>2
  <2>4. CASE New(x, i) /\ New(y, j)
    BY <1>1, <2>4
  <2> QED
    BY <1>2, <2>1, <2>2, <2>3, <2>4
<1> QED
  BY <1>5, <1>6 DEF LruKRight, K

LEMMA LastKKeeps ==
  ASSUME NEW a \in Seq(Nat), Len(a) <= K + 1
  PROVE  LET g == LastK(a)
         IN  /\ g \in Seq(Nat)
             /\ Len(a) <= K => g = a
             /\ Len(a) > K => Len(g) = K /\ \A i \in 1 .. K : g[i] = a[i + 1]
<1>1. K \in Nat /\ K > 0
  BY DEF K
<1>2. Len(a) \in Nat
  OBVIOUS
<1>3. CASE Len(a) <= K
  BY <1>1, <1>2, <1>3 DEF LastK
<1>4. CASE Len(a) > K
  <2>1. LastK(a) = Tail(a)
    BY <1>4 DEF LastK
  <2>2. a # <<>>
    BY <1>1, <1>4
  <2>3. /\ Tail(a) \in Seq(Nat) /\ Len(Tail(a)) = Len(a) - 1
        /\ \A i \in 1 .. Len(Tail(a)) : Tail(a)[i] = a[i + 1]
    BY <2>2, HeadTailProperties
  <2>4. Len(a) - 1 = K
    BY <1>1, <1>2, <1>4
  <2>5. ~ (Len(a) <= K)
    BY <1>1, <1>2, <1>4
  <2> QED
    BY <2>1, <2>3, <2>4, <2>5
<1> QED
  BY <1>1, <1>2, <1>3, <1>4

LEMMA NewStamp ==
  ASSUME NEW s \in Seq(Nat), Len(s) > 0, NEW h \in Seq(Nat), Kept(s, h),
         NEW stamp \in Nat, NEW now \in Nat
  PROVE  LET g == LastK(Append(h, stamp))
             r == Append(s, now)
         IN  /\ g \in Seq(Nat) /\ Kept(r, g)
             /\ \A i \in DOMAIN g :
                  \/ \E j \in DOMAIN h : g[i] = h[j] /\ UseAt(r, g, i) = UseAt(s, h, j)
                  \/ g[i] = stamp /\ UseAt(r, g, i) = now
<1> DEFINE a == Append(h, stamp)
           g == LastK(a)
           r == Append(s, now)
           m == Len(s)
           n == Len(h)
<1>1. /\ Len(r) = m + 1 /\ r[m + 1] = now
      /\ \A i \in 1 .. m : r[i] = s[i]
  OBVIOUS
<1>2. /\ a \in Seq(Nat) /\ Len(a) = n + 1 /\ a[n + 1] = stamp
      /\ \A i \in 1 .. n : a[i] = h[i]
  OBVIOUS
<1>3. m \in Nat /\ m > 0 /\ n \in Nat /\ K \in Nat /\ K > 0
  BY DEF K
<1>4. /\ m < K => n = m
      /\ m >= K => n = K
  BY DEF Kept
<1>5. n <= K /\ n <= m
  BY <1>3, <1>4
<1>6. /\ g \in Seq(Nat)
      /\ n + 1 <= K => g = a
      /\ n + 1 > K => Len(g) = K /\ \A i \in 1 .. K : g[i] = a[i + 1]
  <2>1. Len(a) <= K + 1
    BY <1>2, <1>3, <1>5
  <2> QED
    BY <1>2, <2>1, LastKKeeps
<1>7. DOMAIN g = 1 .. Len(g) /\ DOMAIN h = 1 .. n
  BY <1>6
<1> SUFFICES /\ Kept(r, g)
             /\ \A i \in 1 .. Len(g) :
                  \/ \E j \in 1 .. n : g[i] = h[j] /\ UseAt(r, g, i) = UseAt(s, h, j)
                  \/ g[i] = stamp /\ UseAt(r, g, i) = now
  BY <1>6, <1>7
<1> HIDE DEF a, r, g
<1>8. CASE m < K
  <2>1. Len(g) = m + 1 /\ g = a /\ n = m
    BY <1>2, <1>3, <1>4, <1>6, <1>8
  <2>2. Kept(r, g)
    BY <1>1, <1>3, <1>8, <2>1 DEF Kept
  <2>3. ASSUME NEW i \in 1 .. m + 1 PROVE UseAt(r, g, i) = r[i]
    <3>1. Len(r) - Len(g) + i = i
      BY <1>1, <1>3, <2>1
    <3> QED
      BY <3>1 DEF UseAt
  <2>4. ASSUME NEW i \in 1 .. m PROVE UseAt(s, h, i) = s[i]
    <3>1. m - n + i = i
      BY <1>3, <2>1
    <3> QED
      BY <3>1 DEF UseAt
  <2>5. ASSUME NEW i \in 1 .. m + 1
        PROVE  \/ \E j \in 1 .. n : g[i] = h[j] /\ UseAt(r, g, i) = UseAt(s, h, j)
               \/ g[i] = stamp /\ UseAt(r, g, i) = now
    <3>1. CASE i = m + 1
      BY <1>1, <1>2, <2>1, <2>3, <3>1
    <3>2. CASE i # m + 1
      <4>1. i \in 1 .. m
        BY <1>3, <3>2
      <4>2. g[i] = h[i] /\ UseAt(r, g, i) = UseAt(s, h, i)
        BY <1>1, <1>2, <2>1, <2>3, <2>4, <4>1
      <4> QED
        BY <2>1, <4>1, <4>2
    <3> QED
      BY <3>1, <3>2
  <2> QED
    BY <2>1, <2>2, <2>5
<1>9. CASE m >= K
  <2>1. /\ n = K /\ Len(g) = K
        /\ \A i \in 1 .. K : g[i] = a[i + 1]
    BY <1>3, <1>4, <1>6, <1>9
  <2>2. Kept(r, g)
    <3>1. Len(r) >= K /\ ~ (Len(r) < K)
      BY <1>1, <1>3, <1>9
    <3> QED
      BY <2>1, <3>1 DEF Kept
  <2>3. ASSUME NEW i \in 1 .. K
        PROVE  \/ \E j \in 1 .. n : g[i] = h[j] /\ UseAt(r, g, i) = UseAt(s, h, j)
               \/ g[i] = stamp /\ UseAt(r, g, i) = now
    <3>1. UseAt(r, g, i) = r[(m - K) + (i + 1)]
      <4>1. Len(r) - Len(g) + i = (m - K) + (i + 1)
        BY <1>1, <1>3, <2>1
      <4> QED
        BY <4>1 DEF UseAt
    <3>2. CASE i = K
      <4>1. (m - K) + (i + 1) = m + 1
        BY <1>3, <3>2
      <4>2. g[i] = a[n + 1]
        BY <1>3, <2>1, <3>2
      <4> QED
        BY <1>1, <1>2, <3>1, <4>1, <4>2
    <3>3. CASE i # K
      <4>1. i + 1 \in 1 .. n
        BY <1>3, <2>1, <3>3
      <4>2. UseAt(s, h, i + 1) = s[(m - K) + (i + 1)]
        <5>1. m - n + (i + 1) = (m - K) + (i + 1)
          BY <1>3, <2>1
        <5> QED
          BY <5>1 DEF UseAt
      <4>3. (m - K) + (i + 1) \in 1 .. m
        BY <1>3, <1>9, <2>1, <4>1
      <4>4. g[i] = h[i + 1] /\ UseAt(r, g, i) = UseAt(s, h, i + 1)
        BY <1>1, <1>2, <2>1, <3>1, <4>1, <4>2, <4>3
      <4> QED
        BY <4>1, <4>4
    <3> QED
      BY <3>2, <3>3
  <2> QED
    BY <2>1, <2>2, <2>3
<1> QED
  BY <1>3, <1>8, <1>9

LEMMA LruKAccess ==
  ASSUME NEW p, NEW M, NEW u, NEW now, LruKRight(p, M, u), Dated(M, u, now),
         NEW b \in M, NEW v, v[b] = Append(u[b], now + 1),
         \A x \in M \ {b} : v[x] = u[x]
  PROVE  LruKRight(LruKOnAccess(p, b), M, v)
<1> DEFINE h == p.access_history
           g == LastK(Append(h[b], p.clock + 1))
           q == LruKOnAccess(p, b)
<1>1. h \in [M -> Seq(Nat)] /\ p.clock \in Nat
  BY DEF LruKRight
<1>2. q = [access_history |-> [h EXCEPT ![b] = g], clock |-> p.clock + 1]
  BY <1>1 DEF LruKOnAccess, LruKTracked
<1>3. u[b] \in Seq(Nat) /\ Len(u[b]) > 0 /\ now \in Nat
  BY DEF Dated
<1>4. h[b] \in Seq(Nat) /\ Kept(u[b], h[b])
  BY StampsOfUses
<1>5. p.clock + 1 \in Nat /\ now + 1 \in Nat
  BY <1>1, <1>3
<1>6. /\ g \in Seq(Nat) /\ Kept(v[b], g)
      /\ \A i \in DOMAIN g :
           \/ \E j \in DOMAIN h[b] : /\ g[i] = h[b][j]
                                     /\ UseAt(v[b], g, i) = UseAt(u[b], h[b], j)
           \/ g[i] = p.clock + 1 /\ UseAt(v[b], g, i) = now + 1
  <2>1. /\ LastK(Append(h[b], p.clock + 1)) \in Seq(Nat)
        /\ Kept(Append(u[b], now + 1), LastK(Append(h[b], p.clock + 1)))
        /\ \A i \in DOMAIN LastK(Append(h[b], p.clock + 1)) :
             \/ \E j \in DOMAIN h[b] :
                  /\ LastK(Append(h[b], p.clock + 1))[i] = h[b][j]
                  /\ UseAt(Append(u[b], now + 1), LastK(Append(h[b], p.clock + 1)), i)
                       = UseAt(u[b], h[b], j)
             \/ /\ LastK(Append(h[b], p.clock + 1))[i] = p.clock + 1
                /\ UseAt(Append(u[b], now + 1), LastK(Append(h[b], p.clock + 1)), i)
                     = now + 1
    <3> HIDE DEF h
    <3> QED
      BY <1>3, <1>4, <1>5, NewStamp
  <2> QED
    BY <2>1
<1> HIDE DEF g
<1>7. /\ q \in [access_history : [M -> Seq(Nat)], clock : Nat]
      /\ q.clock = p.clock + 1 /\ q.access_history[b] = g
      /\ \A x \in M \ {b} : q.access_history[x] = h[x]
  BY <1>1, <1>2, <1>5, <1>6
<1> HIDE DEF q
<1>8. q.clock >= p.clock /\ q.clock > p.clock
  BY <1>1, <1>7
<1>9. \A x \in M : Kept(v[x], q.access_history[x])
  <2>1. \A x \in M : Kept(u[x], h[x])
    BY StampsOfUses
  <2> QED
    BY <1>6, <1>7, <2>1
<1>10. Follows(p, M, u, q, M, v, b, now + 1)
  <2>1. ASSUME NEW x \in M, NEW i \in DOMAIN q.access_history[x]
        PROVE  \/ x \in M /\ \E j \in DOMAIN p.access_history[x] :
                    /\ q.access_history[x][i] = p.access_history[x][j]
                    /\ UseAt(v[x], q.access_history[x], i)
                         = UseAt(u[x], p.access_history[x], j)
               \/ /\ x = b /\ q.access_history[x][i] = q.clock /\ q.clock > p.clock
                  /\ UseAt(v[x], q.access_history[x], i) = now + 1
    <3>1. CASE x = b
      BY <1>6, <1>7, <1>8, <3>1
    <3>2. CASE x # b
      BY <1>7, <3>2
    <3> QED
      BY <3>1, <3>2
  <2> QED
    BY <2>1 DEF Follows
<1>11. LruKRight(q, M, v)
  BY <1>7, <1>8, <1>9, <1>10, LruKStep
<1> QED
  BY <1>11 DEF q

LEMMA LruKInsert ==
  ASSUME NEW p, NEW M, NEW u, NEW now, LruKRight(p, M, u), Dated(M, u, now),
         NEW b \in BlockIds, b \notin M, NEW v, v[b] = <<now + 1>>,
         \A x \in M : v[x] = u[x]
  PROVE  LruKRight(LruKOnInsert(p, b), M \cup {b}, v)
<1> DEFINE h == p.access_history
           q == LruKOnInsert(p, b)
<1>1. h \in [M -> Seq(Nat)] /\ p.clock \in Nat
  BY DEF LruKRight
<1>2. q = [access_history |-> [x \in M \cup {b} |->
                                 IF x = b THEN <<p.clock + 1>> ELSE h[x]],
           clock |-> p.clock + 1]
  BY <1>1 DEF LruKOnInsert, LruKTracked
<1>3. <<p.clock + 1>> \in Seq(Nat) /\ p.clock + 1 \in Nat
  BY <1>1
<1>4. /\ q \in [access_history : [M \cup {b} -> Seq(Nat)], clock : Nat]
      /\ q.clock = p.clock + 1 /\ q.access_history[b] = <<p.clock + 1>>
      /\ \A x \in M : q.access_history[x] = h[x]
  BY <1>1, <1>2, <1>3
<1> HIDE DEF q
<1>5. q.clock >= p.clock /\ q.clock > p.clock
  BY <1>1, <1>4
<1>6. /\ Len(q.access_history[b]) = 1 /\ Len(v[b]) = 1
      /\ \A i \in DOMAIN q.access_history[b] :
           /\ q.access_history[b][i] = q.clock
           /\ UseAt(v[b], q.access_history[b], i) = now + 1
  <2>1. Len(v[b]) = 1 /\ v[b][1] = now + 1
    OBVIOUS
  <2>2. /\ Len(<<p.clock + 1>>) = 1 /\ <<p.clock + 1>>[1] = p.clock + 1
        /\ DOMAIN <<p.clock + 1>> = {1}
    OBVIOUS
  <2> QED
    BY <1>4, <2>1, <2>2 DEF UseAt
<1>7. \A x \in M : Kept(u[x], h[x])
  BY StampsOfUses
<1>8. \A x \in M \cup {b} : Kept(v[x], q.access_history[x])
  <2>1. Kept(v[b], q.access_history[b])
    BY <1>6 DEF Kept, K
  <2> QED
    BY <1>4, <1>7, <2>1
<1>9. Follows(p, M, u, q, M \cup {b}, v, b, now + 1)
  <2>1. ASSUME NEW x \in M \cup {b}, NEW i \in DOMAIN q.access_history[x]
        PROVE  \/ x \in M /\ \E j \in DOMAIN p.access_history[x] :
                    /\ q.access_history[x][i] = p.access_history[x][j]
                    /\ UseAt(v[x], q.access_history[x], i)
                         = UseAt(u[x], p.access_history[x], j)
               \/ /\ x = b /\ q.access_history[x][i] = q.clock /\ q.clock > p.clock
                  /\ UseAt(v[x], q.access_history[x], i) = now + 1
    <3>1. CASE x = b
      BY <1>5, <1>6, <3>1
    <3>2. CASE x \in M
      BY <1>4, <3>2
    <3> QED
      BY <3>1, <3>2
  <2> QED
    BY <2>1 DEF Follows
<1>10. LruKRight(q, M \cup {b}, v)
  BY <1>4, <1>5, <1>8, <1>9, LruKStep
<1> QED
  BY <1>10 DEF q

LEMMA LruKRemove ==
  ASSUME NEW p, NEW M, NEW u, LruKRight(p, M, u), NEW b \in M,
         NEW v, \A x \in M \ {b} : v[x] = u[x]
  PROVE  LruKRight(LruKOnRemove(p, b), M \ {b}, v)
<1> DEFINE h == p.access_history
           q == LruKOnRemove(p, b)
<1>1. /\ h \in [M -> Seq(Nat)] /\ p.clock \in Nat
      /\ p = [access_history |-> h, clock |-> p.clock]
  BY DEF LruKRight
<1>2. q = [access_history |-> [x \in M \ {b} |-> h[x]], clock |-> p.clock]
  BY <1>1 DEF LruKOnRemove, LruKTracked, Restrict
<1>3. /\ q \in [access_history : [M \ {b} -> Seq(Nat)], clock : Nat]
      /\ q.clock = p.clock /\ \A x \in M \ {b} : q.access_history[x] = h[x]
  BY <1>1, <1>2
<1> HIDE DEF q
<1>4. LruKRight(q, M \ {b}, v)
  BY <1>3 DEF LruKRight
<1> QED
  BY <1>4 DEF q

-----------------------------------------------------------------------------
(* The victims.                                                            *)

LEMMA LeastNumber ==
  ASSUME NEW S \in SUBSET Nat, S # {}
  PROVE  \E n \in S : \A m \in S : n <= m
<1> DEFINE Below == { 0 .. k : k \in S }
           R == StrictSubsetOrdering(Nat)
<1>1. Below \subseteq FiniteSubsetsOf(Nat) /\ Below # {}
  <2>1. \A k \in S : IsFiniteSet(0 .. k) /\ 0 .. k \in SUBSET Nat
    BY FS_Interval
  <2> QED
    BY <2>1 DEF FiniteSubsetsOf
<1>2. IsWellFoundedOn(R, FiniteSubsetsOf(Nat))
  BY FS_StrictSubsetOrderingWellFounded
<1>3. PICK T \in Below : \A U \in Below : <<U, T>> \notin R
  <2> HIDE DEF Below, R
  <2> QED
    BY <1>1, <1>2, WFMin
<1>4. PICK n \in S : T = 0 .. n
  OBVIOUS
<1>5. ASSUME NEW m \in S PROVE n <= m
  <2>1. SUFFICES ASSUME m < n PROVE FALSE
    OBVIOUS
  <2>2. 0 .. m \in SUBSET Nat /\ 0 .. n \in SUBSET Nat /\ 0 .. m \subseteq 0 .. n
    BY <2>1
  <2>3. n \in 0 .. n /\ n \notin 0 .. m
    BY <2>1
  <2>4. 0 .. m # 0 .. n
    BY <2>3
  <2>5. <<0 .. m, 0 .. n>> \in R
    BY <2>2, <2>4 DEF StrictSubsetOrdering
  <2> QED
    BY <1>3, <1>4, <2>5
<1> QED
  BY <1>5

\* A set has an element that is least by one measure, then by another.
LEMMA LeastPair ==
  ASSUME NEW M, M # {}, NEW f \in [M -> Nat], NEW g \in [M -> Nat]
  PROVE  \E v \in M : \A x \in M : f[v] < f[x] \/ (f[v] = f[x] /\ g[v] <= g[x])
<1>1. PICK n \in { f[x] : x \in M } : \A m \in { f[x] : x \in M } : n <= m
  <2>1. { f[x] : x \in M } \in SUBSET Nat /\ { f[x] : x \in M } # {}
    OBVIOUS
  <2> QED
    BY <2>1, LeastNumber
<1> DEFINE L == { x \in M : f[x] = n }
<1>2. L # {} /\ \A x \in M : n <= f[x]
  BY <1>1
<1>3. PICK k \in { g[x] : x \in L } : \A m \in { g[x] : x \in L } : k <= m
  <2>1. { g[x] : x \in L } \in SUBSET Nat /\ { g[x] : x \in L } # {}
    BY <1>2
  <2> QED
    BY <2>1, LeastNumber
<1>4. PICK v \in L : g[v] = k
  BY <1>3
<1>5. \A x \in L : g[v] <= g[x]
  BY <1>3, <1>4
<1>6. ASSUME NEW x \in M PROVE f[v] < f[x] \/ (f[v] = f[x] /\ g[v] <= g[x])
  <2>1. CASE x \in L
    BY <1>4, <1>5, <2>1
  <2>2. CASE x \notin L
    <3>1. f[v] = n /\ f[v] \in Nat
      BY <1>4
    <3>2. f[x] # f[v] /\ f[v] <= f[x] /\ f[x] \in Nat
      BY <1>2, <2>2, <3>1
    <3>3. f[v] < f[x]
      BY <3>1, <3>2
    <3> QED
      BY <3>3
  <2> QED
    BY <2>1, <2>2
<1> QED
  BY <1>4, <1>6

\* The ends of a block's history.
LEMMA EndsOfHistory ==
  ASSUME NEW M, NEW u, NEW now, Dated(M, u, now), NEW x \in M
  PROVE  /\ u[x] \in Seq(Nat) /\ Len(u[x]) \in Nat /\ Len(u[x]) > 0
         /\ Last(u[x]) = u[x][Len(u[x])] /\ Last(u[x]) \in 1 .. now
         /\ Head(u[x]) = u[x][1] /\ Head(u[x]) \in 1 .. now
<1>1. u[x] \in Seq(Nat) /\ Len(u[x]) > 0 /\ x \in BlockIds
  BY DEF Dated
<1>2. Len(u[x]) \in Nat
  BY <1>1
<1>3. 1 \in DOMAIN u[x] /\ Len(u[x]) \in DOMAIN u[x]
  BY <1>1, <1>2
<1>4. Head(u[x]) = u[x][1] /\ Last(u[x]) = u[x][Len(u[x])]
  BY <1>1 DEF Last
<1> QED
  BY <1>1, <1>2, <1>3, <1>4 DEF Dated

LEMMA LruVictimRight ==
  ASSUME NEW l, NEW M, NEW u, NEW now, LruRight(l, M, u), Dated(M, u, now), M # {}
  PROVE  LET v == LruVictim(l)
         IN  v \in M /\ \A x \in M : Last(u[v]) <= Last(u[x])
<1>1. l \in Seq(BlockIds) /\ ToSet(l) = M
  BY DEF LruRight
<1> DEFINE n == Len(l)
<1>2. DOMAIN l = 1 .. n /\ n \in Nat
  BY <1>1
<1>3. n \in DOMAIN l
  <2>1. PICK i \in DOMAIN l : TRUE
    BY <1>1 DEF ToSet
  <2> QED
    BY <1>2, <2>1
<1>4. LruVictim(l) = l[n]
  BY DEF LruVictim, Last
<1>5. l[n] \in M
  BY <1>1, <1>3 DEF ToSet
<1>6. ASSUME NEW x \in M PROVE Last(u[l[n]]) <= Last(u[x])
  <2>1. PICK i \in DOMAIN l : l[i] = x
    BY <1>1 DEF ToSet
  <2>2. Last(u[l[n]]) \in Nat /\ Last(u[x]) \in Nat
    <3>1. Last(u[l[n]]) \in 1 .. now /\ Last(u[x]) \in 1 .. now
      BY <1>5, EndsOfHistory
    <3>2. now \in Nat
      BY DEF Dated
    <3> QED
      BY <3>1, <3>2
  <2>3. CASE i = n
    BY <2>1, <2>2, <2>3
  <2>4. CASE i # n
    <3>1. i < n
      BY <1>2, <2>1, <2>4
    <3>2. Last(u[l[n]]) < Last(u[l[i]])
      BY <1>3, <3>1 DEF LruRight
    <3> QED
      BY <2>1, <2>2, <3>2
  <2> QED
    BY <2>3, <2>4
<1> QED
  BY <1>4, <1>5, <1>6

LEMMA LfuVictimRight ==
  ASSUME NEW p, NEW M, NEW u, NEW now, LfuRight(p, M, u), Dated(M, u, now), M # {}
  PROVE  LET v == LfuVictim(p)
         IN  v \in M /\ \A x \in M :
               \/ Len(u[v]) < Len(u[x])
               \/ Len(u[v]) = Len(u[x]) /\ Head(u[v]) <= Head(u[x])
<1> DEFINE f == [x \in M |-> p.freq_map[x].frequency]
           g == [x \in M |-> p.freq_map[x].last_access]
           v == LfuVictim(p)
<1>1. /\ p.freq_map \in [M -> [frequency : Nat, last_access : Nat]]
      /\ \A x \in M : p.freq_map[x].frequency = Len(u[x])
      /\ \A x, y \in M : p.freq_map[x].last_access <= p.freq_map[y].last_access
                            <=> Head(u[x]) <= Head(u[y])
  BY DEF LfuRight
<1>2. f \in [M -> Nat] /\ g \in [M -> Nat]
  BY <1>1
<1>3. \E w \in M : \A x \in M : f[w] < f[x] \/ (f[w] = f[x] /\ g[w] <= g[x])
  <2> HIDE DEF f, g
  <2> QED
    BY <1>2, LeastPair
<1>4. \E w \in M : \A x \in M :
        \/ p.freq_map[w].frequency < p.freq_map[x].frequency
        \/ /\ p.freq_map[w].frequency = p.freq_map[x].frequency
           /\ p.freq_map[w].last_access <= p.freq_map[x].last_access
  BY <1>3
<1>5. v \in M /\ \A x \in M :
        \/ p.freq_map[v].frequency < p.freq_map[x].frequency
        \/ /\ p.freq_map[v].frequency = p.freq_map[x].frequency
           /\ p.freq_map[v].last_access <= p.freq_map[x].last_access
  <2>1. DOMAIN p.freq_map = M
    BY <1>1
  <2> QED
    BY <1>4, <2>1 DEF LfuVictim, LfuTracked
<1> HIDE DEF v
<1>6. v \in M /\ \A x \in M :
               \/ Len(u[v]) < Len(u[x])
               \/ Len(u[v]) = Len(u[x]) /\ Head(u[v]) <= Head(u[x])
  BY <1>1, <1>5
<1> QED
  BY <1>6 DEF v

\* The K-th last use by the uses u.
Kth(u, x) == IF Len(u[x]) < K THEN 0 ELSE u[x][Len(u[x]) - K + 1]

\* What LRU-2 compares, and the uses behind it.
LEMMA StampsCompared ==
  ASSUME NEW p, NEW M, NEW u, NEW now, LruKRight(p, M, u), Dated(M, u, now),
         NEW x \in M
  PROVE  LET h == p.access_history[x]
         IN  /\ 1 \in DOMAIN h /\ Head(h) = h[1] /\ h[1] \in Nat /\ h[1] > 0
             /\ Kth(u, x) \in Nat /\ Head(u[x]) \in Nat
             /\ \/ /\ KthTime(h) = 0 /\ Kth(u, x) = 0
                   /\ UseAt(u[x], h, 1) = Head(u[x])
                \/ /\ KthTime(h) = h[1] /\ Kth(u, x) = UseAt(u[x], h, 1)
                   /\ Kth(u, x) > 0
<1> DEFINE h == p.access_history[x]
           m == Len(u[x])
           n == Len(h)
<1>1. /\ h \in Seq(Nat) /\ Kept(u[x], h)
      /\ \A i \in DOMAIN h :
           /\ i \in 1 .. Len(h) /\ h[i] \in 1 .. p.clock
           /\ UseAt(u[x], h, i) \in 1 .. now
  BY StampsOfUses
<1>2. p.clock \in Nat /\ now \in Nat
  BY DEF LruKRight, Dated
<1>3. m \in Nat /\ m > 0 /\ Head(u[x]) = u[x][1] /\ Head(u[x]) \in 1 .. now
  BY EndsOfHistory
<1> HIDE DEF h
<1>4. n \in Nat /\ DOMAIN h = 1 .. n /\ K \in Nat /\ K > 0
  BY <1>1 DEF K
<1>5. /\ m < K => n = m
      /\ m >= K => n = K
  BY <1>1 DEF Kept
<1>6. 1 \in DOMAIN h /\ n > 0
  <2> HIDE DEF m
  <2>1. ASSUME m < K PROVE n > 0
    BY <1>3, <1>5, <2>1
  <2>2. ASSUME m >= K PROVE n > 0
    BY <1>4, <1>5, <2>2
  <2> HIDE DEF n
  <2>3. n > 0 => 1 \in 1 .. n
    BY <1>4
  <2> QED
    BY <1>3, <1>4, <2>1, <2>2, <2>3
<1>7. Head(h) = h[1]
  BY <1>1, <1>6
<1>8. h[1] \in Nat /\ h[1] > 0 /\ UseAt(u[x], h, 1) \in Nat /\ UseAt(u[x], h, 1) > 0
  BY <1>1, <1>2, <1>6
<1>9. Head(u[x]) \in Nat
  BY <1>2, <1>3
<1>10. CASE m < K
  <2>1. n < K
    BY <1>5, <1>10
  <2>2. KthTime(h) = 0
    BY <2>1 DEF KthTime
  <2>3. Kth(u, x) = 0
    BY <1>10 DEF Kth
  <2>4. m - n + 1 = 1
    <3>1. n = m
      BY <1>5, <1>10
    <3> HIDE DEF m, n
    <3> QED
      BY <1>3, <1>4, <3>1
  <2>5. UseAt(u[x], h, 1) = Head(u[x])
    BY <1>3, <2>4 DEF UseAt
  <2> QED
    BY <1>6, <1>7, <1>8, <1>9, <2>2, <2>3, <2>5 DEF h
<1>11. CASE m >= K
  <2>1. ~ (m < K) /\ ~ (n < K) /\ m - n + 1 = m - K + 1
    <3>1. n = K
      BY <1>5, <1>11
    <3> HIDE DEF m, n
    <3> QED
      BY <1>3, <1>4, <1>11, <3>1
  <2>2. KthTime(h) = h[1]
    BY <1>7, <2>1 DEF KthTime
  <2>3. Kth(u, x) = UseAt(u[x], h, 1)
    BY <2>1 DEF Kth, UseAt
  <2> QED
    BY <1>6, <1>7, <1>8, <1>9, <2>2, <2>3 DEF h
<1> QED
  BY <1>3, <1>4, <1>10, <1>11

LEMMA LruKVictimRight ==
  ASSUME NEW p, NEW M, NEW u, NEW now, LruKRight(p, M, u), Dated(M, u, now), M # {}
  PROVE  LET v == LruKVictim(p)
         IN  v \in M /\ \A x \in M :
               \/ Kth(u, v) < Kth(u, x)
               \/ Kth(u, v) = Kth(u, x) /\ Head(u[v]) <= Head(u[x])
<1> DEFINE h == p.access_history
           f == [x \in M |-> KthTime(h[x])]
           g == [x \in M |-> Head(h[x])]
           v == LruKVictim(p)
<1>1. DOMAIN h = M
  BY DEF LruKRight
<1>2. \A x \in M :
        /\ 1 \in DOMAIN h[x] /\ Head(h[x]) = h[x][1] /\ h[x][1] \in Nat /\ h[x][1] > 0
        /\ Kth(u, x) \in Nat /\ Head(u[x]) \in Nat
        /\ \/ /\ KthTime(h[x]) = 0 /\ Kth(u, x) = 0
              /\ UseAt(u[x], h[x], 1) = Head(u[x])
           \/ /\ KthTime(h[x]) = h[x][1] /\ Kth(u, x) = UseAt(u[x], h[x], 1)
              /\ Kth(u, x) > 0
  BY StampsCompared
<1>3. \A x, y \in M :
        /\ h[x][1] <= h[y][1] <=> UseAt(u[x], h[x], 1) <= UseAt(u[y], h[y], 1)
        /\ h[x][1] = h[y][1] => x = y
  BY <1>2 DEF LruKRight
<1>4. f \in [M -> Nat] /\ g \in [M -> Nat]
  BY <1>2
<1>5. \E w \in M : \A x \in M : f[w] < f[x] \/ (f[w] = f[x] /\ g[w] <= g[x])
  <2> HIDE DEF f, g
  <2> QED
    BY <1>4, LeastPair
<1>6. \E w \in M : \A x \in M :
        \/ KthTime(h[w]) < KthTime(h[x])
        \/ KthTime(h[w]) = KthTime(h[x]) /\ Head(h[w]) <= Head(h[x])
  BY <1>5
<1>7. v \in M /\ \A x \in M :
        \/ KthTime(h[v]) < KthTime(h[x])
        \/ KthTime(h[v]) = KthTime(h[x]) /\ Head(h[v]) <= Head(h[x])
  BY <1>1, <1>6 DEF LruKVictim, LruKTracked
<1> HIDE DEF v, h
<1>8. ASSUME NEW x \in M
      PROVE  \/ Kth(u, v) < Kth(u, x)
             \/ Kth(u, v) = Kth(u, x) /\ Head(u[v]) <= Head(u[x])
  <2>1. CASE KthTime(h[v]) = 0 /\ Kth(u, v) = 0 /\ UseAt(u[v], h[v], 1) = Head(u[v])
    <3>1. CASE KthTime(h[x]) = 0 /\ Kth(u, x) = 0 /\ UseAt(u[x], h[x], 1) = Head(u[x])
      <4>1. h[v][1] <= h[x][1]
        BY <1>2, <1>7, <2>1, <3>1
      <4> QED
        BY <1>3, <1>7, <2>1, <3>1, <4>1
    <3>2. CASE Kth(u, x) > 0
      BY <1>2, <2>1, <3>2
    <3> QED
      BY <1>2, <3>1, <3>2
  <2>2. CASE KthTime(h[v]) = h[v][1] /\ Kth(u, v) = UseAt(u[v], h[v], 1)
    <3>1. h[v][1] \in Nat /\ h[v][1] > 0 /\ Kth(u, v) \in Nat /\ v \in M
      BY <1>2, <1>7
    <3>2. KthTime(h[x]) # 0
      BY <1>2, <1>7, <2>2, <3>1
    <3>3. KthTime(h[x]) = h[x][1] /\ Kth(u, x) = UseAt(u[x], h[x], 1)
      BY <1>2, <3>2
    <3>4. CASE h[v][1] < h[x][1]
      <4>1. ~ (h[x][1] <= h[v][1])
        BY <1>2, <3>1, <3>4
      <4>2. ~ (Kth(u, x) <= Kth(u, v))
        BY <1>3, <2>2, <3>1, <3>3, <4>1
      <4> QED
        BY <1>2, <3>1, <4>2
    <3>5. CASE h[v][1] = h[x][1]
      <4>1. v = x
        BY <1>3, <3>1, <3>5
      <4> QED
        BY <1>2, <3>1, <4>1
    <3> QED
      BY <1>7, <2>2, <3>3, <3>4, <3>5
  <2> QED
    BY <1>2, <1>7, <2>1, <2>2
<1> QED
  BY <1>7, <1>8 DEF v

-----------------------------------------------------------------------------
(* Whichever policy it is.                                                 *)

ThePolicies == {"lru", "lfu", "lru-k"}

LEMMA RightTracks ==
  ASSUME NEW p, NEW M, NEW u, policy_name \in ThePolicies, Right(p, M, u)
  PROVE  Tracked(p) = M
<1>1. CASE policy_name = "lru"
  BY <1>1 DEF Right, LruRight, Tracked, LruTracked
<1>2. CASE policy_name = "lfu"
  BY <1>2 DEF Right, LfuRight, Tracked, LfuTracked
<1>3. CASE policy_name = "lru-k"
  BY <1>3 DEF Right, LruKRight, Tracked, LruKTracked
<1> QED
  BY <1>1, <1>2, <1>3 DEF ThePolicies

LEMMA LruAccess ==
  ASSUME NEW l, NEW M, NEW u, NEW now, LruRight(l, M, u), Dated(M, u, now),
         NEW b \in M, NEW v, v[b] = Append(u[b], now + 1),
         \A x \in M \ {b} : v[x] = u[x]
  PROVE  LruRight(LruOnAccess(l, b), M, v)
<1>1. LruRight(Rest(l, b), M \ {b}, u) /\ Contains(l, b)
  BY LruRest
<1>2. b \in BlockIds /\ b \notin M \ {b} /\ now \in Nat
  BY DEF Dated
<1>3. Last(v[b]) = now + 1
  <2>1. u[b] \in Seq(Nat) /\ Len(u[b]) > 0
    BY EndsOfHistory
  <2> QED
    BY <1>2, <2>1, AppendKeepsHead
<1>4. \A x \in M \ {b} : v[x] = u[x] /\ Last(u[x]) < Last(v[b])
  <2>1. \A x \in M : Last(u[x]) \in 1 .. now
    BY EndsOfHistory
  <2> QED
    BY <1>2, <1>3, <2>1
<1>5. LruRight(Cons(b, Rest(l, b)), (M \ {b}) \cup {b}, v)
  BY <1>1, <1>2, <1>4, LruFront
<1>6. (M \ {b}) \cup {b} = M
  OBVIOUS
<1> QED
  BY <1>1, <1>5, <1>6 DEF LruOnAccess

LEMMA LruInsert ==
  ASSUME NEW l, NEW M, NEW u, NEW now, LruRight(l, M, u), Dated(M, u, now),
         NEW b \in BlockIds, b \notin M, NEW v, v[b] = <<now + 1>>,
         \A x \in M : v[x] = u[x]
  PROVE  LruRight(LruOnInsert(l, b), M \cup {b}, v)
<1>1. ~ Contains(l, b)
  BY DEF LruRight, ToSet, Contains
<1>2. now \in Nat
  BY DEF Dated
<1>3. Last(v[b]) = now + 1
  BY DEF Last
<1>4. \A x \in M : v[x] = u[x] /\ Last(u[x]) < Last(v[b])
  <2>1. \A x \in M : Last(u[x]) \in 1 .. now
    BY EndsOfHistory
  <2> QED
    BY <1>2, <1>3, <2>1
<1>5. LruRight(Cons(b, l), M \cup {b}, v)
  BY <1>4, LruFront
<1> QED
  BY <1>1, <1>5 DEF LruOnInsert

LEMMA LruRemove ==
  ASSUME NEW l, NEW M, NEW u, LruRight(l, M, u), NEW b \in M,
         NEW v, \A x \in M \ {b} : v[x] = u[x]
  PROVE  LruRight(LruOnRemove(l, b), M \ {b}, v)
<1>1. LruRight(Rest(l, b), M \ {b}, u) /\ Contains(l, b)
  BY LruRest
<1>2. LruRight(Rest(l, b), M \ {b}, v)
  BY <1>1, LruSame
<1> QED
  BY <1>1, <1>2 DEF LruOnRemove

LEMMA AccessRight ==
  ASSUME NEW p, NEW M, NEW u, NEW now, policy_name \in ThePolicies,
         Right(p, M, u), Dated(M, u, now), NEW b \in M,
         NEW v, v[b] = Append(u[b], now + 1), \A x \in M \ {b} : v[x] = u[x]
  PROVE  Right(OnAccess(p, b), M, v)
<1>1. CASE policy_name = "lru"
  BY <1>1, LruAccess DEF Right, OnAccess
<1>2. CASE policy_name = "lfu"
  BY <1>2, LfuAccess DEF Right, OnAccess
<1>3. CASE policy_name = "lru-k"
  BY <1>3, LruKAccess DEF Right, OnAccess
<1> QED
  BY <1>1, <1>2, <1>3 DEF ThePolicies

LEMMA InsertRight ==
  ASSUME NEW p, NEW M, NEW u, NEW now, policy_name \in ThePolicies,
         Right(p, M, u), Dated(M, u, now), NEW b \in BlockIds, b \notin M,
         NEW v, v[b] = <<now + 1>>, \A x \in M : v[x] = u[x]
  PROVE  Right(OnInsert(p, b), M \cup {b}, v)
<1>1. CASE policy_name = "lru"
  BY <1>1, LruInsert DEF Right, OnInsert
<1>2. CASE policy_name = "lfu"
  BY <1>2, LfuInsert DEF Right, OnInsert
<1>3. CASE policy_name = "lru-k"
  BY <1>3, LruKInsert DEF Right, OnInsert
<1> QED
  BY <1>1, <1>2, <1>3 DEF ThePolicies

LEMMA RemoveRight ==
  ASSUME NEW p, NEW M, NEW u, policy_name \in ThePolicies,
         Right(p, M, u), NEW b \in M, NEW v, \A x \in M \ {b} : v[x] = u[x]
  PROVE  Right(OnRemove(p, b), M \ {b}, v)
<1>1. CASE policy_name = "lru"
  BY <1>1, LruRemove DEF Right, OnRemove
<1>2. CASE policy_name = "lfu"
  BY <1>2, LfuRemove DEF Right, OnRemove
<1>3. CASE policy_name = "lru-k"
  BY <1>3, LruKRemove DEF Right, OnRemove
<1> QED
  BY <1>1, <1>2, <1>3 DEF ThePolicies

LEMMA EmptyRight ==
  ASSUME policy_name \in ThePolicies, NEW u
  PROVE  Right(EmptyPolicy, {}, u)
<1>1. CASE policy_name = "lru"
  <2>1. LruRight(EmptyLru, {}, u)
    BY DEF LruRight, EmptyLru, IsInjective, ToSet
  <2> QED
    BY <1>1, <2>1 DEF Right, EmptyPolicy
<1>2. CASE policy_name = "lfu"
  <2>1. LfuRight(EmptyLfu, {}, u)
    BY DEF LfuRight, EmptyLfu
  <2> QED
    BY <1>2, <2>1 DEF Right, EmptyPolicy
<1>3. CASE policy_name = "lru-k"
  <2>1. LruKRight(EmptyLruK, {}, u)
    BY DEF LruKRight, EmptyLruK
  <2> QED
    BY <1>3, <2>1 DEF Right, EmptyPolicy
<1> QED
  BY <1>1, <1>2, <1>3 DEF ThePolicies

\* The victim is a resident block, the one its policy promises.
LEMMA VictimChosen ==
  ASSUME PolicyIInv, residents # {}
  PROVE  SelectVictim(policy) \in residents /\ VictimIsRight
<1>1. Dated(residents, uses, clock)
  BY DEF PolicyIInv
<1>2. CASE policy_name = "lru"
  <2>1. LruRight(policy, residents, uses) /\ SelectVictim(policy) = LruVictim(policy)
    BY <1>2 DEF PolicyIInv, Right, SelectVictim
  <2>2. /\ LruVictim(policy) \in residents
        /\ \A x \in residents : Last(uses[LruVictim(policy)]) <= Last(uses[x])
    BY <1>1, <2>1, LruVictimRight
  <2> QED
    BY <1>2, <2>1, <2>2
       DEF VictimIsRight, VictimIsLeastRecentlyUsed, VictimIsLeastFrequentlyUsed,
           VictimHasOldestKthUse, LastUse, Used
<1>3. CASE policy_name = "lfu"
  <2>1. LfuRight(policy, residents, uses) /\ SelectVictim(policy) = LfuVictim(policy)
    BY <1>3 DEF PolicyIInv, Right, SelectVictim
  <2>2. LET v == LfuVictim(policy)
        IN  v \in residents /\ \A x \in residents :
              \/ Len(uses[v]) < Len(uses[x])
              \/ Len(uses[v]) = Len(uses[x]) /\ Head(uses[v]) <= Head(uses[x])
    BY <1>1, <2>1, LfuVictimRight
  <2> QED
    BY <1>3, <2>1, <2>2
       DEF VictimIsRight, VictimIsLeastRecentlyUsed, VictimIsLeastFrequentlyUsed,
           VictimHasOldestKthUse, Used
<1>4. CASE policy_name = "lru-k"
  <2>1. LruKRight(policy, residents, uses) /\ SelectVictim(policy) = LruKVictim(policy)
    BY <1>4 DEF PolicyIInv, Right, SelectVictim
  <2>2. LET v == LruKVictim(policy)
        IN  v \in residents /\ \A x \in residents :
              \/ Kth(uses, v) < Kth(uses, x)
              \/ Kth(uses, v) = Kth(uses, x) /\ Head(uses[v]) <= Head(uses[x])
    BY <1>1, <2>1, LruKVictimRight
  <2>3. \A x : KthLastUse(x) = Kth(uses, x)
    BY DEF KthLastUse, Kth, Used
  <2> QED
    BY <1>4, <2>1, <2>2, <2>3
       DEF VictimIsRight, VictimIsLeastRecentlyUsed, VictimIsLeastFrequentlyUsed,
           VictimHasOldestKthUse, Used
<1> QED
  BY <1>2, <1>3, <1>4 DEF PolicyIInv, ThePolicies

-----------------------------------------------------------------------------
(* The steps.                                                              *)

\* What is left after the eviction: policy, residents and histories agree.
LEMMA EvictRight ==
  ASSUME PolicyIInv
  PROVE  /\ Victims \subseteq residents
         /\ Right(AfterEviction, residents \ Victims, Forget(uses, Victims))
         /\ Dated(residents \ Victims, Forget(uses, Victims), clock)
<1> DEFINE w == SelectVictim(policy)
           u == Forget(uses, Victims)
<1>1. /\ policy_name \in ThePolicies /\ Right(policy, residents, uses)
      /\ Dated(residents, uses, clock)
  BY DEF PolicyIInv, ThePolicies
<1>2. CASE Victims = {}
  <2>1. residents \ Victims = residents
    BY <1>2
  <2>2. u = uses
    BY <1>1, <1>2 DEF Forget, Dated
  <2>3. AfterEviction = policy
    BY <1>2 DEF AfterEviction
  <2> QED
    BY <1>1, <1>2, <2>1, <2>2, <2>3
<1>3. CASE Victims # {}
  <2>1. Cardinality(residents) >= Slots /\ Victims = {w}
    BY <1>3 DEF Victims
  <2>2. residents # {}
    <3>1. SUFFICES ASSUME residents = {} PROVE FALSE
      OBVIOUS
    <3>2. Cardinality(residents) = 0
      BY <3>1, FS_EmptySet
    <3> QED
      BY <2>1, <3>2, PolicyCacheAssumption
  <2>3. w \in residents
    BY <2>2, VictimChosen
  <2>4. AfterEviction = OnRemove(policy, w)
    BY <1>3 DEF AfterEviction
  <2>5. residents \ Victims = residents \ {w}
    BY <2>1
  <2>6. /\ u \in [BlockIds -> Seq(Nat)] /\ u[w] = <<>>
        /\ \A x \in BlockIds \ {w} : u[x] = uses[x]
    <3>1. w \in BlockIds
      BY <1>1, <2>3 DEF Dated
    <3>2. uses \in [BlockIds -> Seq(Nat)]
      BY <1>1 DEF Dated
    <3> QED
      BY <2>1, <3>1, <3>2 DEF Forget
  <2> HIDE DEF u, w
  <2>7. \A x \in residents \ {w} : u[x] = uses[x]
    BY <1>1, <2>6 DEF Dated
  <2>8. Right(OnRemove(policy, w), residents \ {w}, u)
    BY <1>1, <2>3, <2>7, RemoveRight
  <2>9. Dated(residents \ {w}, u, clock)
    <3>1. /\ residents \subseteq BlockIds /\ clock \in Nat
          /\ \A x \in BlockIds : \A i \in DOMAIN uses[x] : uses[x][i] \in 1 .. clock
          /\ \A x \in residents : Len(uses[x]) > 0
      BY <1>1 DEF Dated
    <3>2. ASSUME NEW x \in BlockIds, NEW i \in DOMAIN u[x] PROVE u[x][i] \in 1 .. clock
      <4>1. x # w
        BY <2>6
      <4> QED
        BY <2>6, <3>1, <4>1
    <3>3. \A x \in residents \ {w} : Len(u[x]) > 0
      BY <2>7, <3>1
    <3> QED
      BY <2>6, <3>1, <3>2, <3>3 DEF Dated
  <2> QED
    BY <2>1, <2>3, <2>4, <2>5, <2>8, <2>9 DEF u
<1> QED
  BY <1>2, <1>3

\* The steps keep the histories dated.
LEMMA UseDated ==
  ASSUME NEW M, NEW u, NEW now, Dated(M, u, now), NEW b \in BlockIds, NEW h \in Seq(Nat),
         h = <<now + 1>> \/ h = Append(u[b], now + 1)
  PROVE  Dated(M \cup {b}, [u EXCEPT ![b] = h], now + 1)
<1> DEFINE v == [u EXCEPT ![b] = h]
<1>1. /\ M \subseteq BlockIds /\ now \in Nat /\ u \in [BlockIds -> Seq(Nat)]
      /\ \A x \in BlockIds : \A i \in DOMAIN u[x] : u[x][i] \in 1 .. now
      /\ \A x \in M : Len(u[x]) > 0
  BY DEF Dated
<1>2. /\ v \in [BlockIds -> Seq(Nat)] /\ v[b] = h
      /\ \A x \in BlockIds : x # b => v[x] = u[x]
  BY <1>1
<1>3. Len(h) > 0 /\ \A i \in DOMAIN h : h[i] \in 1 .. now + 1
  <2>1. CASE h = <<now + 1>>
    BY <1>1, <2>1
  <2>2. CASE h = Append(u[b], now + 1)
    <3>1. u[b] \in Seq(Nat) /\ \A i \in DOMAIN u[b] : u[b][i] \in 1 .. now
      BY <1>1
    <3> DEFINE s == u[b]
    <3> HIDE DEF s
    <3>2. s \in Seq(Nat) /\ h = Append(s, now + 1) /\ \A i \in DOMAIN s : s[i] \in 1 .. now
      BY <2>2, <3>1 DEF s
    <3>3. /\ Len(h) = Len(s) + 1 /\ h[Len(s) + 1] = now + 1 /\ DOMAIN h = 1 .. Len(s) + 1
          /\ DOMAIN s = 1 .. Len(s) /\ Len(s) \in Nat
          /\ \A i \in 1 .. Len(s) : h[i] = s[i]
      BY <1>1, <3>2
    <3>4. ASSUME NEW i \in DOMAIN h PROVE h[i] \in 1 .. now + 1
      <4>1. CASE i = Len(s) + 1
        BY <1>1, <3>3, <4>1
      <4>2. CASE i # Len(s) + 1
        <5>1. i \in 1 .. Len(s)
          BY <3>3, <4>2
        <5>2. h[i] \in 1 .. now
          BY <3>2, <3>3, <5>1
        <5> QED
          BY <1>1, <5>2
      <4> QED
        BY <4>1, <4>2
    <3> QED
      BY <3>3, <3>4
  <2> QED
    BY <2>1, <2>2
<1> HIDE DEF v
<1>4. ASSUME NEW x \in BlockIds, NEW i \in DOMAIN v[x] PROVE v[x][i] \in 1 .. now + 1
  <2>1. CASE x = b
    BY <1>2, <1>3, <2>1
  <2>2. CASE x # b
    <3>1. v[x][i] \in 1 .. now
      BY <1>1, <1>2, <2>2
    <3> QED
      BY <1>1, <3>1
  <2> QED
    BY <2>1, <2>2
<1>5. \A x \in M \cup {b} : Len(v[x]) > 0
  BY <1>1, <1>2, <1>3
<1>6. Dated(M \cup {b}, v, now + 1)
  BY <1>1, <1>2, <1>4, <1>5 DEF Dated
<1> QED
  BY <1>6 DEF v

-----------------------------------------------------------------------------
(* The invariant.                                                          *)

LEMMA PolicyInitIInv == PolicyInit => PolicyIInv
<1> SUFFICES ASSUME PolicyInit PROVE PolicyIInv
  OBVIOUS
<1>1. policy_name \in ThePolicies
  BY PolicyCacheAssumption DEF PolicyInit, ThePolicies
<1>2. Right(policy, residents, uses)
  BY <1>1, EmptyRight DEF PolicyInit
<1>3. Dated(residents, uses, clock)
  BY DEF PolicyInit, Dated
<1> QED
  BY <1>1, <1>2, <1>3 DEF PolicyIInv, ThePolicies

\* A hit, whichever way it comes.
LEMMA LockedHitPreserves ==
  ASSUME PolicyIInv, NEW b \in BlockIds, LockedHit(b), UNCHANGED <<residents, policy_name>>
  PROVE  PolicyIInv'
<1> DEFINE v == [uses EXCEPT ![b] = Append(@, clock + 1)]
<1>1. /\ policy_name \in ThePolicies /\ Right(policy, residents, uses)
      /\ Dated(residents, uses, clock)
  BY DEF PolicyIInv, ThePolicies
<1>2. /\ b \in residents /\ policy' = OnAccess(policy, b) /\ clock' = clock + 1
      /\ uses' = v
  BY DEF LockedHit, Now
<1>3. uses \in [BlockIds -> Seq(Nat)] /\ clock \in Nat
  BY <1>1 DEF Dated
<1>4. v[b] = Append(uses[b], clock + 1) /\ \A x \in residents \ {b} : v[x] = uses[x]
  BY <1>1, <1>3 DEF Dated
<1>5. Dated(residents, v, clock + 1)
  <2>1. Append(uses[b], clock + 1) \in Seq(Nat)
    BY <1>3
  <2>2. Dated(residents \cup {b}, [uses EXCEPT ![b] = Append(uses[b], clock + 1)], clock + 1)
    BY <1>1, <2>1, UseDated
  <2>3. residents \cup {b} = residents
    BY <1>2
  <2> QED
    BY <2>2, <2>3
<1> HIDE DEF v
<1>6. Right(OnAccess(policy, b), residents, v)
  BY <1>1, <1>2, <1>4, AccessRight
<1>7. Right(policy, residents, uses)'
  BY <1>2, <1>6 DEF Right
<1>8. Dated(residents, uses, clock)'
  BY <1>2, <1>5
<1> QED
  BY <1>1, <1>7, <1>8 DEF PolicyIInv, ThePolicies

LEMMA PolicyLoadPreserves ==
  ASSUME PolicyIInv, NEW b \in BlockIds, Load(b), UNCHANGED policy_name
  PROVE  PolicyIInv'
<1> DEFINE M == residents \ Victims
           u == Forget(uses, Victims)
           v == [u EXCEPT ![b] = <<clock + 1>>]
<1>1. policy_name \in ThePolicies
  BY DEF PolicyIInv, ThePolicies
<1>2. Right(AfterEviction, M, u) /\ Dated(M, u, clock)
  BY EvictRight
<1>3. /\ b \notin M /\ policy' = OnInsert(AfterEviction, b) /\ residents' = M \cup {b}
      /\ clock' = clock + 1 /\ uses' = v
  BY DEF Load, Now
<1> HIDE DEF M, u
<1>4. u \in [BlockIds -> Seq(Nat)] /\ clock \in Nat
  BY <1>2 DEF Dated
<1>5. v[b] = <<clock + 1>> /\ \A x \in M : v[x] = u[x]
  BY <1>2, <1>3, <1>4 DEF Dated
<1>6. Dated(M \cup {b}, v, clock + 1)
  <2>1. <<clock + 1>> \in Seq(Nat)
    BY <1>4
  <2> QED
    BY <1>2, <2>1, UseDated
<1> HIDE DEF v
<1>7. Right(OnInsert(AfterEviction, b), M \cup {b}, v)
  BY <1>1, <1>2, <1>3, <1>5, InsertRight
<1>8. Right(policy, residents, uses)'
  BY <1>3, <1>7 DEF Right
<1>9. Dated(residents, uses, clock)'
  BY <1>3, <1>6
<1> QED
  BY <1>1, <1>8, <1>9 DEF PolicyIInv, ThePolicies

LEMMA PolicyNextIInv == PolicyIInv /\ [PolicyNext]_policyVars => PolicyIInv'
<1> SUFFICES ASSUME PolicyIInv, [PolicyNext]_policyVars PROVE PolicyIInv'
  OBVIOUS
<1>1. ASSUME NEW b \in BlockIds, GetBlockHit(b) \/ SlowHit(b), UNCHANGED policy_name
      PROVE  PolicyIInv'
  BY <1>1, LockedHitPreserves DEF GetBlockHit, SlowHit
<1>2. ASSUME NEW b \in BlockIds, FlatHit(b), UNCHANGED policy_name
      PROVE  PolicyIInv'
  <2>1. UNCHANGED <<residents, policy, uses>> /\ clock' = clock + 1
    BY <1>2 DEF FlatHit, Now
  <2>2. Dated(residents, uses, clock + 1)
    <3>1. \A n \in 1 .. clock : n \in 1 .. clock + 1
      BY DEF PolicyIInv, Dated
    <3> QED
      BY <3>1 DEF PolicyIInv, Dated
  <2>3. Right(policy, residents, uses)'
    BY <1>2, <2>1 DEF PolicyIInv, Right
  <2> QED
    BY <1>2, <2>1, <2>2, <2>3 DEF PolicyIInv
<1>3. ASSUME NEW b \in BlockIds, Load(b), UNCHANGED policy_name
      PROVE  PolicyIInv'
  BY <1>3, PolicyLoadPreserves
<1>4. ASSUME LoadFails, UNCHANGED policy_name
      PROVE  PolicyIInv'
  <2>1. /\ policy' = AfterEviction /\ residents' = residents \ Victims
        /\ uses' = Forget(uses, Victims) /\ clock' = clock
    BY <1>4 DEF LoadFails
  <2>2. /\ Right(AfterEviction, residents \ Victims, Forget(uses, Victims))
        /\ Dated(residents \ Victims, Forget(uses, Victims), clock)
    BY EvictRight
  <2>3. Right(policy, residents, uses)'
    BY <1>4, <2>1, <2>2 DEF Right
  <2> QED
    BY <1>4, <2>1, <2>2, <2>3 DEF PolicyIInv
<1>5. ASSUME UNCHANGED policyVars PROVE PolicyIInv'
  BY <1>5 DEF policyVars, PolicyIInv, Right
<1> QED
  BY <1>1, <1>2, <1>3, <1>4, <1>5 DEF PolicyNext

LEMMA PolicyInvariant == PolicySpec => []PolicyIInv
BY PolicyInitIInv, PolicyNextIInv, PTL DEF PolicySpec

\* Whichever policy the cache has, it keeps track of exactly the blocks that are
\* resident (evictOne asks it for a victim and erases that block from cache_map_,
\* block_cache.cpp:645).
THEOREM PolicyInSync == PolicySpec => []PolicyMirrorsCache
<1>1. PolicyIInv => PolicyMirrorsCache
  BY RightTracks DEF PolicyIInv, PolicyMirrorsCache, ThePolicies
<1> QED
  BY <1>1, PolicyInvariant, PTL

\* Its victim is the block its name promises: the least recently used, the least
\* frequently used, the one with the oldest K-th last use, by what the policy was
\* told of (replacement_policy.h, the three selectVictim).
THEOREM PolicyVictims == PolicySpec => []VictimIsRight
<1>1. PolicyIInv => VictimIsRight
  <2> SUFFICES ASSUME PolicyIInv PROVE VictimIsRight
    OBVIOUS
  <2>1. CASE residents = {}
    BY <2>1 DEF VictimIsRight, VictimIsLeastRecentlyUsed, VictimIsLeastFrequentlyUsed,
                VictimHasOldestKthUse
  <2>2. CASE residents # {}
    BY <2>2, VictimChosen
  <2> QED
    BY <2>1, <2>2
<1> QED
  BY <1>1, PolicyInvariant, PTL

\* The instance's cardinality is the library's.
LEMMA PolicySameCardinality ==
  ASSUME NEW S
  PROVE  Bounded!Cardinality(S) = Cardinality(S)
BY DEF Bounded!Cardinality, Cardinality

LEMMA PolicyNextRefines ==
  PolicyIInv /\ [PolicyNext]_policyVars => [Bounded!Next]_residents
<1> SUFFICES ASSUME PolicyIInv, [PolicyNext]_policyVars, residents' # residents
             PROVE  Bounded!Next
  OBVIOUS
<1> DEFINE w == SelectVictim(policy)
<1>1. /\ Victims \subseteq residents
      /\ ~Bounded!Full => Victims = {}
      /\ Bounded!Full => Victims = {w}
  BY EvictRight, PolicySameCardinality DEF Victims, Bounded!Full
<1>2. ASSUME NEW b \in BlockIds, Load(b) PROVE Bounded!Load(b)
  <2>1. b \notin residents /\ residents' = (residents \ Victims) \cup {b}
    BY <1>2 DEF Load
  <2>2. CASE ~Bounded!Full
    BY <1>1, <2>1, <2>2 DEF Bounded!Load
  <2>3. CASE Bounded!Full
    BY <1>1, <2>1, <2>3 DEF Bounded!Load
  <2> QED
    BY <2>2, <2>3
<1>3. ASSUME LoadFails PROVE Bounded!LoadFails
  BY <1>1, <1>3 DEF LoadFails, Bounded!LoadFails
<1>4. \/ \E b \in BlockIds : Load(b)
      \/ LoadFails
  BY DEF PolicyNext, policyVars, GetBlockHit, SlowHit, FlatHit
<1> QED
  BY <1>2, <1>3, <1>4 DEF Bounded!Next

\* The cache with any of its policies keeps the promises of a bounded cache: one
\* block comes in at a time, and only a full cache gives one up for it.
THEOREM PolicyRefinesBoundedCache == PolicySpec => PolicyCacheIsBounded
<1>1. PolicyInit => Bounded!Init
  BY DEF PolicyInit, Bounded!Init
<1> QED
  BY <1>1, PolicyInvariant, PolicyNextRefines, PTL
     DEF PolicySpec, PolicyCacheIsBounded, Bounded!Spec

=============================================================================
