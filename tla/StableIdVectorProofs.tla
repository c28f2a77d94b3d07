------------------------- MODULE StableIdVectorProofs -------------------------
(***************************************************************************)
(* Proofs about StableIdVector, for every number of index bits, every      *)
(* range of tags and all bounds, as long as no tag wraps around (NoWrap):  *)
(* no entry leaks from the free list, and the vector implements IdStore.   *)
(***************************************************************************)
EXTENDS StableIdVector, FiniteSetTheorems, SequenceTheorems, TLAPS

USE BitsAssumption, TagAssumption, InvalidAssumption, BoundsAssumption

-----------------------------------------------------------------------------
\* The inductive invariant.

Shape == /\ Capacity \in 0..MaxSize
         /\ entries \in [0..(Capacity - 1) -> Words]
         /\ handles \in Seq(Words)
         /\ Len(handles) <= MaxElements

\* What EntriesAccounted computes, said to exist: some sequence of entries is
\* the free list.
FreeListInv == \E n \in Nat : \E chain \in [1..n -> DOMAIN entries] :
                 IsFreeList(n, chain)

IdInv == Shape /\ FreeListInv /\ CountInv /\ TagInv /\ HandleInv

-----------------------------------------------------------------------------
\* Helpers.

\* The entries are as many as their first index that is not taken.
LEMMA CapacityOf == ASSUME NEW n \in Nat, NEW f, DOMAIN f = 0..(n - 1)
                    PROVE  Cardinality(DOMAIN f) = n
<1>1. Cardinality(0..(n - 1)) = IF 0 > n - 1 THEN 0 ELSE (n - 1) - 0 + 1
  BY FS_Interval
<1> QED BY <1>1

\* A tag below the range is stored as it is.
LEMMA TagSmall == ASSUME NEW tag \in Nat, tag < TagRange
                  PROVE  tag % TagRange = tag
  OBVIOUS

\* Indices of entries are never the mark of the end.
LEMMA IndexRange == ASSUME Shape
                    PROVE  /\ Capacity \in Nat
                           /\ DOMAIN entries = 0..(Capacity - 1)
                           /\ Invalid \notin DOMAIN entries
                           /\ \A i \in DOMAIN entries :
                                /\ i \in 0..Invalid /\ entries[i] \in Words
                                /\ entries[i].index \in 0..Invalid
                                /\ entries[i].tag \in 0..(TagRange - 1)
                           /\ IsFiniteSet(InUse)
<1>1. /\ Capacity \in Nat /\ Capacity <= Invalid
      /\ DOMAIN entries = 0..(Capacity - 1)
  BY DEF Shape, MaxSize, MaxIndex
<1>2. IsFiniteSet(InUse)
  <2>1. IsFiniteSet(0..(Capacity - 1))
    BY <1>1, FS_Interval
  <2>2. InUse \in SUBSET (0..(Capacity - 1))
    BY <1>1 DEF InUse
  <2> QED BY <2>1, <2>2, FS_Subset
<1> QED BY <1>1, <1>2 DEF Shape, Words

\* An empty vector satisfies the invariant.
LEMMA InitInv == Init => IdInv
<1> SUFFICES ASSUME Init PROVE IdInv
  OBVIOUS
<1>1. /\ entries = <<>> /\ DOMAIN entries = {} /\ InUse = {}
      /\ handles = <<>> /\ Len(handles) = 0
  BY DEF Init, InUse
<1>2. Capacity = 0 /\ Cardinality(InUse) = 0
  BY <1>1, FS_EmptySet DEF Capacity
<1>3. Shape
  BY <1>1, <1>2 DEF Shape, MaxSize, MaxIndex
<1>4. FreeListInv
  <2>1. entries \in [1..0 -> DOMAIN entries]
    BY <1>1
  <2>2. IsFreeList(0, entries)
    BY <1>1 DEF IsFreeList, Init
  <2> QED BY <2>1, <2>2 DEF FreeListInv
<1>5. CountInv /\ TagInv /\ HandleInv
  BY <1>1, <1>2 DEF CountInv, TagInv, HandleInv, Init
<1> QED BY <1>3, <1>4, <1>5 DEF IdInv

\* Where the ends of the free list are.
LEMMA Ends == ASSUME IdInv
              PROVE  /\ firstFree \in DOMAIN entries \cup {Invalid}
                     /\ lastFree \in DOMAIN entries \cup {Invalid}
                     /\ firstFree = Invalid <=> lastFree = Invalid
                     /\ lastFree = Invalid => InUse = DOMAIN entries
                     /\ lastFree # Invalid =>
                          /\ firstFree \notin InUse /\ lastFree \notin InUse
                          /\ entries[lastFree].index = Invalid
<1>0. PICK n \in Nat : \E chain \in [1..n -> DOMAIN entries] :
        IsFreeList(n, chain)
  BY DEF IdInv, FreeListInv
<1>1. PICK chain \in [1..n -> DOMAIN entries] : IsFreeList(n, chain)
  BY <1>0
<1>2. Invalid \notin DOMAIN entries /\ InUse \subseteq DOMAIN entries
  BY IndexRange DEF IdInv, InUse
<1>3. CASE n = 0
  <2>1. {chain[k] : k \in 1..n} = {}
    BY <1>3
  <2> QED BY <1>1, <1>2, <1>3, <2>1 DEF IsFreeList
<1>4. CASE n # 0
  <2>1. 1 \in 1..n /\ n \in 1..n
    BY <1>4
  <2>2. chain[1] \in DOMAIN entries \ InUse /\ chain[n] \in DOMAIN entries \ InUse
    BY <1>1, <2>1 DEF IsFreeList
  <2> QED BY <1>1, <1>2, <1>4, <2>1, <2>2 DEF IsFreeList
<1> QED BY <1>3, <1>4

-----------------------------------------------------------------------------
\* reserve.

\* What reserve leaves behind.
LEMMA Reserved ==
  ASSUME IdInv, NEW n \in 1..MaxReserve, Reserve(n)
  PROVE  /\ Capacity' = n /\ Capacity < n /\ n <= MaxSize
         /\ entries' \in [0..(n - 1) -> Words]
         /\ \A i \in DOMAIN entries : entries'[i] = entries[i]
         /\ \A i \in Capacity..(n - 1) :
              /\ i \notin DOMAIN entries /\ i \in DOMAIN entries'
              /\ entries'[i].tag = 0
              /\ i < n - 1 => entries'[i].index = i + 1
              /\ i = n - 1 => entries'[i].index = firstFree
         /\ InUse' = InUse
<1>1. Capacity < n /\ DOMAIN entries' = 0..(n - 1) /\ Capacity' = n
  BY IndexRange, CapacityOf DEF Reserve, Capacity, IdInv
<1>2. /\ n <= Invalid /\ Invalid = MaxSize /\ Capacity \in Nat
      /\ DOMAIN entries = 0..(Capacity - 1)
      /\ firstFree \in 0..Invalid
      /\ firstFree \in DOMAIN entries \/ firstFree = Invalid
  BY IndexRange, Ends DEF IdInv, MaxSize, MaxIndex
<1>3. \A i \in DOMAIN entries : entries'[i] = entries[i]
  BY <1>1, <1>2 DEF Reserve
<1>4. ASSUME NEW i \in Capacity..(n - 1)
      PROVE  /\ i \notin DOMAIN entries /\ i \in DOMAIN entries'
             /\ entries'[i].tag = 0
             /\ i < n - 1 => entries'[i].index = i + 1
             /\ i = n - 1 => entries'[i].index = firstFree
             /\ entries'[i] \in Words
             /\ entries'[i].index # i
  <2>1. CASE i < n - 1
    <3>1. entries'[i] = [tag |-> 0, index |-> i + 1]
      BY <1>1, <1>2, <2>1 DEF Reserve
    <3> QED BY <1>1, <1>2, <2>1, <3>1 DEF Words
  <2>2. CASE i = n - 1
    <3>1. entries'[i] = [tag |-> 0, index |-> firstFree]
      BY <1>1, <1>2, <2>2 DEF Reserve
    <3> QED BY <1>1, <1>2, <2>2, <3>1 DEF Words
  <2> QED BY <2>1, <2>2
<1>5. entries' \in [0..(n - 1) -> Words]
  <2>1. \A i \in 0..(n - 1) : entries'[i] \in Words
    BY <1>2, <1>3, <1>4, IndexRange DEF IdInv
  <2> QED BY <2>1 DEF Reserve
<1>6. InUse' = InUse
  BY <1>1, <1>2, <1>3, <1>4 DEF InUse
<1> QED BY <1>1, <1>2, <1>3, <1>4, <1>5, <1>6

\* reserve keeps the invariant.
LEMMA ReserveStep ==
  ASSUME IdInv, NEW n \in 1..MaxReserve, Reserve(n)
  PROVE  IdInv'
<1>0. Shape /\ CountInv /\ TagInv /\ HandleInv
  BY DEF IdInv
<1>1. n \in 0..MaxSize /\ n \in Nat /\ n <= Invalid
  BY DEF MaxSize, MaxIndex
<1>2. Shape'
  BY <1>0, <1>1, Reserved DEF Shape, Reserve
<1>3. FreeListInv'
  <2>0. PICK len \in Nat : \E chain \in [1..len -> DOMAIN entries] :
          IsFreeList(len, chain)
    BY DEF IdInv, FreeListInv
  <2>1. PICK chain \in [1..len -> DOMAIN entries] : IsFreeList(len, chain)
    BY <2>0
  <2>2. PICK c \in Nat, new \in Nat \ {0} : c = Capacity /\ n = c + new
    <3>1. Capacity \in Nat /\ n - Capacity \in Nat \ {0}
      BY <1>0, Reserved, IndexRange
    <3> QED BY <3>1
  <2> DEFINE all == new + len
             longer == [k \in 1..all |->
                          IF k <= new THEN c + k - 1 ELSE chain[k - new]]
  <2>3. DOMAIN entries = 0..(c - 1) /\ DOMAIN entries' = 0..(n - 1)
    BY <1>0, <2>2, Reserved, IndexRange
  <2>4. longer \in [1..all -> DOMAIN entries']
    BY <2>1, <2>2, <2>3
  <2>5. IsFreeList(all, longer)'
    <3>1. \A k \in 1..new : longer[k] = c + k - 1 /\ k \in 1..all
      BY <2>2
    <3>2. \A k \in 1..len : longer[new + k] = chain[k] /\ new + k \in 1..all
      BY <2>2
    <3>3. \A k \in 1..all : k \in 1..new \/ k - new \in 1..len
      BY <2>2
    <3>4. ASSUME NEW k \in 1..all
          PROVE  entries'[longer[k]].index
                   = IF k = all THEN Invalid ELSE longer[k + 1]
      <4>1. CASE k < new
        <5>1. longer[k + 1] = c + k /\ longer[k] = c + k - 1 /\ k # all
          BY <2>2, <3>1, <4>1
        <5>2. c + k - 1 \in Capacity..(n - 1) /\ c + k - 1 < n - 1
          BY <2>2, <4>1
        <5>3. entries'[c + k - 1].index = (c + k - 1) + 1
          BY <5>2, Reserved
        <5> QED BY <5>1, <5>3
      <4>2. CASE k = new
        <5>1. longer[k] = n - 1 /\ n - 1 \in Capacity..(n - 1)
          BY <2>2, <3>1, <4>2
        <5>2. entries'[n - 1].index = firstFree
          BY <5>1, Reserved
        <5>3. len # 0 => longer[k + 1] = chain[1]
          BY <3>2, <4>2
        <5>4. k = all <=> len = 0
          BY <4>2
        <5> QED BY <2>1, <5>1, <5>2, <5>3, <5>4 DEF IsFreeList
      <4>3. CASE k > new
        <5>1. PICK j \in 1..len : k = new + j
          BY <3>3, <4>3
        <5>2. longer[k] = chain[j] /\ (j # len => longer[k + 1] = chain[j + 1])
          <6>1. j # len => j + 1 \in 1..len /\ k + 1 = new + (j + 1)
            BY <5>1
          <6> QED BY <3>2, <5>1, <6>1
        <5>3. entries'[chain[j]] = entries[chain[j]]
          BY <2>1, Reserved
        <5>4. k = all <=> j = len
          BY <5>1
        <5> QED BY <2>1, <5>2, <5>3, <5>4 DEF IsFreeList
      <4> QED BY <2>2, <4>1, <4>2, <4>3
    <3>5. firstFree' = longer[1]
      BY <2>2, <3>1 DEF Reserve
    <3>6. lastFree' = longer[all]
      <4>1. CASE len = 0
        BY <2>1, <2>2, <3>1, <4>1 DEF Reserve, IsFreeList
      <4>2. CASE len # 0
        <5>1. lastFree = chain[len] /\ lastFree # Invalid
          BY <1>0, <2>1, <4>2, IndexRange DEF IsFreeList
        <5>2. longer[all] = chain[len]
          BY <3>2, <4>2
        <5> QED BY <5>1, <5>2 DEF Reserve
      <4> QED BY <4>1, <4>2
    <3>7. \A j, k \in 1..all : longer[j] = longer[k] => j = k
      <4>1. \A k \in 1..len : chain[k] \in 0..(c - 1)
        BY <2>1, <2>3
      <4>2. \A j, k \in 1..len : chain[j] = chain[k] => j = k
        BY <2>1 DEF IsFreeList
      <4>3. SUFFICES ASSUME NEW j \in 1..all, NEW k \in 1..all,
                            longer[j] = longer[k]
                     PROVE  j = k
        OBVIOUS
      <4>4. CASE j \in 1..new /\ k \in 1..new
        BY <2>2, <3>1, <4>3, <4>4
      <4>5. CASE j \in 1..new /\ k - new \in 1..len
        <5>1. longer[k] = chain[k - new]
          BY <3>2, <4>5
        <5> QED BY <2>2, <3>1, <4>1, <4>3, <4>5, <5>1
      <4>6. CASE j - new \in 1..len /\ k \in 1..new
        <5>1. longer[j] = chain[j - new]
          BY <3>2, <4>6
        <5> QED BY <2>2, <3>1, <4>1, <4>3, <4>6, <5>1
      <4>7. CASE j - new \in 1..len /\ k - new \in 1..len
        <5>1. longer[j] = chain[j - new] /\ longer[k] = chain[k - new]
          BY <3>2, <4>7
        <5>2. j - new = k - new
          BY <4>2, <4>3, <4>7, <5>1
        <5> QED BY <5>2
      <4> QED BY <3>3, <4>4, <4>5, <4>6, <4>7
    <3>8. {longer[k] : k \in 1..all} = (DOMAIN entries') \ InUse'
      <4>1. {chain[k] : k \in 1..len} = DOMAIN entries \ InUse
        BY <2>1 DEF IsFreeList
      <4>2. InUse' = InUse /\ InUse \subseteq DOMAIN entries
        BY Reserved DEF InUse
      <4>3. ASSUME NEW k \in 1..all
            PROVE  longer[k] \in DOMAIN entries' \ InUse'
        <5>1. CASE k \in 1..new
          <6>1. longer[k] \in c..(n - 1)
            BY <2>2, <3>1, <5>1
          <6> QED BY <2>2, <2>3, <4>2, <6>1
        <5>2. CASE k - new \in 1..len
          <6>1. longer[k] = chain[k - new]
            BY <3>2, <5>2
          <6> QED BY <2>2, <2>3, <4>1, <4>2, <5>2, <6>1
        <5> QED BY <3>3, <5>1, <5>2
      <4>4. ASSUME NEW i \in DOMAIN entries' \ InUse'
            PROVE  \E k \in 1..all : longer[k] = i
        <5>1. CASE i \in DOMAIN entries
          <6>1. PICK k \in 1..len : chain[k] = i
            BY <4>1, <4>2, <4>4, <5>1
          <6> QED BY <3>2, <6>1
        <5>2. CASE i \notin DOMAIN entries
          <6>1. i - c + 1 \in 1..new /\ c + (i - c + 1) - 1 = i
            BY <2>2, <2>3, <5>2
          <6> QED BY <3>1, <6>1
        <5> QED BY <5>1, <5>2
      <4> QED BY <4>3, <4>4
    <3>9. all # 0
      BY <2>2
    <3> HIDE DEF longer, all
    <3> QED BY <3>4, <3>5, <3>6, <3>7, <3>8, <3>9 DEF IsFreeList
  <2>6. all \in Nat
    BY <2>2
  <2> HIDE DEF longer, all
  <2>7. (\E k \in Nat : \E ch \in [1..k -> DOMAIN entries] :
           IsFreeList(k, ch))'
    BY <2>4, <2>5, <2>6
  <2> QED BY <2>7 DEF FreeListInv
<1>4. CountInv'
  BY <1>0, Reserved DEF CountInv, Reserve
<1>5. TagInv'
  <2>1. Len(handles) \in Nat /\ handles' = handles
    BY <1>0 DEF Shape, Reserve
  <2>2. ASSUME NEW i \in DOMAIN entries'
        PROVE  /\ entries'[i].tag <= Len(handles)
               /\ i \in InUse' => entries'[i].tag < Len(handles)
    <3>1. CASE i \in DOMAIN entries
      BY <1>0, <3>1, Reserved DEF TagInv
    <3>2. CASE i \notin DOMAIN entries
      <4>1. i \in Capacity..(n - 1) /\ i \notin InUse'
        BY <1>0, <3>2, Reserved, IndexRange DEF InUse
      <4>2. entries'[i].tag = 0
        BY <4>1, Reserved
      <4> QED BY <2>1, <4>1, <4>2
    <3> QED BY <3>1, <3>2
  <2> QED BY <2>1, <2>2 DEF TagInv
<1>6. HandleInv'
  <2>1. /\ handles' = handles /\ InUse' = InUse
        /\ DOMAIN entries \subseteq DOMAIN entries'
        /\ \A i \in DOMAIN entries : entries'[i] = entries[i]
    <3>1. handles' = handles
      BY DEF Reserve
    <3>2. Capacity \in Nat /\ DOMAIN entries = 0..(Capacity - 1)
      BY <1>0, IndexRange
    <3>3. DOMAIN entries' = 0..(n - 1)
      BY Reserved
    <3>4. DOMAIN entries \subseteq DOMAIN entries'
      BY <3>2, <3>3, Reserved
    <3> QED BY <3>1, <3>4, Reserved
  <2> QED BY <1>0, <2>1 DEF HandleInv
<1> QED BY <1>2, <1>3, <1>4, <1>5, <1>6 DEF IdInv

-----------------------------------------------------------------------------
\* emplace.

\* What both ways of emplace do to the entry i they return the id of.
EmplacedAt(i) ==
  /\ i \in 0..(Capacity' - 1) /\ i \notin InUse
  /\ Capacity' \in 0..MaxSize
  /\ entries' \in [0..(Capacity' - 1) -> Words]
  /\ DOMAIN entries' = DOMAIN entries \cup {i}
  /\ \A j \in DOMAIN entries \ {i} : entries'[j] = entries[j]
  /\ entries'[i].index = i
  /\ entries'[i].tag = IF i \in DOMAIN entries THEN entries[i].tag ELSE 0
  /\ InUse' = InUse \cup {i}
  /\ handles' = Append(handles, entries'[i])
  /\ Len(handles) < MaxElements
  /\ size' = size + 1

\* All entries are in use, and fewer than MAX_SIZE: there is a new index.
LEMMA Grown ==
  ASSUME IdInv, Len(handles) < MaxElements, EmplaceGrow
  PROVE  EmplacedAt(Capacity)
<1>1. /\ Capacity \in Nat /\ DOMAIN entries = 0..(Capacity - 1)
      /\ InUse = DOMAIN entries
  BY IndexRange, Ends DEF EmplaceGrow, IdInv
<1>2. Capacity + 1 \in 0..MaxSize
  <2>1. Capacity = size
    BY <1>1, CapacityOf DEF IdInv, CountInv
  <2>2. Capacity <= Len(handles) /\ Len(handles) \in Nat
    BY <2>1 DEF IdInv, CountInv, Shape
  <2> QED BY <1>1, <2>2 DEF MaxSize, MaxIndex
<1>3. DOMAIN entries' = 0..Capacity /\ Capacity' = Capacity + 1
  <2>1. DOMAIN entries' = 0..((Capacity + 1) - 1)
    BY <1>1 DEF EmplaceGrow
  <2>2. Cardinality(DOMAIN entries') = Capacity + 1
    BY <1>1, <2>1, CapacityOf
  <2> QED BY <1>1, <2>1, <2>2 DEF Capacity
<1>4. /\ \A j \in DOMAIN entries : entries'[j] = entries[j]
      /\ entries'[Capacity] = [tag |-> 0, index |-> Capacity]
  BY <1>1 DEF EmplaceGrow
<1>5. entries' \in [0..(Capacity' - 1) -> Words]
  <2>1. [tag |-> 0, index |-> Capacity] \in Words
    BY <1>1, <1>2 DEF Words, MaxSize, MaxIndex
  <2>2. \A j \in 0..Capacity : entries'[j] \in Words
    BY <1>1, <1>4, <2>1, IndexRange DEF IdInv
  <2>3. entries' \in [0..Capacity -> Words]
    BY <2>2 DEF EmplaceGrow
  <2> QED BY <1>1, <1>3, <2>3
<1>6. InUse' = InUse \cup {Capacity}
  BY <1>1, <1>3, <1>4 DEF InUse
<1> QED BY <1>1, <1>2, <1>3, <1>4, <1>5, <1>6 DEF EmplacedAt, EmplaceGrow

\* The first free entry is taken as it is, but for its index.
LEMMA Reused ==
  ASSUME IdInv, Len(handles) < MaxElements, EmplaceReuse
  PROVE  EmplacedAt(firstFree)
<1>1. /\ Capacity \in 0..MaxSize /\ DOMAIN entries = 0..(Capacity - 1)
      /\ firstFree \in DOMAIN entries \ InUse
      /\ firstFree \in 0..Invalid
      /\ entries[firstFree] \in Words
  BY IndexRange, Ends DEF EmplaceReuse, IdInv, Shape
<1>2. DOMAIN entries' = DOMAIN entries /\ Capacity' = Capacity
  BY DEF EmplaceReuse, Capacity
<1>3. /\ \A j \in DOMAIN entries \ {firstFree} : entries'[j] = entries[j]
      /\ entries'[firstFree] = [entries[firstFree] EXCEPT !.index = firstFree]
  BY <1>1 DEF EmplaceReuse
<1>4. /\ entries'[firstFree].index = firstFree
      /\ entries'[firstFree].tag = entries[firstFree].tag
      /\ entries'[firstFree] \in Words
  BY <1>1, <1>3 DEF Words
<1>5. entries' \in [0..(Capacity' - 1) -> Words]
  <2>1. \A j \in DOMAIN entries : entries'[j] \in Words
    BY <1>1, <1>3, <1>4, IndexRange DEF IdInv
  <2> QED BY <1>1, <1>2, <2>1 DEF EmplaceReuse
<1>6. InUse' = InUse \cup {firstFree}
  BY <1>1, <1>2, <1>3, <1>4 DEF InUse
<1> QED BY <1>1, <1>2, <1>3, <1>4, <1>5, <1>6 DEF EmplacedAt, EmplaceReuse

\* Whichever entry it is, sizes and tags are right afterwards.
LEMMA EmplacedStep ==
  ASSUME IdInv, NEW i, EmplacedAt(i)
  PROVE  Shape' /\ CountInv' /\ TagInv' /\ HandleInv'
<1>0. Shape /\ CountInv /\ TagInv /\ HandleInv
  BY DEF IdInv
<1>1. /\ Len(handles) \in Nat /\ entries'[i] \in Words
      /\ handles' \in Seq(Words) /\ Len(handles') = Len(handles) + 1
      /\ DOMAIN handles = 1..Len(handles)
      /\ DOMAIN handles' = 1..(Len(handles) + 1)
      /\ \A m \in DOMAIN handles :
           handles'[m] = handles[m] /\ handles[m] \in Words
      /\ handles'[Len(handles) + 1] = entries'[i]
  <2>1. entries'[i] \in Words /\ handles \in Seq(Words)
    BY <1>0 DEF EmplacedAt, Shape
  <2> QED BY <2>1 DEF EmplacedAt
<1>2. Shape'
  <2>1. MaxElements \in Nat
    BY DEF MaxIndex
  <2>2. Len(handles') <= MaxElements
    BY <1>1, <2>1 DEF EmplacedAt
  <2>3. /\ Capacity' \in 0..MaxSize
        /\ entries' \in [0..(Capacity' - 1) -> Words]
    BY DEF EmplacedAt
  <2> QED BY <1>1, <2>2, <2>3 DEF Shape
<1>3. CountInv'
  <2>1. Cardinality(InUse \cup {i}) = Cardinality(InUse) + 1
    BY <1>0, IndexRange, FS_AddElement DEF EmplacedAt
  <2>2. Cardinality(InUse) \in Nat
    BY <1>0, IndexRange, FS_CardinalityType
  <2> QED BY <1>0, <1>1, <2>1, <2>2 DEF CountInv, EmplacedAt
<1>4. TagInv'
  <2>1. \A j \in DOMAIN entries : entries[j].tag \in Nat
    BY <1>0, IndexRange
  <2>2. ASSUME NEW j \in DOMAIN entries'
        PROVE  entries'[j].tag < Len(handles')
    <3>1. CASE j \in DOMAIN entries /\ j # i
      <4>1. entries'[j].tag = entries[j].tag
        BY <3>1 DEF EmplacedAt
      <4> QED BY <1>0, <1>1, <2>1, <3>1, <4>1 DEF TagInv
    <3>2. CASE j = i /\ i \in DOMAIN entries
      <4>1. entries'[j].tag = entries[i].tag
        BY <3>2 DEF EmplacedAt
      <4> QED BY <1>0, <1>1, <2>1, <3>2, <4>1 DEF TagInv
    <3>3. CASE j = i /\ i \notin DOMAIN entries
      <4>1. entries'[j].tag = 0
        BY <3>3 DEF EmplacedAt
      <4> QED BY <1>1, <4>1
    <3> QED BY <3>1, <3>2, <3>3 DEF EmplacedAt
  <2>3. ASSUME NEW j \in DOMAIN entries'
        PROVE  entries'[j].tag \in Nat
    <3>1. entries'[j] \in Words
      BY DEF EmplacedAt
    <3> QED BY <3>1 DEF Words
  <2> QED BY <1>1, <2>2, <2>3 DEF TagInv
<1>5. HandleInv'
  <2>1. ASSUME NEW m \in DOMAIN handles'
        PROVE  LET k == handles'[m].index
               IN /\ k \in DOMAIN entries'
                  /\ handles'[m].tag <= entries'[k].tag
                  /\ k \notin InUse' => handles'[m].tag < entries'[k].tag
    <3>1. CASE m \in DOMAIN handles
      <4> DEFINE k == handles[m].index
      <4>1. /\ k \in DOMAIN entries /\ handles[m].tag <= entries[k].tag
            /\ k \notin InUse => handles[m].tag < entries[k].tag
        BY <1>0, <3>1 DEF HandleInv
      <4>2. /\ k \in DOMAIN entries' /\ entries'[k].tag = entries[k].tag
            /\ k \notin InUse' => k \notin InUse
        BY <4>1 DEF EmplacedAt
      <4> QED BY <1>1, <3>1, <4>1, <4>2
    <3>2. CASE m = Len(handles) + 1
      <4>1. handles'[m] = entries'[i]
        BY <1>1, <3>2
      <4>2. entries'[i].index = i /\ i \in DOMAIN entries' /\ i \in InUse'
        BY DEF EmplacedAt
      <4>3. entries'[i].tag \in Nat
        BY <1>1 DEF Words
      <4> QED BY <4>1, <4>2, <4>3
    <3> QED BY <1>1, <3>1, <3>2
  <2>2. ASSUME NEW m \in DOMAIN handles
        PROVE  handles[m] # entries'[i]
    <3>1. /\ handles[m].index \in DOMAIN entries
          /\ handles[m].index = i => handles[m].tag < entries[i].tag
      BY <1>0 DEF HandleInv, EmplacedAt
    <3>2. handles[m].tag \in Nat /\ entries'[i].index = i
      BY <1>1, <2>2 DEF Words, EmplacedAt
    <3>3. CASE handles[m].index # i
      BY <3>2, <3>3
    <3>4. CASE handles[m].index = i
      <4>1. entries'[i].tag = entries[i].tag /\ entries[i].tag \in Nat
        BY <1>0, <3>1, <3>4, IndexRange DEF EmplacedAt
      <4> QED BY <3>1, <3>2, <3>4, <4>1
    <3> QED BY <3>3, <3>4
  <2>3. ASSUME NEW m \in DOMAIN handles', NEW n \in DOMAIN handles',
               handles'[m] = handles'[n]
        PROVE  m = n
    <3>1. CASE m \in DOMAIN handles /\ n \in DOMAIN handles
      BY <1>0, <1>1, <2>3, <3>1 DEF HandleInv
    <3>2. CASE m = Len(handles) + 1 \/ n = Len(handles) + 1
      BY <1>1, <2>2, <2>3, <3>2
    <3> QED BY <1>1, <3>1, <3>2
  <2> QED BY <2>1, <2>3 DEF HandleInv
<1> QED BY <1>2, <1>3, <1>4, <1>5

\* emplace keeps it.
LEMMA EmplaceStep ==
  ASSUME IdInv, Emplace
  PROVE  IdInv'
<1>1. CASE EmplaceGrow
  <2>1. EmplacedAt(Capacity)
    BY <1>1, Grown DEF Emplace
  <2>2. FreeListInv'
    <3>1. /\ DOMAIN entries' = InUse'
          /\ firstFree' = Invalid /\ lastFree' = Invalid
      BY <1>1, <2>1, Ends DEF EmplaceGrow, EmplacedAt
    <3>2. PICK none : none \in [1..0 -> DOMAIN entries']
      <4>1. <<>> \in [1..0 -> DOMAIN entries']
        OBVIOUS
      <4> QED BY <4>1
    <3>3. IsFreeList(0, none)'
      BY <3>1 DEF IsFreeList
    <3> QED BY <3>2, <3>3 DEF FreeListInv
  <2> QED BY <2>1, <2>2, EmplacedStep DEF IdInv
<1>2. CASE EmplaceReuse
  <2>1. EmplacedAt(firstFree)
    BY <1>2, Reused DEF Emplace
  <2>2. FreeListInv'
    <3>1. PICK len \in Nat : \E chain \in [1..len -> DOMAIN entries] :
            IsFreeList(len, chain)
      BY DEF IdInv, FreeListInv
    <3>2. PICK chain \in [1..len -> DOMAIN entries] : IsFreeList(len, chain)
      BY <3>1
    <3>3. /\ len # 0 /\ firstFree = chain[1] /\ lastFree = chain[len]
          /\ firstFree' = entries[firstFree].index
          /\ lastFree' = IF firstFree' = Invalid THEN Invalid ELSE lastFree
      BY <1>2, <3>2 DEF EmplaceReuse, IsFreeList
    <3> DEFINE rest == len - 1
               tail == [k \in 1..rest |-> chain[k + 1]]
    <3>4. rest \in Nat /\ tail \in [1..rest -> DOMAIN entries']
      BY <3>2, <3>3, <2>1 DEF EmplacedAt
    <3>5. IsFreeList(rest, tail)'
      <4>1. \A k \in 1..rest : tail[k] = chain[k + 1] /\ k + 1 \in 1..len
        BY <3>3
      <4>2. \A k \in 1..rest : tail[k] # firstFree
        BY <3>2, <3>3, <4>1 DEF IsFreeList
      <4>3. ASSUME NEW k \in 1..rest
            PROVE  entries'[tail[k]].index
                     = IF k = rest THEN Invalid ELSE tail[k + 1]
        <5>1. entries'[tail[k]] = entries[chain[k + 1]]
          BY <2>1, <3>2, <4>1, <4>2 DEF EmplacedAt
        <5>2. k # rest => tail[k + 1] = chain[(k + 1) + 1]
          BY <4>1
        <5>3. k = rest <=> k + 1 = len
          OBVIOUS
        <5> QED BY <3>2, <4>1, <5>1, <5>2, <5>3 DEF IsFreeList
      <4>4. /\ firstFree' = IF rest = 0 THEN Invalid ELSE tail[1]
            /\ lastFree' = IF rest = 0 THEN Invalid ELSE tail[rest]
        <5>0. Invalid \notin DOMAIN entries
          BY IndexRange DEF IdInv
        <5>1. CASE rest = 0
          BY <3>2, <3>3, <5>1 DEF IsFreeList
        <5>2. CASE rest # 0
          <6>1. firstFree' = chain[2] /\ tail[1] = chain[2]
            BY <3>2, <3>3, <4>1, <5>2 DEF IsFreeList
          <6>2. tail[rest] = chain[len] /\ chain[2] # Invalid
            BY <3>2, <3>3, <4>1, <5>0, <5>2
          <6> QED BY <3>3, <5>2, <6>1, <6>2
        <5> QED BY <5>1, <5>2
      <4>5. \A j, k \in 1..rest : tail[j] = tail[k] => j = k
        <5>1. SUFFICES ASSUME NEW j \in 1..rest, NEW k \in 1..rest,
                              tail[j] = tail[k]
                       PROVE  j = k
          OBVIOUS
        <5>2. j + 1 = k + 1
          BY <3>2, <4>1, <5>1 DEF IsFreeList
        <5> QED BY <5>2
      <4>6. {tail[k] : k \in 1..rest} = (DOMAIN entries') \ InUse'
        <5>1. {chain[k] : k \in 1..len} = DOMAIN entries \ InUse
          BY <3>2 DEF IsFreeList
        <5>2. /\ DOMAIN entries' = DOMAIN entries
              /\ InUse' = InUse \cup {firstFree}
          BY <1>2, <2>1 DEF EmplacedAt, EmplaceReuse
        <5>3. \A k \in 1..rest : tail[k] \in DOMAIN entries' \ InUse'
          BY <4>1, <4>2, <5>1, <5>2
        <5>4. ASSUME NEW i \in DOMAIN entries' \ InUse'
              PROVE  \E k \in 1..rest : tail[k] = i
          <6>1. PICK k \in 1..len : chain[k] = i
            BY <5>1, <5>2, <5>4
          <6>2. k # 1
            BY <3>3, <5>2, <5>4, <6>1
          <6>3. k - 1 \in 1..rest /\ tail[k - 1] = i
            BY <6>1, <6>2
          <6> QED BY <6>3
        <5> QED BY <5>3, <5>4
      <4> HIDE DEF tail, rest
      <4> QED BY <4>3, <4>4, <4>5, <4>6 DEF IsFreeList
    <3> HIDE DEF tail, rest
    <3>6. (\E k \in Nat : \E ch \in [1..k -> DOMAIN entries] :
             IsFreeList(k, ch))'
      BY <3>4, <3>5
    <3> QED BY <3>6 DEF FreeListInv
  <2> QED BY <2>1, <2>2, EmplacedStep DEF IdInv
<1> QED BY <1>1, <1>2 DEF Emplace

-----------------------------------------------------------------------------
\* erase.

\* What erase does to the entry i, and to the entry that was the last of the
\* free list, if there was one.
ErasedAt(i) ==
  /\ i \in InUse
  /\ DOMAIN entries' = DOMAIN entries /\ Capacity' = Capacity
  /\ entries' \in [DOMAIN entries -> Words]
  /\ entries'[i].tag = entries[i].tag + 1
  /\ entries'[i].index = Invalid
  /\ lastFree # Invalid =>
       /\ entries'[lastFree].tag = entries[lastFree].tag
       /\ entries'[lastFree].index = i
  /\ \A j \in DOMAIN entries \ {i, lastFree} : entries'[j] = entries[j]
  /\ InUse' = InUse \ {i}
  /\ firstFree' = IF lastFree = Invalid THEN i ELSE firstFree
  /\ lastFree' = i
  /\ size' = size - 1
  /\ handles' = handles

\* The tag does not wrap, and the last free entry bears the mark of the end, so
\* that &= sets its link to the entry erased.
LEMMA Erased ==
  ASSUME NoWrap, IdInv, NEW m \in DOMAIN handles, Erase(handles[m])
  PROVE  ErasedAt(handles[m].index)
<1> DEFINE i == handles[m].index
<1>1. /\ i \in DOMAIN entries /\ entries[i] = handles[m]
      /\ i \in InUse /\ entries[i].index = i
  BY DEF Erase, IsValid, IdInv, HandleInv, InUse
<1>2. /\ DOMAIN entries = 0..(Capacity - 1) /\ Invalid \notin DOMAIN entries
      /\ \A j \in DOMAIN entries : entries[j] \in Words
      /\ i \in 0..Invalid /\ entries[i].tag \in Nat
  BY <1>1, IndexRange DEF IdInv
<1>3. /\ DOMAIN entries' = DOMAIN entries /\ Capacity' = Capacity
      /\ size' = size - 1 /\ handles' = handles /\ lastFree' = i
      /\ firstFree' = IF lastFree = Invalid THEN i ELSE firstFree
  BY DEF Erase, Capacity
<1>4. Retagged(entries[i]) = [tag |-> entries[i].tag + 1, index |-> Invalid]
  <2>1. entries[i].tag + 1 < TagRange
    <3>1. Len(handles) \in Nat /\ MaxElements \in Nat
      BY DEF IdInv, Shape, MaxIndex
    <3>2. entries[i].tag < Len(handles)
      BY <1>1 DEF IdInv, TagInv
    <3> QED BY <1>2, <3>1, <3>2 DEF IdInv, Shape, NoWrap
  <2>2. (entries[i].tag + 1) % TagRange = entries[i].tag + 1
    <3>1. entries[i].tag + 1 \in Nat
      BY <1>2
    <3> QED BY <2>1, <3>1, TagSmall
  <2> QED BY <2>2 DEF Retagged
<1>5. [tag |-> entries[i].tag + 1, index |-> Invalid] \in Words
  <2>1. (entries[i].tag + 1) % TagRange \in 0..(TagRange - 1)
    BY <1>2
  <2>2. (entries[i].tag + 1) % TagRange = entries[i].tag + 1
    BY <1>4 DEF Retagged
  <2> QED BY <2>1, <2>2 DEF Words
<1>6. CASE lastFree = Invalid
  <2>1. entries' = [entries EXCEPT ![i] = Retagged(@)]
    BY <1>6 DEF Erase
  <2>2. /\ entries'[i] = [tag |-> entries[i].tag + 1, index |-> Invalid]
        /\ \A j \in DOMAIN entries \ {i} : entries'[j] = entries[j]
    BY <1>1, <1>4, <2>1
  <2>3. InUse' = InUse \ {i}
    BY <1>1, <1>2, <1>3, <2>2 DEF InUse
  <2>4. entries' \in [DOMAIN entries -> Words]
    BY <1>2, <1>5, <2>1, <2>2
  <2> QED BY <1>1, <1>3, <1>6, <2>2, <2>3, <2>4 DEF ErasedAt
<1>7. CASE lastFree # Invalid
  <2>1. /\ lastFree \in DOMAIN entries \ InUse /\ lastFree # i
        /\ entries[lastFree].index = Invalid
        /\ entries[lastFree] \in Words
    BY <1>1, <1>2, <1>7, Ends
  <2>2. entries' = [[entries EXCEPT ![i] = Retagged(@)]
                      EXCEPT ![lastFree] = Linked(@, i)]
    BY <1>7 DEF Erase
  <2>3. entries'[lastFree] = Linked(entries[lastFree], i)
    BY <1>1, <2>1, <2>2
  <2>4. /\ entries'[i] = [tag |-> entries[i].tag + 1, index |-> Invalid]
        /\ \A j \in DOMAIN entries \ {i, lastFree} : entries'[j] = entries[j]
    BY <1>1, <1>4, <2>1, <2>2
  <2>5. /\ Linked(entries[lastFree], i) = [entries[lastFree] EXCEPT !.index = i]
        /\ [entries[lastFree] EXCEPT !.index = i].tag = entries[lastFree].tag
        /\ [entries[lastFree] EXCEPT !.index = i].index = i
        /\ [entries[lastFree] EXCEPT !.index = i] \in Words
    BY <1>2, <2>1 DEF Linked, Words
  <2>6. InUse' = InUse \ {i}
    <3>1. entries'[i].index # i /\ entries'[lastFree].index # lastFree
      BY <1>1, <1>2, <2>1, <2>3, <2>4, <2>5
    <3>2. lastFree \notin InUse /\ lastFree \in DOMAIN entries
      BY <2>1
    <3> QED BY <1>1, <1>3, <2>4, <3>1, <3>2 DEF InUse
  <2>7. entries' \in [DOMAIN entries -> Words]
    BY <1>2, <1>5, <2>2, <2>3, <2>4, <2>5
  <2> QED BY <1>1, <1>3, <1>7, <2>3, <2>4, <2>5, <2>6, <2>7 DEF ErasedAt
<1> QED BY <1>6, <1>7

\* erase keeps it.
LEMMA EraseStep ==
  ASSUME NoWrap, IdInv, NEW m \in DOMAIN handles, Erase(handles[m])
  PROVE  IdInv'
<1>0. /\ Shape /\ CountInv /\ TagInv /\ HandleInv
      /\ DOMAIN entries = 0..(Capacity - 1) /\ Invalid \notin DOMAIN entries
      /\ \A j \in DOMAIN entries : entries[j].tag \in Nat
  BY IndexRange DEF IdInv
<1>1. PICK i \in DOMAIN entries : ErasedAt(i)
  BY Erased DEF ErasedAt, InUse
<1>2. Shape'
  BY <1>0, <1>1 DEF Shape, ErasedAt
<1>3. CountInv'
  <2>1. Cardinality(InUse \ {i}) = Cardinality(InUse) - 1
    BY <1>0, <1>1, IndexRange, FS_RemoveElement DEF ErasedAt
  <2>2. Cardinality(InUse) \in Nat /\ Len(handles) \in Nat
    BY <1>0, IndexRange, FS_CardinalityType DEF Shape
  <2> QED BY <1>0, <1>1, <2>1, <2>2 DEF CountInv, ErasedAt
<1>4. \A j \in DOMAIN entries \ {i} : entries'[j].tag = entries[j].tag
  BY <1>0, <1>1 DEF ErasedAt
<1>5. TagInv'
  <2>1. entries[i].tag < Len(handles) /\ Len(handles) \in Nat
    BY <1>0, <1>1 DEF TagInv, ErasedAt, Shape
  <2>2. ASSUME NEW j \in DOMAIN entries'
        PROVE  /\ entries'[j].tag <= Len(handles')
               /\ j \in InUse' => entries'[j].tag < Len(handles')
    <3>1. CASE j = i
      BY <1>0, <1>1, <2>1, <3>1 DEF ErasedAt
    <3>2. CASE j # i
      BY <1>0, <1>1, <1>4, <3>2 DEF ErasedAt, TagInv
    <3> QED BY <3>1, <3>2
  <2> QED BY <2>2 DEF TagInv
<1>6. HandleInv'
  <2>1. ASSUME NEW k \in DOMAIN handles
        PROVE  LET j == handles[k].index
               IN /\ j \in DOMAIN entries'
                  /\ handles[k].tag <= entries'[j].tag
                  /\ j \notin InUse' => handles[k].tag < entries'[j].tag
    <3> DEFINE j == handles[k].index
    <3>0. handles[k].tag \in Nat
      <4>1. handles[k] \in Words
        BY <1>0 DEF Shape
      <4> QED BY <4>1 DEF Words
    <3>1. /\ j \in DOMAIN entries /\ handles[k].tag <= entries[j].tag
          /\ j \notin InUse => handles[k].tag < entries[j].tag
      BY <1>0 DEF HandleInv
    <3>2. CASE j = i
      BY <1>0, <1>1, <3>0, <3>1, <3>2 DEF ErasedAt
    <3>3. CASE j # i
      BY <1>1, <1>4, <3>1, <3>3 DEF ErasedAt
    <3> QED BY <3>2, <3>3
  <2> QED BY <1>0, <1>1, <2>1 DEF HandleInv, ErasedAt
<1>7. FreeListInv'
  <2>1. PICK len \in Nat : \E chain \in [1..len -> DOMAIN entries] :
          IsFreeList(len, chain)
    BY DEF IdInv, FreeListInv
  <2>2. PICK chain \in [1..len -> DOMAIN entries] : IsFreeList(len, chain)
    BY <2>1
  <2> DEFINE all == len + 1
             longer == [k \in 1..all |-> IF k = all THEN i ELSE chain[k]]
  <2>3. longer \in [1..all -> DOMAIN entries'] /\ all \in Nat
    BY <1>1, <2>2 DEF ErasedAt
  <2>4. IsFreeList(all, longer)'
    <3>1. longer[all] = i /\ all \in 1..all
      OBVIOUS
    <3>2. \A k \in 1..len : longer[k] = chain[k] /\ k \in 1..all /\ k # all
      OBVIOUS
    <3>3. \A k \in 1..all : k = all \/ k \in 1..len
      OBVIOUS
    <3>4. {chain[k] : k \in 1..len} = DOMAIN entries \ InUse
      BY <2>2 DEF IsFreeList
    <3>5. i \in InUse /\ \A k \in 1..len : chain[k] # i
      BY <1>1, <3>4 DEF ErasedAt
    <3>6. ASSUME NEW k \in 1..all
          PROVE  entries'[longer[k]].index
                   = IF k = all THEN Invalid ELSE longer[k + 1]
      <4>1. CASE k = all
        BY <1>1, <3>1, <4>1 DEF ErasedAt
      <4>2. CASE k = len
        <5>1. chain[len] = lastFree /\ lastFree # Invalid /\ len # 0
          BY <1>0, <2>2, <4>2 DEF IsFreeList
        <5>2. entries'[chain[len]].index = i
          BY <1>1, <5>1 DEF ErasedAt
        <5> QED BY <3>1, <3>2, <4>2, <5>2
      <4>3. CASE k \in 1..len /\ k # len
        <5>1. k + 1 \in 1..len /\ len \in 1..len
          BY <4>3
        <5>2. chain[k] # chain[len] /\ lastFree = chain[len]
          BY <2>2, <4>3, <5>1 DEF IsFreeList
        <5>3. entries'[chain[k]] = entries[chain[k]]
          BY <1>1, <2>2, <3>5, <4>3, <5>2 DEF ErasedAt
        <5>4. entries[chain[k]].index = chain[k + 1]
          BY <2>2, <4>3 DEF IsFreeList
        <5>5. longer[k] = chain[k] /\ longer[k + 1] = chain[k + 1]
          BY <3>2, <4>3, <5>1
        <5> QED BY <3>2, <4>3, <5>3, <5>4, <5>5
      <4> QED BY <3>3, <4>1, <4>2, <4>3
    <3>7. firstFree' = longer[1] /\ lastFree' = longer[all]
      <4>1. CASE len = 0
        BY <1>1, <2>2, <3>1, <4>1 DEF ErasedAt, IsFreeList
      <4>2. CASE len # 0
        <5>1. firstFree = chain[1] /\ lastFree = chain[len]
              /\ lastFree # Invalid
          BY <1>0, <2>2, <4>2 DEF IsFreeList
        <5>2. longer[1] = chain[1]
          BY <3>2, <4>2
        <5> QED BY <1>1, <3>1, <5>1, <5>2 DEF ErasedAt
      <4> QED BY <4>1, <4>2
    <3>8. \A j, k \in 1..all : longer[j] = longer[k] => j = k
      <4>1. \A j, k \in 1..len : chain[j] = chain[k] => j = k
        BY <2>2 DEF IsFreeList
      <4> HIDE DEF longer, all
      <4> QED BY <3>1, <3>2, <3>3, <3>5, <4>1
    <3>9. {longer[k] : k \in 1..all} = (DOMAIN entries') \ InUse'
      <4>1. DOMAIN entries' \ InUse' = (DOMAIN entries \ InUse) \cup {i}
        BY <1>1 DEF ErasedAt
      <4> HIDE DEF longer, all
      <4>2. \A k \in 1..all : longer[k] \in DOMAIN entries' \ InUse'
        BY <3>1, <3>2, <3>3, <3>4, <4>1
      <4>3. ASSUME NEW j \in DOMAIN entries' \ InUse'
            PROVE  \E k \in 1..all : longer[k] = j
        <5>1. CASE j = i
          BY <3>1, <5>1
        <5>2. CASE j # i
          <6>1. PICK k \in 1..len : chain[k] = j
            BY <3>4, <4>1, <4>3, <5>2
          <6> QED BY <3>2, <6>1
        <5> QED BY <5>1, <5>2
      <4> QED BY <4>2, <4>3
    <3>10. all # 0
      OBVIOUS
    <3> HIDE DEF longer, all
    <3> QED BY <3>6, <3>7, <3>8, <3>9, <3>10 DEF IsFreeList
  <2> HIDE DEF longer, all
  <2>5. (\E k \in Nat : \E ch \in [1..k -> DOMAIN entries] :
           IsFreeList(k, ch))'
    BY <2>3, <2>4
  <2> QED BY <2>5 DEF FreeListInv
<1> QED BY <1>2, <1>3, <1>5, <1>6, <1>7 DEF IdInv

-----------------------------------------------------------------------------
\* Theorems.

\* Every step of the vector keeps the invariant.
LEMMA StepInv == ASSUME NoWrap PROVE IdInv /\ [Next]_vars => IdInv'
<1> SUFFICES ASSUME IdInv, [Next]_vars PROVE IdInv'
  OBVIOUS
<1>1. CASE UNCHANGED vars
  <2>1. /\ entries' = entries /\ firstFree' = firstFree
        /\ lastFree' = lastFree /\ size' = size /\ handles' = handles
    BY <1>1 DEF vars
  <2>2. Capacity' = Capacity /\ InUse' = InUse
    BY <2>1 DEF Capacity, InUse
  <2>3. FreeListInv'
    BY <2>1, <2>2 DEF IdInv, FreeListInv, IsFreeList
  <2>4. Shape' /\ CountInv' /\ TagInv' /\ HandleInv'
    BY <2>1, <2>2 DEF IdInv, Shape, CountInv, TagInv, HandleInv
  <2> QED BY <2>3, <2>4 DEF IdInv
<1>2. ASSUME NEW n \in 1..MaxReserve, Reserve(n) PROVE IdInv'
  BY <1>2, ReserveStep
<1>3. CASE Emplace
  BY <1>3, EmplaceStep
<1>4. ASSUME NEW n \in DOMAIN handles, Erase(handles[n]) PROVE IdInv'
  BY <1>4, EraseStep
<1> QED BY <1>1, <1>2, <1>3, <1>4 DEF Next

\* The free list holds exactly the entries that are not in use, whatever was
\* reserved, emplaced and erased: none leaks, and none is handed out twice.
THEOREM Invariance == ASSUME NoWrap PROVE Spec => []IdInv
<1>1. Init => IdInv
  BY InitInv
<1>2. IdInv /\ [Next]_vars => IdInv'
  BY StepInv
<1> QED BY <1>1, <1>2, PTL DEF Spec

\* size_ is never above the number of entries nor below zero.
LEMMA TypeInv == IdInv => TypeOK
<1> SUFFICES ASSUME IdInv PROVE TypeOK
  OBVIOUS
<1>1. firstFree \in 0..Invalid /\ lastFree \in 0..Invalid
  BY Ends, IndexRange DEF IdInv
<1>2. size \in 0..Capacity
  <2>1. /\ IsFiniteSet(0..(Capacity - 1))
        /\ Cardinality(0..(Capacity - 1)) = Capacity
    BY IndexRange, CapacityOf, FS_Interval DEF IdInv
  <2>2. InUse \in SUBSET (0..(Capacity - 1))
    BY IndexRange DEF IdInv, InUse
  <2>3. Cardinality(InUse) <= Capacity /\ Cardinality(InUse) \in Nat
    BY <2>1, <2>2, FS_Subset, FS_CardinalityType
  <2> QED BY <2>3, IndexRange DEF IdInv, CountInv
<1> QED BY <1>1, <1>2, IndexRange DEF IdInv, Shape, TypeOK

\* Every variable keeps its type.
THEOREM TypeCorrect == ASSUME NoWrap PROVE Spec => []TypeOK
BY TypeInv, Invariance, PTL

\* What the DCHECKs of emplace and of the destructor ask for: both ends of the
\* free list are there or neither is, and size_ counts the entries in use.
THEOREM ChecksNeverFail ==
  ASSUME NoWrap
  PROVE  Spec => [](/\ firstFree = Invalid <=> lastFree = Invalid
                    /\ CountInv)
<1>1. IdInv => (firstFree = Invalid <=> lastFree = Invalid) /\ CountInv
  BY Ends DEF IdInv
<1> QED BY <1>1, Invariance, PTL

-----------------------------------------------------------------------------
\* The vector implements the store of ids.

Valid == {n \in DOMAIN handles : IsValid(handles[n])}

\* An id is valid if its entry is as it was when the id was returned.
LEMMA ValidIs ==
  ASSUME IdInv
  PROVE  Valid = {n \in DOMAIN handles : entries[handles[n].index] = handles[n]}
<1>1. \A n \in DOMAIN handles :
        handles[n].index \in 0..(Capacity - 1) /\ Capacity \in Nat
  BY IndexRange DEF IdInv, HandleInv
<1> QED BY <1>1 DEF Valid, IsValid

\* reserve makes no id valid or invalid.
LEMMA ReserveStutters ==
  ASSUME IdInv, IdInv', NEW n \in 1..MaxReserve, Reserve(n)
  PROVE  handles' = handles /\ Valid' = Valid
<1>1. handles' = handles
  BY DEF Reserve
<1>2. \A m \in DOMAIN handles : handles[m].index \in DOMAIN entries
  BY DEF IdInv, HandleInv
<1>3. Valid' = {m \in DOMAIN handles : entries'[handles[m].index] = handles[m]}
  <2>1. \A m \in DOMAIN handles' :
          handles'[m].index \in 0..(Capacity' - 1) /\ Capacity' \in Nat
    BY DEF IdInv, HandleInv, Shape
  <2> QED BY <1>1, <2>1 DEF Valid, IsValid
<1> QED BY <1>1, <1>2, <1>3, ValidIs, Reserved

\* emplace makes the id it returns valid, and no other.
LEMMA EmplaceStores ==
  ASSUME IdInv, IdInv', Emplace
  PROVE  S!Emplace
<1>1. PICK i : EmplacedAt(i)
  BY Grown, Reused DEF Emplace
<1>2. /\ DOMAIN handles = 1..Len(handles) /\ Len(handles) \in Nat
      /\ DOMAIN handles' = DOMAIN handles \cup {Len(handles) + 1}
      /\ Len(handles') = Len(handles) + 1
      /\ \A m \in DOMAIN handles : handles'[m] = handles[m]
      /\ handles'[Len(handles) + 1] = entries'[i]
  <2>1. entries'[i] \in Words /\ handles \in Seq(Words)
    BY <1>1 DEF IdInv, Shape, EmplacedAt
  <2> QED BY <1>1, <2>1 DEF EmplacedAt
<1>3. Valid' = {m \in DOMAIN handles' :
                  entries'[handles'[m].index] = handles'[m]}
  <2>1. \A m \in DOMAIN handles' :
          handles'[m].index \in 0..(Capacity' - 1) /\ Capacity' \in Nat
    BY DEF IdInv, HandleInv, Shape
  <2> QED BY <2>1 DEF Valid, IsValid
<1>4. Len(handles) + 1 \in Valid'
  BY <1>1, <1>2, <1>3 DEF EmplacedAt
<1>5. ASSUME NEW m \in DOMAIN handles
      PROVE  entries'[handles[m].index] = handles[m]
               <=> entries[handles[m].index] = handles[m]
  <2>1. CASE handles[m].index # i
    BY <1>1, <2>1 DEF EmplacedAt, IdInv, HandleInv
  <2>2. CASE handles[m].index = i
    <3>1. /\ i \in DOMAIN entries /\ i \notin InUse
          /\ handles[m].tag < entries[i].tag
          /\ entries[i].tag \in Nat
      BY <1>1, <2>2, IndexRange DEF EmplacedAt, IdInv, HandleInv
    <3>2. handles[m] # entries[i]
      BY <2>2, <3>1 DEF InUse
    <3>3. handles[m].tag \in Nat
      <4>1. handles[m] \in Words
        BY DEF IdInv, Shape
      <4> QED BY <4>1 DEF Words
    <3>4. handles[m] # entries'[i]
      BY <1>1, <3>1, <3>3 DEF EmplacedAt
    <3> QED BY <2>2, <3>2, <3>4
  <2> QED BY <2>1, <2>2
<1>6. Valid' = Valid \cup {Len(handles) + 1}
  BY <1>2, <1>3, <1>4, <1>5, ValidIs
<1> QED BY <1>2, <1>6 DEF S!Emplace, Valid

\* erase makes the id it is given invalid, and no other.
LEMMA EraseRemoves ==
  ASSUME NoWrap, IdInv, IdInv', NEW n \in DOMAIN handles, Erase(handles[n])
  PROVE  n \in Valid /\ S!Erase(n)
<1> DEFINE i == handles[n].index
<1>1. ErasedAt(i) /\ n \in Valid /\ entries[i] = handles[n]
  BY Erased DEF Erase, IsValid, Valid
<1>2. Valid' = {m \in DOMAIN handles : entries'[handles[m].index] = handles[m]}
  <2>1. \A m \in DOMAIN handles' :
          handles'[m].index \in 0..(Capacity' - 1) /\ Capacity' \in Nat
    BY DEF IdInv, HandleInv, Shape
  <2> QED BY <1>1, <2>1 DEF Valid, IsValid, ErasedAt
<1>3. ASSUME NEW m \in DOMAIN handles, m # n
      PROVE  entries'[handles[m].index] = handles[m]
               <=> entries[handles[m].index] = handles[m]
  <2> DEFINE j == handles[m].index
  <2>1. /\ j \in DOMAIN entries /\ handles[m] # handles[n]
        /\ handles[m].tag <= entries[j].tag
    BY <1>3 DEF IdInv, HandleInv
  <2>2. CASE j = i
    <3>1. entries'[i].tag = entries[i].tag + 1 /\ entries[i].tag \in Nat
      BY <1>1, <2>1, <2>2, IndexRange DEF ErasedAt, IdInv
    <3>2. handles[m].tag \in Nat
      <4>1. handles[m] \in Words
        BY DEF IdInv, Shape
      <4> QED BY <4>1 DEF Words
    <3>3. entries'[i] # handles[m]
      BY <2>1, <2>2, <3>1, <3>2
    <3> QED BY <1>1, <2>1, <2>2, <3>3
  <2>3. CASE j # i /\ j = lastFree
    <3>1. /\ lastFree # Invalid /\ entries'[j].index = i
          /\ entries[j].index = Invalid /\ j # Invalid
      BY <1>1, <2>1, <2>3, Ends, IndexRange DEF ErasedAt, IdInv
    <3> QED BY <2>3, <3>1
  <2>4. CASE j # i /\ j # lastFree
    BY <1>1, <2>1, <2>4 DEF ErasedAt
  <2> QED BY <2>2, <2>3, <2>4
<1>4. entries'[i] # handles[n]
  <2>1. entries[i].index = i /\ entries'[i].index = Invalid /\ i # Invalid
    BY <1>1, IndexRange DEF ErasedAt, InUse, IdInv
  <2> QED BY <1>1, <2>1
<1>5. Valid' = Valid \ {n}
  BY <1>2, <1>3, <1>4, ValidIs
<1>6. Len(handles') = Len(handles)
  BY <1>1 DEF ErasedAt
<1> QED BY <1>1, <1>5, <1>6 DEF S!Erase, Valid

\* is_valid_id is true of an id from its emplace to its erase, whatever was
\* stored and erased since: every step of the vector is a step of the store.
THEOREM StoreImplemented == ASSUME NoWrap PROVE Spec => ImplementsStore
<1>1. Init => S!Init
  BY DEF Init, S!Init
<1>2. IdInv /\ IdInv' /\ [Next]_vars =>
        [S!Next]_<<Len(handles),
                   {n \in DOMAIN handles : IsValid(handles[n])}>>
  <2> SUFFICES ASSUME IdInv, IdInv', [Next]_vars
               PROVE  S!Next \/ (Len(handles') = Len(handles) /\ Valid' = Valid)
    BY DEF Valid
  <2>1. CASE UNCHANGED vars
    BY <2>1 DEF vars, Valid, IsValid, Capacity
  <2>2. ASSUME NEW n \in 1..MaxReserve, Reserve(n)
        PROVE  Len(handles') = Len(handles) /\ Valid' = Valid
    BY <2>2, ReserveStutters
  <2>3. CASE Emplace
    BY <2>3, EmplaceStores DEF S!Next
  <2>4. ASSUME NEW n \in DOMAIN handles, Erase(handles[n]) PROVE S!Next
    BY <2>4, EraseRemoves DEF S!Next, Valid
  <2> QED BY <2>1, <2>2, <2>3, <2>4 DEF Next
<1> QED BY <1>1, <1>2, Invariance, PTL DEF Spec, ImplementsStore, S!Spec
-----------------------------------------------------------------------------
\* The free list as the run computes it.

\* Induction along the numbers up to n: a set that holds zero and the successors
\* of its elements holds them all.  The numbers it lacked could be mapped to
\* their predecessors, which are as many, but not the largest of them.
LEMMA SetInduction ==
  ASSUME NEW n \in Nat, NEW Reached, 0 \in Reached,
         \A k \in 0..(n - 1) : k \in Reached => k + 1 \in Reached
  PROVE  0..n \subseteq Reached
<1> SUFFICES ASSUME NEW m \in 0..n, m \notin Reached PROVE FALSE
  OBVIOUS
<1> DEFINE Left == {k \in 0..m : k \notin Reached}
           before == [k \in Left |-> k - 1]
<1>1. IsFiniteSet(Left) /\ IsFiniteSet(Left \ {m})
  <2>1. IsFiniteSet(0..m)
    BY FS_Interval
  <2> QED BY <2>1, FS_Subset
<1>2. before \in Injection(Left, Left \ {m})
  <2>1. \A k \in Left : k - 1 \in Left \ {m}
    OBVIOUS
  <2>2. before \in [Left -> Left \ {m}]
    BY <2>1
  <2>3. \A j, k \in Left : before[j] = before[k] => j = k
    OBVIOUS
  <2> QED BY <2>2, <2>3 DEF Injection, IsInjective
<1>3. Cardinality(Left) <= Cardinality(Left \ {m})
  BY <1>1, <1>2, FS_Injection
<1>4. m \in Left
  OBVIOUS
<1> HIDE DEF Left
<1>5. Cardinality(Left \ {m}) = Cardinality(Left) - 1 /\ Cardinality(Left) \in Nat
  BY <1>1, <1>4, FS_RemoveElement, FS_CardinalityType
<1> QED BY <1>3, <1>5

\* The first m values of a free list of n entries and of the mark of its end.
Prefix(n, chain, m) == [j \in 1..m |-> IF j <= n THEN chain[j] ELSE Invalid]

\* One step further along the list.
LEMMA PrefixGrows ==
  ASSUME IdInv, NEW n \in Nat, NEW chain \in [1..n -> DOMAIN entries],
         IsFreeList(n, chain), NEW m \in 1..(n + 1)
  PROVE  /\ Prefix(n, chain, m) \in Seq(0..Invalid)
         /\ Len(Prefix(n, chain, m)) = m
         /\ m = n + 1 => Last(Prefix(n, chain, m)) = Invalid
         /\ m <= n =>
              /\ Last(Prefix(n, chain, m)) # Invalid
              /\ Append(Prefix(n, chain, m),
                        entries[Last(Prefix(n, chain, m))].index)
                   = Prefix(n, chain, m + 1)
<1> DEFINE here == Prefix(n, chain, m)
<1>1. \A i \in DOMAIN entries : i \in 0..Invalid /\ i # Invalid
  BY IndexRange DEF IdInv
<1>2. /\ here \in [1..m -> 0..Invalid]
      /\ here[m] = IF m <= n THEN chain[m] ELSE Invalid
  BY <1>1 DEF Prefix
<1>3. here \in Seq(0..Invalid) /\ Len(here) = m /\ Last(here) = here[m]
  BY <1>2 DEF Last
<1>4. ASSUME m <= n
      PROVE  Last(here) # Invalid /\ entries[Last(here)].index
               = IF m + 1 <= n THEN chain[m + 1] ELSE Invalid
  BY <1>1, <1>2, <1>3, <1>4 DEF IsFreeList
<1>5. ASSUME m <= n
      PROVE  Append(here, entries[Last(here)].index) = Prefix(n, chain, m + 1)
  <2>1. PICK link : link = entries[Last(here)].index
    OBVIOUS
  <2>2. link = IF m + 1 <= n THEN chain[m + 1] ELSE Invalid
    BY <1>4, <1>5, <2>1
  <2>3. link \in 0..Invalid
    <3>1. m + 1 <= n => chain[m + 1] \in DOMAIN entries
      OBVIOUS
    <3> QED BY <1>1, <2>2, <3>1
  <2>4. /\ Append(here, link) \in Seq(0..Invalid)
        /\ Len(Append(here, link)) = m + 1
        /\ \A j \in 1..m : Append(here, link)[j] = here[j]
        /\ Append(here, link)[m + 1] = link
    BY <1>3, <2>3, AppendProperties
  <2>5. \A j \in 1..(m + 1) :
          Append(here, link)[j] = IF j <= n THEN chain[j] ELSE Invalid
    BY <2>2, <2>4 DEF Prefix
  <2>6. Append(here, link) \in [1..(m + 1) -> 0..Invalid]
    BY <2>4, LenProperties
  <2>7. Append(here, link) = Prefix(n, chain, m + 1)
    BY <2>5, <2>6 DEF Prefix
  <2> QED BY <2>1, <2>7
<1> QED BY <1>2, <1>3, <1>4, <1>5

\* Followed is what following the free list gives: after k steps its first k + 1
\* values, after the last one the whole list and the mark.
LEMMA FollowedIs ==
  ASSUME IdInv, NEW n \in Nat, NEW chain \in [1..n -> DOMAIN entries],
         IsFreeList(n, chain)
  PROVE  \A k \in 0..Capacity :
           Followed[k] = Prefix(n, chain, IF k < n THEN k + 1 ELSE n + 1)
<1> DEFINE upTo(k) == IF k < n THEN k + 1 ELSE n + 1
           Steps(f) == f = [k \in 0..Capacity |->
             IF k = 0 THEN <<firstFree>>
             ELSE LET before == f[k - 1]
                  IN IF Last(before) = Invalid THEN before
                     ELSE Append(before, entries[Last(before)].index)]
           right == [k \in 0..Capacity |-> Prefix(n, chain, upTo(k))]
<1>1. Capacity \in Nat
  BY IndexRange DEF IdInv
<1>2. Prefix(n, chain, 1) = <<firstFree>>
  <2>1. firstFree = IF 1 <= n THEN chain[1] ELSE Invalid
    BY DEF IsFreeList
  <2>2. firstFree \in 0..Invalid
    BY Ends, IndexRange DEF IdInv
  <2>3. <<firstFree>> \in Seq(0..Invalid) /\ Len(<<firstFree>>) = 1
        /\ <<firstFree>>[1] = firstFree
    BY <2>2
  <2>4. /\ Prefix(n, chain, 1) \in Seq(0..Invalid)
        /\ Len(Prefix(n, chain, 1)) = 1
    <3>1. 1 \in 1..(n + 1)
      OBVIOUS
    <3> QED BY <3>1, PrefixGrows
  <2>5. Prefix(n, chain, 1)[1] = firstFree
    BY <2>1 DEF Prefix
  <2> QED BY <2>3, <2>4, <2>5, SeqEqual
<1>3. ASSUME NEW k \in 0..Capacity, k # 0
      PROVE  LET before == Prefix(n, chain, upTo(k - 1))
             IN Prefix(n, chain, upTo(k))
                  = IF Last(before) = Invalid THEN before
                    ELSE Append(before, entries[Last(before)].index)
  <2>1. upTo(k - 1) \in 1..(n + 1)
    BY <1>1, <1>3
  <2>2. CASE upTo(k - 1) = n + 1
    <3>1. upTo(k) = n + 1
      BY <1>1, <1>3, <2>2
    <3>2. Last(Prefix(n, chain, n + 1)) = Invalid
      BY <2>1, <2>2, PrefixGrows
    <3> QED BY <2>2, <3>1, <3>2
  <2>3. CASE upTo(k - 1) <= n
    <3>1. upTo(k) = upTo(k - 1) + 1
      BY <1>1, <1>3, <2>3
    <3>2. PICK m \in 1..(n + 1) : m = upTo(k - 1)
      BY <2>1
    <3>3. /\ Last(Prefix(n, chain, m)) # Invalid
          /\ Append(Prefix(n, chain, m),
                    entries[Last(Prefix(n, chain, m))].index)
               = Prefix(n, chain, m + 1)
      BY <2>3, <3>2, PrefixGrows
    <3> QED BY <3>1, <3>2, <3>3
  <2> QED BY <2>1, <2>2, <2>3
<1> HIDE DEF upTo
<1>4. Steps(right)
  BY <1>1, <1>2, <1>3 DEF upTo
<1>5. Steps(Followed)
  <2> HIDE DEF right, Steps
  <2>1. Steps(CHOOSE f : Steps(f))
    BY <1>4
  <2> QED BY <2>1 DEF Steps, Followed
<1> DEFINE Agree == {k \in 0..Capacity : Followed[k] = right[k]}
<1>6. 0 \in Agree
  <2>1. 0 \in 0..Capacity
    BY <1>1
  <2>2. Followed[0] = <<firstFree>>
    BY <1>5, <2>1
  <2>3. right[0] = <<firstFree>>
    BY <1>2, <2>1 DEF upTo
  <2> QED BY <2>1, <2>2, <2>3
<1>7. ASSUME NEW k \in 0..(Capacity - 1), k \in Agree PROVE k + 1 \in Agree
  <2>1. k + 1 \in 0..Capacity /\ k + 1 # 0 /\ (k + 1) - 1 = k
    BY <1>1
  <2>2. PICK before : before = Followed[k]
    OBVIOUS
  <2>3. Followed[k + 1] = IF Last(before) = Invalid THEN before
                          ELSE Append(before, entries[Last(before)].index)
    BY <1>5, <2>1, <2>2
  <2>4. right[k + 1] = IF Last(before) = Invalid THEN before
                       ELSE Append(before, entries[Last(before)].index)
    BY <1>4, <1>7, <2>1, <2>2
  <2> QED BY <2>1, <2>3, <2>4
<1>8. 0..Capacity \subseteq Agree
  <2> HIDE DEF Agree
  <2> QED BY <1>1, <1>6, <1>7, SetInduction
<1> QED BY <1>8 DEF upTo

\* A free list is no longer than there are entries, so that FreeChain holds it
\* and the mark of its end.
LEMMA FreeChainIs ==
  ASSUME IdInv, NEW n \in Nat, NEW chain \in [1..n -> DOMAIN entries],
         IsFreeList(n, chain)
  PROVE  /\ FreeChain = Prefix(n, chain, n + 1)
         /\ Len(FreeChain) = n + 1
         /\ Last(FreeChain) = Invalid
         /\ Len(Front(FreeChain)) = n
         /\ \A k \in 1..n : Front(FreeChain)[k] = chain[k]
<1>1. n <= Capacity /\ Capacity \in Nat
  <2>1. Cardinality(1..n) = n /\ IsFiniteSet(1..n)
    BY FS_Interval
  <2>2. chain \in Injection(1..n, DOMAIN entries)
    <3>1. \A j, k \in 1..n : chain[j] = chain[k] => j = k
      BY DEF IsFreeList
    <3>2. DOMAIN chain = 1..n
      OBVIOUS
    <3>3. IsInjective(chain)
      BY <3>1, <3>2 DEF IsInjective
    <3> QED BY <3>3 DEF Injection
  <2>3. IsFiniteSet(DOMAIN entries) /\ Capacity \in Nat
    <3>1. DOMAIN entries = 0..(Capacity - 1) /\ Capacity \in Nat
      BY IndexRange DEF IdInv
    <3> QED BY <3>1, FS_Interval
  <2>4. Cardinality(1..n) <= Cardinality(DOMAIN entries)
    BY <2>1, <2>2, <2>3, FS_Injection
  <2> QED BY <2>1, <2>3, <2>4 DEF Capacity
<1>2. FreeChain = Prefix(n, chain, n + 1)
  BY <1>1, FollowedIs DEF FreeChain
<1>3. PICK whole : whole = Prefix(n, chain, n + 1)
  OBVIOUS
<1>4. whole \in Seq(0..Invalid) /\ Len(whole) = n + 1 /\ Last(whole) = Invalid
  <2>1. n + 1 \in 1..(n + 1)
    OBVIOUS
  <2> QED BY <1>3, <2>1, PrefixGrows
<1>5. \A k \in 1..n : whole[k] = chain[k]
  BY <1>3 DEF Prefix
<1>6. Len(Front(whole)) = n /\ \A k \in 1..n : Front(whole)[k] = whole[k]
  BY <1>4 DEF Front
<1> QED BY <1>2, <1>3, <1>4, <1>5, <1>6

\* IsFreeList asks for nothing but the first n values.
LEMMA SameList ==
  ASSUME NEW n \in Nat, NEW chain, NEW other, IsFreeList(n, chain),
         \A k \in 1..n : other[k] = chain[k]
  PROVE  IsFreeList(n, other)
<1>1. \A k \in 1..n : k # n => k + 1 \in 1..n
  OBVIOUS
<1>2. n # 0 => 1 \in 1..n /\ n \in 1..n
  OBVIOUS
<1>3. {other[k] : k \in 1..n} = {chain[k] : k \in 1..n}
  OBVIOUS
<1> QED BY <1>1, <1>2, <1>3 DEF IsFreeList

\* The list that starts at first_free_ ends, at last_free_, and holds every
\* entry that is not in use; size_ counts the others.  None leaks, whatever was
\* reserved, emplaced and erased.
THEOREM NoEntryLeaks == ASSUME NoWrap PROVE Spec => []EntriesAccounted
<1>1. ASSUME IdInv PROVE EntriesAccounted
  <2>1. PICK n \in Nat : \E chain \in [1..n -> DOMAIN entries] :
          IsFreeList(n, chain)
    BY <1>1 DEF IdInv, FreeListInv
  <2>2. PICK chain \in [1..n -> DOMAIN entries] : IsFreeList(n, chain)
    BY <2>1
  <2>3. /\ Last(FreeChain) = Invalid
        /\ Len(Front(FreeChain)) = n
        /\ \A k \in 1..n : Front(FreeChain)[k] = chain[k]
    BY <1>1, <2>2, FreeChainIs
  <2>4. IsFreeList(Len(Front(FreeChain)), Front(FreeChain))
    BY <2>2, <2>3, SameList
  <2> QED BY <1>1, <2>3, <2>4, TypeInv DEF EntriesAccounted, IdInv
<1> QED BY <1>1, Invariance, PTL
=============================================================================
