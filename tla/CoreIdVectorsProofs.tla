-------------------------- MODULE CoreIdVectorsProofs --------------------------
(***************************************************************************)
(* What is proved of the stable vector by itself holds of the one that     *)
(* runs beside the dense vector, and the dense vector gives out the same   *)
(* ids and finds its elements, wherever it moved them.                     *)
(***************************************************************************)
EXTENDS CoreIdVectors, StableIdVectorProofs

USE BitsAssumption, TagAssumption, InvalidAssumption, BoundsAssumption

-----------------------------------------------------------------------------
\* The stable vector beside the dense one.

\* The dense vector does not disturb the stable one: each step of both is a step
\* of the stable vector or leaves it alone.
LEMMA StableSteps == BothSpec => Spec
<1>1. BothInit => Init
  BY DEF BothInit
<1>2. [BothNext]_bothVars => [Next]_vars
  BY DEF BothNext, BothReserve, BothEmplace, BothErase, bothVars, Next
<1> QED BY <1>1, <1>2, PTL DEF BothSpec, Spec

\* An id is valid from its emplace to its erase.
THEOREM BothImplementStore == ASSUME NoWrap PROVE BothSpec => ImplementsStore
BY StableSteps, StoreImplemented

-----------------------------------------------------------------------------
\* The invariant of the dense vector.

\* Its ids and its free list are those of the stable vector.
Same ==
  /\ denseHandles = handles /\ denseFirst = firstFree /\ denseLast = lastFree
  /\ outerToIndex \in [DOMAIN entries -> Words]
  /\ \A i \in DOMAIN entries : outerToIndex[i].tag = entries[i].tag
  /\ \A i \in DOMAIN entries \ InUse : outerToIndex[i] = entries[i]

\* Entries in use and places lead to each other, and the element at a place is
\* the one its entry was made for.
Tables ==
  /\ indexToOuter \in Seq(DOMAIN entries) /\ Len(indexToOuter) = size
  /\ elements \in Seq(DOMAIN handles) /\ Len(elements) = size
  /\ \A i \in InUse : /\ outerToIndex[i].index \in 0..(size - 1)
                      /\ indexToOuter[outerToIndex[i].index + 1] = i
  /\ \A p \in 1..size : /\ indexToOuter[p] \in InUse
                        /\ outerToIndex[indexToOuter[p]].index = p - 1
                        /\ handles[elements[p]] = entries[indexToOuter[p]]

BothInv == IdInv /\ Same /\ Tables

-----------------------------------------------------------------------------
\* The words of the dense vector are those of the stable one.
LEMMA Words2 ==
  /\ Dense!Invalid = Invalid
  /\ Dense!Words = Words
  /\ \A w : Dense!Retagged(w) = Retagged(w)
  /\ \A w, j : w.index = Invalid => Dense!Linked(w, j) = Linked(w, j)
<1>1. Dense!Invalid = Invalid
  BY DEF Dense!Invalid, Invalid
<1> QED BY <1>1 DEF Dense!Words, Words, Dense!Retagged, Retagged,
                    Dense!Linked, Linked

\* Both sizes are the number of ids in use.
LEMMA SizeIs == ASSUME DOMAIN outerToIndex = DOMAIN entries
                PROVE  Dense!Size = Capacity
<1>1. Dense!Cardinality(DOMAIN entries) = Cardinality(DOMAIN entries)
  BY Zenon DEF Dense!Cardinality, Cardinality
<1> QED BY <1>1 DEF Dense!Size, Capacity

\* size_ is between zero and the number of entries.
LEMMA SizeRange == ASSUME IdInv
                   PROVE  size \in 0..Invalid /\ Invalid \in Nat
<1>1. size \in 0..Capacity
  BY TypeInv DEF TypeOK
<1>2. Capacity \in 0..Invalid
  BY DEF IdInv, Shape, MaxSize, MaxIndex
<1> QED BY <1>1, <1>2

\* Two empty vectors satisfy the invariant.
LEMMA BothInitInv == BothInit => BothInv
<1> SUFFICES ASSUME BothInit PROVE BothInv
  OBVIOUS
<1>1. IdInv
  BY InitInv DEF BothInit
<1>2. /\ entries = <<>> /\ DOMAIN entries = {} /\ InUse = {}
      /\ handles = <<>> /\ size = 0
  BY DEF BothInit, Init, InUse
<1>3. Same /\ Tables
  BY <1>2, Words2 DEF BothInit, Init, Dense!Init, Same, Tables
<1> QED BY <1>1, <1>3 DEF BothInv

-----------------------------------------------------------------------------
\* reserve keeps it.
LEMMA BothReserveStep ==
  ASSUME BothInv, IdInv', NEW n \in 1..MaxReserve, BothReserve(n)
  PROVE  BothInv'
<1>0. IdInv /\ Same /\ Tables /\ Reserve(n) /\ Dense!ReserveIds(n)
  BY DEF BothInv, BothReserve
<1>1. /\ DOMAIN outerToIndex = DOMAIN entries /\ Dense!Size = Capacity
      /\ DOMAIN entries = 0..(Capacity - 1) /\ Capacity \in Nat
      /\ DOMAIN entries' = 0..(n - 1)
      /\ DOMAIN entries \subseteq DOMAIN entries'
  <2>1. DOMAIN outerToIndex = DOMAIN entries
    BY <1>0 DEF Same
  <2>2. DOMAIN entries = 0..(Capacity - 1) /\ Capacity \in Nat
    BY <1>0, IndexRange DEF IdInv
  <2>3. DOMAIN entries' = 0..(n - 1) /\ Capacity < n
    BY <1>0, Reserved
  <2> QED BY <2>1, <2>2, <2>3, SizeIs
<1>2. \A i \in DOMAIN entries : outerToIndex'[i] = outerToIndex[i]
  BY <1>0, <1>1 DEF Dense!ReserveIds
<1>3. ASSUME NEW i \in Capacity..(n - 1)
      PROVE  outerToIndex'[i] = entries'[i]
  <2>1. CASE i < n - 1
    <3>1. entries'[i] = [tag |-> 0, index |-> i + 1]
      BY <1>0, <1>1, <2>1 DEF Reserve
    <3>2. outerToIndex'[i] = [tag |-> 0, index |-> i + 1]
      BY <1>0, <1>1, <2>1 DEF Dense!ReserveIds
    <3> QED BY <3>1, <3>2
  <2>2. CASE i = n - 1
    <3>1. entries'[i] = [tag |-> 0, index |-> firstFree]
      BY <1>0, <1>1, <2>2 DEF Reserve
    <3>2. outerToIndex'[i] = [tag |-> 0, index |-> denseFirst]
      BY <1>0, <1>1, <2>2 DEF Dense!ReserveIds
    <3> QED BY <1>0, <3>1, <3>2 DEF Same
  <2> QED BY <2>1, <2>2
<1>4. \A i \in DOMAIN entries' : i \in DOMAIN entries \/ i \in Capacity..(n - 1)
  BY <1>1
<1>5. Same'
  <2>1. \A i \in DOMAIN entries' : outerToIndex'[i] \in Words
    <3>1. \A i \in DOMAIN entries' : entries'[i] \in Words
      BY <1>0, Reserved
    <3> QED BY <1>0, <1>2, <1>3, <1>4, <3>1 DEF Same
  <2>2. outerToIndex' \in [DOMAIN entries' -> Words]
    BY <1>0, <1>1, <2>1 DEF Dense!ReserveIds
  <2>3. /\ InUse' = InUse
        /\ \A i \in DOMAIN entries : entries'[i] = entries[i]
    BY <1>0, Reserved
  <2>4. \A i \in DOMAIN entries' : outerToIndex'[i].tag = entries'[i].tag
    BY <1>0, <1>2, <1>3, <1>4, <2>3 DEF Same
  <2>5. \A i \in DOMAIN entries' \ InUse' : outerToIndex'[i] = entries'[i]
    BY <1>0, <1>2, <1>3, <1>4, <2>3 DEF Same
  <2>6. /\ denseHandles' = handles' /\ denseFirst' = firstFree'
        /\ denseLast' = lastFree'
    BY <1>0, <1>1, Words2 DEF Same, Reserve, Dense!ReserveIds
  <2> QED BY <2>2, <2>4, <2>5, <2>6 DEF Same
<1>6. Tables'
  <2>1. /\ indexToOuter' = indexToOuter /\ elements' = elements
        /\ size' = size /\ handles' = handles /\ InUse' = InUse
        /\ \A i \in DOMAIN entries : entries'[i] = entries[i]
    BY <1>0, Reserved DEF Reserve, Dense!ReserveIds
  <2>2. InUse \subseteq DOMAIN entries
    BY DEF InUse
  <2>3. indexToOuter \in Seq(DOMAIN entries')
    BY <1>0, <1>1 DEF Tables
  <2> QED BY <1>0, <1>2, <2>1, <2>2, <2>3 DEF Tables
<1> QED BY <1>5, <1>6 DEF BothInv

-----------------------------------------------------------------------------
\* emplace.

\* What create_id and emplace of the dense vector do with the entry i.
DenseEmplacedAt(i) ==
  /\ outerToIndex' \in [DOMAIN entries \cup {i} -> Words]
  /\ \A j \in DOMAIN entries \ {i} : outerToIndex'[j] = outerToIndex[j]
  /\ outerToIndex'[i].index = size
  /\ outerToIndex'[i].tag = IF i \in DOMAIN entries THEN entries[i].tag ELSE 0
  /\ elements' = Append(elements, Len(handles) + 1)
  /\ indexToOuter' = Append(indexToOuter, i)
  /\ denseHandles' = Append(handles, [tag |-> outerToIndex'[i].tag,
                                      index |-> i])

\* The tables of the dense vector when emplace takes a new entry.
LEMMA DenseGrown ==
  ASSUME BothInv, lastFree = Invalid, Dense!Emplace
  PROVE  DenseEmplacedAt(Capacity) /\ UNCHANGED <<denseFirst, denseLast>>
<1>0. IdInv /\ Same /\ Tables
  BY DEF BothInv
<1>1. /\ DOMAIN outerToIndex = DOMAIN entries /\ Dense!Size = Capacity
      /\ DOMAIN entries = 0..(Capacity - 1) /\ Capacity \in Nat
      /\ denseHandles = handles /\ Len(elements) = size
      /\ size \in 0..Invalid /\ denseLast = Invalid
  <2>1. DOMAIN outerToIndex = DOMAIN entries
    BY <1>0 DEF Same
  <2>2. DOMAIN entries = 0..(Capacity - 1) /\ Capacity \in Nat
    BY <1>0, IndexRange DEF IdInv
  <2> QED BY <1>0, <2>1, <2>2, SizeIs, SizeRange DEF Same, Tables
<1>2. PICK i : /\ Dense!CreateIdGrow(i) \/ Dense!CreateIdReuse(i)
               /\ elements' = Append(elements, Len(denseHandles) + 1)
               /\ indexToOuter' = Append(indexToOuter, i)
               /\ denseHandles' = Append(denseHandles,
                                         [tag |-> outerToIndex'[i].tag,
                                          index |-> i])
  BY DEF Dense!Emplace
<1>3. Dense!CreateIdGrow(i) /\ i = Capacity
  BY <1>1, <1>2, Words2 DEF Dense!CreateIdGrow, Dense!CreateIdReuse
<1>4. outerToIndex' = [j \in 0..Capacity |->
                         IF j < Capacity THEN outerToIndex[j]
                         ELSE [tag |-> 0, index |-> size]]
  BY <1>1, <1>3 DEF Dense!CreateIdGrow
<1>5. /\ 0..Capacity = DOMAIN entries \cup {Capacity}
      /\ Capacity \notin DOMAIN entries
  BY <1>1
<1>6. /\ \A j \in DOMAIN entries : outerToIndex'[j] = outerToIndex[j]
      /\ outerToIndex'[Capacity] = [tag |-> 0, index |-> size]
  BY <1>1, <1>4
<1>7. [tag |-> 0, index |-> size] \in Words
  BY <1>1 DEF Words
<1>8. UNCHANGED <<denseFirst, denseLast>>
  BY <1>3 DEF Dense!CreateIdGrow
<1>9. outerToIndex' \in [DOMAIN entries \cup {Capacity} -> Words]
  <2>1. \A j \in DOMAIN entries : outerToIndex[j] \in Words
    BY <1>0 DEF Same
  <2>2. \A j \in 0..Capacity : outerToIndex'[j] \in Words
    BY <1>5, <1>6, <1>7, <2>1
  <2>3. outerToIndex' \in [0..Capacity -> Words]
    BY <1>4, <2>2
  <2> QED BY <1>5, <2>3
<1> QED BY <1>1, <1>2, <1>3, <1>5, <1>6, <1>8, <1>9 DEF DenseEmplacedAt

\* The same when emplace reuses a free entry.
LEMMA DenseReused ==
  ASSUME BothInv, lastFree # Invalid, Dense!Emplace
  PROVE  /\ DenseEmplacedAt(firstFree)
         /\ denseFirst' = entries[firstFree].index
         /\ denseLast' = IF denseFirst' = Invalid THEN Invalid ELSE lastFree
<1>0. IdInv /\ Same /\ Tables
  BY DEF BothInv
<1>1. /\ DOMAIN outerToIndex = DOMAIN entries
      /\ denseHandles = handles /\ Len(elements) = size
      /\ size \in 0..Invalid
      /\ denseLast = lastFree /\ denseFirst = firstFree
      /\ firstFree \in DOMAIN entries
      /\ outerToIndex[firstFree] = entries[firstFree]
      /\ outerToIndex[firstFree] \in Words
  <2>1. firstFree \in DOMAIN entries \ InUse
    BY <1>0, Ends
  <2> QED BY <1>0, <2>1, SizeRange DEF Same, Tables
<1>2. PICK i : /\ Dense!CreateIdGrow(i) \/ Dense!CreateIdReuse(i)
               /\ elements' = Append(elements, Len(denseHandles) + 1)
               /\ indexToOuter' = Append(indexToOuter, i)
               /\ denseHandles' = Append(denseHandles,
                                         [tag |-> outerToIndex'[i].tag,
                                          index |-> i])
  BY DEF Dense!Emplace
<1>3. Dense!CreateIdReuse(i) /\ i = firstFree
  BY <1>1, <1>2, Words2 DEF Dense!CreateIdGrow, Dense!CreateIdReuse
<1>4. outerToIndex' = [outerToIndex EXCEPT ![firstFree].index = size]
  BY <1>1, <1>3 DEF Dense!CreateIdReuse
<1>5. /\ \A j \in DOMAIN entries \ {firstFree} : outerToIndex'[j] = outerToIndex[j]
      /\ outerToIndex'[firstFree] = [outerToIndex[firstFree] EXCEPT !.index = size]
  BY <1>1, <1>4
<1>6. /\ outerToIndex'[firstFree].index = size
      /\ outerToIndex'[firstFree].tag = entries[firstFree].tag
      /\ outerToIndex'[firstFree] \in Words
  BY <1>1, <1>5 DEF Words
<1>7. /\ denseFirst' = entries[firstFree].index
      /\ denseLast' = IF denseFirst' = Invalid THEN Invalid ELSE lastFree
  BY <1>1, <1>3, Words2 DEF Dense!CreateIdReuse
<1>8. outerToIndex' \in [DOMAIN entries \cup {firstFree} -> Words]
  <2>1. \A j \in DOMAIN entries : outerToIndex[j] \in Words
    BY <1>0 DEF Same
  <2>2. \A j \in DOMAIN entries : outerToIndex'[j] \in Words
    BY <1>5, <1>6, <2>1
  <2>3. DOMAIN entries \cup {firstFree} = DOMAIN entries
    BY <1>1
  <2> QED BY <1>1, <1>4, <2>2, <2>3
<1> QED BY <1>1, <1>2, <1>3, <1>5, <1>6, <1>7, <1>8 DEF DenseEmplacedAt

\* emplace keeps the invariant, whichever entry it takes.
LEMMA BothEmplacedStep ==
  ASSUME BothInv, NEW i, EmplacedAt(i), DenseEmplacedAt(i),
         denseFirst' = firstFree', denseLast' = lastFree'
  PROVE  Same' /\ Tables'
<1>0. IdInv /\ Same /\ Tables
  BY DEF BothInv
<1>1. /\ i \notin InUse /\ InUse \subseteq DOMAIN entries
      /\ i \in DOMAIN entries' /\ InUse' = InUse \cup {i}
      /\ DOMAIN entries' = DOMAIN entries \cup {i}
      /\ size \in Nat /\ size' = size + 1
      /\ Len(handles) \in Nat /\ DOMAIN handles = 1..Len(handles)
      /\ entries' \in [DOMAIN entries' -> Words]
  <2>1. InUse \subseteq DOMAIN entries /\ size \in Nat
    BY <1>0, SizeRange DEF InUse
  <2>2. Len(handles) \in Nat /\ DOMAIN handles = 1..Len(handles)
    BY <1>0 DEF IdInv, Shape
  <2>3. entries' \in [DOMAIN entries' -> Words]
    BY DEF EmplacedAt
  <2> QED BY <2>1, <2>2, <2>3 DEF EmplacedAt
<1>2. /\ \A j \in DOMAIN entries \ {i} : /\ entries'[j] = entries[j]
                                         /\ outerToIndex'[j] = outerToIndex[j]
      /\ outerToIndex'[i].tag = entries'[i].tag
      /\ outerToIndex'[i].index = size
  BY DEF EmplacedAt, DenseEmplacedAt
<1>3. /\ handles' = Append(handles, entries'[i])
      /\ Len(handles') = Len(handles) + 1
      /\ DOMAIN handles' = 1..(Len(handles) + 1)
      /\ \A m \in DOMAIN handles : handles'[m] = handles[m]
      /\ handles'[Len(handles) + 1] = entries'[i]
  <2>1. entries'[i] \in Words /\ handles \in Seq(Words)
    BY <1>0, <1>1 DEF IdInv, Shape
  <2> QED BY <2>1 DEF EmplacedAt
<1>4. Same'
  <2>1. denseHandles' = handles'
    <3>1. entries'[i] \in Words /\ entries'[i].index = i
      BY <1>1 DEF EmplacedAt
    <3>2. entries'[i] = [tag |-> entries'[i].tag, index |-> i]
      BY <3>1 DEF Words
    <3> QED BY <1>2, <1>3, <3>2 DEF DenseEmplacedAt
  <2>2. outerToIndex' \in [DOMAIN entries' -> Words]
    BY <1>1 DEF DenseEmplacedAt
  <2>3. \A j \in DOMAIN entries' : outerToIndex'[j].tag = entries'[j].tag
    BY <1>0, <1>1, <1>2 DEF Same
  <2>4. \A j \in DOMAIN entries' \ InUse' : outerToIndex'[j] = entries'[j]
    BY <1>0, <1>1, <1>2 DEF Same
  <2> QED BY <2>1, <2>2, <2>3, <2>4 DEF Same
<1>5. /\ indexToOuter' \in Seq(DOMAIN entries') /\ Len(indexToOuter') = size'
      /\ elements' \in Seq(DOMAIN handles') /\ Len(elements') = size'
      /\ \A p \in 1..size : /\ indexToOuter'[p] = indexToOuter[p]
                            /\ elements'[p] = elements[p]
                            /\ indexToOuter[p] \in InUse
                            /\ elements[p] \in DOMAIN handles
      /\ indexToOuter'[size + 1] = i
      /\ elements'[size + 1] = Len(handles) + 1
  <2>1. /\ indexToOuter \in Seq(DOMAIN entries') /\ i \in DOMAIN entries'
        /\ Len(indexToOuter) = size
    BY <1>0, <1>1 DEF Tables
  <2>2. /\ elements \in Seq(DOMAIN handles') /\ Len(elements) = size
        /\ Len(handles) + 1 \in DOMAIN handles'
    BY <1>0, <1>1, <1>3 DEF Tables
  <2>3. \A p \in 1..size : indexToOuter[p] \in InUse /\ elements[p] \in DOMAIN handles
    BY <1>0 DEF Tables
  <2> QED BY <1>1, <2>1, <2>2, <2>3 DEF DenseEmplacedAt
<1>6. ASSUME NEW j \in InUse'
      PROVE  /\ outerToIndex'[j].index \in 0..(size' - 1)
             /\ indexToOuter'[outerToIndex'[j].index + 1] = j
  <2>1. CASE j = i
    BY <1>1, <1>2, <1>5, <2>1
  <2>2. CASE j # i
    <3>1. j \in InUse /\ outerToIndex'[j] = outerToIndex[j]
      BY <1>1, <1>2, <1>6, <2>2
    <3>2. /\ outerToIndex[j].index \in 0..(size - 1)
          /\ indexToOuter[outerToIndex[j].index + 1] = j
      BY <1>0, <3>1 DEF Tables
    <3> DEFINE q == outerToIndex[j].index + 1
    <3>3. q \in 1..size /\ q - 1 \in 0..(size' - 1) /\ q - 1 = outerToIndex[j].index
      BY <1>1, <3>2
    <3>4. indexToOuter'[q] = j
      BY <1>5, <3>2, <3>3
    <3> QED BY <3>1, <3>3, <3>4
  <2> QED BY <2>1, <2>2
<1>7. ASSUME NEW p \in 1..size'
      PROVE  /\ indexToOuter'[p] \in InUse'
             /\ outerToIndex'[indexToOuter'[p]].index = p - 1
             /\ handles'[elements'[p]] = entries'[indexToOuter'[p]]
  <2>1. CASE p = size + 1
    <3>1. indexToOuter'[p] = i /\ elements'[p] = Len(handles) + 1
      BY <1>5, <2>1
    <3>2. outerToIndex'[i].index = p - 1
      BY <1>1, <1>2, <2>1
    <3> QED BY <1>1, <1>3, <3>1, <3>2
  <2>2. CASE p \in 1..size
    <3>1. /\ outerToIndex[indexToOuter[p]].index = p - 1
          /\ handles[elements[p]] = entries[indexToOuter[p]]
      BY <1>0, <2>2 DEF Tables
    <3>2. indexToOuter[p] \in DOMAIN entries \ {i} /\ indexToOuter[p] \in InUse
      BY <1>1, <1>5, <2>2
    <3>3. indexToOuter'[p] = indexToOuter[p] /\ elements'[p] = elements[p]
      BY <1>5, <2>2
    <3>4. handles'[elements[p]] = handles[elements[p]]
      BY <1>3, <1>5, <2>2
    <3> QED BY <1>1, <1>2, <3>1, <3>2, <3>3, <3>4
  <2> QED BY <1>1, <2>1, <2>2
<1> QED BY <1>4, <1>5, <1>6, <1>7 DEF Tables

\* emplace keeps it.
LEMMA BothEmplaceStep ==
  ASSUME BothInv, IdInv', BothEmplace
  PROVE  BothInv'
<1>0. IdInv /\ Emplace /\ Dense!Emplace /\ Same
  BY DEF BothInv, BothEmplace
<1>1. CASE lastFree = Invalid
  <2>1. EmplaceGrow /\ EmplacedAt(Capacity)
    BY <1>0, <1>1, Grown DEF Emplace, EmplaceReuse
  <2>2. DenseEmplacedAt(Capacity) /\ UNCHANGED <<denseFirst, denseLast>>
    BY <1>0, <1>1, DenseGrown
  <2>3. denseFirst' = firstFree' /\ denseLast' = lastFree'
    BY <1>0, <2>1, <2>2 DEF EmplaceGrow, Same
  <2> QED BY <2>1, <2>2, <2>3, BothEmplacedStep DEF BothInv
<1>2. CASE lastFree # Invalid
  <2>1. EmplaceReuse /\ EmplacedAt(firstFree)
    BY <1>0, <1>2, Reused DEF Emplace, EmplaceGrow
  <2>2. /\ DenseEmplacedAt(firstFree)
        /\ denseFirst' = entries[firstFree].index
        /\ denseLast' = IF denseFirst' = Invalid THEN Invalid ELSE lastFree
    BY <1>0, <1>2, DenseReused
  <2>3. denseFirst' = firstFree' /\ denseLast' = lastFree'
    BY <2>1, <2>2 DEF EmplaceReuse
  <2> QED BY <2>1, <2>2, <2>3, BothEmplacedStep DEF BothInv
<1> QED BY <1>1, <1>2

-----------------------------------------------------------------------------
\* erase.

\* A sequence of places after the last one was moved to place p, from 0.
LEMMA Filled ==
  ASSUME NEW X, NEW v \in Seq(X), NEW p \in 0..(Len(v) - 1)
  PROVE  LET w == Dense!FillFromBack(v, p)
         IN /\ w \in Seq(X) /\ Len(w) = Len(v) - 1
            /\ \A q \in 1..(Len(v) - 1) :
                 w[q] = IF q = p + 1 THEN v[Len(v)] ELSE v[q]
<1> DEFINE u == [v EXCEPT ![p + 1] = v[Len(v)]]
<1>1. Len(v) \in Nat \ {0} /\ p + 1 \in 1..Len(v) /\ v[Len(v)] \in X
  OBVIOUS
<1>2. /\ u \in Seq(X) /\ Len(u) = Len(v)
      /\ \A q \in 1..Len(v) : u[q] = IF q = p + 1 THEN v[Len(v)] ELSE v[q]
  BY <1>1
<1>3. Dense!FillFromBack(v, p) = SubSeq(u, 1, Len(u) - 1)
  BY DEF Dense!FillFromBack, Dense!Front, Dense!Last
<1> HIDE DEF u
<1> QED BY <1>1, <1>2, <1>3

\* What free_id does to the words of the dense vector: the entry of the last
\* element leads to the place of the one erased, the entry erased is as in the
\* stable vector.
LEMMA DenseErased ==
  ASSUME BothInv, NEW n \in DOMAIN handles, ErasedAt(handles[n].index),
         Dense!Erase(denseHandles[n])
  PROVE  LET i == handles[n].index
             last == indexToOuter[size]
         IN /\ size \in Nat \ {0} /\ last \in InUse /\ last # lastFree
            /\ outerToIndex' \in [DOMAIN entries -> Words]
            /\ outerToIndex'[i] = entries'[i]
            /\ lastFree # Invalid => outerToIndex'[lastFree] = entries'[lastFree]
            /\ last # i =>
                 /\ outerToIndex'[last].tag = outerToIndex[last].tag
                 /\ outerToIndex'[last].index = outerToIndex[i].index
            /\ \A j \in DOMAIN entries \ {i, last, lastFree} :
                 outerToIndex'[j] = outerToIndex[j]
            /\ denseFirst' = firstFree' /\ denseLast' = lastFree'
            /\ denseHandles' = handles
<1> DEFINE i == handles[n].index
           last == indexToOuter[size]
           place == outerToIndex[i].index
           moved == [outerToIndex EXCEPT ![last].index = place]
           freed == [moved EXCEPT ![i] = Dense!Retagged(@)]
<1>0. IdInv /\ Same /\ Tables
  BY DEF BothInv
<1>1. /\ i \in InUse /\ InUse \subseteq DOMAIN entries
      /\ DOMAIN outerToIndex = DOMAIN entries
      /\ \A j \in DOMAIN entries : outerToIndex[j] \in Words
      /\ denseHandles = handles /\ denseFirst = firstFree
      /\ denseLast = lastFree
  BY <1>0 DEF ErasedAt, InUse, Same
<1>2. /\ size \in Nat \ {0} /\ last \in InUse
      /\ place \in 0..(size - 1) /\ place \in 0..Invalid
      /\ Len(indexToOuter) = size
  <2>1. size \in 0..Invalid /\ Invalid \in Nat
    BY <1>0, SizeRange
  <2>2. place \in 0..(size - 1) /\ Len(indexToOuter) = size
    BY <1>0, <1>1 DEF Tables
  <2>3. size \in 1..size
    BY <2>1, <2>2
  <2>4. last \in InUse
    BY <1>0, <2>3 DEF Tables
  <2> QED BY <2>1, <2>2, <2>3, <2>4
<1>3. lastFree # Invalid =>
        /\ lastFree \in DOMAIN entries /\ lastFree \notin InUse
        /\ outerToIndex[lastFree] = entries[lastFree]
        /\ entries[lastFree].index = Invalid
  BY <1>0, Ends DEF Same
<1>4. last # lastFree /\ i # lastFree
  <2>1. Invalid \notin DOMAIN entries
    BY <1>0, IndexRange DEF IdInv
  <2> QED BY <1>1, <1>2, <1>3, <2>1
<1>5. /\ moved \in [DOMAIN entries -> Words]
      /\ moved[i].tag = entries[i].tag
      /\ moved[last].tag = outerToIndex[last].tag
      /\ moved[last].index = place
      /\ \A j \in DOMAIN entries \ {last} : moved[j] = outerToIndex[j]
  <2>1. [outerToIndex[last] EXCEPT !.index = place] \in Words
    BY <1>1, <1>2 DEF Words
  <2>2. /\ [outerToIndex[last] EXCEPT !.index = place].tag = outerToIndex[last].tag
        /\ [outerToIndex[last] EXCEPT !.index = place].index = place
    BY <1>1, <1>2 DEF Words
  <2>3. outerToIndex[i].tag = entries[i].tag
    BY <1>0, <1>1 DEF Same
  <2> QED BY <1>1, <1>2, <2>1, <2>2, <2>3
<1>6. Dense!Retagged(moved[i]) = entries'[i]
  <2>1. entries'[i] \in Words /\ entries'[i].tag = entries[i].tag + 1
        /\ entries'[i].index = Invalid
    BY <1>1 DEF ErasedAt
  <2>2. /\ entries'[i].tag \in Nat /\ entries'[i].tag < TagRange
        /\ entries'[i] = [tag |-> entries'[i].tag, index |-> Invalid]
    BY <2>1 DEF Words
  <2>3. (entries[i].tag + 1) % TagRange = entries'[i].tag
    BY <2>1, <2>2, TagSmall
  <2>4. Dense!Retagged(moved[i]) = Retagged(moved[i])
    BY Words2
  <2>5. Retagged(moved[i]) = [tag |-> entries'[i].tag, index |-> Invalid]
    BY <1>5, <2>3 DEF Retagged
  <2> QED BY <2>2, <2>4, <2>5
<1>7. /\ freed \in [DOMAIN entries -> Words]
      /\ freed[i] = entries'[i]
      /\ \A j \in DOMAIN entries \ {i} : freed[j] = moved[j]
  <2>1. entries'[i] \in Words
    BY <1>1 DEF ErasedAt
  <2> HIDE DEF moved
  <2> QED BY <1>1, <1>5, <1>6, <2>1
<1>8. /\ denseFirst' = firstFree' /\ denseLast' = lastFree'
      /\ denseHandles' = handles
      /\ outerToIndex' = IF lastFree = Invalid THEN freed
                         ELSE [freed EXCEPT ![lastFree] = Dense!Linked(@, i)]
  <2>1. indexToOuter[Len(indexToOuter)] = last
    BY <1>2
  <2>2. Dense!Invalid = Invalid
    BY Words2
  <2> QED BY <1>1, <2>1, <2>2 DEF Dense!Erase, Dense!Last, ErasedAt
<1>9. lastFree # Invalid => Dense!Linked(freed[lastFree], i) = entries'[lastFree]
  <2> SUFFICES ASSUME lastFree # Invalid
               PROVE  Dense!Linked(freed[lastFree], i) = entries'[lastFree]
    OBVIOUS
  <2>1. freed[lastFree] = entries[lastFree]
    BY <1>3, <1>4, <1>5, <1>7
  <2>2. /\ entries'[lastFree].tag = entries[lastFree].tag
        /\ entries'[lastFree].index = i
        /\ entries'[lastFree] \in Words
    BY <1>3 DEF ErasedAt
  <2>3. entries[lastFree] \in Words
    BY <1>1, <1>3
  <2>4. [entries[lastFree] EXCEPT !.index = i] = entries'[lastFree]
    BY <2>2, <2>3 DEF Words
  <2>5. Dense!Linked(entries[lastFree], i) = Linked(entries[lastFree], i)
    BY <1>3, Words2
  <2> QED BY <1>3, <2>1, <2>4, <2>5 DEF Linked
<1> HIDE DEF freed, moved
<1>10. /\ outerToIndex' \in [DOMAIN entries -> Words]
       /\ lastFree # Invalid => outerToIndex'[lastFree] = entries'[lastFree]
       /\ \A j \in DOMAIN entries \ {lastFree} : outerToIndex'[j] = freed[j]
  <2>1. CASE lastFree = Invalid
    BY <1>7, <1>8, <2>1
  <2>2. CASE lastFree # Invalid
    <3>1. entries'[lastFree] \in Words
      BY <1>3, <2>2 DEF ErasedAt
    <3> QED BY <1>3, <1>7, <1>8, <1>9, <2>2, <3>1
  <2> QED BY <2>1, <2>2
<1>11. outerToIndex'[i] = entries'[i]
  BY <1>1, <1>4, <1>7, <1>10
<1>12. last # i => /\ outerToIndex'[last].tag = outerToIndex[last].tag
                   /\ outerToIndex'[last].index = place
  BY <1>1, <1>2, <1>4, <1>5, <1>7, <1>10
<1>13. \A j \in DOMAIN entries \ {i, last, lastFree} :
         outerToIndex'[j] = outerToIndex[j]
  BY <1>5, <1>7, <1>10
<1> QED BY <1>2, <1>4, <1>8, <1>10, <1>11, <1>12, <1>13

\* erase keeps it.
LEMMA BothEraseStep ==
  ASSUME NoWrap, BothInv, IdInv', NEW n \in DOMAIN handles, BothErase(n)
  PROVE  BothInv'
<1> DEFINE i == handles[n].index
           last == indexToOuter[size]
           place == outerToIndex[i].index
<1>0. IdInv /\ Same /\ Tables /\ Erase(handles[n]) /\ Dense!Erase(denseHandles[n])
  BY DEF BothInv, BothErase
<1>1. ErasedAt(i)
  BY <1>0, Erased
<1>2. /\ i \in InUse /\ InUse \subseteq DOMAIN entries
      /\ DOMAIN entries' = DOMAIN entries
      /\ InUse' = InUse \ {i} /\ size' = size - 1 /\ handles' = handles
      /\ lastFree \notin InUse
  <2>1. lastFree \notin InUse
    BY <1>0, Ends, IndexRange DEF IdInv, InUse
  <2> QED BY <1>1, <2>1 DEF ErasedAt, InUse
<1>3. /\ size \in Nat \ {0} /\ last \in InUse /\ last # lastFree
      /\ outerToIndex' \in [DOMAIN entries -> Words]
      /\ outerToIndex'[i] = entries'[i]
      /\ lastFree # Invalid => outerToIndex'[lastFree] = entries'[lastFree]
      /\ last # i => /\ outerToIndex'[last].tag = outerToIndex[last].tag
                     /\ outerToIndex'[last].index = place
      /\ \A j \in DOMAIN entries \ {i, last, lastFree} :
           outerToIndex'[j] = outerToIndex[j]
      /\ denseFirst' = firstFree' /\ denseLast' = lastFree'
      /\ denseHandles' = handles
  BY <1>0, <1>1, DenseErased
<1>4. \A j \in DOMAIN entries \ {i, lastFree} : entries'[j] = entries[j]
  BY <1>1 DEF ErasedAt
<1>5. lastFree \in DOMAIN entries => lastFree # Invalid
  BY <1>0, IndexRange DEF IdInv
<1>6. Same'
  <2>1. \A j \in DOMAIN entries : outerToIndex'[j].tag = entries'[j].tag
    <3>1. \A j \in DOMAIN entries : outerToIndex[j].tag = entries[j].tag
      BY <1>0 DEF Same
    <3> QED BY <1>2, <1>3, <1>4, <1>5, <3>1
  <2>2. \A j \in DOMAIN entries \ InUse' : outerToIndex'[j] = entries'[j]
    <3>1. \A j \in DOMAIN entries \ InUse : outerToIndex[j] = entries[j]
      BY <1>0 DEF Same
    <3> QED BY <1>2, <1>3, <1>4, <1>5, <3>1
  <2> QED BY <1>2, <1>3, <2>1, <2>2 DEF Same
<1>7. /\ place \in 0..(size - 1) /\ indexToOuter[place + 1] = i
      /\ outerToIndex[last].index = size - 1
      /\ indexToOuter \in Seq(DOMAIN entries) /\ Len(indexToOuter) = size
      /\ elements \in Seq(DOMAIN handles) /\ Len(elements) = size
  BY <1>0, <1>2, <1>3 DEF Tables
<1>8. /\ indexToOuter' \in Seq(DOMAIN entries) /\ Len(indexToOuter') = size - 1
      /\ elements' \in Seq(DOMAIN handles) /\ Len(elements') = size - 1
      /\ \A q \in 1..(size - 1) :
           /\ indexToOuter'[q] = IF q = place + 1 THEN last ELSE indexToOuter[q]
           /\ elements'[q] = IF q = place + 1 THEN elements[size] ELSE elements[q]
  <2>1. /\ indexToOuter' = Dense!FillFromBack(indexToOuter, place)
        /\ elements' = Dense!FillFromBack(elements, place)
    BY <1>0 DEF Dense!Erase, Same
  <2> QED BY <1>7, <2>1, Filled
<1>9. \A j \in InUse \ {i, last} : outerToIndex'[j] = outerToIndex[j]
  BY <1>2, <1>3
<1>10. last = i <=> place = size - 1
  BY <1>3, <1>7
<1>11. ASSUME NEW j \in InUse'
       PROVE  /\ outerToIndex'[j].index \in 0..(size' - 1)
              /\ indexToOuter'[outerToIndex'[j].index + 1] = j
  <2>1. j \in InUse /\ j # i
    BY <1>2, <1>11
  <2>2. CASE j = last
    <3>1. place + 1 \in 1..(size - 1) /\ place \in 0..((size - 1) - 1)
      BY <1>3, <1>7, <1>10, <2>1, <2>2
    <3>2. outerToIndex'[j].index = place /\ indexToOuter'[place + 1] = last
      BY <1>3, <1>8, <2>1, <2>2, <3>1
    <3> QED BY <1>2, <2>2, <3>1, <3>2
  <2>3. CASE j # last
    <3> DEFINE q == outerToIndex[j].index
    <3>1. q \in 0..(size - 1) /\ indexToOuter[q + 1] = j
      BY <1>0, <2>1 DEF Tables
    <3>2. q # size - 1 /\ q # place
      BY <1>3, <1>7, <2>1, <2>3, <3>1
    <3>3. q + 1 \in 1..(size - 1) /\ q + 1 # place + 1 /\ q \in 0..((size - 1) - 1)
      BY <1>3, <1>7, <3>1, <3>2
    <3>4. indexToOuter'[q + 1] = j
      BY <1>8, <3>1, <3>3
    <3>5. outerToIndex'[j].index = q
      BY <1>9, <2>1, <2>3
    <3> QED BY <1>2, <3>3, <3>4, <3>5
  <2> QED BY <2>2, <2>3
<1>12. ASSUME NEW p \in 1..size'
       PROVE  /\ indexToOuter'[p] \in InUse'
              /\ outerToIndex'[indexToOuter'[p]].index = p - 1
              /\ handles'[elements'[p]] = entries'[indexToOuter'[p]]
  <2>0. p \in 1..(size - 1) /\ p \in 1..size /\ size \in 1..size
    BY <1>2, <1>3
  <2>1. CASE p = place + 1
    <3>1. last # i
      BY <1>3, <1>10, <2>0, <2>1
    <3>2. indexToOuter'[p] = last /\ elements'[p] = elements[size]
      BY <1>8, <2>0, <2>1
    <3>3. outerToIndex'[last].index = p - 1
      BY <1>3, <1>7, <2>1, <3>1
    <3>4. handles[elements[size]] = entries[last]
      BY <1>0, <2>0 DEF Tables
    <3>5. entries'[last] = entries[last]
      BY <1>2, <1>3, <1>4, <3>1
    <3> QED BY <1>2, <1>3, <3>1, <3>2, <3>3, <3>4, <3>5
  <2>2. CASE p # place + 1
    <3> DEFINE o == indexToOuter[p]
    <3>1. indexToOuter'[p] = o /\ elements'[p] = elements[p]
      BY <1>8, <2>0, <2>2
    <3>2. /\ o \in InUse /\ outerToIndex[o].index = p - 1
          /\ handles[elements[p]] = entries[o]
      BY <1>0, <2>0 DEF Tables
    <3>3. o # i /\ o # last
      BY <1>3, <1>7, <2>0, <2>2, <3>2
    <3>4. outerToIndex'[o] = outerToIndex[o] /\ entries'[o] = entries[o]
      BY <1>2, <1>4, <1>9, <3>2, <3>3
    <3> QED BY <1>2, <3>1, <3>2, <3>3, <3>4
  <2> QED BY <2>1, <2>2
<1>13. Tables'
  BY <1>2, <1>8, <1>11, <1>12 DEF Tables
<1> QED BY <1>6, <1>13 DEF BothInv

-----------------------------------------------------------------------------
\* Theorems about both.

\* Every call keeps it.
LEMMA BothStepInv ==
  ASSUME NoWrap PROVE BothInv /\ [BothNext]_bothVars => BothInv'
<1> SUFFICES ASSUME BothInv, [BothNext]_bothVars PROVE BothInv'
  OBVIOUS
<1>1. [Next]_vars
  BY DEF BothNext, BothReserve, BothEmplace, BothErase, bothVars, Next
<1>2. IdInv'
  BY <1>1, StepInv DEF BothInv
<1>3. CASE UNCHANGED bothVars
  <2>1. /\ UNCHANGED <<entries, firstFree, lastFree, size, handles>>
        /\ UNCHANGED <<outerToIndex, indexToOuter, elements, denseFirst,
                       denseLast, denseHandles>>
    BY <1>3 DEF bothVars, vars, Dense!vars
  <2>2. InUse' = InUse
    BY <2>1 DEF InUse
  <2> QED BY <1>2, <2>1, <2>2 DEF BothInv, Same, Tables
<1>4. ASSUME NEW n \in 1..MaxReserve, BothReserve(n) PROVE BothInv'
  BY <1>2, <1>4, BothReserveStep
<1>5. CASE BothEmplace
  BY <1>2, <1>5, BothEmplaceStep
<1>6. ASSUME NEW n \in DOMAIN handles, BothErase(n) PROVE BothInv'
  BY <1>2, <1>6, BothEraseStep
<1> QED BY <1>3, <1>4, <1>5, <1>6 DEF BothNext

\* The invariant of the two vectors holds in every reachable state.
THEOREM BothInvariance == ASSUME NoWrap PROVE BothSpec => []BothInv
<1>1. BothInit => BothInv
  BY BothInitInv
<1>2. BothInv /\ [BothNext]_bothVars => BothInv'
  BY BothStepInv
<1> QED BY <1>1, <1>2, PTL DEF BothSpec

\* An id is valid exactly if its entry is in use and has its tag, which is
\* all that is_valid_id of the dense vector looks at.
LEMMA ValidBoth ==
  ASSUME BothInv, NEW n \in DOMAIN handles
  PROVE  /\ IsValid(handles[n]) <=> Dense!IsValid(handles[n])
         /\ IsValid(handles[n]) => /\ handles[n].index \in InUse
                                   /\ entries[handles[n].index] = handles[n]
<1> DEFINE h == handles[n]
           j == h.index
<1>1. /\ j \in DOMAIN entries /\ h \in Words /\ entries[j] \in Words
      /\ h.tag <= entries[j].tag
      /\ j \notin InUse => h.tag < entries[j].tag
      /\ DOMAIN entries = 0..(Capacity - 1) /\ Capacity \in Nat
  BY IndexRange DEF BothInv, IdInv, HandleInv, Shape
<1>2. /\ outerToIndex[j].tag = entries[j].tag
      /\ Dense!Size = Capacity
  BY <1>1, SizeIs DEF BothInv, Same
<1>3. h.tag \in Nat /\ entries[j].tag \in Nat
  BY <1>1 DEF Words
<1>4. IsValid(h) <=> entries[j] = h
  BY <1>1 DEF IsValid
<1>5. Dense!IsValid(h) <=> entries[j].tag = h.tag
  BY <1>1, <1>2 DEF Dense!IsValid
<1>6. CASE j \in InUse
  <2>1. entries[j].index = j
    BY <1>6 DEF InUse
  <2>2. entries[j] = h <=> entries[j].tag = h.tag
    BY <1>1, <2>1 DEF Words
  <2> QED BY <1>4, <1>5, <1>6, <2>2
<1>7. CASE j \notin InUse
  <2>1. entries[j].tag # h.tag
    BY <1>1, <1>3, <1>7
  <2> QED BY <1>4, <1>5, <2>1
<1> QED BY <1>6, <1>7

\* Both vectors return the same ids for the same calls and hold the same ids
\* for valid, so that one may stand for the other.
THEOREM IdsAgree == ASSUME NoWrap PROVE BothSpec => []SameIds
<1>1. BothInv => SameIds
  <2> SUFFICES ASSUME BothInv PROVE SameIds
    OBVIOUS
  <2>1. \A n \in DOMAIN handles :
          IsValid(handles[n]) <=> Dense!IsValid(handles[n])
    BY ValidBoth
  <2> QED BY <2>1 DEF BothInv, Same, Tables, SameIds
<1> QED BY <1>1, BothInvariance, PTL

\* The types of the dense vector.
LEMMA DenseTypes == ASSUME BothInv PROVE Dense!TypeOK
<1>1. /\ DOMAIN outerToIndex = 0..(Dense!Size - 1)
      /\ \A j \in DOMAIN outerToIndex : outerToIndex[j] \in Words
      /\ DOMAIN outerToIndex = DOMAIN entries
  <2>1. DOMAIN outerToIndex = DOMAIN entries
    BY DEF BothInv, Same
  <2>2. DOMAIN entries = 0..(Capacity - 1)
    BY IndexRange DEF BothInv, IdInv
  <2> QED BY <2>1, <2>2, SizeIs DEF BothInv, Same
<1>2. /\ indexToOuter \in Seq(DOMAIN outerToIndex)
      /\ elements \in Seq(DOMAIN handles) /\ denseHandles = handles
      /\ handles \in Seq(Words)
  BY <1>1 DEF BothInv, Same, Tables, IdInv, Shape
<1>3. denseFirst \in 0..Invalid /\ denseLast \in 0..Invalid
  BY TypeInv DEF BothInv, Same, TypeOK
<1> QED BY <1>1, <1>2, <1>3, Words2 DEF Dense!TypeOK

\* Ids and places lead to each other wherever erase moved the elements: what
\* the DCHECKs of operator[] ask for, and that a valid id finds its own element.
THEOREM TablesKept == ASSUME NoWrap PROVE BothSpec => []TablesInverse
<1>1. BothInv => TablesInverse
  <2> SUFFICES ASSUME BothInv PROVE Dense!TablesInverse
    BY DenseTypes DEF TablesInverse
  <2>1. /\ IdInv /\ Same /\ Tables /\ denseHandles = handles
        /\ Len(elements) = size /\ size \in Nat
        /\ DOMAIN elements = 1..size /\ Len(indexToOuter) = size
        /\ \A p \in 1..size : elements[p] \in DOMAIN handles
    BY SizeRange DEF BothInv, Same, Tables
  <2>2. ASSUME NEW n \in DOMAIN handles, Dense!IsValid(handles[n])
        PROVE  /\ outerToIndex[handles[n].index].index \in 0..(size - 1)
               /\ elements[outerToIndex[handles[n].index].index + 1] = n
    <3> DEFINE i == handles[n].index
               p == outerToIndex[i].index + 1
    <3>1. i \in InUse /\ entries[i] = handles[n]
      BY <2>2, ValidBoth
    <3>2. p \in 1..size /\ p - 1 \in 0..(size - 1) /\ indexToOuter[p] = i
          /\ p - 1 = outerToIndex[i].index
      BY <2>1, <3>1 DEF Tables
    <3>3. handles[elements[p]] = handles[n]
      BY <2>1, <3>1, <3>2 DEF Tables
    <3>4. elements[p] = n
      BY <2>1, <3>2, <3>3 DEF IdInv, HandleInv
    <3> QED BY <3>2, <3>4
  <2>3. ASSUME NEW p \in 1..size
        PROVE  /\ Dense!IsValid(handles[elements[p]])
               /\ handles[elements[p]] = [tag |-> outerToIndex[indexToOuter[p]].tag,
                                          index |-> indexToOuter[p]]
               /\ outerToIndex[indexToOuter[p]].index = p - 1
    <3> DEFINE o == indexToOuter[p]
               m == elements[p]
    <3>1. /\ o \in InUse /\ outerToIndex[o].index = p - 1
          /\ handles[m] = entries[o] /\ m \in DOMAIN handles
      BY <2>1 DEF Tables
    <3>2. o \in DOMAIN entries /\ entries[o].index = o
      BY <3>1 DEF InUse
    <3>3. /\ entries[o] \in Words /\ outerToIndex[o].tag = entries[o].tag
          /\ DOMAIN entries = 0..(Capacity - 1) /\ Capacity \in Nat
      BY <2>1, <3>2, IndexRange DEF Same, IdInv
    <3>4. IsValid(handles[m])
      BY <3>1, <3>2, <3>3 DEF IsValid
    <3>5. entries[o] = [tag |-> outerToIndex[o].tag, index |-> o]
      BY <3>2, <3>3 DEF Words
    <3> QED BY <3>1, <3>4, <3>5, ValidBoth
  <2>4. Dense!Range(elements) = Dense!ValidElements
    <3>1. ASSUME NEW n \in Dense!ValidElements
          PROVE  \E p \in 1..size : elements[p] = n
      <4>1. n \in DOMAIN handles /\ Dense!IsValid(handles[n])
        BY <2>1 DEF Dense!ValidElements
      <4> DEFINE p == outerToIndex[handles[n].index].index + 1
      <4>2. p \in 1..size /\ elements[p] = n
        BY <2>1, <2>2, <4>1
      <4> QED BY <4>2
    <3>2. \A p \in 1..size : elements[p] \in Dense!ValidElements
      BY <2>1, <2>3 DEF Dense!ValidElements
    <3> QED BY <2>1, <3>1, <3>2 DEF Dense!Range
  <2>5. ASSUME NEW n \in Dense!ValidElements
        PROVE  /\ outerToIndex[denseHandles[n].index].index < Len(elements)
               /\ Dense!ElementOf(denseHandles[n]) = n
    <3>1. n \in DOMAIN handles /\ Dense!IsValid(handles[n])
      BY <2>1 DEF Dense!ValidElements
    <3> QED BY <2>1, <2>2, <3>1 DEF Dense!ElementOf
  <2>6. ASSUME NEW p \in 0..(Len(elements) - 1)
        PROVE  /\ Dense!IdAt(p) = denseHandles[elements[p + 1]]
               /\ outerToIndex[indexToOuter[p + 1]].index = p
    <3>1. p + 1 \in 1..size /\ (p + 1) - 1 = p
      BY <2>1
    <3> QED BY <2>1, <2>3, <3>1 DEF Dense!IdAt
  <2> QED BY <2>1, <2>4, <2>5, <2>6 DEF Dense!TablesInverse
<1> QED BY <1>1, BothInvariance, PTL
=============================================================================
