--------------------------- MODULE IdVectorProofs ---------------------------
(***************************************************************************)
(* Proofs about IdVector, for any number of threads, slots and elements,   *)
(* as long as the tags do not wrap around while that many elements are     *)
(* stored and erased (TagsLast): no slot leaks or is given out twice, and  *)
(* the vector implements IdStore.                                          *)
(***************************************************************************)
EXTENDS IdVector, FiniteSetTheorems, SequenceTheorems, TLAPS

\* Each element changes free_head_ twice, when it gets its slot and when it
\* gives it back; with fewer changes than tags no value comes back.
TagsLast == 2 * MaxElements < TagRange

-----------------------------------------------------------------------------
\* The inductive invariant.

Busy == {"mark", "release", "link", "publish"}

Marking == {t \in Threads : pc[t] = "mark"}

\* No two threads work on one slot, and the slot holds no element.
OwnInv ==
  /\ \A t, u \in Threads :
       pc[t] \in Busy /\ pc[u] \in Busy /\ owned[t] = owned[u] => t = u
  /\ \A t \in Threads : pc[t] \in Busy => payload[owned[t]] = 0

\* free_head_ was never younger than a copy of it, so that a copy equal to it is
\* a copy of the list as it is: the slot after the head is still the same.
MirrorInv ==
  \A t \in Threads :
    /\ pc[t] \in {"next", "acquire", "link", "publish"} =>
         mirror[t].tag <= freeHead.tag
    /\ pc[t] \in {"next", "acquire"} => mirror[t].index \in Indices
    /\ pc[t] = "acquire" /\ mirror[t] = freeHead =>
         next[t] = slots[freeHead.index].index
    /\ pc[t] = "publish" => slots[owned[t]].index = mirror[t].index
    /\ pc[t] = "release" => victim[t] = target[t]

\* An element is in the slot its id names; the tag of a slot is smaller than the
\* number of its element, and that of an empty slot no larger than any.
SlotInv ==
  \A i \in Indices :
    /\ slots[i].tag <= Len(handles)
    /\ payload[i] # 0 => /\ payload[i] \in DOMAIN handles
                        /\ slots[i].tag < payload[i]
                        /\ handles[payload[i]] = slots[i]
                        /\ slots[i].index = i

\* An id leads to its element or is older than its slot.
HandleInv ==
  \A n \in DOMAIN handles :
    LET i == handles[n].index
    IN i \in Indices /\ (payload[i] = n \/ handles[n].tag < slots[i].tag)

\* There is an element left for every thread that stores one.
BoundInv == Len(handles) + Cardinality(Storing) <= MaxElements

\* chain is the free list, and free_head_ has the tag that the number of changes
\* to it gives: two for each slot handed out and one less for each that is out.
IsFreeList(chain) ==
  /\ chain \in Seq(Indices)
  /\ \A j, k \in DOMAIN chain : chain[j] = chain[k] => j = k
  /\ freeHead.index = IF chain = <<>> THEN Invalid ELSE chain[1]
  /\ \A k \in DOMAIN chain :
       slots[chain[k]].index = IF k = Len(chain) THEN Invalid ELSE chain[k + 1]
  /\ \A i \in Indices :
       (\E k \in DOMAIN chain : chain[k] = i) <=> i \notin Pending /\ payload[i] = 0
  /\ freeHead.tag =
       2 * (Len(handles) + Cardinality(Marking)) - Capacity + Len(chain)

ListInv == \E chain : IsFreeList(chain)

VectorInv == /\ TypeOK
             /\ OwnInv
             /\ MirrorInv
             /\ SlotInv
             /\ HandleInv
             /\ BoundInv
             /\ ListInv

-----------------------------------------------------------------------------
\* Counting.

\* A list of slots without repetitions is not longer than the vector.
LEMMA ChainLength ==
  ASSUME NEW chain \in Seq(Indices),
         \A j, k \in DOMAIN chain : chain[j] = chain[k] => j = k
  PROVE  Len(chain) \in Nat /\ Len(chain) <= Capacity
<1> DEFINE n == Len(chain)
           R == {chain[k] : k \in 1..n}
<1>1. n \in Nat /\ chain \in [1..n -> Indices] /\ DOMAIN chain = 1..n
  OBVIOUS
<1>2. IsFiniteSet(1..n) /\ Cardinality(1..n) = n
  BY <1>1, FS_Interval
<1>3. IsFiniteSet(Indices) /\ Cardinality(Indices) = Capacity
  BY RangeAssumption, FS_Interval DEF Indices
<1>4. chain \in Bijection(1..n, R)
  <2>1. chain \in [1..n -> R]
    BY <1>1
  <2> QED BY <1>1, <2>1 DEF Bijection, Injection, Surjection, IsInjective
<1>5. Cardinality(R) = n
  BY <1>2, <1>4, FS_Bijection DEF ExistsBijection
<1>6. R \in SUBSET Indices
  BY <1>1
<1>7. Cardinality(R) <= Cardinality(Indices)
  BY <1>3, <1>6, FS_Subset
<1> QED BY <1>1, <1>3, <1>5, <1>7

\* The sets of threads that are counted.
LEMMA Counts ==
  ASSUME TypeOK
  PROVE  /\ IsFiniteSet(Storing) /\ Cardinality(Storing) \in Nat
         /\ IsFiniteSet(Marking) /\ Cardinality(Marking) \in Nat
         /\ Cardinality(Marking) <= Cardinality(Storing)
         /\ \A t \in Threads : pc[t] \in {"next", "acquire"} =>
              Cardinality(Marking) + 1 <= Cardinality(Storing)
         /\ Len(handles) \in Nat
<1>1. /\ IsFiniteSet(Storing) /\ Cardinality(Storing) \in Nat
      /\ IsFiniteSet(Marking) /\ Cardinality(Marking) \in Nat
  <2>1. Storing \in SUBSET Threads /\ Marking \in SUBSET Threads
    BY DEF Storing, Marking
  <2> QED BY <2>1, ThreadAssumption, FS_Subset, FS_CardinalityType
<1>2. Marking \in SUBSET Storing
  BY DEF Storing, Marking
<1>3. Cardinality(Marking) <= Cardinality(Storing)
  BY <1>1, <1>2, FS_Subset
<1>4. ASSUME NEW t \in Threads, pc[t] \in {"next", "acquire"}
      PROVE  Cardinality(Marking) + 1 <= Cardinality(Storing)
  <2>1. t \in Storing /\ t \notin Marking
    BY <1>4 DEF Storing, Marking
  <2>2. /\ IsFiniteSet(Storing \ {t})
        /\ Cardinality(Storing \ {t}) = Cardinality(Storing) - 1
    BY <1>1, <2>1, FS_RemoveElement
  <2>3. Marking \in SUBSET (Storing \ {t})
    BY <1>2, <2>1
  <2>4. Cardinality(Marking) <= Cardinality(Storing \ {t})
    BY <2>2, <2>3, FS_Subset
  <2> QED BY <1>1, <2>2, <2>4
<1> QED BY <1>1, <1>3, <1>4 DEF TypeOK

\* What a change of one thread's place does to the sets of threads.
LEMMA Counted ==
  ASSUME TypeOK, NEW t \in Threads, NEW to, pc' = [pc EXCEPT ![t] = to]
  PROVE  /\ pc[t] = "mark" /\ to # "mark" =>
              Cardinality(Marking') = Cardinality(Marking) - 1
         /\ pc[t] # "mark" /\ to = "mark" =>
              Cardinality(Marking') = Cardinality(Marking) + 1
         /\ (pc[t] = "mark" <=> to = "mark") => Marking' = Marking
         /\ pc[t] \in {"next", "acquire", "mark"} /\ to \notin {"next", "acquire", "mark"} =>
              Cardinality(Storing') = Cardinality(Storing) - 1
         /\ pc[t] \notin {"next", "acquire", "mark"} /\ to \in {"next", "acquire", "mark"} =>
              Cardinality(Storing') = Cardinality(Storing) + 1
         /\ (pc[t] \in {"next", "acquire", "mark"} <=> to \in {"next", "acquire", "mark"}) =>
              Storing' = Storing
<1>1. \A u \in Threads : pc'[u] = IF u = t THEN to ELSE pc[u]
  BY DEF TypeOK
<1>2. IsFiniteSet(Storing) /\ IsFiniteSet(Marking)
  BY Counts
<1>3. /\ pc[t] = "mark" /\ to # "mark" => Marking' = Marking \ {t} /\ t \in Marking
      /\ pc[t] # "mark" /\ to = "mark" => Marking' = Marking \cup {t} /\ t \notin Marking
      /\ (pc[t] = "mark" <=> to = "mark") => Marking' = Marking
  BY <1>1 DEF Marking
<1>4. /\ pc[t] \in {"next", "acquire", "mark"} /\ to \notin {"next", "acquire", "mark"} =>
           Storing' = Storing \ {t} /\ t \in Storing
      /\ pc[t] \notin {"next", "acquire", "mark"} /\ to \in {"next", "acquire", "mark"} =>
           Storing' = Storing \cup {t} /\ t \notin Storing
      /\ (pc[t] \in {"next", "acquire", "mark"} <=> to \in {"next", "acquire", "mark"}) =>
           Storing' = Storing
  BY <1>1 DEF Storing
<1> QED BY <1>2, <1>3, <1>4, FS_AddElement, FS_RemoveElement

\* Every change of free_head_ gives it a tag that no thread has seen.
LEMMA TagsFit ==
  ASSUME TagsLast, VectorInv, NEW chain, IsFreeList(chain)
  PROVE  /\ Len(chain) \in Nat /\ Len(chain) <= Capacity
         /\ (\E t \in Threads : pc[t] = "acquire") \/ Len(chain) < Capacity =>
              (freeHead.tag + 1) % TagRange = freeHead.tag + 1
<1>1. Len(chain) \in Nat /\ Len(chain) <= Capacity
  BY ChainLength DEF IsFreeList
<1>2. /\ Cardinality(Storing) \in Nat /\ Cardinality(Marking) \in Nat
      /\ Cardinality(Marking) <= Cardinality(Storing)
      /\ Len(handles) \in Nat
      /\ Len(handles) + Cardinality(Storing) <= MaxElements
  BY Counts DEF VectorInv, BoundInv
<1>3. /\ freeHead.tag = 2 * (Len(handles) + Cardinality(Marking)) - Capacity + Len(chain)
      /\ freeHead.tag \in 0..(TagRange - 1)
  BY DEF IsFreeList, VectorInv, TypeOK, Words
<1>4. ASSUME freeHead.tag + 1 < TagRange
      PROVE  (freeHead.tag + 1) % TagRange = freeHead.tag + 1
  BY <1>3, <1>4, RangeAssumption
<1>5. CASE \E t \in Threads : pc[t] = "acquire"
  <2>1. Cardinality(Marking) + 1 <= Cardinality(Storing)
    BY <1>5, Counts DEF VectorInv
  <2> QED BY <1>1, <1>2, <1>3, <1>4, <2>1, RangeAssumption DEF TagsLast
<1>6. CASE Len(chain) < Capacity
  BY <1>1, <1>2, <1>3, <1>4, <1>6, RangeAssumption DEF TagsLast
<1> QED BY <1>1, <1>5, <1>6

-----------------------------------------------------------------------------
\* The initial state.

\* All slots are free, in the order of their indices.
LEMMA InitInv == Init => VectorInv
<1> SUFFICES ASSUME Init PROVE VectorInv
  OBVIOUS
<1> USE RangeAssumption DEF Init
<1>1. /\ EmptyHead \in Words /\ EmptySlots \in [Indices -> Words]
      /\ <<>> \in Seq(Words) /\ Len(<<>>) = 0 /\ 0 \in Indices
  BY DEF EmptyHead, EmptySlots, Words, Indices
<1>2. TypeOK
  BY <1>1 DEF TypeOK
<1>3. OwnInv /\ MirrorInv
  BY DEF OwnInv, MirrorInv, Busy
<1>4. SlotInv /\ HandleInv
  BY <1>1 DEF SlotInv, HandleInv, EmptySlots
<1>5. Storing = {} /\ Marking = {} /\ Pending = {}
  BY DEF Storing, Marking, Pending
<1>6. Cardinality({}) = 0
  BY FS_EmptySet
<1>7. BoundInv
  BY <1>1, <1>5, <1>6 DEF BoundInv
<1>8. ListInv
  <2> DEFINE chain == [k \in 1..Capacity |-> k - 1]
  <2>1. chain \in Seq(Indices) /\ Len(chain) = Capacity /\ DOMAIN chain = 1..Capacity
    BY DEF Indices
  <2>2. \A k \in 1..Capacity : chain[k] = k - 1
    OBVIOUS
  <2> HIDE DEF chain
  <2>3. chain # <<>> /\ freeHead.index = chain[1]
    BY <2>1, <2>2 DEF EmptyHead
  <2>4. ASSUME NEW k \in DOMAIN chain
        PROVE  slots[chain[k]].index = IF k = Len(chain) THEN Invalid ELSE chain[k + 1]
    <3>1. k \in 1..Capacity /\ chain[k] = k - 1 /\ k - 1 \in Indices
      BY <2>1, <2>2 DEF Indices
    <3>2. slots[k - 1].index = k
      BY <3>1 DEF EmptySlots
    <3>3. k # Capacity => k + 1 \in 1..Capacity
      BY <3>1
    <3> QED BY <2>1, <2>2, <3>1, <3>2, <3>3 DEF Invalid
  <2>5. ASSUME NEW i \in Indices
        PROVE  /\ \E k \in DOMAIN chain : chain[k] = i
               /\ i \notin Pending /\ payload[i] = 0
    <3>1. i + 1 \in 1..Capacity /\ (i + 1) - 1 = i
      BY DEF Indices
    <3> QED BY <1>5, <2>1, <2>2, <3>1
  <2>6. freeHead.tag = 2 * (Len(handles) + Cardinality(Marking)) - Capacity + Len(chain)
    BY <1>1, <1>5, <1>6, <2>1 DEF EmptyHead
  <2>7. \A j, k \in DOMAIN chain : chain[j] = chain[k] => j = k
    BY <2>1, <2>2
  <2>8. IsFreeList(chain)
    BY <2>1, <2>3, <2>4, <2>5, <2>6, <2>7 DEF IsFreeList
  <2> QED BY <2>8 DEF ListInv
<1> QED BY <1>2, <1>3, <1>4, <1>7, <1>8 DEF VectorInv

\* The same of the state after a step.
LEMMA InitInvNext == Init' => VectorInv'
BY InitInv, PTL

-----------------------------------------------------------------------------
\* The steps that change neither the list nor a slot.

\* What they leave alone.
LEMMA ListAlone ==
  ASSUME VectorInv, NEW t \in Threads, NEW to, pc' = [pc EXCEPT ![t] = to],
         UNCHANGED <<freeHead, slots, payload, handles, owned>>,
         pc[t] \in Busy <=> to \in Busy, pc[t] = "mark" <=> to = "mark"
  PROVE  OwnInv' /\ SlotInv' /\ HandleInv' /\ ListInv'
<1> USE DEF VectorInv
<1>1. \A u \in Threads : pc'[u] \in Busy <=> pc[u] \in Busy
  BY DEF TypeOK
<1>2. OwnInv'
  BY <1>1 DEF OwnInv
<1>3. SlotInv' /\ HandleInv'
  BY DEF SlotInv, HandleInv
<1>4. Pending' = Pending
  BY <1>1 DEF Pending, Busy
<1>5. Marking' = Marking
  BY Counted
<1>6. PICK chain : IsFreeList(chain)
  BY DEF ListInv
<1>7. IsFreeList(chain)'
  BY <1>4, <1>5, <1>6 DEF IsFreeList
<1>8. ListInv'
  BY <1>7 DEF ListInv
<1> QED BY <1>2, <1>3, <1>8

\* A thread looks at the head, or at the slot it leads to.
LEMMA LookStep ==
  ASSUME NEW t \in Threads, VectorInv,
         \/ AcquireLoad(t) \/ AcquireNext(t) \/ AcquireRetry(t)
         \/ ReleaseLoad(t) \/ ReleaseRetry(t)
  PROVE  VectorInv'
<1> USE RangeAssumption DEF VectorInv
<1>1. UNCHANGED <<freeHead, slots, payload, handles, owned, target, victim>>
  BY DEF AcquireLoad, AcquireNext, AcquireRetry, ReleaseLoad, ReleaseRetry
<1>2. PICK to \in {"idle", "next", "acquire", "link"} :
        /\ pc' = [pc EXCEPT ![t] = to]
        /\ pc[t] \in Busy <=> to \in Busy
        /\ pc[t] # "mark" /\ to # "mark"
        /\ to = "next" => freeHead.index # Invalid /\ mirror'[t] = freeHead
        /\ to = "link" => mirror'[t] = freeHead
        /\ to = "acquire" => /\ pc[t] = "next" /\ mirror' = mirror
                            /\ next'[t] = slots[mirror[t].index].index
  BY DEF AcquireLoad, AcquireNext, AcquireRetry, ReleaseLoad, ReleaseRetry,
         LoadHead, Moves, Busy, TypeOK
<1>3. OwnInv' /\ SlotInv' /\ HandleInv' /\ ListInv'
  BY <1>1, <1>2, ListAlone
<1>4. /\ mirror' \in [Threads -> Words] /\ next' \in [Threads -> 0..Capacity]
      /\ \A u \in Threads \ {t} :
           mirror'[u] = mirror[u] /\ next'[u] = next[u] /\ pc'[u] = pc[u]
  <2>1. CASE AcquireNext(t)
    <3>1. mirror[t].index \in Indices
      BY <2>1 DEF MirrorInv, AcquireNext, Moves
    <3>2. slots[mirror[t].index].index \in 0..Capacity
      BY <3>1 DEF TypeOK, Words
    <3> QED BY <1>2, <2>1, <3>2 DEF TypeOK, AcquireNext
  <2>2. CASE ~AcquireNext(t)
    BY <1>2, <2>2 DEF TypeOK, LoadHead, AcquireLoad, AcquireRetry, ReleaseLoad, ReleaseRetry
  <2> QED BY <2>1, <2>2
<1>5. TypeOK'
  BY <1>1, <1>2, <1>4 DEF TypeOK
<1>6. MirrorInv'
  <2>1. freeHead.tag \in Nat /\ (freeHead.index # Invalid => freeHead.index \in Indices)
    BY DEF TypeOK, Words, Invalid, Indices
  <2>2. ASSUME NEW u \in Threads
        PROVE  /\ pc'[u] \in {"next", "acquire", "link", "publish"} =>
                    mirror'[u].tag <= freeHead.tag
               /\ pc'[u] \in {"next", "acquire"} => mirror'[u].index \in Indices
               /\ pc'[u] = "acquire" /\ mirror'[u] = freeHead =>
                    next'[u] = slots[freeHead.index].index
               /\ pc'[u] = "publish" => slots[owned[u]].index = mirror'[u].index
               /\ pc'[u] = "release" => victim[u] = target[u]
    <3>1. CASE u # t
      BY <1>4, <3>1 DEF MirrorInv
    <3>2. CASE u = t
      <4>1. pc'[t] = to
        BY <1>2 DEF TypeOK
      <4> QED BY <1>2, <2>1, <3>2, <4>1 DEF MirrorInv
    <3> QED BY <3>1, <3>2
  <2> QED BY <1>1, <2>2 DEF MirrorInv
<1>7. BoundInv'
  <2>0. Len(handles) \in Nat /\ Cardinality(Storing) \in Nat
    BY Counts
  <2>1. CASE AcquireLoad(t)
    <3>1. pc[t] = "idle" /\ pc' = [pc EXCEPT ![t] = "next"]
      BY <2>1 DEF AcquireLoad, Moves
    <3>2. Cardinality(Storing') = Cardinality(Storing) + 1
      BY <3>1, Counted
    <3> QED BY <1>1, <2>0, <2>1, <3>2 DEF AcquireLoad, BoundInv
  <2>2. CASE ~AcquireLoad(t)
    <3>1. pc[t] \notin {"next", "acquire", "mark"} => to \notin {"next", "acquire", "mark"}
      <4>1. pc'[t] = to
        BY <1>2 DEF TypeOK
      <4> QED BY <2>2, <4>1 DEF AcquireNext, AcquireRetry, ReleaseLoad, ReleaseRetry, Moves, TypeOK
    <3>2. \/ Storing' = Storing
          \/ Cardinality(Storing') = Cardinality(Storing) - 1
      BY <1>2, <3>1, Counted
    <3> QED BY <1>1, <2>0, <3>2 DEF BoundInv
  <2> QED BY <2>1, <2>2
<1> QED BY <1>3, <1>5, <1>6, <1>7

-----------------------------------------------------------------------------
\* The steps that take a slot from the list, fill it, empty it and put it back.

\* Which slots threads work on.
LEMMA PendingIs ==
  /\ \A i : i \in Pending <=> \E u \in Threads : pc[u] \in Busy /\ owned[u] = i
  /\ \A i : i \in Pending' <=> \E u \in Threads : pc'[u] \in Busy /\ owned'[u] = i
BY DEF Pending, Busy

\* A list without its first slot.
LEMMA RestOf ==
  ASSUME NEW chain \in Seq(Indices), chain # <<>>
  PROVE  /\ Tail(chain) \in Seq(Indices) /\ chain[1] \in Indices
         /\ Len(chain) \in Nat \ {0} /\ Len(Tail(chain)) = Len(chain) - 1
         /\ DOMAIN chain = 1..Len(chain)
         /\ DOMAIN Tail(chain) = 1..(Len(chain) - 1)
         /\ \A k \in 1..(Len(chain) - 1) : Tail(chain)[k] = chain[k + 1]
         /\ Tail(chain) = <<>> <=> Len(chain) = 1
<1>1. /\ Len(chain) \in Nat \ {0} /\ DOMAIN chain = 1..Len(chain)
      /\ Tail(chain) \in Seq(Indices) /\ Len(Tail(chain)) = Len(chain) - 1
  OBVIOUS
<1>2. chain[1] \in Indices
  BY <1>1
<1>3. \A k \in 1..(Len(chain) - 1) : Tail(chain)[k] = chain[k + 1]
  BY <1>1
<1>4. PICK rest : rest = Tail(chain)
  OBVIOUS
<1>5. DOMAIN rest = 1..(Len(chain) - 1) /\ (rest = <<>> <=> Len(chain) = 1)
  <2>1. rest \in Seq(Indices) /\ Len(rest) = Len(chain) - 1
    BY <1>1, <1>4
  <2>2. DOMAIN rest = 1..Len(rest)
    BY <2>1
  <2>3. rest = <<>> <=> Len(rest) = 0
    BY <2>1, EmptySeq
  <2> QED BY <1>1, <2>1, <2>2, <2>3
<1> QED BY <1>1, <1>2, <1>3, <1>4, <1>5

\* A slot is taken: the exchange finds the head the thread has looked at, so that
\* the slot it read then is still the one after it.
LEMMA AcquireExchangeStep ==
  ASSUME TagsLast, NEW t \in Threads, VectorInv, AcquireExchange(t)
  PROVE  VectorInv'
<1> USE DEF VectorInv
<1>1. PICK chain : IsFreeList(chain)
  BY DEF ListInv
<1>2. PICK h : h = mirror[t].index
  OBVIOUS
<1>3. /\ pc[t] = "acquire" /\ pc' = [pc EXCEPT ![t] = "mark"]
      /\ freeHead = mirror[t] /\ freeHead' = Retagged(freeHead, next[t])
      /\ owned' = [owned EXCEPT ![t] = h]
      /\ UNCHANGED <<slots, payload, handles, mirror, next, target, victim>>
  BY <1>2 DEF AcquireExchange, Moves
<1>4. /\ h \in Indices /\ freeHead.index = h /\ h # Invalid
      /\ next[t] = slots[h].index
  BY <1>2, <1>3, RangeAssumption DEF MirrorInv, Indices, Invalid
<1>5. /\ chain \in Seq(Indices) /\ chain # <<>> /\ chain[1] = h
      /\ h \notin Pending /\ payload[h] = 0
  <2>1. chain \in Seq(Indices) /\ chain # <<>> /\ chain[1] = h
    BY <1>1, <1>4 DEF IsFreeList
  <2>2. 1 \in DOMAIN chain
    BY <2>1
  <2> QED BY <1>1, <1>4, <2>1, <2>2 DEF IsFreeList
<1>6. PICK rest : rest = Tail(chain)
  OBVIOUS
<1>7. /\ rest \in Seq(Indices) /\ Len(chain) \in Nat \ {0}
      /\ Len(rest) = Len(chain) - 1
      /\ DOMAIN chain = 1..Len(chain) /\ DOMAIN rest = 1..(Len(chain) - 1)
      /\ \A k \in 1..(Len(chain) - 1) : rest[k] = chain[k + 1]
      /\ rest = <<>> <=> Len(chain) = 1
  BY <1>5, <1>6, RestOf
<1>8. /\ freeHead'.tag = freeHead.tag + 1 /\ freeHead'.index = slots[h].index
      /\ freeHead.tag \in Nat /\ freeHead' \in Words
  <2>1. freeHead.tag \in Nat /\ slots[h].index \in 0..Capacity
    BY <1>4 DEF TypeOK, Words
  <2>2. (freeHead.tag + 1) % TagRange = freeHead.tag + 1
    BY <1>1, <1>3, TagsFit
  <2>3. (freeHead.tag + 1) % TagRange \in 0..(TagRange - 1)
    BY <2>1, RangeAssumption
  <2> QED BY <1>3, <1>4, <2>1, <2>2, <2>3 DEF Retagged, Words
<1>9. TypeOK'
  BY <1>3, <1>4, <1>8 DEF TypeOK
<1>10. OwnInv'
  <2>1. \A u \in Threads \ {t} : pc[u] \in Busy => owned[u] # h
    BY <1>5, PendingIs
  <2> QED BY <1>3, <1>4, <1>5, <2>1 DEF OwnInv, Busy, TypeOK
<1>11. MirrorInv'
  <2> SUFFICES ASSUME NEW u \in Threads
               PROVE  /\ pc'[u] \in {"next", "acquire", "link", "publish"} =>
                           mirror[u].tag <= freeHead'.tag
                      /\ pc'[u] \in {"next", "acquire"} => mirror[u].index \in Indices
                      /\ pc'[u] = "acquire" => mirror[u] # freeHead'
                      /\ pc'[u] = "publish" => slots[owned'[u]].index = mirror[u].index
                      /\ pc'[u] = "release" => victim[u] = target[u]
    BY <1>3 DEF MirrorInv
  <2>1. CASE u = t
    BY <1>3, <2>1 DEF TypeOK
  <2>2. CASE u # t
    <3>1. pc'[u] = pc[u] /\ owned'[u] = owned[u] /\ mirror[u].tag \in Nat
      BY <1>3, <2>2 DEF TypeOK, Words
    <3> QED BY <1>8, <3>1 DEF MirrorInv
  <2> QED BY <2>1, <2>2
<1>12. SlotInv' /\ HandleInv'
  BY <1>3 DEF SlotInv, HandleInv
<1>13. BoundInv'
  BY <1>3, Counted DEF BoundInv
<1>14. IsFreeList(rest)'
  <2>1. \A j, k \in DOMAIN rest : rest[j] = rest[k] => j = k
    <3> SUFFICES ASSUME NEW j \in DOMAIN rest, NEW k \in DOMAIN rest, rest[j] = rest[k]
                 PROVE  j = k
      OBVIOUS
    <3>1. j + 1 \in DOMAIN chain /\ k + 1 \in DOMAIN chain /\ chain[j + 1] = chain[k + 1]
      BY <1>7
    <3>2. j + 1 = k + 1
      BY <1>1, <3>1 DEF IsFreeList
    <3> QED BY <1>7, <3>2
  <2>2. freeHead'.index = IF rest = <<>> THEN Invalid ELSE rest[1]
    <3>1. slots[chain[1]].index = IF 1 = Len(chain) THEN Invalid ELSE chain[2]
      <4>1. 1 \in DOMAIN chain
        BY <1>7
      <4>2. slots[chain[1]].index = IF 1 = Len(chain) THEN Invalid ELSE chain[1 + 1]
        BY <1>1, <4>1 DEF IsFreeList
      <4> QED BY <4>2
    <3>2. Len(chain) # 1 => rest[1] = chain[2]
      BY <1>7
    <3> QED BY <1>5, <1>7, <1>8, <3>1, <3>2
  <2>3. ASSUME NEW k \in DOMAIN rest
        PROVE  slots[rest[k]].index = IF k = Len(rest) THEN Invalid ELSE rest[k + 1]
    <3>1. k + 1 \in DOMAIN chain /\ rest[k] = chain[k + 1] /\ k \in Nat
      BY <1>7
    <3>2. slots[chain[k + 1]].index =
            IF k + 1 = Len(chain) THEN Invalid ELSE chain[(k + 1) + 1]
      BY <1>1, <3>1 DEF IsFreeList
    <3>3. k # Len(rest) => rest[k + 1] = chain[(k + 1) + 1]
      BY <1>7
    <3> QED BY <1>7, <3>1, <3>2, <3>3
  <2>4. ASSUME NEW i \in Indices
        PROVE  (\E k \in DOMAIN rest : rest[k] = i) <=> i \notin Pending' /\ payload[i] = 0
    <3>1. i \in Pending' <=> i \in Pending \/ i = h
      <4>1. pc[t] \notin Busy /\ pc'[t] \in Busy /\ owned'[t] = h
        BY <1>3 DEF Busy, TypeOK
      <4>2. \A u \in Threads \ {t} : pc'[u] = pc[u] /\ owned'[u] = owned[u]
        BY <1>3 DEF TypeOK
      <4> QED BY <4>1, <4>2, PendingIs
    <3>2. (\E k \in DOMAIN chain : chain[k] = i) <=> i \notin Pending /\ payload[i] = 0
      BY <1>1 DEF IsFreeList
    <3>3. (\E k \in DOMAIN rest : rest[k] = i) <=> (\E k \in DOMAIN chain : chain[k] = i) /\ i # h
      <4>1. ASSUME NEW k \in DOMAIN rest, rest[k] = i
            PROVE  (\E j \in DOMAIN chain : chain[j] = i) /\ i # h
        <5>1. k + 1 \in DOMAIN chain /\ 1 \in DOMAIN chain /\ k + 1 # 1 /\ chain[k + 1] = i
          BY <1>7, <4>1
        <5> QED BY <1>1, <1>5, <5>1 DEF IsFreeList
      <4>2. ASSUME NEW k \in DOMAIN chain, chain[k] = i, i # h
            PROVE  \E j \in DOMAIN rest : rest[j] = i
        <5>1. k # 1
          BY <1>5, <4>2
        <5>2. k - 1 \in DOMAIN rest /\ rest[k - 1] = chain[(k - 1) + 1] /\ (k - 1) + 1 = k
          BY <1>7, <5>1
        <5> QED BY <4>2, <5>2
      <4> QED BY <4>1, <4>2
    <3> QED BY <1>5, <3>1, <3>2, <3>3
  <2>5. freeHead'.tag = 2 * (Len(handles) + Cardinality(Marking')) - Capacity + Len(rest)
    <3>1. /\ Cardinality(Marking') = Cardinality(Marking) + 1
          /\ Cardinality(Marking) \in Nat /\ Len(handles) \in Nat
      BY <1>3, Counted, Counts
    <3>2. freeHead.tag = 2 * (Len(handles) + Cardinality(Marking)) - Capacity + Len(chain)
      BY <1>1 DEF IsFreeList
    <3> QED BY <1>7, <1>8, <3>1, <3>2, RangeAssumption
  <2> QED BY <1>3, <1>7, <2>1, <2>2, <2>3, <2>4, <2>5 DEF IsFreeList
<1>15. ListInv'
  BY <1>14 DEF ListInv
<1> QED BY <1>9, <1>10, <1>11, <1>12, <1>13, <1>15

\* The head of the list is nobody's.
LEMMA HeadFree ==
  ASSUME VectorInv, freeHead.index \in Indices
  PROVE  freeHead.index \notin Pending /\ payload[freeHead.index] = 0
<1>1. PICK chain : IsFreeList(chain)
  BY DEF VectorInv, ListInv
<1>2. Invalid \notin Indices
  BY RangeAssumption DEF Indices, Invalid
<1>3. chain \in Seq(Indices) /\ chain # <<>> /\ chain[1] = freeHead.index
  BY <1>1, <1>2 DEF IsFreeList
<1>4. 1 \in DOMAIN chain
  BY <1>3
<1> QED BY <1>1, <1>3, <1>4 DEF IsFreeList

\* A step that changes a slot that is not on the list, and leaves it off the list.
LEMMA OffList ==
  ASSUME VectorInv, freeHead' = freeHead, NEW i \in Indices,
         i \in Pending \/ payload[i] # 0, i \in Pending' \/ payload'[i] # 0,
         \A j \in Indices \ {i} : /\ slots'[j] = slots[j] /\ payload'[j] = payload[j]
                                  /\ j \in Pending' <=> j \in Pending,
         Len(handles') + Cardinality(Marking') = Len(handles) + Cardinality(Marking)
  PROVE  ListInv'
<1>1. PICK chain : IsFreeList(chain)
  BY DEF VectorInv, ListInv
<1>2. \A k \in DOMAIN chain : chain[k] \in Indices \ {i}
  BY <1>1 DEF IsFreeList
<1>3. \A k \in DOMAIN chain : slots'[chain[k]] = slots[chain[k]]
  BY <1>2
<1>4. \A j \in Indices :
        (\E k \in DOMAIN chain : chain[k] = j) <=> j \notin Pending' /\ payload'[j] = 0
  BY <1>1 DEF IsFreeList
<1>5. IsFreeList(chain)'
  BY <1>1, <1>3, <1>4 DEF IsFreeList
<1> QED BY <1>5 DEF ListInv

\* The element is in its slot and the id is returned.
LEMMA MarkStep ==
  ASSUME NEW t \in Threads, VectorInv, Mark(t)
  PROVE  VectorInv'
<1> USE RangeAssumption DEF VectorInv
<1>1. PICK i : i = owned[t]
  OBVIOUS
<1>2. PICK new : new = Redirected(slots[i], i)
  OBVIOUS
<1>3. PICK n : n = Len(handles) + 1
  OBVIOUS
<1>4. /\ pc[t] = "mark" /\ pc' = [pc EXCEPT ![t] = "idle"] /\ i \in Indices
      /\ slots' = [slots EXCEPT ![i] = new] /\ payload' = [payload EXCEPT ![i] = n]
      /\ handles' = Append(handles, new)
      /\ UNCHANGED <<freeHead, mirror, next, owned, target, victim>>
  <2>1. i \in Indices
    BY <1>1 DEF TypeOK
  <2>2. slots' = [slots EXCEPT ![i] = new]
    BY <1>1, <1>2 DEF Mark
  <2>3. slots'[i] = new
    BY <2>1, <2>2 DEF TypeOK
  <2> QED BY <1>1, <1>3, <2>1, <2>2, <2>3 DEF Mark, Moves, locals
<1>5. /\ new \in Words /\ new.tag = slots[i].tag /\ new.index = i
      /\ slots[i].tag \in Nat
  <2>1. slots[i] \in Words /\ i \in 0..Capacity
    BY <1>4 DEF TypeOK, Indices
  <2>2. new = [slots[i] EXCEPT !.index = i]
    BY <1>2 DEF Redirected
  <2> QED BY <2>1, <2>2 DEF Words
<1>6. /\ handles \in Seq(Words) /\ Len(handles) \in Nat /\ n \in Nat \ {0}
      /\ handles' \in Seq(Words) /\ Len(handles') = n /\ handles'[n] = new
      /\ DOMAIN handles = 1..Len(handles) /\ DOMAIN handles' = 1..n
      /\ \A m \in DOMAIN handles : handles'[m] = handles[m] /\ m # n /\ m \in DOMAIN handles'
  <2>1. handles \in Seq(Words) /\ Len(handles) \in Nat /\ DOMAIN handles = 1..Len(handles)
    BY DEF TypeOK
  <2> QED BY <1>3, <1>4, <1>5, <2>1
<1>7. payload[i] = 0 /\ \A u \in Threads \ {t} : pc[u] \in Busy => owned[u] # i
  BY <1>1, <1>4 DEF OwnInv, Busy
<1>8. /\ Cardinality(Storing') = Cardinality(Storing) - 1
      /\ Cardinality(Marking') = Cardinality(Marking) - 1
      /\ Cardinality(Storing) \in Nat /\ Cardinality(Marking) \in Nat
      /\ Cardinality(Marking) <= Cardinality(Storing)
  <2>1. TypeOK /\ "idle" # "mark" /\ "idle" \notin {"next", "acquire", "mark"}
    OBVIOUS
  <2>2. /\ Cardinality(Storing) \in Nat /\ Cardinality(Marking) \in Nat
        /\ Cardinality(Marking) <= Cardinality(Storing)
    BY Counts
  <2> QED BY <1>4, <2>1, <2>2, Counted
<1>9. Cardinality(Storing) # 0
  <2>1. t \in Storing /\ IsFiniteSet(Storing)
    BY <1>4, Counts DEF Storing
  <2> QED BY <2>1, FS_EmptySet
<1>10. BoundInv' /\ n <= MaxElements
  BY <1>3, <1>6, <1>8, <1>9 DEF BoundInv
<1>11. TypeOK'
  BY <1>4, <1>5, <1>6, <1>10 DEF TypeOK
<1>12. OwnInv'
  <2>1. \A u \in Threads : pc'[u] \in Busy => u # t /\ pc[u] \in Busy /\ owned[u] # i
    BY <1>4, <1>7 DEF TypeOK, Busy
  <2>2. \A u \in Threads : pc'[u] \in Busy => payload'[owned[u]] = 0
    BY <1>4, <2>1 DEF OwnInv, TypeOK
  <2> QED BY <1>4, <2>1, <2>2 DEF OwnInv
<1>13. MirrorInv'
  <2>1. freeHead.index \in Indices => freeHead.index # i
    <3>1. i \in Pending
      BY <1>1, <1>4, PendingIs DEF Busy
    <3> QED BY <3>1, HeadFree
  <2>2. \A u \in Threads : pc'[u] \in Busy => owned[u] # i
    BY <1>4, <1>7 DEF TypeOK, Busy
  <2>3. ASSUME NEW u \in Threads
        PROVE  /\ pc'[u] \in {"next", "acquire", "link", "publish"} =>
                    mirror[u].tag <= freeHead.tag
               /\ pc'[u] \in {"next", "acquire"} => mirror[u].index \in Indices
               /\ pc'[u] = "acquire" /\ mirror[u] = freeHead =>
                    next[u] = slots'[freeHead.index].index
               /\ pc'[u] = "publish" => slots'[owned[u]].index = mirror[u].index
               /\ pc'[u] = "release" => victim[u] = target[u]
    <3>1. CASE u = t
      BY <1>4, <3>1 DEF TypeOK
    <3>2. CASE u # t
      <4>1. pc'[u] = pc[u] /\ owned[u] \in Indices
        BY <1>4, <3>2 DEF TypeOK
      <4>2. pc[u] = "acquire" /\ mirror[u] = freeHead =>
              slots'[freeHead.index] = slots[freeHead.index]
        BY <1>4, <2>1 DEF MirrorInv, TypeOK
      <4>3. pc[u] = "publish" => slots'[owned[u]] = slots[owned[u]]
        BY <1>4, <2>2, <4>1 DEF TypeOK, Busy
      <4> QED BY <4>1, <4>2, <4>3 DEF MirrorInv
    <3> QED BY <3>1, <3>2
  <2> QED BY <1>4, <2>3 DEF MirrorInv
<1>14. SlotInv'
  <2> SUFFICES ASSUME NEW j \in Indices
               PROVE  /\ slots'[j].tag <= n
                      /\ payload'[j] # 0 => /\ payload'[j] \in DOMAIN handles'
                                           /\ slots'[j].tag < payload'[j]
                                           /\ handles'[payload'[j]] = slots'[j]
                                           /\ slots'[j].index = j
    BY <1>6 DEF SlotInv
  <2>1. CASE j = i
    <3>1. slots[i].tag <= Len(handles)
      BY <1>4 DEF SlotInv
    <3>2. slots'[j] = new /\ payload'[j] = n
      BY <1>4, <2>1 DEF TypeOK
    <3>3. slots[i].tag < n
      BY <1>3, <1>5, <1>6, <3>1
    <3> QED BY <1>5, <1>6, <2>1, <3>2, <3>3
  <2>2. CASE j # i
    <3>1. slots'[j] = slots[j] /\ payload'[j] = payload[j] /\ slots[j].tag \in Nat
      BY <1>4, <2>2 DEF TypeOK, Words
    <3>2. slots[j].tag <= n
      BY <1>3, <1>6, <3>1 DEF SlotInv
    <3> QED BY <1>6, <3>1, <3>2 DEF SlotInv
  <2> QED BY <2>1, <2>2
<1>15. HandleInv'
  <2> SUFFICES ASSUME NEW m \in DOMAIN handles', NEW j, j = handles'[m].index
               PROVE  /\ j \in Indices
                      /\ payload'[j] = m \/ handles'[m].tag < slots'[j].tag
    BY DEF HandleInv
  <2>1. CASE m = n
    BY <1>4, <1>5, <1>6, <2>1 DEF TypeOK
  <2>2. CASE m # n
    <3>1. m \in DOMAIN handles /\ handles'[m] = handles[m] /\ j \in Indices
      BY <1>6, <2>2, <1>3 DEF HandleInv
    <3>2. payload[j] = m \/ handles[m].tag < slots[j].tag
      BY <3>1 DEF HandleInv
    <3>3. m # 0
      BY <1>6, <3>1
    <3>4. CASE j = i
      <4>1. slots'[j] = new /\ payload[j] = 0
        BY <1>4, <1>7, <3>4 DEF TypeOK
      <4> QED BY <1>5, <3>1, <3>2, <3>3, <3>4, <4>1
    <3>5. CASE j # i
      <4>1. slots'[j] = slots[j] /\ payload'[j] = payload[j]
        BY <1>4, <3>1, <3>5 DEF TypeOK
      <4> QED BY <3>1, <3>2, <4>1
    <3> QED BY <3>1, <3>4, <3>5
  <2> QED BY <2>1, <2>2
<1>16. ListInv'
  <2>1. i \in Pending /\ payload'[i] # 0
    BY <1>1, <1>4, <1>6, PendingIs DEF Busy, TypeOK
  <2>2. \A j \in Indices \ {i} : /\ slots'[j] = slots[j] /\ payload'[j] = payload[j]
                                 /\ j \in Pending' <=> j \in Pending
    <3>1. \A u \in Threads \ {t} : pc'[u] = pc[u] /\ owned'[u] = owned[u]
      BY <1>4 DEF TypeOK
    <3>2. owned[t] = i /\ owned'[t] = i
      BY <1>1, <1>4
    <3>3. \A j \in Indices \ {i} : j \in Pending' <=> j \in Pending
      BY <3>1, <3>2, PendingIs
    <3> QED BY <1>4, <3>3 DEF TypeOK
  <2>3. Len(handles') + Cardinality(Marking') = Len(handles) + Cardinality(Marking)
    BY <1>3, <1>6, <1>8
  <2> QED BY <1>4, <2>1, <2>2, <2>3, OffList
<1> QED BY <1>10, <1>11, <1>12, <1>13, <1>14, <1>15, <1>16

\* The element whose id is still that of its slot is destroyed, and no other: the
\* ids of older elements of the slot have smaller tags.
LEMMA EraseLockStep ==
  ASSUME TagsLast, NEW t \in Threads, NEW n \in DOMAIN handles, VectorInv,
         EraseLock(t, n)
  PROVE  VectorInv' /\ payload[handles[n].index] = n
<1> USE RangeAssumption DEF VectorInv
<1>1. PICK i : i = handles[n].index
  OBVIOUS
<1>2. PICK new : new = Retagged(handles[n], i)
  OBVIOUS
<1>3. /\ i \in Indices /\ slots[i] = handles[n] /\ slots[i] \in Words
      /\ n \in 1..Len(handles) /\ Len(handles) \in Nat /\ Len(handles) <= MaxElements
  <2>1. n \in 1..Len(handles) /\ Len(handles) \in Nat
    BY DEF TypeOK
  <2>2. Cardinality(Storing) \in Nat
    BY Counts
  <2> QED BY <1>1, <2>1, <2>2 DEF EraseLock, HandleInv, TypeOK, BoundInv
<1>4. payload[i] = n /\ slots[i].tag < n /\ slots[i].tag \in Nat
  <2>1. slots[i].tag \in Nat
    BY <1>3 DEF Words
  <2>2. payload[i] = n
    BY <1>1, <1>3, <2>1 DEF HandleInv
  <2> QED BY <1>3, <2>1, <2>2 DEF SlotInv
<1>5. /\ pc[t] = "idle" /\ pc' = [pc EXCEPT ![t] = "release"]
      /\ slots' = [slots EXCEPT ![i] = new] /\ payload' = [payload EXCEPT ![i] = 0]
      /\ owned' = [owned EXCEPT ![t] = i]
      /\ target' = [target EXCEPT ![t] = n] /\ victim' = [victim EXCEPT ![t] = n]
      /\ UNCHANGED <<freeHead, handles, mirror, next>>
  BY <1>1, <1>2, <1>4 DEF EraseLock, Moves
<1>6. new \in Words /\ new.tag = slots[i].tag + 1 /\ new.index = i
  <2>1. slots[i].tag + 1 \in 0..(TagRange - 1)
    BY <1>3, <1>4 DEF TagsLast
  <2>2. (slots[i].tag + 1) % TagRange = slots[i].tag + 1
    BY <2>1
  <2> QED BY <1>2, <1>3, <2>1, <2>2 DEF Retagged, Words, Indices
<1>7. i \notin Pending /\ \A u \in Threads : pc[u] \in Busy => owned[u] # i
  <2>1. \A u \in Threads : pc[u] \in Busy => owned[u] # i
    BY <1>3, <1>4 DEF OwnInv
  <2> QED BY <2>1, PendingIs
<1>8. TypeOK'
  BY <1>3, <1>5, <1>6 DEF TypeOK
<1>9. OwnInv'
  <2>1. \A u \in Threads \ {t} : pc'[u] = pc[u] /\ owned'[u] = owned[u]
    BY <1>5 DEF TypeOK
  <2>2. owned'[t] = i /\ payload'[i] = 0
    BY <1>3, <1>5 DEF TypeOK
  <2>3. \A u \in Threads \ {t} : pc[u] \in Busy => payload'[owned[u]] = 0
    BY <1>3, <1>5 DEF OwnInv, TypeOK
  <2> QED BY <1>7, <2>1, <2>2, <2>3 DEF OwnInv
<1>10. MirrorInv'
  <2>1. freeHead.index \in Indices => freeHead.index # i
    BY <1>3, <1>4, HeadFree
  <2>2. ASSUME NEW u \in Threads
        PROVE  /\ pc'[u] \in {"next", "acquire", "link", "publish"} =>
                    mirror[u].tag <= freeHead.tag
               /\ pc'[u] \in {"next", "acquire"} => mirror[u].index \in Indices
               /\ pc'[u] = "acquire" /\ mirror[u] = freeHead =>
                    next[u] = slots'[freeHead.index].index
               /\ pc'[u] = "publish" => slots'[owned'[u]].index = mirror[u].index
               /\ pc'[u] = "release" => victim'[u] = target'[u]
    <3>1. CASE u = t
      BY <1>5, <3>1 DEF TypeOK
    <3>2. CASE u # t
      <4>1. /\ pc'[u] = pc[u] /\ owned'[u] = owned[u] /\ owned[u] \in Indices
            /\ victim'[u] = victim[u] /\ target'[u] = target[u]
        BY <1>5, <3>2 DEF TypeOK
      <4>2. pc[u] = "acquire" /\ mirror[u] = freeHead =>
              slots'[freeHead.index] = slots[freeHead.index]
        BY <1>5, <2>1 DEF MirrorInv, TypeOK
      <4>3. pc[u] = "publish" => slots'[owned[u]] = slots[owned[u]]
        BY <1>5, <1>7, <4>1 DEF TypeOK, Busy
      <4> QED BY <4>1, <4>2, <4>3 DEF MirrorInv
    <3> QED BY <3>1, <3>2
  <2> QED BY <1>5, <2>2 DEF MirrorInv
<1>11. SlotInv'
  <2> SUFFICES ASSUME NEW j \in Indices
               PROVE  /\ slots'[j].tag <= Len(handles)
                      /\ payload'[j] # 0 => /\ payload'[j] \in DOMAIN handles
                                           /\ slots'[j].tag < payload'[j]
                                           /\ handles[payload'[j]] = slots'[j]
                                           /\ slots'[j].index = j
    BY <1>5 DEF SlotInv
  <2>1. CASE j = i
    BY <1>3, <1>4, <1>5, <1>6, <2>1 DEF TypeOK
  <2>2. CASE j # i
    BY <1>5, <2>2 DEF SlotInv, TypeOK
  <2> QED BY <2>1, <2>2
<1>12. HandleInv'
  <2> SUFFICES ASSUME NEW m \in DOMAIN handles, NEW j, j = handles[m].index
               PROVE  j \in Indices /\ (payload'[j] = m \/ handles[m].tag < slots'[j].tag)
    BY <1>5 DEF HandleInv
  <2>1. j \in Indices /\ (payload[j] = m \/ handles[m].tag < slots[j].tag)
    BY DEF HandleInv
  <2>2. handles[m].tag \in Nat /\ slots[j].tag \in Nat
    <3>1. handles[m] \in Words /\ slots[j] \in Words
      BY <2>1 DEF TypeOK
    <3> QED BY <3>1 DEF Words
  <2>3. CASE j = i
    <3>1. slots'[j].tag = slots[j].tag + 1
      BY <1>3, <1>5, <1>6, <2>3 DEF TypeOK
    <3>2. payload[j] = m => handles[m].tag = slots[j].tag
      BY <1>3, <1>4, <2>3
    <3> QED BY <2>1, <2>2, <3>1, <3>2
  <2>4. CASE j # i
    BY <1>5, <2>1, <2>4 DEF TypeOK
  <2> QED BY <2>3, <2>4
<1>13. Marking' = Marking /\ Storing' = Storing
  <2>1. /\ TypeOK /\ pc[t] # "mark" /\ "release" # "mark"
        /\ pc[t] \notin {"next", "acquire", "mark"}
        /\ "release" \notin {"next", "acquire", "mark"}
    BY <1>5
  <2> QED BY <1>5, <2>1, Counted
<1>14. BoundInv'
  BY <1>5, <1>13 DEF BoundInv
<1>15. ListInv'
  <2>1. \A u \in Threads \ {t} : pc'[u] = pc[u] /\ owned'[u] = owned[u]
    BY <1>5 DEF TypeOK
  <2>2. pc[t] \notin Busy /\ pc'[t] \in Busy /\ owned'[t] = i
    BY <1>5 DEF TypeOK, Busy
  <2>3. i \in Pending' /\ \A j \in Indices \ {i} : j \in Pending' <=> j \in Pending
    BY <2>1, <2>2, PendingIs
  <2>4. \A j \in Indices \ {i} : slots'[j] = slots[j] /\ payload'[j] = payload[j]
    BY <1>5 DEF TypeOK
  <2>5. payload[i] # 0 /\ freeHead' = freeHead
    BY <1>3, <1>4, <1>5
  <2>6. Len(handles') + Cardinality(Marking') = Len(handles) + Cardinality(Marking)
    BY <1>5, <1>13
  <2> QED BY <1>3, <2>3, <2>4, <2>5, <2>6, OffList
<1> QED BY <1>1, <1>4, <1>8, <1>9, <1>10, <1>11, <1>12, <1>14, <1>15

\* The slot is linked to the head the thread has looked at.
LEMMA ReleaseLinkStep ==
  ASSUME NEW t \in Threads, VectorInv, ReleaseLink(t)
  PROVE  VectorInv'
<1> USE RangeAssumption DEF VectorInv
<1>1. PICK i : i = owned[t]
  OBVIOUS
<1>2. PICK new : new = Redirected(slots[i], mirror[t].index)
  OBVIOUS
<1>3. /\ pc[t] = "link" /\ pc' = [pc EXCEPT ![t] = "publish"] /\ i \in Indices
      /\ slots' = [slots EXCEPT ![i] = new]
      /\ UNCHANGED <<freeHead, payload, handles, mirror, next, owned, target, victim>>
  BY <1>1, <1>2 DEF ReleaseLink, Moves, locals, TypeOK
<1>4. new \in Words /\ new.tag = slots[i].tag /\ new.index = mirror[t].index
  <2>1. slots[i] \in Words /\ mirror[t].index \in 0..Capacity
    BY <1>3 DEF TypeOK, Words
  <2>2. new = [slots[i] EXCEPT !.index = mirror[t].index]
    BY <1>2 DEF Redirected
  <2> QED BY <2>1, <2>2 DEF Words
<1>5. payload[i] = 0 /\ i \in Pending /\ \A u \in Threads \ {t} : pc[u] \in Busy => owned[u] # i
  <2>1. pc[t] \in Busy
    BY <1>3 DEF Busy
  <2> QED BY <1>1, <2>1, PendingIs DEF OwnInv
<1>6. TypeOK'
  BY <1>3, <1>4 DEF TypeOK
<1>7. /\ \A u \in Threads : pc'[u] \in Busy <=> pc[u] \in Busy
      /\ \A u \in Threads \ {t} : pc'[u] = pc[u]
      /\ pc'[t] = "publish"
  BY <1>3 DEF Busy, TypeOK
<1>8. OwnInv'
  BY <1>3, <1>7 DEF OwnInv
<1>9. MirrorInv'
  <2>1. freeHead.index \in Indices => freeHead.index # i
    BY <1>5, HeadFree
  <2>2. ASSUME NEW u \in Threads
        PROVE  /\ pc'[u] \in {"next", "acquire", "link", "publish"} =>
                    mirror[u].tag <= freeHead.tag
               /\ pc'[u] \in {"next", "acquire"} => mirror[u].index \in Indices
               /\ pc'[u] = "acquire" /\ mirror[u] = freeHead =>
                    next[u] = slots'[freeHead.index].index
               /\ pc'[u] = "publish" => slots'[owned[u]].index = mirror[u].index
               /\ pc'[u] = "release" => victim[u] = target[u]
    <3>1. CASE u = t
      <4>1. slots'[owned[u]] = new /\ pc'[u] = "publish"
        BY <1>1, <1>3, <1>7, <3>1 DEF TypeOK
      <4> QED BY <1>3, <1>4, <3>1, <4>1 DEF MirrorInv
    <3>2. CASE u # t
      <4>1. pc'[u] = pc[u] /\ owned[u] \in Indices
        BY <1>7, <3>2 DEF TypeOK
      <4>2. pc[u] = "acquire" /\ mirror[u] = freeHead =>
              slots'[freeHead.index] = slots[freeHead.index]
        BY <1>3, <2>1 DEF MirrorInv, TypeOK
      <4>3. pc[u] = "publish" => slots'[owned[u]] = slots[owned[u]]
        BY <1>3, <1>5, <3>2, <4>1 DEF TypeOK, Busy
      <4> QED BY <4>1, <4>2, <4>3 DEF MirrorInv
    <3> QED BY <3>1, <3>2
  <2> QED BY <1>3, <2>2 DEF MirrorInv
<1>10. \A j \in Indices : slots'[j].tag = slots[j].tag /\ (j # i => slots'[j] = slots[j])
  BY <1>3, <1>4 DEF TypeOK
<1>11. SlotInv'
  BY <1>3, <1>5, <1>10 DEF SlotInv
<1>12. HandleInv'
  BY <1>3, <1>10 DEF HandleInv
<1>13. Marking' = Marking /\ Storing' = Storing
  <2>1. /\ TypeOK /\ pc[t] # "mark" /\ "publish" # "mark"
        /\ pc[t] \notin {"next", "acquire", "mark"}
        /\ "publish" \notin {"next", "acquire", "mark"}
    BY <1>3
  <2> QED BY <1>3, <2>1, Counted
<1>14. BoundInv'
  BY <1>3, <1>13 DEF BoundInv
<1>15. ListInv'
  <2>1. i \in Pending' /\ \A j \in Indices \ {i} : j \in Pending' <=> j \in Pending
    BY <1>3, <1>5, <1>7, PendingIs
  <2>2. \A j \in Indices \ {i} : slots'[j] = slots[j] /\ payload'[j] = payload[j]
    BY <1>3, <1>10
  <2>3. Len(handles') + Cardinality(Marking') = Len(handles) + Cardinality(Marking)
    BY <1>3, <1>13
  <2> QED BY <1>3, <1>5, <2>1, <2>2, <2>3, OffList
<1> QED BY <1>6, <1>8, <1>9, <1>11, <1>12, <1>14, <1>15

\* A list with a slot put before it.
LEMMA PutFirst ==
  ASSUME NEW chain \in Seq(Indices), NEW i \in Indices
  PROVE  /\ <<i>> \o chain \in Seq(Indices) /\ <<i>> \o chain # <<>>
         /\ Len(chain) \in Nat /\ Len(<<i>> \o chain) = Len(chain) + 1
         /\ DOMAIN chain = 1..Len(chain)
         /\ DOMAIN (<<i>> \o chain) = 1..(Len(chain) + 1)
         /\ (<<i>> \o chain)[1] = i
         /\ \A k \in 1..Len(chain) : (<<i>> \o chain)[k + 1] = chain[k]
<1>1. /\ <<i>> \o chain \in Seq(Indices)
      /\ Len(chain) \in Nat /\ Len(<<i>> \o chain) = Len(chain) + 1
      /\ DOMAIN chain = 1..Len(chain)
      /\ (<<i>> \o chain)[1] = i
      /\ \A k \in 1..Len(chain) : (<<i>> \o chain)[k + 1] = chain[k]
  OBVIOUS
<1>2. PICK longer : longer = <<i>> \o chain
  OBVIOUS
<1>3. DOMAIN longer = 1..(Len(chain) + 1) /\ longer # <<>>
  <2>1. longer \in Seq(Indices) /\ Len(longer) = Len(chain) + 1
    BY <1>1, <1>2
  <2>2. Len(longer) # 0
    BY <1>1, <2>1
  <2> QED BY <2>1, <2>2, EmptySeq
<1> QED BY <1>1, <1>2, <1>3

\* The slot is put back: the exchange finds the head the slot is linked to.
LEMMA ReleaseExchangeStep ==
  ASSUME TagsLast, NEW t \in Threads, VectorInv, ReleaseExchange(t)
  PROVE  VectorInv'
<1> USE DEF VectorInv
<1>1. PICK chain : IsFreeList(chain)
  BY DEF ListInv
<1>2. PICK i : i = owned[t]
  OBVIOUS
<1>3. /\ pc[t] = "publish" /\ pc' = [pc EXCEPT ![t] = "idle"] /\ i \in Indices
      /\ freeHead = mirror[t] /\ freeHead' = Retagged(freeHead, i)
      /\ slots[i].index = freeHead.index
      /\ UNCHANGED <<slots, payload, handles, mirror, next, owned, target, victim>>
  BY <1>2 DEF ReleaseExchange, Moves, locals, TypeOK, MirrorInv
<1>4. payload[i] = 0 /\ i \in Pending /\ \A u \in Threads \ {t} : pc[u] \in Busy => owned[u] # i
  <2>1. pc[t] \in Busy
    BY <1>3 DEF Busy
  <2> QED BY <1>2, <2>1, PendingIs DEF OwnInv
<1>5. PICK longer : longer = <<i>> \o chain
  OBVIOUS
<1>6. /\ chain \in Seq(Indices) /\ longer \in Seq(Indices) /\ longer # <<>>
      /\ Len(chain) \in Nat /\ Len(longer) = Len(chain) + 1
      /\ DOMAIN chain = 1..Len(chain) /\ DOMAIN longer = 1..(Len(chain) + 1)
      /\ longer[1] = i
      /\ \A k \in 1..Len(chain) : longer[k + 1] = chain[k]
  <2>1. chain \in Seq(Indices)
    BY <1>1 DEF IsFreeList
  <2> QED BY <1>3, <1>5, <2>1, PutFirst
<1>7. \A k \in DOMAIN chain : chain[k] # i
  BY <1>1, <1>3, <1>4 DEF IsFreeList
<1>8. \A j, k \in DOMAIN longer : longer[j] = longer[k] => j = k
  <2> SUFFICES ASSUME NEW j \in DOMAIN longer, NEW k \in DOMAIN longer,
                      longer[j] = longer[k]
               PROVE  j = k
    OBVIOUS
  <2>1. ASSUME NEW m \in DOMAIN longer, m # 1
        PROVE  m - 1 \in DOMAIN chain /\ longer[m] = chain[m - 1]
    <3>1. m - 1 \in 1..Len(chain) /\ (m - 1) + 1 = m
      BY <1>6, <2>1
    <3> QED BY <1>6, <3>1
  <2>2. CASE j = 1 \/ k = 1
    BY <1>6, <1>7, <2>1, <2>2
  <2>3. CASE j # 1 /\ k # 1
    <3>1. /\ j - 1 \in DOMAIN chain /\ k - 1 \in DOMAIN chain
          /\ chain[j - 1] = chain[k - 1]
      BY <2>1, <2>3
    <3>2. j - 1 = k - 1
      BY <1>1, <3>1 DEF IsFreeList
    <3> QED BY <1>6, <3>2
  <2> QED BY <2>2, <2>3
<1>9. /\ freeHead'.tag = freeHead.tag + 1 /\ freeHead'.index = i
      /\ freeHead.tag \in Nat /\ freeHead' \in Words
  <2>1. freeHead.tag \in Nat /\ i \in 0..Capacity
    BY <1>3, RangeAssumption DEF TypeOK, Words, Indices
  <2>2. Len(longer) <= Capacity
    BY <1>6, <1>8, ChainLength
  <2>3. Len(chain) < Capacity
    BY <1>6, <2>2, RangeAssumption
  <2>4. (freeHead.tag + 1) % TagRange = freeHead.tag + 1
    BY <1>1, <2>3, TagsFit
  <2>5. (freeHead.tag + 1) % TagRange \in 0..(TagRange - 1)
    BY <2>1, RangeAssumption
  <2> QED BY <1>3, <2>1, <2>4, <2>5 DEF Retagged, Words
<1>10. TypeOK'
  BY <1>3, <1>9 DEF TypeOK
<1>11. /\ \A u \in Threads \ {t} : pc'[u] = pc[u]
       /\ pc'[t] = "idle" /\ "idle" \notin Busy
  BY <1>3 DEF Busy, TypeOK
<1>12. OwnInv'
  BY <1>3, <1>11 DEF OwnInv
<1>13. MirrorInv'
  <2> SUFFICES ASSUME NEW u \in Threads
               PROVE  /\ pc'[u] \in {"next", "acquire", "link", "publish"} =>
                           mirror[u].tag <= freeHead'.tag
                      /\ pc'[u] \in {"next", "acquire"} => mirror[u].index \in Indices
                      /\ pc'[u] = "acquire" => mirror[u] # freeHead'
                      /\ pc'[u] = "publish" => slots[owned[u]].index = mirror[u].index
                      /\ pc'[u] = "release" => victim[u] = target[u]
    BY <1>3 DEF MirrorInv
  <2>1. CASE u = t
    BY <1>11, <2>1
  <2>2. CASE u # t
    <3>1. pc'[u] = pc[u] /\ mirror[u].tag \in Nat
      BY <1>11, <2>2 DEF TypeOK, Words
    <3> QED BY <1>9, <3>1 DEF MirrorInv
  <2> QED BY <2>1, <2>2
<1>14. SlotInv' /\ HandleInv'
  BY <1>3 DEF SlotInv, HandleInv
<1>15. Marking' = Marking /\ Storing' = Storing
  <2>1. /\ TypeOK /\ pc[t] # "mark" /\ "idle" # "mark"
        /\ pc[t] \notin {"next", "acquire", "mark"}
        /\ "idle" \notin {"next", "acquire", "mark"}
    BY <1>3
  <2> QED BY <1>3, <2>1, Counted
<1>16. BoundInv'
  BY <1>3, <1>15 DEF BoundInv
<1>17. IsFreeList(longer)'
  <2>1. freeHead'.index = IF longer = <<>> THEN Invalid ELSE longer[1]
    BY <1>6, <1>9
  <2>2. ASSUME NEW k \in DOMAIN longer
        PROVE  slots[longer[k]].index = IF k = Len(longer) THEN Invalid ELSE longer[k + 1]
    <3>1. CASE k = 1
      <4>1. freeHead.index = IF chain = <<>> THEN Invalid ELSE chain[1]
        BY <1>1 DEF IsFreeList
      <4>2. chain = <<>> <=> Len(chain) = 0
        BY <1>6, EmptySeq
      <4>3. Len(chain) # 0 => longer[2] = chain[1]
        <5>1. Len(chain) # 0 => 1 \in 1..Len(chain)
          BY <1>6
        <5> QED BY <1>6, <5>1
      <4> QED BY <1>3, <1>6, <3>1, <4>1, <4>2, <4>3
    <3>2. CASE k # 1
      <4>1. k - 1 \in DOMAIN chain /\ (k - 1) + 1 = k /\ k \in Nat
        BY <1>6, <3>2
      <4>2. longer[k] = chain[k - 1]
        BY <1>6, <4>1
      <4>3. slots[chain[k - 1]].index =
              IF k - 1 = Len(chain) THEN Invalid ELSE chain[(k - 1) + 1]
        BY <1>1, <4>1 DEF IsFreeList
      <4>4. k # Len(longer) => longer[k + 1] = chain[k]
        BY <1>6, <4>1
      <4> QED BY <1>6, <4>1, <4>2, <4>3, <4>4
    <3> QED BY <3>1, <3>2
  <2>3. ASSUME NEW j \in Indices
        PROVE  (\E k \in DOMAIN longer : longer[k] = j) <=> j \notin Pending' /\ payload[j] = 0
    <3>1. j \in Pending' <=> j \in Pending /\ j # i
      <4>1. pc[t] \in Busy
        BY <1>3 DEF Busy
      <4> QED BY <1>2, <1>3, <1>4, <1>11, <4>1, PendingIs
    <3>2. (\E k \in DOMAIN chain : chain[k] = j) <=> j \notin Pending /\ payload[j] = 0
      BY <1>1 DEF IsFreeList
    <3>3. (\E k \in DOMAIN longer : longer[k] = j) <=> (\E k \in DOMAIN chain : chain[k] = j) \/ j = i
      <4>1. ASSUME NEW k \in DOMAIN longer, longer[k] = j, j # i
            PROVE  \E m \in DOMAIN chain : chain[m] = j
        <5>1. k - 1 \in DOMAIN chain /\ (k - 1) + 1 = k
          BY <1>6, <4>1
        <5> QED BY <1>6, <4>1, <5>1
      <4>2. ASSUME NEW k \in DOMAIN chain
            PROVE  k + 1 \in DOMAIN longer /\ longer[k + 1] = chain[k]
        BY <1>6
      <4>3. 1 \in DOMAIN longer
        BY <1>6
      <4> QED BY <1>6, <4>1, <4>2, <4>3
    <3> QED BY <1>4, <3>1, <3>2, <3>3
  <2>4. freeHead'.tag = 2 * (Len(handles) + Cardinality(Marking)) - Capacity + Len(longer)
    <3>1. Cardinality(Marking) \in Nat /\ Len(handles) \in Nat
      BY Counts
    <3>2. freeHead.tag = 2 * (Len(handles) + Cardinality(Marking)) - Capacity + Len(chain)
      BY <1>1 DEF IsFreeList
    <3> QED BY <1>6, <1>9, <3>1, <3>2, RangeAssumption
  <2> QED BY <1>3, <1>6, <1>8, <1>15, <2>1, <2>2, <2>3, <2>4 DEF IsFreeList
<1>18. ListInv'
  BY <1>17 DEF ListInv
<1> QED BY <1>10, <1>12, <1>13, <1>14, <1>16, <1>18

-----------------------------------------------------------------------------
\* unsafe_clear.

\* It leaves the vector as it was made: the element of a slot is destroyed
\* because the slot has its own index.
LEMMA ClearStep ==
  ASSUME VectorInv, Clear
  PROVE  VectorInv'
<1>1. payload' = [i \in Indices |-> 0]
  <2>1. \A i \in Indices : payload[i] # 0 => slots[i].index = i
    BY DEF VectorInv, SlotInv
  <2> QED BY <2>1 DEF Clear
<1>2. pc' = [t \in Threads |-> "idle"]
  BY DEF Clear, VectorInv, TypeOK
<1>3. Init'
  BY <1>1, <1>2 DEF Clear, Init
<1> QED BY <1>3, InitInvNext

-----------------------------------------------------------------------------
\* The theorems.

\* Every step keeps the invariant.
LEMMA NextStep == ASSUME TagsLast PROVE VectorInv /\ [Next]_vars => VectorInv'
<1> SUFFICES ASSUME VectorInv, [Next]_vars PROVE VectorInv'
  OBVIOUS
<1>1. ASSUME NEW t \in Threads, ThreadNext(t) PROVE VectorInv'
  <2>1. CASE \/ AcquireLoad(t) \/ AcquireNext(t) \/ AcquireRetry(t)
             \/ ReleaseLoad(t) \/ ReleaseRetry(t)
    BY <2>1, LookStep
  <2>2. CASE AcquireExchange(t)
    BY <2>2, AcquireExchangeStep
  <2>3. CASE Mark(t)
    BY <2>3, MarkStep
  <2>4. CASE \E n \in DOMAIN handles : EraseLock(t, n)
    BY <2>4, EraseLockStep
  <2>5. CASE ReleaseLink(t)
    BY <2>5, ReleaseLinkStep
  <2>6. CASE ReleaseExchange(t)
    BY <2>6, ReleaseExchangeStep
  <2> QED BY <1>1, <2>1, <2>2, <2>3, <2>4, <2>5, <2>6 DEF ThreadNext
<1>2. CASE Clear
  BY <1>2, ClearStep
<1>3. CASE UNCHANGED vars
  <2> USE <1>3 DEF vars, locals, VectorInv
  <2>1. TypeOK' /\ OwnInv' /\ MirrorInv' /\ SlotInv' /\ HandleInv'
    BY DEF TypeOK, OwnInv, MirrorInv, SlotInv, HandleInv
  <2>2. Storing' = Storing /\ Marking' = Marking /\ Pending' = Pending
    BY DEF Storing, Marking, Pending
  <2>3. BoundInv'
    BY <2>2 DEF BoundInv
  <2>4. PICK chain : IsFreeList(chain)
    BY DEF ListInv
  <2>5. IsFreeList(chain)'
    BY <2>2, <2>4 DEF IsFreeList
  <2> QED BY <2>1, <2>3, <2>5 DEF ListInv
<1> QED BY <1>1, <1>2, <1>3 DEF Next

\* The invariant holds in every reachable state.
THEOREM Invariance == ASSUME TagsLast PROVE Spec => []VectorInv
<1>1. VectorInv /\ [Next]_vars => VectorInv'
  BY NextStep
<1> QED BY <1>1, InitInv, PTL DEF Spec

\* Every variable has its type.
THEOREM TypeCorrect == ASSUME TagsLast PROVE Spec => []TypeOK
<1>1. VectorInv => TypeOK
  BY DEF VectorInv
<1>2. Spec => []VectorInv
  BY Invariance
<1> QED BY <1>1, <1>2, PTL

\* The invariant accounts for every slot.
LEMMA Partition == ASSUME VectorInv PROVE SlotsPartitioned
<1> USE DEF VectorInv
<1>1. PICK chain : IsFreeList(chain)
  BY DEF ListInv
<1>2. /\ chain \in Seq(Indices) /\ Len(chain) \in Nat /\ Len(chain) <= Capacity
      /\ DOMAIN chain = 1..Len(chain)
  <2>1. chain \in Seq(Indices)
    BY <1>1 DEF IsFreeList
  <2> QED BY <1>1, <2>1, ChainLength DEF IsFreeList
<1>3. chain \in SeqOf(Indices, Capacity)
  <2>1. chain \in [1..Len(chain) -> Indices] /\ Len(chain) \in 0..Capacity
    BY <1>2, RangeAssumption
  <2> QED BY <2>1 DEF SeqOf
<1>4. chain \in FreeChains
  BY <1>1, <1>3 DEF FreeChains, IsFreeList
<1>5. ASSUME NEW i \in Indices
      PROVE  /\ Cardinality({t \in Threads : owned[t] = i /\
                               pc[t] \in {"mark", "release", "link", "publish"}}) <= 1
             /\ i \in Range(chain) => i \notin Pending /\ payload[i] = 0
             /\ i \notin Range(chain) => i \in Pending \/ payload[i] # 0
             /\ i \notin Pending => (payload[i] # 0 <=> slots[i].index = i)
  <2> DEFINE T == {t \in Threads : owned[t] = i /\
                     pc[t] \in {"mark", "release", "link", "publish"}}
  <2>1. Cardinality(T) <= 1
    <3>1. \A t, u \in T : t = u
      BY DEF OwnInv, Busy
    <3>2. CASE T = {}
      BY <3>2, FS_EmptySet
    <3>3. CASE T # {}
      <4>1. PICK t : t \in T
        BY <3>3
      <4>2. T = {t}
        BY <3>1, <4>1
      <4> HIDE DEF T
      <4> QED BY <4>2, FS_Singleton
    <3> QED BY <3>2, <3>3
  <2>2. i \in Range(chain) <=> \E k \in DOMAIN chain : chain[k] = i
    BY DEF Range
  <2>3. (\E k \in DOMAIN chain : chain[k] = i) <=> i \notin Pending /\ payload[i] = 0
    BY <1>1 DEF IsFreeList
  <2>4. ASSUME i \notin Pending, payload[i] = 0 PROVE slots[i].index # i
    <3>1. PICK k \in DOMAIN chain : chain[k] = i
      BY <2>3, <2>4
    <3>2. slots[i].index = IF k = Len(chain) THEN Invalid ELSE chain[k + 1]
      BY <1>1, <3>1 DEF IsFreeList
    <3>3. Invalid # i
      BY RangeAssumption DEF Indices, Invalid
    <3>4. k # Len(chain) => k + 1 \in DOMAIN chain /\ k + 1 # k
      BY <1>2
    <3>5. k # Len(chain) => chain[k + 1] # i
      BY <1>1, <3>1, <3>4 DEF IsFreeList
    <3> QED BY <3>2, <3>3, <3>5
  <2>5. payload[i] # 0 => slots[i].index = i
    BY DEF SlotInv
  <2> QED BY <2>1, <2>2, <2>3, <2>4, <2>5
<1> QED BY <1>4, <1>5 DEF SlotsPartitioned

\* No slot leaks and none is given out twice, however the loads and exchanges of
\* acquire_slot, lock_slot and release_locked_slot interleave.
THEOREM NoSlotLeaks == ASSUME TagsLast PROVE Spec => []SlotsPartitioned
<1>1. VectorInv => SlotsPartitioned
  BY Partition
<1>2. Spec => []VectorInv
  BY Invariance
<1> QED BY <1>1, <1>2, PTL

\* The elements a slot holds.
Present == {n \in DOMAIN handles : payload[handles[n].index] = n}

\* An id is valid exactly while its element is in its slot.
LEMMA ValidIsPresent == VectorInv => ValidElements = Present
<1> SUFFICES ASSUME VectorInv PROVE ValidElements = Present
  OBVIOUS
<1> USE DEF VectorInv
<1>1. ASSUME NEW n \in DOMAIN handles
      PROVE  n \in ValidElements <=> n \in Present
  <2>1. PICK i : i = handles[n].index
    OBVIOUS
  <2>2. i \in Indices /\ (payload[i] = n \/ handles[n].tag < slots[i].tag) /\ n # 0
    BY <2>1 DEF HandleInv, TypeOK
  <2>3. slots[i].tag \in Nat
    <3>1. slots[i] \in Words
      BY <2>2 DEF TypeOK
    <3> QED BY <3>1 DEF Words
  <2>4. slots[i] = handles[n] => payload[i] = n
    BY <2>2, <2>3
  <2>5. payload[i] = n => slots[i] = handles[n] /\ i \notin Pending
    <3>1. payload[i] = n => slots[i] = handles[n]
      BY <2>2 DEF SlotInv
    <3>2. payload[i] = n => i \notin Pending
      BY <2>2, PendingIs DEF OwnInv
    <3> QED BY <3>1, <3>2
  <2> QED BY <2>1, <2>4, <2>5 DEF ValidElements, Present
<1> QED BY <1>1 DEF ValidElements, Present

\* The same of the state after a step.
ValidRight == ValidElements = Present

\* The same after a step.
LEMMA ValidIsPresentNext == VectorInv' => ValidElements' = Present'
<1>1. VectorInv => ValidRight
  BY ValidIsPresent DEF ValidRight
<1>2. VectorInv' => ValidRight'
  BY <1>1, PTL
<1> QED BY <1>2 DEF ValidRight

\* A valid id leads to its own element.
THEOREM ValidIdsLeadHome == ASSUME TagsLast PROVE Spec => []IdsLeadHome
<1>1. VectorInv => IdsLeadHome
  BY ValidIsPresent DEF IdsLeadHome, Present
<1>2. Spec => []VectorInv
  BY Invariance
<1> QED BY <1>1, <1>2, PTL

\* id_vector.hpp:114: erase destroys the element whose id it is given, or nothing,
\* however often and by however many threads it is called with that id.
THEOREM EraseHitsItsTarget == ASSUME TagsLast PROVE Spec => []EraseIdempotent
<1>1. VectorInv => EraseIdempotent
  BY DEF VectorInv, MirrorInv, EraseIdempotent
<1>2. Spec => []VectorInv
  BY Invariance
<1> QED BY <1>1, <1>2, PTL

-----------------------------------------------------------------------------
\* The vector implements the store of ids.

\* Storing an element takes effect when its slot gets its own index, erasing one
\* when its slot gets a new tag; no other step is seen.
LEMMA StoreStep ==
  ASSUME TagsLast, VectorInv, VectorInv', [Next]_vars
  PROVE  [S!Next]_<<Len(handles), ValidElements>>
<1>1. ValidElements = Present /\ ValidElements' = Present'
  BY ValidIsPresent, ValidIsPresentNext
<1>2. ASSUME UNCHANGED <<payload, handles>>
      PROVE  UNCHANGED <<Len(handles), ValidElements>>
  BY <1>1, <1>2 DEF Present
<1>3. ASSUME NEW t \in Threads, Mark(t) PROVE S!Emplace
  <2>1. PICK i : i = owned[t]
    OBVIOUS
  <2>2. PICK n : n = Len(handles) + 1
    OBVIOUS
  <2>3. /\ i \in Indices /\ payload[i] = 0
        /\ payload' = [payload EXCEPT ![i] = n]
    BY <1>3, <2>1, <2>2 DEF Mark, Moves, VectorInv, TypeOK, OwnInv, Busy
  <2>4. PICK new : new = Redirected(slots[i], i)
    OBVIOUS
  <2>5. handles' = Append(handles, new) /\ new.index = i /\ new \in Words
    <3>1. slots[i] \in Words /\ i \in 0..Capacity
      BY <2>3, RangeAssumption DEF VectorInv, TypeOK, Indices
    <3>2. new = [slots[i] EXCEPT !.index = i]
      BY <2>4 DEF Redirected
    <3>3. new \in Words /\ new.index = i
      BY <3>1, <3>2 DEF Words
    <3>4. slots'[i] = new
      BY <1>3, <2>1, <2>3, <2>4 DEF Mark, VectorInv, TypeOK
    <3> QED BY <1>3, <2>1, <3>3, <3>4 DEF Mark
  <2>6. /\ Len(handles) \in Nat /\ Len(handles') = n /\ handles'[n].index = i
        /\ DOMAIN handles = 1..Len(handles) /\ DOMAIN handles' = 1..n
        /\ \A m \in DOMAIN handles : handles'[m] = handles[m]
    BY <2>2, <2>5 DEF VectorInv, TypeOK
  <2>7. \A m \in DOMAIN handles : handles[m].index \in Indices /\ m # 0 /\ m # n
    BY <2>2, <2>6 DEF VectorInv, HandleInv
  <2>8. Present' = Present \cup {n}
    <3>1. n \in Present'
      BY <2>3, <2>6, <2>2 DEF Present, VectorInv, TypeOK
    <3>2. \A m \in DOMAIN handles : m \in Present' <=> m \in Present
      BY <2>3, <2>2, <2>6, <2>7 DEF Present, VectorInv, TypeOK
    <3>3. \A m : m \in Present' => m = n \/ m \in DOMAIN handles
      BY <2>2, <2>6 DEF Present
    <3> QED BY <3>1, <3>2, <3>3 DEF Present
  <2> QED BY <1>1, <2>2, <2>6, <2>8 DEF S!Emplace
<1>4. ASSUME NEW t \in Threads, NEW n \in DOMAIN handles, EraseLock(t, n)
      PROVE  \E m \in ValidElements : S!Erase(m)
  <2>1. PICK i : i = handles[n].index
    OBVIOUS
  <2>2. payload[i] = n /\ i \in Indices /\ n # 0
    <3>1. payload[handles[n].index] = n
      BY <1>1, <1>4, EraseLockStep
    <3>2. i \in Indices
      BY <1>1, <2>1 DEF VectorInv, HandleInv
    <3>3. n # 0
      BY <1>1 DEF VectorInv, TypeOK
    <3> QED BY <2>1, <3>1, <3>2, <3>3
  <2>3. payload' = [payload EXCEPT ![i] = 0] /\ handles' = handles
    BY <1>4, <2>1 DEF EraseLock
  <2>4. n \in Present /\ Present' = Present \ {n}
    <3>1. n \in Present /\ n \notin Present'
      BY <2>1, <2>2, <2>3 DEF Present, VectorInv, TypeOK
    <3>2. \A m \in DOMAIN handles \ {n} : handles[m].index \in Indices /\ m # 0
      BY DEF VectorInv, HandleInv, TypeOK
    <3>3. \A m \in DOMAIN handles \ {n} : m \in Present' <=> m \in Present
      BY <2>2, <2>3, <3>2 DEF Present, VectorInv, TypeOK
    <3> QED BY <2>3, <3>1, <3>3 DEF Present
  <2> QED BY <1>1, <2>3, <2>4 DEF S!Erase
<1>5. ASSUME Clear PROVE S!Clear
  BY <1>1, <1>5 DEF Clear, Present, S!Clear
<1>6. ASSUME NEW t \in Threads, ThreadNext(t),
             ~Mark(t), \A n \in DOMAIN handles : ~EraseLock(t, n)
      PROVE  UNCHANGED <<payload, handles>>
  BY <1>6 DEF ThreadNext, AcquireLoad, AcquireNext, AcquireExchange, AcquireRetry,
              ReleaseLoad, ReleaseLink, ReleaseExchange, ReleaseRetry
<1>7. CASE UNCHANGED vars
  BY <1>2, <1>7 DEF vars
<1> QED BY <1>2, <1>3, <1>4, <1>5, <1>6, <1>7 DEF Next, S!Next

\* The lock-free vector implements IdStore: every emplace and every erase takes
\* effect at one moment, for any number of threads.
THEOREM StoreImplemented == ASSUME TagsLast PROVE Spec => ImplementsStore
<1>1. Init => S!Init
  <2> SUFFICES ASSUME Init PROVE S!Init
    OBVIOUS
  <2>1. VectorInv
    BY InitInv
  <2>2. ValidElements = {} /\ Len(handles) = 0
    BY DEF Init, ValidElements
  <2> QED BY <2>2 DEF S!Init
<1>2. VectorInv /\ VectorInv' /\ [Next]_vars => [S!Next]_<<Len(handles), ValidElements>>
  BY StoreStep
<1>3. Spec => []VectorInv
  BY Invariance
<1> QED BY <1>1, <1>2, <1>3, PTL DEF Spec, ImplementsStore, S!Spec
=============================================================================
