---------------------- MODULE WorkStealingQueueProofs ----------------------
(***************************************************************************)
(* The work stealing queue never hands an element out twice and never lets *)
(* owner and thief meet in a slot, for every capacity, every set of        *)
(* thieves and every number of pushes, as long as no index wraps around    *)
(* (NoWrap).  With indices that wrap ExactlyOnce fails: TLC shows it for   *)
(* IndexRange = 8.                                                         *)
(***************************************************************************)
EXTENDS WorkStealingQueue, Integers, SequenceTheorems, TLAPS

USE CapacityAssumption, IndexAssumption, PushesAssumption, FreeAssumption

-----------------------------------------------------------------------------
\* Arithmetic of the ring.

\* An index below the range is stored as it is.
LEMMA WrapSmall == ASSUME NEW i \in Nat, i < IndexRange
                   PROVE  Wrap(i) = i
  BY DEF Wrap

\* A slot is a position of the array elements_.
LEMMA SlotRange == ASSUME NEW i \in Nat
                   PROVE  Slot(i) \in 0..Mask
  BY DEF Slot, Mask

\* A positive multiple is at least the number itself.
LEMMA MultipleAtLeast == ASSUME NEW n \in Nat, NEW k \in Nat, k >= 1
                         PROVE  n * k >= n
  OBVIOUS

\* Two indices less than a capacity apart are in different slots.
LEMMA SlotDiffers == ASSUME NEW i \in Nat, NEW j \in Nat,
                            i < j, j < i + Capacity
                     PROVE  Slot(i) # Slot(j)
<1> DEFINE p == i \div Capacity
           q == j \div Capacity
<1>1. /\ i = Capacity * p + (i % Capacity)
      /\ j = Capacity * q + (j % Capacity)
      /\ p \in Nat /\ q \in Nat
  OBVIOUS
<1>2. SUFFICES ASSUME i % Capacity = j % Capacity PROVE FALSE
  BY DEF Slot
<1>3. /\ Capacity * q - Capacity * p = j - i
      /\ Capacity * q \in Nat /\ Capacity * p \in Nat
  BY <1>1, <1>2
<1>4. Capacity * (q - p) = j - i
  BY <1>1, <1>3
<1>5. CASE q - p >= 1
  <2>1. Capacity * (q - p) >= Capacity
    BY <1>1, <1>5, MultipleAtLeast
  <2> QED BY <2>1, <1>4
<1>6. CASE q - p <= 0
  <2>1. Capacity * (q - p) <= 0
    BY <1>1, <1>6
  <2> QED BY <2>1, <1>4
<1> QED BY <1>1, <1>5, <1>6

-----------------------------------------------------------------------------
\* The indices the invariant speaks of are natural numbers, and those a step
\* computes stay below the range.
LEMMA Indices == ASSUME NoWrap, QueueInv
                 PROVE  /\ Base \in Nat /\ End \in Nat
                        /\ Base <= head /\ head <= Base + 1
                        /\ mutex = Free => Wrap(head + 1) = head + 1
                        /\ Wrap(head + Mask) = head + Mask
                        /\ Wrap(tail + 1) = tail + 1
<1> USE DEF QueueInv, TypeOK, LockInv, RoomInv, NoWrap, Values
<1>1. Base \in Nat /\ Base <= head /\ head <= Base + 1
  BY DEF Base
<1>2. End \in Nat /\ tail <= End
  BY DEF End
<1>3. /\ mutex = Free => head + 1 < IndexRange
      /\ head + Mask < IndexRange
      /\ tail + 1 < IndexRange
  BY <1>1, <1>2 DEF Mask, Base
<1> QED BY <1>1, <1>2, <1>3, WrapSmall DEF Mask

\* The holder of foreign_sync_ is the one thief that is inside shared_pull.
LEMMA Holder == ASSUME QueueInv, NEW t \in Thieves, thiefPc[t] # "idle"
                PROVE  /\ mutex = t /\ Base = headMirror[t]
                       /\ head = headMirror[t] + 1 /\ headMirror[t] \in Nat
                       /\ \A u \in Thieves : u # t => thiefPc[u] = "idle"
  BY DEF QueueInv, TypeOK, LockInv, Base

\* The empty queue satisfies the invariant.
LEMMA InitInv == Init => QueueInv
<1> SUFFICES ASSUME Init PROVE QueueInv
  OBVIOUS
<1> USE DEF Init
<1>1. TypeOK
  BY DEF TypeOK, Values, Mask
<1>2. LockInv
  BY DEF LockInv
<1>3. Base = 0 /\ End = 0 /\ Window = {}
  BY DEF Base, End, Window
<1>4. RoomInv
  BY <1>3 DEF RoomInv
<1>5. ContentInv
  BY <1>3 DEF ContentInv, Values
<1>6. ExactlyOnce
  BY DEF ExactlyOnce, Values
<1> QED BY <1>1, <1>2, <1>4, <1>5, <1>6 DEF QueueInv

-----------------------------------------------------------------------------
\* The steps of the owner.

\* Each step keeps it: the check of unique_push,
LEMMA PushCheckInv == ASSUME NoWrap, QueueInv, PushCheck PROVE QueueInv'
<1> USE DEF QueueInv, PushCheck
<1>1. Base' = Base /\ End' = End /\ Window' = Window
  BY DEF Base, End, Window
<1>2. TypeOK' /\ LockInv' /\ ExactlyOnce'
  BY DEF TypeOK, LockInv, ExactlyOnce
<1>3. tail < Base + Capacity
  BY Indices DEF Mask, TypeOK
<1>4. RoomInv'
  BY <1>1, <1>3 DEF RoomInv
<1>5. ContentInv'
  BY <1>1 DEF ContentInv, Content
<1> QED BY <1>2, <1>4, <1>5

\* the write of the slot,
LEMMA PushWriteInv == ASSUME NoWrap, QueueInv, PushWrite PROVE QueueInv'
<1> USE DEF QueueInv, PushWrite
<1>1. Base' = Base /\ End' = End /\ Window' = Window /\ End = tail
  BY DEF Base, End, Window
<1>2. /\ Slot(tail) \in 0..Mask /\ pushed + 1 \in Values
      /\ Base \in Nat /\ tail < Base + Capacity
  <2>1. Base \in Nat
    BY Indices
  <2>2. Slot(tail) \in 0..Mask
    BY SlotRange DEF TypeOK
  <2> QED BY <2>1, <2>2 DEF TypeOK, RoomInv, Values
<1>3. TypeOK' /\ LockInv' /\ ExactlyOnce'
  BY <1>2 DEF TypeOK, LockInv, ExactlyOnce
<1>4. RoomInv'
  BY <1>1 DEF RoomInv
<1>5. \A i \in Window : Content(i)' = Content(i)
  <2> SUFFICES ASSUME NEW i \in Window PROVE Content(i)' = Content(i)
    OBVIOUS
  <2>1. i \in Nat /\ i < tail /\ tail < i + Capacity
    BY <1>1, <1>2 DEF Window, TypeOK
  <2>2. Slot(i) # Slot(tail) /\ Slot(i) \in 0..Mask
    BY <2>1, SlotDiffers, SlotRange DEF TypeOK
  <2> QED BY <2>2 DEF Content, TypeOK
<1>6. Content(tail)' = pushed + 1
  BY <1>2 DEF Content, TypeOK
<1>7. ContentInv'
  BY <1>1, <1>5, <1>6 DEF ContentInv
<1> QED BY <1>3, <1>4, <1>7

\* the store of tail_,
LEMMA PushPublishInv == ASSUME NoWrap, QueueInv, PushPublish PROVE QueueInv'
<1> USE DEF QueueInv, PushPublish
<1>1. /\ tail' = tail + 1 /\ End = tail /\ Base' = Base
      /\ Base \in Nat /\ pushed \in Nat
  BY Indices DEF Base, End, TypeOK, Values
<1>2. End' = End + 1 /\ Window' = Window \cup {tail}
  BY <1>1 DEF End, Window, TypeOK, RoomInv
<1>3. TypeOK' /\ LockInv' /\ ExactlyOnce'
  BY <1>1 DEF TypeOK, LockInv, ExactlyOnce, RoomInv, Values
<1>4. RoomInv'
  BY <1>1, <1>2 DEF RoomInv, TypeOK, Values
<1>5. \A i \in Nat : Content(i)' = Content(i)
  BY DEF Content
<1>6. /\ Content(tail) = pushed + 1 /\ pushed + 1 \in Values
      /\ delivered[pushed + 1] = 0
  BY <1>1 DEF ContentInv, RoomInv, Values
<1>7. \A i \in Window : i \in Nat /\ i < tail
  BY <1>1 DEF Window, TypeOK
<1>8. ASSUME NEW i \in Window'
      PROVE  Content(i)' \in 1..pushed' /\ delivered'[Content(i)'] = 0
  BY <1>1, <1>2, <1>5, <1>6, <1>7 DEF ContentInv, TypeOK
<1>9. ASSUME NEW i \in Window', NEW j \in Window', i # j
      PROVE  Content(i)' # Content(j)'
  <2>1. \A k \in Window : Content(k) # Content(tail)
    BY <1>1, <1>6 DEF ContentInv
  <2>2. i \in Nat /\ j \in Nat
    BY <1>2, <1>7 DEF TypeOK
  <2>3. Content(i) # Content(j)
    BY <1>2, <2>1, <1>9 DEF ContentInv
  <2> QED BY <1>5, <2>2, <2>3
<1>10. ContentInv'
  BY <1>1, <1>8, <1>9 DEF ContentInv, Values
<1> QED BY <1>3, <1>4, <1>10

\* the check of unique_pull,
LEMMA PullCheckInv == ASSUME NoWrap, QueueInv, PullCheck PROVE QueueInv'
<1> USE DEF QueueInv, PullCheck
<1>1. Base' = Base /\ End' = End /\ Window' = Window
  BY DEF Base, End, Window
<1>2. TypeOK' /\ LockInv' /\ ExactlyOnce'
  BY DEF TypeOK, LockInv, ExactlyOnce
<1>3. RoomInv'
  BY <1>1 DEF RoomInv, TypeOK
<1>4. ContentInv'
  BY <1>1 DEF ContentInv, Content
<1> QED BY <1>2, <1>3, <1>4

\* the decrement of tail_,
LEMMA PullDecrementInv == ASSUME NoWrap, QueueInv, PullDecrement PROVE QueueInv'
<1> USE DEF QueueInv, PullDecrement
<1>1. Base' = Base /\ End' = End /\ Window' = Window
  BY DEF Base, End, Window, TypeOK, RoomInv
<1>2. TypeOK' /\ LockInv' /\ ExactlyOnce'
  BY DEF TypeOK, LockInv, ExactlyOnce, RoomInv
<1>3. RoomInv'
  BY <1>1 DEF RoomInv
<1>4. ContentInv'
  BY <1>1 DEF ContentInv, Content
<1> QED BY <1>2, <1>3, <1>4

\* the test that finds a thief,
LEMMA PullContendedInv == ASSUME NoWrap, QueueInv, PullContended PROVE QueueInv'
<1> USE DEF QueueInv, PullContended
<1>1. Base' = Base /\ End' = End /\ Window' = Window
  BY DEF Base, End, Window
<1>2. TypeOK' /\ LockInv' /\ ExactlyOnce'
  BY DEF TypeOK, LockInv, ExactlyOnce
<1>3. RoomInv'
  BY <1>1 DEF RoomInv
<1>4. ContentInv'
  BY <1>1 DEF ContentInv, Content
<1> QED BY <1>2, <1>3, <1>4

\* Whoever takes an element takes it out of the window, so that what remains
\* there is different from it and still not handed out.
LEMMA TakeInv == ASSUME QueueInv, NEW k \in Window, HandOut(Content(k)),
                        UNCHANGED <<slots, pushed, tail>>,
                        ownerPc' \in {"idle", ownerPc},
                        Window' \subseteq Window \ {k}
                 PROVE  /\ ContentInv' /\ ExactlyOnce'
                        /\ delivered' \in [Values -> Nat]
<1> DEFINE e == Content(k)
<1>1. /\ e \in 1..pushed /\ delivered[e] = 0 /\ e \in Values /\ e # 0
      /\ delivered \in [Values -> Nat] /\ pushed \in Nat
  BY DEF QueueInv, ContentInv, TypeOK, Values
<1>2. delivered' = [delivered EXCEPT ![e] = 1]
  BY <1>1 DEF HandOut
<1>3. \A i : Content(i)' = Content(i)
  BY DEF Content
<1>4. ExactlyOnce'
  BY <1>1, <1>2 DEF QueueInv, ExactlyOnce, Values
<1>5. \A i \in Window' : i \in Window /\ Content(i) # e
  BY DEF QueueInv, ContentInv
<1>6. \A i \in Window' : Content(i)' \in 1..pushed' /\ delivered'[Content(i)'] = 0
  <2> SUFFICES ASSUME NEW i \in Window'
               PROVE  Content(i) \in 1..pushed /\ delivered'[Content(i)] = 0
    BY <1>3
  <2>1. /\ Content(i) \in 1..pushed /\ delivered[Content(i)] = 0
        /\ Content(i) # e
    BY <1>5 DEF QueueInv, ContentInv
  <2>2. Content(i) \in Values
    BY <2>1 DEF QueueInv, TypeOK, Values
  <2> QED BY <1>1, <1>2, <2>1, <2>2
<1>7. \A i, j \in Window' : i # j => Content(i)' # Content(j)'
  BY <1>3, <1>5 DEF QueueInv, ContentInv
<1>8. ownerPc' = "publish" => Content(tail)' = pushed' + 1
  BY DEF QueueInv, ContentInv, Content
<1>9. \A d \in Values : d > pushed' => delivered'[d] = 0
  BY <1>1, <1>2 DEF QueueInv, ContentInv, Values
<1>10. delivered' \in [Values -> Nat]
  BY <1>1, <1>2
<1> QED BY <1>4, <1>6, <1>7, <1>8, <1>9, <1>10 DEF ContentInv

\* the read of the slot without the lock,
LEMMA PullTakeInv == ASSUME NoWrap, QueueInv, PullTake PROVE QueueInv'
<1> USE DEF PullTake
<1>1. Base' = Base /\ End = tail + 1 /\ End' = tail
  BY DEF Base, End
<1>2. Base <= head /\ Base \in Nat /\ tail \in Nat /\ head \in Nat
  BY Indices DEF QueueInv, TypeOK
<1>3. tail \in Window /\ Window' \subseteq Window \ {tail}
  BY <1>1, <1>2 DEF Window
<1>4. ContentInv' /\ ExactlyOnce' /\ delivered' \in [Values -> Nat]
  BY <1>3, TakeInv DEF Content
<1>5. TypeOK' /\ LockInv'
  BY <1>4 DEF QueueInv, TypeOK, LockInv
<1>6. \A t \in Thieves : thiefPc[t] = "take" => Base < tail
  BY <1>2, Holder
<1>7. RoomInv'
  BY <1>1, <1>2, <1>6 DEF QueueInv, RoomInv, TypeOK, Values
<1> QED BY <1>4, <1>5, <1>7 DEF QueueInv

\* the read under the lock,
LEMMA PullLockedTakeInv ==
        ASSUME NoWrap, QueueInv, PullLockedTake PROVE QueueInv'
<1> USE DEF PullLockedTake
<1>1. Base' = Base /\ End = tail + 1 /\ End' = tail /\ Base = head
  BY DEF Base, End
<1>2. Base \in Nat /\ tail \in Nat
  BY Indices DEF QueueInv, TypeOK
<1>3. tail \in Window /\ Window' \subseteq Window \ {tail}
  BY <1>1, <1>2 DEF Window
<1>4. ContentInv' /\ ExactlyOnce' /\ delivered' \in [Values -> Nat]
  BY <1>3, TakeInv DEF Content
<1>5. TypeOK' /\ LockInv'
  BY <1>4 DEF QueueInv, TypeOK, LockInv
<1>6. \A t \in Thieves : thiefPc[t] = "idle"
  BY DEF QueueInv, LockInv
<1>7. RoomInv'
  BY <1>1, <1>2, <1>6 DEF QueueInv, RoomInv, TypeOK, Values
<1> QED BY <1>4, <1>5, <1>7 DEF QueueInv

\* the refusal under the lock;
LEMMA PullLockedGiveUpInv ==
        ASSUME NoWrap, QueueInv, PullLockedGiveUp PROVE QueueInv'
<1> USE DEF PullLockedGiveUp
<1>1. /\ tail' = tail + 1 /\ Base' = Base /\ End = tail + 1 /\ End' = End
      /\ Window' = Window
  BY Indices DEF Base, End, Window
<1>2. TypeOK' /\ LockInv' /\ ExactlyOnce'
  BY <1>1 DEF QueueInv, TypeOK, LockInv, ExactlyOnce
<1>3. RoomInv'
  BY <1>1 DEF QueueInv, RoomInv
<1>4. ContentInv'
  BY <1>1 DEF QueueInv, ContentInv, Content
<1> QED BY <1>2, <1>3, <1>4 DEF QueueInv

-----------------------------------------------------------------------------
\* The steps of a thief.

\* of shared_pull the increment of head_,
LEMMA SharedAnnounceInv ==
        ASSUME NoWrap, QueueInv, NEW t \in Thieves, SharedAnnounce(t)
        PROVE  QueueInv'
<1> USE DEF SharedAnnounce, ThiefMoves
<1>1. /\ head' = head + 1 /\ Base' = Base /\ End' = End /\ Base = head
      /\ Window' = Window
  BY Indices DEF Base, End, Window, QueueInv, TypeOK
<1>2. TypeOK' /\ LockInv' /\ ExactlyOnce'
  BY <1>1 DEF QueueInv, TypeOK, LockInv, ExactlyOnce
<1>3. RoomInv'
  BY <1>1 DEF QueueInv, RoomInv, TypeOK
<1>4. ContentInv'
  BY <1>1 DEF QueueInv, ContentInv, Content
<1> QED BY <1>2, <1>3, <1>4 DEF QueueInv

\* the test that finds an element,
LEMMA SharedClaimInv ==
        ASSUME NoWrap, QueueInv, NEW t \in Thieves, SharedClaim(t)
        PROVE  QueueInv'
<1> USE DEF SharedClaim, ThiefMoves
<1>1. Base' = Base /\ End' = End /\ Window' = Window /\ tail <= End
  BY DEF Base, End, Window, QueueInv, TypeOK
<1>2. TypeOK' /\ LockInv' /\ ExactlyOnce'
  BY DEF QueueInv, TypeOK, LockInv, ExactlyOnce
<1>3. Base < End
  BY <1>1, Holder, Indices DEF QueueInv, TypeOK
<1>4. RoomInv'
  BY <1>1, <1>3 DEF QueueInv, RoomInv
<1>5. ContentInv'
  BY <1>1 DEF QueueInv, ContentInv, Content
<1> QED BY <1>2, <1>4, <1>5 DEF QueueInv

\* the test that finds none,
LEMMA SharedMissInv ==
        ASSUME NoWrap, QueueInv, NEW t \in Thieves, SharedMiss(t)
        PROVE  QueueInv'
<1> USE DEF SharedMiss, ThiefMoves
<1>1. Base' = Base /\ End' = End /\ Window' = Window
  BY DEF Base, End, Window
<1>2. TypeOK' /\ LockInv' /\ ExactlyOnce'
  BY DEF QueueInv, TypeOK, LockInv, ExactlyOnce
<1>3. RoomInv'
  BY <1>1 DEF QueueInv, RoomInv, TypeOK
<1>4. ContentInv'
  BY <1>1 DEF QueueInv, ContentInv, Content
<1> QED BY <1>2, <1>3, <1>4 DEF QueueInv

\* the read of the slot,
LEMMA SharedTakeInv ==
        ASSUME NoWrap, QueueInv, NEW t \in Thieves, SharedTake(t)
        PROVE  QueueInv'
<1> USE DEF SharedTake, ThiefMoves
<1>1. /\ mutex = t /\ Base = headMirror[t] /\ head = Base + 1
      /\ \A u \in Thieves : thiefPc'[u] = "idle"
  BY Holder DEF QueueInv, TypeOK
<1>2. /\ Base' = Base + 1 /\ End' = End /\ Base < End
      /\ Base \in Nat /\ End \in Nat
  BY <1>1, Indices DEF Base, End, QueueInv, RoomInv
<1>3. Base \in Window /\ Window' \subseteq Window \ {Base}
  BY <1>2 DEF Window
<1>4. ContentInv' /\ ExactlyOnce' /\ delivered' \in [Values -> Nat]
  BY <1>1, <1>3, TakeInv DEF Content
<1>5. TypeOK' /\ LockInv'
  BY <1>1, <1>4 DEF QueueInv, TypeOK, LockInv
<1>6. RoomInv'
  BY <1>1, <1>2 DEF QueueInv, RoomInv, TypeOK
<1> QED BY <1>4, <1>5, <1>6 DEF QueueInv

\* and the restored head_.
LEMMA SharedUndoInv ==
        ASSUME NoWrap, QueueInv, NEW t \in Thieves, SharedUndo(t)
        PROVE  QueueInv'
<1> USE DEF SharedUndo, ThiefMoves
<1>1. /\ mutex = t /\ Base = headMirror[t] /\ headMirror[t] \in Nat
      /\ \A u \in Thieves : thiefPc'[u] = "idle"
  BY Holder DEF QueueInv, TypeOK
<1>2. Base' = Base /\ End' = End /\ Window' = Window
  BY <1>1 DEF Base, End, Window
<1>3. TypeOK' /\ LockInv' /\ ExactlyOnce'
  BY <1>1 DEF QueueInv, TypeOK, LockInv, ExactlyOnce
<1>4. RoomInv'
  BY <1>1, <1>2 DEF QueueInv, RoomInv
<1>5. ContentInv'
  BY <1>2 DEF QueueInv, ContentInv, Content
<1> QED BY <1>3, <1>4, <1>5 DEF QueueInv

-----------------------------------------------------------------------------
\* The invariant is inductive.
LEMMA StepInv == ASSUME NoWrap, QueueInv, [Next]_vars PROVE QueueInv'
<1>1. CASE OwnerNext
  BY <1>1, PushCheckInv, PushWriteInv, PushPublishInv, PullCheckInv,
     PullDecrementInv, PullTakeInv, PullContendedInv, PullLockedTakeInv,
     PullLockedGiveUpInv DEF OwnerNext
<1>2. CASE \E t \in Thieves : ThiefNext(t)
  BY <1>2, SharedAnnounceInv, SharedClaimInv, SharedMissInv, SharedTakeInv,
     SharedUndoInv DEF ThiefNext
<1>3. CASE UNCHANGED vars
  BY <1>3 DEF vars, QueueInv, TypeOK, LockInv, RoomInv, ContentInv,
              ExactlyOnce, Base, End, Window, Content
<1> QED BY <1>1, <1>2, <1>3 DEF Next

\* The invariant holds in every reachable state of every queue whose indices
\* do not wrap around (work_stealing_queue.hpp:47-92).
THEOREM Invariance == ASSUME NoWrap PROVE Spec => []QueueInv
<1>1. Init => QueueInv
  BY InitInv
<1>2. QueueInv /\ [Next]_vars => QueueInv'
  BY StepInv
<1> QED BY <1>1, <1>2, PTL DEF Spec

\* Every variable keeps its type; in particular a slot is never addressed
\* outside elements_, and no index becomes negative.
THEOREM TypeCorrect == ASSUME NoWrap PROVE Spec => []TypeOK
<1>1. QueueInv => TypeOK
  BY DEF QueueInv
<1> QED BY <1>1, Invariance, PTL

\* unique_pull and shared_pull hand no element out twice and hand out nothing
\* that was not pushed, whatever the interleaving of owner and thieves.
THEOREM NoDoubleDelivery == ASSUME NoWrap PROVE Spec => []ExactlyOnce
<1>1. QueueInv => ExactlyOnce
  BY DEF QueueInv
<1> QED BY <1>1, Invariance, PTL

\* The owner never writes the slot a thief that won its element is reading:
\* the slot unique_push keeps unused is enough.
THEOREM SlotsDisjoint == ASSUME NoWrap PROVE Spec => []NoSlotRace
<1>1. ASSUME NoWrap, QueueInv PROVE NoSlotRace
  <2> SUFFICES ASSUME NEW t \in Thieves, ownerPc = "write", thiefPc[t] = "take"
               PROVE  Slot(tail) # Slot(headMirror[t])
    BY DEF NoSlotRace
  <2>1. /\ Base = headMirror[t] /\ headMirror[t] \in Nat /\ tail \in Nat
    BY <1>1, Holder DEF QueueInv, TypeOK
  <2>2. End = tail
    BY DEF End
  <2>3. Base < tail /\ tail < Base + Capacity
    BY <1>1, <2>2 DEF QueueInv, RoomInv
  <2> QED BY <2>1, <2>3, SlotDiffers
<1> QED BY <1>1, Invariance, PTL

\* A pull the owner would be refused finds an empty queue, or one element
\* that a thief inside shared_pull is after.
THEOREM RefusalJustified == ASSUME NoWrap PROVE Spec => []RefusalBounded
<1>1. ASSUME NoWrap, QueueInv PROVE RefusalBounded
  <2> SUFFICES ASSUME ownerPc = "idle", head >= tail
               PROVE  \/ End - First = 0
                      \/ End - First = 1 /\ mutex # Free
    BY DEF RefusalBounded
  <2>1. End = tail /\ tail \in Nat /\ head \in Nat /\ Base <= tail
    BY <1>1 DEF End, QueueInv, TypeOK, RoomInv
  <2>2. CASE mutex = Free
    <3>1. ~Announced
      BY <1>1, <2>2 DEF Announced, QueueInv, LockInv
    <3> QED BY <2>1, <2>2, <3>1 DEF First, Base
  <2>3. CASE mutex # Free
    <3>1. PICK t \in Thieves : mutex = t /\ thiefPc[t] # "idle"
      BY <1>1, <2>3 DEF QueueInv, TypeOK, LockInv
    <3>2. CASE thiefPc[t] = "take"
      <4>1. ~Announced
        BY <1>1, <3>1, <3>2 DEF Announced, QueueInv, LockInv
      <4>2. Base < tail
        BY <1>1, <2>1, <3>2 DEF QueueInv, RoomInv
      <4> QED BY <2>1, <2>3, <4>1, <4>2 DEF First, Base
    <3>3. CASE thiefPc[t] # "take"
      <4>1. Announced
        BY <1>1, <3>1, <3>3 DEF Announced, QueueInv, TypeOK
      <4> QED BY <2>1, <2>3, <4>1 DEF First, Base
    <3> QED BY <3>2, <3>3
  <2> QED BY <2>2, <2>3
<1> QED BY <1>1, Invariance, PTL

-----------------------------------------------------------------------------
\* The queue implements the deque.

\* A thief that has claimed an element.
Taking == \E t \in Thieves : thiefPc[t] = "take"

\* Where the deque's items are: First is the base of the window unless a thief
\* has claimed the element there.
EndsRight ==
  /\ Base \in Nat /\ First \in Nat /\ End \in Nat
  /\ First <= End /\ End <= pushed
  /\ Announced => First = Base /\ ~Taking /\ First = head - 1
  /\ Taking => First = Base + 1 /\ Base < End /\ First = head
  /\ ~Announced /\ ~Taking => First = Base /\ First = head
  /\ mutex = Free => ~Announced /\ ~Taking

\* What the items are, and which element is claimed.
ItemsRight ==
  /\ Items \in Seq(1..MaxPushes)
  /\ Len(Items) = End - First
  /\ \A i \in 1..(End - First) : Items[i] = Content(First + i - 1)
  /\ \A e : Claimed(e) <=> Taking /\ e = Content(Base)

\* The ends of the abstract deque, from the invariant.
LEMMA EndsAre == QueueInv => EndsRight
<1> SUFFICES ASSUME QueueInv PROVE EndsRight
  OBVIOUS
<1>1. /\ Base \in Nat /\ End \in Nat /\ head \in Nat /\ tail \in Nat
      /\ Base <= End /\ End <= pushed
  BY DEF QueueInv, TypeOK, LockInv, RoomInv, Base, End
<1>2. CASE mutex = Free
  <2>1. \A t \in Thieves : thiefPc[t] = "idle"
    BY <1>2 DEF QueueInv, LockInv
  <2>2. ~Announced /\ ~Taking
    BY <2>1 DEF Announced, Taking
  <2> QED BY <1>1, <1>2, <2>2 DEF EndsRight, First, Base
<1>3. CASE mutex # Free
  <2>1. PICK t \in Thieves : mutex = t
    BY <1>3 DEF QueueInv, TypeOK
  <2>2. \A u \in Thieves \ {t} : thiefPc[u] = "idle"
    BY <2>1 DEF QueueInv, LockInv
  <2>3. thiefPc[t] \in {"announced", "undo", "take"} /\ Base = head - 1
    BY <1>3, <2>1 DEF QueueInv, LockInv, TypeOK, Base
  <2>4. CASE thiefPc[t] = "take"
    <3>1. Taking /\ ~Announced /\ Base < End
      BY <2>2, <2>4 DEF Taking, Announced, QueueInv, RoomInv
    <3> QED BY <1>1, <1>3, <2>3, <3>1 DEF EndsRight, First
  <2>5. CASE thiefPc[t] # "take"
    <3>1. ~Taking /\ Announced
      BY <2>2, <2>3, <2>5 DEF Taking, Announced
    <3> QED BY <1>1, <1>3, <2>3, <3>1 DEF EndsRight, First
  <2> QED BY <2>4, <2>5
<1> QED BY <1>2, <1>3

\* Its elements, from the invariant.
LEMMA ItemsAre == QueueInv => ItemsRight
<1> SUFFICES ASSUME QueueInv PROVE ItemsRight
  OBVIOUS
<1>1. EndsRight
  BY EndsAre
<1>2. PICK n \in Nat : n = End - First
  BY <1>1 DEF EndsRight
<1>3. \A i \in 1..n : Content(First + i - 1) \in 1..MaxPushes
  <2>1. \A i \in 1..n : First + i - 1 \in Window
    BY <1>1, <1>2 DEF EndsRight, Window
  <2> QED BY <2>1 DEF QueueInv, ContentInv, TypeOK, Values
<1>4. Items = [i \in 1..n |-> Content(First + i - 1)]
  BY <1>2 DEF Items, Content
<1>5. Items \in [1..n -> 1..MaxPushes]
  BY <1>3, <1>4
<1>6. ASSUME NEW e PROVE Claimed(e) <=> Taking /\ e = Content(Base)
  <2>1. \A t \in Thieves : thiefPc[t] = "take" => Base = headMirror[t]
    BY Holder
  <2> QED BY <2>1 DEF Claimed, Taking, Content
<1>7. Items \in Seq(1..MaxPushes) /\ Len(Items) = n
  BY <1>5
<1>8. \A i \in 1..n : Items[i] = Content(First + i - 1)
  BY <1>4
<1> QED BY <1>2, <1>6, <1>7, <1>8 DEF ItemsRight

\* The same of the state after a step.
LEMMA EndsAreNext == QueueInv' => EndsRight' /\ ItemsRight'
BY EndsAre, ItemsAre, PTL

\* A step that leaves both ends, what is between them, the claim and the
\* deliveries alone is not seen.
LEMMA Unseen ==
  ASSUME QueueInv, QueueInv', First' = First, End' = End,
         \A i \in Window : Content(i)' = Content(i),
         Taking' <=> Taking, Base' = Base, UNCHANGED delivered
  PROVE  UNCHANGED <<Items, HandedOut>>
<1>1. EndsRight /\ ItemsRight /\ EndsRight' /\ ItemsRight'
  BY EndsAre, ItemsAre, EndsAreNext
<1>2. Items' = Items
  <2>1. Len(Items') = Len(Items)
    BY <1>1 DEF ItemsRight
  <2>2. ASSUME NEW i \in 1..Len(Items) PROVE Items'[i] = Items[i]
    <3>1. First + i - 1 \in Window
      BY <1>1 DEF EndsRight, ItemsRight, Window
    <3>2. Items'[i] = Content(First + i - 1)'
      BY <1>1 DEF ItemsRight
    <3> QED BY <1>1, <3>1, <3>2 DEF ItemsRight
  <2> QED BY <1>1, <2>1, <2>2, SeqEqual DEF ItemsRight
<1>3. \A e : Claimed(e)' <=> Claimed(e)
  <2>1. Taking => Base \in Window
    BY <1>1 DEF EndsRight, Window
  <2> QED BY <1>1, <2>1 DEF ItemsRight
<1>4. HandedOut' = HandedOut
  BY <1>3 DEF HandedOut
<1> QED BY <1>2, <1>4

-----------------------------------------------------------------------------
\* Each step of the queue, as its users see it.

\* Slots, thieves and head_ as they are: the window stays where it is.
LEMMA OwnerUnseen ==
  ASSUME QueueInv, QueueInv', UNCHANGED <<head, mutex, thiefPc, delivered>>,
         End' = End, \A i \in Window : Content(i)' = Content(i)
  PROVE  UNCHANGED <<Items, HandedOut>>
<1>1. First' = First /\ Base' = Base /\ (Taking' <=> Taking)
  BY DEF First, Announced, Base, Taking
<1> QED BY <1>1, Unseen

\* The owner writes a slot that is none of the queue's.
LEMMA PushWriteUnseen ==
  ASSUME QueueInv, QueueInv', PushWrite
  PROVE  UNCHANGED <<Items, HandedOut>>
<1>1. End' = End /\ End = tail
  BY DEF PushWrite, End
<1>2. ASSUME NEW i \in Window PROVE Content(i)' = Content(i)
  <2>1. /\ i \in Nat /\ i < tail /\ tail < i + Capacity
        /\ tail \in Nat
    <3>1. Base \in Nat /\ tail \in Nat /\ tail < Base + Capacity
      BY EndsAre DEF EndsRight, QueueInv, TypeOK, RoomInv, PushWrite
    <3> QED BY <1>1, <3>1 DEF Window
  <2>2. Slot(i) # Slot(tail) /\ Slot(i) \in 0..Mask
    BY <2>1, SlotDiffers, SlotRange
  <2> QED BY <2>2 DEF Content, PushWrite, QueueInv, TypeOK
<1> QED BY <1>1, <1>2, OwnerUnseen DEF PushWrite

\* The element is in the queue when tail_ is stored.
LEMMA PushSeen ==
  ASSUME NoWrap, QueueInv, QueueInv', PushPublish
  PROVE  \E e \in 1..MaxPushes : D!PushBack(e)
<1>1. EndsRight /\ ItemsRight /\ EndsRight' /\ ItemsRight'
  BY EndsAre, ItemsAre, EndsAreNext
<1>2. /\ tail' = tail + 1 /\ End = tail /\ End' = tail + 1
      /\ First' = First /\ Base' = Base /\ (Taking' <=> Taking)
  BY Indices DEF PushPublish, End, First, Announced, Base, Taking
<1>3. \A i : Content(i)' = Content(i)
  BY DEF PushPublish, Content
<1>4. PICK e : e = pushed + 1
  OBVIOUS
<1>5. e \in 1..MaxPushes /\ Content(tail) = e /\ delivered[e] = 0
  BY <1>4 DEF PushPublish, QueueInv, TypeOK, RoomInv, ContentInv, Values
<1>6. \A i \in Window : Content(i) # e
  BY <1>4, <1>5 DEF QueueInv, ContentInv, TypeOK, Values
<1>7. ~D!Holds(e)
  <2>1. ASSUME NEW i \in 1..Len(Items) PROVE Items[i] # e
    <3>1. First + i - 1 \in Window
      BY <1>1 DEF EndsRight, ItemsRight, Window
    <3> QED BY <1>1, <1>6, <3>1 DEF ItemsRight
  <2> QED BY <1>1, <2>1 DEF ItemsRight, D!Holds
<1>8. \A d : Claimed(d)' <=> Claimed(d)
  BY <1>1, <1>2, <1>3 DEF ItemsRight
<1>9. HandedOut' = HandedOut
  BY <1>8 DEF HandedOut, PushPublish
<1>10. HandedOut[e] = 0
  <2>1. Taking => Base \in Window
    BY <1>1 DEF EndsRight, Window
  <2>2. ~Claimed(e)
    BY <1>1, <1>6, <2>1 DEF ItemsRight
  <2> QED BY <1>5, <2>2 DEF HandedOut
<1>11. Items' = Append(Items, e)
  <2>1. PICK n \in Nat : n = Len(Items)
    BY <1>1 DEF ItemsRight
  <2>2. Len(Items') = n + 1 /\ First + n = tail
    BY <1>1, <1>2, <2>1 DEF ItemsRight, EndsRight
  <2>3. /\ Append(Items, e) \in Seq(1..MaxPushes)
        /\ Len(Append(Items, e)) = n + 1
        /\ \A i \in 1..n : Append(Items, e)[i] = Items[i]
        /\ Append(Items, e)[n + 1] = e
    BY <1>1, <1>5, <2>1, AppendProperties DEF ItemsRight
  <2>4. ASSUME NEW i \in 1..(n + 1) PROVE Items'[i] = Append(Items, e)[i]
    <3>1. Items'[i] = Content(First + i - 1)
      BY <1>1, <1>2, <1>3, <2>2 DEF ItemsRight
    <3>2. CASE i \in 1..n
      BY <1>1, <2>1, <2>3, <3>1, <3>2 DEF ItemsRight
    <3>3. CASE i = n + 1
      <4>1. First + i - 1 = tail
        BY <1>1, <2>2, <3>3 DEF EndsRight
      <4> QED BY <1>5, <2>3, <3>1, <3>3, <4>1
    <3> QED BY <2>1, <3>2, <3>3
  <2> QED BY <1>1, <2>2, <2>3, <2>4, SeqEqual DEF ItemsRight
<1> QED BY <1>5, <1>7, <1>9, <1>10, <1>11 DEF D!PushBack

\* The owner takes the youngest element, whether or not it had to wait for
\* foreign_sync_.
LEMMA PopSeen ==
  ASSUME QueueInv, QueueInv', ownerPc \in {"contend", "await"},
         ownerPc' = "idle", head <= tail,
         HandOut(slots[Slot(tail)]),
         UNCHANGED <<head, tail, slots, mutex, thiefPc, headMirror, pushed>>
  PROVE  D!PopBack
<1>1. EndsRight /\ ItemsRight /\ EndsRight' /\ ItemsRight'
  BY EndsAre, ItemsAre, EndsAreNext
<1>2. /\ End = tail + 1 /\ End' = tail /\ tail \in Nat /\ head \in Nat
      /\ First' = First /\ Base' = Base /\ (Taking' <=> Taking)
  BY DEF End, First, Announced, Base, Taking, QueueInv, TypeOK
<1>3. \A i : Content(i)' = Content(i)
  BY DEF Content
<1>4. PICK n \in Nat : n = Len(Items)
  BY <1>1 DEF ItemsRight
<1>5. n \in 1..n /\ n - 1 \in Nat /\ First + n - 1 = tail
  <2>1. First <= tail
    BY <1>1, <1>2 DEF EndsRight
  <2> QED BY <1>1, <1>2, <1>4, <2>1 DEF EndsRight, ItemsRight
<1>6. PICK e : e = Items[n]
  OBVIOUS
<1>7. e = Content(tail) /\ e \in 1..MaxPushes
  BY <1>1, <1>4, <1>5, <1>6 DEF ItemsRight
<1>8. Items' = SubSeq(Items, 1, n - 1)
  <2>1. /\ SubSeq(Items, 1, n - 1) \in Seq(1..MaxPushes)
        /\ Len(SubSeq(Items, 1, n - 1)) = n - 1
        /\ \A i \in 1..(n - 1) : SubSeq(Items, 1, n - 1)[i] = Items[i]
    BY <1>1, <1>4, <1>5 DEF ItemsRight
  <2>2. Len(Items') = n - 1
    BY <1>1, <1>2, <1>5 DEF ItemsRight, EndsRight
  <2>3. ASSUME NEW i \in 1..(n - 1) PROVE Items'[i] = Items[i]
    <3>1. Items'[i] = Content(First + i - 1)
      BY <1>1, <1>2, <1>3, <2>2 DEF ItemsRight
    <3> QED BY <1>1, <1>4, <3>1 DEF ItemsRight
  <2> QED BY <1>1, <2>1, <2>2, <2>3, SeqEqual DEF ItemsRight
<1>9. \A d : Claimed(d)' <=> Claimed(d)
  BY <1>1, <1>2, <1>3 DEF ItemsRight
<1>10. HandedOut' = [HandedOut EXCEPT ![e] = @ + 1]
  <2>1. delivered' = [delivered EXCEPT ![e] = @ + 1]
    BY <1>7 DEF HandOut, Content
  <2>2. ASSUME NEW d \in 1..MaxPushes
        PROVE  HandedOut'[d] = IF d = e THEN HandedOut[d] + 1 ELSE HandedOut[d]
    <3>1. delivered[d] \in Nat /\ d \in DOMAIN delivered
      BY DEF QueueInv, TypeOK, Values
    <3> QED BY <1>9, <2>1, <3>1 DEF HandedOut
  <2> QED BY <1>7, <2>2 DEF HandedOut
<1>11. Items # <<>>
  BY <1>4, <1>5
<1> QED BY <1>4, <1>6, <1>8, <1>10, <1>11 DEF D!PopBack, D!HandOut

\* A thief has the element when it has seen that tail_ is beyond it.
LEMMA StealSeen ==
  ASSUME QueueInv, QueueInv', NEW t \in Thieves, SharedClaim(t)
  PROVE  D!PopFront
<1>1. EndsRight /\ ItemsRight /\ EndsRight' /\ ItemsRight'
  BY EndsAre, ItemsAre, EndsAreNext
<1>2. Announced /\ Taking' /\ thiefPc'[t] = "take"
  BY DEF SharedClaim, ThiefMoves, Announced, Taking, QueueInv, TypeOK
<1>3. /\ Base = headMirror[t] /\ headMirror[t] < tail /\ tail \in Nat
      /\ End' = End /\ tail <= End /\ Base' = Base
  BY Holder DEF SharedClaim, ThiefMoves, End, Base, QueueInv, TypeOK
<1>4. First = Base /\ First' = Base + 1 /\ ~Taking /\ Base \in Nat
      /\ First < End /\ End \in Nat
  BY <1>1, <1>2, <1>3 DEF EndsRight
<1>5. \A i : Content(i)' = Content(i)
  BY DEF Content, SharedClaim
<1>6. PICK n \in Nat : n = Len(Items)
  BY <1>1 DEF ItemsRight
<1>7. 1 \in 1..n /\ n - 1 \in Nat /\ n = End - First
  BY <1>1, <1>4, <1>6 DEF ItemsRight
<1>8. PICK e : e = Items[1]
  OBVIOUS
<1>9. e = Content(Base) /\ e \in 1..MaxPushes
  BY <1>1, <1>4, <1>6, <1>7, <1>8 DEF ItemsRight
<1>10. Items # <<>> /\ Head(Items) = e
  BY <1>1, <1>6, <1>7, <1>8 DEF ItemsRight
<1>11. Items' = Tail(Items)
  <2>1. /\ Tail(Items) \in Seq(1..MaxPushes) /\ Len(Tail(Items)) = n - 1
        /\ \A i \in 1..(n - 1) : Tail(Items)[i] = Items[i + 1]
    BY <1>1, <1>6, <1>10, HeadTailProperties DEF ItemsRight
  <2>2. Len(Items') = n - 1
    BY <1>1, <1>3, <1>4, <1>7 DEF ItemsRight
  <2>3. ASSUME NEW i \in 1..(n - 1) PROVE Items'[i] = Items[i + 1]
    <3>1. Items'[i] = Content(First' + i - 1)
      BY <1>1, <1>5, <2>2 DEF ItemsRight
    <3>2. First' + i - 1 = First + (i + 1) - 1 /\ i + 1 \in 1..n
      BY <1>4
    <3> QED BY <1>1, <1>6, <3>1, <3>2 DEF ItemsRight
  <2> QED BY <1>1, <2>1, <2>2, <2>3, SeqEqual DEF ItemsRight
<1>12. \A d : Claimed(d)' <=> d = e
  BY <1>1, <1>2, <1>3, <1>5, <1>9 DEF ItemsRight
<1>13. \A d : ~Claimed(d)
  BY <1>1, <1>4 DEF ItemsRight
<1>14. HandedOut' = [HandedOut EXCEPT ![e] = @ + 1]
  <2>1. ASSUME NEW d \in 1..MaxPushes
        PROVE  HandedOut'[d] = IF d = e THEN HandedOut[d] + 1 ELSE HandedOut[d]
    <3>1. delivered[d] \in Nat /\ delivered' = delivered
      BY DEF QueueInv, TypeOK, Values, SharedClaim
    <3> QED BY <1>12, <1>13, <3>1 DEF HandedOut
  <2> QED BY <1>9, <2>1 DEF HandedOut
<1> QED BY <1>10, <1>11, <1>14 DEF D!PopFront, D!HandOut

\* A thief that reads the element it has claimed changes nothing users see.
LEMMA SharedTakeUnseen ==
  ASSUME QueueInv, QueueInv', NEW t \in Thieves, SharedTake(t)
  PROVE  UNCHANGED <<Items, HandedOut>>
<1>1. EndsRight /\ ItemsRight /\ EndsRight' /\ ItemsRight'
  BY EndsAre, ItemsAre, EndsAreNext
<1>2. Taking /\ Base = headMirror[t] /\ mutex' = Free
  BY Holder DEF SharedTake, ThiefMoves, Taking
<1>3. ~Taking' /\ ~Announced'
  BY <1>1, <1>2 DEF EndsRight
<1>4. First' = First /\ End' = End
  <2>1. head' = head /\ End' = End
    BY DEF SharedTake, End
  <2> QED BY <1>1, <1>2, <1>3, <2>1 DEF EndsRight
<1>5. \A i : Content(i)' = Content(i)
  BY DEF Content, SharedTake
<1>6. Items' = Items
  <2>1. Len(Items') = Len(Items)
    BY <1>1, <1>4 DEF ItemsRight
  <2>2. \A i \in 1..Len(Items) : Items'[i] = Items[i]
    BY <1>1, <1>4, <1>5 DEF ItemsRight
  <2> QED BY <1>1, <2>1, <2>2, SeqEqual DEF ItemsRight
<1>7. PICK e : e = Content(Base)
  OBVIOUS
<1>8. \A d : (Claimed(d) <=> d = e) /\ ~Claimed(d)'
  BY <1>1, <1>2, <1>3, <1>7 DEF ItemsRight
<1>9. delivered' = [delivered EXCEPT ![e] = @ + 1]
  BY <1>2, <1>7 DEF SharedTake, HandOut, Content
<1>10. HandedOut' = HandedOut
  <2>1. ASSUME NEW d \in 1..MaxPushes PROVE HandedOut'[d] = HandedOut[d]
    <3>1. delivered[d] \in Nat /\ d \in DOMAIN delivered
      BY DEF QueueInv, TypeOK, Values
    <3> QED BY <1>8, <1>9, <3>1 DEF HandedOut
  <2> QED BY <2>1 DEF HandedOut
<1> QED BY <1>6, <1>10

\* A thief that announces itself, misses or gives up changes nothing users see.
LEMMA ThiefUnseen ==
  ASSUME NoWrap, QueueInv, QueueInv', NEW t \in Thieves,
         SharedAnnounce(t) \/ SharedMiss(t) \/ SharedUndo(t)
  PROVE  UNCHANGED <<Items, HandedOut>>
<1>1. EndsRight /\ EndsRight'
  BY EndsAre, EndsAreNext
<1>2. End' = End /\ UNCHANGED <<slots, delivered>>
  BY DEF SharedAnnounce, SharedMiss, SharedUndo, End
<1>3. \A i : Content(i)' = Content(i)
  BY <1>2 DEF Content
<1>4. CASE SharedAnnounce(t)
  <2>1. mutex = Free /\ head' = head + 1 /\ head \in Nat
    BY <1>4, Indices DEF SharedAnnounce, QueueInv, TypeOK
  <2>2. Announced'
    BY <1>4 DEF SharedAnnounce, ThiefMoves, Announced, QueueInv, TypeOK
  <2>3. First' = First /\ Base' = Base /\ ~Taking /\ ~Taking'
    BY <1>1, <2>1, <2>2 DEF EndsRight
  <2> QED BY <1>2, <1>3, <2>3, Unseen
<1>5. CASE SharedMiss(t)
  <2>1. Announced /\ Announced' /\ head' = head
    BY <1>5 DEF SharedMiss, ThiefMoves, Announced, QueueInv, TypeOK
  <2>2. First' = First /\ Base' = Base /\ ~Taking /\ ~Taking'
    BY <1>1, <2>1 DEF EndsRight
  <2> QED BY <1>2, <1>3, <2>2, Unseen
<1>6. CASE SharedUndo(t)
  <2>1. Announced /\ mutex' = Free /\ Base = headMirror[t]
        /\ head' = headMirror[t]
    BY <1>6, Holder DEF SharedUndo, ThiefMoves, Announced
  <2>2. First' = First /\ Base' = Base /\ ~Taking /\ ~Taking'
    BY <1>1, <2>1 DEF EndsRight
  <2> QED BY <1>2, <1>3, <2>2, Unseen
<1> QED BY <1>4, <1>5, <1>6

\* Every step of owner and thieves is a removal or an addition at one end, or
\* is not seen.
LEMMA DequeStep ==
  ASSUME NoWrap, QueueInv, QueueInv', [Next]_vars
  PROVE  [D!Next]_<<Items, HandedOut>>
<1>1. CASE OwnerNext
  <2>1. ASSUME PushCheck \/ PullCheck \/ PullDecrement \/ PullContended
               \/ PullLockedGiveUp
        PROVE  UNCHANGED <<Items, HandedOut>>
    <3>1. UNCHANGED <<head, mutex, thiefPc, delivered, slots>>
      BY <2>1 DEF PushCheck, PullCheck, PullDecrement, PullContended,
                  PullLockedGiveUp
    <3>2. tail \in Nat /\ Wrap(tail + 1) = tail + 1
      BY Indices DEF QueueInv, TypeOK
    <3>3. End' = End
      BY <2>1, <3>2 DEF PushCheck, PullCheck, PullDecrement, PullContended,
                        PullLockedGiveUp, End
    <3> QED BY <3>1, <3>3, OwnerUnseen DEF Content
  <2>2. CASE PushWrite
    BY <2>2, PushWriteUnseen
  <2>3. CASE PushPublish
    BY <2>3, PushSeen DEF D!Next
  <2>4. CASE PullTake \/ PullLockedTake
    BY <2>4, PopSeen DEF PullTake, PullLockedTake, D!Next
  <2> QED BY <1>1, <2>1, <2>2, <2>3, <2>4 DEF OwnerNext
<1>2. ASSUME NEW t \in Thieves, ThiefNext(t)
      PROVE  [D!Next]_<<Items, HandedOut>>
  BY <1>2, StealSeen, SharedTakeUnseen, ThiefUnseen DEF ThiefNext, D!Next
<1>3. CASE UNCHANGED vars
  <2>1. End' = End /\ UNCHANGED <<head, mutex, thiefPc, delivered, slots>>
    BY <1>3 DEF vars, End
  <2> QED BY <2>1, OwnerUnseen DEF Content
<1> QED BY <1>1, <1>2, <1>3 DEF Next

\* What the owner and the thieves do at the two ends of the queue is one removal
\* at a time, in deque order, and loses nothing (work_stealing_queue.hpp:47-92).
THEOREM DequeImplemented == ASSUME NoWrap PROVE Spec => ImplementsDeque
<1>1. Init => D!Init
  <2> SUFFICES ASSUME Init PROVE D!Init
    OBVIOUS
  <2>1. End = 0 /\ First = 0 /\ \A e : ~Claimed(e)
    BY DEF Init, End, First, Announced, Claimed
  <2>2. Items = <<>>
    BY <2>1 DEF Items
  <2>3. HandedOut = [e \in 1..MaxPushes |-> 0]
    <3>1. \A e \in 1..MaxPushes : delivered[e] = 0
      BY DEF Init, Values
    <3> QED BY <2>1, <3>1 DEF HandedOut
  <2> QED BY <2>2, <2>3 DEF D!Init
<1>2. QueueInv /\ QueueInv' /\ [Next]_vars => [D!Next]_<<Items, HandedOut>>
  BY DequeStep
<1> QED BY <1>1, <1>2, Invariance, PTL DEF Spec, ImplementsDeque, D!Spec,
                                          D!dequeVars
=============================================================================
