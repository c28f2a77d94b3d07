------------------------- MODULE WorkStealingQueue -------------------------
(***************************************************************************)
(* proto/work_stealing_queue.hpp: a bounded ring of elements shared by one *)
(* owner thread (unique_push, unique_pull) and any number of thieves       *)
(* (shared_pull).  The owner works at tail_ without a lock, the thieves at *)
(* head_ under foreign_sync_, and owner and thief settle who gets the last *)
(* element by each announcing itself (storing its index) before it looks   *)
(* at the other's index.                                                   *)
(*                                                                         *)
(* Every load and store of head_ and tail_ is sequentially consistent.  A  *)
(* step here ends at an access another thread can tell apart: accesses to  *)
(* a thread's own index, and to head_ by the holder of foreign_sync_, are  *)
(* folded into the step of the next shared access.  The slots themselves   *)
(* are plain memory: writing one and reading one are steps of their own.   *)
(*                                                                         *)
(* The element of the n-th successful push is the number n, so that two    *)
(* pushes never look alike; 0 stands for the uninitialised memory a slot   *)
(* holds before its first write.  A call that returns false leaves nothing *)
(* behind and is a stuttering step: a full unique_push, a unique_pull that *)
(* finds head_ >= tail_, a shared_pull whose timed lock is not obtained.   *)
(***************************************************************************)
EXTENDS Naturals

CONSTANTS Thieves,      \* the threads that call shared_pull
          Free,         \* the value of foreign_sync_ when no thief holds it
          Capacity,     \* CAPACITY, a power of two
          IndexRange,   \* how many values Size_ has: 2^32 in the code
          MaxPushes     \* bound: the number of successful pushes considered

ASSUME CapacityAssumption == Capacity \in Nat /\ Capacity > 0
ASSUME IndexAssumption == IndexRange \in Nat /\ IndexRange > 0
ASSUME PushesAssumption == MaxPushes \in Nat
ASSUME FreeAssumption == Free \notin Thieves

VARIABLES head,         \* head_
          tail,         \* tail_
          slots,        \* elements_
          mutex,        \* foreign_sync_: the thief that holds it, or Free
          ownerPc,      \* where the owner is in unique_push or unique_pull
          thiefPc,      \* where each thief is in shared_pull
          headMirror,   \* head_mirror of each thief
          pushed,       \* history: how many pushes have succeeded
          delivered     \* history: how often each element was handed out

vars == <<head, tail, slots, mutex, ownerPc, thiefPc, headMirror, pushed,
          delivered>>

Mask == Capacity - 1
Slot(index) == index % Capacity
Wrap(index) == index % IndexRange
Values == 0..MaxPushes

Init == /\ head = 0
        /\ tail = 0
        /\ slots = [s \in 0..Mask |-> 0]
        /\ mutex = Free
        /\ ownerPc = "idle"
        /\ thiefPc = [t \in Thieves |-> "idle"]
        /\ headMirror = [t \in Thieves |-> 0]
        /\ pushed = 0
        /\ delivered = [e \in Values |-> 0]

HandOut(element) == delivered' = [delivered EXCEPT ![element] = @ + 1]

ThiefMoves(t, from, to) == /\ thiefPc[t] = from
                           /\ thiefPc' = [thiefPc EXCEPT ![t] = to]

-----------------------------------------------------------------------------
\* unique_push, called by the owner.

\* Mutant: the ring is filled to its last slot.
PushCheck_NoSpareSlot == /\ ownerPc = "idle"
                         /\ pushed < MaxPushes
                         /\ tail < Wrap(head + Capacity)
                         /\ ownerPc' = "write"
                         /\ UNCHANGED <<head, tail, slots, mutex, thiefPc,
                                        headMirror, pushed, delivered>>

\* There is room as seen by one load of head_.
PushCheck == /\ ownerPc = "idle"
             /\ pushed < MaxPushes
             /\ tail < Wrap(head + Mask)
             /\ ownerPc' = "write"
             /\ UNCHANGED <<head, tail, slots, mutex, thiefPc, headMirror,
                            pushed, delivered>>

PushWrite == /\ ownerPc = "write"
             /\ slots' = [slots EXCEPT ![Slot(tail)] = pushed + 1]
             /\ ownerPc' = "publish"
             /\ UNCHANGED <<head, tail, mutex, thiefPc, headMirror, pushed,
                            delivered>>

PushPublish == /\ ownerPc = "publish"
               /\ tail' = Wrap(tail + 1)
               /\ pushed' = pushed + 1
               /\ ownerPc' = "idle"
               /\ UNCHANGED <<head, slots, mutex, thiefPc, headMirror,
                              delivered>>

-----------------------------------------------------------------------------
\* unique_pull, called by the owner.

PullCheck == /\ ownerPc = "idle"
             /\ head < tail
             /\ ownerPc' = "decrement"
             /\ UNCHANGED <<head, tail, slots, mutex, thiefPc, headMirror,
                            pushed, delivered>>

\* The owner announces that it wants the last element.
PullDecrement == /\ ownerPc = "decrement"
                 /\ tail' = tail - 1
                 /\ ownerPc' = "contend"
                 /\ UNCHANGED <<head, slots, mutex, thiefPc, headMirror,
                                pushed, delivered>>

\* No thief has announced itself at that element: it is the owner's.
PullTake == /\ ownerPc = "contend"
            /\ head <= tail
            /\ HandOut(slots[Slot(tail)])
            /\ ownerPc' = "idle"
            /\ UNCHANGED <<head, tail, slots, mutex, thiefPc, headMirror,
                           pushed>>

\* A thief is, or was, at that element: decide under foreign_sync_.
PullContended == /\ ownerPc = "contend"
                 /\ head > tail
                 /\ ownerPc' = "await"
                 /\ UNCHANGED <<head, tail, slots, mutex, thiefPc, headMirror,
                                pushed, delivered>>

\* Mutant: the owner takes the element without a second look at head_.
PullLockedTake_Unchecked == /\ ownerPc = "await"
                            /\ mutex = Free
                            /\ HandOut(slots[Slot(tail)])
                            /\ ownerPc' = "idle"
                            /\ UNCHANGED <<head, tail, slots, mutex, thiefPc,
                                           headMirror, pushed>>

\* The critical section of the owner.  It is one step: thieves touch head_
\* and load tail_ only while they hold foreign_sync_.
PullLockedTake == /\ ownerPc = "await"
                  /\ mutex = Free
                  /\ head <= tail
                  /\ HandOut(slots[Slot(tail)])
                  /\ ownerPc' = "idle"
                  /\ UNCHANGED <<head, tail, slots, mutex, thiefPc,
                                 headMirror, pushed>>

\* Mutant: the owner gives up and forgets to restore tail_.
PullLockedGiveUp_KeepsTail == /\ ownerPc = "await"
                              /\ mutex = Free
                              /\ head > tail
                              /\ ownerPc' = "idle"
                              /\ UNCHANGED <<head, tail, slots, mutex, thiefPc,
                                             headMirror, pushed, delivered>>

PullLockedGiveUp == /\ ownerPc = "await"
                    /\ mutex = Free
                    /\ head > tail
                    /\ tail' = Wrap(tail + 1)
                    /\ ownerPc' = "idle"
                    /\ UNCHANGED <<head, slots, mutex, thiefPc, headMirror,
                                   pushed, delivered>>

-----------------------------------------------------------------------------
\* shared_pull, called by thief t.

\* Obtain the lock and announce that the first element is wanted.
SharedAnnounce(t) == /\ ThiefMoves(t, "idle", "announced")
                     /\ mutex = Free
                     /\ mutex' = t
                     /\ headMirror' = [headMirror EXCEPT ![t] = head]
                     /\ head' = Wrap(head + 1)
                     /\ UNCHANGED <<tail, slots, ownerPc, pushed, delivered>>

\* Mutant: <= instead of < in the test of the announced element.
SharedClaim_OffByOne(t) == /\ ThiefMoves(t, "announced", "take")
                           /\ headMirror[t] <= tail
                           /\ UNCHANGED <<head, tail, slots, mutex, ownerPc,
                                          headMirror, pushed, delivered>>

\* The load of tail_ decides whether the element is the thief's.
SharedClaim(t) == /\ ThiefMoves(t, "announced", "take")
                  /\ headMirror[t] < tail
                  /\ UNCHANGED <<head, tail, slots, mutex, ownerPc,
                                 headMirror, pushed, delivered>>

SharedMiss(t) == /\ ThiefMoves(t, "announced", "undo")
                 /\ headMirror[t] >= tail
                 /\ UNCHANGED <<head, tail, slots, mutex, ownerPc,
                                headMirror, pushed, delivered>>

SharedTake(t) == /\ ThiefMoves(t, "take", "idle")
                 /\ HandOut(slots[Slot(headMirror[t])])
                 /\ mutex' = Free
                 /\ UNCHANGED <<head, tail, slots, ownerPc, headMirror,
                                pushed>>

\* Mutant: the thief gives up and forgets to restore head_.
SharedUndo_KeepsHead(t) == /\ ThiefMoves(t, "undo", "idle")
                           /\ mutex' = Free
                           /\ UNCHANGED <<head, tail, slots, ownerPc,
                                          headMirror, pushed, delivered>>

\* Mutant: the thief gives up and forgets to release foreign_sync_.
SharedUndo_KeepsLock(t) == /\ ThiefMoves(t, "undo", "idle")
                           /\ head' = headMirror[t]
                           /\ UNCHANGED <<tail, slots, mutex, ownerPc,
                                          headMirror, pushed, delivered>>

SharedUndo(t) == /\ ThiefMoves(t, "undo", "idle")
                 /\ head' = headMirror[t]
                 /\ mutex' = Free
                 /\ UNCHANGED <<tail, slots, ownerPc, headMirror, pushed,
                                delivered>>

-----------------------------------------------------------------------------
OwnerNext == \/ PushCheck \/ PushWrite \/ PushPublish
             \/ PullCheck \/ PullDecrement \/ PullTake \/ PullContended
             \/ PullLockedTake \/ PullLockedGiveUp

ThiefNext(t) == \/ SharedAnnounce(t)
                \/ SharedClaim(t) \/ SharedMiss(t)
                \/ SharedTake(t) \/ SharedUndo(t)

Next == OwnerNext \/ \E t \in Thieves : ThiefNext(t)

Spec == Init /\ [][Next]_vars

\* A thread inside a call keeps running, and foreign_sync_ does not starve
\* the owner for ever.  Nobody is obliged to start a call.
Fairness == /\ WF_vars(PushWrite \/ PushPublish)
            /\ WF_vars(PullDecrement \/ PullTake \/ PullContended)
            /\ SF_vars(PullLockedTake \/ PullLockedGiveUp)
            /\ \A t \in Thieves :
                  WF_vars(SharedClaim(t) \/ SharedMiss(t) \/ SharedTake(t)
                          \/ SharedUndo(t))

FairSpec == Spec /\ Fairness

-----------------------------------------------------------------------------
\* The queue as its users see it.

\* A thief that has announced itself has not taken the first element yet,
\* and an owner that contends has not taken the last one.
Announced == \E t \in Thieves : thiefPc[t] \in {"announced", "undo"}
First == IF Announced THEN head - 1 ELSE head
End == IF ownerPc \in {"contend", "await"} THEN tail + 1 ELSE tail
Items == [i \in 1..(End - First) |-> slots[Slot(First + i - 1)]]

\* An element some thief has claimed but not read yet.
Claimed(e) == \E t \in Thieves : /\ thiefPc[t] = "take"
                                 /\ slots[Slot(headMirror[t])] = e
HandedOut == [e \in 1..MaxPushes |-> delivered[e] + IF Claimed(e) THEN 1 ELSE 0]

D == INSTANCE Deque WITH Elements <- 1..MaxPushes,
                         items <- Items,
                         delivered <- HandedOut

-----------------------------------------------------------------------------
\* Properties.

TypeOK == /\ head \in Nat
          /\ tail \in Nat
          /\ slots \in [0..Mask -> Values]
          /\ mutex \in Thieves \cup {Free}
          /\ ownerPc \in {"idle", "write", "publish", "decrement", "contend",
                          "await"}
          /\ thiefPc \in [Thieves -> {"idle", "announced", "take", "undo"}]
          /\ headMirror \in [Thieves -> Nat]
          /\ pushed \in Values
          /\ delivered \in [Values -> Nat]

\* unique_pull and shared_pull together hand an element to at most one
\* caller, and never hand out memory that was not pushed.
ExactlyOnce == /\ \A e \in Values : delivered[e] <= 1
               /\ delivered[0] = 0

\* The one slot the ring leaves unused (MASK, not CAPACITY, in unique_push)
\* is what keeps the owner from writing the slot a thief is about to read.
NoSlotRace == \A t \in Thieves :
                 (ownerPc = "write" /\ thiefPc[t] = "take")
                 => Slot(tail) # Slot(headMirror[t])

\* unique_pull, called now, would return false only for an empty queue, or
\* for a queue of one element while a thief is inside shared_pull.
RefusalBounded == (ownerPc = "idle" /\ head >= tail)
                  => \/ End - First = 0
                     \/ End - First = 1 /\ mutex # Free

\* The queue implements the deque: what the owner and the thieves do at the
\* two ends is one removal at a time, in deque order, and loses nothing.
ImplementsDeque == D!Spec

\* Every call of the owner returns, also the unique_pull that lost the race
\* for the last element and waits for foreign_sync_ among busy thieves.
OwnerReturns == (ownerPc # "idle") ~> (ownerPc = "idle")

-----------------------------------------------------------------------------
\* The inductive invariant behind ExactlyOnce, NoSlotRace, RefusalBounded.

\* No index wraps around before the bound on pushes is reached.
NoWrap == MaxPushes + Capacity < IndexRange

\* The oldest index whose slot is still needed: the holder of foreign_sync_
\* has stored head_ one past the element it is after.
Base == IF mutex = Free THEN head ELSE head - 1
Window == Base..(End - 1)
Content(i) == slots[Slot(i)]

LockInv == \A t \in Thieves : /\ thiefPc[t] = "idle" <=> mutex # t
                              /\ mutex = t => head = headMirror[t] + 1

\* The window never outgrows the ring, and a slot is free for the owner while
\* it writes one.
RoomInv == /\ Base <= End
           /\ End <= Base + Capacity
           /\ End <= pushed
           /\ ownerPc \in {"write", "publish"} => /\ tail < Base + Capacity
                                                 /\ pushed < MaxPushes
           /\ ownerPc = "decrement" => tail > 0
           /\ \A t \in Thieves : thiefPc[t] = "take" => Base < End

\* What the window holds was pushed, is all different and not handed out.
ContentInv ==
  /\ \A i \in Window : Content(i) \in 1..pushed /\ delivered[Content(i)] = 0
  /\ \A i, j \in Window : i # j => Content(i) # Content(j)
  /\ ownerPc = "publish" => Content(tail) = pushed + 1
  /\ \A e \in Values : e > pushed => delivered[e] = 0

QueueInv == TypeOK /\ LockInv /\ RoomInv /\ ContentInv /\ ExactlyOnce
=============================================================================
