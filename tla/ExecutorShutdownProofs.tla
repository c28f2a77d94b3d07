----------------------- MODULE ExecutorShutdownProofs -----------------------
(***************************************************************************)
(* Proofs about ExecutorShutdown, for any finite set of workers and any    *)
(* set of threads that close the executor: how far the count can be        *)
(* trusted although increment takes no lock, and what waiting for it       *)
(* covers, also where a worker enters while the executor is being closed.  *)
(***************************************************************************)
EXTENDS ExecutorShutdown, FiniteSetTheorems, TLAPS

-----------------------------------------------------------------------------
\* The inductive invariant.

Owner(u) == workerPc[u] \in {"starting", "loop", "leaving"}

\* tasks_mutex_ is held from the lock to the unlock, and so is count_mutex_.
LockInv == /\ \A u \in Users : mutex = u <=> Owner(u)
           /\ \A u \in Users : countMutex = u <=> itemPc[u] = "decrement"
           /\ \A w \in Waiters :
                countMutex = w <=> waitPc[w] \in {"subtract", "test"}

\* An Item is constructed at the start of a loop and released at its end.
ItemInv ==
  \A u \in Users :
    /\ workerPc[u] \in {"out", "entering"} => itemPc[u] = "none"
    /\ workerPc[u] = "starting" => itemPc[u] \in {"none", "increment", "store"}
    /\ workerPc[u] \in {"loop", "away"} => itemPc[u] = "held"
    /\ workerPc[u] = "leaving" =>
         itemPc[u] \in {"held", "decrement", "notify", "none"}

Waits(w) == waitPc[w] \notin {"idle", "returned"}

\* Only a closed executor is waited for, with a disabled counter, and one thread
\* at most waits.
CloseInv ==
  /\ \A w \in Waiters : waitPc[w] # "idle" => closed /\ ~alive
  /\ \A v, w \in Waiters : Waits(v) /\ Waits(w) => v = w
  /\ asleep = {w \in Waiters : waitPc[w] = "asleep"}

\* A value that was loaded to be stored is still the count, or differs from it by
\* the one change it races with: the waiter subtracts behind an increment, or an
\* increment comes behind the waiter.
LoadedInv ==
  /\ \A u \in Users : itemPc[u] = "decrement" => loaded[u] = count
  /\ \A u \in Users : itemPc[u] = "store" =>
       loaded[u] = count \/ (Subtracted /\ loaded[u] = count + 1)
  /\ \A w \in Waiters : waitPc[w] = "subtract" =>
       /\ loaded[w] # 0
       /\ loaded[w] = count \/ (late /\ ~Counting /\ loaded[w] = count - 1)

\* An Item that is not counted yet by a disabled counter is late, and until it is
\* counted nothing is wrong with the count.
LateInv ==
  /\ ~alive /\ Counting => late
  /\ Subtracted /\ Counting => count = Cardinality(Items)
  /\ \A w \in Waiters : waitPc[w] = "done" /\ Counting => Items = {}

\* What does not count: who holds which lock, and where everybody is.
ControlInv == /\ TypeOK /\ LockInv /\ ItemInv
              /\ CloseInv /\ LoadedInv /\ LateInv

ShutdownInv == ControlInv /\ CountExact /\ WaitCoversItems

-----------------------------------------------------------------------------
\* Counting the Items.

\* The Items are finitely many, and at most one per worker.
LEMMA ItemsFinite ==
  /\ IsFiniteSet(Items)
  /\ Cardinality(Items) \in 0..Cardinality(Users)
  /\ Cardinality(Items) = 0 <=> Items = {}
  /\ Cardinality(Users) \in Nat
<1>1. Items \in SUBSET Users
  BY DEF Items
<1>2. /\ IsFiniteSet(Items)
      /\ Cardinality(Items) <= Cardinality(Users)
  BY <1>1, ThreadsAssumption, FS_Subset
<1>3. Cardinality(Items) \in Nat /\ Cardinality(Users) \in Nat
  BY <1>2, ThreadsAssumption, FS_CardinalityType
<1> QED BY <1>2, <1>3, FS_EmptySet

\* The initial state satisfies the invariant.
LEMMA InitInv == Init => ShutdownInv
<1> SUFFICES ASSUME Init PROVE ShutdownInv
  OBVIOUS
<1> USE ThreadsAssumption DEF Init, InitCounter
<1>1. Items = {}
  BY DEF Items
<1>2. Cardinality(Items) = 0 /\ Cardinality(Users) \in Nat
  BY <1>1, ItemsFinite
<1>3. 0 \in 0..(Cardinality(Users) + 1) /\ 1 \in 0..(Cardinality(Users) + 1)
  BY <1>2
<1>4. TypeOK
  BY <1>3 DEF TypeOK
<1>5. LockInv /\ ItemInv /\ CloseInv /\ LoadedInv /\ LateInv
  BY DEF LockInv, ItemInv, CloseInv, LoadedInv, LateInv, Owner, Waits, Counting,
         Subtracted
<1>6. CountExact /\ WaitCoversItems
  BY <1>2 DEF CountExact, WaitCoversItems, Subtracted
<1> QED BY <1>4, <1>5, <1>6 DEF ShutdownInv, ControlInv

-----------------------------------------------------------------------------
\* The steps of a worker.

\* tasks_mutex_ allows one worker at a time to be changing the count.
LEMMA OneChanges ==
  ASSUME ShutdownInv, NEW u \in Users, NEW v \in Users,
         itemPc[u] \in {"increment", "store", "decrement"},
         itemPc[v] \in {"increment", "store", "decrement"}
  PROVE  u = v
<1>1. Owner(u) /\ Owner(v)
  BY DEF ShutdownInv, ControlInv, TypeOK, ItemInv, Owner
<1> QED BY <1>1 DEF ShutdownInv, ControlInv, LockInv

\* Taking and giving up tasks_mutex_ touches no count.
LEMMA WorkerMoves ==
  ASSUME NEW u \in Users, ShutdownInv,
         Call(u) \/ Lock(u) \/ Yield(u) \/ Resume(u) \/ Leave(u) \/ Unlock(u)
  PROVE  ShutdownInv'
<1> USE ThreadsAssumption DEF ShutdownInv, ControlInv, Goes, counterVars
<1>1. UNCHANGED <<counterVars, closed, destroyed>>
  BY DEF Call, Lock, Yield, Resume, Leave, Unlock
<1>2. CountExact' /\ WaitCoversItems'
  BY <1>1 DEF CountExact, WaitCoversItems, Items, Subtracted
<1>3. TypeOK'
  BY <1>1 DEF TypeOK, Call, Lock, Yield, Resume, Leave, Unlock
<1>4. LockInv'
  BY <1>1 DEF TypeOK, LockInv, Owner, Call, Lock, Yield, Resume, Leave, Unlock
<1>5. ItemInv'
  BY <1>1 DEF TypeOK, ItemInv, Call, Lock, Yield, Resume, Leave, Unlock
<1>6. CloseInv' /\ LoadedInv' /\ LateInv'
  BY <1>1 DEF CloseInv, LoadedInv, LateInv, Waits, Subtracted, Counting, Items
<1> QED BY <1>2, <1>3, <1>4, <1>5, <1>6

\* Looking at alive_: nobody has subtracted from a counter that is alive.
LEMMA CheckStep ==
  ASSUME NEW u \in Users, ShutdownInv,
         workerPc[u] = "starting", CheckAlive(u), UNCHANGED loopVars
  PROVE  ShutdownInv'
<1> USE ThreadsAssumption
    DEF ShutdownInv, ControlInv, CheckAlive, ItemMoves, loopVars
<1>1. CASE ~alive
  BY <1>1 DEF TypeOK, LockInv, ItemInv, CloseInv, LoadedInv, LateInv, CountExact,
              WaitCoversItems, Items, Owner, Waits, Subtracted, Counting
<1>2. CASE alive
  <2> USE <1>2
  <2>1. \A w \in Waiters : waitPc[w] = "idle"
    BY DEF CloseInv
  <2>2. ~Subtracted /\ ~Subtracted'
    BY <2>1 DEF Subtracted
  <2>3. Items' = Items
    BY DEF TypeOK, Items
  <2>4. CountExact' /\ WaitCoversItems'
    BY <2>1, <2>2, <2>3 DEF CountExact, WaitCoversItems
  <2>5. TypeOK'
    BY DEF TypeOK
  <2>6. LockInv' /\ ItemInv'
    BY DEF TypeOK, LockInv, ItemInv, Owner
  <2>7. CloseInv' /\ LoadedInv' /\ LateInv'
    BY <2>1, <2>2 DEF TypeOK, CloseInv, LoadedInv, LateInv, Waits
  <2> QED BY <2>4, <2>5, <2>6, <2>7
<1> QED BY <1>1, <1>2

\* The half of the increment that loads.
LEMMA IncrementLoadStep ==
  ASSUME NEW u \in Users, ShutdownInv,
         workerPc[u] = "starting", IncrementLoad(u), UNCHANGED loopVars
  PROVE  ShutdownInv'
<1> USE ThreadsAssumption
    DEF ShutdownInv, ControlInv, IncrementLoad, ItemMoves, Load, loopVars
<1>1. Items' = Items /\ Subtracted' = Subtracted
  BY DEF TypeOK, Items, Subtracted
<1>2. Counting /\ Counting'
  BY DEF TypeOK, Counting
<1>3. CountExact' /\ WaitCoversItems'
  BY <1>1 DEF CountExact, WaitCoversItems
<1>4. TypeOK'
  BY DEF TypeOK
<1>5. LockInv' /\ ItemInv' /\ CloseInv'
  BY DEF TypeOK, LockInv, ItemInv, CloseInv, Owner, Waits
<1>6. LoadedInv'
  BY <1>1, <1>2 DEF TypeOK, LoadedInv
<1>7. LateInv'
  BY <1>1, <1>2 DEF LateInv
<1> QED BY <1>3, <1>4, <1>5, <1>6, <1>7

\* The store of the increment.  No other worker has loaded the count, for it
\* would hold tasks_mutex_; the waiter may have, and then the Item is late.
LEMMA StartedStep ==
  ASSUME NEW u \in Users, ShutdownInv, Started(u)
  PROVE  ShutdownInv'
<1> USE ThreadsAssumption
    DEF ShutdownInv, ControlInv, Started, Goes, ItemMoves, IncrementStore
<1>1. \A v \in Users \ {u} : itemPc[v] \notin {"increment", "store", "decrement"}
  BY OneChanges
<1>2. Counting /\ ~Counting'
  BY <1>1 DEF TypeOK, Counting
<1>3. Subtracted' = Subtracted
  BY DEF Subtracted
<1>4. u \notin Items /\ Items' = Items \cup {u}
  BY DEF TypeOK, Items
<1>5. Cardinality(Items') = Cardinality(Items) + 1
  BY <1>4, ItemsFinite, FS_AddElement
<1>6. /\ Cardinality(Items) + 1 \in 1..Cardinality(Users)
      /\ Cardinality(Items) \in Nat /\ Cardinality(Users) \in Nat
  <2>1. Items \cup {u} \in SUBSET Users
    BY DEF Items
  <2> QED BY <2>1, <1>4, <1>5, ItemsFinite, FS_Subset, FS_CardinalityType
<1> DEFINE Goal == /\ CountExact' /\ LoadedInv'
                   /\ count' \in 0..(Cardinality(Users) + 1)
<1>7. ASSUME ~Subtracted PROVE Goal
  <2>1. count = Cardinality(Items) + 1 /\ count' = count + 1
    BY <1>7 DEF CountExact, LoadedInv
  <2>2. CountExact'
    BY <1>3, <1>5, <1>7, <2>1 DEF CountExact
  <2>3. count' \in 0..(Cardinality(Users) + 1)
    BY <1>6, <2>1
  <2>4. \A w \in Waiters : waitPc[w] = "subtract" =>
          late /\ loaded[w] = count /\ loaded[w] # 0
    BY <1>2 DEF CloseInv, LoadedInv, LateInv
  <2>5. LoadedInv'
    BY <1>1, <1>2, <1>6, <2>1, <2>4 DEF TypeOK, LoadedInv
  <2> QED BY <2>2, <2>3, <2>5
<1>8. ASSUME Subtracted PROVE Goal
  <2>1. late
    BY <1>2, <1>8 DEF Subtracted, CloseInv, LateInv
  <2>2. count = Cardinality(Items)
    BY <1>2, <1>8 DEF LateInv
  <2>3. count' \in {count + 1, count + 2}
    BY <2>2, <1>6 DEF LoadedInv
  <2>4. CountExact'
    BY <1>3, <1>5, <1>6, <1>8, <2>1, <2>2, <2>3 DEF CountExact
  <2>5. count' \in 0..(Cardinality(Users) + 1)
    BY <1>6, <2>2, <2>3
  <2>6. \A w \in Waiters : waitPc[w] # "subtract"
    BY <1>8 DEF Subtracted, CloseInv, Waits
  <2>7. LoadedInv'
    BY <1>1, <2>6 DEF TypeOK, LoadedInv
  <2> QED BY <2>4, <2>5, <2>7
<1>9. TypeOK'
  BY <1>7, <1>8 DEF TypeOK
<1>10. LockInv' /\ ItemInv' /\ CloseInv'
  BY DEF TypeOK, LockInv, ItemInv, CloseInv, Owner, Waits
<1>11. LateInv'
  BY <1>2 DEF LateInv
<1>12. WaitCoversItems'
  <2> SUFFICES ASSUME NEW w \in Waiters, waitPc[w] = "done"
               PROVE  late /\ Cardinality(Items') = 1 /\ asleep = {}
    BY DEF WaitCoversItems
  <2>1. late /\ Items = {}
    BY <1>2 DEF CloseInv, LateInv
  <2> QED BY <1>5, <2>1, ItemsFinite DEF WaitCoversItems
<1> QED BY <1>7, <1>8, <1>9, <1>10, <1>11, <1>12

\* The half of the decrement that takes count_mutex_ and loads.
LEMMA DecrementLoadStep ==
  ASSUME NEW u \in Users, ShutdownInv, workerPc[u] = "leaving",
         DecrementLoad(u), UNCHANGED loopVars
  PROVE  ShutdownInv'
<1> USE ThreadsAssumption
    DEF ShutdownInv, ControlInv, DecrementLoad, ItemMoves, Load, loopVars
<1>1. Items' = Items /\ Subtracted' = Subtracted /\ Counting' = Counting
  BY DEF TypeOK, Items, Subtracted, Counting
<1>2. CountExact' /\ WaitCoversItems'
  BY <1>1 DEF CountExact, WaitCoversItems
<1>3. TypeOK'
  BY DEF TypeOK
<1>4. LockInv' /\ ItemInv' /\ CloseInv'
  BY DEF TypeOK, LockInv, ItemInv, CloseInv, Owner, Waits
<1>5. LoadedInv' /\ LateInv'
  BY <1>1 DEF TypeOK, LoadedInv, LateInv
<1> QED BY <1>2, <1>3, <1>4, <1>5

\* The store of the decrement takes one away, or leaves zero where the count was
\* one too low.  Nobody else is changing the count.
LEMMA DecrementStoreStep ==
  ASSUME NEW u \in Users, ShutdownInv, workerPc[u] = "leaving",
         DecrementStore(u), UNCHANGED loopVars
  PROVE  ShutdownInv'
<1> USE ThreadsAssumption
    DEF ShutdownInv, ControlInv, DecrementStore, ItemMoves, loopVars
<1>1. \A v \in Users \ {u} : itemPc[v] \notin {"increment", "store", "decrement"}
  BY OneChanges
<1>2. ~Counting /\ ~Counting' /\ Subtracted' = Subtracted
  BY <1>1 DEF TypeOK, Counting, Subtracted
<1>3. u \in Items /\ Items' = Items \ {u}
  BY DEF TypeOK, Items
<1>4. Cardinality(Items') = Cardinality(Items) - 1
  BY <1>3, ItemsFinite, FS_RemoveElement
<1>5. Cardinality(Items) \in 1..Cardinality(Users) /\ Cardinality(Users) \in Nat
  BY <1>3, ItemsFinite
<1>6. loaded[u] = count /\ count \in Nat
  BY <1>5 DEF LoadedInv, TypeOK
<1>7. count' = IF 1 >= count THEN 0 ELSE count - 1
  BY <1>6
<1>8. count' \in 0..(Cardinality(Users) + 1)
  BY <1>5, <1>6, <1>7 DEF TypeOK
<1>9. TypeOK'
  BY <1>8 DEF TypeOK
<1>10. LockInv' /\ ItemInv' /\ CloseInv'
  BY DEF TypeOK, LockInv, ItemInv, CloseInv, Owner, Waits
<1>11. LoadedInv' /\ LateInv'
  <2>1. \A w \in Waiters : waitPc[w] # "subtract"
    BY DEF TypeOK, LockInv
  <2> QED BY <1>1, <1>2, <2>1 DEF TypeOK, LoadedInv, LateInv
<1>12. CountExact'
  BY <1>2, <1>4, <1>5, <1>6, <1>7 DEF CountExact
<1>13. WaitCoversItems'
  <2> SUFFICES ASSUME NEW w \in Waiters, waitPc[w] = "done"
               PROVE  Items' = {} /\ asleep = {}
    BY DEF WaitCoversItems
  <2>1. Cardinality(Items) = 1 /\ asleep = {}
    BY <1>3 DEF WaitCoversItems
  <2>2. IsFiniteSet(Items') /\ Cardinality(Items') = 0
    BY <1>3, <1>4, <2>1, ItemsFinite, FS_RemoveElement
  <2> QED BY <2>1, <2>2, FS_EmptySet
<1> QED BY <1>9, <1>10, <1>11, <1>12, <1>13

\* A notification moves whoever sleeps, and no Item.
LEMMA NotifyStep ==
  ASSUME NEW u \in Users, ShutdownInv, workerPc[u] = "leaving",
         Notify(u), UNCHANGED loopVars
  PROVE  ShutdownInv'
<1> USE ThreadsAssumption DEF ShutdownInv, ControlInv, Notify, ItemMoves, loopVars
<1>1. Items' = Items /\ Counting' = Counting
  BY DEF TypeOK, Items, Counting
<1>2. \A w \in Waiters : waitPc'[w] = waitPc[w]
                          \/ (waitPc[w] = "asleep" /\ waitPc'[w] = "wake")
  BY DEF CloseInv
<1>3. Subtracted' = Subtracted
  BY <1>2 DEF Subtracted
<1>4. CountExact' /\ WaitCoversItems'
  BY <1>1, <1>2, <1>3 DEF CountExact, WaitCoversItems
<1>5. TypeOK'
  BY DEF TypeOK
<1>6. LockInv' /\ ItemInv'
  BY <1>2 DEF TypeOK, LockInv, ItemInv, Owner
<1>7. CloseInv'
  BY <1>2 DEF TypeOK, CloseInv, Waits
<1>8. LoadedInv' /\ LateInv'
  BY <1>1, <1>2, <1>3 DEF TypeOK, LoadedInv, LateInv
<1> QED BY <1>4, <1>5, <1>6, <1>7, <1>8

\* So every step of a worker keeps the invariant.
LEMMA WorkerStep ==
  ASSUME NEW u \in Users, ShutdownInv, WorkerNext(u)
  PROVE  ShutdownInv'
<1>1. CASE Releasing(u)
  BY <1>1, DecrementLoadStep, DecrementStoreStep, NotifyStep DEF Releasing
<1>2. CASE Start(u)
  BY <1>2, CheckStep, IncrementLoadStep DEF Start
<1> QED BY <1>1, <1>2, WorkerMoves, StartedStep DEF WorkerNext

-----------------------------------------------------------------------------
\* The steps of the threads that close the executor.

\* close and destruction touch no count.
LEMMA CloseStep ==
  ASSUME ShutdownInv, Close \/ Destroy
  PROVE  ShutdownInv'
<1> USE DEF ShutdownInv, ControlInv, Close, Destroy, counterVars
<1>1. UNCHANGED <<counterVars, mutex, workerPc>>
  OBVIOUS
<1>2. CountExact' /\ WaitCoversItems'
  BY <1>1 DEF CountExact, WaitCoversItems, Items, Subtracted
<1>3. TypeOK'
  BY <1>1 DEF TypeOK
<1>4. LockInv' /\ ItemInv'
  BY <1>1 DEF LockInv, ItemInv, Owner
<1>5. CloseInv' /\ LoadedInv' /\ LateInv'
  BY <1>1 DEF TypeOK, CloseInv, LoadedInv, LateInv, Waits, Items, Subtracted,
              Counting
<1> QED BY <1>2, <1>3, <1>4, <1>5

\* Of the threads that exchange alive_ only the first will wait, and it notes
\* whether an Item is late.
LEMMA ExchangeStep ==
  ASSUME NEW w \in Waiters, ShutdownInv, closed, Exchange(w), UNCHANGED loopVars
  PROVE  ShutdownInv'
<1> USE ThreadsAssumption
    DEF ShutdownInv, ControlInv, Exchange, WaiterMoves, loopVars
<1>1. Items' = Items /\ Counting' = Counting
  BY DEF Items, Counting
<1>2. \A v \in Waiters :
        waitPc'[v] = waitPc[v]
        \/ (waitPc[v] = "idle" /\ waitPc'[v] \in {"lock", "returned"})
  BY DEF TypeOK
<1>3. Subtracted' = Subtracted
  BY <1>2 DEF Subtracted
<1>4. late => late'
  OBVIOUS
<1>5. CountExact' /\ WaitCoversItems'
  BY <1>1, <1>2, <1>3, <1>4 DEF CountExact, WaitCoversItems
<1>6. TypeOK'
  BY DEF TypeOK
<1>7. LockInv' /\ ItemInv'
  BY <1>2 DEF TypeOK, LockInv, ItemInv, Owner
<1>8. CloseInv'
  BY DEF TypeOK, CloseInv, Waits
<1>9. LoadedInv' /\ LateInv'
  BY <1>1, <1>2, <1>3, <1>4 DEF TypeOK, LoadedInv, LateInv
<1> QED BY <1>5, <1>6, <1>7, <1>8, <1>9

\* The waiter takes count_mutex_ and loads the count.
LEMMA WaitLoadStep ==
  ASSUME NEW w \in Waiters, ShutdownInv, WaitLoad(w), UNCHANGED loopVars
  PROVE  ShutdownInv'
<1> USE ThreadsAssumption
    DEF ShutdownInv, ControlInv, WaitLoad, WaiterMoves, Load, loopVars
<1>1. Items' = Items /\ Subtracted' = Subtracted /\ Counting' = Counting
  BY DEF TypeOK, Items, Subtracted, Counting
<1>2. CountExact' /\ WaitCoversItems'
  BY <1>1 DEF TypeOK, CountExact, WaitCoversItems
<1>3. TypeOK'
  BY DEF TypeOK
<1>4. LockInv' /\ ItemInv'
  BY DEF TypeOK, LockInv, ItemInv, Owner
<1>5. LoadedInv' /\ LateInv'
  <2>1. ~Subtracted
    BY DEF Subtracted, CloseInv, Waits
  <2>2. count # 0
    BY <2>1, ItemsFinite DEF CountExact
  <2> QED BY <1>1, <2>2 DEF TypeOK, LoadedInv, LateInv
<1>6. CloseInv'
  BY DEF TypeOK, CloseInv, Waits
<1> QED BY <1>2, <1>3, <1>4, <1>5, <1>6

\* The waiter takes its own one away.  No worker is decrementing, for it would
\* hold count_mutex_.  A late Item may have been counted since the count was
\* loaded, and is lost; or it is still to be counted.
LEMMA WaitStoreStep ==
  ASSUME NEW w \in Waiters, ShutdownInv, WaitStore(w), UNCHANGED loopVars
  PROVE  ShutdownInv'
<1> USE ThreadsAssumption
    DEF ShutdownInv, ControlInv, WaitStore, WaiterMoves, loopVars
<1>1. closed /\ \A v \in Waiters \ {w} : ~Waits(v)
  BY DEF CloseInv, Waits
<1>2. \A u \in Users : itemPc[u] # "decrement"
  BY DEF TypeOK, LockInv
<1>3. Items' = Items /\ Counting' = Counting
  BY DEF Items, Counting
<1>4. ~Subtracted /\ Subtracted'
  BY <1>1 DEF TypeOK, Subtracted, Waits
<1>5. count = Cardinality(Items) + 1 /\ Cardinality(Items) \in 0..Cardinality(Users)
      /\ Cardinality(Users) \in Nat
  BY <1>4, ItemsFinite DEF CountExact
<1>6. \/ count' = count - 1
      \/ late /\ ~Counting /\ count' = count - 2
  BY <1>5 DEF LoadedInv
<1>7. count' \in 0..(Cardinality(Users) + 1)
  <2>1. loaded[w] # 0
    BY DEF LoadedInv
  <2> QED BY <1>5, <2>1 DEF TypeOK
<1>8. TypeOK'
  BY <1>7 DEF TypeOK
<1>9. CountExact'
  BY <1>3, <1>4, <1>5, <1>6 DEF CountExact
<1>10. WaitCoversItems'
  BY <1>1, <1>3 DEF TypeOK, WaitCoversItems, Waits
<1>11. LockInv' /\ ItemInv'
  BY DEF TypeOK, LockInv, ItemInv, Owner
<1>12. CloseInv'
  BY <1>1 DEF TypeOK, CloseInv, Waits
<1>13. LoadedInv'
  <2>1. ASSUME NEW u \in Users, itemPc[u] = "store"
        PROVE  loaded[u] = count' + 1
    <3>1. Counting
      BY <2>1 DEF Counting
    <3> QED BY <1>4, <1>5, <1>6, <2>1, <3>1 DEF LoadedInv
  <2>2. \A v \in Waiters : waitPc'[v] # "subtract"
    BY <1>1 DEF TypeOK, Waits
  <2> QED BY <1>2, <1>4, <2>1, <2>2 DEF LoadedInv
<1>14. LateInv'
  <2>1. \A v \in Waiters : waitPc'[v] # "done"
    BY <1>1 DEF TypeOK, Waits
  <2> QED BY <1>3, <1>5, <1>6, <2>1 DEF LateInv
<1> QED BY <1>8, <1>9, <1>10, <1>11, <1>12, <1>13, <1>14

\* The waiter that finds the count zero finds no Item, or the one that was lost
\* by the count.
LEMMA WaitReturnStep ==
  ASSUME NEW w \in Waiters, ShutdownInv, WaitReturn(w), UNCHANGED loopVars
  PROVE  ShutdownInv'
<1> USE ThreadsAssumption
    DEF ShutdownInv, ControlInv, WaitReturn, WaiterMoves, loopVars
<1>1. \A v \in Waiters \ {w} : ~Waits(v)
  BY DEF CloseInv, Waits
<1>2. Items' = Items /\ Counting' = Counting
  BY DEF Items, Counting
<1>3. Subtracted /\ Subtracted'
  BY DEF TypeOK, Subtracted
<1>4. CountExact'
  BY <1>2, <1>3 DEF CountExact
<1>5. Items = {} \/ (late /\ Cardinality(Items) = 1)
  BY <1>3, ItemsFinite DEF CountExact
<1>6. asleep = {}
  BY <1>1 DEF CloseInv, Waits
<1>7. WaitCoversItems'
  BY <1>2, <1>5, <1>6 DEF WaitCoversItems
<1>8. TypeOK'
  BY DEF TypeOK
<1>9. LockInv' /\ ItemInv'
  BY DEF TypeOK, LockInv, ItemInv, Owner
<1>10. CloseInv'
  BY DEF TypeOK, CloseInv, Waits
<1>11. LoadedInv'
  BY <1>2, <1>3 DEF TypeOK, LoadedInv
<1>12. LateInv'
  <2>1. Counting => Items = {}
    BY <1>3, ItemsFinite DEF LateInv
  <2> QED BY <1>2, <1>3, <2>1 DEF LateInv
<1> QED BY <1>4, <1>7, <1>8, <1>9, <1>10, <1>11, <1>12

\* Falling asleep, waking up and looking again change no count.
LEMMA WaitSleepStep ==
  ASSUME NEW w \in Waiters, ShutdownInv,
         WaitSleep(w) \/ WaitSpurious(w) \/ WaitRetest(w), UNCHANGED loopVars
  PROVE  ShutdownInv'
<1> USE ThreadsAssumption DEF ShutdownInv, ControlInv, loopVars
<1>1. /\ UNCHANGED <<alive, count, loaded, itemPc, aborted, late>>
      /\ waitPc' \in [Waiters -> {"idle", "lock", "subtract", "test", "asleep",
                                   "wake", "done", "returned"}]
      /\ waitPc[w] \in {"test", "asleep", "wake"}
      /\ waitPc'[w] \in {"test", "asleep", "wake"}
      /\ \A v \in Waiters \ {w} : waitPc'[v] = waitPc[v]
      /\ asleep' = {v \in Waiters : waitPc'[v] = "asleep"}
  BY DEF TypeOK, CloseInv, WaiterMoves, WaitSleep, WaitSpurious, WaitRetest
<1>2. Items' = Items /\ Counting' = Counting /\ Subtracted' = Subtracted
  BY <1>1 DEF Items, Counting, Subtracted
<1>3. CountExact'
  BY <1>1, <1>2 DEF CountExact
<1>4. WaitCoversItems'
  <2>1. \A v \in Waiters : waitPc'[v] # "done"
    BY <1>1 DEF CloseInv, Waits
  <2> QED BY <2>1 DEF WaitCoversItems
<1>5. countMutex' \in Users \cup Waiters \cup {NoOne}
  BY DEF TypeOK, WaiterMoves, WaitSleep, WaitSpurious, WaitRetest
<1>6. TypeOK'
  BY <1>1, <1>5 DEF TypeOK
<1>7. LockInv'
  BY <1>1 DEF TypeOK, LockInv, Owner, WaiterMoves, WaitSleep, WaitSpurious,
              WaitRetest
<1>8. ItemInv' /\ LoadedInv' /\ LateInv'
  BY <1>1, <1>2 DEF ItemInv, LoadedInv, LateInv, CloseInv, Waits
<1>9. CloseInv'
  BY <1>1 DEF CloseInv, Waits
<1> QED BY <1>3, <1>4, <1>6, <1>7, <1>8, <1>9

-----------------------------------------------------------------------------
\* The theorems.

\* The invariant holds in every reachable state.
THEOREM Invariance == Spec => []ShutdownInv
<1>1. ShutdownInv /\ [Next]_vars => ShutdownInv'
  <2> SUFFICES ASSUME ShutdownInv, [Next]_vars PROVE ShutdownInv'
    OBVIOUS
  <2>1. CASE UNCHANGED vars
    BY <2>1 DEF vars, counterVars, loopVars, ShutdownInv, ControlInv, TypeOK,
                LockInv, ItemInv, CloseInv, LoadedInv, LateInv, CountExact,
                WaitCoversItems, Items, Owner, Waits, Subtracted, Counting
  <2>2. ASSUME NEW w \in Waiters, WaitAndDisable(w)
        PROVE  ShutdownInv'
    BY <2>2, ExchangeStep, WaitLoadStep, WaitStoreStep, WaitReturnStep,
       WaitSleepStep DEF WaitAndDisable, WaiterStep
  <2> QED BY <2>1, <2>2, WorkerStep, CloseStep DEF Next
<1> QED BY InitInv, <1>1, PTL DEF Spec

\* Every variable keeps its type; the count never drops below zero, nor exceeds
\* the number of workers and the waiter.
THEOREM TypeCorrect == Spec => []TypeOK
<1>1. ShutdownInv => TypeOK
  BY DEF ShutdownInv, ControlInv
<1> QED BY Invariance, <1>1, PTL

\* No change of the count is lost until the waiter subtracts, and none but that
\* of a late Item or of the waiter then.
THEOREM CountTrusted == Spec => []CountExact
<1>1. ShutdownInv => CountExact
  BY DEF ShutdownInv
<1> QED BY Invariance, <1>1, PTL

\* The thread that waits returns when the last Item was released, or leaves one
\* Item behind because one was late.
THEOREM WaitingCovers == Spec => []WaitCoversItems
<1>1. ShutdownInv => WaitCoversItems
  BY DEF ShutdownInv
<1> QED BY Invariance, <1>1, PTL

\* A step of a worker leaves a waiter that waits in vain: what is counted is given
\* back with the count, and no Item is added to a disabled counter.
LEMMA VainWorkerStep ==
  ASSUME ShutdownInv, NEW w \in Waiters, WaitsInVain(w),
         NEW u \in Users, WorkerNext(u)
  PROVE  WaitsInVain(w)'
<1> USE DEF ShutdownInv, ControlInv
<1>1. Subtracted /\ ~alive /\ ~Counting
  BY ItemsFinite DEF CloseInv, LateInv, WaitsInVain, Subtracted, TypeOK
<1>2. itemPc[u] \notin {"increment", "store"}
  BY <1>1 DEF Counting
<1>3. CASE Call(u) \/ Lock(u) \/ Yield(u) \/ Resume(u) \/ Leave(u) \/ Unlock(u)
  BY <1>3 DEF Call, Lock, Yield, Resume, Leave, Unlock, counterVars,
              WaitsInVain, Items
<1>4. CASE Start(u) \/ Started(u)
  BY <1>1, <1>2, <1>4 DEF Start, Started, CheckAlive, IncrementLoad,
     IncrementStore, ItemMoves, WaitsInVain, Items
<1>5. CASE Releasing(u)
  <2>1. CASE DecrementLoad(u)
    <3>1. Items' = Items
      BY <2>1 DEF TypeOK, DecrementLoad, ItemMoves, Items
    <3> QED BY <2>1, <3>1 DEF DecrementLoad, WaitsInVain
  <2>2. CASE DecrementStore(u)
    <3>1. u \in Items /\ Items' = Items \ {u}
      BY <2>2 DEF TypeOK, DecrementStore, ItemMoves, Items
    <3>2. /\ Cardinality(Items') = Cardinality(Items) - 1
          /\ Cardinality(Items) \in Nat \ {0}
      <4>1. Cardinality(Items') = Cardinality(Items) - 1
        BY <3>1, ItemsFinite, FS_RemoveElement
      <4>2. Cardinality(Items) \in Nat \ {0}
        BY <3>1, ItemsFinite
      <4> QED BY <4>1, <4>2
    <3>3. count = Cardinality(Items) + 1
      BY <1>1, <3>2 DEF CountExact, WaitsInVain, TypeOK
    <3>4. count' = count - 1
      BY <2>2, <3>2, <3>3 DEF DecrementStore, ItemMoves, LoadedInv
    <3> QED BY <2>2, <3>2, <3>3, <3>4 DEF DecrementStore, WaitsInVain
  <2>3. CASE Notify(u)
    <3>1. Items' = Items
      BY <2>3 DEF TypeOK, Notify, ItemMoves, Items
    <3> QED BY <2>3, <3>1 DEF Notify, WaitsInVain
  <2> QED BY <1>5, <2>1, <2>2, <2>3 DEF Releasing
<1> QED BY <1>3, <1>4, <1>5 DEF WorkerNext

\* And so does a step of any thread that closes the executor: the one that waits
\* never finds a zero.
LEMMA VainWaiterStep ==
  ASSUME ShutdownInv, NEW w \in Waiters, WaitsInVain(w),
         NEW v \in Waiters, WaitAndDisable(v)
  PROVE  WaitsInVain(w)'
<1> USE DEF ShutdownInv, ControlInv, WaiterMoves
<1>1. count # 0
  BY ItemsFinite DEF WaitsInVain
<1>2. Waits(v) => v = w
  BY DEF CloseInv, WaitsInVain, Waits
<1>3. waitPc'[w] \in {"test", "asleep", "wake"} /\ UNCHANGED <<count, itemPc>>
  <2>1. CASE Exchange(v)
    BY <2>1 DEF TypeOK, Exchange, WaitsInVain
  <2>2. CASE WaiterStep(v)
    BY <1>1, <1>2, <2>2 DEF TypeOK, WaiterStep, WaitLoad, WaitStore, WaitSleep,
       WaitReturn, WaitSpurious, WaitRetest, WaitsInVain, Waits
  <2> QED BY <2>1, <2>2 DEF WaitAndDisable
<1> QED BY <1>3 DEF WaitsInVain, Items

\* Only a late Item can make the waiter's subtraction be lost, and a waiter whose
\* subtraction was lost waits for good, whatever the others do.
THEOREM LostForGood ==
  Spec => [][\A w \in Waiters : WaitsInVain(w) => late /\ WaitsInVain(w)']_vars
<1>1. ShutdownInv /\ [Next]_vars =>
        [\A w \in Waiters : WaitsInVain(w) => late /\ WaitsInVain(w)']_vars
  <2> SUFFICES ASSUME ShutdownInv, Next, NEW w \in Waiters, WaitsInVain(w)
               PROVE  late /\ WaitsInVain(w)'
    OBVIOUS
  <2>1. late
    BY ItemsFinite DEF ShutdownInv, ControlInv, TypeOK, CountExact, WaitsInVain,
                       Subtracted
  <2>2. CASE Close \/ Destroy
    BY <2>1, <2>2 DEF Close, Destroy, counterVars, WaitsInVain, Items
  <2> QED BY <2>1, <2>2, VainWorkerStep, VainWaiterStep DEF Next
<1> QED BY Invariance, <1>1, PTL DEF Spec
=============================================================================
