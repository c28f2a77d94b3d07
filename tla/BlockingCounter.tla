--------------------------- MODULE BlockingCounter ---------------------------
(***************************************************************************)
(* core/blocking_counter.hpp: a count of Items that a thread can wait on   *)
(* until it is zero.  The count starts at one, for the waiter, which takes *)
(* its one away before it waits.                                           *)
(*                                                                         *)
(* count_ is a plain integer.  decrement and wait_and_disable change it    *)
(* under count_mutex_, increment changes it without: each change is a load *)
(* and a store here, so that an unsynchronised change can be lost.  Taking *)
(* count_mutex_ is one step with the load that follows, and releasing it   *)
(* one step with the access before.                                        *)
(*                                                                         *)
(* The module has the steps of the counter; its users compose them.        *)
(***************************************************************************)
EXTENDS Integers, FiniteSets

CONSTANTS Users,    \* the threads that construct and release an Item
          Waiters,  \* the threads that call wait_and_disable
          NoOne     \* the value of a mutex nobody holds

ASSUME ThreadsAssumption == /\ Users \cap Waiters = {}
                            /\ NoOne \notin Users \cup Waiters
                            /\ IsFiniteSet(Users)

VARIABLES alive,       \* alive_
          count,       \* count_
          countMutex,  \* count_mutex_
          asleep,      \* the waiters blocked on zero_count_
          loaded,      \* the value of count_ each thread has loaded
          itemPc,      \* where each user is in the life of its Item
          waitPc,      \* where each waiter is in wait_and_disable
          aborted,     \* whether CHECK(alive_) has failed, which ends the process
          late         \* history: whether an Item had passed its CHECK and was
                       \* not counted yet when alive_ was cleared

counterVars == <<alive, count, countMutex, asleep, loaded, itemPc, waitPc,
                 aborted, late>>

InitCounter == /\ alive = TRUE
               /\ count = 1
               /\ countMutex = NoOne
               /\ asleep = {}
               /\ loaded = [t \in Users \cup Waiters |-> 0]
               /\ itemPc = [u \in Users |-> "none"]
               /\ waitPc = [w \in Waiters |-> "idle"]
               /\ aborted = FALSE
               /\ late = FALSE

\* Nobody moves after a CHECK has failed.
ItemMoves(u, from, to) == /\ ~aborted
                          /\ itemPc[u] = from
                          /\ itemPc' = [itemPc EXCEPT ![u] = to]

WaiterMoves(w, from, to) == /\ ~aborted
                            /\ waitPc[w] = from
                            /\ waitPc' = [waitPc EXCEPT ![w] = to]

Load(t) == loaded' = [loaded EXCEPT ![t] = count]

-----------------------------------------------------------------------------
\* Item::Item and increment.

CheckAlive(u) == /\ IF alive
                      THEN ItemMoves(u, "none", "increment") /\ UNCHANGED aborted
                      ELSE /\ itemPc[u] = "none"
                           /\ aborted' = TRUE
                           /\ UNCHANGED itemPc
                 /\ UNCHANGED <<alive, count, countMutex, asleep, loaded,
                                waitPc, late>>

\* An Item that is between its CHECK and the store of its increment.
Counting == \E u \in Users : itemPc[u] \in {"increment", "store"}

IncrementLoad(u) == /\ ItemMoves(u, "increment", "store")
                    /\ Load(u)
                    /\ UNCHANGED <<alive, count, countMutex, asleep, waitPc,
                                   aborted, late>>

IncrementStore(u) == /\ ItemMoves(u, "store", "held")
                     /\ count' = loaded[u] + 1
                     /\ UNCHANGED <<alive, countMutex, asleep, loaded, waitPc,
                                    aborted, late>>

-----------------------------------------------------------------------------
\* Item::~Item, release and decrement.

DecrementLoad(u) == /\ ItemMoves(u, "held", "decrement")
                    /\ countMutex = NoOne
                    /\ countMutex' = u
                    /\ Load(u)
                    /\ UNCHANGED <<alive, count, asleep, waitPc, aborted, late>>

\* Mutant: the thread that brings the count to zero does not notify.
DecrementStore_Silent(u) ==
  /\ ItemMoves(u, "decrement", "none")
  /\ count' = IF 1 >= loaded[u] THEN 0 ELSE loaded[u] - 1
  /\ countMutex' = NoOne
  /\ UNCHANGED <<alive, asleep, loaded, waitPc, aborted, late>>

\* Mutant: the last but one Item empties the count.
DecrementStore_TooLow(u) ==
  /\ itemPc' = [itemPc EXCEPT ![u] = IF 2 >= loaded[u] THEN "notify" ELSE "none"]
  /\ itemPc[u] = "decrement"
  /\ count' = IF 2 >= loaded[u] THEN 0 ELSE loaded[u] - 1
  /\ countMutex' = NoOne
  /\ UNCHANGED <<alive, asleep, loaded, waitPc, aborted, late>>

DecrementStore(u) ==
  /\ ItemMoves(u, "decrement", IF 1 >= loaded[u] THEN "notify" ELSE "none")
  /\ count' = IF 1 >= loaded[u] THEN 0 ELSE loaded[u] - 1
  /\ countMutex' = NoOne
  /\ UNCHANGED <<alive, asleep, loaded, waitPc, aborted, late>>

\* notify_all, after count_mutex_ was released.
Notify(u) == /\ ItemMoves(u, "notify", "none")
             /\ waitPc' = [w \in Waiters |->
                             IF w \in asleep THEN "wake" ELSE waitPc[w]]
             /\ asleep' = {}
             /\ UNCHANGED <<alive, count, countMutex, loaded, aborted, late>>

-----------------------------------------------------------------------------
\* wait_and_disable.

\* Only the first caller waits, the later ones return at once.
Exchange(w) == /\ WaiterMoves(w, "idle", IF alive THEN "lock" ELSE "returned")
               /\ alive' = FALSE
               /\ late' = (late \/ (alive /\ Counting))
               /\ UNCHANGED <<count, countMutex, asleep, loaded, itemPc,
                              aborted>>

WaitLoad(w) == /\ WaiterMoves(w, "lock", "subtract")
               /\ countMutex = NoOne
               /\ countMutex' = w
               /\ Load(w)
               /\ UNCHANGED <<alive, count, asleep, itemPc, aborted, late>>

WaitStore(w) == /\ WaiterMoves(w, "subtract", "test")
                /\ count' = loaded[w] - 1
                /\ UNCHANGED <<alive, countMutex, asleep, loaded, itemPc,
                               aborted, late>>

\* zero_count_.wait releases count_mutex_ and falls asleep in one step.
WaitSleep(w) == /\ WaiterMoves(w, "test", "asleep")
                /\ count > 0
                /\ countMutex' = NoOne
                /\ asleep' = asleep \cup {w}
                /\ UNCHANGED <<alive, count, loaded, itemPc, aborted, late>>

WaitReturn(w) == /\ WaiterMoves(w, "test", "done")
                 /\ count = 0
                 /\ countMutex' = NoOne
                 /\ UNCHANGED <<alive, count, asleep, loaded, itemPc, aborted,
                                late>>

\* A condition variable may wake a waiter without a notification.
WaitSpurious(w) == /\ WaiterMoves(w, "asleep", "wake")
                   /\ asleep' = asleep \ {w}
                   /\ UNCHANGED <<alive, count, countMutex, loaded, itemPc,
                                  aborted, late>>

\* Mutant: an awakened waiter does not look at the count again.
WaitRetest_Trusting(w) == /\ WaiterMoves(w, "wake", "done")
                          /\ countMutex = NoOne
                          /\ UNCHANGED <<alive, count, countMutex, asleep,
                                         loaded, itemPc, aborted, late>>

\* Mutant: an awakened waiter starts over and takes its one away again.
WaitRetest_StartsOver(w) == /\ WaiterMoves(w, "wake", "lock")
                            /\ UNCHANGED <<alive, count, countMutex, asleep,
                                           loaded, itemPc, aborted, late>>

WaitRetest(w) == /\ WaiterMoves(w, "wake", "test")
                 /\ countMutex = NoOne
                 /\ countMutex' = w
                 /\ UNCHANGED <<alive, count, asleep, loaded, itemPc, aborted,
                                late>>

WaiterStep(w) == \/ WaitLoad(w) \/ WaitStore(w) \/ WaitSleep(w)
                 \/ WaitReturn(w) \/ WaitSpurious(w) \/ WaitRetest(w)
=============================================================================
