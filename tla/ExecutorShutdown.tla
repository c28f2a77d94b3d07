-------------------------- MODULE ExecutorShutdown --------------------------
(***************************************************************************)
(* How an executor (core/executor.cpp) is closed and destroyed while       *)
(* threads enter, run and leave its task loops: closed_, tasks_mutex_ and  *)
(* the BlockingCounter num_threads_.  A worker owns an Item of the counter *)
(* while it is in a loop; the Item is declared after the lock, so that it  *)
(* is constructed and released with tasks_mutex_ held.  What the workers   *)
(* do in the loop is left to the module Executor: here a worker gives the  *)
(* lock up now and then, to run a closure or to poll.                      *)
(***************************************************************************)
EXTENDS BlockingCounter

VARIABLES mutex,     \* tasks_mutex_
          closed,    \* closed_
          workerPc,  \* where each worker (a user of the counter) is
          destroyed  \* whether the members of the executor are gone

loopVars == <<mutex, closed, workerPc, destroyed>>
vars == <<counterVars, loopVars>>

Init == /\ InitCounter
        /\ mutex = NoOne
        /\ closed = FALSE
        /\ workerPc = [u \in Users |-> "out"]
        /\ destroyed = FALSE

Goes(u, from, to) == /\ ~aborted
                     /\ workerPc[u] = from
                     /\ workerPc' = [workerPc EXCEPT ![u] = to]

-----------------------------------------------------------------------------
\* A worker.

\* closed_ is read before the lock is taken.
Call(u) == /\ Goes(u, "out", "entering")
           /\ ~closed
           /\ UNCHANGED <<counterVars, mutex, closed, destroyed>>

Lock(u) == /\ Goes(u, "entering", "starting")
           /\ mutex = NoOne
           /\ mutex' = u
           /\ UNCHANGED <<counterVars, closed, destroyed>>

\* The Item is constructed under tasks_mutex_.
Start(u) == /\ workerPc[u] = "starting"
            /\ CheckAlive(u) \/ IncrementLoad(u)
            /\ UNCHANGED loopVars

Started(u) == /\ Goes(u, "starting", "loop")
              /\ IncrementStore(u)
              /\ UNCHANGED <<mutex, closed, destroyed>>

\* Run a closure or poll, without the lock.
Yield(u) == /\ Goes(u, "loop", "away")
            /\ mutex' = NoOne
            /\ UNCHANGED <<counterVars, closed, destroyed>>

\* There is another task, or the executor is open.
Resume(u) == /\ Goes(u, "away", "loop")
             /\ mutex = NoOne
             /\ mutex' = u
             /\ UNCHANGED <<counterVars, closed, destroyed>>

\* The queues were empty and the executor is closed: return.
Leave(u) == /\ Goes(u, "away", "leaving")
            /\ mutex = NoOne
            /\ closed
            /\ mutex' = u
            /\ UNCHANGED <<counterVars, closed, destroyed>>

\* The Item is released under tasks_mutex_.
Releasing(u) == /\ workerPc[u] = "leaving"
                /\ DecrementLoad(u) \/ DecrementStore(u) \/ Notify(u)
                /\ UNCHANGED loopVars

Unlock(u) == /\ Goes(u, "leaving", "out")
             /\ itemPc[u] = "none"
             /\ mutex' = NoOne
             /\ UNCHANGED <<counterVars, closed, destroyed>>

-----------------------------------------------------------------------------
\* A thread that calls close_and_wait, and destroys the executor.

\* close does not wait for the workers that are past their look at closed_.
Close == /\ ~aborted
         /\ mutex = NoOne
         /\ closed' = TRUE
         /\ UNCHANGED <<counterVars, mutex, workerPc, destroyed>>

WaitAndDisable(w) == /\ closed
                     /\ Exchange(w) \/ WaiterStep(w)
                     /\ UNCHANGED loopVars

Destroy == /\ \A w \in Waiters : waitPc[w] \in {"done", "returned"}
           /\ ~aborted /\ ~destroyed
           /\ destroyed' = TRUE
           /\ UNCHANGED <<counterVars, mutex, closed, workerPc>>

WorkerNext(u) == \/ Call(u) \/ Lock(u) \/ Start(u) \/ Started(u)
                 \/ Yield(u) \/ Resume(u) \/ Leave(u) \/ Releasing(u)
                 \/ Unlock(u)

Next == \/ \E u \in Users : WorkerNext(u)
        \/ Close
        \/ \E w \in Waiters : WaitAndDisable(w)
        \/ Destroy

Spec == Init /\ [][Next]_vars

\* Threads inside a call go on, tasks_mutex_ and count_mutex_ starve nobody
\* for ever, and the work of a closed executor comes to an end.
Fairness == /\ \A u \in Users :
                 /\ WF_vars(Start(u) \/ Started(u) \/ Yield(u) \/ Unlock(u))
                 /\ SF_vars(Lock(u) \/ Leave(u) \/ Releasing(u))
            /\ \A w \in Waiters :
                 SF_vars(/\ closed
                         /\ \/ WaitLoad(w) \/ WaitStore(w) \/ WaitSleep(w)
                            \/ WaitReturn(w) \/ WaitRetest(w)
                         /\ UNCHANGED loopVars)

FairSpec == Spec /\ Fairness

-----------------------------------------------------------------------------
\* Properties.

TypeOK == /\ alive \in BOOLEAN /\ closed \in BOOLEAN /\ destroyed \in BOOLEAN
          /\ aborted \in BOOLEAN /\ late \in BOOLEAN
          /\ count \in 0..(Cardinality(Users) + 1)
          /\ mutex \in Users \cup {NoOne}
          /\ countMutex \in Users \cup Waiters \cup {NoOne}
          /\ asleep \subseteq Waiters
          /\ loaded \in [Users \cup Waiters -> 0..(Cardinality(Users) + 1)]
          /\ itemPc \in [Users -> {"none", "increment", "store", "held",
                                   "decrement", "notify"}]
          /\ waitPc \in [Waiters -> {"idle", "lock", "subtract", "test",
                                     "asleep", "wake", "done", "returned"}]
          /\ workerPc \in [Users -> {"out", "entering", "starting", "loop",
                                     "away", "leaving"}]

Items == {u \in Users : itemPc[u] \in {"held", "decrement"}}

Subtracted == \E w \in Waiters : waitPc[w] \in {"test", "asleep", "wake", "done"}

\* increment takes no lock of the counter.  Workers lose no change of each
\* other's, for they hold tasks_mutex_: the count is the number of Items and one
\* until the waiter has taken its own away.  It stays exact from then on unless
\* an Item was late, and is never wrong by more than that Item.
CountExact ==
  LET items == Cardinality(Items)
  IN IF Subtracted
       THEN /\ late \/ count = items
            /\ count \in (items - 1)..(items + 1)
       ELSE count = items + 1

\* The wait_and_disable that waits returns only when every Item was released,
\* or, if one was late, when a single one is left; nobody sleeps on a condition
\* variable that is destroyed.
WaitCoversItems == \A w \in Waiters : waitPc[w] = "done" =>
                     /\ Items = {} \/ (late /\ Cardinality(Items) = 1)
                     /\ asleep = {}

\* The waiter's subtraction was overwritten by a late increment: the count will
\* never be zero.
WaitsInVain(w) == /\ waitPc[w] \in {"test", "asleep", "wake"}
                  /\ count > Cardinality(Items)

\* close_and_wait returns once the tasks have come to an end, unless the process
\* is ended by a CHECK or the waiter's subtraction was lost.
CloseReturns ==
  \A w \in Waiters :
    (waitPc[w] = "lock") ~> (waitPc[w] = "done" \/ aborted \/ WaitsInVain(w))

\* blocking_counter.hpp:20: CHECK(counter_->alive_) holds for every worker.
CheckHolds == ~aborted

\* executor.hpp:149: the counter is the "number of threads which are inside a
\* task loop currently"; once it is waited down to zero nobody is inside, not
\* even where no Item was late.
ZeroMeansNoneInside ==
  destroyed /\ ~late =>
    \A u \in Users : workerPc[u] \notin {"loop", "away", "leaving"}
=============================================================================
