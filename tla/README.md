# Verification of sparks

sparks is a small C++ engine core: a task executor with dependencies, with the
counter and the id containers it stands on (`core/`), and the work stealing
scheduler meant to replace it, with its lock-free parts (`proto/`). This
directory holds TLA+ modules translated from that code, TLC configurations that
check them on small instances, and TLAPS proofs.

## Inventory

| Component | State | Operations | Called by | What must be right |
|---|---|---|---|---|
| Work stealing queue, `proto/work_stealing_queue.hpp` | `head_`, `tail_`, `elements_`, `foreign_sync_` | `unique_push`, `unique_pull` by the owner, `shared_pull` by thieves | each scheduler node owns one, all nodes steal | an element goes to one caller; the owner never writes what a thief reads; a refusal has a reason; the owner's calls return |
| Unique pulse, `proto/unique_pulse.*`, repeated in `scheduler.hpp` | `pulse_`, `asleep_`, mutex, condition | `pulse`, `wait` | a node waits, any node pulses | no wakeup lost; one return per pulse; `CHECK(!asleep_)` |
| Scheduler, `proto/scheduler.hpp`, with `sandbox.cpp` as its user | per node: queue, pulse, `stop_flag_`, `available_`, `steal_from_`, `steal_id`, `num_empty_runs` | `run`, `new_task`, `execute`, `node_loop`, `stop_scheduler` | the closures call back into the node | every task runs once; a sleeper can be woken; a stop reaches all; `run` returns with nothing left |
| Id vector, `proto/id_vector.hpp` | `free_head_`, one id word per slot, the elements | `emplace`, `erase`, `move_from`, `is_valid_id`, `unsafe_clear` | any thread; the scheduler keeps its tasks there | a slot has one owner; an id is valid from its emplace to its erase; erase is idempotent; clearing destroys exactly the elements there are |
| Executor, `core/executor.*` | `tasks_`, `dependents_`, a list per affinity and a global one, stamps, `closed_` | `add_task`, the two worker loops, `close` | application threads, and closures | tasks run once, after what they wait for; counts agree with lists; affinity; workers leave after `close` |
| Blocking counter, `core/blocking_counter.hpp` | `alive_`, `count_`, `count_mutex_`, `zero_count_` | `Item`, `wait_and_disable` | the executor counts its workers | no change of the count is lost; waiting covers every Item; it ends (all three fail where a worker enters during the close, see the end) |
| Stable id vector, `core/stable_id_vector*.hpp` | entries, `first_free_`, `last_free_`, `size_` | `reserve`, `emplace`, `erase`, `is_valid_id` | the executor, under its lock | no entry leaks; old ids stay invalid |
| Signal, `proto/signal.hpp` | flag, waiters, mutex, condition | `trigger`, `wait`, `reset` | nobody | a trigger is seen by every waiter (it is not: see the end) |
| Dense id vector, `core/id_vector*.hpp` | `outer_to_index_`, `index_to_outer_`, `elements_`, `first_free_`, `last_free_` | `reserve_ids`, `emplace`, `insert`, `erase`, lookups both ways | nobody | ids follow their elements when these move; old ids stay invalid; the same ids as the stable vector |
| Array delegate, `proto/arraydelegate.hpp` | a buffer and a pointer | construct, move, call | the executor and the scheduler store closures in it | object lifetime |
| Application and window, `core/application.*`, `core/window.*` | SDL handles | open, poll, close | `main` | input and output only |
| `proto/scheduler.cpp` | – | – | – | an older text of the scheduler that no header declares; it does not compile |

How they interact: `Executor` keeps its tasks in stable id vectors, guards
everything but `closed_` with `tasks_mutex_`, and counts the threads inside a
loop with a blocking counter, on which `close_and_wait` and the destructor
wait. `Scheduler` keeps tasks in one id vector; each node pushes and pulls at
one end of its queue, steals at the other end of another's, and sleeps on its
pulse, which other nodes give it when they delegate or stop.

The hard behaviour is all in interleavings: the race for the last element of a
queue, free lists changed under a thread (ABA), the sleep of a node against
the three separate accesses of a wakeup, the executor's lock released while a
closure runs, its last worker leaving against its destruction. Nothing is
persisted and no message can be lost. `PROJECT.json` lists each hazard at its line.

## Modules

| Module | Models | Notes |
|---|---|---|
| `Deque` | what a work stealing queue promises | abstract specification |
| `WorkStealingQueue` | the queue, access by access | implements `Deque` (`ImplementsDeque`) |
| `WorkStealingQueueProofs` | theorems about it | |
| `WakeEvent` | what a pulse promises | abstract specification |
| `UniquePulse` | `pulse` and `wait` | implements `WakeEvent` (`ImplementsEvent`) |
| `UniquePulseProofs` | theorems about it | |
| `Scheduler`, `MCScheduler` | nodes, queues, delegation, sleep and stop | uses queues at the grain of `Deque`, pulses at the grain of `WakeEvent` |
| `SchedulerProofs` | theorems about it | |
| `IdStore` | what an id container promises | abstract specification |
| `IdWords` | tags, indices and links of core's id words | constants and operators shared by the next two |
| `IdVector`, `MCIdVector` | the lock-free id vector, access by access | implements `IdStore` |
| `IdVectorProofs` | theorems about it | |
| `StableIdVector` | the executor's id vector | implements `IdStore` |
| `StableIdVectorProofs` | theorems about it | |
| `DenseIdVector` | the vector that keeps its elements together | |
| `CoreIdVectors` | the two under the same calls | EXTENDS the stable one, compares what callers of both see |
| `CoreIdVectorsProofs` | theorems about it | |
| `Executor`, `MCExecutor` | tasks, lists, worker loops, close | task ids are fresh; `StableIdVector` says why they may be |
| `ExecutorProofs` | theorems about it | |
| `BlockingCounter` | the steps of the counter | composed by the next |
| `ExecutorShutdown` | close, wait and destroy against the workers | EXTENDS `BlockingCounter` |
| `ExecutorShutdownProofs` | theorems about it | |

Each action carries the name of the code it stands for; `PROJECT.json` `map`
gives the lines. The definitions named `Action_Something` are wrong variants of
an action: they belong to no specification and each breaks the property it is
listed with, which shows that the property depends on that piece of code.

### WorkStealingQueue

All accesses to `head_` and `tail_` are sequentially consistent, so memory order
is program order. One step is one access another thread can tell apart.
`PushCheck`, `PushWrite`, `PushPublish` are `unique_push`; `PullCheck` to
`PullLockedGiveUp` are `unique_pull`; `SharedAnnounce` to `SharedUndo` are
`shared_pull`. The slots are plain memory: writing and reading one are steps of
their own, and `NoSlotRace` says the two never meet. A shared_pull that does not
get the timed lock, and refusals, change nothing and are stuttering steps.
Elements are numbered by their push.

The refinement mapping counts an element as in the queue until its fate is
decided: `First` takes an announced `head_` back, `End` a decremented `tail_`.

### Scheduler

The queue of a node is a sequence with at most one announced thief, who hides one
element from the owner and may give up although an element was pushed meanwhile:
exactly what `WorkStealingQueue` shows and `Deque` hides. `size()` is signed here; negative
means the huge number that the code computes and takes for "more than one".
Every access to `available_`, `steal_from_` and `stop_flag_` is a step. The
nesting of tasks (a full queue makes `new_task` run another task inside) is
the variable `stack`. What the tasks do is the constant `Spawns`, a tree; the
last leaf stops the scheduler, as `sandbox.cpp` does. Ids and the room in the
id vector are left out.

### Executor

`Pop` takes the front task and erases it from `tasks_` before it runs; `running`
holds what `run_task` holds on its stack. `SignalOne` is one turn of the loop of
`signal_dependents`. `AddCheck` and `AddLocked` are the two halves of
`add_task`, for `closed_` is read before the lock is taken; a closure may
call it too. A task with an empty closure is run without releasing the lock.
The intrusive lists are sequences. History variables record what each task was
declared with, what it was linked to, how often it ran.

### ExecutorShutdown

`count_` is plain memory, changed by `increment` without a lock and by `decrement`
and `wait_and_disable` under `count_mutex_`: each change is a load and a store.
Workers change it with `tasks_mutex_` held, and so lose nothing to each other. The
waiter holds `count_mutex_` only, and `close` does not wait for workers that are
past their look at `closed_`. What such a worker meets depends on when it looks at
`alive_`. After `wait_and_disable` has cleared it, the CHECK fails and the process
ends (`aborted`; nobody moves after that). Before, it passes, and if its increment
is not stored by the time `alive_` is cleared, it races the waiter: the Item is
*late*. The history variable `late` records just that. The properties say what
holds without it and what is left with it:

* `CountExact`: until the waiter subtracts, the count is the Items and one; from
  then on it is the Items, or, if one was late, off by one at most.
* `WaitCoversItems`: the waiter returns when there is no Item, or, if one was late,
  with one left.
* `CloseReturns`: `close_and_wait` returns unless a CHECK ends the process or the count is
  above the Items while the waiter waits (`WaitsInVain`), which only a late Item brings
  about and nothing ends (`LostForGood`, proved).

There is at most one late Item: `tasks_mutex_` lets one worker at a time be between
its CHECK and its increment. What a thread does to a destroyed executor is
undefined; the model shows that it is inside one, and goes on as if the memory were
still there.

### IdVector, StableIdVector and DenseIdVector

`IdVector` is one step per access to `free_head_` or to an id word. Weak
compare and exchange may fail without a reason (`AcquireRetry`,
`ReleaseRetry`). Any thread may erase any id ever returned, also twice at once.
`Clear` is `unsafe_clear`, which the code allows only while no other call runs; it
destroys an element wherever `is_acquired` says there is one, which is right
because of the last part of `SlotsPartitioned`. The history starts anew there:
what an id from before a clear is good for is not asked.

Core's vectors are sequential; their callers erase only valid ids, as the code's
`DCHECK`s demand. Ids are made and taken back in the same way in both, from a free
list inside the id words, whose end is moved with `&=` (`Linked`, bit by bit).
`CoreIdVectors` makes both take the same calls and shows that they return the same
ids and hold the same ids for valid (`SameIds`), so that one may be put in the
place of the other, although `is_valid_id` of the dense vector compares tags
only and its words hold places where those of the stable vector hold indices.
When the dense vector erases its last element it reads `index_to_outer_` one past
the new end; the model lets it find the value just popped, as any build without
checked iterators does, and the word it then writes is freed in the next
statement. The class of the stable vector is declared nowhere in the
repository (the header declares `BasicSharedIdVector`), so its members are those
the functions use.

## Runs

| Run | Instance | Distinct states | Shows |
|---|---|---|---|
| `wsq` | owner, 2 thieves, 4 slots, 6 pushes | 57,441 | exactly-once, no slot race, bounded refusals, `Deque` implemented, the owner returns |
| `pulse` | 5 pulsing threads | 253 | no lost wakeup, `CHECK(!asleep_)`, `WakeEvent` implemented with its liveness |
| `scheduler` | 2 nodes, 7 tasks in two levels, 3 per queue | 187,411 | tasks accounted for, sleepers wakeable, a stop reaches every node, `run` returns complete |
| `scheduler_three` | 3 nodes, 3 tasks | 4,288,131 | `StopHeard`, wakeable sleepers and a complete return for two thieves at one queue and for delegation that passes over a node |
| `idvector` | 3 threads, 2 slots, 4 elements | 661,343 (up to symmetry) | slots partitioned, ids lead home, idempotent erase, `IdStore` implemented |
| `stable` | both vectors, capacities to 3 reserved, 7 elements, 4 index bits | 759,969 | free list complete, `IdStore` implemented, tables inverse, same ids |
| `executor` | 1 worker with an affinity, 1 without, 1 client, 3 tasks, 2 dependencies each | 83,001 | lists, counts, order, share; a backlog is run once arrivals stop |
| `shutdown` | 3 workers, 2 closing threads | 96,140 | how far the count is exact, what waiting covers, when `close_and_wait` returns |
| `scheduler_hang` | 2 nodes, 3 tasks | violation | all nodes asleep with a task in a queue |
| `shutdown_late` | 2 workers | violation | a worker that enters after `close_and_wait` fails `CHECK(counter_->alive_)` |
| `shutdown_destroy` | 2 workers | violation | the executor is destroyed while a worker is inside, though no Item was late |
| `executor_deps` | 2 tasks | violation | a task does not wait for a dependency that is running |

The counts are those TLC reports for the complete state space; that of
`scheduler_three` is the number of views.

### Bounds and why they are enough

* Queue: six pushes go once around a ring of four slots, of which three are
  used, with room to wrap a second time over a slot just stolen; two thieves are
  needed for one to hold the lock while the other waits, and more only wait.
* Scheduler: the tree of seven tasks overflows a queue of three, so that
  `new_task` nests; `scheduler_three` is the smallest instance in which two
  nodes contend for a third's queue and the loop of `new_task` skips a node.
  It uses a view that drops locals nobody reads again, and so checks
  invariants only.
* Id vector: two slots and three threads let a slot be acquired, freed and
  be the head again while a third thread holds a stale head; tags have more
  values than there are changes. Threads are interchangeable (symmetry; the run
  has no liveness property).
* Core's id vectors: with seven elements an entry is freed and used again
  several times and the list has several links; three entries reserved at once
  are put before a list that holds entries already. Four index bits, so that
  `&=` has bits to lose; the entries stay below MAX_SIZE, for emplace of the
  stable vector has no guard there. Tags do not wrap.
* Executor: three tasks make a chain and a join; a dependency may be named
  twice. Stamps do not wrap.
  The bound on tasks ends their arrival, which is why `BacklogRuns` states that as its
  condition.
* Shutdown: three workers, so that a late one can race the waiter while others hold
  Items and decrement; two threads close the executor, of which the second finds it
  closed and returns at once, without waiting.

Runs that disable the deadlock check name the reason in their cfg: the system
has reached its bound, or has come to its end.

### Fairness

Threads inside a call keep running (weak fairness of their steps). A thread
that wants a mutex gets it at last (strong fairness), which fair mutexes and
the pauses the code makes between two attempts give in practice; for
`foreign_sync_` it is needed because thieves take it again and again. A
`std::timed_mutex` does not promise it, so `OwnerReturns` shows that the lock is always
released and no path gets stuck, and not that thieves cannot starve the owner.
Nobody is obliged to start a call, except that the executor's workers call their loop,
and closures return. For the scheduler each node is a thread with weak fairness;
nothing is assumed about a thief's attempts, which may fail for ever.

## Proofs

`WorkStealingQueueProofs` proves, for every capacity, set of thieves and number
of pushes:

* `Invariance`: `Spec /\ NoWrap => []QueueInv`; from it `TypeCorrect`,
  `NoDoubleDelivery` (`ExactlyOnce`), `SlotsDisjoint` (`NoSlotRace`) and
  `RefusalJustified` (`RefusalBounded`).

None of the safety properties is inductive. `QueueInv` adds: who holds the lock
and what `head_` is then (`LockInv`); that the window of indices still needed
fits the ring, counting the slot a thief has yet to read and the one the owner
is about to write (`RoomInv`); and that what the window holds was pushed, is all
different, and was not handed out (`ContentInv`). The arithmetic rests on
`SlotDiffers`: two indices less than a capacity apart are in different slots.
The assumption `NoWrap` is that no index reaches the range of `Size_`; without
it `ExactlyOnce` is false.

`UniquePulseProofs` proves for every set of pulsing threads `Invariance`
(`PulseInv`, whose last conjunct says that a thread which woke too early is
still known to be asleep), `WakeupKept` (`NoLostWakeup`), `CheckNeverFails`
(`EntersAwake`), and `StepsAreEventSteps`: initial states map to initial states
of `WakeEvent`, and every step to a step or a stutter.

`DequeImplemented` is the refinement (`ImplementsDeque`): the elements of the deque are
those the slots hold from `First` to `End`, and `EndsRight` and `ItemsRight` say for
every place of the owner and of the thieves which these are. A push adds its element
with the store of `tail_`, a refusal changes nothing, and an element leaves the deque
with the step that decides whose it is, not with the one that reads it.

`SchedulerProofs` proves, for every number of nodes from two up, every size of the
queues and every finite tree of tasks (`TreeAssumption`: each task is added once, and is
below the root), `Invariance` (`SchedInv`) and all the safety properties of the runs.
The parts of `SchedInv`, each of which a property needs and none of which stands alone:

* `PlacedInv`, for `AllAccounted` (`TasksAccounted`): a task added is in one place or has
  run, one not added is nowhere. It is kept because what a task has yet to add holds no
  task twice (`TodoInv`), and because tasks a beginning task adds have no other parent. Only
  five steps move tasks; `Adds`, `Begins` and `Ends` say what they do to a stack and
  `Loses` what they do to a queue, whose places shift by one under a thief.
* `WakeInv`, for `SleepersWakeable`: not only a node that sleeps but one that is on its way
  there (`Tiring`) is available, pulsed, or about to be pulsed. `StopInv`, for
  `StopIsHeard`, is the same of the stop, with one way out: the node has yet to look at
  its flag. Both turn on `Tires`: the only way into the loop that ends with sleep is
  `BecomeAvailable`.
* `IdleInv`, for `IdleHoldsOne`: only its owner makes a queue longer, and the owner leaves
  it only when it sees at most the task a thief hides.
* `LeftInv` and `RunInv`, for `RunReturnsComplete`: `left` counts the leaves that have not
  come to their end, each of which ends once (`NotEnded`, from `PlacedInv`), and nobody is stopped
  or leaves before it is zero. That then *all* tasks have run needs a further argument: a
  task that has not run has a child that has not, all these children are different and miss
  the topmost of the tasks that have not run, and a finite set has no such map into itself
  (`NoRoom`).
* `StackInv`: a node is inside tasks exactly while its stack holds some, and returns to
  `node_loop` from the lowest one only. `EmptyInv` bounds `num_empty_runs`.

`ExecutorProofs` proves, for any workers, clients, affinities and stamps, and any
number of tasks and dependencies, `Invariance` (`ExecutorInv`) and from it `ListsRight`
(`ReadyIffQueued`), `CountsRight` (`CountsMatch`), `OrderKept` (`RunsAfterDependencies`),
`EachOnce` (`Accounted`), and the action property `ShareTaken` (`TakesItsShare`). `ExecutorInv` adds who
holds `tasks_mutex_` (`LockInv`), that a task held by a worker has left `tasks_` and is held
by no other (`HeldInv`), that ids not issued are known nowhere and suffice for every
thread that is adding (`IssueInv`), and that a task waits for a signal of each uncompleted
task it was linked to (`AwaitInv`); the last is what makes a count of zero mean that it may run. The
counts are sizes of sets of positions in the lists of dependents (`Positions`), so that a
dependency named twice counts twice.

`ExecutorShutdownProofs` proves, for any finite set of workers and any set of closing threads,
and with no assumption on when workers enter, `CountTrusted` (`CountExact`),
`WaitingCovers` (`WaitCoversItems`) and `LostForGood`. A value loaded to be stored is still the
count, because loads and stores of workers lie inside `tasks_mutex_` (`OneChanges`), or differs
from it by the one change it may race with: the waiter's behind a late increment, or a
late increment behind the waiter's (`LoadedInv`). An Item that a disabled counter has not
counted is late, and until it is counted the count is exact and the waiter has not left
another Item behind (`LateInv`); this is why the error stays one.

`IdVectorProofs` proves, for any number of threads, slots and elements, `Invariance`
(`VectorInv`), `NoSlotLeaks` (`SlotsPartitioned`), `ValidIdsLeadHome` (`IdsLeadHome`),
`EraseHitsItsTarget` (`EraseIdempotent`) and the refinement `StoreImplemented`, assuming that
tags last for the elements (`TagsLast`: two values each). The heart is that a
compare and exchange which succeeds found the head it had copied, and not
one that came back: the tag of `free_head_` is a function of what has happened, twice the elements
given out less the slots that are out (`IsFreeList`), a copy is never younger than the head
(`MirrorInv`), and a copy with the head's tag is the head. Slots are told from older ids by their
tags, which stay below the number of the element stored there (`SlotInv`, `HandleInv`).

`StableIdVectorProofs` proves, for every number of index bits, every range of tags
and all bounds, as long as tags do not wrap (`NoWrap`), `Invariance`, and from it
`TypeCorrect`, `ChecksNeverFail` (what the `DCHECK`s of emplace and of the destructor ask
for) and `StoreImplemented` (`ImplementsStore`). The run computes the free list
by following it (`FreeChain`, a recursive function); the invariant says instead that there is a sequence
which is the free list (`FreeListInv`, with `IsFreeList` as the run uses it), and the proofs
name it after every step: reserve puts the new entries before it, emplace
takes its head away, erase appends to it. `NoEntryLeaks` (`EntriesAccounted`) brings the two
together: the list that is followed is the sequence (`FollowedIs`, `FreeChainIs`). That
takes an induction over the steps of the following; `SetInduction` is the induction
needed, for a set of numbers, and is itself proved from the pigeonhole principle. The other parts of `IdInv` are what the
id of an element needs: tags count erases, so that they stay below the number of
elements (`TagInv`), and ids are not newer than their entries (`HandleInv`). That
reserved and grown entries stay below the mark of the end follows from the
bounds and from `CountInv`. `IdInv` was first checked by the run `stable`.

`CoreIdVectorsProofs` carries this over to the stable vector beside the dense one
(`BothImplementStore`) and proves, from `BothInvariance`, that both give out the same ids
(`IdsAgree`: `SameIds`) and that the tables of the dense vector are each other's
inverse (`TablesKept`: `TablesInverse`). `BothInv` joins to `IdInv` that the words of
the dense vector have the tags of the stable one's, and are equal for free entries (`Same`),
and that entries in use and places lead to each other (`Tables`). That an id of an
erased element fails the comparison of tags alone comes from `HandleInv`: ids of a free
entry are older than it. The proof of an erase is where elements move: `Filled`
says what the two tables are then, `DenseErased` which words change.

Constants carry named assumptions: capacities are positive, the free lock is no thread,
a scheduler has two nodes (one could not leave the loop that looks for another),
and the mark for no task is no record (`EntryAssumption` of `Executor`).
`InvalidAssumption` (the largest index is a positive number) is a fact about powers
of two that the provers lack, which TLC evaluates for the instance it checks.
`NoWrap` and `TagsLast` are hypotheses of theorems and not assumptions of the
modules: the code does not guarantee them, and what happens without them is said below.
`TagsLast` bounds the elements over the whole life of the vector. The scheduler's ids have
8 bits for tags, which last for 127 elements, and `sandbox.cpp` stores 65,641: the
theorems about the lock-free vector do not reach that instance.

Every safety property of the passing runs is also proved. Only model-checked:
the liveness properties (`OwnerReturns`, `BacklogRuns`, `ClosedWorkersLeave`, `CloseReturns`,
`StopReaches`, `ReturnsUnlessHidden`) and the liveness of `WakeEvent` inside
`ImplementsEvent`, because the prover has no reasoning about fairness and ENABLED. The
violations are TLC's as well.

## Disagreements found

With a run that shows them:

* `scheduler_hang`: `node_loop` takes a refusal of `unique_pull` for an empty
  queue. A thief that is about to give up hides the last task; the owner, whose
  queue nobody looks at again, goes to sleep with it, and `run` never
  returns. `ReturnsUnlessHidden` shows that, in the instance
  checked, this is the only way not to return: where `run` does not, an owner was
  refused its task by a thief that had missed (`Hidden`; a thief that has only announced
  itself is going to take the task), and all nodes fell asleep with a task in a queue.
* `shutdown_late`: `closed_` is read without the lock, so a worker may construct
  its Item on a disabled counter and fail the CHECK.
* `shutdown_destroy`: the Item is released before the lock it was taken under and
  before `notify_all`; the executor may be gone by then. This needs no late Item.
* `executor_deps`: a dependency that is running is no longer in `tasks_`, and a
  task added then does not wait for it.

Without a run in this project, but seen with TLC or plain in the code:

* A task list is last in, first out; `executor.hpp:108` says FIFO. While younger tasks keep
  coming an old one may wait for ever. `TakesItsShare` compares the fronts of two lists
  by their stamps: it says nothing of the order within a list, nor of stamps that wrap.
* A late Item (see ExecutorShutdown), against `executor.hpp:140`, "Mutex which protects
  access to all non-constant members": `wait_and_disable` changes the count without
  `tasks_mutex_`. If the worker loads the count before `--count_` stores and stores after
  it, the subtraction is lost: the count stays one above the Items and `close_and_wait` never
  returns. If it stores between the load and the store of `--count_`, the increment is
  lost and the waiter returns one Item early; if it comes after both, the Item appears
  when the waiter may have returned already. TLC reaches all three with two workers when `late`
  is left out of the properties of `shutdown`.
* With indices that wrap (TLC: 8 values, 9 pushes) the queue hands an element
  out twice; in the code after 2^32 pushes.
* With tags that wrap, an erase with an old id destroys the element stored there
  now, against "Idempotent." in `id_vector.hpp:114`; with the scheduler's 24
  index bits after 256 reuses of a slot.
* `Signal::wait` tests the flag the wrong way round (line 39) and returns at once; `trigger`
  sets the flag only if somebody waits (line 22), which nobody ever does.
* The dense vector's test in emplace (`core/id_vector.hpp:119`) admits one element fewer
  than the MAX_SIZE entries that may be reserved; the stable vector has no such
  test and in the end takes INVALID_INDEX for an index.
* `unsafe_clear` begins again with the tags the vector was constructed with (they
  are derived from its address), so that ids from before it may come to be valid again.
* `work_stealing_queue_test.cpp:141` drains a queue until `unique_pull` first
  refuses, which need not mean that it is empty while thieves run.

## Plan

In order of importance; all of it is done.

1. Work stealing queue, its abstract deque, its safety proofs.
2. Executor, and its shutdown with the blocking counter.
3. Lock-free id vector and its abstract store.
4. Unique pulse and its proofs; the scheduler on top of deque and event.
5. Stable id vector; dense id vector, in step with it; clearing the lock-free one.
6. Theorems about core's id vectors.
7. More theorems: the queue implements the deque, step by step; the shutdown of the
   executor with its counter; the executor; the lock-free id vector and its abstract
   store; the free list of the stable one; the scheduler.

Left for a later time: that the queues and pulses of `Scheduler` are those of `Deque` and
`WakeEvent` is said by their definitions and not by a refinement (a thief that has
announced itself, which `Deque` hides, shows in `Scheduler`).

## Not modelled

* The array delegate: what matters in it is memory layout and object lifetime.
  The constructors from other delegates do not compile as soon as they are used (they
  assign to a type whose assignment is deleted); what the program uses is
  construction in place, one call and destruction, which the executor and the
  scheduler model as a task that runs.
* Signal: from the state it starts in no call changes anything (see above), so
  there is no behaviour to check.
* Application and window: input and output.
* `proto/scheduler.cpp`: does not compile; the program uses `scheduler.hpp`, which is modelled.
* Construction and destruction of the lock-free id vector (the destructor destroys elements
  as `unsafe_clear` does); copying and moving of a counter's Item (nothing uses them).
* Constructors of elements that throw: the elements of this program, closures and links,
  do not.
