------------------------------ MODULE Executor ------------------------------
(***************************************************************************)
(* core/executor.hpp and core/executor.cpp: tasks that depend on tasks,    *)
(* handed out to worker threads from one global list and one list per      *)
(* thread affinity.  tasks_mutex_ protects everything but closed_, which   *)
(* add_task and the entry of the worker loops read without it.             *)
(*                                                                         *)
(* A task is in tasks_ until a worker pops it; the closure runs afterwards *)
(* without the lock, and only then are the dependents signalled.  A        *)
(* closure may itself call add_task.  The lists threaded through           *)
(* next_in_list and Dependent::next are sequences here, first element at   *)
(* the front; TaskList::back is the last element.                          *)
(*                                                                         *)
(* Task ids are never reused here: the tags of core/stable_id_vector.hpp,  *)
(* which make a reused slot distinguishable, are a module of their own.    *)
(***************************************************************************)
EXTENDS Integers, Sequences, FiniteSets, SequencesExt

CONSTANTS Workers,        \* threads that call run_tasks_with_affinity
          Clients,        \* other threads that call add_task and close
          Affinities,     \* the affinities in use
          NoAffinity,     \* NO_AFFINITY
          WorkerAffinity, \* the argument each worker passes
          Free,           \* the value of tasks_mutex_ when nobody holds it
          NoTask,         \* an erased or not yet used entry of tasks_
          StampRange,     \* how many values TaskStamp has: 2^16 in the code
          MaxTasks,       \* bound: the number of calls of add_task considered
          MaxDeps         \* bound: the length of a depends_on range

ASSUME AffinityAssumption ==
         /\ NoAffinity \notin Affinities
         /\ WorkerAffinity \in [Workers -> Affinities \cup {NoAffinity}]
         /\ \A v, w \in Workers : WorkerAffinity[v] = WorkerAffinity[w] =>
                                  v = w \/ WorkerAffinity[v] = NoAffinity
ASSUME BoundsAssumption == /\ MaxTasks \in Nat /\ MaxDeps \in Nat
                           /\ StampRange \in Nat /\ StampRange > 0
ASSUME HolderAssumption == Free \notin Workers

VARIABLES mutex,      \* tasks_mutex_: the worker that holds it, or Free
          tasks,      \* tasks_ and dependents_
          queue,      \* global_task_queue_ and affinity_task_queue_
          nextStamp,  \* next_stamp_
          closed,     \* closed_
          attached,   \* thread_exists_for_affinity_: the affinities set
          workerPc,   \* where each worker is in its task loop
          running,    \* the popped task each worker holds
          adding,     \* the threads inside add_task, past the look at closed_
          added,      \* how many task ids have been issued
          awaited,    \* history: the dependencies each task was linked to
          declared,   \* history: the dependencies each task was added with
          runs,       \* history: how often each task was popped
          completed   \* history: the tasks whose closure has returned

store == <<tasks, queue, nextStamp>>
history == <<awaited, declared, runs, completed>>
vars == <<mutex, tasks, queue, nextStamp, closed, attached, workerPc, running,
          adding, added, history>>

TaskIds == 1..MaxTasks
Queues == Affinities \cup {NoAffinity}
DepLists == UNION {[1..n -> TaskIds] : n \in 0..MaxDeps}

\* What a worker holds when it holds no task.
NoRecord == [id |-> 0, dependents |-> <<>>]

Init == /\ mutex = Free
        /\ tasks = [id \in TaskIds |-> NoTask]
        /\ queue = [q \in Queues |-> <<>>]
        /\ nextStamp = 0
        /\ closed = FALSE
        /\ attached = {}
        /\ workerPc = [w \in Workers |-> "out"]
        /\ running = [w \in Workers |-> NoRecord]
        /\ adding = {}
        /\ added = 0
        /\ awaited = [id \in TaskIds |-> {}]
        /\ declared = [id \in TaskIds |-> {}]
        /\ runs = [id \in TaskIds |-> 0]
        /\ completed = {}

IsValidId(id) == tasks[id] # NoTask

WorkerMoves(w, from, to) == /\ workerPc[w] = from
                            /\ workerPc' = [workerPc EXCEPT ![w] = to]

\* Mutant: the affinity is ignored.
Schedule_Global(id, newTasks) ==
  /\ tasks' = [newTasks EXCEPT ![id].stamp = nextStamp]
  /\ queue' = [queue EXCEPT ![NoAffinity] = <<id>> \o @]
  /\ nextStamp' = (nextStamp + 1) % StampRange

\* schedule and push_task: stamp the task and put it at the front of its list.
Schedule(id, newTasks) ==
  /\ tasks' = [newTasks EXCEPT ![id].stamp = nextStamp]
  /\ queue' = [queue EXCEPT ![newTasks[id].affinity] = <<id>> \o @]
  /\ nextStamp' = (nextStamp + 1) % StampRange

-----------------------------------------------------------------------------
\* add_task, called by a client or by the closure a worker is running.

MayAdd(t) == t \in Clients \/ (t \in Workers /\ workerPc[t] = "running")

\* closed_ is read before the lock is taken.
AddCheck(t) == /\ MayAdd(t)
               /\ t \notin adding
               /\ ~closed
               /\ added + Cardinality(adding) < MaxTasks
               /\ adding' = adding \cup {t}
               /\ UNCHANGED <<mutex, store, closed, attached, workerPc,
                              running, added, history>>

Positions(list, id) == {i \in DOMAIN list : list[i] = id}

\* Mutant: a task named twice gets one dependent, and the count is two.
Linked_OncePerTask(id, deps, newTask) ==
  [d \in TaskIds |->
    CASE d = id        -> newTask
      [] IsValidId(d) /\ d \in Range(deps) ->
           [tasks[d] EXCEPT !.dependents = <<id>> \o @]
      [] OTHER         -> tasks[d]]

\* One dependent per occurrence of a valid id in depends_on.
Linked(id, deps, newTask) ==
  [d \in TaskIds |->
    CASE d = id        -> newTask
      [] IsValidId(d)  ->
           [tasks[d] EXCEPT !.dependents =
              [i \in 1..Cardinality(Positions(deps, d)) |-> id] \o @]
      [] OTHER         -> tasks[d]]

AddLocked(t, deps, affinity, hasClosure) ==
  /\ t \in adding
  /\ mutex = Free
  /\ Range(deps) \subseteq 1..added
  /\ LET id == added + 1
         unmet == {i \in DOMAIN deps : IsValidId(deps[i])}
         newTask == [unmet |-> Cardinality(unmet), dependents |-> <<>>,
                     stamp |-> 0, affinity |-> affinity,
                     hasClosure |-> hasClosure]
         newTasks == Linked(id, deps, newTask)
     IN /\ added' = id
        /\ awaited' = [awaited EXCEPT ![id] = {deps[i] : i \in unmet}]
        /\ declared' = [declared EXCEPT ![id] = Range(deps)]
        /\ IF unmet = {}
             THEN Schedule(id, newTasks)
             ELSE tasks' = newTasks /\ UNCHANGED <<queue, nextStamp>>
  /\ adding' = adding \ {t}
  /\ UNCHANGED <<mutex, closed, attached, workerPc, running, runs, completed>>

-----------------------------------------------------------------------------
\* run_tasks_with_affinity and run_tasks_no_affinity, called by worker w.

HasAffinity(w) == WorkerAffinity[w] # NoAffinity

\* closed_ is read before the lock is taken.
EnterCheck(w) == /\ WorkerMoves(w, "out", "entering")
                 /\ ~closed
                 /\ UNCHANGED <<mutex, store, closed, attached, running,
                                adding, added, history>>

Enter(w) == /\ WorkerMoves(w, "entering", "top")
            /\ mutex = Free
            /\ mutex' = w
            /\ WorkerAffinity[w] \notin attached
            /\ attached' = attached \cup ({WorkerAffinity[w]} \ {NoAffinity})
            /\ UNCHANGED <<store, closed, running, adding, added, history>>

\* Mutant: the stamps are compared the other way round.
OlderFront_Swapped(p, q) ==
  tasks[Head(queue[p])].stamp > tasks[Head(queue[q])].stamp

OlderFront(p, q) == tasks[Head(queue[p])].stamp < tasks[Head(queue[q])].stamp

\* The queue the worker takes its next task from.
Chosen(w, q) ==
  LET own == WorkerAffinity[w]
  IN /\ queue[q] # <<>>
     /\ \/ q = NoAffinity /\ (queue[own] = <<>> \/ ~HasAffinity(w))
        \/ q = own /\ HasAffinity(w) /\ queue[NoAffinity] = <<>>
        \/ /\ HasAffinity(w)
           /\ queue[own] # <<>> /\ queue[NoAffinity] # <<>>
           /\ q = IF OlderFront(NoAffinity, own) THEN NoAffinity ELSE own

\* Mutant: the popped task is not erased from tasks_.
Pop_KeepsEntry(w, q) ==
  LET id == Head(queue[q])
  IN /\ Chosen(w, q)
     /\ WorkerMoves(w, "top", "running")
     /\ mutex' = Free
     /\ queue' = [queue EXCEPT ![q] = Tail(@)]
     /\ running' = [running EXCEPT ![w] =
                      [id |-> id, dependents |-> tasks[id].dependents]]
     /\ runs' = [runs EXCEPT ![id] = @ + 1]
     /\ UNCHANGED <<tasks, nextStamp, closed, attached, adding, added, awaited,
                    declared, completed>>

\* pop_task and the start of run_task: the task leaves tasks_ before it runs.
\* A task with an empty closure completes without the lock being released.
Pop(w, q) ==
  LET id == Head(queue[q])
      task == tasks[id]
  IN /\ Chosen(w, q)
     /\ queue' = [queue EXCEPT ![q] = Tail(@)]
     /\ tasks' = [tasks EXCEPT ![id] = NoTask]
     /\ running' = [running EXCEPT ![w] =
                      [id |-> id, dependents |-> task.dependents]]
     /\ runs' = [runs EXCEPT ![id] = @ + 1]
     /\ IF task.hasClosure
          THEN /\ WorkerMoves(w, "top", "running")
               /\ mutex' = Free
               /\ UNCHANGED completed
          ELSE /\ WorkerMoves(w, "top", "signal")
               /\ completed' = completed \cup {id}
               /\ UNCHANGED mutex
     /\ UNCHANGED <<nextStamp, closed, attached, adding, added, awaited,
                    declared>>

\* Nothing to do: release the lock for a while.
Release(w) == /\ WorkerMoves(w, "top", "polling")
              /\ \A q \in Queues : ~Chosen(w, q)
              /\ mutex' = Free
              /\ UNCHANGED <<store, closed, attached, running, adding, added,
                             history>>

\* Take the lock again; closed_ ends the loop without another look at the
\* queues.
PollClosed(w) == /\ WorkerMoves(w, "polling", "out")
                 /\ mutex = Free
                 /\ closed
                 /\ attached' = attached \ {WorkerAffinity[w]}
                 /\ UNCHANGED <<mutex, store, closed, running, adding, added,
                                history>>

\* Mutant: the loop goes on without a look at closed_.
PollOpen_IgnoresClosed(w) ==
  /\ WorkerMoves(w, "polling", "top")
  /\ mutex = Free
  /\ mutex' = w
  /\ UNCHANGED <<store, closed, attached, running, adding, added, history>>

PollOpen(w) == /\ WorkerMoves(w, "polling", "top")
               /\ mutex = Free
               /\ ~closed
               /\ mutex' = w
               /\ UNCHANGED <<store, closed, attached, running, adding, added,
                              history>>

\* The closure has returned and the lock is taken again.
Finish(w) == /\ WorkerMoves(w, "running", "signal")
             /\ w \notin adding
             /\ mutex = Free
             /\ mutex' = w
             /\ completed' = completed \cup {running[w].id}
             /\ UNCHANGED <<store, closed, attached, running, adding, added,
                            awaited, declared, runs>>

\* Mutant: a dependent is scheduled by the first signal it gets.
SignalOne_SchedulesAlways(w) ==
  /\ workerPc[w] = "signal"
  /\ running[w].dependents # <<>>
  /\ LET id == Head(running[w].dependents)
     IN Schedule(id, [tasks EXCEPT ![id].unmet = @ - 1])
  /\ running' = [running EXCEPT ![w].dependents = Tail(@)]
  /\ UNCHANGED <<mutex, closed, attached, workerPc, adding, added, history>>

\* Mutant: the loop over the dependents does not advance.
SignalOne_NoAdvance(w) ==
  /\ workerPc[w] = "signal"
  /\ running[w].dependents # <<>>
  /\ LET id == Head(running[w].dependents)
     IN tasks' = [tasks EXCEPT ![id].unmet = @ - 1]
  /\ UNCHANGED <<mutex, queue, nextStamp, running, closed, attached, workerPc,
                 adding, added, history>>

\* signal_dependents, one dependent at a time.
SignalOne(w) ==
  /\ workerPc[w] = "signal"
  /\ running[w].dependents # <<>>
  /\ LET id == Head(running[w].dependents)
         newTasks == [tasks EXCEPT ![id].unmet = @ - 1]
     IN IF newTasks[id].unmet = 0
          THEN Schedule(id, newTasks)
          ELSE tasks' = newTasks /\ UNCHANGED <<queue, nextStamp>>
  /\ running' = [running EXCEPT ![w].dependents = Tail(@)]
  /\ UNCHANGED <<mutex, closed, attached, workerPc, adding, added, history>>

\* Mutant: the loop over the dependents may stop early.
SignalDone_Early(w) == /\ WorkerMoves(w, "signal", "top")
                       /\ running' = [running EXCEPT ![w] = NoRecord]
                       /\ UNCHANGED <<mutex, store, closed, attached, adding,
                                      added, history>>

SignalDone(w) == /\ WorkerMoves(w, "signal", "top")
                 /\ running[w].dependents = <<>>
                 /\ running' = [running EXCEPT ![w] = NoRecord]
                 /\ UNCHANGED <<mutex, store, closed, attached, adding, added,
                                history>>

-----------------------------------------------------------------------------
Close == /\ mutex = Free
         /\ ~closed
         /\ closed' = TRUE
         /\ UNCHANGED <<mutex, store, attached, workerPc, running, adding,
                        added, history>>

Add == \E t \in adding, deps \in DepLists, affinity \in Queues :
          \E hasClosure \in BOOLEAN : AddLocked(t, deps, affinity, hasClosure)

WorkerNext(w) == \/ EnterCheck(w) \/ Enter(w)
                 \/ \E q \in Queues : Pop(w, q)
                 \/ Release(w) \/ PollClosed(w) \/ PollOpen(w)
                 \/ Finish(w) \/ SignalOne(w) \/ SignalDone(w)

Next == \/ \E t \in Clients \cup Workers : AddCheck(t)
        \/ Add
        \/ \E w \in Workers : WorkerNext(w)
        \/ Close

Spec == Init /\ [][Next]_vars

\* The workers call their loop, closures return, a thread that holds the lock
\* goes on, and a thread that wants the lock gets it at last.
Fairness == \A w \in Workers :
              /\ WF_vars(EnterCheck(w) \/ (\E q \in Queues : Pop(w, q)) \/ Release(w)
                         \/ SignalOne(w) \/ SignalDone(w))
              /\ SF_vars(\/ Enter(w) \/ PollClosed(w) \/ PollOpen(w) \/ Finish(w)
                         \/ \E deps \in DepLists, affinity \in Queues :
                              \E c \in BOOLEAN : AddLocked(w, deps, affinity, c))

FairSpec == Spec /\ Fairness

-----------------------------------------------------------------------------
\* Properties.

Records == [unmet : Nat, dependents : Seq(TaskIds), stamp : 0..(StampRange - 1),
            affinity : Queues, hasClosure : BOOLEAN]

ASSUME EntryAssumption == NoTask \notin Records

TypeOK == /\ mutex \in Workers \cup {Free}
          /\ tasks \in [TaskIds -> Records \cup {NoTask}]
          /\ queue \in [Queues -> Seq(TaskIds)]
          /\ nextStamp \in 0..(StampRange - 1)
          /\ closed \in BOOLEAN
          /\ attached \subseteq Affinities
          /\ workerPc \in [Workers -> {"out", "entering", "top", "polling",
                                      "running", "signal"}]
          /\ running \in [Workers -> [id : 0..MaxTasks,
                                      dependents : Seq(TaskIds)]]
          /\ adding \subseteq Clients \cup Workers
          /\ added \in 0..MaxTasks
          /\ awaited \in [TaskIds -> SUBSET TaskIds]
          /\ declared \in [TaskIds -> SUBSET TaskIds]
          /\ runs \in [TaskIds -> Nat]
          /\ completed \subseteq TaskIds

\* executor.hpp:67: "Any task can be in a single TaskList at a time."  A task
\* without unmet dependencies is in the list of its affinity, once, and in no
\* other; one that waits is in none, and no list holds an erased task.
ReadyIffQueued ==
  \A id \in TaskIds, q \in Queues :
     Cardinality(Positions(queue[q], id)) =
       IF IsValidId(id) /\ tasks[id].unmet = 0 /\ tasks[id].affinity = q
         THEN 1 ELSE 0

\* The dependents of task d, also after it was moved out of tasks_.
Dependents(d) ==
  IF IsValidId(d) THEN tasks[d].dependents
  ELSE IF \E w \in Workers : running[w].id = d
       THEN running[CHOOSE w \in Workers : running[w].id = d].dependents
       ELSE <<>>

Links(id) == UNION {{<<d, i>> : i \in Positions(Dependents(d), id)} :
                      d \in TaskIds}

\* num_unmet_dependencies of a task is the number of signals that are still to
\* come: none is lost and none is sent twice, whoever holds the list.
CountsMatch == \A id \in TaskIds :
                  Cardinality(Links(id)) = IF IsValidId(id)
                                             THEN tasks[id].unmet ELSE 0

\* A task that was popped was linked only to tasks that have completed.
RunsAfterDependencies ==
  \A id \in TaskIds : runs[id] > 0 => awaited[id] \subseteq completed

\* Every task id issued is waiting or queued, or held by exactly one worker, or
\* completed; it is run at most once and is never forgotten.
Accounted ==
  \A id \in 1..added :
     /\ runs[id] = IF IsValidId(id) THEN 0 ELSE 1
     /\ runs[id] = 1 => \/ id \in completed
                        \/ \E w \in Workers : /\ running[w].id = id
                                              /\ workerPc[w] = "running"

\* The older of the two front tasks is taken, executor.cpp:77, and a task with
\* an affinity is taken only by the worker that has it, executor.hpp:80.
TakesItsShare ==
  [][\A w \in Workers : running'[w].id # running[w].id /\ running'[w].id # 0 =>
       LET task == tasks[running'[w].id]
           own == WorkerAffinity[w]
       IN /\ task.affinity \in {NoAffinity, own}
          /\ \A q \in {NoAffinity, own} :
                queue[q] # <<>> => task.stamp <= tasks[Head(queue[q])].stamp
    ]_vars

\* When tasks stop arriving and the executor stays open, every task accepted is
\* run at last.  (While they arrive an old one may wait for ever behind younger
\* ones: push_task and pop_task work at the same end of a list.)
BacklogRuns ==
  \A n \in 0..MaxTasks :
    <>[](added = n /\ ~closed) => <>[](1..n \subseteq completed)

\* After close every worker leaves its loop.
ClosedWorkersLeave == closed ~> \A w \in Workers : workerPc[w] = "out"

\* executor.hpp:76: a task is run only when all the tasks on which it depends
\* have been run, those included that a worker is running when it is added.
RunsAfterDeclared ==
  \A id \in TaskIds : runs[id] > 0 => declared[id] \subseteq completed
=============================================================================
