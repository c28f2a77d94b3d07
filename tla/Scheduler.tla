------------------------------ MODULE Scheduler ------------------------------
(***************************************************************************)
(* proto/scheduler.hpp: a fixed set of nodes, each a thread with a queue   *)
(* of tasks of its own.  A node runs its own tasks, youngest first, then   *)
(* steals the oldest of another node, and sleeps after as many vain        *)
(* attempts as there are nodes.  A node that has more than one task when   *)
(* it adds one wakes a node that has declared itself available.            *)
(*                                                                         *)
(* The queues are those of the module WorkStealingQueue at the grain of    *)
(* its abstract deque, with one thing more: a thief that has announced     *)
(* itself hides one element from the owner until it claims or gives up,    *)
(* and may give up although an element was pushed meanwhile.  A sleeping   *)
(* node and its pulse are those of WakeEvent.  Every access to available_, *)
(* steal_from_ and stop_flag_ is a step of its own.                        *)
(*                                                                         *)
(* What the tasks do is the constant Spawns: a task adds the tasks of a    *)
(* sequence, in order, and the last of the tasks that add none stops the   *)
(* scheduler, as in proto/sandbox.cpp.  Room in the id vector of the tasks *)
(* is taken for granted.                                                   *)
(***************************************************************************)
EXTENDS Integers, Sequences, FiniteSets, SequencesExt

CONSTANTS NumNodes,  \* num_nodes_
          Mask,      \* MASK of the task queues: how many tasks they hold
          Spawns,    \* the tasks each task adds
          Root       \* the task given to run

Nodes == 0..(NumNodes - 1)
Tasks == DOMAIN Spawns
Leaves == {t \in Tasks : Spawns[t] = <<>>}

\* A single node could not leave the loop that looks for another one.
ASSUME NodesAssumption == NumNodes \in Nat /\ NumNodes >= 2
ASSUME MaskAssumption == Mask \in Nat /\ Mask >= 1
ASSUME TreeAssumption ==
  /\ IsFiniteSet(Tasks)
  /\ Tasks \subseteq Nat \ {0}
  /\ Root \in Tasks
  /\ \A t \in Tasks : Spawns[t] \in Seq(Tasks \ {Root})
  \* no task is added twice
  /\ \A p, q \in Tasks : \A j \in DOMAIN Spawns[p], k \in DOMAIN Spawns[q] :
       Spawns[p][j] = Spawns[q][k] => p = q /\ j = k
  \* and each is somewhere below the root
  /\ \A below \in SUBSET Tasks :
       /\ Root \in below
       /\ \A t \in below : \A k \in DOMAIN Spawns[t] : Spawns[t][k] \in below
       => below = Tasks

NoNode == NumNodes   \* nobody is inside shared_pull
Run == 0             \* Scheduler::run, which adds the root task

VARIABLES items,      \* generic_tasks_ of each node
          thief,      \* the node inside shared_pull on each queue
          available,  \* available_
          stealFrom,  \* steal_from_
          stopFlag,   \* stop_flag_
          pulsed,     \* the pulse kept in wakeup_
          pc,         \* where each node is
          stack,      \* the tasks each node is in the middle of
          cursor,     \* steal_id
          steal,      \* whom a node steals from, and at which place of the loop
          empty,      \* num_empty_runs
          peer,       \* i_node, in new_task and in stop_scheduler
          left,       \* tasks_left of the sandbox
          finished    \* history: the tasks that have returned

queues == <<items, thief>>
signals == <<available, stealFrom, stopFlag, pulsed>>
search == <<cursor, steal, empty>>
work == <<stack, left, finished>>
vars == <<queues, signals, pc, search, peer, work>>

NextNode(i) == (i + 1) % NumNodes
OtherNode(i, c) == IF NextNode(c) = i THEN NextNode(i) ELSE NextNode(c)

Frame(task, return) == [task |-> task, return |-> return,
                        todo |-> IF task = Run THEN <<Root>> ELSE Spawns[task]]
Top(i) == Last(stack[i])
Goto(i, place) == pc' = [pc EXCEPT ![i] = place]
At(i, place) == pc[i] = place

Init == /\ items = [i \in Nodes |-> <<>>]
        /\ thief = [i \in Nodes |-> NoNode]
        /\ available = [i \in Nodes |-> FALSE]
        /\ stealFrom = [i \in Nodes |-> NextNode(i)]
        /\ stopFlag = [i \in Nodes |-> FALSE]
        /\ pulsed = [i \in Nodes |-> FALSE]
        /\ pc = [i \in Nodes |-> IF i = 0 THEN "body" ELSE "drain"]
        /\ stack = [i \in Nodes |-> IF i = 0 THEN <<Frame(Run, "drain")>>
                                             ELSE <<>>]
        /\ cursor = [i \in Nodes |-> NextNode(i)]
        /\ steal = [i \in Nodes |-> [from |-> NextNode(i), at |-> "first"]]
        /\ empty = [i \in Nodes |-> 0]
        /\ peer = [i \in Nodes |-> i]
        /\ left = Cardinality(Leaves)
        /\ finished = {}

-----------------------------------------------------------------------------
\* The queue as its owner sees it: size() as a signed number.  It is negative,
\* and huge as the code computes it, when a thief looks at an empty queue.
Visible(i) == Len(items[i]) - IF thief[i] = NoNode THEN 0 ELSE 1
MoreThanOne(i) == Visible(i) \notin {0, 1}

\* execute: task.work(*this) begins on node i.
Execute(i, task, return) ==
  /\ stack' = [stack EXCEPT ![i] = Append(@, Frame(task, return))]
  /\ Goto(i, "body")

\* unique_pull found a task: run it.
PullAndExecute(i, return) ==
  /\ Visible(i) > 0
  /\ items' = [items EXCEPT ![i] = Front(@)]
  /\ Execute(i, Last(items[i]), return)
  /\ UNCHANGED <<thief, signals, search, peer, left, finished>>

-----------------------------------------------------------------------------
\* new_task.

Push(i) == /\ At(i, "body")
           /\ Top(i).todo # <<>>
           /\ Visible(i) < Mask
           /\ items' = [items EXCEPT ![i] = Append(@, Head(Top(i).todo))]
           /\ stack' = [stack EXCEPT ![i][Len(stack[i])].todo = Tail(@)]
           /\ peer' = [peer EXCEPT ![i] = NextNode(i)]
           /\ Goto(i, "delegate")
           /\ UNCHANGED <<thief, signals, search, left, finished>>

PushFull(i) == /\ At(i, "body")
               /\ Top(i).todo # <<>>
               /\ Visible(i) >= Mask
               /\ Goto(i, "relieve")
               /\ UNCHANGED <<queues, signals, search, peer, work>>

\* Mutant: the new task is given up for the one that is run in its place.
Relieve_Drops(i) ==
  /\ At(i, "relieve") /\ Visible(i) > 0
  /\ items' = [items EXCEPT ![i] = Front(@)]
  /\ stack' = [stack EXCEPT ![i] =
                 Append(Front(@) \o <<[Last(@) EXCEPT !.todo = Tail(@)]>>,
                        Frame(Last(items[i]), "body"))]
  /\ Goto(i, "body")
  /\ UNCHANGED <<thief, signals, search, peer, left, finished>>

\* The queue was full: run a task of it, then try again to push.
Relieve(i) == At(i, "relieve") /\ PullAndExecute(i, "body")

RelieveRefused(i) == /\ At(i, "relieve")
                     /\ Visible(i) <= 0
                     /\ Goto(i, "body")
                     /\ UNCHANGED <<queues, signals, search, peer, work>>

DelegateTest(i) ==
  /\ At(i, "delegate")
  /\ Goto(i, IF MoreThanOne(i) /\ peer[i] # i THEN "offer" ELSE "body")
  /\ UNCHANGED <<queues, signals, search, peer, work>>

\* wakeup_and_steal_from, three accesses to the other node.
OfferTaken(i) == /\ At(i, "offer")
                 /\ available[peer[i]]
                 /\ available' = [available EXCEPT ![peer[i]] = FALSE]
                 /\ Goto(i, "redirect")
                 /\ UNCHANGED <<queues, stealFrom, stopFlag, pulsed, search,
                                peer, work>>

OfferDeclined(i) == /\ At(i, "offer")
                    /\ ~available[peer[i]]
                    /\ peer' = [peer EXCEPT ![i] = NextNode(@)]
                    /\ Goto(i, "delegate")
                    /\ UNCHANGED <<queues, signals, search, work>>

\* Mutant: the node is told where to steal but not woken.
Redirect_Silent(i) == /\ At(i, "redirect")
                      /\ stealFrom' = [stealFrom EXCEPT ![peer[i]] = i]
                      /\ Goto(i, "body")
                      /\ UNCHANGED <<queues, available, stopFlag, pulsed,
                                     search, peer, work>>

Redirect(i) == /\ At(i, "redirect")
               /\ stealFrom' = [stealFrom EXCEPT ![peer[i]] = i]
               /\ Goto(i, "pulse")
               /\ UNCHANGED <<queues, available, stopFlag, pulsed, search,
                              peer, work>>

Pulse(i) == /\ At(i, "pulse")
            /\ pulsed' = [pulsed EXCEPT ![peer[i]] = TRUE]
            /\ Goto(i, "body")
            /\ UNCHANGED <<queues, available, stealFrom, stopFlag, search,
                           peer, work>>

-----------------------------------------------------------------------------
\* The end of a task's work, and stop_scheduler.

\* Mutant: the counter is compared one too early.
LeafDone_Early(i) ==
  /\ At(i, "body") /\ Top(i).task \in Leaves
  /\ left' = left - 1
  /\ Goto(i, IF left <= 2 THEN "stop" ELSE "return")
  /\ UNCHANGED <<queues, signals, search, peer, stack, finished>>

\* task_done of the sandbox; the last one stops the scheduler.
LeafDone(i) ==
  /\ At(i, "body") /\ Top(i).task \in Leaves
  /\ left' = left - 1
  /\ Goto(i, IF left = 1 THEN "stop" ELSE "return")
  /\ UNCHANGED <<queues, signals, search, peer, stack, finished>>

WorkDone(i) == /\ At(i, "body")
               /\ Top(i).todo = <<>> /\ Top(i).task \notin Leaves
               /\ Goto(i, "return")
               /\ UNCHANGED <<queues, signals, search, peer, work>>

\* Back in execute, or in run.
Return(i) == /\ At(i, "return")
             /\ finished' = finished \cup {Top(i).task}
             /\ Goto(i, Top(i).return)
             /\ stack' = [stack EXCEPT ![i] = Front(@)]
             /\ UNCHANGED <<queues, signals, search, peer, left>>

StopBegin(i) == /\ At(i, "stop")
                /\ stopFlag' = [stopFlag EXCEPT ![i] = TRUE]
                /\ Goto(i, IF stopFlag[i] THEN "return" ELSE "stopFlag")
                /\ peer' = [peer EXCEPT ![i] = 0]
                /\ UNCHANGED <<queues, available, stealFrom, pulsed, search,
                               work>>

\* Mutant: the flag is set and the node not woken.
StopFlag_Silent(i) ==
  /\ At(i, "stopFlag")
  /\ stopFlag' = [stopFlag EXCEPT ![peer[i]] = TRUE]
  /\ peer' = [peer EXCEPT ![i] = NextNode(@)]
  /\ Goto(i, IF NextNode(peer[i]) = 0 THEN "return" ELSE "stopFlag")
  /\ UNCHANGED <<queues, available, stealFrom, pulsed, search, work>>

\* stop of each node: the flag, then the pulse.
StopFlag(i) == /\ At(i, "stopFlag")
               /\ stopFlag' = [stopFlag EXCEPT ![peer[i]] = TRUE]
               /\ Goto(i, "stopPulse")
               /\ UNCHANGED <<queues, available, stealFrom, pulsed, search,
                              peer, work>>

\* Mutant: the last node is not stopped.
StopPulse_OneShort(i) ==
  /\ At(i, "stopPulse")
  /\ pulsed' = [pulsed EXCEPT ![peer[i]] = TRUE]
  /\ peer' = [peer EXCEPT ![i] = NextNode(@)]
  /\ Goto(i, IF NextNode(peer[i]) = NumNodes - 1 THEN "return" ELSE "stopFlag")
  /\ UNCHANGED <<queues, available, stealFrom, stopFlag, search, work>>

StopPulse(i) ==
  /\ At(i, "stopPulse")
  /\ pulsed' = [pulsed EXCEPT ![peer[i]] = TRUE]
  /\ peer' = [peer EXCEPT ![i] = NextNode(@)]
  /\ Goto(i, IF NextNode(peer[i]) = 0 THEN "return" ELSE "stopFlag")
  /\ UNCHANGED <<queues, available, stealFrom, stopFlag, search, work>>

-----------------------------------------------------------------------------
\* node_loop: the local queue.

\* Mutant: one task is pulled, not all.
Drain_Once(i) == At(i, "drain") /\ PullAndExecute(i, "ready")

Drain(i) == At(i, "drain") /\ PullAndExecute(i, "drain")

Drained(i) == /\ At(i, "drain")
              /\ Visible(i) <= 0
              /\ Goto(i, "ready")
              /\ UNCHANGED <<queues, signals, search, peer, work>>

\* Mutant: the vain attempts are not counted anew.
BecomeAvailable_KeepsCount(i) ==
  /\ At(i, "ready")
  /\ available' = [available EXCEPT ![i] = TRUE]
  /\ Goto(i, "loop")
  /\ UNCHANGED <<queues, stealFrom, stopFlag, pulsed, search, peer, work>>

BecomeAvailable(i) == /\ At(i, "ready")
                      /\ available' = [available EXCEPT ![i] = TRUE]
                      /\ empty' = [empty EXCEPT ![i] = 0]
                      /\ Goto(i, "loop")
                      /\ UNCHANGED <<queues, stealFrom, stopFlag, pulsed,
                                     cursor, steal, peer, work>>

Leave(i) == /\ At(i, "loop")
            /\ stopFlag[i]
            /\ Goto(i, "done")
            /\ UNCHANGED <<queues, signals, search, peer, work>>

-----------------------------------------------------------------------------
\* node_loop: steal_and_execute, at its three places.

StealNext(i) == /\ At(i, "loop")
                /\ ~stopFlag[i]
                /\ cursor' = [cursor EXCEPT ![i] = OtherNode(i, @)]
                /\ steal' = [steal EXCEPT ![i] = [from |-> cursor'[i],
                                                  at |-> "first"]]
                /\ Goto(i, "steal")
                /\ UNCHANGED <<queues, signals, empty, peer, work>>

\* Nothing was stolen.  After enough vain attempts the node sleeps.
Lose(i) == IF steal[i].at = "first"
             THEN /\ empty' = [empty EXCEPT ![i] = @ + 1]
                  /\ Goto(i, IF empty[i] + 1 = NumNodes THEN "wait" ELSE "loop")
             ELSE Goto(i, "drain") /\ UNCHANGED empty

\* The timed lock was not obtained: it is held, or the attempt failed anyway.
StealRefused(i) == /\ At(i, "steal")
                   /\ Lose(i)
                   /\ UNCHANGED <<queues, signals, cursor, steal, peer, work>>

Announce(i) == /\ At(i, "steal")
               /\ thief[steal[i].from] = NoNode
               /\ thief' = [thief EXCEPT ![steal[i].from] = i]
               /\ Goto(i, "announced")
               /\ UNCHANGED <<items, signals, search, peer, work>>

Claim(i) ==
  LET from == steal[i].from
  IN /\ At(i, "announced")
     /\ items[from] # <<>>
     /\ items' = [items EXCEPT ![from] = Tail(@)]
     /\ thief' = [thief EXCEPT ![from] = NoNode]
     /\ cursor' = [cursor EXCEPT ![i] = from]
     /\ Execute(i, Head(items[from]),
                IF steal[i].at = "first" THEN "took" ELSE "drain")
     /\ UNCHANGED <<signals, steal, empty, peer, left, finished>>

Miss(i) == /\ At(i, "announced")
           /\ items[steal[i].from] = <<>>
           /\ Goto(i, "missed")
           /\ UNCHANGED <<queues, signals, search, peer, work>>

Undo(i) == /\ At(i, "missed")
           /\ thief' = [thief EXCEPT ![steal[i].from] = NoNode]
           /\ Lose(i)
           /\ UNCHANGED <<items, signals, cursor, steal, peer, work>>

\* The stolen task has returned: was this node woken while it ran?
Took(i) == /\ At(i, "took")
           /\ available' = [available EXCEPT ![i] = FALSE]
           /\ Goto(i, IF available[i] THEN "drain" ELSE "reload")
           /\ UNCHANGED <<queues, stealFrom, stopFlag, pulsed, search, peer,
                          work>>

StealAgain(i) ==
  /\ At(i, "reload")
  /\ Goto(i, IF stealFrom[i] = cursor[i] THEN "drain" ELSE "steal")
  /\ steal' = [steal EXCEPT ![i] = [from |-> stealFrom[i], at |-> "second"]]
  /\ UNCHANGED <<queues, signals, cursor, empty, peer, work>>

\* UniquePulse::wait returns.
WaitReturn(i) == /\ At(i, "wait")
                 /\ pulsed[i]
                 /\ pulsed' = [pulsed EXCEPT ![i] = FALSE]
                 /\ Goto(i, "woken")
                 /\ UNCHANGED <<queues, available, stealFrom, stopFlag, search,
                                peer, work>>

StealWoken(i) ==
  /\ At(i, "woken")
  /\ cursor' = [cursor EXCEPT ![i] = stealFrom[i]]
  /\ steal' = [steal EXCEPT ![i] = [from |-> stealFrom[i], at |-> "woken"]]
  /\ Goto(i, "steal")
  /\ UNCHANGED <<queues, signals, empty, peer, work>>

-----------------------------------------------------------------------------
NodeNext(i) ==
  \/ Push(i) \/ PushFull(i) \/ Relieve(i) \/ RelieveRefused(i)
  \/ DelegateTest(i) \/ OfferTaken(i) \/ OfferDeclined(i)
  \/ Redirect(i) \/ Pulse(i)
  \/ LeafDone(i) \/ WorkDone(i) \/ Return(i)
  \/ StopBegin(i) \/ StopFlag(i) \/ StopPulse(i)
  \/ Drain(i) \/ Drained(i) \/ BecomeAvailable(i) \/ Leave(i)
  \/ StealNext(i) \/ StealRefused(i) \/ Announce(i) \/ Claim(i) \/ Miss(i)
  \/ Undo(i) \/ Took(i) \/ StealAgain(i) \/ WaitReturn(i) \/ StealWoken(i)

Next == \E i \in Nodes : NodeNext(i)

Spec == Init /\ [][Next]_vars

\* Each node is a thread that keeps running; the tasks all come to an end.
FairSpec == Spec /\ \A i \in Nodes : WF_vars(NodeNext(i))

-----------------------------------------------------------------------------
\* Properties.

TypeOK == /\ items \in [Nodes -> Seq(Tasks)]
          /\ thief \in [Nodes -> Nodes \cup {NoNode}]
          /\ available \in [Nodes -> BOOLEAN]
          /\ stealFrom \in [Nodes -> Nodes]
          /\ stopFlag \in [Nodes -> BOOLEAN]
          /\ pulsed \in [Nodes -> BOOLEAN]
          /\ pc \in [Nodes -> {"body", "relieve", "delegate", "offer",
                               "redirect", "pulse", "return", "stop",
                               "stopFlag", "stopPulse", "drain", "ready",
                               "loop", "steal", "announced", "missed", "took",
                               "reload", "wait", "woken", "done"}]
          /\ stack \in [Nodes -> Seq([task : Tasks \cup {Run},
                                      return : {"body", "drain", "took"},
                                      todo : Seq(Tasks)])]
          /\ cursor \in [Nodes -> Nodes]
          /\ steal \in [Nodes -> [from : Nodes,
                                  at : {"first", "second", "woken"}]]
          /\ empty \in [Nodes -> 0..NumNodes]
          /\ peer \in [Nodes -> Nodes]
          /\ left \in 0..Cardinality(Leaves)
          /\ finished \subseteq Tasks \cup {Run}

\* Where a task is: in a queue, on a stack, or still to be added by a task on
\* a stack.
Places(t) ==
  UNION {{<<i, "queue", k>> : k \in {n \in DOMAIN items[i] : items[i][n] = t}}
         \cup {<<i, "stack", k>> :
                 k \in {n \in DOMAIN stack[i] : stack[i][n].task = t}}
         \cup {<<i, "to do", k>> :
                 k \in {n \in DOMAIN stack[i] : t \in Range(stack[i][n].todo)}}
           : i \in Nodes}

Started == (finished \cap Tasks) \cup {t \in Tasks : \E i \in Nodes :
                            \E k \in DOMAIN stack[i] : stack[i][k].task = t}
Added == {Root} \cup UNION {Range(Spawns[t]) : t \in Started}

\* Every task added is in one place until it has run, and then in none: none
\* is lost or run twice, whoever pushes, pulls, steals or nests.
TasksAccounted ==
  \A t \in Tasks : Cardinality(Places(t)) + (IF t \in finished THEN 1 ELSE 0)
                   = IF t \in Added THEN 1 ELSE 0

\* A node that sleeps can be woken: it declares itself available, or somebody
\* who took it at its word is about to pulse it.
SleeperCanBeWoken ==
  \A i \in Nodes :
    At(i, "wait") /\ ~pulsed[i] /\ ~available[i]
    => \E j \in Nodes : pc[j] \in {"redirect", "pulse"} /\ peer[j] = i

\* A node that sleeps has not missed the stop of the scheduler.
StopHeard ==
  \A i \in Nodes :
    At(i, "wait") /\ ~pulsed[i] /\ stopFlag[i]
    => \E j \in Nodes : pc[j] \in {"stopFlag", "stopPulse"} /\ peer[j] <= i

\* A node that looks for work, or sleeps, has left at most one task of its
\* own, which a thief hid.  (It may still have more when it follows up a wakeup
\* that came while it ran a stolen task.)
IdleHoldsAtMostOne ==
  \A i \in Nodes :
    \/ pc[i] \in {"loop", "wait", "woken"}
    \/ pc[i] \in {"steal", "announced", "missed"} /\ steal[i].at # "second"
    => Len(items[i]) <= 1

\* run returns only when every task has run to its end.
RunEndsComplete ==
  (\A i \in Nodes : At(i, "done")) =>
     /\ finished = Tasks \cup {Run}
     /\ \A i \in Nodes : items[i] = <<>>

\* Once the scheduler is stopped every node leaves its loop, sleeping ones too.
StopReaches == (left = 0) ~> \A i \in Nodes : At(i, "done")

\* proto/sandbox.cpp:36 stops the scheduler in the last task, and run waits for
\* that: the nodes never all sleep while a task is in a queue.
NeverAllAsleep ==
  ~ /\ \A i \in Nodes : At(i, "wait") /\ ~pulsed[i]
    /\ \E i \in Nodes : items[i] # <<>>

\* An owner is refused its last task, which is hidden from it by a thief that has
\* found the queue empty before and is about to give up.
Hidden == \E i \in Nodes :
            /\ At(i, "drain") /\ Visible(i) <= 0 /\ items[i] # <<>>
            /\ thief[i] # NoNode /\ pc[thief[i]] = "missed"

\* run returns with everything run, or that happens and then all nodes fall
\* asleep with a task in a queue: there is no other way not to return.
ReturnsUnlessHidden ==
  \/ <>(\A i \in Nodes : At(i, "done"))
  \/ <>Hidden /\ <>~NeverAllAsleep
=============================================================================
