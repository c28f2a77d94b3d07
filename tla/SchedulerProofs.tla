--------------------------- MODULE SchedulerProofs ---------------------------
(***************************************************************************)
(* Proofs about Scheduler, for every number of nodes, every size of the    *)
(* queues and every tree of tasks: tasks are accounted for, a sleeping     *)
(* node can be woken and hears the stop, and run ends with nothing left.   *)
(***************************************************************************)
EXTENDS Scheduler, FiniteSetTheorems, SequenceTheorems, TLAPS

-----------------------------------------------------------------------------
\* The inductive invariant.

\* In the middle of a task.
Busy == {"body", "relieve", "delegate", "offer", "redirect", "pulse",
         "return", "stop", "stopFlag", "stopPulse"}

\* Between the work of a task and the end of execute, and stopping the nodes.
Ending == {"return", "stop", "stopFlag", "stopPulse"}
Stopping == {"stopFlag", "stopPulse"}

\* Inside steal_and_execute.
Stealing == {"steal", "announced", "missed"}

\* In the loop that ends with sleep.
Tiring(i) == \/ pc[i] \in {"loop", "wait"}
             \/ pc[i] \in Stealing /\ steal[i].at = "first"

Frames == [task : Tasks \cup {Run}, return : {"body", "drain", "took"},
           todo : Seq(Tasks)]

\* TypeOK without the bound on left.
Types == /\ items \in [Nodes -> Seq(Tasks)]
         /\ thief \in [Nodes -> Nodes \cup {NoNode}]
         /\ available \in [Nodes -> BOOLEAN]
         /\ stealFrom \in [Nodes -> Nodes]
         /\ stopFlag \in [Nodes -> BOOLEAN]
         /\ pulsed \in [Nodes -> BOOLEAN]
         /\ pc \in [Nodes -> Busy \cup Stealing \cup
                      {"drain", "ready", "loop", "took", "reload", "wait",
                       "woken", "done"}]
         /\ stack \in [Nodes -> Seq(Frames)]
         /\ cursor \in [Nodes -> Nodes]
         /\ steal \in [Nodes -> [from : Nodes,
                                 at : {"first", "second", "woken"}]]
         /\ empty \in [Nodes -> 0..NumNodes]
         /\ peer \in [Nodes -> Nodes]
         /\ finished \in SUBSET (Tasks \cup {Run})

\* A node is in the middle of tasks exactly while its stack holds some, and
\* only the first of them was not run inside another.  The last is the task
\* that ends, when one does, and then it has added its tasks.
StackInv ==
  \A i \in Nodes :
    /\ pc[i] \in Busy <=> stack[i] # <<>>
    /\ \A k \in DOMAIN stack[i] : k # 1 => stack[i][k].return = "body"
    /\ stack[i] # <<>> => stack[i][1].return # "body"
    /\ pc[i] \in Ending => Top(i).todo = <<>>

\* Vain attempts are counted up to the number of nodes.
EmptyInv == \A i \in Nodes : Tiring(i) /\ pc[i] # "wait" => empty[i] < NumNodes

\* What a task has yet to add holds no task twice, and a leaf adds none.
Distinct(s) == \A a, b \in DOMAIN s : s[a] = s[b] => a = b
TodoInv == \A i \in Nodes : \A k \in DOMAIN stack[i] :
             /\ Distinct(stack[i][k].todo)
             /\ stack[i][k].task \in Leaves => stack[i][k].todo = <<>>

\* A task added is in one place or has run, one not added is nowhere.
Placed(t) == /\ \A p, q \in Places(t) : p = q
             /\ t \in Added <=> Places(t) # {} \/ t \in finished
             /\ t \in finished => Places(t) = {}
PlacedInv == \A t \in Tasks : Placed(t)

\* run itself.
RunInv == Run \in finished \/ \E k \in DOMAIN stack[0] : stack[0][k].task = Run

\* left counts the leaves that have not come to the end of their work, and
\* nobody is stopped, or leaves the loop, before it is zero.
Over == {"stop", "done"} \cup Stopping
Ended(t) == t \in finished \/ \E i \in Nodes : pc[i] \in Ending /\ Top(i).task = t
LeftInv == /\ left = Cardinality({t \in Leaves : ~Ended(t)})
           /\ \A i \in Nodes :
                stopFlag[i] \/ pc[i] \in Over => left = 0

\* A node that may sleep next is available, or somebody is about to wake it, or
\* has.
WakeInv ==
  \A i \in Nodes :
    Tiring(i) => \/ available[i] \/ pulsed[i]
                 \/ \E j \in Nodes : /\ pc[j] \in {"redirect", "pulse"}
                                     /\ peer[j] = i

\* The same of the stop: it was heard, or will be, or the node looks at its
\* flag before it sleeps.
StopInv ==
  \A i \in Nodes :
    stopFlag[i] => \/ pulsed[i]
                   \/ \E j \in Nodes : pc[j] \in Stopping /\ peer[j] <= i
                   \/ ~Tiring(i) \/ pc[i] = "loop"

\* A node that has drained its queue has at most the task a thief hid from it.
IdleInv ==
  \A i \in Nodes :
    \/ pc[i] \in {"ready", "loop", "wait", "woken"}
    \/ pc[i] \in Stealing /\ steal[i].at # "second"
    => Len(items[i]) <= 1

SchedInv == /\ Types /\ StackInv /\ EmptyInv /\ TodoInv
            /\ PlacedInv /\ RunInv /\ LeftInv
            /\ WakeInv /\ StopInv /\ IdleInv

-----------------------------------------------------------------------------
\* Helpers.

\* The next node around the ring is another one.
LEMMA Ring == /\ 0 \in Nodes /\ NumNodes \in Nat /\ NumNodes >= 2
              /\ \A i \in Nodes :
                   /\ NextNode(i) \in Nodes /\ NextNode(i) # i
                   /\ NextNode(i) = 0 <=> i = NumNodes - 1
                   /\ NextNode(i) # 0 => NextNode(i) = i + 1
<1>1. 0 \in Nodes /\ NumNodes \in Nat /\ NumNodes >= 2
  BY NodesAssumption DEF Nodes
<1>2. ASSUME NEW i \in Nodes
      PROVE  NextNode(i) = IF i = NumNodes - 1 THEN 0 ELSE i + 1
  <2>1. i \in Nat /\ i < NumNodes
    BY <1>1 DEF Nodes
  <2>2. CASE i = NumNodes - 1
    <3>1. NumNodes % NumNodes = 0
      BY <1>1
    <3> QED BY <1>1, <2>2, <3>1 DEF NextNode
  <2>3. CASE i # NumNodes - 1
    <3>1. i + 1 \in 0..(NumNodes - 1)
      BY <1>1, <2>1, <2>3
    <3>2. (i + 1) % NumNodes = i + 1
      BY <1>1, <3>1
    <3> QED BY <2>3, <3>2 DEF NextNode
  <2> QED BY <2>2, <2>3
<1> QED BY <1>1, <1>2 DEF Nodes

\* The node to steal from next is a node.
LEMMA OtherNodes == ASSUME NEW i \in Nodes, NEW c \in Nodes
                    PROVE  OtherNode(i, c) \in Nodes
BY Ring DEF OtherNode

\* A sequence without its last element, and with another one.
LEMMA FrontOf ==
  ASSUME NEW S, NEW s \in Seq(S), s # <<>>
  PROVE  /\ Len(s) \in Nat /\ Len(s) >= 1 /\ Len(s) \in DOMAIN s
         /\ DOMAIN s = 1..Len(s)
         /\ Last(s) = s[Len(s)] /\ Last(s) \in S
         /\ Front(s) \in Seq(S) /\ Len(Front(s)) = Len(s) - 1
         /\ DOMAIN Front(s) = 1..(Len(s) - 1)
         /\ \A k \in 1..(Len(s) - 1) : Front(s)[k] = s[k]
<1>1. Len(s) \in Nat /\ Len(s) >= 1 /\ DOMAIN s = 1..Len(s)
  BY EmptySeq
<1> QED BY <1>1 DEF Front, Last

\* A sequence with one more element,
LEMMA AppendOf ==
  ASSUME NEW S, NEW s \in Seq(S), NEW x \in S
  PROVE  /\ Append(s, x) \in Seq(S) /\ Append(s, x) # <<>>
         /\ Len(s) \in Nat /\ Len(Append(s, x)) = Len(s) + 1
         /\ DOMAIN s = 1..Len(s)
         /\ DOMAIN Append(s, x) = 1..(Len(s) + 1)
         /\ \A k \in 1..Len(s) : Append(s, x)[k] = s[k]
         /\ Append(s, x)[Len(s) + 1] = x
         /\ Last(Append(s, x)) = x
<1>1. /\ Append(s, x) \in Seq(S) /\ Append(s, x) # <<>>
      /\ Len(Append(s, x)) = Len(s) + 1 /\ Len(s) \in Nat
      /\ \A k \in 1..Len(s) : Append(s, x)[k] = s[k]
      /\ Append(s, x)[Len(s) + 1] = x
  BY AppendProperties
<1> QED BY <1>1 DEF Last

\* and one without its first.
LEMMA TailOf ==
  ASSUME NEW S, NEW s \in Seq(S), s # <<>>
  PROVE  /\ Head(s) = s[1] /\ Head(s) \in S /\ Len(s) \in Nat /\ Len(s) >= 1
         /\ DOMAIN s = 1..Len(s)
         /\ Tail(s) \in Seq(S) /\ Len(Tail(s)) = Len(s) - 1
         /\ DOMAIN Tail(s) = 1..(Len(s) - 1)
         /\ \A k \in 1..(Len(s) - 1) : Tail(s)[k] = s[k + 1]
<1>1. Len(s) \in Nat /\ Len(s) >= 1 /\ DOMAIN s = 1..Len(s)
  BY EmptySeq
<1> QED BY <1>1, HeadTailProperties

\* What a task starts with.
LEMMA FrameOf ==
  ASSUME NEW task \in Tasks \cup {Run}, NEW return \in {"body", "drain", "took"}
  PROVE  /\ Frame(task, return) \in Frames
         /\ Frame(task, return).task = task
         /\ Frame(task, return).return = return
         /\ task # Run => Frame(task, return).todo = Spawns[task]
         /\ task = Run => Frame(task, return).todo = <<Root>>
         /\ Run \notin Tasks
         /\ Distinct(Frame(task, return).todo)
         /\ task \in Leaves => Frame(task, return).todo = <<>>
<1>1. Run \notin Tasks /\ Root \in Tasks
  BY TreeAssumption DEF Run
<1>2. \A t \in Tasks : Spawns[t] \in Seq(Tasks) /\ Distinct(Spawns[t])
  <2>1. ASSUME NEW t \in Tasks PROVE Spawns[t] \in Seq(Tasks)
    <3>1. Spawns[t] \in Seq(Tasks \ {Root})
      BY TreeAssumption
    <3> QED BY <3>1
  <2>2. ASSUME NEW t \in Tasks PROVE Distinct(Spawns[t])
    BY TreeAssumption DEF Distinct
  <2> QED BY <2>1, <2>2
<1>3. PICK todo : todo = IF task = Run THEN <<Root>> ELSE Spawns[task]
  OBVIOUS
<1>4. todo \in Seq(Tasks) /\ Distinct(todo)
  <2>1. <<Root>> \in Seq(Tasks) /\ Distinct(<<Root>>)
    BY <1>1 DEF Distinct
  <2> QED BY <1>2, <1>3, <2>1
<1>5. Frame(task, return) = [task |-> task, return |-> return, todo |-> todo]
  BY <1>3 DEF Frame
<1> QED BY <1>1, <1>3, <1>4, <1>5 DEF Frames, Leaves

-----------------------------------------------------------------------------
\* The five steps that move tasks.

\* Node i has a stack of n tasks.
Deep(i, n) == n \in Nat /\ n = Len(stack[i]) /\ DOMAIN stack[i] = 1..n

\* The stacks of the other nodes stay.
OwnStack(i) == /\ stack' \in [Nodes -> Seq(Frames)]
               /\ \A j \in Nodes \ {i} : stack'[j] = stack[j]

\* The other queues stay.
OneQueue(i) == /\ items' \in [Nodes -> Seq(Tasks)]
               /\ \A j \in Nodes \ {i} : items'[j] = items[j]

\* The task on top of n has added h.
Adds(i, n, h) ==
  /\ Deep(i, n) /\ n >= 1 /\ OwnStack(i)
  /\ Len(stack'[i]) = n /\ DOMAIN stack'[i] = 1..n
  /\ \A k \in 1..(n - 1) : stack'[i][k] = stack[i][k]
  /\ stack'[i][n].task = stack[i][n].task
  /\ stack'[i][n].return = stack[i][n].return
  /\ stack[i][n].todo \in Seq(Tasks) /\ stack[i][n].todo # <<>>
  /\ h = Head(stack[i][n].todo) /\ h \in Tasks
  /\ stack'[i][n].todo = Tail(stack[i][n].todo)

\* h begins on top of n tasks.
Begins(i, n, h, return) ==
  /\ Deep(i, n) /\ OwnStack(i)
  /\ return \in {"body", "drain", "took"} /\ h \in Tasks
  /\ Len(stack'[i]) = n + 1 /\ DOMAIN stack'[i] = 1..(n + 1)
  /\ stack'[i] # <<>>
  /\ \A k \in 1..n : stack'[i][k] = stack[i][k]
  /\ stack'[i][n + 1] = Frame(h, return)

\* The last of n tasks is over.
Ends(i, n) ==
  /\ Deep(i, n) /\ n >= 1 /\ OwnStack(i)
  /\ Len(stack'[i]) = n - 1 /\ DOMAIN stack'[i] = 1..(n - 1)
  /\ \A k \in 1..(n - 1) : stack'[i][k] = stack[i][k]

\* The queue of node i gets h, or loses it at either end.
QueueGets(i, h) == OneQueue(i) /\ h \in Tasks /\ items'[i] = Append(items[i], h)
QueueLosesLast(i, h) == /\ OneQueue(i) /\ items[i] # <<>>
                        /\ h = Last(items[i]) /\ h \in Tasks
                        /\ items'[i] = Front(items[i])
QueueLosesFirst(i, h) == /\ OneQueue(i) /\ items[i] # <<>>
                         /\ h = Head(items[i]) /\ h \in Tasks
                         /\ items'[i] = Tail(items[i])

\* new_task moves a task from the work of another into the queue.
LEMMA PushMoves ==
  ASSUME Types, StackInv, NEW i \in Nodes, Push(i)
  PROVE  \E n, h : Adds(i, n, h) /\ QueueGets(i, h) /\ finished' = finished
<1>1. stack[i] \in Seq(Frames) /\ stack[i] # <<>> /\ items[i] \in Seq(Tasks)
  BY DEF Push, At, Types, StackInv, Busy
<1>2. PICK n \in Nat : n = Len(stack[i]) /\ n >= 1 /\ DOMAIN stack[i] = 1..n
                       /\ n \in DOMAIN stack[i] /\ Top(i) = stack[i][n]
  BY <1>1, FrontOf DEF Top
<1>3. PICK top \in Frames : top = stack[i][n]
  BY <1>1, <1>2
<1>4. PICK todo \in Seq(Tasks) : todo = top.todo
  BY DEF Frames
<1>5. PICK rest \in Seq(Tasks) : rest = Tail(todo)
  BY <1>2, <1>3, <1>4, TailOf DEF Push
<1>6. PICK h \in Tasks : h = Head(todo) /\ todo # <<>>
  BY <1>2, <1>3, <1>4, TailOf DEF Push
<1>7. PICK new : new = [top EXCEPT !.todo = rest]
  OBVIOUS
<1>8. new \in Frames /\ new.task = top.task /\ new.return = top.return
      /\ new.todo = rest
  BY <1>7 DEF Frames
<1>9. stack' = [stack EXCEPT ![i] = [stack[i] EXCEPT ![n] = new]]
  BY <1>2, <1>3, <1>4, <1>5, <1>7 DEF Push
<1>10. PICK s : s = [stack[i] EXCEPT ![n] = new]
  OBVIOUS
<1>11. /\ s \in Seq(Frames) /\ Len(s) = n /\ DOMAIN s = 1..n
       /\ s[n] = new /\ \A k \in 1..(n - 1) : s[k] = stack[i][k]
  BY <1>1, <1>2, <1>8, <1>10, ExceptSeq
<1>12. stack' = [stack EXCEPT ![i] = s]
  BY <1>9, <1>10
<1>13. Adds(i, n, h)
  BY <1>2, <1>3, <1>4, <1>5, <1>6, <1>8, <1>11, <1>12
     DEF Adds, Deep, OwnStack, Types
<1>14. QueueGets(i, h)
  <2>1. items' = [items EXCEPT ![i] = Append(items[i], h)]
    BY <1>2, <1>3, <1>4, <1>6 DEF Push
  <2>2. Append(items[i], h) \in Seq(Tasks)
    BY <1>1, AppendOf
  <2> QED BY <2>1, <2>2 DEF QueueGets, OneQueue, Types
<1>15. finished' = finished
  BY DEF Push
<1> QED BY <1>13, <1>14, <1>15

\* execute puts a task on the stack.
LEMMA ExecuteMoves ==
  ASSUME Types, NEW i \in Nodes, NEW h \in Tasks,
         NEW return \in {"body", "drain", "took"}, Execute(i, h, return)
  PROVE  Begins(i, Len(stack[i]), h, return)
<1>1. PICK frame \in Frames : frame = Frame(h, return)
  BY FrameOf
<1>2. stack[i] \in Seq(Frames)
  BY DEF Types
<1>3. PICK s : s = Append(stack[i], frame)
  OBVIOUS
<1>4. stack' = [stack EXCEPT ![i] = s]
  BY <1>1, <1>3 DEF Execute
<1>5. PICK n : n = Len(stack[i])
  OBVIOUS
<1>6. /\ s \in Seq(Frames) /\ s # <<>> /\ Len(s) = n + 1
      /\ n \in Nat /\ DOMAIN stack[i] = 1..n /\ DOMAIN s = 1..(n + 1)
      /\ \A k \in 1..n : s[k] = stack[i][k]
      /\ s[n + 1] = frame
  BY <1>2, <1>3, <1>5, AppendOf
<1>7. OwnStack(i) /\ stack'[i] = s
  BY <1>4, <1>6 DEF OwnStack, Types
<1> QED BY <1>1, <1>5, <1>6, <1>7 DEF Begins, Deep

\* unique_pull and execute take it from the end of the queue,
LEMMA PullMoves ==
  ASSUME Types, NEW i \in Nodes, NEW return \in {"body", "drain", "took"},
         PullAndExecute(i, return)
  PROVE  \E n, h : /\ Begins(i, n, h, return) /\ QueueLosesLast(i, h)
                   /\ finished' = finished
<1>1. items[i] \in Seq(Tasks) /\ items[i] # <<>>
  BY DEF PullAndExecute, Visible, Types
<1>2. PICK h \in Tasks : h = Last(items[i])
  BY <1>1, FrontOf
<1>3. Begins(i, Len(stack[i]), h, return)
  BY <1>2, ExecuteMoves DEF PullAndExecute
<1>4. QueueLosesLast(i, h)
  <2>1. items' = [items EXCEPT ![i] = Front(items[i])]
    BY DEF PullAndExecute
  <2>2. Front(items[i]) \in Seq(Tasks)
    BY <1>1, FrontOf
  <2> QED BY <1>1, <1>2, <2>1, <2>2 DEF QueueLosesLast, OneQueue, Types
<1> QED BY <1>3, <1>4 DEF PullAndExecute

\* shared_pull and execute from the front of another one.
LEMMA ClaimMoves ==
  ASSUME Types, NEW i \in Nodes, Claim(i)
  PROVE  /\ steal[i].from \in Nodes
         /\ \E n, h : /\ Begins(i, n, h, IF steal[i].at = "first" THEN "took"
                                         ELSE "drain")
                      /\ QueueLosesFirst(steal[i].from, h)
                      /\ finished' = finished
<1>1. PICK from \in Nodes : from = steal[i].from
  BY DEF Types
<1>2. items[from] \in Seq(Tasks) /\ items[from] # <<>>
  BY <1>1 DEF Claim, Types
<1>3. PICK h \in Tasks : h = Head(items[from])
  BY <1>2, TailOf
<1>4. Begins(i, Len(stack[i]), h, IF steal[i].at = "first" THEN "took"
                                  ELSE "drain")
  BY <1>1, <1>3, ExecuteMoves DEF Claim
<1>5. QueueLosesFirst(from, h)
  <2>1. items' = [items EXCEPT ![from] = Tail(items[from])]
    BY <1>1 DEF Claim
  <2>2. Tail(items[from]) \in Seq(Tasks)
    BY <1>2, TailOf
  <2> QED BY <1>2, <1>3, <2>1, <2>2 DEF QueueLosesFirst, OneQueue, Types
<1>6. finished' = finished
  BY DEF Claim
<1> QED BY <1>1, <1>4, <1>5, <1>6

\* A task whose work is over leaves the stack.
LEMMA ReturnMoves ==
  ASSUME Types, StackInv, NEW i \in Nodes, Return(i)
  PROVE  \E n : Ends(i, n) /\ items' = items
                /\ finished' = finished \cup {stack[i][n].task}
                /\ stack[i][n].todo = <<>> /\ stack[i][n] \in Frames
                /\ pc' = [pc EXCEPT ![i] = stack[i][n].return]
<1>1. stack[i] \in Seq(Frames) /\ stack[i] # <<>> /\ Top(i).todo = <<>>
  BY DEF Return, At, Types, StackInv, Busy, Ending
<1>2. PICK n \in Nat : n = Len(stack[i]) /\ n >= 1 /\ DOMAIN stack[i] = 1..n
                       /\ n \in DOMAIN stack[i] /\ Top(i) = stack[i][n]
  BY <1>1, FrontOf DEF Top
<1>3. PICK s \in Seq(Frames) : s = Front(stack[i])
  BY <1>1, FrontOf
<1>4. stack' = [stack EXCEPT ![i] = s]
  BY <1>3 DEF Return
<1>5. Ends(i, n)
  BY <1>1, <1>2, <1>3, <1>4, FrontOf DEF Ends, Deep, OwnStack, Types
<1>6. stack[i][n] \in Frames
  BY <1>1, <1>2
<1>7. /\ items' = items /\ finished' = finished \cup {stack[i][n].task}
      /\ pc' = [pc EXCEPT ![i] = stack[i][n].return]
  BY <1>2 DEF Return, queues, Goto
<1> QED BY <1>1, <1>2, <1>5, <1>6, <1>7

-----------------------------------------------------------------------------
\* Types and stacks.

\* The steps that move no task, by what else they change.
SignalStep(i) == \/ OfferTaken(i) \/ Redirect(i) \/ Pulse(i) \/ Took(i)
                 \/ StopBegin(i) \/ StopFlag(i) \/ StopPulse(i)
                 \/ BecomeAvailable(i) \/ WaitReturn(i)
SearchStep(i) == \/ StealNext(i) \/ StealRefused(i) \/ Announce(i) \/ Miss(i)
                 \/ Undo(i) \/ StealAgain(i) \/ StealWoken(i)
PlainStep(i) == \/ PushFull(i) \/ RelieveRefused(i) \/ DelegateTest(i)
                \/ OfferDeclined(i) \/ WorkDone(i) \/ Drained(i) \/ Leave(i)

\* Every step moves a task, ends a leaf or is in one of the groups.
LEMMA Steps ==
  ASSUME NEW i \in Nodes, NodeNext(i)
  PROVE  \/ Push(i) \/ Relieve(i) \/ Drain(i) \/ Claim(i) \/ Return(i)
         \/ LeafDone(i) \/ SignalStep(i) \/ SearchStep(i) \/ PlainStep(i)
BY DEF NodeNext, SignalStep, SearchStep, PlainStep

\* A step of a node moves nobody else, and tasks only where said.
LEMMA OnlyMoves ==
  ASSUME Types, NEW i \in Nodes, NodeNext(i)
  PROVE  /\ \A j \in Nodes \ {i} : pc'[j] = pc[j]
         /\ SignalStep(i) \/ SearchStep(i) \/ PlainStep(i) \/ LeafDone(i)
              => UNCHANGED <<items, stack, finished>>
<1> USE DEF Types, Goto
<1>1. CASE Push(i) \/ Relieve(i) \/ Drain(i) \/ Claim(i) \/ Return(i)
  <2>1. \A j \in Nodes \ {i} : pc'[j] = pc[j]
    BY <1>1 DEF Push, Relieve, Drain, Claim, Return, PullAndExecute, Execute
  <2>2. ~(SignalStep(i) \/ SearchStep(i) \/ PlainStep(i) \/ LeafDone(i))
        \/ UNCHANGED <<items, stack, finished>>
    BY DEF SignalStep, OfferTaken, Redirect, Pulse, Took, StopBegin, StopFlag,
           StopPulse, BecomeAvailable, WaitReturn, SearchStep, StealNext,
           StealRefused, Announce, Miss, Undo, StealAgain, StealWoken,
           PlainStep, PushFull, RelieveRefused, DelegateTest, OfferDeclined,
           WorkDone, Drained, Leave, LeafDone, queues, work
  <2> QED BY <2>1, <2>2
<1>2. CASE LeafDone(i)
  BY <1>2 DEF LeafDone, queues, work
<1>3. CASE SignalStep(i)
  BY <1>3 DEF SignalStep, OfferTaken, Redirect, Pulse, Took, StopBegin,
              StopFlag, StopPulse, BecomeAvailable, WaitReturn, queues, work
<1>4. CASE SearchStep(i)
  BY <1>4 DEF SearchStep, StealNext, StealRefused, Lose, Announce, Miss, Undo,
              StealAgain, StealWoken, queues, work
<1>5. CASE PlainStep(i)
  BY <1>5 DEF PlainStep, PushFull, RelieveRefused, DelegateTest, OfferDeclined,
              WorkDone, Drained, Leave, queues, work
<1> QED BY <1>1, <1>2, <1>3, <1>4, <1>5, Steps

\* Types is kept.
LEMMA TypesStep ==
  ASSUME Types, StackInv, EmptyInv, NEW i \in Nodes, NodeNext(i)
  PROVE  Types'
<1> USE DEF Goto, At
<1>1. CASE Push(i)
  <2>1. OwnStack(i) /\ OneQueue(i) /\ finished' = finished
    BY <1>1, PushMoves DEF Adds, QueueGets
  <2> QED BY <1>1, <2>1, Ring DEF Push, Types, OwnStack, OneQueue, Busy,
                                  signals, search
<1>2. CASE Relieve(i) \/ Drain(i)
  <2>1. OwnStack(i) /\ OneQueue(i) /\ finished' = finished
    BY <1>2, PullMoves DEF Relieve, Drain, Begins, QueueLosesLast
  <2>2. /\ pc' = [pc EXCEPT ![i] = "body"]
        /\ UNCHANGED <<thief, signals, search, peer>>
    BY <1>2 DEF Relieve, Drain, PullAndExecute, Execute
  <2>3. pc' \in [Nodes -> Busy \cup Stealing \cup
                   {"drain", "ready", "loop", "took", "reload", "wait",
                    "woken", "done"}]
    BY <2>2 DEF Types, Busy
  <2> QED BY <2>1, <2>2, <2>3 DEF Types, OwnStack, OneQueue, signals, search
<1>3. CASE Claim(i)
  <2>1. /\ OwnStack(i) /\ OneQueue(steal[i].from) /\ finished' = finished
        /\ steal[i].from \in Nodes
    BY <1>3, ClaimMoves DEF Begins, QueueLosesFirst
  <2> QED BY <1>3, <2>1 DEF Claim, Execute, Types, OwnStack, OneQueue, Busy,
                            signals
<1>4. CASE Return(i)
  <2>1. PICK n : /\ Ends(i, n) /\ items' = items
                 /\ finished' = finished \cup {stack[i][n].task}
                 /\ stack[i][n] \in Frames
                 /\ pc' = [pc EXCEPT ![i] = stack[i][n].return]
    BY <1>4, ReturnMoves
  <2>2. /\ stack[i][n].task \in Tasks \cup {Run}
        /\ stack[i][n].return \in {"body", "drain", "took"}
    BY <2>1 DEF Frames
  <2>3. OwnStack(i)
    BY <2>1 DEF Ends
  <2> QED BY <1>4, <2>1, <2>2, <2>3 DEF Return, Types, OwnStack, Busy, queues,
                                        signals, search
<1> USE DEF queues, signals, search, work
<1>5. CASE LeafDone(i) \/ PlainStep(i)
  <2>1. CASE LeafDone(i)
    BY <2>1, Ring DEF LeafDone, Types, Busy, Stealing
  <2>2. CASE PushFull(i)
    BY <2>2, Ring DEF PushFull, Types, Busy, Stealing
  <2>3. CASE RelieveRefused(i)
    BY <2>3, Ring DEF RelieveRefused, Types, Busy, Stealing
  <2>4. CASE DelegateTest(i)
    BY <2>4, Ring DEF DelegateTest, Types, Busy, Stealing
  <2>5. CASE OfferDeclined(i)
    BY <2>5, Ring DEF OfferDeclined, Types, Busy, Stealing
  <2>6. CASE WorkDone(i)
    BY <2>6, Ring DEF WorkDone, Types, Busy, Stealing
  <2>7. CASE Drained(i)
    BY <2>7, Ring DEF Drained, Types, Busy, Stealing
  <2>8. CASE Leave(i)
    BY <2>8, Ring DEF Leave, Types, Busy, Stealing
  <2> QED BY <1>5, <2>1, <2>2, <2>3, <2>4, <2>5, <2>6, <2>7, <2>8 DEF PlainStep
<1>6. CASE SignalStep(i)
  <2>1. CASE OfferTaken(i)
    BY <2>1, Ring DEF OfferTaken, Types, Busy, Stealing
  <2>2. CASE Redirect(i)
    BY <2>2, Ring DEF Redirect, Types, Busy, Stealing
  <2>3. CASE Pulse(i)
    BY <2>3, Ring DEF Pulse, Types, Busy, Stealing
  <2>4. CASE Took(i)
    BY <2>4, Ring DEF Took, Types, Busy, Stealing
  <2>5. CASE StopBegin(i)
    BY <2>5, Ring DEF StopBegin, Types, Busy, Stealing
  <2>6. CASE StopFlag(i)
    BY <2>6, Ring DEF StopFlag, Types, Busy, Stealing
  <2>7. CASE StopPulse(i)
    BY <2>7, Ring DEF StopPulse, Types, Busy, Stealing
  <2>8. CASE BecomeAvailable(i)
    BY <2>8, Ring DEF BecomeAvailable, Types, Busy, Stealing
  <2>9. CASE WaitReturn(i)
    BY <2>9, Ring DEF WaitReturn, Types, Busy, Stealing
  <2> QED BY <1>6, <2>1, <2>2, <2>3, <2>4, <2>5, <2>6, <2>7, <2>8, <2>9 DEF SignalStep
<1>7. CASE SearchStep(i)
  <2>1. CASE StealNext(i)
    <3>1. OtherNode(i, cursor[i]) \in Nodes
      BY OtherNodes DEF Types
    <3> QED BY <2>1, <3>1 DEF StealNext, Types, Stealing
  <2>2. CASE StealAgain(i)
    BY <2>2 DEF StealAgain, Types, Stealing
  <2>3. CASE StealWoken(i)
    BY <2>3 DEF StealWoken, Types, Stealing
  <2>4. CASE Announce(i)
    BY <2>4 DEF Announce, Types, Stealing
  <2>5. CASE Miss(i)
    BY <2>5 DEF Miss, Types, Stealing
  <2>6. CASE StealRefused(i) \/ Undo(i)
    <3>1. pc[i] \in Stealing
      BY <2>6 DEF StealRefused, Undo, Stealing
    <3>2. empty[i] \in 0..NumNodes
      BY DEF Types
    <3>3. steal[i].at = "first" => empty[i] < NumNodes
      BY <3>1 DEF EmptyInv, Tiring, Stealing
    <3>4. steal[i].at = "first" => empty[i] + 1 \in 0..NumNodes
      BY <3>2, <3>3, Ring
    <3>5. empty' \in [Nodes -> 0..NumNodes]
      BY <2>6, <3>4 DEF StealRefused, Undo, Lose, Types
    <3>6. PICK place \in {"wait", "loop", "drain"} :
            pc' = [pc EXCEPT ![i] = place]
      BY <2>6 DEF StealRefused, Undo, Lose
    <3>7. pc' \in [Nodes -> Busy \cup Stealing \cup
                     {"drain", "ready", "loop", "took", "reload", "wait",
                      "woken", "done"}]
      BY <3>6 DEF Types
    <3>8. thief' \in [Nodes -> Nodes \cup {NoNode}]
      BY <2>6 DEF StealRefused, Undo, Types
    <3> QED BY <2>6, <3>5, <3>7, <3>8 DEF StealRefused, Undo, Types
  <2> QED BY <1>7, <2>1, <2>2, <2>3, <2>4, <2>5, <2>6 DEF SearchStep
<1> QED BY <1>1, <1>2, <1>3, <1>4, <1>5, <1>6, <1>7, Steps

\* The stacks of the other nodes stay, whatever the step.
LEMMA OwnStackStep ==
  ASSUME Types, StackInv, NEW i \in Nodes, NodeNext(i)
  PROVE  OwnStack(i)
<1>1. CASE Push(i)
  BY <1>1, PushMoves DEF Adds
<1>2. CASE Relieve(i) \/ Drain(i)
  BY <1>2, PullMoves DEF Relieve, Drain, Begins
<1>3. CASE Claim(i)
  BY <1>3, ClaimMoves DEF Begins
<1>4. CASE Return(i)
  BY <1>4, ReturnMoves DEF Ends
<1>5. CASE SignalStep(i) \/ SearchStep(i) \/ PlainStep(i) \/ LeafDone(i)
  BY <1>5, OnlyMoves DEF OwnStack, Types
<1> QED BY <1>1, <1>2, <1>3, <1>4, <1>5, Steps

\* The part of StackInv that is about one node.
StackAt(i) == /\ pc[i] \in Busy <=> stack[i] # <<>>
              /\ \A k \in DOMAIN stack[i] : k # 1 => stack[i][k].return = "body"
              /\ stack[i] # <<>> => stack[i][1].return # "body"
              /\ pc[i] \in Ending => Top(i).todo = <<>>

\* A task that begins on a node keeps its stack in order.
LEMMA BeginsStack ==
  ASSUME Types, StackInv, NEW i \in Nodes, NEW n, NEW h, NEW return,
         Begins(i, n, h, return), pc'[i] = "body",
         stack[i] = <<>> <=> return # "body"
  PROVE  StackAt(i)'
<1>1. n \in Nat /\ n = Len(stack[i]) /\ stack[i] \in Seq(Frames)
  BY DEF Begins, Deep, Types
<1>2. stack[i] = <<>> <=> n = 0
  BY <1>1, EmptySeq
<1>3. stack'[i][n + 1].return = return
  BY DEF Begins, Frame
<1>4. stack'[i][1].return # "body"
  <2>1. CASE n = 0
    BY <1>2, <1>3, <2>1
  <2>2. CASE n # 0
    BY <1>1, <1>2, <2>2 DEF Begins, StackInv
  <2> QED BY <2>1, <2>2
<1>5. ASSUME NEW k \in DOMAIN stack'[i], k # 1
      PROVE  stack'[i][k].return = "body"
  <2>1. CASE k = n + 1
    BY <1>1, <1>2, <1>3, <1>5, <2>1
  <2>2. CASE k # n + 1
    <3>1. k \in 1..n
      BY <1>1, <1>5, <2>2 DEF Begins
    <3> QED BY <1>5, <3>1 DEF Begins, Deep, StackInv
  <2> QED BY <2>1, <2>2
<1> QED BY <1>4, <1>5 DEF Begins, StackAt, Busy, Ending

\* A step that moves no task keeps it too.
LEMMA QuietStack ==
  ASSUME StackInv, NEW i \in Nodes, UNCHANGED stack,
         pc[i] \in Busy <=> pc'[i] \in Busy,
         pc'[i] \in Ending => pc[i] \in Ending \/ Top(i).todo = <<>>
  PROVE  StackAt(i)'
<1>1. Top(i)' = Top(i) /\ stack'[i] = stack[i]
  BY DEF Top
<1> QED BY <1>1 DEF StackInv, StackAt

\* StackInv is kept.
LEMMA StackStep ==
  ASSUME Types, StackInv, TodoInv, NEW i \in Nodes, NodeNext(i)
  PROVE  StackInv'
<1> USE DEF Goto, At
<1>1. ASSUME NEW j \in Nodes \ {i} PROVE StackAt(j)'
  <2>1. pc'[j] = pc[j] /\ stack'[j] = stack[j] /\ Top(j)' = Top(j)
    BY OnlyMoves, OwnStackStep DEF OwnStack, Top
  <2> QED BY <2>1 DEF StackInv, StackAt
<1>2. StackAt(i)'
  <2>1. CASE Push(i)
    <3>1. PICK n, h : Adds(i, n, h)
      BY <2>1, PushMoves
    <3>2. pc'[i] = "delegate" /\ stack[i] # <<>>
      BY <2>1 DEF Push, StackInv, Busy, Types
    <3>3. stack'[i] \in Seq(Frames) /\ Len(stack'[i]) = n /\ n \in Nat /\ n >= 1
      BY <3>1 DEF Adds, OwnStack, Deep
    <3>4. stack'[i] # <<>>
      BY <3>3, EmptySeq
    <3>5. \A k \in 1..n : stack'[i][k].return = stack[i][k].return
      BY <3>1, <3>3 DEF Adds
    <3>6. DOMAIN stack'[i] = 1..n /\ DOMAIN stack[i] = 1..n
      BY <3>1 DEF Adds, Deep
    <3>7. \A k \in DOMAIN stack'[i] : k # 1 => stack'[i][k].return = "body"
      BY <3>5, <3>6 DEF StackInv
    <3>8. stack'[i][1].return # "body"
      BY <3>2, <3>3, <3>5 DEF StackInv
    <3> QED BY <3>2, <3>4, <3>7, <3>8 DEF StackAt, Busy, Ending
  <2>2. CASE Relieve(i)
    <3>1. pc'[i] = "body" /\ stack[i] # <<>>
      BY <2>2 DEF Relieve, PullAndExecute, Execute, StackInv, Busy, Types
    <3>2. PICK n, h : Begins(i, n, h, "body")
      BY <2>2, PullMoves DEF Relieve
    <3> QED BY <3>1, <3>2, BeginsStack
  <2>3. CASE Drain(i)
    <3>1. pc'[i] = "body" /\ stack[i] = <<>>
      BY <2>3 DEF Drain, PullAndExecute, Execute, StackInv, Busy, Types
    <3>2. PICK n, h : Begins(i, n, h, "drain")
      BY <2>3, PullMoves DEF Drain
    <3> QED BY <3>1, <3>2, BeginsStack
  <2>4. CASE Claim(i)
    <3>1. pc'[i] = "body" /\ stack[i] = <<>>
      BY <2>4 DEF Claim, Execute, StackInv, Busy, Types
    <3>2. PICK return \in {"took", "drain"} :
            return = IF steal[i].at = "first" THEN "took" ELSE "drain"
      OBVIOUS
    <3>3. PICK n, h : Begins(i, n, h, return)
      BY <2>4, <3>2, ClaimMoves
    <3> QED BY <3>1, <3>2, <3>3, BeginsStack
  <2>5. CASE Return(i)
    <3>1. PICK n : /\ Ends(i, n) /\ stack[i][n] \in Frames
                   /\ pc' = [pc EXCEPT ![i] = stack[i][n].return]
      BY <2>5, ReturnMoves
    <3>2. /\ n \in Nat /\ n >= 1 /\ DOMAIN stack[i] = 1..n /\ stack[i] # <<>>
          /\ n \in DOMAIN stack[i] /\ pc'[i] = stack[i][n].return
      BY <2>5, <3>1 DEF Ends, Deep, Return, StackInv, Busy, Types
    <3>3. stack'[i] # <<>> <=> n # 1
      BY <3>1, <3>2, EmptySeq DEF Ends, OwnStack
    <3>4. \A k \in DOMAIN stack'[i] : k \in DOMAIN stack[i]
                                      /\ stack'[i][k] = stack[i][k]
      BY <3>1, <3>2 DEF Ends
    <3>5. n = 1 => pc'[i] \in {"drain", "took"}
      BY <3>1, <3>2 DEF StackInv, Frames
    <3>6. n # 1 => pc'[i] = "body"
      BY <3>1, <3>2 DEF StackInv
    <3>7. n # 1 => 1 \in DOMAIN stack'[i]
      BY <3>1, <3>2 DEF Ends
    <3>8. pc'[i] \notin Ending /\ (pc'[i] \in Busy <=> stack'[i] # <<>>)
      BY <3>3, <3>5, <3>6 DEF Busy, Ending
    <3>9. \A k \in DOMAIN stack'[i] : k # 1 => stack'[i][k].return = "body"
      BY <3>4 DEF StackInv
    <3>10. stack'[i] # <<>> => stack'[i][1].return # "body"
      BY <3>2, <3>3, <3>4, <3>7 DEF StackInv
    <3> QED BY <3>8, <3>9, <3>10 DEF StackAt
  <2>6. CASE LeafDone(i)
    <3>1. stack[i] # <<>>
      BY <2>6 DEF LeafDone, StackInv, Busy
    <3>2. Len(stack[i]) \in DOMAIN stack[i] /\ Top(i) = stack[i][Len(stack[i])]
      <4>1. stack[i] \in Seq(Frames)
        BY DEF Types
      <4> QED BY <3>1, <4>1, FrontOf DEF Top
    <3>3. Top(i).todo = <<>>
      BY <2>6, <3>2 DEF LeafDone, TodoInv
    <3> QED BY <2>6, <3>3, QuietStack DEF LeafDone, Busy, Ending, work, Types
  <2>7. CASE PlainStep(i)
    BY <2>7, QuietStack
       DEF PlainStep, PushFull, RelieveRefused, DelegateTest, OfferDeclined,
           WorkDone, Drained, Leave, Busy, Ending, work, Types
  <2>8. CASE SignalStep(i)
    BY <2>8, QuietStack
       DEF SignalStep, OfferTaken, Redirect, Pulse, Took, StopBegin, StopFlag,
           StopPulse, BecomeAvailable, WaitReturn, Busy, Ending, work, Types
  <2>9. CASE SearchStep(i)
    BY <2>9, QuietStack
       DEF SearchStep, StealNext, StealRefused, Lose, Announce, Miss, Undo,
           StealAgain, StealWoken, Busy, Ending, work, Types
  <2> QED BY <2>1, <2>2, <2>3, <2>4, <2>5, <2>6, <2>7, <2>8, <2>9, Steps
<1> QED
  <2>1. ASSUME NEW j \in Nodes PROVE StackAt(j)'
    BY <1>1, <1>2
  <2> QED BY <2>1 DEF StackInv, StackAt

-----------------------------------------------------------------------------
\* The search for work.

\* A step of a node leaves the search of the others alone.
LEMMA OwnSearch ==
  ASSUME Types, NEW i \in Nodes, NodeNext(i), NEW j \in Nodes \ {i}
  PROVE  /\ steal'[j] = steal[j] /\ empty'[j] = empty[j] /\ peer'[j] = peer[j]
         /\ pc'[j] = pc[j]
         /\ Tiring(j)' <=> Tiring(j)
<1>1. steal'[j] = steal[j] /\ empty'[j] = empty[j]
  <2>1. CASE Push(i) \/ Relieve(i) \/ Drain(i) \/ Claim(i) \/ Return(i)
             \/ LeafDone(i)
    BY <2>1 DEF Push, Relieve, Drain, PullAndExecute, Claim, Return, LeafDone,
                search
  <2>2. CASE PlainStep(i)
    BY <2>2 DEF PlainStep, PushFull, RelieveRefused, DelegateTest,
                OfferDeclined, WorkDone, Drained, Leave, search
  <2>3. CASE SignalStep(i)
    BY <2>3 DEF SignalStep, OfferTaken, Redirect, Pulse, Took, StopBegin,
                StopFlag, StopPulse, BecomeAvailable, WaitReturn, search, Types
  <2>4. CASE SearchStep(i)
    BY <2>4 DEF SearchStep, StealNext, StealRefused, Lose, Announce, Miss,
                Undo, StealAgain, StealWoken, search, Types
  <2> QED BY <2>1, <2>2, <2>3, <2>4, Steps
<1>2. peer'[j] = peer[j]
  <2>1. CASE Push(i) \/ Relieve(i) \/ Drain(i) \/ Claim(i) \/ Return(i)
             \/ LeafDone(i)
    BY <2>1 DEF Push, Relieve, Drain, PullAndExecute, Claim, Return, LeafDone,
                Types
  <2>2. CASE PlainStep(i)
    BY <2>2 DEF PlainStep, PushFull, RelieveRefused, DelegateTest,
                OfferDeclined, WorkDone, Drained, Leave, Types
  <2>3. CASE SignalStep(i)
    BY <2>3 DEF SignalStep, OfferTaken, Redirect, Pulse, Took, StopBegin,
                StopFlag, StopPulse, BecomeAvailable, WaitReturn, Types
  <2>4. CASE SearchStep(i)
    BY <2>4 DEF SearchStep, StealNext, StealRefused, Lose, Announce, Miss,
                Undo, StealAgain, StealWoken, Types
  <2> QED BY <2>1, <2>2, <2>3, <2>4, Steps
<1>3. pc'[j] = pc[j]
  BY OnlyMoves
<1> QED BY <1>1, <1>2, <1>3 DEF Tiring

\* The steps in the loop that ends with sleep.
TireStep(i) == \/ StealNext(i) \/ StealRefused(i) \/ Announce(i) \/ Miss(i)
               \/ Undo(i)

\* A node is in that loop only after it declared itself available, and after
\* steps that signal nothing.
LEMMA Tires ==
  ASSUME Types, StackInv, NEW i \in Nodes, NodeNext(i), Tiring(i)'
  PROVE  \/ BecomeAvailable(i)
         \/ /\ TireStep(i) /\ Tiring(i) /\ pc[i] # "wait"
            /\ pc[i] = "loop" => ~stopFlag[i]
            /\ pc'[i] # "loop" => pc[i] # "loop" \/ ~stopFlag[i]
            /\ UNCHANGED <<available, stealFrom, stopFlag, pulsed>>
<1> USE DEF Goto, At, Stealing
<1>1. CASE Push(i) \/ Relieve(i) \/ Drain(i) \/ Claim(i) \/ LeafDone(i)
  BY <1>1 DEF Push, Relieve, Drain, PullAndExecute, Execute, Claim, LeafDone,
              Tiring, Types
<1>2. CASE Return(i)
  <2>1. PICK n : /\ stack[i][n] \in Frames
                 /\ pc' = [pc EXCEPT ![i] = stack[i][n].return]
    BY <1>2, ReturnMoves
  <2>2. pc'[i] \in {"body", "drain", "took"}
    BY <2>1 DEF Frames, Types
  <2> QED BY <2>2 DEF Tiring
<1>3. CASE PlainStep(i)
  BY <1>3 DEF PlainStep, PushFull, RelieveRefused, DelegateTest,
              OfferDeclined, WorkDone, Drained, Leave, Tiring, Types
<1>4. CASE SignalStep(i)
  BY <1>4 DEF SignalStep, OfferTaken, Redirect, Pulse, Took, StopBegin,
              StopFlag, StopPulse, BecomeAvailable, WaitReturn, Tiring, Types
<1>5. CASE StealAgain(i) \/ StealWoken(i)
  BY <1>5 DEF StealAgain, StealWoken, Tiring, Types
<1>6. CASE TireStep(i)
  <2>1. CASE StealNext(i)
    BY <2>1 DEF StealNext, Tiring, Types, signals, TireStep
  <2>2. CASE Announce(i)
    BY <2>2 DEF Announce, Tiring, Types, signals, search, TireStep
  <2>3. CASE Miss(i)
    BY <2>3 DEF Miss, Tiring, Types, signals, search, TireStep
  <2>4. CASE StealRefused(i)
    BY <2>4 DEF StealRefused, Lose, Tiring, Types, signals, TireStep
  <2>5. CASE Undo(i)
    BY <2>5 DEF Undo, Lose, Tiring, Types, signals, TireStep
  <2> QED BY <1>6, <2>1, <2>2, <2>3, <2>4, <2>5 DEF TireStep
<1> QED BY <1>1, <1>2, <1>3, <1>4, <1>5, <1>6, Steps DEF SearchStep, TireStep

\* EmptyInv is kept.
LEMMA EmptyStep ==
  ASSUME Types, StackInv, EmptyInv, NEW i \in Nodes, NodeNext(i)
  PROVE  EmptyInv'
<1>1. ASSUME NEW j \in Nodes \ {i}, Tiring(j)', pc'[j] # "wait"
      PROVE  empty'[j] < NumNodes
  BY <1>1, OwnSearch DEF EmptyInv
<1>2. ASSUME Tiring(i)', pc'[i] # "wait" PROVE empty'[i] < NumNodes
  <2>1. CASE BecomeAvailable(i)
    BY <2>1, Ring DEF BecomeAvailable, Types
  <2>2. CASE TireStep(i) /\ Tiring(i) /\ pc[i] # "wait"
    <3>1. empty[i] < NumNodes /\ empty[i] \in Nat
      BY <2>2, Ring DEF EmptyInv, Types
    <3>2. CASE StealNext(i) \/ Announce(i) \/ Miss(i)
      BY <3>1, <3>2 DEF StealNext, Announce, Miss, search
    <3>3. CASE StealRefused(i) \/ Undo(i)
      <4>1. empty[i] + 1 = NumNodes => empty'[i] = empty[i] \/ pc'[i] = "wait"
        BY <3>3 DEF StealRefused, Undo, Lose, Types, Goto
      <4>2. empty'[i] = empty[i] \/ empty'[i] = empty[i] + 1
        BY <3>3 DEF StealRefused, Undo, Lose, Types
      <4> QED BY <1>2, <3>1, <4>1, <4>2, Ring
    <3> QED BY <2>2, <3>2, <3>3 DEF TireStep
  <2> QED BY <1>2, <2>1, <2>2, Tires
<1> QED BY <1>1, <1>2 DEF EmptyInv

\* TodoInv is kept.
LEMMA TodoStep ==
  ASSUME Types, StackInv, TodoInv, NEW i \in Nodes, NodeNext(i)
  PROVE  TodoInv'
<1> DEFINE Fit(frame) == /\ Distinct(frame.todo)
                         /\ frame.task \in Leaves => frame.todo = <<>>
<1>1. \A j \in Nodes : \A k \in DOMAIN stack[j] : Fit(stack[j][k])
  BY DEF TodoInv
<1>2. \A j \in Nodes \ {i} : stack'[j] = stack[j]
  BY OwnStackStep DEF OwnStack
<1>3. ASSUME NEW k \in DOMAIN stack'[i] PROVE Fit(stack'[i][k])
  <2>1. CASE Push(i)
    <3>1. PICK n, h : Adds(i, n, h)
      BY <2>1, PushMoves
    <3>2. n \in Nat /\ n >= 1 /\ DOMAIN stack[i] = 1..n /\ k \in 1..n
      BY <3>1 DEF Adds, Deep
    <3>3. CASE k # n
      BY <1>1, <3>1, <3>2, <3>3 DEF Adds
    <3>4. CASE k = n
      <4>1. Fit(stack[i][n])
        BY <1>1, <3>2
      <4>2. PICK todo \in Seq(Tasks) : todo = stack[i][n].todo /\ todo # <<>>
        BY <3>1 DEF Adds
      <4>3. Distinct(Tail(todo))
        <5>1. ASSUME NEW a \in DOMAIN Tail(todo), NEW b \in DOMAIN Tail(todo),
                     Tail(todo)[a] = Tail(todo)[b]
              PROVE  a = b
          <6>1. /\ a \in Int /\ b \in Int
                /\ a + 1 \in DOMAIN todo /\ b + 1 \in DOMAIN todo
                /\ Tail(todo)[a] = todo[a + 1] /\ Tail(todo)[b] = todo[b + 1]
            BY <4>2, TailOf
          <6>2. a + 1 = b + 1
            BY <4>1, <4>2, <5>1, <6>1 DEF Distinct
          <6> QED BY <6>1, <6>2
        <5> QED BY <5>1 DEF Distinct
      <4> QED BY <3>1, <3>4, <4>1, <4>2, <4>3 DEF Adds
    <3> QED BY <3>3, <3>4
  <2>2. ASSUME NEW n, NEW h, NEW return, Begins(i, n, h, return)
        PROVE  Fit(stack'[i][k])
    <3>1. n \in Nat /\ DOMAIN stack[i] = 1..n /\ k \in 1..(n + 1)
      BY <2>2 DEF Begins, Deep
    <3>2. CASE k # n + 1
      <4>1. k \in 1..n
        BY <3>1, <3>2
      <4> QED BY <1>1, <2>2, <3>1, <4>1 DEF Begins
    <3>3. CASE k = n + 1
      <4>1. /\ h \in Tasks /\ return \in {"body", "drain", "took"}
            /\ stack'[i][k] = Frame(h, return)
        BY <2>2, <3>3 DEF Begins
      <4> QED BY <4>1, FrameOf
    <3> QED BY <3>2, <3>3
  <2>3. CASE Relieve(i) \/ Drain(i)
    BY <2>2, <2>3, PullMoves DEF Relieve, Drain
  <2>4. CASE Claim(i)
    BY <2>2, <2>4, ClaimMoves
  <2>5. CASE Return(i)
    <3>1. PICK n : Ends(i, n)
      BY <2>5, ReturnMoves
    <3>2. k \in DOMAIN stack[i] /\ stack'[i][k] = stack[i][k]
      BY <3>1 DEF Ends, Deep
    <3> QED BY <1>1, <3>2
  <2>6. CASE SignalStep(i) \/ SearchStep(i) \/ PlainStep(i) \/ LeafDone(i)
    BY <1>1, <2>6, OnlyMoves
  <2> QED BY <2>1, <2>3, <2>4, <2>5, <2>6, Steps
<1> QED BY <1>1, <1>2, <1>3 DEF TodoInv

-----------------------------------------------------------------------------
\* Sleep, wakeups and the stop.

\* A node made available is so until somebody takes it at its word.
LEMMA AvailableStays ==
  ASSUME Types, NEW n \in Nodes, NodeNext(n), NEW i \in Nodes, available[i]
  PROVE  \/ available'[i]
         \/ Took(n) /\ n = i
         \/ pc'[n] = "redirect" /\ peer'[n] = i
<1> USE DEF Goto
<1>1. CASE Push(n) \/ Relieve(n) \/ Drain(n) \/ Claim(n) \/ Return(n)
           \/ LeafDone(n)
  BY <1>1 DEF Push, Relieve, Drain, PullAndExecute, Claim, Return, LeafDone,
              signals
<1>2. CASE PlainStep(n)
  BY <1>2 DEF PlainStep, PushFull, RelieveRefused, DelegateTest,
              OfferDeclined, WorkDone, Drained, Leave, signals
<1>3. CASE SearchStep(n)
  BY <1>3 DEF SearchStep, StealNext, StealRefused, Announce, Miss, Undo,
              StealAgain, StealWoken, signals
<1>4. CASE OfferTaken(n)
  BY <1>4 DEF OfferTaken, Types
<1>5. CASE Took(n)
  BY <1>5 DEF Took, Types
<1>6. CASE BecomeAvailable(n)
  BY <1>6 DEF BecomeAvailable, Types
<1>7. CASE SignalStep(n) /\ ~OfferTaken(n) /\ ~Took(n) /\ ~BecomeAvailable(n)
  BY <1>7 DEF SignalStep, Redirect, Pulse, StopBegin, StopFlag, StopPulse,
              WaitReturn
<1> QED BY <1>1, <1>2, <1>3, <1>4, <1>5, <1>6, <1>7, Steps

\* A pulse is kept until the node that waits for it returns.
LEMMA PulseStays ==
  ASSUME Types, NEW n \in Nodes, NodeNext(n), NEW i \in Nodes, pulsed[i]
  PROVE  pulsed'[i] \/ (WaitReturn(n) /\ n = i)
<1>1. CASE Push(n) \/ Relieve(n) \/ Drain(n) \/ Claim(n) \/ Return(n)
           \/ LeafDone(n)
  BY <1>1 DEF Push, Relieve, Drain, PullAndExecute, Claim, Return, LeafDone,
              signals
<1>2. CASE PlainStep(n)
  BY <1>2 DEF PlainStep, PushFull, RelieveRefused, DelegateTest,
              OfferDeclined, WorkDone, Drained, Leave, signals
<1>3. CASE SearchStep(n)
  BY <1>3 DEF SearchStep, StealNext, StealRefused, Announce, Miss, Undo,
              StealAgain, StealWoken, signals
<1>4. CASE Pulse(n)
  BY <1>4 DEF Pulse, Types
<1>5. CASE StopPulse(n)
  BY <1>5 DEF StopPulse, Types
<1>6. CASE WaitReturn(n)
  BY <1>6 DEF WaitReturn, Types
<1>7. CASE SignalStep(n) /\ ~Pulse(n) /\ ~StopPulse(n) /\ ~WaitReturn(n)
  BY <1>7 DEF SignalStep, OfferTaken, Redirect, Took, StopBegin, StopFlag,
              BecomeAvailable
<1> QED BY <1>1, <1>2, <1>3, <1>4, <1>5, <1>6, <1>7, Steps

\* WakeInv is kept.
LEMMA WakeStep ==
  ASSUME Types, StackInv, WakeInv, NEW n \in Nodes, NodeNext(n)
  PROVE  WakeInv'
<1> DEFINE Waker(j, i) == pc[j] \in {"redirect", "pulse"} /\ peer[j] = i
<1>1. ASSUME NEW i \in Nodes, Tiring(i)'
      PROVE  available'[i] \/ pulsed'[i] \/ \E j \in Nodes : Waker(j, i)'
  <2>1. ASSUME NEW j \in Nodes \ {n}, Waker(j, i) PROVE Waker(j, i)'
    BY <2>1, OwnSearch
  <2>2. CASE i = n
    <3>1. CASE BecomeAvailable(n)
      BY <2>2, <3>1 DEF BecomeAvailable, Types
    <3>2. CASE Tiring(n) /\ UNCHANGED <<available, pulsed>>
      <4>1. pc[n] \notin {"redirect", "pulse"}
        BY <3>2 DEF Tiring, Stealing
      <4>2. available[n] \/ pulsed[n] \/ \E j \in Nodes : Waker(j, n)
        BY <3>2 DEF WakeInv
      <4>3. ASSUME NEW j \in Nodes, Waker(j, n) PROVE Waker(j, i)'
        BY <2>1, <2>2, <4>1, <4>3
      <4> QED BY <2>2, <3>2, <4>2, <4>3
    <3> QED BY <1>1, <2>2, <3>1, <3>2, Tires
  <2>3. CASE i # n
    <3>1. Tiring(i)
      BY <1>1, <2>3, OwnSearch
    <3>2. CASE available[i]
      <4>1. CASE pc'[n] = "redirect" /\ peer'[n] = i
        BY <4>1
      <4> QED BY <2>3, <3>2, <4>1, AvailableStays
    <3>3. CASE pulsed[i]
      BY <2>3, <3>3, PulseStays
    <3>4. ASSUME Waker(n, i) PROVE Waker(n, i)' \/ pulsed'[i]
      <4>1. CASE Redirect(n)
        BY <3>4, <4>1 DEF Redirect, Goto, Types
      <4>2. CASE Pulse(n)
        BY <3>4, <4>2 DEF Pulse, Types
      <4>3. Redirect(n) \/ Pulse(n)
        BY <3>4 DEF NodeNext, At, Push, PushFull, Relieve, RelieveRefused,
             DelegateTest, OfferTaken, OfferDeclined, LeafDone, WorkDone,
             Return, StopBegin, StopFlag, StopPulse, Drain, Drained,
             BecomeAvailable, Leave, StealNext, StealRefused, Announce, Claim,
             Miss, Undo, Took, StealAgain, WaitReturn, StealWoken
      <4> QED BY <4>1, <4>2, <4>3
    <3>5. CASE \E j \in Nodes : Waker(j, i)
      BY <2>1, <3>4, <3>5
    <3> QED BY <3>1, <3>2, <3>3, <3>5 DEF WakeInv
  <2> QED BY <2>2, <2>3
<1> QED BY <1>1 DEF WakeInv

\* The stop flag of a node is set by the node that stops the scheduler.
LEMMA FlagSet ==
  ASSUME Types, NEW n \in Nodes, NodeNext(n), NEW i \in Nodes, stopFlag'[i]
  PROVE  \/ stopFlag[i]
         \/ StopBegin(n) /\ n = i
         \/ StopFlag(n) /\ peer[n] = i
<1>1. CASE Push(n) \/ Relieve(n) \/ Drain(n) \/ Claim(n) \/ Return(n)
           \/ LeafDone(n)
  BY <1>1 DEF Push, Relieve, Drain, PullAndExecute, Claim, Return, LeafDone,
              signals
<1>2. CASE PlainStep(n)
  BY <1>2 DEF PlainStep, PushFull, RelieveRefused, DelegateTest,
              OfferDeclined, WorkDone, Drained, Leave, signals
<1>3. CASE SearchStep(n)
  BY <1>3 DEF SearchStep, StealNext, StealRefused, Announce, Miss, Undo,
              StealAgain, StealWoken, signals
<1>4. CASE StopBegin(n)
  BY <1>4 DEF StopBegin, Types
<1>5. CASE StopFlag(n)
  BY <1>5 DEF StopFlag, Types
<1>6. CASE SignalStep(n) /\ ~StopBegin(n) /\ ~StopFlag(n)
  BY <1>6 DEF SignalStep, OfferTaken, Redirect, Pulse, Took, StopPulse,
              WaitReturn, BecomeAvailable
<1> QED BY <1>1, <1>2, <1>3, <1>4, <1>5, <1>6, Steps

\* StopInv is kept.
LEMMA StopStep ==
  ASSUME Types, StackInv, StopInv, NEW n \in Nodes, NodeNext(n)
  PROVE  StopInv'
<1> USE DEF Goto
<1> DEFINE Stopper(j, i) == pc[j] \in Stopping /\ peer[j] <= i
<1>1. ASSUME NEW i \in Nodes, stopFlag'[i], Tiring(i)', pc'[i] # "loop"
      PROVE  pulsed'[i] \/ \E j \in Nodes : Stopper(j, i)'
  <2>1. ASSUME NEW j \in Nodes \ {n}, Stopper(j, i) PROVE Stopper(j, i)'
    BY <2>1, OwnSearch
  <2>2. ~BecomeAvailable(n) \/ n # i
    BY <1>1 DEF BecomeAvailable, Types
  <2>3. ~WaitReturn(n) \/ n # i
    BY <1>1 DEF WaitReturn, Types, Tiring, Stealing
  <2>4. CASE ~stopFlag[i]
    <3>1. CASE StopBegin(n) /\ n = i
      BY <1>1, <3>1 DEF StopBegin, Types, Tiring, Stealing
    <3>2. CASE StopFlag(n) /\ peer[n] = i
      BY <3>2 DEF StopFlag, Types, Stopping, Nodes
    <3> QED BY <1>1, <2>4, <3>1, <3>2, FlagSet
  <2>5. CASE pulsed[i]
    BY <2>3, <2>5, PulseStays
  <2>6. ASSUME Stopper(n, i) PROVE Stopper(n, i)' \/ pulsed'[i]
    <3>1. CASE StopFlag(n)
      BY <2>6, <3>1 DEF StopFlag, Stopping, Types
    <3>2. CASE StopPulse(n)
      <4>1. peer[n] \in Nodes /\ peer[n] \in Int /\ i \in Int /\ i <= NumNodes - 1
        BY Ring DEF Types, Nodes
      <4>2. CASE peer[n] = i
        BY <3>2, <4>2 DEF StopPulse, Types
      <4>3. CASE peer[n] # i
        <5>1. peer[n] < i /\ peer[n] # NumNodes - 1
          BY <2>6, <4>1, <4>3, Ring
        <5>2. NextNode(peer[n]) # 0 /\ NextNode(peer[n]) = peer[n] + 1
          BY <4>1, <5>1, Ring
        <5>3. pc'[n] = "stopFlag" /\ peer'[n] = peer[n] + 1
          BY <3>2, <5>2 DEF StopPulse, Types
        <5> QED BY <4>1, <5>1, <5>3 DEF Stopping
      <4> QED BY <4>2, <4>3
    <3>3. StopFlag(n) \/ StopPulse(n)
      BY <2>6 DEF NodeNext, At, Push, PushFull, Relieve, RelieveRefused,
           DelegateTest, OfferTaken, OfferDeclined, Redirect, Pulse, LeafDone,
           WorkDone, Return, StopBegin, Drain, Drained, Stopping,
           BecomeAvailable, Leave, StealNext, StealRefused, Announce, Claim,
           Miss, Undo, Took, StealAgain, WaitReturn, StealWoken
    <3> QED BY <3>1, <3>2, <3>3
  <2>7. CASE \E j \in Nodes : Stopper(j, i)
    BY <2>1, <2>6, <2>7
  <2>8. CASE stopFlag[i] /\ (~Tiring(i) \/ pc[i] = "loop")
    <3>1. i = n
      BY <1>1, <2>8, OwnSearch
    <3>2. Tiring(n) /\ (pc[n] = "loop" => ~stopFlag[n])
      BY <1>1, <2>2, <3>1, Tires
    <3> QED BY <2>8, <3>1, <3>2
  <2> QED BY <2>4, <2>5, <2>7, <2>8 DEF StopInv
<1> QED BY <1>1 DEF StopInv

\* Only its owner makes a queue longer.
LEMMA OthersShorten ==
  ASSUME Types, StackInv, NEW n \in Nodes, NodeNext(n), NEW i \in Nodes \ {n}
  PROVE  Len(items'[i]) <= Len(items[i])
<1>1. Len(items[i]) \in Nat
  BY DEF Types
<1>2. CASE Push(n)
  <2>1. items'[i] = items[i]
    BY <1>2, PushMoves DEF QueueGets, OneQueue
  <2> QED BY <1>1, <2>1
<1>3. CASE Relieve(n) \/ Drain(n)
  <2>1. items'[i] = items[i]
    BY <1>3, PullMoves DEF Relieve, Drain, QueueLosesLast, OneQueue
  <2> QED BY <1>1, <2>1
<1>4. CASE Claim(n)
  <2>1. PICK h : QueueLosesFirst(steal[n].from, h)
    BY <1>4, ClaimMoves
  <2>2. CASE steal[n].from = i
    <3>1. items'[i] = Tail(items[i]) /\ items[i] # <<>> /\ items[i] \in Seq(Tasks)
      BY <2>1, <2>2 DEF QueueLosesFirst, Types
    <3>2. Len(Tail(items[i])) = Len(items[i]) - 1
      BY <3>1, TailOf
    <3> QED BY <1>1, <3>1, <3>2
  <2>3. CASE steal[n].from # i
    <3>1. items'[i] = items[i]
      BY <2>1, <2>3 DEF QueueLosesFirst, OneQueue
    <3> QED BY <1>1, <3>1
  <2> QED BY <2>2, <2>3
<1>5. CASE Return(n)
  BY <1>1, <1>5 DEF Return, queues
<1>6. CASE SignalStep(n) \/ SearchStep(n) \/ PlainStep(n) \/ LeafDone(n)
  BY <1>1, <1>6, OnlyMoves
<1> QED BY <1>2, <1>3, <1>4, <1>5, <1>6, Steps

\* Where a node has at most one task of its own.
Idle(i) == \/ pc[i] \in {"ready", "loop", "wait", "woken"}
           \/ pc[i] \in Stealing /\ steal[i].at # "second"

\* A node gets there when its queue is drained, and adds nothing there.
LEMMA Idles ==
  ASSUME Types, StackInv, NEW i \in Nodes, NodeNext(i), Idle(i)'
  PROVE  items'[i] = items[i] /\ (Idle(i) \/ Visible(i) <= 0)
<1> USE DEF Goto, At, Stealing
<1>1. CASE Push(i) \/ Relieve(i) \/ Drain(i) \/ Claim(i) \/ LeafDone(i)
  BY <1>1 DEF Push, Relieve, Drain, PullAndExecute, Execute, Claim, LeafDone,
              Idle, Types
<1>2. CASE Return(i)
  <2>1. PICK n : /\ stack[i][n] \in Frames
                 /\ pc' = [pc EXCEPT ![i] = stack[i][n].return]
    BY <1>2, ReturnMoves
  <2>2. pc'[i] \in {"body", "drain", "took"}
    BY <2>1 DEF Frames, Types
  <2> QED BY <2>2 DEF Idle
<1>3. CASE PlainStep(i)
  BY <1>3 DEF PlainStep, PushFull, RelieveRefused, DelegateTest,
              OfferDeclined, WorkDone, Drained, Leave, Idle, Types, queues
<1>4. CASE SignalStep(i)
  BY <1>4 DEF SignalStep, OfferTaken, Redirect, Pulse, Took, StopBegin,
              StopFlag, StopPulse, BecomeAvailable, WaitReturn, Idle, Types,
              queues
<1>5. CASE StealNext(i)
  BY <1>5 DEF StealNext, Idle, Types, queues
<1>6. CASE StealAgain(i) \/ StealWoken(i)
  BY <1>6 DEF StealAgain, StealWoken, Idle, Types, queues
<1>7. CASE Announce(i) \/ Miss(i)
  BY <1>7 DEF Announce, Miss, Idle, Types, queues, search
<1>8. CASE StealRefused(i)
  BY <1>8 DEF StealRefused, Lose, Idle, Types, queues
<1>9. CASE Undo(i)
  BY <1>9 DEF Undo, Lose, Idle, Types, queues
<1> QED BY <1>1, <1>2, <1>3, <1>4, <1>5, <1>6, <1>7, <1>8, <1>9, Steps
        DEF SearchStep

\* IdleInv is kept.
LEMMA IdleStep ==
  ASSUME Types, StackInv, EmptyInv, IdleInv, NEW n \in Nodes, NodeNext(n)
  PROVE  IdleInv'
<1>1. ASSUME NEW i \in Nodes, Idle(i)' PROVE Len(items'[i]) <= 1
  <2>1. Len(items[i]) \in Nat /\ Len(items[i]) = Len(items[i])
    BY DEF Types
  <2>2. CASE i = n
    <3>1. items'[i] = items[i] /\ (Idle(i) \/ Visible(i) <= 0)
      BY <1>1, <2>2, Idles
    <3>2. Visible(i) <= 0 => Len(items[i]) <= 1
      BY <2>1 DEF Visible
    <3> QED BY <3>1, <3>2 DEF IdleInv, Idle
  <2>3. CASE i # n
    <3>1. Idle(i)
      BY <1>1, <2>3, OwnSearch DEF Idle
    <3>2. Len(items[i]) <= 1
      BY <3>1 DEF IdleInv, Idle
    <3>3. Len(items'[i]) <= Len(items[i])
      BY <2>3, OthersShorten
    <3>4. Len(items'[i]) \in Nat
      <4>1. Types'
        BY TypesStep
      <4> QED BY <4>1 DEF Types
    <3> QED BY <2>1, <3>2, <3>3, <3>4
  <2> QED BY <2>2, <2>3
<1> QED BY <1>1 DEF IdleInv, Idle

-----------------------------------------------------------------------------
\* Places.

InQueue(t, i, k) == k \in DOMAIN items[i] /\ items[i][k] = t
OnStack(t, i, k) == k \in DOMAIN stack[i] /\ stack[i][k].task = t
ToDo(t, i, k) == k \in DOMAIN stack[i] /\ t \in Range(stack[i][k].todo)

Kinds == {"queue", "stack", "to do"}
Holds(t, i, a, k) == \/ a = "queue" /\ InQueue(t, i, k)
                     \/ a = "stack" /\ OnStack(t, i, k)
                     \/ a = "to do" /\ ToDo(t, i, k)

\* Placed, said without sets of places.
Held(t) == \E i \in Nodes, a \in Kinds, k \in Nat : Holds(t, i, a, k)
Single(t) == \A i, j \in Nodes, a, b \in Kinds, k, m \in Nat :
               Holds(t, i, a, k) /\ Holds(t, j, b, m) => i = j /\ a = b /\ k = m
PlacedOnce(t) == /\ Single(t)
                 /\ t \in Added <=> Held(t) \/ t \in finished
                 /\ t \in finished => ~Held(t)

\* A place is where the task is held.
LEMMA PlacesIs ==
  ASSUME Types, NEW t, NEW p
  PROVE  p \in Places(t) <=> \E i \in Nodes, a \in Kinds, k \in Nat :
                               Holds(t, i, a, k) /\ p = <<i, a, k>>
<1>1. \A i \in Nodes : DOMAIN items[i] \subseteq Nat /\ DOMAIN stack[i] \subseteq Nat
  BY DEF Types
<1>2. ASSUME p \in Places(t)
      PROVE  \E i \in Nodes, a \in Kinds, k \in Nat :
               Holds(t, i, a, k) /\ p = <<i, a, k>>
  <2>1. PICK i \in Nodes :
          \/ \E k \in DOMAIN items[i] : items[i][k] = t /\ p = <<i, "queue", k>>
          \/ \E k \in DOMAIN stack[i] :
               stack[i][k].task = t /\ p = <<i, "stack", k>>
          \/ \E k \in DOMAIN stack[i] :
               t \in Range(stack[i][k].todo) /\ p = <<i, "to do", k>>
    <3>1. PICK i \in Nodes :
            p \in {<<i, "queue", k>> : k \in {n \in DOMAIN items[i] : items[i][n] = t}}
                  \cup {<<i, "stack", k>> :
                          k \in {n \in DOMAIN stack[i] : stack[i][n].task = t}}
                  \cup {<<i, "to do", k>> :
                          k \in {n \in DOMAIN stack[i] :
                                   t \in Range(stack[i][n].todo)}}
      BY <1>2, Zenon DEF Places
    <3> QED BY <3>1
  <2>2. CASE \E k \in DOMAIN items[i] : items[i][k] = t /\ p = <<i, "queue", k>>
    <3>1. PICK k \in DOMAIN items[i] : items[i][k] = t /\ p = <<i, "queue", k>>
      BY <2>2
    <3>2. Holds(t, i, "queue", k) /\ k \in Nat /\ "queue" \in Kinds
      BY <1>1, <3>1 DEF Holds, InQueue, Kinds
    <3> QED BY <3>1, <3>2
  <2>3. CASE \E k \in DOMAIN stack[i] :
               stack[i][k].task = t /\ p = <<i, "stack", k>>
    <3>1. PICK k \in DOMAIN stack[i] :
            stack[i][k].task = t /\ p = <<i, "stack", k>>
      BY <2>3
    <3>2. Holds(t, i, "stack", k) /\ k \in Nat /\ "stack" \in Kinds
      BY <1>1, <3>1 DEF Holds, OnStack, Kinds
    <3> QED BY <3>1, <3>2
  <2>4. CASE \E k \in DOMAIN stack[i] :
               t \in Range(stack[i][k].todo) /\ p = <<i, "to do", k>>
    <3>1. PICK k \in DOMAIN stack[i] :
            t \in Range(stack[i][k].todo) /\ p = <<i, "to do", k>>
      BY <2>4
    <3>2. Holds(t, i, "to do", k) /\ k \in Nat /\ "to do" \in Kinds
      BY <1>1, <3>1 DEF Holds, ToDo, Kinds
    <3> QED BY <3>1, <3>2
  <2> QED BY <2>1, <2>2, <2>3, <2>4
<1>3. ASSUME NEW i \in Nodes, NEW a \in Kinds, NEW k \in Nat,
             Holds(t, i, a, k), p = <<i, a, k>>
      PROVE  p \in Places(t)
  <2>1. CASE a = "queue"
    BY <1>3, <2>1 DEF Holds, InQueue, Places
  <2>2. CASE a = "stack"
    BY <1>3, <2>2 DEF Holds, OnStack, Places
  <2>3. CASE a = "to do"
    <3>1. k \in {n \in DOMAIN stack[i] : t \in Range(stack[i][n].todo)}
      BY <1>3, <2>3 DEF Holds, ToDo
    <3>2. p \in {<<i, "to do", m>> : m \in {n \in DOMAIN stack[i] :
                                              t \in Range(stack[i][n].todo)}}
      BY <1>3, <2>3, <3>1
    <3> DEFINE Here(j) ==
          {<<j, "queue", m>> : m \in {n \in DOMAIN items[j] : items[j][n] = t}}
          \cup {<<j, "stack", m>> :
                  m \in {n \in DOMAIN stack[j] : stack[j][n].task = t}}
          \cup {<<j, "to do", m>> :
                  m \in {n \in DOMAIN stack[j] : t \in Range(stack[j][n].todo)}}
    <3>3. p \in Here(i)
      BY <3>2
    <3>4. Places(t) = UNION {Here(j) : j \in Nodes}
      BY DEF Places
    <3> HIDE DEF Here
    <3> QED BY <3>3, <3>4
  <2> QED BY <2>1, <2>2, <2>3 DEF Kinds
<1> QED BY <1>2, <1>3

\* The two ways to say it agree.
LEMMA PlacedIs ==
  ASSUME Types, NEW t
  PROVE  Placed(t) <=> PlacedOnce(t)
<1>1. Places(t) # {} <=> Held(t)
  <2>1. ASSUME NEW p \in Places(t) PROVE Held(t)
    BY PlacesIs DEF Held
  <2>2. ASSUME NEW i \in Nodes, NEW a \in Kinds, NEW k \in Nat,
               Holds(t, i, a, k)
        PROVE  <<i, a, k>> \in Places(t)
    BY <2>2, PlacesIs
  <2> QED BY <2>1, <2>2 DEF Held
<1>2. (\A p, q \in Places(t) : p = q) <=> Single(t)
  <2>1. ASSUME \A p, q \in Places(t) : p = q,
               NEW i \in Nodes, NEW a \in Kinds, NEW k \in Nat,
               NEW j \in Nodes, NEW b \in Kinds, NEW m \in Nat,
               Holds(t, i, a, k), Holds(t, j, b, m)
        PROVE  i = j /\ a = b /\ k = m
    <3>1. <<i, a, k>> \in Places(t) /\ <<j, b, m>> \in Places(t)
      BY <2>1, PlacesIs
    <3>2. <<i, a, k>> = <<j, b, m>>
      BY <2>1, <3>1
    <3> QED BY <3>2
  <2>2. ASSUME Single(t), NEW p \in Places(t), NEW q \in Places(t)
        PROVE  p = q
    <3>1. PICK i \in Nodes, a \in Kinds, k \in Nat :
            Holds(t, i, a, k) /\ p = <<i, a, k>>
      BY PlacesIs
    <3>2. PICK j \in Nodes, b \in Kinds, m \in Nat :
            Holds(t, j, b, m) /\ q = <<j, b, m>>
      BY PlacesIs
    <3>3. i = j /\ a = b /\ k = m
      BY <2>2, <3>1, <3>2 DEF Single
    <3> QED BY <3>1, <3>2, <3>3
  <2> QED BY <2>1, <2>2 DEF Single
<1> QED BY <1>1, <1>2 DEF Placed, PlacedOnce

\* A task that stays where it is, perhaps nearer to the head of its queue,
\* keeps its one place.
Stays(t, shift) ==
  /\ \A j \in Nodes, k \in Nat :
       /\ InQueue(t, j, k)' <=> InQueue(t, j, k + shift[j])
       /\ InQueue(t, j, k) => k - shift[j] \in Nat
       /\ OnStack(t, j, k)' <=> OnStack(t, j, k)
       /\ ToDo(t, j, k)' <=> ToDo(t, j, k)
  /\ t \in Added' <=> t \in Added
  /\ t \in finished' <=> t \in finished

\* Such a task is placed as before.
LEMMA StaysPlaced ==
  ASSUME NEW t, NEW shift \in [Nodes -> {0, 1}], Stays(t, shift), PlacedOnce(t)
  PROVE  PlacedOnce(t)'
<1> DEFINE From(j, a, k) == IF a = "queue" THEN k + shift[j] ELSE k
<1>1. ASSUME NEW j \in Nodes, NEW a \in Kinds, NEW k \in Nat
      PROVE  /\ From(j, a, k) \in Nat
             /\ Holds(t, j, a, k)' <=> Holds(t, j, a, From(j, a, k))
  <2>1. CASE a = "queue"
    <3>1. From(j, a, k) = k + shift[j] /\ From(j, a, k) \in Nat
      BY <2>1
    <3>2. InQueue(t, j, k)' <=> InQueue(t, j, k + shift[j])
      BY DEF Stays
    <3> QED BY <2>1, <3>1, <3>2 DEF Holds
  <2>2. CASE a # "queue"
    <3>1. From(j, a, k) = k
      BY <2>2
    <3>2. /\ OnStack(t, j, k)' <=> OnStack(t, j, k)
          /\ ToDo(t, j, k)' <=> ToDo(t, j, k)
      BY DEF Stays
    <3> QED BY <2>2, <3>1, <3>2 DEF Holds
  <2> QED BY <2>1, <2>2
<1>2. ASSUME NEW j \in Nodes, NEW a \in Kinds, NEW k \in Nat, Holds(t, j, a, k)
      PROVE  \E m \in Nat : Holds(t, j, a, m)'
  <2>1. CASE a = "queue"
    <3>1. PICK m \in Nat : m = k - shift[j]
      BY <1>2, <2>1 DEF Holds, Stays
    <3>2. From(j, a, m) = k
      BY <2>1, <3>1
    <3> QED BY <1>1, <1>2, <3>2
  <2>2. CASE a # "queue"
    <3>1. From(j, a, k) = k
      BY <2>2
    <3> QED BY <1>1, <1>2, <3>1
  <2> QED BY <2>1, <2>2
<1>3. Single(t)'
  <2>1. ASSUME NEW i \in Nodes, NEW a \in Kinds, NEW k \in Nat,
               NEW j \in Nodes, NEW b \in Kinds, NEW m \in Nat,
               Holds(t, i, a, k)', Holds(t, j, b, m)'
        PROVE  i = j /\ a = b /\ k = m
    <3>1. i = j /\ a = b /\ From(i, a, k) = From(j, b, m)
      BY <1>1, <2>1 DEF PlacedOnce, Single
    <3> QED BY <3>1
  <2> QED BY <2>1 DEF Single
<1>4. Held(t)' <=> Held(t)
  BY <1>1, <1>2 DEF Held
<1> QED BY <1>3, <1>4 DEF PlacedOnce, Stays

\* A task that has one place is placed.
LEMMA OnePlace ==
  ASSUME NEW t, NEW i \in Nodes, NEW a \in Kinds, NEW k \in Nat,
         \A j \in Nodes, b \in Kinds, m \in Nat :
           Holds(t, j, b, m)' <=> j = i /\ b = a /\ m = k,
         t \in Added', t \notin finished'
  PROVE  PlacedOnce(t)'
<1>1. Single(t)'
  BY DEF Single
<1>2. Held(t)'
  BY DEF Held
<1> QED BY <1>1, <1>2 DEF PlacedOnce

\* Who has begun, and who was added, before and after a step.
Begun(t) == t \in finished \/ \E i \in Nodes : \E k : OnStack(t, i, k)

\* Started and Added, by who has begun.
LEMMA StartedIs ==
  ASSUME NEW t
  PROVE  /\ t \in Started <=> t \in Tasks /\ Begun(t)
         /\ t \in Started' <=> t \in Tasks /\ Begun(t)'
BY DEF Started, OnStack, Begun

\* A task is added by its parent, or is the root.
LEMMA AddedIs ==
  ASSUME NEW t
  PROVE  /\ t \in Added <=>
              t = Root \/ \E q \in Tasks : Begun(q) /\ t \in Range(Spawns[q])
         /\ t \in Added' <=>
              t = Root \/ \E q \in Tasks : Begun(q)' /\ t \in Range(Spawns[q])
BY StartedIs DEF Added

\* A task has one parent, and the root none.
LEMMA OneParent ==
  ASSUME NEW p \in Tasks, NEW q \in Tasks, NEW t \in Range(Spawns[p])
  PROVE  t \in Tasks /\ t # Root /\ (t \in Range(Spawns[q]) => p = q)
<1>1. Spawns[p] \in Seq(Tasks \ {Root})
  BY TreeAssumption
<1>2. PICK k \in DOMAIN Spawns[p] : t = Spawns[p][k]
  BY DEF Range
<1>3. t \in Tasks \ {Root}
  BY <1>1, <1>2
<1>4. ASSUME t \in Range(Spawns[q]) PROVE p = q
  <2>1. PICK m \in DOMAIN Spawns[q] : t = Spawns[q][m]
    BY <1>4 DEF Range
  <2> QED BY <1>2, <2>1, TreeAssumption
<1> QED BY <1>3, <1>4

\* The other elements of a sequence without repetitions.
LEMMA RangeTail ==
  ASSUME NEW S, NEW s \in Seq(S), s # <<>>, Distinct(s), NEW x
  PROVE  /\ Head(s) \in Range(s)
         /\ x \in Range(Tail(s)) <=> x \in Range(s) /\ x # Head(s)
<1>1. PICK n \in Nat : n = Len(s) /\ n >= 1
  BY TailOf
<1>2. /\ Head(s) = s[1] /\ DOMAIN s = 1..n /\ DOMAIN Tail(s) = 1..(n - 1)
      /\ \A k \in 1..(n - 1) : Tail(s)[k] = s[k + 1]
  BY <1>1, TailOf
<1>3. ASSUME x \in Range(Tail(s)) PROVE x \in Range(s) /\ x # Head(s)
  <2>1. PICK k \in 1..(n - 1) : x = s[k + 1]
    BY <1>2, <1>3 DEF Range
  <2>2. k + 1 \in 1..n /\ 1 \in 1..n /\ k + 1 # 1
    BY <1>1
  <2> QED BY <1>2, <2>1, <2>2 DEF Range, Distinct
<1>4. ASSUME x \in Range(s), x # Head(s) PROVE x \in Range(Tail(s))
  <2>1. PICK k \in 1..n : x = s[k]
    BY <1>2, <1>4 DEF Range
  <2>2. k # 1
    BY <1>2, <1>4, <2>1
  <2>3. PICK a \in 1..(n - 1) : k = a + 1
    BY <1>1, <2>2
  <2> QED BY <1>2, <2>1, <2>3 DEF Range
<1> QED BY <1>1, <1>2, <1>3, <1>4 DEF Range

\* A step that moves no task.
LEMMA QuietPlaced ==
  ASSUME PlacedInv, UNCHANGED <<items, stack, finished>>
  PROVE  PlacedInv'
<1>1. Added' = Added
  BY DEF Added, Started
<1>2. ASSUME NEW t \in Tasks PROVE Placed(t)'
  <2>1. Places(t)' = Places(t)
    BY DEF Places
  <2> QED BY <1>1, <2>1 DEF PlacedInv, Placed
<1> QED BY <1>2 DEF PlacedInv

\* A task that a task has yet to add goes to the end of the queue.
LEMMA PushPlaced ==
  ASSUME Types, StackInv, TodoInv, PlacedInv, NEW i \in Nodes, Push(i),
         NEW t \in Tasks
  PROVE  PlacedOnce(t)'
<1>1. PICK n, h : Adds(i, n, h) /\ QueueGets(i, h) /\ finished' = finished
  BY PushMoves
<1>2. /\ n \in Nat /\ n >= 1 /\ DOMAIN stack[i] = 1..n /\ DOMAIN stack'[i] = 1..n
      /\ h \in Tasks
  BY <1>1 DEF Adds, Deep
<1>3. ASSUME NEW j \in Nodes, NEW k, NEW x
      PROVE  OnStack(x, j, k)' <=> OnStack(x, j, k)
  BY <1>1, <1>2 DEF Adds, OwnStack, OnStack
<1>4. PICK todo \in Seq(Tasks) : todo = stack[i][n].todo /\ todo # <<>>
                                 /\ h = Head(todo) /\ Distinct(todo)
  BY <1>1, <1>2 DEF Adds, TodoInv
<1>5. ASSUME NEW j \in Nodes, NEW k
      PROVE  ToDo(t, j, k)' <=> ToDo(t, j, k) /\ ~(t = h /\ j = i /\ k = n)
  <2>1. CASE j = i /\ k = n
    <3>1. stack'[i][n].todo = Tail(todo)
      BY <1>1, <1>4 DEF Adds
    <3>2. t \in Range(Tail(todo)) <=> t \in Range(todo) /\ t # h
      BY <1>4, RangeTail
    <3> QED BY <1>2, <1>4, <2>1, <3>1, <3>2 DEF ToDo
  <2>2. CASE j = i /\ k # n
    BY <1>1, <1>2, <2>2 DEF Adds, ToDo
  <2>3. CASE j # i
    BY <1>1, <2>3 DEF Adds, OwnStack, ToDo
  <2> QED BY <2>1, <2>2, <2>3
<1>6. PICK m \in Nat : m = Len(items[i]) /\ DOMAIN items[i] = 1..m
  BY DEF Types
<1>7. ASSUME NEW j \in Nodes, NEW k \in Nat
      PROVE  InQueue(t, j, k)' <=> \/ InQueue(t, j, k)
                                   \/ t = h /\ j = i /\ k = m + 1
  <2>1. CASE j = i
    <3>1. /\ items'[i] = Append(items[i], h) /\ items[i] \in Seq(Tasks)
      BY <1>1 DEF QueueGets, Types
    <3>2. /\ DOMAIN items'[i] = 1..(m + 1) /\ items'[i][m + 1] = h
          /\ \A a \in 1..m : items'[i][a] = items[i][a]
      BY <1>2, <1>6, <3>1, AppendOf
    <3>3. k \in 1..(m + 1) <=> k \in 1..m \/ k = m + 1
      OBVIOUS
    <3>4. m + 1 \notin 1..m
      OBVIOUS
    <3> QED BY <1>6, <2>1, <3>2, <3>3, <3>4 DEF InQueue
  <2>2. CASE j # i
    BY <1>1, <2>2 DEF QueueGets, OneQueue, InQueue
  <2> QED BY <2>1, <2>2
<1>8. \A x : Begun(x)' <=> Begun(x)
  BY <1>1, <1>3 DEF Begun
<1>9. t \in Added' <=> t \in Added
  BY <1>8, AddedIs
<1>10. PlacedOnce(t)
  BY PlacedIs DEF PlacedInv
<1>11. CASE t # h
  <2>1. PICK shift \in [Nodes -> {0, 1}] : \A j \in Nodes : shift[j] = 0
    <3>1. [j \in Nodes |-> 0] \in [Nodes -> {0, 1}]
      OBVIOUS
    <3> QED BY <3>1
  <2>2. Stays(t, shift)
    BY <1>1, <1>3, <1>5, <1>7, <1>9, <1>11, <2>1 DEF Stays
  <2> QED BY <1>10, <2>2, StaysPlaced
<1>12. CASE t = h
  <2>1. ToDo(t, i, n)
    BY <1>2, <1>4, <1>12, RangeTail DEF ToDo
  <2>2. Holds(t, i, "to do", n) /\ "to do" \in Kinds
    BY <2>1 DEF Holds, Kinds
  <2>3. t \in Added /\ t \notin finished
    BY <1>2, <1>10, <2>2 DEF PlacedOnce, Held
  <2>4. ASSUME NEW j \in Nodes, NEW b \in Kinds, NEW k \in Nat
        PROVE  Holds(t, j, b, k)' <=> j = i /\ b = "queue" /\ k = m + 1
    <3>1. Holds(t, j, b, k) => j = i /\ b = "to do" /\ k = n
      BY <1>2, <1>10, <2>2 DEF PlacedOnce, Single
    <3>2. CASE b = "queue"
      BY <1>7, <1>12, <3>1, <3>2 DEF Holds
    <3>3. CASE b = "stack"
      BY <1>3, <3>1, <3>3 DEF Holds
    <3>4. CASE b = "to do"
      BY <1>5, <1>12, <3>1, <3>4 DEF Holds
    <3> QED BY <3>2, <3>3, <3>4 DEF Kinds
  <2>5. "queue" \in Kinds /\ m + 1 \in Nat
    BY DEF Kinds
  <2> QED BY <1>1, <1>9, <2>3, <2>4, <2>5, OnePlace
<1> QED BY <1>11, <1>12

\* The queue from which h is taken loses it, and keeps the other tasks.
Loses(from, h, shift) ==
  /\ \E m \in Nat : InQueue(h, from, m)
  /\ \A j \in Nodes, k \in Nat : ~InQueue(h, j, k)'
  /\ \A t \in Tasks \ {h}, j \in Nodes, k \in Nat :
       /\ InQueue(t, j, k)' <=> InQueue(t, j, k + shift[j])
       /\ InQueue(t, j, k) => k - shift[j] \in Nat

\* A task that begins was in a queue, and the tasks it adds were nowhere.
LEMMA BeginsPlaced ==
  ASSUME Types, PlacedInv, NEW i \in Nodes, NEW n, NEW h, NEW return,
         Begins(i, n, h, return), NEW from \in Nodes,
         NEW shift \in [Nodes -> {0, 1}], Loses(from, h, shift),
         finished' = finished, NEW t \in Tasks
  PROVE  PlacedOnce(t)'
<1>1. /\ n \in Nat /\ h \in Tasks /\ DOMAIN stack[i] = 1..n
      /\ DOMAIN stack'[i] = 1..(n + 1)
      /\ stack'[i][n + 1].task = h /\ stack'[i][n + 1].todo = Spawns[h]
  <2>1. /\ n \in Nat /\ h \in Tasks /\ DOMAIN stack[i] = 1..n
        /\ DOMAIN stack'[i] = 1..(n + 1)
        /\ stack'[i][n + 1] = Frame(h, return)
        /\ return \in {"body", "drain", "took"}
    BY DEF Begins, Deep
  <2>2. h # Run
    BY <2>1, TreeAssumption DEF Run
  <2> QED BY <2>1, <2>2, FrameOf
<1>2. ASSUME NEW x \in Tasks PROVE PlacedOnce(x)
  BY PlacedIs DEF PlacedInv
<1>3. PICK m \in Nat : Holds(h, from, "queue", m)
  BY DEF Loses, Holds
<1>4. /\ h \in Added /\ h \notin finished /\ "queue" \in Kinds
      /\ \A j \in Nodes, b \in Kinds, k \in Nat :
           Holds(h, j, b, k) => j = from /\ b = "queue" /\ k = m
  <2>1. "queue" \in Kinds
    BY DEF Kinds
  <2> QED BY <1>1, <1>2, <1>3, <2>1 DEF PlacedOnce, Single, Held
<1>5. ~Begun(h)
  <2>1. ASSUME NEW j \in Nodes, NEW k, OnStack(h, j, k) PROVE FALSE
    <3>1. Holds(h, j, "stack", k) /\ "stack" \in Kinds /\ k \in Nat
      BY <2>1 DEF Holds, Kinds, OnStack, Types
    <3> QED BY <1>4, <3>1
  <2> QED BY <1>4, <2>1 DEF Begun
<1>6. ASSUME NEW j \in Nodes, NEW k, NEW x
      PROVE  /\ OnStack(x, j, k)' <=> \/ OnStack(x, j, k)
                                      \/ x = h /\ j = i /\ k = n + 1
             /\ ToDo(x, j, k)' <=> \/ ToDo(x, j, k)
                                   \/ x \in Range(Spawns[h]) /\ j = i /\ k = n + 1
  <2>1. CASE j = i /\ k = n + 1
    <3>1. k \in DOMAIN stack'[i] /\ k \notin DOMAIN stack[i]
      BY <1>1, <2>1
    <3> QED BY <1>1, <2>1, <3>1 DEF OnStack, ToDo
  <2>2. CASE j = i /\ k # n + 1
    <3>1. /\ k \in DOMAIN stack'[i] <=> k \in DOMAIN stack[i]
          /\ k \in DOMAIN stack[i] => stack'[i][k] = stack[i][k]
      BY <1>1, <2>2 DEF Begins
    <3> QED BY <2>2, <3>1 DEF OnStack, ToDo
  <2>3. CASE j # i
    BY <2>3 DEF Begins, OwnStack, OnStack, ToDo
  <2> QED BY <2>1, <2>2, <2>3
<1>7. \A x : Begun(x)' <=> Begun(x) \/ x = h
  BY <1>6 DEF Begun
<1>8. \A x : x \in Added' <=> x \in Added \/ x \in Range(Spawns[h])
  BY <1>1, <1>7, AddedIs
<1>9. ASSUME NEW c \in Range(Spawns[h]) PROVE c \in Tasks /\ c \notin Added
  <2>1. c \in Tasks /\ c # Root
        /\ \A q \in Tasks : c \in Range(Spawns[q]) => q = h
    BY <1>1, OneParent
  <2> QED BY <1>5, <2>1, AddedIs
<1>10. h \notin Range(Spawns[h])
  BY <1>4, <1>9
<1>11. CASE t = h
  <2>1. ASSUME NEW j \in Nodes, NEW b \in Kinds, NEW k \in Nat
        PROVE  Holds(t, j, b, k)' <=> j = i /\ b = "stack" /\ k = n + 1
    <3>1. Holds(h, j, b, k) => b = "queue"
      BY <1>4
    <3>2. CASE b = "queue"
      BY <1>11, <3>2 DEF Holds, Loses
    <3>3. CASE b = "stack"
      BY <1>6, <1>11, <3>1, <3>3 DEF Holds
    <3>4. CASE b = "to do"
      BY <1>6, <1>10, <1>11, <3>1, <3>4 DEF Holds
    <3> QED BY <3>2, <3>3, <3>4 DEF Kinds
  <2>2. "stack" \in Kinds /\ n + 1 \in Nat
    BY <1>1 DEF Kinds
  <2>3. t \in Added' /\ t \notin finished'
    BY <1>4, <1>8, <1>11
  <2>4. PICK l \in Nat : l = n + 1
    BY <2>2
  <2>5. \A j \in Nodes, b \in Kinds, k \in Nat :
          Holds(t, j, b, k)' <=> j = i /\ b = "stack" /\ k = l
    BY <2>1, <2>4
  <2> QED BY <2>2, <2>3, <2>5, OnePlace
<1>12. CASE t \in Range(Spawns[h])
  <2>1. t # h /\ t \notin Added /\ t \notin finished /\ ~Held(t)
    BY <1>2, <1>9, <1>10, <1>12 DEF PlacedOnce
  <2>2. ASSUME NEW j \in Nodes, NEW b \in Kinds, NEW k \in Nat
        PROVE  Holds(t, j, b, k)' <=> j = i /\ b = "to do" /\ k = n + 1
    <3>1. \A l \in Nat : ~Holds(t, j, b, l)
      BY <2>1 DEF Held
    <3>2. CASE b = "queue"
      <4>1. k + shift[j] \in Nat
        OBVIOUS
      <4>2. InQueue(t, j, k)' <=> InQueue(t, j, k + shift[j])
        BY <2>1 DEF Loses
      <4> QED BY <3>1, <3>2, <4>1, <4>2 DEF Holds
    <3>3. CASE b = "stack"
      <4>1. ~OnStack(t, j, k)
        BY <3>1, <3>3 DEF Holds
      <4> QED BY <1>6, <2>1, <3>3, <4>1 DEF Holds
    <3>4. CASE b = "to do"
      <4>1. ~ToDo(t, j, k)
        BY <3>1, <3>4 DEF Holds
      <4>2. ToDo(t, j, k)' <=> j = i /\ k = n + 1
        BY <1>6, <1>12, <4>1
      <4> QED BY <3>4, <4>2 DEF Holds
    <3> QED BY <3>2, <3>3, <3>4 DEF Kinds
  <2>3. "to do" \in Kinds /\ n + 1 \in Nat
    BY <1>1 DEF Kinds
  <2> QED BY <1>8, <1>12, <2>1, <2>2, <2>3, OnePlace
<1>13. CASE t # h /\ t \notin Range(Spawns[h])
  <2>1. \A j \in Nodes, k \in Nat :
          /\ OnStack(t, j, k)' <=> OnStack(t, j, k)
          /\ ToDo(t, j, k)' <=> ToDo(t, j, k)
    BY <1>6, <1>13
  <2>2. \A j \in Nodes, k \in Nat :
          /\ InQueue(t, j, k)' <=> InQueue(t, j, k + shift[j])
          /\ InQueue(t, j, k) => k - shift[j] \in Nat
    BY <1>13 DEF Loses
  <2>3. Stays(t, shift)
    BY <1>8, <1>13, <2>1, <2>2 DEF Stays
  <2> QED BY <1>2, <2>3, StaysPlaced
<1> QED BY <1>11, <1>12, <1>13

\* A task in a queue is there once.
LEMMA QueuedOnce ==
  ASSUME Types, PlacedInv, NEW h \in Tasks, NEW i \in Nodes, NEW k \in Nat,
         InQueue(h, i, k), NEW j \in Nodes, NEW m \in Nat, InQueue(h, j, m)
  PROVE  i = j /\ k = m
<1>1. PlacedOnce(h) /\ "queue" \in Kinds
  BY PlacedIs DEF PlacedInv, Kinds
<1>2. Holds(h, i, "queue", k) /\ Holds(h, j, "queue", m)
  BY DEF Holds
<1> QED BY <1>1, <1>2 DEF PlacedOnce, Single

\* unique_pull takes its task out of the queue and leaves the others in place;
LEMMA LastLoses ==
  ASSUME Types, PlacedInv, NEW i \in Nodes, NEW h, QueueLosesLast(i, h)
  PROVE  h \in Tasks /\ \E shift \in [Nodes -> {0, 1}] : Loses(i, h, shift)
<1>1. PICK shift \in [Nodes -> {0, 1}] : \A j \in Nodes : shift[j] = 0
  <2>1. [j \in Nodes |-> 0] \in [Nodes -> {0, 1}]
    OBVIOUS
  <2> QED BY <2>1
<1>2. /\ h \in Tasks /\ items[i] \in Seq(Tasks) /\ items[i] # <<>>
      /\ h = Last(items[i]) /\ items'[i] = Front(items[i])
  BY DEF QueueLosesLast, Types
<1>3. PICK m \in Nat : m = Len(items[i]) /\ m >= 1
  BY <1>2, FrontOf
<1>4. /\ DOMAIN items[i] = 1..m /\ items[i][m] = h
      /\ DOMAIN items'[i] = 1..(m - 1)
      /\ \A k \in 1..(m - 1) : items'[i][k] = items[i][k]
  BY <1>2, <1>3, FrontOf
<1>5. InQueue(h, i, m)
  BY <1>3, <1>4 DEF InQueue
<1>6. ASSUME NEW j \in Nodes, NEW k \in Nat, NEW t
      PROVE  InQueue(t, j, k)' <=> InQueue(t, j, k) /\ ~(j = i /\ k = m)
  <2>1. CASE j = i
    <3>1. k \in 1..(m - 1) <=> k \in 1..m /\ k # m
      BY <1>3
    <3> QED BY <1>4, <2>1, <3>1 DEF InQueue
  <2>2. CASE j # i
    BY <2>2 DEF QueueLosesLast, OneQueue, InQueue
  <2> QED BY <2>1, <2>2
<1>7. \A j \in Nodes, k \in Nat : ~InQueue(h, j, k)'
  BY <1>2, <1>5, <1>6, QueuedOnce
<1>8. ASSUME NEW t \in Tasks \ {h}, NEW j \in Nodes, NEW k \in Nat
      PROVE  /\ InQueue(t, j, k)' <=> InQueue(t, j, k + shift[j])
             /\ k - shift[j] \in Nat
  <2>1. k + shift[j] = k /\ k - shift[j] = k
    BY <1>1
  <2>2. ~InQueue(t, i, m)
    BY <1>4 DEF InQueue
  <2> QED BY <1>6, <2>1, <2>2
<1> QED BY <1>2, <1>5, <1>7, <1>8 DEF Loses

\* shared_pull does, and the others move up.
LEMMA FirstLoses ==
  ASSUME Types, PlacedInv, NEW i \in Nodes, NEW h, QueueLosesFirst(i, h)
  PROVE  h \in Tasks /\ \E shift \in [Nodes -> {0, 1}] : Loses(i, h, shift)
<1>1. PICK shift \in [Nodes -> {0, 1}] :
        \A j \in Nodes : shift[j] = IF j = i THEN 1 ELSE 0
  <2>1. [j \in Nodes |-> IF j = i THEN 1 ELSE 0] \in [Nodes -> {0, 1}]
    OBVIOUS
  <2> QED BY <2>1
<1>2. /\ h \in Tasks /\ items[i] \in Seq(Tasks) /\ items[i] # <<>>
      /\ h = Head(items[i]) /\ items'[i] = Tail(items[i])
  BY DEF QueueLosesFirst, Types
<1>3. PICK m \in Nat : m = Len(items[i]) /\ m >= 1
  BY <1>2, TailOf
<1>4. /\ DOMAIN items[i] = 1..m /\ items[i][1] = h
      /\ DOMAIN items'[i] = 1..(m - 1)
      /\ \A k \in 1..(m - 1) : items'[i][k] = items[i][k + 1]
  BY <1>2, <1>3, TailOf
<1>5. InQueue(h, i, 1)
  BY <1>3, <1>4 DEF InQueue
<1>6. ASSUME NEW j \in Nodes, NEW k \in Nat, NEW t
      PROVE  InQueue(t, j, k)' <=> /\ InQueue(t, j, k + shift[j])
                                   /\ ~(j = i /\ k = 0)
  <2>1. CASE j = i
    <3>1. k \in 1..(m - 1) <=> k + 1 \in 1..m /\ k # 0
      BY <1>3
    <3>2. k + shift[j] = k + 1
      BY <1>1, <2>1
    <3> QED BY <1>4, <2>1, <3>1, <3>2 DEF InQueue
  <2>2. CASE j # i
    <3>1. k + shift[j] = k
      BY <1>1, <2>2
    <3> QED BY <2>2, <3>1 DEF QueueLosesFirst, OneQueue, InQueue
  <2> QED BY <2>1, <2>2
<1>7. ASSUME NEW j \in Nodes, NEW k \in Nat, InQueue(h, j, k)' PROVE FALSE
  <2>1. InQueue(h, j, k + shift[j]) /\ ~(j = i /\ k = 0) /\ k + shift[j] \in Nat
    BY <1>6, <1>7
  <2>2. j = i /\ k + shift[j] = 1
    BY <1>2, <1>5, <2>1, QueuedOnce
  <2> QED BY <1>1, <2>1, <2>2
<1>8. ASSUME NEW t \in Tasks \ {h}, NEW j \in Nodes, NEW k \in Nat
      PROVE  /\ InQueue(t, j, k)' <=> InQueue(t, j, k + shift[j])
             /\ InQueue(t, j, k) => k - shift[j] \in Nat
  <2>1. ~InQueue(t, i, 1) /\ ~InQueue(t, i, 0)
    BY <1>4 DEF InQueue
  <2>2. CASE j = i
    <3>1. shift[j] = 1
      BY <1>1, <2>2
    <3>2. k = 0 => k + shift[j] = 1
      BY <3>1
    <3>3. InQueue(t, j, k) => k # 0
      BY <2>1, <2>2
    <3> QED BY <1>6, <2>1, <2>2, <3>1, <3>2, <3>3
  <2>3. CASE j # i
    <3>1. shift[j] = 0
      BY <1>1, <2>3
    <3> QED BY <1>6, <2>3, <3>1
  <2> QED BY <2>2, <2>3
<1> QED BY <1>2, <1>5, <1>7, <1>8 DEF Loses

\* A task that returns leaves the stack for good.
LEMMA ReturnPlaced ==
  ASSUME Types, StackInv, PlacedInv, NEW i \in Nodes, Return(i), NEW t \in Tasks
  PROVE  PlacedOnce(t)'
<1>1. PICK n : /\ Ends(i, n) /\ items' = items
               /\ finished' = finished \cup {stack[i][n].task}
               /\ stack[i][n].todo = <<>> /\ stack[i][n] \in Frames
  BY ReturnMoves
<1>2. /\ n \in Nat /\ n >= 1 /\ DOMAIN stack[i] = 1..n
      /\ DOMAIN stack'[i] = 1..(n - 1)
  BY <1>1 DEF Ends, Deep
<1>3. PICK h : h = stack[i][n].task
  OBVIOUS
<1>4. ASSUME NEW j \in Nodes, NEW k, NEW x
      PROVE  /\ OnStack(x, j, k)' <=> OnStack(x, j, k) /\ ~(j = i /\ k = n)
             /\ ToDo(x, j, k)' <=> ToDo(x, j, k)
  <2>1. CASE j = i
    <3>1. k \in 1..(n - 1) <=> k \in 1..n /\ k # n
      BY <1>2
    <3>2. ~ToDo(x, i, n)
      <4>1. Range(stack[i][n].todo) = {}
        BY <1>1 DEF Range
      <4> QED BY <4>1 DEF ToDo
    <3>3. \A l \in 1..(n - 1) : stack'[i][l] = stack[i][l]
      BY <1>1 DEF Ends
    <3> QED BY <1>2, <2>1, <3>1, <3>2, <3>3 DEF OnStack, ToDo
  <2>2. CASE j # i
    BY <1>1, <2>2 DEF Ends, OwnStack, OnStack, ToDo
  <2> QED BY <2>1, <2>2
<1>5. OnStack(h, i, n) /\ \A x : OnStack(x, i, n) => x = h
  BY <1>2, <1>3 DEF OnStack
<1>6. \A x : Begun(x)' <=> Begun(x)
  BY <1>1, <1>3, <1>4, <1>5 DEF Begun
<1>7. t \in Added' <=> t \in Added
  BY <1>6, AddedIs
<1>8. PlacedOnce(t)
  BY PlacedIs DEF PlacedInv
<1>9. CASE t # h
  <2>1. PICK shift \in [Nodes -> {0, 1}] : \A j \in Nodes : shift[j] = 0
    <3>1. [j \in Nodes |-> 0] \in [Nodes -> {0, 1}]
      OBVIOUS
    <3> QED BY <3>1
  <2>2. \A j \in Nodes, k \in Nat : InQueue(t, j, k)' <=> InQueue(t, j, k)
    BY <1>1 DEF InQueue
  <2>3. Stays(t, shift)
    BY <1>1, <1>3, <1>4, <1>5, <1>7, <1>9, <2>1, <2>2 DEF Stays
  <2> QED BY <1>8, <2>3, StaysPlaced
<1>10. CASE t = h
  <2>1. Holds(t, i, "stack", n) /\ "stack" \in Kinds
    BY <1>5, <1>10 DEF Holds, Kinds
  <2>2. t \in Added
    BY <1>2, <1>8, <2>1 DEF PlacedOnce, Held
  <2>3. ASSUME NEW j \in Nodes, NEW b \in Kinds, NEW k \in Nat,
               Holds(t, j, b, k)'
        PROVE  FALSE
    <3>1. Holds(t, j, b, k) => j = i /\ b = "stack" /\ k = n
      BY <1>2, <1>8, <2>1 DEF PlacedOnce, Single
    <3>2. Holds(t, j, b, k) /\ ~(b = "stack" /\ j = i /\ k = n)
      BY <1>1, <1>4, <2>3 DEF Holds, InQueue
    <3> QED BY <3>1, <3>2
  <2>4. Single(t)' /\ ~Held(t)'
    BY <2>3 DEF Single, Held
  <2> QED BY <1>1, <1>3, <1>7, <1>10, <2>2, <2>4 DEF PlacedOnce
<1> QED BY <1>9, <1>10

\* Every task is placed.
PlacedAll == \A t \in Tasks : PlacedOnce(t)

\* PlacedIs, for all tasks,
LEMMA PlacedAlways == Types => (PlacedInv <=> PlacedAll)
BY PlacedIs DEF PlacedInv, PlacedAll

\* and after a step.
LEMMA PlacedPrime == Types' => (PlacedInv' <=> PlacedAll')
BY PlacedAlways, PTL

\* PlacedInv is kept.
LEMMA PlacedStep ==
  ASSUME Types, StackInv, EmptyInv, TodoInv, PlacedInv, NEW i \in Nodes,
         NodeNext(i)
  PROVE  PlacedInv'
<1>1. Types'
  BY TypesStep
<1>2. (\A t \in Tasks : PlacedOnce(t)') => PlacedInv'
  BY <1>1, PlacedPrime DEF PlacedAll
<1>3. CASE Push(i)
  BY <1>2, <1>3, PushPlaced
<1>4. CASE Relieve(i) \/ Drain(i)
  <2>1. PICK n, h, return : /\ Begins(i, n, h, return) /\ QueueLosesLast(i, h)
                            /\ finished' = finished
    BY <1>4, PullMoves DEF Relieve, Drain
  <2>2. PICK shift \in [Nodes -> {0, 1}] : Loses(i, h, shift)
    BY <2>1, LastLoses
  <2> QED BY <1>2, <2>1, <2>2, BeginsPlaced
<1>5. CASE Claim(i)
  <2>1. PICK n, h, return, from : /\ Begins(i, n, h, return)
                                  /\ QueueLosesFirst(from, h)
                                  /\ finished' = finished /\ from \in Nodes
    BY <1>5, ClaimMoves
  <2>2. PICK shift \in [Nodes -> {0, 1}] : Loses(from, h, shift)
    BY <2>1, FirstLoses
  <2> QED BY <1>2, <2>1, <2>2, BeginsPlaced
<1>6. CASE Return(i)
  BY <1>2, <1>6, ReturnPlaced
<1>7. CASE SignalStep(i) \/ SearchStep(i) \/ PlainStep(i) \/ LeafDone(i)
  BY <1>7, OnlyMoves, QuietPlaced
<1> QED BY <1>3, <1>4, <1>5, <1>6, <1>7, Steps

-----------------------------------------------------------------------------
\* run and the leaves.

\* RunInv is kept.
LEMMA RunStep ==
  ASSUME Types, StackInv, RunInv, NEW i \in Nodes, NodeNext(i)
  PROVE  RunInv'
<1>1. CASE Run \in finished
  <2>1. CASE Return(i)
    BY <1>1, <2>1, ReturnMoves DEF RunInv
  <2>2. CASE ~Return(i)
    <3>1. finished' = finished
      BY <2>2, Steps, OnlyMoves, PushMoves, PullMoves, ClaimMoves
         DEF Relieve, Drain
    <3> QED BY <1>1, <3>1 DEF RunInv
  <2> QED BY <2>1, <2>2
<1>2. CASE \E k \in DOMAIN stack[0] : stack[0][k].task = Run
  <2>1. PICK k \in DOMAIN stack[0] : stack[0][k].task = Run
    BY <1>2
  <2>2. 0 \in Nodes
    BY Ring
  <2>3. CASE i # 0
    BY <2>1, <2>2, <2>3, OwnStackStep DEF OwnStack, RunInv
  <2>4. CASE i = 0
    <3>1. CASE Push(i)
      <4>1. PICK n, h : Adds(i, n, h)
        BY <3>1, PushMoves
      <4>2. k \in 1..n /\ n \in Nat /\ DOMAIN stack'[0] = 1..n
        BY <2>1, <2>4, <4>1 DEF Adds, Deep
      <4>3. stack'[0][k].task = Run
        BY <2>1, <2>4, <4>1, <4>2 DEF Adds
      <4> QED BY <4>2, <4>3 DEF RunInv
    <3>2. ASSUME NEW n, NEW h, NEW return, Begins(i, n, h, return)
          PROVE  RunInv'
      <4>1. k \in 1..n /\ n \in Nat /\ DOMAIN stack'[0] = 1..(n + 1)
        BY <2>1, <2>4, <3>2 DEF Begins, Deep
      <4>2. stack'[0][k].task = Run
        BY <2>1, <2>4, <3>2, <4>1 DEF Begins
      <4> QED BY <4>1, <4>2 DEF RunInv
    <3>3. CASE Relieve(i) \/ Drain(i)
      BY <3>2, <3>3, PullMoves DEF Relieve, Drain
    <3>4. CASE Claim(i)
      BY <3>2, <3>4, ClaimMoves
    <3>5. CASE Return(i)
      <4>1. PICK n : /\ Ends(i, n)
                     /\ finished' = finished \cup {stack[i][n].task}
        BY <3>5, ReturnMoves
      <4>2. CASE k = n
        BY <2>1, <2>4, <4>1, <4>2 DEF RunInv
      <4>3. CASE k # n
        <5>1. k \in 1..(n - 1)
          BY <2>1, <2>4, <4>1, <4>3 DEF Ends, Deep
        <5> QED BY <2>1, <2>4, <4>1, <5>1 DEF Ends, RunInv
      <4> QED BY <4>2, <4>3
    <3>6. CASE SignalStep(i) \/ SearchStep(i) \/ PlainStep(i) \/ LeafDone(i)
      BY <2>1, <3>6, OnlyMoves DEF RunInv
    <3> QED BY <3>1, <3>3, <3>4, <3>5, <3>6, Steps
  <2> QED BY <2>3, <2>4
<1> QED BY <1>1, <1>2 DEF RunInv

\* The node that stops the scheduler goes on to, and begins where left is zero.
LEMMA StopPhase ==
  ASSUME Types, StackInv, LeftInv, NEW i \in Nodes, NodeNext(i), ~LeafDone(i),
         NEW j \in Nodes, stopFlag'[j] \/ pc'[j] \in Over
  PROVE  left = 0
<1> USE DEF Goto, At, Stopping, Over
<1>1. CASE stopFlag'[j]
  <2>1. CASE StopBegin(i) \/ StopFlag(i)
    BY <2>1 DEF StopBegin, StopFlag, LeftInv
  <2> QED BY <1>1, <2>1, FlagSet DEF LeftInv
<1>2. CASE pc'[j] \in Over /\ j # i
  BY <1>2, OnlyMoves DEF LeftInv
<1>3. CASE pc'[j] \in Over /\ j = i
  <2>1. CASE Push(i) \/ Relieve(i) \/ Drain(i) \/ Claim(i)
    BY <1>3, <2>1 DEF Push, Relieve, Drain, PullAndExecute, Execute, Claim,
                      Types
  <2>2. CASE Return(i)
    <3>1. PICK n : /\ stack[i][n] \in Frames
                   /\ pc' = [pc EXCEPT ![i] = stack[i][n].return]
      BY <2>2, ReturnMoves
    <3>2. pc'[i] \in {"body", "drain", "took"}
      BY <3>1 DEF Frames, Types
    <3> QED BY <1>3, <3>2
  <2>3. CASE PlainStep(i)
    BY <1>3, <2>3 DEF PlainStep, PushFull, RelieveRefused, DelegateTest,
                      OfferDeclined, WorkDone, Drained, Leave, Types, LeftInv
  <2>4. CASE StopBegin(i) \/ StopFlag(i) \/ StopPulse(i)
    BY <2>4 DEF StopBegin, StopFlag, StopPulse, LeftInv
  <2>5. CASE SignalStep(i) /\ ~StopBegin(i) /\ ~StopFlag(i) /\ ~StopPulse(i)
    BY <1>3, <2>5 DEF SignalStep, OfferTaken, Redirect, Pulse, Took,
                      BecomeAvailable, WaitReturn, Types
  <2>6. CASE SearchStep(i)
    BY <1>3, <2>6 DEF SearchStep, StealNext, StealRefused, Lose, Announce,
                      Miss, Undo, StealAgain, StealWoken, Types
  <2> QED BY <2>1, <2>2, <2>3, <2>4, <2>5, <2>6, Steps
<1> QED BY <1>1, <1>2, <1>3

\* A leaf that comes to its end on node i had not done so before.
LEMMA NotEnded ==
  ASSUME Types, StackInv, PlacedInv, NEW i \in Nodes, pc[i] = "body",
         Top(i).task \in Tasks
  PROVE  ~Ended(Top(i).task)
<1>1. PICK t \in Tasks : t = Top(i).task
  OBVIOUS
<1>2. ASSUME NEW j \in Nodes, stack[j] # <<>>, Top(j).task = t
      PROVE  \E k \in Nat : Holds(t, j, "stack", k)
  <2>1. stack[j] \in Seq(Frames)
    BY DEF Types
  <2>2. PICK k \in Nat : k = Len(stack[j]) /\ k \in DOMAIN stack[j]
                         /\ Top(j) = stack[j][k]
    BY <1>2, <2>1, FrontOf DEF Top
  <2>3. Holds(t, j, "stack", k)
    BY <1>2, <2>2 DEF Holds, OnStack
  <2> QED BY <2>3
<1>3. PICK k \in Nat : Holds(t, i, "stack", k)
  BY <1>1, <1>2 DEF StackInv, Busy
<1>4. PlacedOnce(t) /\ "stack" \in Kinds
  BY PlacedIs DEF PlacedInv, Kinds
<1>5. t \notin finished
  BY <1>3, <1>4 DEF PlacedOnce, Held
<1>6. ASSUME NEW j \in Nodes, pc[j] \in Ending, Top(j).task = t PROVE FALSE
  <2>1. stack[j] # <<>>
    BY <1>6 DEF StackInv, Busy, Ending
  <2>2. PICK m \in Nat : Holds(t, j, "stack", m)
    BY <1>2, <1>6, <2>1
  <2>3. i = j
    BY <1>3, <1>4, <2>2 DEF PlacedOnce, Single
  <2> QED BY <1>6, <2>3 DEF Ending
<1> QED BY <1>1, <1>5, <1>6 DEF Ended

\* Who has come to its end, after a step of node i.
EndsHere(t, i) == pc[i] \in Ending /\ Top(i).task = t
EndsElsewhere(t, i) ==
  \E j \in Nodes \ {i} : pc[j] \in Ending /\ Top(j).task = t

\* Other nodes end nothing in a step of node i.
LEMMA EndedIs ==
  ASSUME Types, StackInv, NEW i \in Nodes, NodeNext(i), NEW t
  PROVE  /\ Ended(t) <=> t \in finished \/ EndsHere(t, i) \/ EndsElsewhere(t, i)
         /\ Ended(t)' <=> \/ t \in finished'
                          \/ EndsHere(t, i)'
                          \/ EndsElsewhere(t, i)
<1>1. \A j \in Nodes \ {i} : pc'[j] = pc[j] /\ Top(j)' = Top(j)
  BY OnlyMoves, OwnStackStep DEF OwnStack, Top
<1> QED BY <1>1 DEF Ended, EndsHere, EndsElsewhere

\* LeftInv is kept by the steps that end no leaf.
LEMMA KeepsLeft ==
  ASSUME Types, StackInv, LeftInv, NEW i \in Nodes, NodeNext(i), ~LeafDone(i),
         left' = left,
         \A t \in Leaves : \/ t \in finished' \/ EndsHere(t, i)'
                           \/ t \notin finished /\ ~EndsHere(t, i),
         \A t \in Leaves : t \in finished' \/ EndsHere(t, i)'
                           => t \in finished \/ EndsHere(t, i)
  PROVE  LeftInv'
<1>1. \A t \in Leaves : Ended(t)' <=> Ended(t)
  BY EndedIs
<1>2. {t \in Leaves : ~Ended(t)}' = {t \in Leaves : ~Ended(t)}
  BY <1>1
<1>3. \A j \in Nodes : stopFlag'[j] \/ pc'[j] \in Over
                       => left' = 0
  BY StopPhase
<1> QED BY <1>2, <1>3 DEF LeftInv

\* LeftInv is kept.
LEMMA LeftStep ==
  ASSUME Types, StackInv, PlacedInv, LeftInv, NEW i \in Nodes, NodeNext(i)
  PROVE  LeftInv'
<1> USE DEF Goto, At
<1>1. CASE LeafDone(i)
  <2>1. PICK h \in Leaves : h = Top(i).task
    BY <1>1 DEF LeafDone
  <2>2. h \in Tasks /\ IsFiniteSet(Leaves) /\ pc[i] = "body"
    <3>1. Leaves \subseteq Tasks /\ IsFiniteSet(Tasks)
      BY TreeAssumption DEF Leaves
    <3> QED BY <1>1, <3>1, FS_Subset DEF LeafDone
  <2>3. ~Ended(h)
    BY <2>1, <2>2, NotEnded
  <2>4. PICK open : open = {t \in Leaves : ~Ended(t)}
    OBVIOUS
  <2>5. h \in open /\ IsFiniteSet(open) /\ left = Cardinality(open)
    <3>1. open \subseteq Leaves
      BY <2>4
    <3> QED BY <2>2, <2>3, <2>4, <3>1, FS_Subset DEF LeftInv
  <2>6. /\ Cardinality(open) \in Nat /\ Cardinality(open) # 0
        /\ Cardinality(open \ {h}) = Cardinality(open) - 1
    BY <2>5, FS_RemoveElement, FS_EmptySet, FS_CardinalityType
  <2>7. /\ pc' = [pc EXCEPT ![i] = IF left = 1 THEN "stop" ELSE "return"]
        /\ left' = left - 1 /\ finished' = finished /\ stopFlag' = stopFlag
        /\ Top(i)' = Top(i)
    BY <1>1 DEF LeafDone, signals, Top
  <2>8. pc'[i] = (IF left = 1 THEN "stop" ELSE "return") /\ pc'[i] \in Ending
    BY <2>7 DEF Types, Ending
  <2>9. ASSUME NEW t PROVE Ended(t)' <=> Ended(t) \/ t = h
    <3>1. EndsHere(t, i)' <=> t = h
      BY <2>1, <2>7, <2>8 DEF EndsHere
    <3>2. ~EndsHere(t, i)
      BY <2>2 DEF EndsHere, Ending
    <3> QED BY <2>7, <3>1, <3>2, EndedIs
  <2>10. {t \in Leaves : ~Ended(t)}' = open \ {h}
    BY <2>4, <2>9
  <2>11. \A j \in Nodes : ~stopFlag[j] /\ pc[j] \notin Over
    BY <2>5, <2>6 DEF LeftInv
  <2>12. ASSUME NEW j \in Nodes,
                stopFlag'[j] \/ pc'[j] \in Over
         PROVE  left' = 0
    <3>1. j = i
      BY <2>7, <2>11, <2>12, OnlyMoves
    <3>2. left = 1
      BY <2>7, <2>8, <2>11, <2>12, <3>1 DEF Over, Stopping
    <3> QED BY <2>7, <3>2
  <2> QED BY <2>5, <2>6, <2>7, <2>10, <2>12 DEF LeftInv
<1>2. CASE Return(i)
  <2>1. PICK n : /\ Ends(i, n) /\ stack[i][n] \in Frames
                 /\ finished' = finished \cup {stack[i][n].task}
                 /\ pc' = [pc EXCEPT ![i] = stack[i][n].return]
    BY <1>2, ReturnMoves
  <2>2. pc'[i] \in {"body", "drain", "took"} /\ pc[i] = "return"
    BY <1>2, <2>1 DEF Frames, Types, Return
  <2>3. Top(i) = stack[i][n]
    BY <2>1 DEF Ends, Deep, Top, Last
  <2>4. \A t : EndsHere(t, i) <=> t = stack[i][n].task
    BY <2>2, <2>3 DEF EndsHere, Ending
  <2>5. \A t : ~EndsHere(t, i)'
    BY <2>2 DEF EndsHere, Ending
  <2>6. left' = left /\ ~LeafDone(i)
    BY <1>2 DEF Return, LeafDone
  <2> QED BY <2>1, <2>4, <2>5, <2>6, KeepsLeft
<1>3. CASE StopBegin(i) \/ StopFlag(i) \/ StopPulse(i)
  <2>1. /\ pc[i] \in Ending /\ pc'[i] \in Ending /\ Top(i)' = Top(i)
        /\ finished' = finished /\ left' = left /\ ~LeafDone(i)
    BY <1>3 DEF StopBegin, StopFlag, StopPulse, LeafDone, Ending, work, Types,
                Top
  <2>2. \A t : EndsHere(t, i)' <=> EndsHere(t, i)
    BY <2>1 DEF EndsHere
  <2> QED BY <2>1, <2>2, KeepsLeft
<1>4. CASE WorkDone(i)
  <2>1. /\ pc[i] \notin Ending /\ Top(i)' = Top(i) /\ Top(i).task \notin Leaves
        /\ finished' = finished /\ left' = left /\ ~LeafDone(i)
    BY <1>4 DEF WorkDone, LeafDone, Ending, work, Top
  <2>2. \A t \in Leaves : ~EndsHere(t, i)' /\ ~EndsHere(t, i)
    BY <2>1 DEF EndsHere
  <2> QED BY <2>1, <2>2, KeepsLeft
<1>5. CASE ~LeafDone(i) /\ ~Return(i) /\ ~WorkDone(i)
           /\ ~StopBegin(i) /\ ~StopFlag(i) /\ ~StopPulse(i)
  <2>1. /\ pc[i] \notin Ending /\ pc'[i] \notin Ending
        /\ finished' = finished /\ left' = left
    <3>1. CASE Push(i) \/ Relieve(i) \/ Drain(i) \/ Claim(i)
      BY <3>1 DEF Push, Relieve, Drain, PullAndExecute, Execute, Claim, Types,
                  Ending
    <3>2. CASE PlainStep(i)
      BY <1>5, <3>2
         DEF PlainStep, PushFull, RelieveRefused, DelegateTest, OfferDeclined,
             Drained, Leave, Types, Ending, work
    <3>3. CASE SignalStep(i)
      BY <1>5, <3>3
         DEF SignalStep, OfferTaken, Redirect, Pulse, Took, BecomeAvailable,
             WaitReturn, Types, Ending, work
    <3>4. CASE SearchStep(i)
      BY <3>4 DEF SearchStep, StealNext, StealRefused, Lose, Announce, Miss,
                  Undo, StealAgain, StealWoken, Types, Ending, work
    <3> QED BY <1>5, <3>1, <3>2, <3>3, <3>4, Steps
  <2>2. \A t : ~EndsHere(t, i)' /\ ~EndsHere(t, i)
    BY <2>1 DEF EndsHere
  <2> QED BY <1>5, <2>1, <2>2, KeepsLeft
<1> QED BY <1>1, <1>2, <1>3, <1>4, <1>5

-----------------------------------------------------------------------------
\* The invariant.

\* The invariant holds when run begins.
LEMMA InitInv == Init => SchedInv
<1> SUFFICES ASSUME Init PROVE SchedInv
  OBVIOUS
<1>1. /\ Run \in Tasks \cup {Run} /\ Run \notin Leaves
      /\ Root \in Tasks /\ Run \notin Tasks /\ IsFiniteSet(Leaves)
  <2>1. Leaves \subseteq Tasks /\ Run \notin Tasks /\ Root \in Tasks
        /\ IsFiniteSet(Tasks)
    BY TreeAssumption DEF Leaves, Run
  <2> QED BY <2>1, FS_Subset
<1>2. PICK frame \in Frames :
        /\ frame = Frame(Run, "drain") /\ frame.task = Run
        /\ frame.return = "drain" /\ frame.todo = <<Root>>
        /\ Distinct(frame.todo)
  BY <1>1, FrameOf
<1>3. /\ stack \in [Nodes -> Seq(Frames)] /\ stack[0] = <<frame>>
      /\ \A i \in Nodes \ {0} : stack[i] = <<>>
  BY <1>2, Ring DEF Init
<1>4. /\ DOMAIN stack[0] = {1} /\ stack[0][1] = frame /\ stack[0] # <<>>
      /\ \A i \in Nodes \ {0} : DOMAIN stack[i] = {}
  BY <1>3
<1>5. /\ pc[0] = "body" /\ \A i \in Nodes \ {0} : pc[i] = "drain"
      /\ \A i \in Nodes : items[i] = <<>>
  BY Ring DEF Init
<1>6. Types
  <2>1. <<>> \in Seq(Tasks)
    OBVIOUS
  <2>2. items \in [Nodes -> Seq(Tasks)]
    BY <2>1 DEF Init
  <2> QED BY <1>3, <2>2, Ring DEF Init, Types, Busy, Stealing
<1>7. StackInv
  BY <1>2, <1>3, <1>4, <1>5 DEF StackInv, Busy, Ending
<1>8. EmptyInv /\ WakeInv /\ StopInv /\ IdleInv
  BY <1>5 DEF EmptyInv, WakeInv, StopInv, IdleInv, Tiring, Stealing
<1>9. TodoInv
  BY <1>1, <1>2, <1>4 DEF TodoInv
<1>10. PlacedInv
  <2>1. \A i \in Nodes : \A k, t : ~InQueue(t, i, k)
    BY <1>5 DEF InQueue
  <2>2. ASSUME NEW i \in Nodes, NEW k, NEW t \in Tasks
        PROVE  /\ ~OnStack(t, i, k)
               /\ ToDo(t, i, k) <=> t = Root /\ i = 0 /\ k = 1
    <3>1. Range(<<Root>>) = {Root}
      BY DEF Range
    <3> QED BY <1>1, <1>2, <1>4, <3>1 DEF OnStack, ToDo
  <2>3. finished = {}
    BY DEF Init
  <2>4. ASSUME NEW t \in Tasks
        PROVE  ~Begun(t) /\ (t \in Added <=> t = Root)
    <3>1. \A q \in Tasks : ~Begun(q)
      BY <2>2, <2>3 DEF Begun
    <3> QED BY <3>1, AddedIs
  <2>5. ASSUME NEW t \in Tasks PROVE PlacedOnce(t)
    <3>1. \A i \in Nodes, a \in Kinds, k \in Nat :
            Holds(t, i, a, k) <=> t = Root /\ i = 0 /\ a = "to do" /\ k = 1
      <4>1. ASSUME NEW i \in Nodes, NEW a \in Kinds, NEW k \in Nat
            PROVE  Holds(t, i, a, k) <=>
                     t = Root /\ i = 0 /\ a = "to do" /\ k = 1
        <5>1. ~InQueue(t, i, k) /\ ~OnStack(t, i, k)
          BY <2>1, <2>2
        <5>2. ToDo(t, i, k) <=> t = Root /\ i = 0 /\ k = 1
          BY <2>2
        <5> QED BY <5>1, <5>2 DEF Holds
      <4> QED BY <4>1
    <3>2. Single(t)
      BY <3>1 DEF Single
    <3>3. Held(t) <=> t = Root
      <4>1. 0 \in Nodes /\ "to do" \in Kinds /\ 1 \in Nat
        BY Ring DEF Kinds
      <4> QED BY <3>1, <4>1 DEF Held
    <3> QED BY <2>3, <2>4, <3>2, <3>3 DEF PlacedOnce
  <2> QED BY <1>6, <2>5, PlacedAlways DEF PlacedAll
<1>11. RunInv
  BY <1>2, <1>4 DEF RunInv
<1>12. LeftInv
  <2>1. \A t : ~Ended(t)
    BY <1>5 DEF Init, Ended, Ending
  <2>2. {t \in Leaves : ~Ended(t)} = Leaves
    BY <2>1
  <2> QED BY <1>5, <2>2 DEF Init, LeftInv, Over, Stopping
<1> QED BY <1>6, <1>7, <1>8, <1>9, <1>10, <1>11, <1>12 DEF SchedInv

\* A step keeps the invariant.
LEMMA NextInv == SchedInv /\ [Next]_vars => SchedInv'
<1> SUFFICES ASSUME SchedInv, [Next]_vars PROVE SchedInv'
  OBVIOUS
<1>1. CASE UNCHANGED vars
  <2> USE <1>1 DEF vars, queues, signals, search, work
  <2>1. Types'
    BY DEF SchedInv, Types
  <2>2. StackInv' /\ TodoInv' /\ RunInv' /\ IdleInv'
    BY DEF SchedInv, StackInv, TodoInv, RunInv, IdleInv, Top
  <2>3. EmptyInv' /\ WakeInv' /\ StopInv'
    BY DEF SchedInv, EmptyInv, WakeInv, StopInv, Tiring
  <2>4. PlacedInv'
    BY QuietPlaced DEF SchedInv
  <2>5. LeftInv'
    <3>1. {t \in Leaves : ~Ended(t)}' = {t \in Leaves : ~Ended(t)}
      BY DEF Ended, Top
    <3> QED BY <3>1 DEF SchedInv, LeftInv
  <2> QED BY <2>1, <2>2, <2>3, <2>4, <2>5 DEF SchedInv
<1>2. CASE Next
  <2>1. PICK i \in Nodes : NodeNext(i)
    BY <1>2 DEF Next
  <2>2. Types' /\ StackInv' /\ EmptyInv' /\ TodoInv'
    BY <2>1, TypesStep, StackStep, EmptyStep, TodoStep DEF SchedInv
  <2>3. PlacedInv' /\ RunInv' /\ LeftInv'
    BY <2>1, PlacedStep, RunStep, LeftStep DEF SchedInv
  <2>4. WakeInv' /\ StopInv' /\ IdleInv'
    BY <2>1, WakeStep, StopStep, IdleStep DEF SchedInv
  <2> QED BY <2>2, <2>3, <2>4 DEF SchedInv
<1> QED BY <1>1, <1>2

\* The inductive invariant: where the tasks are, what the counters count, and
\* who will wake whom, in every state the nodes reach in any order.
THEOREM Invariance == Spec => []SchedInv
<1>1. Init => SchedInv
  BY InitInv
<1>2. SchedInv /\ [Next]_vars => SchedInv'
  BY NextInv
<1> QED BY <1>1, <1>2, PTL DEF Spec

-----------------------------------------------------------------------------
\* The properties.

\* Every variable keeps its type: the counter of the sandbox stays between zero
\* and the number of leaves, and the vain attempts of a node at most the number
\* of nodes (num_empty_runs).
THEOREM TypeCorrect == Spec => []TypeOK
<1>1. SchedInv => TypeOK
  <2> SUFFICES ASSUME SchedInv PROVE TypeOK
    OBVIOUS
  <2>1. Types /\ LeftInv
    BY DEF SchedInv
  <2>2. left \in 0..Cardinality(Leaves)
    <3>1. IsFiniteSet(Leaves)
      <4>1. Leaves \subseteq Tasks /\ IsFiniteSet(Tasks)
        BY TreeAssumption DEF Leaves
      <4> QED BY <4>1, FS_Subset
    <3>2. PICK open : open = {t \in Leaves : ~Ended(t)}
      OBVIOUS
    <3>3. open \subseteq Leaves /\ left = Cardinality(open)
      BY <2>1, <3>2 DEF LeftInv
    <3>4. /\ IsFiniteSet(open) /\ Cardinality(open) <= Cardinality(Leaves)
          /\ Cardinality(open) \in Nat /\ Cardinality(Leaves) \in Nat
      BY <3>1, <3>3, FS_Subset, FS_CardinalityType
    <3> QED BY <3>3, <3>4
  <2>3. stack \in [Nodes -> Seq([task : Tasks \cup {Run},
                                 return : {"body", "drain", "took"},
                                 todo : Seq(Tasks)])]
    BY <2>1 DEF Types, Frames
  <2> QED BY <2>1, <2>2, <2>3 DEF Types, TypeOK, Busy, Stealing
<1> QED BY <1>1, Invariance, PTL

\* A task that was added is in exactly one queue, on exactly one stack or yet
\* to be added by exactly one task, until it has run, and then nowhere: no task
\* is lost or run twice by push, unique_pull, shared_pull and the nested
\* execute of new_task.
THEOREM AllAccounted == Spec => []TasksAccounted
<1>1. SchedInv => TasksAccounted
  <2> SUFFICES ASSUME SchedInv, NEW t \in Tasks
               PROVE  Cardinality(Places(t)) + (IF t \in finished THEN 1 ELSE 0)
                      = IF t \in Added THEN 1 ELSE 0
    BY DEF TasksAccounted
  <2>1. Placed(t)
    BY DEF SchedInv, PlacedInv
  <2>2. CASE Places(t) = {}
    <3>1. Cardinality(Places(t)) = 0
      BY <2>2, FS_EmptySet
    <3> QED BY <2>1, <2>2, <3>1 DEF Placed
  <2>3. CASE Places(t) # {}
    <3>1. PICK p : p \in Places(t)
      BY <2>3
    <3>2. Places(t) = {p}
      BY <2>1, <3>1 DEF Placed
    <3>3. Cardinality(Places(t)) = 1
      BY <3>2, FS_Singleton
    <3>4. t \in Added /\ t \notin finished
      BY <2>1, <2>3 DEF Placed
    <3> QED BY <3>3, <3>4
  <2> QED BY <2>2, <2>3
<1> QED BY <1>1, Invariance, PTL

\* A node asleep in wakeup_.wait with no pulse is available, or the node that
\* took available_ from it is about to pulse it in wakeup_and_steal_from.
THEOREM SleepersWakeable == Spec => []SleeperCanBeWoken
<1>1. SchedInv => SleeperCanBeWoken
  BY DEF SchedInv, WakeInv, Tiring, SleeperCanBeWoken, At
<1> QED BY <1>1, Invariance, PTL

\* A node asleep with its stop flag set has been pulsed, or stop_scheduler has
\* yet to pulse it: the flag is set before the pulse and read before the wait.
THEOREM StopIsHeard == Spec => []StopHeard
<1>1. SchedInv => StopHeard
  BY DEF SchedInv, StopInv, Tiring, Stopping, StopHeard, At
<1> QED BY <1>1, Invariance, PTL

\* A node that has gone through its local queue keeps at most the one task a
\* thief hid from size() while it looked.
THEOREM IdleHoldsOne == Spec => []IdleHoldsAtMostOne
<1>1. SchedInv => IdleHoldsAtMostOne
  BY DEF SchedInv, IdleInv, Stealing, IdleHoldsAtMostOne
<1> QED BY <1>1, Invariance, PTL

-----------------------------------------------------------------------------
\* The end of run.

\* A finite set has no injection into itself that misses an element.
LEMMA NoRoom ==
  ASSUME NEW U, IsFiniteSet(U), NEW c \in U, NEW f \in [U -> U \ {c}],
         \A x, y \in U : f[x] = f[y] => x = y
  PROVE  FALSE
<1>1. /\ IsFiniteSet(U \ {c}) /\ Cardinality(U \ {c}) = Cardinality(U) - 1
      /\ Cardinality(U) \in Nat
  BY FS_RemoveElement, FS_CardinalityType
<1>2. f \in Injection(U, U \ {c})
  BY DEF Injection, IsInjective
<1>3. Cardinality(U) <= Cardinality(U \ {c})
  BY <1>1, <1>2, FS_Injection
<1> QED BY <1>1, <1>3

\* run returns when all nodes have left node_loop, and then every task has run
\* to its end and no queue holds one: the last leaf stops the scheduler only
\* when nothing else is left.
THEOREM RunReturnsComplete == Spec => []RunEndsComplete
<1>1. SchedInv => RunEndsComplete
  <2> SUFFICES ASSUME SchedInv, \A i \in Nodes : At(i, "done")
               PROVE  /\ finished = Tasks \cup {Run}
                      /\ \A i \in Nodes : items[i] = <<>>
    BY DEF RunEndsComplete
  <2>1. Types /\ PlacedInv /\ LeftInv /\ RunInv
    BY DEF SchedInv
  <2>2. \A i \in Nodes : pc[i] = "done" /\ stack[i] = <<>>
    BY DEF SchedInv, StackInv, Busy, At
  <2>3. \A t : Ended(t) <=> t \in finished
    BY <2>2 DEF Ended, Ending
  <2>4. \A t : Begun(t) <=> t \in finished
    BY <2>2 DEF Begun, OnStack
  <2>5. Leaves \subseteq Tasks /\ IsFiniteSet(Tasks) /\ IsFiniteSet(Leaves)
    <3>1. Leaves \subseteq Tasks /\ IsFiniteSet(Tasks)
      BY TreeAssumption DEF Leaves
    <3> QED BY <3>1, FS_Subset
  <2>6. Leaves \subseteq finished
    <3>1. PICK open : open = {t \in Leaves : ~Ended(t)}
      OBVIOUS
    <3>2. open \subseteq Leaves /\ Cardinality(open) = 0
      BY <2>1, <2>2, <3>1, Ring DEF LeftInv, Over
    <3>3. open = {}
      BY <2>5, <3>2, FS_Subset, FS_EmptySet
    <3> QED BY <2>3, <3>1, <3>3
  <2>7. PICK U : U = Tasks \ finished
    OBVIOUS
  <2>8. ASSUME NEW t \in U
        PROVE  /\ 1 \in DOMAIN Spawns[t]
               /\ \A k \in DOMAIN Spawns[t] : Spawns[t][k] \in U
    <3>1. t \in Tasks /\ t \notin finished /\ Spawns[t] # <<>>
      BY <2>6, <2>7 DEF Leaves
    <3>2. Spawns[t] \in Seq(Tasks \ {Root})
      BY <3>1, TreeAssumption
    <3>3. 1 \in DOMAIN Spawns[t]
      BY <3>1, <3>2, TailOf
    <3>4. ASSUME NEW k \in DOMAIN Spawns[t] PROVE Spawns[t][k] \in U
      <4>1. PICK c : c = Spawns[t][k]
        OBVIOUS
      <4>2. /\ c \in Range(Spawns[t]) /\ c \in Tasks /\ c # Root
            /\ \A q \in Tasks : c \in Range(Spawns[q]) => q = t
        <5>1. c \in Range(Spawns[t])
          BY <4>1 DEF Range
        <5> QED BY <3>1, <5>1, OneParent
      <4>3. c \notin Added
        BY <2>4, <3>1, <4>2, AddedIs
      <4>4. PlacedOnce(c)
        BY <2>1, <4>2, PlacedIs DEF PlacedInv
      <4> QED BY <2>7, <4>1, <4>2, <4>3, <4>4 DEF PlacedOnce
    <3> QED BY <3>3, <3>4
  <2>9. ASSUME NEW c \in U,
               c = Root \/ \E p \in Tasks \ U : c \in Range(Spawns[p])
        PROVE  FALSE
    <3>1. PICK f : f = [t \in U |-> Spawns[t][1]]
      OBVIOUS
    <3>2. ASSUME NEW t \in U PROVE f[t] \in U \ {c}
      <4>1. t \in Tasks /\ f[t] = Spawns[t][1] /\ f[t] \in U
        BY <2>7, <2>8, <3>1
      <4>2. f[t] \in Range(Spawns[t])
        BY <2>8, <4>1 DEF Range
      <4>3. f[t] # Root /\ \A q \in Tasks : f[t] \in Range(Spawns[q]) => q = t
        BY <4>1, <4>2, OneParent
      <4> QED BY <2>9, <4>1, <4>3
    <3>3. f \in [U -> U \ {c}]
      BY <3>1, <3>2
    <3>4. \A x, y \in U : f[x] = f[y] => x = y
      BY <2>7, <2>8, <3>1, TreeAssumption
    <3>5. IsFiniteSet(U)
      BY <2>5, <2>7, FS_Subset
    <3> QED BY <3>3, <3>4, <3>5, NoRoom
  <2>10. Tasks \subseteq finished
    <3>1. PICK below : below = Tasks \ U
      OBVIOUS
    <3>2. Root \in below
      BY <2>9, <3>1, TreeAssumption
    <3>3. ASSUME NEW t \in below, NEW k \in DOMAIN Spawns[t]
          PROVE  Spawns[t][k] \in below
      <4>1. PICK c : c = Spawns[t][k]
        OBVIOUS
      <4>2. t \in Tasks /\ c \in Range(Spawns[t])
        BY <3>1, <4>1 DEF Range
      <4>3. c \in Tasks
        BY <4>2, OneParent
      <4> QED BY <2>9, <3>1, <4>1, <4>2, <4>3
    <3>4. below \in SUBSET Tasks
      BY <3>1
    <3>5. below = Tasks
      BY <3>2, <3>3, <3>4, TreeAssumption
    <3> QED BY <2>7, <3>1, <3>5
  <2>11. finished = Tasks \cup {Run}
    <3>1. Run \in finished
      BY <2>1, <2>2, Ring DEF RunInv
    <3>2. finished \subseteq Tasks \cup {Run}
      BY <2>1 DEF Types
    <3> QED BY <2>10, <3>1, <3>2
  <2>12. ASSUME NEW i \in Nodes, items[i] # <<>> PROVE FALSE
    <3>1. items[i] \in Seq(Tasks)
      BY <2>1 DEF Types
    <3>2. PICK t \in Tasks : InQueue(t, i, 1)
      BY <2>12, <3>1, TailOf DEF InQueue
    <3>3. Held(t)
      BY <3>2 DEF Held, Holds, Kinds
    <3>4. PlacedOnce(t)
      BY <2>1, PlacedIs DEF PlacedInv
    <3> QED BY <2>10, <3>3, <3>4 DEF PlacedOnce
  <2> QED BY <2>11, <2>12
<1> QED BY <1>1, Invariance, PTL
=============================================================================
