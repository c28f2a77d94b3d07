--------------------------- MODULE ExecutorProofs ---------------------------
(***************************************************************************)
(* Proofs about Executor, for any sets of workers, clients and affinities, *)
(* any range of stamps, and any bounds on the tasks and their              *)
(* dependencies: the lists hold what they should, the counts are the       *)
(* signals to come, and a task runs once, after what it was linked to.     *)
(***************************************************************************)
EXTENDS Executor, FiniteSetTheorems, TLAPS

-----------------------------------------------------------------------------
\* The inductive invariant.

\* tasks_mutex_ is held from the top of the loop to its end, except while a
\* closure runs and while the worker polls.
LockInv == \A w \in Workers : mutex = w <=> workerPc[w] \in {"top", "signal"}

\* A task a worker holds was issued, has left tasks_, and is held by no other
\* worker; its signals are sent when it has completed.
HeldInv ==
  \A w \in Workers :
    /\ workerPc[w] \in {"running", "signal"} =>
         /\ running[w].id \in 1..added
         /\ ~IsValidId(running[w].id)
         /\ \A v \in Workers : running[v].id = running[w].id => v = w
    /\ workerPc[w] = "signal" => running[w].id \in completed
    /\ workerPc[w] \notin {"running", "signal"} => running[w] = NoRecord

\* Nothing is known of an id before it is issued, and there is an id left for
\* every thread that has begun to add a task.
IssueInv ==
  /\ \A id \in TaskIds : id > added => ~IsValidId(id) /\ runs[id] = 0
  /\ completed \subseteq 1..added
  /\ IsFiniteSet(adding)
  /\ added + Cardinality(adding) <= MaxTasks

\* A task waits for a signal of every task it was linked to that has not
\* completed.
AwaitInv ==
  \A id \in TaskIds : IsValidId(id) =>
    \A d \in awaited[id] :
      d \in completed \/ Positions(Dependents(d), id) # {}

ExecutorInv == /\ TypeOK
               /\ LockInv
               /\ HeldInv
               /\ IssueInv
               /\ AwaitInv
               /\ Accounted
               /\ ReadyIffQueued
               /\ CountsMatch
               /\ RunsAfterDependencies

-----------------------------------------------------------------------------
\* Counting positions in lists.

\* A function that is one to one and onto keeps the number of elements.
LEMMA SameSize ==
  ASSUME NEW S, NEW T, IsFiniteSet(S), NEW f \in [S -> T],
         \A x, y \in S : f[x] = f[y] => x = y,
         \A y \in T : \E x \in S : f[x] = y
  PROVE  IsFiniteSet(T) /\ Cardinality(T) = Cardinality(S)
<1>1. ExistsBijection(S, T)
  BY DEF ExistsBijection, Bijection, Injection, Surjection, IsInjective
<1> QED BY <1>1, FS_Bijection

\* An id has finitely many positions in a list.
LEMMA PositionsFinite ==
  ASSUME NEW list \in Seq(TaskIds), NEW id
  PROVE  /\ IsFiniteSet(Positions(list, id))
         /\ Cardinality(Positions(list, id)) \in Nat
         /\ Cardinality(Positions(list, id)) = 0 <=> Positions(list, id) = {}
<1>1. Positions(list, id) \in SUBSET (1..Len(list)) /\ Len(list) \in Nat
  BY DEF Positions
<1>2. IsFiniteSet(1..Len(list))
  BY <1>1, FS_Interval
<1>3. IsFiniteSet(Positions(list, id))
  BY <1>1, <1>2, FS_Subset
<1> QED BY <1>3, FS_CardinalityType, FS_EmptySet

\* What is put before a list moves the positions in it on.
LEMMA PutBefore ==
  ASSUME NEW front \in Seq(TaskIds), NEW list \in Seq(TaskIds), NEW id
  PROVE  /\ front \o list \in Seq(TaskIds)
         /\ \A i \in Int :
              i \in Positions(front \o list, id) <=>
                \/ i \in Positions(front, id)
                \/ i > Len(front) /\ i - Len(front) \in Positions(list, id)
<1> DEFINE longer == front \o list
           n == Len(front)
<1>1. /\ longer \in Seq(TaskIds)
      /\ Len(longer) = n + Len(list)
      /\ \A i \in 1..(n + Len(list)) :
           longer[i] = IF i <= n THEN front[i] ELSE list[i - n]
  OBVIOUS
<1>2. /\ DOMAIN longer = 1..(n + Len(list)) /\ DOMAIN list = 1..Len(list)
      /\ DOMAIN front = 1..n /\ n \in Nat /\ Len(list) \in Nat
  BY <1>1
<1> HIDE DEF longer, n
<1>3. ASSUME NEW i \in Int, i \in Positions(longer, id)
      PROVE  i \in Positions(front, id) \/ (i > n /\ i - n \in Positions(list, id))
  BY <1>1, <1>2, <1>3 DEF Positions
<1>4. ASSUME NEW i \in Positions(front, id) PROVE i \in Positions(longer, id)
  BY <1>1, <1>2 DEF Positions
<1>5. ASSUME NEW i \in Int, i > n, i - n \in Positions(list, id)
      PROVE  i \in Positions(longer, id)
  <2>1. i - n \in 1..Len(list) /\ list[i - n] = id
    BY <1>2, <1>5 DEF Positions
  <2>2. i \in 1..(n + Len(list))
    BY <1>2, <1>5, <2>1
  <2> QED BY <1>1, <1>2, <1>5, <2>1, <2>2 DEF Positions
<1> QED BY <1>1, <1>3, <1>4, <1>5 DEF longer, n

\* Put at the front, an id has one position more.
LEMMA PushPositions ==
  ASSUME NEW list \in Seq(TaskIds), NEW x \in TaskIds, NEW id
  PROVE  /\ <<x>> \o list \in Seq(TaskIds)
         /\ Cardinality(Positions(<<x>> \o list, id)) =
              Cardinality(Positions(list, id)) + IF x = id THEN 1 ELSE 0
<1> DEFINE longer == <<x>> \o list
           S == Positions(list, id)
           T == Positions(longer, id)
           moved == [i \in S |-> i + 1]
<1>1. <<x>> \in Seq(TaskIds) /\ Len(<<x>>) = 1
      /\ \A i \in Int : i \in Positions(<<x>>, id) <=> i = 1 /\ x = id
  BY DEF Positions
<1>2. /\ longer \in Seq(TaskIds)
      /\ \A i \in Int : i \in T <=> (i = 1 /\ x = id) \/ (i > 1 /\ i - 1 \in S)
  BY <1>1, PutBefore
<1>3. S \subseteq Nat \ {0} /\ T \subseteq Nat \ {0}
  BY <1>2 DEF Positions
<1>4. IsFiniteSet(S) /\ IsFiniteSet(T) /\ Cardinality(S) \in Nat
  BY <1>2, PositionsFinite
<1> HIDE DEF longer, S, T
<1>5. moved \in [S -> T \ {1}]
  BY <1>2, <1>3
<1>6. \A i, j \in S : moved[i] = moved[j] => i = j
  BY <1>3
<1>7. \A j \in T \ {1} : \E i \in S : moved[i] = j
  <2> TAKE j \in T \ {1}
  <2>1. j \in Nat /\ j > 1
    BY <1>3
  <2>2. j - 1 \in S
    BY <1>2, <2>1
  <2>3. moved[j - 1] = j
    BY <2>1, <2>2
  <2> QED BY <2>2, <2>3
<1>8. Cardinality(T \ {1}) = Cardinality(S)
  BY <1>4, <1>5, <1>6, <1>7, SameSize
<1>9. 1 \in T <=> x = id
  BY <1>2
<1>10. Cardinality(T \ {1}) = IF x = id THEN Cardinality(T) - 1 ELSE Cardinality(T)
  BY <1>4, <1>9, FS_RemoveElement
<1>11. Cardinality(T) \in Nat
  BY <1>4, FS_CardinalityType
<1> QED BY <1>2, <1>4, <1>8, <1>10, <1>11 DEF longer, S, T

\* Taken from the front, it has one position less.
LEMMA PopPositions ==
  ASSUME NEW list \in Seq(TaskIds), list # <<>>, NEW id
  PROVE  /\ Head(list) \in TaskIds /\ Tail(list) \in Seq(TaskIds)
         /\ Cardinality(Positions(list, id)) =
              Cardinality(Positions(Tail(list), id))
              + IF Head(list) = id THEN 1 ELSE 0
         /\ \A i \in Int : i - 1 \in Positions(Tail(list), id) <=>
                          i \in Positions(list, id) /\ i # 1
<1>1. /\ Head(list) \in TaskIds /\ Tail(list) \in Seq(TaskIds)
      /\ list = <<Head(list)>> \o Tail(list)
  OBVIOUS
<1> DEFINE h == Head(list)
           rest == Tail(list)
<1>2. h \in TaskIds /\ rest \in Seq(TaskIds) /\ list = <<h>> \o rest
  BY <1>1
<1> HIDE DEF h, rest
<1>3. Cardinality(Positions(<<h>> \o rest, id)) =
        Cardinality(Positions(rest, id)) + IF h = id THEN 1 ELSE 0
  BY <1>2, PushPositions
<1>4. \A i \in Int : i - 1 \in Positions(rest, id) <=> i \in Positions(list, id) /\ i # 1
  <2> SUFFICES ASSUME NEW i \in Int
               PROVE  i - 1 \in Positions(rest, id) <=> i \in Positions(list, id) /\ i # 1
    OBVIOUS
  <2>1. <<h>> \in Seq(TaskIds) /\ Len(<<h>>) = 1 /\ Positions(<<h>>, id) \subseteq {1}
    BY <1>2 DEF Positions
  <2>2. i \in Positions(list, id) <=>
           i \in Positions(<<h>>, id) \/ (i > 1 /\ i - 1 \in Positions(rest, id))
    BY <1>2, <2>1, PutBefore
  <2>3. i - 1 \in Positions(rest, id) => i > 1
    BY <1>2 DEF Positions
  <2> QED BY <2>1, <2>2, <2>3
<1> QED BY <1>1, <1>2, <1>3, <1>4 DEF h, rest

-----------------------------------------------------------------------------
\* Counting the signals to come.

\* Links, as a function of the lists of dependents.
LinkSet(D, id) == UNION {{<<d, i>> : i \in Positions(D[d], id)} : d \in TaskIds}

\* The elements of a set of links.
LEMMA LinkMember ==
  ASSUME NEW D \in [TaskIds -> Seq(TaskIds)], NEW id
  PROVE  /\ LinkSet(D, id) \subseteq TaskIds \X Nat
         /\ \A d \in TaskIds, i \in Int :
              <<d, i>> \in LinkSet(D, id) <=> i \in Positions(D[d], id)
<1>1. \A d \in TaskIds : Positions(D[d], id) \subseteq Nat
  BY DEF Positions
<1>2. ASSUME NEW p \in LinkSet(D, id)
      PROVE  \E d \in TaskIds : \E i \in Positions(D[d], id) : p = <<d, i>>
  BY DEF LinkSet
<1>3. ASSUME NEW d \in TaskIds, NEW i \in Positions(D[d], id)
      PROVE  <<d, i>> \in LinkSet(D, id)
  <2>1. <<d, i>> \in {<<d, j>> : j \in Positions(D[d], id)}
    OBVIOUS
  <2> QED BY <2>1 DEF LinkSet
<1>4. ASSUME NEW d \in TaskIds, NEW i \in Int, <<d, i>> \in LinkSet(D, id)
      PROVE  i \in Positions(D[d], id)
  BY <1>2, <1>4
<1> QED BY <1>1, <1>2, <1>3, <1>4

\* There are finitely many.
LEMMA LinksFinite ==
  ASSUME NEW D \in [TaskIds -> Seq(TaskIds)], NEW id
  PROVE  /\ IsFiniteSet(LinkSet(D, id))
         /\ Cardinality(LinkSet(D, id)) \in Nat
         /\ Cardinality(LinkSet(D, id)) = 0 <=> LinkSet(D, id) = {}
<1> DEFINE Of(d) == {<<d, i>> : i \in Positions(D[d], id)}
           all == [d \in TaskIds |-> Of(d)]
           Sets == {Of(d) : d \in TaskIds}
<1>1. IsFiniteSet(TaskIds)
  BY BoundsAssumption, FS_Interval DEF TaskIds
<1>2. ASSUME NEW d \in TaskIds PROVE IsFiniteSet(Of(d))
  <2> DEFINE P == Positions(D[d], id)
             f == [i \in P |-> <<d, i>>]
  <2>1. IsFiniteSet(P)
    BY PositionsFinite
  <2>2. /\ f \in [P -> Of(d)]
        /\ \A i, j \in P : f[i] = f[j] => i = j
        /\ \A p \in Of(d) : \E i \in P : f[i] = p
    OBVIOUS
  <2> HIDE DEF P, f, Of
  <2> QED BY <2>1, <2>2, SameSize
<1>3. all \in Surjection(TaskIds, Sets)
  <2> HIDE DEF Of
  <2>1. all \in [TaskIds -> Sets] /\ \A d \in TaskIds : all[d] = Of(d)
    OBVIOUS
  <2>2. ASSUME NEW T \in Sets PROVE \E d \in TaskIds : all[d] = T
    BY <2>1
  <2> HIDE DEF all, Sets
  <2> QED BY <2>1, <2>2 DEF Surjection
<1>4. IsFiniteSet(Sets)
  BY <1>1, <1>3, FS_Surjection
<1>5. IsFiniteSet(UNION Sets)
  <2>1. \A T \in Sets : IsFiniteSet(T)
    BY <1>2
  <2> HIDE DEF Sets
  <2> QED BY <1>4, <2>1, FS_UNION
<1>6. IsFiniteSet(LinkSet(D, id))
  BY <1>5 DEF LinkSet
<1> QED BY <1>6, FS_CardinalityType, FS_EmptySet

\* When the links of each task move by as much as its list grows or shrinks,
\* their number stays the same.
LEMMA LinksMoved ==
  ASSUME NEW A \in SUBSET (TaskIds \X Nat), NEW B \in SUBSET (TaskIds \X Nat),
         IsFiniteSet(A), NEW by \in [TaskIds -> Int],
         \A d \in TaskIds, i \in Int : <<d, i>> \in A <=> <<d, i + by[d]>> \in B
  PROVE  IsFiniteSet(B) /\ Cardinality(B) = Cardinality(A)
<1> DEFINE f == [p \in A |-> <<p[1], p[2] + by[p[1]]>>]
<1>1. ASSUME NEW p \in A PROVE f[p] \in B
  <2>1. p = <<p[1], p[2]>> /\ p[1] \in TaskIds /\ p[2] \in Int
    OBVIOUS
  <2> QED BY <2>1
<1>2. f \in [A -> B]
  BY <1>1
<1>3. ASSUME NEW p \in A, NEW q \in A, f[p] = f[q] PROVE p = q
  <2>1. /\ p = <<p[1], p[2]>> /\ p[1] \in TaskIds /\ p[2] \in Int
        /\ q = <<q[1], q[2]>> /\ q[1] \in TaskIds /\ q[2] \in Int
    OBVIOUS
  <2>2. p[1] = q[1] /\ p[2] + by[p[1]] = q[2] + by[q[1]]
    BY <1>3
  <2>3. p[2] = q[2]
    BY <2>1, <2>2
  <2> QED BY <2>1, <2>2, <2>3
<1>4. ASSUME NEW q \in B PROVE \E p \in A : f[p] = q
  <2> DEFINE p == <<q[1], q[2] - by[q[1]]>>
  <2>1. q = <<q[1], q[2]>> /\ q[1] \in TaskIds /\ q[2] \in Int
    OBVIOUS
  <2>2. q[2] - by[q[1]] \in Int /\ (q[2] - by[q[1]]) + by[q[1]] = q[2]
    BY <2>1
  <2>3. p \in A
    BY <2>1, <2>2
  <2>4. f[p] = q
    BY <2>1, <2>2, <2>3
  <2> QED BY <2>3, <2>4
<1> HIDE DEF f
<1> QED BY <1>2, <1>3, <1>4, SameSize

-----------------------------------------------------------------------------
\* Whose dependents a list is.

DependentLists == [d \in TaskIds |-> Dependents(d)]

\* The list of dependents of a task is its own while it is in tasks_, then that
\* of the worker that holds it, then empty.
ListsKnown ==
  /\ DependentLists \in [TaskIds -> Seq(TaskIds)]
  /\ \A d \in TaskIds : IsValidId(d) => /\ tasks[d] \in Records
                                       /\ Dependents(d) = tasks[d].dependents
  /\ \A w \in Workers : running[w].id \in TaskIds =>
       Dependents(running[w].id) = running[w].dependents
  /\ \A d \in TaskIds :
       ~IsValidId(d) /\ (\A w \in Workers : running[w].id # d) =>
         Dependents(d) = <<>>
  /\ \A id \in TaskIds : Links(id) = LinkSet(DependentLists, id)

\* It is so wherever the types are right and no two workers hold one task.
LEMMA KnownLists == TypeOK /\ HeldInv => ListsKnown
<1> SUFFICES ASSUME TypeOK, HeldInv PROVE ListsKnown
  OBVIOUS
<1>1. \A d \in TaskIds : IsValidId(d) => tasks[d] \in Records
  BY DEF TypeOK, IsValidId
<1>2. \A d \in TaskIds : IsValidId(d) => Dependents(d) = tasks[d].dependents
  BY DEF Dependents
<1>3. ASSUME NEW w \in Workers, running[w].id \in TaskIds
      PROVE  Dependents(running[w].id) = running[w].dependents
  <2>1. workerPc[w] \in {"running", "signal"}
    BY <1>3 DEF HeldInv, NoRecord, TaskIds
  <2>2. /\ ~IsValidId(running[w].id)
        /\ \A v \in Workers : running[v].id = running[w].id => v = w
    BY <2>1 DEF HeldInv
  <2>3. (CHOOSE v \in Workers : running[v].id = running[w].id) = w
    BY <2>2
  <2> QED BY <2>2, <2>3 DEF Dependents
<1>4. ASSUME NEW d \in TaskIds, ~IsValidId(d),
             \A w \in Workers : running[w].id # d
      PROVE  Dependents(d) = <<>>
  BY <1>4 DEF Dependents
<1>5. ASSUME NEW d \in TaskIds PROVE Dependents(d) \in Seq(TaskIds)
  <2>1. CASE IsValidId(d)
    <3>1. tasks[d].dependents \in Seq(TaskIds)
      BY <1>1, <2>1 DEF Records
    <3> QED BY <1>2, <2>1, <3>1
  <2>2. CASE \E w \in Workers : running[w].id = d
    <3>1. PICK w \in Workers : running[w].id = d
      BY <2>2
    <3>2. running[w].dependents \in Seq(TaskIds)
      BY DEF TypeOK
    <3> QED BY <1>3, <3>1, <3>2
  <2>3. <<>> \in Seq(TaskIds)
    OBVIOUS
  <2>4. CASE ~IsValidId(d) /\ \A w \in Workers : running[w].id # d
    BY <1>4, <2>3, <2>4
  <2> QED BY <2>1, <2>2, <2>4
<1>6. ASSUME NEW id \in TaskIds PROVE Links(id) = LinkSet(DependentLists, id)
  BY DEF Links, LinkSet, DependentLists
<1> QED BY <1>1, <1>2, <1>3, <1>4, <1>5, <1>6 DEF ListsKnown, DependentLists

\* The same of the state after a step.
LEMMA KnownListsNext == TypeOK' /\ HeldInv' => ListsKnown'
BY KnownLists, PTL

\* No task is linked to a task that is not in tasks_.
LEMMA LinkedAreValid ==
  ASSUME TypeOK, HeldInv, CountsMatch, NEW d \in TaskIds, NEW id \in TaskIds,
         Positions(Dependents(d), id) # {}
  PROVE  IsValidId(id) /\ tasks[id].unmet \in Nat \ {0}
<1>1. ListsKnown
  BY KnownLists
<1>2. PICK i \in Positions(Dependents(d), id) : TRUE
  OBVIOUS
<1>3. i \in Int
  BY <1>1, <1>2 DEF Positions, ListsKnown, DependentLists
<1>4. <<d, i>> \in LinkSet(DependentLists, id)
  BY <1>1, <1>2, <1>3, LinkMember DEF ListsKnown, DependentLists
<1>5. Links(id) # {} /\ Cardinality(Links(id)) \in Nat \ {0}
  BY <1>1, <1>4, LinksFinite DEF ListsKnown
<1> QED BY <1>5 DEF CountsMatch

-----------------------------------------------------------------------------
\* The initial state, and the steps that move no task.

\* In the initial state there is no task and no worker holds the lock.
LEMMA InitInv == Init => ExecutorInv
<1> SUFFICES ASSUME Init PROVE ExecutorInv
  OBVIOUS
<1> USE BoundsAssumption, HolderAssumption, AffinityAssumption DEF Init
<1>1. <<>> \in Seq(TaskIds) /\ \A id : Positions(<<>>, id) = {}
  BY DEF Positions
<1>2. \A d \in TaskIds : ~IsValidId(d)
  BY DEF IsValidId
<1>3. \A d \in TaskIds : Dependents(d) = <<>>
  BY <1>2 DEF Dependents, NoRecord, TaskIds
<1>4. \A id \in TaskIds : Links(id) = {}
  BY <1>1, <1>3 DEF Links
<1>5. Cardinality({}) = 0 /\ IsFiniteSet({})
  BY FS_EmptySet
<1>6. TypeOK
  <2>1. 0 \in 0..(StampRange - 1) /\ 0 \in 0..MaxTasks /\ 0 \in Nat
    OBVIOUS
  <2>2. NoRecord \in [id : 0..MaxTasks, dependents : Seq(TaskIds)]
    BY <1>1, <2>1 DEF NoRecord
  <2> QED BY <1>1, <2>1, <2>2 DEF TypeOK
<1>7. LockInv /\ HeldInv /\ IssueInv
  BY <1>2, <1>5 DEF LockInv, HeldInv, IssueInv
<1>8. AwaitInv /\ Accounted /\ RunsAfterDependencies
  BY DEF AwaitInv, Accounted, RunsAfterDependencies
<1>9. ReadyIffQueued
  BY <1>1, <1>2, <1>5 DEF ReadyIffQueued
<1>10. CountsMatch
  BY <1>2, <1>4, <1>5 DEF CountsMatch
<1> QED BY <1>6, <1>7, <1>8, <1>9, <1>10 DEF ExecutorInv

\* A step that leaves tasks and lists alone, and forgets no completed task,
\* keeps what is said of them.
LEMMA TasksAlone ==
  ASSUME ExecutorInv, UNCHANGED <<tasks, queue, running, awaited, runs>>,
         completed \subseteq completed'
  PROVE  AwaitInv' /\ ReadyIffQueued' /\ CountsMatch' /\ RunsAfterDependencies'
<1> USE DEF ExecutorInv, IsValidId
<1>1. \A d \in TaskIds : Dependents(d)' = Dependents(d)
  BY DEF Dependents
<1>2. AwaitInv'
  BY <1>1 DEF AwaitInv, TypeOK
<1>3. ReadyIffQueued'
  BY DEF ReadyIffQueued
<1>4. CountsMatch'
  BY <1>1 DEF CountsMatch, Links
<1>5. RunsAfterDependencies'
  BY DEF RunsAfterDependencies
<1> QED BY <1>2, <1>3, <1>4, <1>5

\* A worker that enters, polls or leaves, and close.
LEMMA IdleStep ==
  ASSUME ExecutorInv,
         \/ \E w \in Workers : \/ EnterCheck(w) \/ Enter(w) \/ Release(w)
                               \/ PollClosed(w) \/ PollOpen(w)
         \/ Close
  PROVE  ExecutorInv'
<1> USE AffinityAssumption, HolderAssumption DEF ExecutorInv, store, history, WorkerMoves
<1>1. UNCHANGED <<tasks, queue, nextStamp, running, adding, added, history>>
  BY DEF EnterCheck, Enter, Release, PollClosed, PollOpen, Close
<1>2. AwaitInv' /\ ReadyIffQueued' /\ CountsMatch' /\ RunsAfterDependencies'
  BY <1>1, TasksAlone
<1>3. /\ workerPc' \in [Workers -> {"out", "entering", "top", "polling",
                                    "running", "signal"}]
      /\ \A w \in Workers :
           \/ workerPc'[w] = workerPc[w]
           \/ /\ workerPc[w] \notin {"running", "signal"}
              /\ workerPc'[w] \notin {"running", "signal"}
  BY DEF TypeOK, EnterCheck, Enter, Release, PollClosed, PollOpen, Close
<1>4. /\ closed' \in BOOLEAN
      /\ mutex' \in Workers \cup {Free}
      /\ attached' \subseteq Affinities
  <2>1. closed' \in BOOLEAN /\ mutex' \in Workers \cup {Free}
    BY DEF TypeOK, EnterCheck, Enter, Release, PollClosed, PollOpen, Close
  <2>2. ASSUME NEW w \in Workers
        PROVE  attached \cup ({WorkerAffinity[w]} \ {NoAffinity}) \subseteq Affinities
    <3>1. WorkerAffinity[w] \in Affinities \cup {NoAffinity}
      OBVIOUS
    <3> QED BY <3>1 DEF TypeOK
  <2>3. attached' \subseteq Affinities
    BY <2>2 DEF TypeOK, EnterCheck, Enter, Release, PollClosed, PollOpen, Close
  <2> QED BY <2>1, <2>3
<1>5. TypeOK'
  BY <1>1, <1>3, <1>4 DEF TypeOK
<1>6. LockInv'
  BY DEF TypeOK, LockInv, EnterCheck, Enter, Release, PollClosed, PollOpen, Close
<1>7. HeldInv'
  BY <1>1, <1>3 DEF HeldInv, IsValidId
<1>8. IssueInv'
  BY <1>1 DEF IssueInv, IsValidId
<1>9. Accounted'
  BY <1>1, <1>3 DEF Accounted, IsValidId
<1> QED BY <1>2, <1>5, <1>6, <1>7, <1>8, <1>9

\* There is an id for the thread that begins to add a task.
LEMMA AddCheckStep ==
  ASSUME NEW t \in Clients \cup Workers, ExecutorInv, AddCheck(t)
  PROVE  ExecutorInv'
<1> USE DEF ExecutorInv, AddCheck, store, history
<1>1. AwaitInv' /\ ReadyIffQueued' /\ CountsMatch' /\ RunsAfterDependencies'
  BY TasksAlone
<1>2. TypeOK'
  BY DEF TypeOK
<1>3. LockInv' /\ HeldInv' /\ Accounted'
  BY DEF LockInv, HeldInv, Accounted, IsValidId
<1>4. IsFiniteSet(adding') /\ added' + Cardinality(adding') <= MaxTasks
  <2>1. IsFiniteSet(adding')
        /\ Cardinality(adding') = Cardinality(adding) + 1
        /\ Cardinality(adding) \in Nat
    BY FS_AddElement, FS_CardinalityType DEF IssueInv
  <2> QED BY <2>1, BoundsAssumption DEF TypeOK
<1>5. IssueInv'
  BY <1>4 DEF IssueInv, IsValidId
<1> QED BY <1>1, <1>2, <1>3, <1>5

\* The closure has returned; its task has completed.
LEMMA FinishStep ==
  ASSUME NEW w \in Workers, ExecutorInv, Finish(w)
  PROVE  ExecutorInv'
<1> USE HolderAssumption DEF ExecutorInv, Finish, store, history, WorkerMoves
<1>1. AwaitInv' /\ ReadyIffQueued' /\ CountsMatch' /\ RunsAfterDependencies'
  BY TasksAlone
<1>2. running[w].id \in 1..added /\ running[w].id \in TaskIds
  BY BoundsAssumption DEF HeldInv, TypeOK, TaskIds
<1>3. TypeOK'
  BY <1>2 DEF TypeOK
<1>4. LockInv' /\ IssueInv'
  BY <1>2 DEF TypeOK, LockInv, IssueInv, IsValidId
<1>5. HeldInv'
  BY DEF TypeOK, HeldInv, IsValidId
<1>6. Accounted'
  BY DEF TypeOK, Accounted, IsValidId
<1> QED BY <1>1, <1>3, <1>4, <1>5, <1>6

-----------------------------------------------------------------------------
\* The steps that move tasks out of tasks_, and out of a worker's hands.

\* Where the lists of dependents stay the same, so do the links.
LEMMA SameLinks ==
  ASSUME \A d \in TaskIds : Dependents(d)' = Dependents(d)
  PROVE  \A id \in TaskIds : Links(id)' = Links(id)
BY DEF Links

\* The worker that has sent all signals holds no task any more.
LEMMA SignalDoneStep ==
  ASSUME NEW w \in Workers, ExecutorInv, SignalDone(w)
  PROVE  ExecutorInv'
<1> USE DEF ExecutorInv, SignalDone, store, history, WorkerMoves
<1>1. 0 \in 0..MaxTasks /\ NoRecord \in [id : 0..MaxTasks, dependents : Seq(TaskIds)]
  BY BoundsAssumption DEF NoRecord
<1>2. TypeOK'
  BY <1>1 DEF TypeOK
<1>3. LockInv' /\ IssueInv'
  BY DEF TypeOK, LockInv, IssueInv, IsValidId
<1>4. HeldInv'
  BY DEF TypeOK, HeldInv, IsValidId, NoRecord
<1>5. Accounted'
  BY DEF TypeOK, HeldInv, Accounted, IsValidId, NoRecord
<1>6. \A d \in TaskIds : Dependents(d)' = Dependents(d)
  <2>1. ListsKnown /\ ListsKnown'
    BY <1>2, <1>4, KnownLists, KnownListsNext
  <2> SUFFICES ASSUME NEW d \in TaskIds PROVE Dependents(d)' = Dependents(d)
    OBVIOUS
  <2>2. CASE IsValidId(d)
    BY <2>1, <2>2 DEF ListsKnown, IsValidId
  <2>3. CASE ~IsValidId(d) /\ running[w].id = d
    <3>1. Dependents(d) = <<>>
      BY <2>1, <2>3 DEF ListsKnown
    <3>2. \A v \in Workers : running'[v].id # d
      BY <2>3 DEF TypeOK, HeldInv, NoRecord, TaskIds
    <3>3. Dependents(d)' = <<>>
      BY <2>1, <2>3, <3>2 DEF ListsKnown, IsValidId
    <3> QED BY <3>1, <3>3
  <2>4. CASE ~IsValidId(d) /\ \E v \in Workers \ {w} : running[v].id = d
    <3>1. PICK v \in Workers \ {w} : running[v].id = d
      BY <2>4
    <3>2. running'[v] = running[v]
      BY <3>1 DEF TypeOK
    <3>3. Dependents(d) = running[v].dependents
      BY <2>1, <3>1 DEF ListsKnown
    <3>4. Dependents(d)' = running'[v].dependents
      BY <2>1, <3>1, <3>2 DEF ListsKnown
    <3> QED BY <3>2, <3>3, <3>4
  <2>5. CASE ~IsValidId(d) /\ \A v \in Workers : running[v].id # d
    <3>1. \A v \in Workers : running'[v].id # d
      BY <2>5 DEF TypeOK, NoRecord, TaskIds
    <3> QED BY <2>1, <2>5, <3>1 DEF ListsKnown, IsValidId
  <2> QED BY <2>2, <2>3, <2>4, <2>5
<1>7. \A id \in TaskIds : Links(id)' = Links(id)
  BY <1>6, SameLinks
<1>8. AwaitInv'
  BY <1>6 DEF AwaitInv, TypeOK, IsValidId
<1>9. ReadyIffQueued' /\ RunsAfterDependencies'
  BY DEF ReadyIffQueued, RunsAfterDependencies, IsValidId
<1>10. CountsMatch'
  BY <1>7 DEF CountsMatch, IsValidId
<1> QED BY <1>2, <1>3, <1>4, <1>5, <1>8, <1>9, <1>10

\* The front of a list is a task that waits for nothing, in the list it belongs to.
LEMMA FrontIsReady ==
  ASSUME ExecutorInv, NEW q \in Queues, queue[q] # <<>>
  PROVE  /\ Head(queue[q]) \in 1..added /\ Head(queue[q]) \in TaskIds
         /\ IsValidId(Head(queue[q]))
         /\ tasks[Head(queue[q])] \in Records
         /\ tasks[Head(queue[q])].unmet = 0
         /\ tasks[Head(queue[q])].affinity = q
<1> DEFINE id == Head(queue[q])
<1> USE DEF ExecutorInv
<1>1. queue[q] \in Seq(TaskIds)
  BY DEF TypeOK
<1>2. id \in TaskIds /\ 1 \in Positions(queue[q], id)
  BY <1>1 DEF Positions
<1>3. Cardinality(Positions(queue[q], id)) # 0
  BY <1>1, <1>2, PositionsFinite
<1>4. IsValidId(id) /\ tasks[id].unmet = 0 /\ tasks[id].affinity = q
  BY <1>2, <1>3 DEF ReadyIffQueued
<1>5. id \in 1..added
  BY <1>2, <1>4 DEF IssueInv, TypeOK, TaskIds
<1> QED BY <1>2, <1>4, <1>5 DEF TypeOK, IsValidId

\* A popped task is held by the worker, with its dependents; all that it was
\* linked to has completed, or a signal would still be to come.
LEMMA PopStep ==
  ASSUME NEW w \in Workers, NEW q \in Queues, ExecutorInv, Pop(w, q)
  PROVE  ExecutorInv'
<1> DEFINE id == Head(queue[q])
           to == IF tasks[id].hasClosure THEN "running" ELSE "signal"
<1> USE HolderAssumption, EntryAssumption DEF ExecutorInv
<1>1. queue[q] # <<>> /\ workerPc[w] = "top"
  BY DEF Pop, Chosen, WorkerMoves
<1>2. /\ id \in 1..added /\ id \in TaskIds /\ IsValidId(id)
      /\ tasks[id] \in Records
      /\ tasks[id].unmet = 0 /\ tasks[id].affinity = q
  BY <1>1, FrontIsReady
<1>3. /\ workerPc' = [workerPc EXCEPT ![w] = to]
      /\ mutex' = IF to = "running" THEN Free ELSE mutex
      /\ completed' = IF to = "running" THEN completed ELSE completed \cup {id}
      /\ to \in {"running", "signal"}
      /\ queue' = [queue EXCEPT ![q] = Tail(queue[q])]
      /\ tasks' = [tasks EXCEPT ![id] = NoTask]
      /\ running' = [running EXCEPT ![w] =
                        [id |-> id, dependents |-> tasks[id].dependents]]
      /\ runs' = [runs EXCEPT ![id] = @ + 1]
      /\ UNCHANGED <<nextStamp, closed, attached, adding, added, awaited, declared>>
  BY DEF Pop, WorkerMoves
<1>4. \A d \in TaskIds : IsValidId(d)' <=> IsValidId(d) /\ d # id
  BY <1>3 DEF TypeOK, IsValidId
<1> HIDE DEF to, id
<1>5. TypeOK'
  <2>1. queue' \in [Queues -> Seq(TaskIds)]
    BY <1>1, <1>3, PopPositions DEF TypeOK
  <2>2. running' \in [Workers -> [id : 0..MaxTasks, dependents : Seq(TaskIds)]]
    <3>1. id \in 0..MaxTasks /\ tasks[id].dependents \in Seq(TaskIds)
      BY <1>2, BoundsAssumption DEF TaskIds, Records
    <3> QED BY <1>3, <3>1 DEF TypeOK
  <2>3. tasks' \in [TaskIds -> Records \cup {NoTask}] /\ runs' \in [TaskIds -> Nat]
    BY <1>2, <1>3 DEF TypeOK
  <2>4. /\ workerPc' \in [Workers -> {"out", "entering", "top", "polling",
                                      "running", "signal"}]
        /\ completed' \subseteq TaskIds
        /\ mutex' \in Workers \cup {Free}
    BY <1>2, <1>3 DEF TypeOK
  <2> QED BY <1>3, <2>1, <2>2, <2>3, <2>4 DEF TypeOK
<1>6. LockInv'
  BY <1>1, <1>3 DEF TypeOK, LockInv
<1>7. running[w] = NoRecord /\ \A v \in Workers : running[v].id # id
  <2>1. running[w] = NoRecord
    BY <1>1 DEF HeldInv
  <2>2. ASSUME NEW v \in Workers PROVE running[v].id # id
    <3>1. CASE workerPc[v] \in {"running", "signal"}
      BY <1>2, <3>1 DEF HeldInv
    <3>2. CASE workerPc[v] \notin {"running", "signal"}
      BY <1>2, <3>2 DEF HeldInv, NoRecord, TaskIds
    <3> QED BY <3>1, <3>2
  <2> QED BY <2>1, <2>2
<1>8. HeldInv'
  <2> SUFFICES ASSUME NEW u \in Workers
               PROVE  /\ workerPc'[u] \in {"running", "signal"} =>
                           /\ running'[u].id \in 1..added'
                           /\ tasks'[running'[u].id] = NoTask
                           /\ \A v \in Workers :
                                running'[v].id = running'[u].id => v = u
                      /\ workerPc'[u] = "signal" => running'[u].id \in completed'
                      /\ workerPc'[u] \notin {"running", "signal"} =>
                           running'[u] = NoRecord
    BY DEF HeldInv, IsValidId
  <2>1. running'[w].id = id /\ \A v \in Workers \ {w} : running'[v] = running[v]
    BY <1>3 DEF TypeOK
  <2>2. CASE u = w
    <3>1. running'[u].id = id /\ workerPc'[u] = to /\ tasks'[id] = NoTask
      BY <1>2, <1>3, <2>1, <2>2 DEF TypeOK
    <3>2. \A v \in Workers : running'[v].id = id => v = u
      BY <1>7, <2>1, <2>2
    <3> QED BY <1>2, <1>3, <3>1, <3>2
  <2>3. CASE u # w
    <3>1. workerPc'[u] = workerPc[u] /\ running'[u] = running[u]
      BY <1>3, <2>1, <2>3 DEF TypeOK
    <3>2. CASE workerPc[u] \in {"running", "signal"}
      <4>1. tasks'[running'[u].id] = NoTask
        <5>1. tasks[running[u].id] = NoTask /\ running[u].id \in TaskIds
          BY <3>2 DEF HeldInv, IsValidId, TypeOK, TaskIds
        <5> QED BY <1>3, <3>1, <5>1 DEF TypeOK
      <4>2. \A v \in Workers : running'[v].id = running'[u].id => v = u
        BY <1>7, <2>1, <2>3, <3>1, <3>2 DEF HeldInv
      <4> QED BY <1>3, <3>1, <3>2, <4>1, <4>2 DEF HeldInv
    <3>3. CASE workerPc[u] \notin {"running", "signal"}
      BY <3>1, <3>3 DEF HeldInv
    <3> QED BY <3>2, <3>3
  <2> QED BY <2>2, <2>3
<1>9. IssueInv'
  BY <1>2, <1>3, <1>4 DEF IssueInv, TypeOK, TaskIds
<1>10. \A d \in TaskIds : Dependents(d)' = Dependents(d)
  <2>1. ListsKnown /\ ListsKnown'
    BY <1>5, <1>8, KnownLists, KnownListsNext
  <2>2. \A v \in Workers \ {w} : running'[v] = running[v]
    BY <1>3 DEF TypeOK
  <2>3. running'[w].id = id /\ running'[w].dependents = tasks[id].dependents
    BY <1>3 DEF TypeOK
  <2> SUFFICES ASSUME NEW d \in TaskIds PROVE Dependents(d)' = Dependents(d)
    OBVIOUS
  <2>4. CASE d = id
    <3>1. Dependents(d) = tasks[id].dependents
      BY <1>2, <2>1, <2>4 DEF ListsKnown
    <3>2. Dependents(d)' = running'[w].dependents
      BY <1>2, <2>1, <2>3, <2>4 DEF ListsKnown
    <3> QED BY <2>3, <3>1, <3>2
  <2>5. CASE d # id /\ IsValidId(d)
    <3>1. tasks'[d] = tasks[d] /\ IsValidId(d)'
      BY <1>3, <1>4, <2>5 DEF TypeOK
    <3> QED BY <2>1, <2>5, <3>1 DEF ListsKnown
  <2>6. CASE d # id /\ ~IsValidId(d) /\ \E v \in Workers \ {w} : running[v].id = d
    <3>1. PICK v \in Workers \ {w} : running[v].id = d
      BY <2>6
    <3>2. Dependents(d) = running[v].dependents
      BY <2>1, <3>1 DEF ListsKnown
    <3>3. Dependents(d)' = running'[v].dependents
      BY <2>1, <2>2, <3>1 DEF ListsKnown
    <3> QED BY <2>2, <3>1, <3>2, <3>3
  <2>7. CASE d # id /\ ~IsValidId(d) /\ \A v \in Workers \ {w} : running[v].id # d
    <3>1. running[w].id # d
      BY <1>7 DEF NoRecord, TaskIds
    <3>2. \A v \in Workers : running'[v].id # d
      BY <2>2, <2>3, <2>7
    <3> QED BY <1>4, <2>1, <2>7, <3>1, <3>2 DEF ListsKnown
  <2> QED BY <2>4, <2>5, <2>6, <2>7
<1>11. \A x \in TaskIds : Links(x)' = Links(x)
  BY <1>10, SameLinks
<1>12. CountsMatch'
  <2> SUFFICES ASSUME NEW x \in TaskIds
               PROVE  Cardinality(Links(x)') =
                        IF IsValidId(x)' THEN tasks'[x].unmet ELSE 0
    BY DEF CountsMatch
  <2>1. CASE x = id
    BY <1>2, <1>4, <1>11, <2>1 DEF CountsMatch
  <2>2. CASE x # id
    BY <1>3, <1>4, <1>11, <2>2 DEF CountsMatch, TypeOK
  <2> QED BY <2>1, <2>2
<1>13. AwaitInv'
  BY <1>3, <1>4, <1>10 DEF AwaitInv, TypeOK
<1>14. RunsAfterDependencies'
  <2>1. ASSUME NEW d \in awaited[id] PROVE d \in completed
    <3>1. d \in TaskIds
      BY <1>2 DEF TypeOK
    <3>2. Positions(Dependents(d), id) = {}
      BY <1>2, <3>1, LinkedAreValid
    <3> QED BY <1>2, <3>2 DEF AwaitInv
  <2> QED BY <1>2, <1>3, <2>1 DEF RunsAfterDependencies, TypeOK
<1>15. Accounted'
  <2> SUFFICES ASSUME NEW x \in 1..added
               PROVE  /\ runs'[x] = IF IsValidId(x)' THEN 0 ELSE 1
                      /\ runs'[x] = 1 =>
                           \/ x \in completed'
                           \/ \E u \in Workers : /\ running'[u].id = x
                                                 /\ workerPc'[u] = "running"
    BY <1>3 DEF Accounted, IsValidId
  <2>1. x \in TaskIds
    BY BoundsAssumption DEF TypeOK, TaskIds
  <2>2. CASE x = id
    <3>1. runs[x] = 0 /\ runs'[x] = 1 /\ ~IsValidId(x)'
      BY <1>2, <1>3, <1>4, <2>1, <2>2 DEF TypeOK, Accounted
    <3>2. running'[w].id = x /\ workerPc'[w] = to
      BY <1>3, <2>2 DEF TypeOK
    <3> QED BY <1>3, <2>2, <3>1, <3>2
  <2>3. CASE x # id
    <3>1. runs'[x] = runs[x] /\ IsValidId(x)' = IsValidId(x)
      BY <1>2, <1>3, <2>1, <2>3 DEF TypeOK, IsValidId
    <3>2. \A u \in Workers : workerPc[u] = "running" =>
             u # w /\ running'[u] = running[u] /\ workerPc'[u] = workerPc[u]
      BY <1>1, <1>3 DEF TypeOK
    <3> QED BY <1>3, <3>1, <3>2 DEF Accounted
  <2> QED BY <2>2, <2>3
<1>16. ReadyIffQueued'
  <2> SUFFICES ASSUME NEW x \in TaskIds, NEW p \in Queues
               PROVE  Cardinality(Positions(queue'[p], x)) =
                        IF IsValidId(x)' /\ tasks'[x].unmet = 0
                                         /\ tasks'[x].affinity = p
                          THEN 1 ELSE 0
    BY DEF ReadyIffQueued, Positions
  <2>1. Cardinality(Positions(queue[p], x)) =
          IF IsValidId(x) /\ tasks[x].unmet = 0 /\ tasks[x].affinity = p
            THEN 1 ELSE 0
    BY DEF ReadyIffQueued
  <2>2. x # id => tasks'[x] = tasks[x]
    BY <1>3 DEF TypeOK
  <2>3. CASE p = q
    <3>1. Cardinality(Positions(queue[q], x)) =
            Cardinality(Positions(queue'[q], x)) + IF id = x THEN 1 ELSE 0
      BY <1>1, <1>3, PopPositions DEF TypeOK, id
    <3>2. Cardinality(Positions(queue'[q], x)) \in Nat
      BY <1>5, PositionsFinite DEF TypeOK
    <3> QED BY <1>2, <1>4, <2>1, <2>2, <2>3, <3>1, <3>2
  <2>4. CASE p # q
    <3>1. queue'[p] = queue[p]
      BY <1>3, <2>4 DEF TypeOK
    <3> QED BY <1>2, <1>4, <2>1, <2>2, <2>4, <3>1
  <2> QED BY <2>3, <2>4
<1> QED BY <1>5, <1>6, <1>8, <1>9, <1>12, <1>13, <1>14, <1>15, <1>16

-----------------------------------------------------------------------------
\* Sending a signal.

\* Scheduling a task that is in no list puts it in the one it belongs to.
LEMMA Pushed ==
  ASSUME ReadyIffQueued, TypeOK, TypeOK', NEW id \in TaskIds,
         IsValidId(id) => tasks[id].unmet # 0,
         \A x \in TaskIds \ {id} :
           /\ IsValidId(x)' = IsValidId(x)
           /\ IsValidId(x) => /\ tasks'[x].unmet = tasks[x].unmet
                             /\ tasks'[x].affinity = tasks[x].affinity,
         IsValidId(id)', tasks'[id].affinity \in Queues,
         \/ /\ tasks'[id].unmet = 0
            /\ queue' = [queue EXCEPT ![tasks'[id].affinity] = <<id>> \o @]
         \/ tasks'[id].unmet # 0 /\ queue' = queue
  PROVE  ReadyIffQueued'
<1> SUFFICES ASSUME NEW x \in TaskIds, NEW q \in Queues
             PROVE  Cardinality(Positions(queue'[q], x)) =
                      IF IsValidId(x)' /\ tasks'[x].unmet = 0
                                       /\ tasks'[x].affinity = q
                        THEN 1 ELSE 0
  BY DEF ReadyIffQueued, Positions
<1>1. Cardinality(Positions(queue[q], x)) =
        IF IsValidId(x) /\ tasks[x].unmet = 0 /\ tasks[x].affinity = q
          THEN 1 ELSE 0
  BY DEF ReadyIffQueued
<1>2. CASE tasks'[id].unmet = 0 /\ q = tasks'[id].affinity
  <2>1. queue'[q] = <<id>> \o queue[q] /\ queue[q] \in Seq(TaskIds)
    BY <1>2 DEF TypeOK
  <2>2. Cardinality(Positions(queue'[q], x)) =
          Cardinality(Positions(queue[q], x)) + IF id = x THEN 1 ELSE 0
    BY <2>1, PushPositions
  <2>3. CASE x = id
    BY <1>1, <1>2, <2>2, <2>3
  <2>4. CASE x # id
    BY <1>1, <1>2, <2>2, <2>4
  <2> QED BY <2>3, <2>4
<1>3. CASE ~(tasks'[id].unmet = 0 /\ q = tasks'[id].affinity)
  <2>1. queue'[q] = queue[q]
    BY <1>3 DEF TypeOK
  <2>2. CASE x = id
    BY <1>1, <1>3, <2>1, <2>2
  <2>3. CASE x # id
    BY <1>1, <1>3, <2>1, <2>3
  <2> QED BY <2>2, <2>3
<1> QED BY <1>2, <1>3

\* What one turn of signal_dependents does to the tasks and lists.
LEMMA SignalEffect ==
  ASSUME NEW w \in Workers, ExecutorInv, SignalOne(w)
  PROVE  LET h == Head(running[w].dependents) IN
         /\ h \in TaskIds /\ IsValidId(h) /\ tasks[h] \in Records
         /\ tasks[h].unmet \in Nat \ {0}
         /\ tasks' \in [TaskIds -> Records \cup {NoTask}]
         /\ tasks'[h] \in Records
         /\ tasks'[h].unmet = tasks[h].unmet - 1
         /\ tasks'[h].affinity = tasks[h].affinity
         /\ tasks'[h].dependents = tasks[h].dependents
         /\ \A x \in TaskIds \ {h} : tasks'[x] = tasks[x]
         /\ nextStamp' \in 0..(StampRange - 1)
         /\ \/ /\ tasks'[h].unmet = 0
               /\ queue' = [queue EXCEPT ![tasks'[h].affinity] = <<h>> \o @]
            \/ tasks'[h].unmet # 0 /\ queue' = queue
<1> DEFINE h == Head(running[w].dependents)
           newTasks == [tasks EXCEPT ![h].unmet = @ - 1]
<1> USE EntryAssumption DEF ExecutorInv
<1>1. ListsKnown
  BY KnownLists
<1>2. /\ running[w].id \in TaskIds
      /\ running[w].dependents \in Seq(TaskIds) /\ running[w].dependents # <<>>
      /\ Dependents(running[w].id) = running[w].dependents
  <2>1. running[w].dependents \in Seq(TaskIds) /\ running[w].dependents # <<>>
    BY DEF SignalOne, TypeOK
  <2>2. running[w].id \in TaskIds
    BY BoundsAssumption DEF SignalOne, HeldInv, TypeOK, TaskIds
  <2> QED BY <1>1, <2>1, <2>2 DEF ListsKnown
<1>3. h \in TaskIds /\ 1 \in Positions(running[w].dependents, h)
  BY <1>2 DEF Positions
<1>4. IsValidId(h) /\ tasks[h].unmet \in Nat \ {0}
  BY <1>2, <1>3, LinkedAreValid
<1>5. tasks[h] \in Records
  BY <1>3, <1>4 DEF TypeOK, IsValidId
<1> HIDE DEF h
<1>6. /\ newTasks \in [TaskIds -> Records \cup {NoTask}]
      /\ newTasks[h] \in Records
      /\ newTasks[h].unmet = tasks[h].unmet - 1
      /\ newTasks[h].affinity = tasks[h].affinity
      /\ newTasks[h].dependents = tasks[h].dependents
      /\ \A x \in TaskIds \ {h} : newTasks[x] = tasks[x]
  <2> DEFINE less == [tasks[h] EXCEPT !.unmet = tasks[h].unmet - 1]
  <2>1. /\ less \in Records /\ less.unmet = tasks[h].unmet - 1
        /\ less.affinity = tasks[h].affinity
        /\ less.dependents = tasks[h].dependents
    BY <1>4, <1>5 DEF Records
  <2>2. newTasks = [tasks EXCEPT ![h] = less]
    BY <1>3 DEF TypeOK
  <2> HIDE DEF less, newTasks
  <2> QED BY <1>3, <2>1, <2>2 DEF TypeOK
<1>7. IF newTasks[h].unmet = 0
        THEN Schedule(h, newTasks)
        ELSE tasks' = newTasks /\ UNCHANGED <<queue, nextStamp>>
  BY DEF SignalOne, h
<1> HIDE DEF newTasks
<1>8. CASE newTasks[h].unmet = 0
  <2>1. /\ tasks' = [newTasks EXCEPT ![h].stamp = nextStamp]
        /\ queue' = [queue EXCEPT ![newTasks[h].affinity] = <<h>> \o @]
        /\ nextStamp' = (nextStamp + 1) % StampRange
    BY <1>7, <1>8 DEF Schedule
  <2>2. nextStamp' \in 0..(StampRange - 1)
    BY <2>1, BoundsAssumption DEF TypeOK
  <2>3. tasks'[h] \in Records /\ tasks' \in [TaskIds -> Records \cup {NoTask}]
    BY <1>3, <1>6, <2>1 DEF TypeOK, Records
  <2>4. /\ tasks'[h].unmet = newTasks[h].unmet
        /\ tasks'[h].affinity = newTasks[h].affinity
        /\ tasks'[h].dependents = newTasks[h].dependents
        /\ \A x \in TaskIds \ {h} : tasks'[x] = newTasks[x]
    BY <1>3, <1>6, <2>1 DEF Records
  <2> QED BY <1>3, <1>4, <1>5, <1>6, <1>8, <2>1, <2>2, <2>3, <2>4 DEF h
<1>9. CASE newTasks[h].unmet # 0
  BY <1>3, <1>4, <1>5, <1>6, <1>7, <1>9 DEF h, TypeOK
<1> QED BY <1>8, <1>9

\* Where the lists of dependents move as described, so do the numbers of links.
LEMMA SignalledLinks ==
  ASSUME NEW D \in [TaskIds -> Seq(TaskIds)], NEW E \in [TaskIds -> Seq(TaskIds)],
         NEW c \in TaskIds, D[c] # <<>>, E[c] = Tail(D[c]),
         \A d \in TaskIds \ {c} : E[d] = D[d],
         NEW id \in TaskIds
  PROVE  /\ id = Head(D[c]) =>
              Cardinality(LinkSet(E, id)) = Cardinality(LinkSet(D, id)) - 1
         /\ id # Head(D[c]) =>
              Cardinality(LinkSet(E, id)) = Cardinality(LinkSet(D, id))
<1> DEFINE A == LinkSet(D, id) \ {<<c, 1>>}
           B == LinkSet(E, id)
           by == [d \in TaskIds |-> IF d = c THEN 0 - 1 ELSE 0]
<1>1. /\ A \in SUBSET (TaskIds \X Nat) /\ B \in SUBSET (TaskIds \X Nat)
      /\ by \in [TaskIds -> Int]
  <2>1. LinkSet(D, id) \subseteq TaskIds \X Nat /\ B \subseteq TaskIds \X Nat
    BY LinkMember
  <2> QED BY <2>1
<1>2. ASSUME NEW d \in TaskIds, NEW i \in Int
      PROVE  <<d, i>> \in A <=> <<d, i + by[d]>> \in B
  <2>1. <<d, i>> \in A <=> i \in Positions(D[d], id) /\ ~(d = c /\ i = 1)
    BY LinkMember
  <2>4. \A j \in Int : <<d, j>> \in B <=> j \in Positions(E[d], id)
    BY LinkMember
  <2>2. CASE d = c
    <3>1. by[d] = 0 - 1 /\ i + by[d] = i - 1
      BY <2>2
    <3>2. <<d, i - 1>> \in B <=> i - 1 \in Positions(E[d], id)
      BY <2>4
    <3>3. i - 1 \in Positions(Tail(D[c]), id) <=> i \in Positions(D[c], id) /\ i # 1
      BY PopPositions
    <3> QED BY <2>1, <2>2, <3>1, <3>2, <3>3
  <2>3. CASE d # c
    <3>1. i + by[d] = i
      BY <2>3
    <3>2. <<d, i>> \in B <=> i \in Positions(E[d], id)
      BY <2>4
    <3> QED BY <2>1, <2>3, <3>1, <3>2
  <2> QED BY <2>2, <2>3
<1>3. /\ IsFiniteSet(LinkSet(D, id)) /\ Cardinality(LinkSet(D, id)) \in Nat
      /\ <<c, 1>> \in LinkSet(D, id) <=> id = Head(D[c])
  <2>1. 1 \in Positions(D[c], id) <=> id = Head(D[c])
    BY DEF Positions
  <2>2. \A d \in TaskIds, i \in Int :
          <<d, i>> \in LinkSet(D, id) <=> i \in Positions(D[d], id)
    BY LinkMember
  <2>3. <<c, 1>> \in LinkSet(D, id) <=> 1 \in Positions(D[c], id)
    BY <2>2
  <2> QED BY <2>1, <2>3, LinksFinite
<1>4. /\ IsFiniteSet(A)
      /\ Cardinality(A) = IF id = Head(D[c]) THEN Cardinality(LinkSet(D, id)) - 1
                                            ELSE Cardinality(LinkSet(D, id))
  BY <1>3, FS_RemoveElement
<1> HIDE DEF A, B, by
<1>5. Cardinality(B) = Cardinality(A)
  BY <1>1, <1>2, <1>4, LinksMoved
<1> QED BY <1>3, <1>4, <1>5 DEF B

\* A signal takes one link and one unmet dependency away.
LEMMA SignalOneStep ==
  ASSUME NEW w \in Workers, ExecutorInv, SignalOne(w)
  PROVE  ExecutorInv'
<1>h. PICK h : h = Head(running[w].dependents)
  OBVIOUS
<1>c. PICK c : c = running[w].id
  OBVIOUS
<1> USE EntryAssumption DEF ExecutorInv
<1>1. /\ h \in TaskIds /\ IsValidId(h) /\ tasks[h] \in Records
      /\ tasks[h].unmet \in Nat \ {0}
      /\ tasks' \in [TaskIds -> Records \cup {NoTask}]
      /\ tasks'[h] \in Records
      /\ tasks'[h].unmet = tasks[h].unmet - 1
      /\ tasks'[h].affinity = tasks[h].affinity
      /\ tasks'[h].dependents = tasks[h].dependents
      /\ \A x \in TaskIds \ {h} : tasks'[x] = tasks[x]
      /\ nextStamp' \in 0..(StampRange - 1)
      /\ \/ /\ tasks'[h].unmet = 0
            /\ queue' = [queue EXCEPT ![tasks'[h].affinity] = <<h>> \o @]
         \/ tasks'[h].unmet # 0 /\ queue' = queue
  BY <1>h, SignalEffect
<1>2. /\ workerPc[w] = "signal" /\ running[w].dependents # <<>>
      /\ running' = [running EXCEPT ![w].dependents = Tail(@)]
      /\ UNCHANGED <<mutex, closed, attached, workerPc, adding, added, awaited,
                     declared, runs, completed>>
  BY DEF SignalOne, history
<1>3. /\ running[w].dependents \in Seq(TaskIds)
      /\ Tail(running[w].dependents) \in Seq(TaskIds)
  BY <1>2 DEF TypeOK
<1>4. /\ running' \in [Workers -> [id : 0..MaxTasks, dependents : Seq(TaskIds)]]
      /\ running'[w].id = c /\ running'[w].dependents = Tail(running[w].dependents)
      /\ \A v \in Workers \ {w} : running'[v] = running[v]
      /\ \A v \in Workers : running'[v].id = running[v].id
  <2> DEFINE held == [running[w] EXCEPT !.dependents = Tail(running[w].dependents)]
  <2>1. /\ held \in [id : 0..MaxTasks, dependents : Seq(TaskIds)]
        /\ held.id = c /\ held.dependents = Tail(running[w].dependents)
    BY <1>3, <1>c DEF TypeOK
  <2>2. running' = [running EXCEPT ![w] = held]
    BY <1>2 DEF TypeOK
  <2> HIDE DEF held
  <2> QED BY <1>c, <2>1, <2>2 DEF TypeOK
<1>5. \A x \in TaskIds : IsValidId(x)' = IsValidId(x)
  BY <1>1 DEF IsValidId
<1>6. TypeOK'
  <2>1. queue' \in [Queues -> Seq(TaskIds)]
    <3>1. tasks'[h].affinity \in Queues
      BY <1>1 DEF Records
    <3>2. <<h>> \o queue[tasks'[h].affinity] \in Seq(TaskIds)
      BY <1>1, <3>1, PushPositions DEF TypeOK
    <3> QED BY <1>1, <3>1, <3>2 DEF TypeOK
  <2> QED BY <1>1, <1>2, <1>4, <2>1 DEF TypeOK
<1>7. LockInv' /\ IssueInv'
  BY <1>2, <1>5 DEF LockInv, IssueInv, IsValidId
<1>8. HeldInv'
  <2> SUFFICES ASSUME NEW u \in Workers
               PROVE  /\ workerPc[u] \in {"running", "signal"} =>
                           /\ running'[u].id \in 1..added
                           /\ tasks'[running'[u].id] = NoTask
                           /\ \A v \in Workers :
                                running'[v].id = running'[u].id => v = u
                      /\ workerPc[u] = "signal" => running'[u].id \in completed
                      /\ workerPc[u] \notin {"running", "signal"} =>
                           running'[u] = NoRecord
    BY <1>2 DEF HeldInv, IsValidId
  <2>1. CASE workerPc[u] \in {"running", "signal"}
    <3>1. running[u].id \in TaskIds /\ tasks[running[u].id] = NoTask
      BY <2>1 DEF HeldInv, IsValidId, TypeOK, TaskIds
    <3>2. tasks'[running[u].id] = NoTask
      BY <1>1, <3>1 DEF IsValidId
    <3> QED BY <1>4, <2>1, <3>2 DEF HeldInv
  <2>2. CASE workerPc[u] \notin {"running", "signal"}
    BY <1>2, <1>4, <2>2 DEF HeldInv
  <2> QED BY <2>1, <2>2
<1>9. ListsKnown /\ ListsKnown'
  BY <1>6, <1>8, KnownLists, KnownListsNext
<1>10. c \in TaskIds /\ ~IsValidId(c) /\ c \in completed
  BY <1>2, <1>c DEF HeldInv, TypeOK, TaskIds
<1>11. /\ Dependents(c) = running[w].dependents
       /\ Dependents(c)' = Tail(running[w].dependents)
  <2>1. running[w].id \in TaskIds /\ running'[w].id \in TaskIds
    BY <1>4, <1>10, <1>c
  <2>2. Dependents(running[w].id) = running[w].dependents
    BY <1>9, <2>1 DEF ListsKnown
  <2>3. Dependents(c)' = running'[w].dependents
    BY <1>4, <1>9, <2>1 DEF ListsKnown
  <2> QED BY <1>4, <1>c, <2>2, <2>3
<1>12. \A d \in TaskIds \ {c} : Dependents(d)' = Dependents(d)
  <2> SUFFICES ASSUME NEW d \in TaskIds \ {c} PROVE Dependents(d)' = Dependents(d)
    OBVIOUS
  <2>1. CASE IsValidId(d)
    <3>1. tasks'[d].dependents = tasks[d].dependents
      BY <1>1
    <3>2. IsValidId(d)'
      BY <1>5, <2>1
    <3> QED BY <1>9, <2>1, <3>1, <3>2 DEF ListsKnown
  <2>2. CASE ~IsValidId(d) /\ \E v \in Workers \ {w} : running[v].id = d
    <3>1. PICK v \in Workers \ {w} : running[v].id = d
      BY <2>2
    <3>2. running'[v] = running[v]
      BY <1>4, <3>1
    <3>3. Dependents(d) = running[v].dependents
      BY <1>9, <3>1 DEF ListsKnown
    <3>4. Dependents(d)' = running'[v].dependents
      BY <1>9, <3>1, <3>2 DEF ListsKnown
    <3> QED BY <3>2, <3>3, <3>4
  <2>3. CASE ~IsValidId(d) /\ \A v \in Workers \ {w} : running[v].id # d
    <3>1. \A v \in Workers : running[v].id # d /\ running'[v].id # d
      BY <1>4, <1>c, <2>3
    <3>2. ~IsValidId(d)'
      BY <1>5, <2>3
    <3> QED BY <1>9, <2>3, <3>1, <3>2 DEF ListsKnown
  <2> QED BY <2>1, <2>2, <2>3
<1>13. CountsMatch'
  <2> SUFFICES ASSUME NEW x \in TaskIds
               PROVE  Cardinality(Links(x)') =
                        IF IsValidId(x)' THEN tasks'[x].unmet ELSE 0
    BY DEF CountsMatch
  <2>d. PICK D : D = DependentLists
    OBVIOUS
  <2>e. PICK E : E = DependentLists'
    OBVIOUS
  <2>1. /\ D \in [TaskIds -> Seq(TaskIds)] /\ E \in [TaskIds -> Seq(TaskIds)]
        /\ Links(x) = LinkSet(D, x)
        /\ Links(x)' = LinkSet(E, x)
    BY <1>9, <2>d, <2>e DEF ListsKnown, LinkSet
  <2>2. /\ D[c] # <<>> /\ E[c] = Tail(D[c]) /\ Head(D[c]) = h
        /\ \A d \in TaskIds \ {c} : E[d] = D[d]
    BY <1>2, <1>h, <1>10, <1>11, <1>12, <2>d, <2>e DEF DependentLists
  <2>3. /\ x = h => Cardinality(Links(x)') = Cardinality(Links(x)) - 1
        /\ x # h => Cardinality(Links(x)') = Cardinality(Links(x))
    <3>1. /\ D \in [TaskIds -> Seq(TaskIds)] /\ E \in [TaskIds -> Seq(TaskIds)]
          /\ c \in TaskIds /\ D[c] # <<>> /\ E[c] = Tail(D[c])
          /\ \A d \in TaskIds \ {c} : E[d] = D[d]
      BY <1>10, <2>1, <2>2
    <3>2. /\ x = Head(D[c]) =>
               Cardinality(LinkSet(E, x)) = Cardinality(LinkSet(D, x)) - 1
          /\ x # Head(D[c]) =>
               Cardinality(LinkSet(E, x)) = Cardinality(LinkSet(D, x))
      BY <3>1, SignalledLinks
    <3> QED BY <2>1, <2>2, <3>2
  <2>4. Cardinality(Links(x)) \in Nat
    BY <2>1, LinksFinite
  <2>5. CASE x = h
    BY <1>1, <1>5, <2>3, <2>4, <2>5 DEF CountsMatch
  <2>6. CASE x # h
    BY <1>1, <1>5, <2>3, <2>4, <2>6 DEF CountsMatch
  <2> QED BY <2>5, <2>6
<1>14. AwaitInv'
  BY <1>2, <1>5, <1>10, <1>12 DEF AwaitInv, TypeOK
<1>15. ReadyIffQueued'
  <2>1. IsValidId(h)' /\ tasks'[h].affinity \in Queues /\ tasks[h].unmet # 0
    BY <1>1, <1>5 DEF Records
  <2> QED BY <1>1, <1>5, <1>6, <2>1, Pushed
<1>16. Accounted' /\ RunsAfterDependencies'
  <2>1. Accounted'
    BY <1>2, <1>4, <1>5, BoundsAssumption DEF Accounted, TypeOK, TaskIds
  <2>2. RunsAfterDependencies'
    BY <1>2 DEF RunsAfterDependencies
  <2> QED BY <2>1, <2>2
<1> QED BY <1>6, <1>7, <1>8, <1>13, <1>14, <1>15, <1>16

-----------------------------------------------------------------------------
\* Adding a task.

Unmet(deps) == {i \in DOMAIN deps : IsValidId(deps[i])}

UnmetTasks(deps) == {deps[i] : i \in Unmet(deps)}

\* The places in depends_on that name a task of V.
NamesOf(deps, V) == {i \in DOMAIN deps : deps[i] \in V}

Copies(deps, d, id) == [i \in 1..Cardinality(Positions(deps, d)) |-> id]

\* What the half of add_task under the lock does to the tasks and lists, for the
\* id it issues.
AddOutcome(t, deps, affinity, id) ==
  /\ id \in TaskIds /\ ~IsValidId(id)
  /\ deps \in Seq(TaskIds) /\ IsFiniteSet(Unmet(deps))
  /\ Range(deps) \subseteq 1..added
  /\ tasks' \in [TaskIds -> Records \cup {NoTask}]
  /\ tasks'[id] \in Records
  /\ tasks'[id].unmet = Cardinality(Unmet(deps))
  /\ tasks'[id].dependents = <<>> /\ tasks'[id].affinity = affinity
  /\ \A d \in TaskIds \ {id} :
       /\ ~IsValidId(d) => tasks'[d] = tasks[d]
       /\ IsValidId(d) =>
            /\ tasks'[d] \in Records
            /\ tasks'[d].unmet = tasks[d].unmet
            /\ tasks'[d].affinity = tasks[d].affinity
            /\ tasks'[d].dependents = Copies(deps, d, id) \o tasks[d].dependents
  /\ nextStamp' \in 0..(StampRange - 1)
  /\ \/ /\ tasks'[id].unmet = 0
        /\ queue' = [queue EXCEPT ![tasks'[id].affinity] = <<id>> \o @]
     \/ tasks'[id].unmet # 0 /\ queue' = queue
  /\ added' = id /\ adding' = adding \ {t}
  /\ awaited' = [awaited EXCEPT ![id] = UnmetTasks(deps)]
  /\ declared' = [declared EXCEPT ![id] = Range(deps)]
  /\ UNCHANGED <<mutex, closed, attached, workerPc, running, runs, completed>>

\* It has no other effect.
LEMMA AddEffect ==
  ASSUME NEW t \in adding, NEW deps \in DepLists, NEW affinity \in Queues,
         NEW hasClosure \in BOOLEAN, ExecutorInv,
         AddLocked(t, deps, affinity, hasClosure),
         NEW id, id = added + 1
  PROVE  AddOutcome(t, deps, affinity, id)
<1> DEFINE newTask == [unmet |-> Cardinality(Unmet(deps)), dependents |-> <<>>,
                       stamp |-> 0, affinity |-> affinity, hasClosure |-> hasClosure]
           newTasks == Linked(id, deps, newTask)
<1> USE EntryAssumption DEF ExecutorInv, AddOutcome
<1>1. id \in TaskIds /\ id > added /\ ~IsValidId(id)
  <2>1. Cardinality(adding) \in Nat \ {0}
    BY FS_CardinalityType, FS_EmptySet DEF IssueInv
  <2>2. added + 1 <= MaxTasks /\ added \in Nat
    BY <2>1, BoundsAssumption DEF IssueInv, TypeOK
  <2> QED BY <2>2, BoundsAssumption DEF IssueInv, TaskIds
<1>2. /\ deps \in Seq(TaskIds) /\ IsFiniteSet(Unmet(deps))
      /\ Cardinality(Unmet(deps)) \in Nat
      /\ Cardinality(Unmet(deps)) = 0 <=> Unmet(deps) = {}
  <2>1. PICK n \in 0..MaxDeps : deps \in [1..n -> TaskIds]
    BY DEF DepLists
  <2>2. n \in Nat /\ deps \in Seq(TaskIds)
    BY <2>1, BoundsAssumption
  <2>3. IsFiniteSet(1..n) /\ Unmet(deps) \in SUBSET (1..n)
    BY <2>1, <2>2, FS_Interval DEF Unmet
  <2>4. IsFiniteSet(Unmet(deps))
    BY <2>3, FS_Subset
  <2> QED BY <2>2, <2>4, FS_CardinalityType, FS_EmptySet
<1>3. /\ Range(deps) \subseteq 1..added
      /\ added' = id /\ adding' = adding \ {t}
      /\ awaited' = [awaited EXCEPT ![id] = UnmetTasks(deps)]
      /\ declared' = [declared EXCEPT ![id] = Range(deps)]
      /\ IF Unmet(deps) = {}
           THEN Schedule(id, newTasks)
           ELSE tasks' = newTasks /\ UNCHANGED <<queue, nextStamp>>
      /\ UNCHANGED <<mutex, closed, attached, workerPc, running, runs, completed>>
  BY DEF AddLocked, Unmet, UnmetTasks
<1>4. newTask \in Records
  <2>1. <<>> \in Seq(TaskIds) /\ 0 \in 0..(StampRange - 1)
    BY BoundsAssumption
  <2> QED BY <1>2, <2>1 DEF Records
<1>5. ASSUME NEW d \in TaskIds \ {id}, IsValidId(d)
      PROVE  /\ newTasks[d] \in Records
             /\ newTasks[d].unmet = tasks[d].unmet
             /\ newTasks[d].affinity = tasks[d].affinity
             /\ newTasks[d].dependents = Copies(deps, d, id) \o tasks[d].dependents
  <2> DEFINE longer == Copies(deps, d, id) \o tasks[d].dependents
  <2>1. tasks[d] \in Records
    BY <1>5 DEF TypeOK, IsValidId
  <2>2. Copies(deps, d, id) \in Seq(TaskIds) /\ tasks[d].dependents \in Seq(TaskIds)
    <3>1. Cardinality(Positions(deps, d)) \in Nat
      BY <1>2, PositionsFinite
    <3> QED BY <1>1, <2>1, <3>1 DEF Copies, Records
  <2>3. longer \in Seq(TaskIds)
    BY <2>2
  <2>4. newTasks[d] = [tasks[d] EXCEPT !.dependents = longer]
    BY <1>5, <2>1 DEF Linked, Copies, Records
  <2> HIDE DEF longer, newTasks
  <2> QED BY <2>1, <2>3, <2>4 DEF Records, longer
<1>6. newTasks[id] = newTask
  BY <1>1 DEF Linked
<1>7. ASSUME NEW d \in TaskIds \ {id}, ~IsValidId(d)
      PROVE  newTasks[d] = tasks[d] /\ newTasks[d] = NoTask
  BY <1>7 DEF Linked, IsValidId
<1>8. newTasks \in [TaskIds -> Records \cup {NoTask}]
  <2>1. \A d \in TaskIds : newTasks[d] \in Records \cup {NoTask}
    BY <1>4, <1>5, <1>6, <1>7
  <2>2. newTasks = [d \in TaskIds |-> newTasks[d]]
    BY DEF Linked
  <2> HIDE DEF newTasks
  <2> QED BY <2>1, <2>2
<1>9. /\ newTask.unmet = Cardinality(Unmet(deps)) /\ newTask.dependents = <<>>
      /\ newTask.affinity = affinity
  OBVIOUS
<1> HIDE DEF newTask, newTasks
<1>10. CASE Unmet(deps) = {}
  <2>1. /\ tasks' = [newTasks EXCEPT ![id].stamp = nextStamp]
        /\ queue' = [queue EXCEPT ![newTasks[id].affinity] = <<id>> \o @]
        /\ nextStamp' = (nextStamp + 1) % StampRange
    BY <1>3, <1>10 DEF Schedule
  <2>2. nextStamp' \in 0..(StampRange - 1)
    BY <2>1, BoundsAssumption DEF TypeOK
  <2>3. tasks'[id] \in Records /\ tasks' \in [TaskIds -> Records \cup {NoTask}]
    BY <1>1, <1>4, <1>6, <1>8, <2>1 DEF TypeOK, Records
  <2>4. /\ tasks'[id].unmet = newTask.unmet
        /\ tasks'[id].affinity = newTask.affinity
        /\ tasks'[id].dependents = newTask.dependents
        /\ \A x \in TaskIds \ {id} : tasks'[x] = newTasks[x]
    BY <1>1, <1>4, <1>6, <1>8, <2>1 DEF Records
  <2>5. queue' = [queue EXCEPT ![tasks'[id].affinity] = <<id>> \o @]
    BY <1>6, <2>1, <2>4
  <2> QED BY <1>1, <1>2, <1>3, <1>5, <1>7, <1>9, <1>10, <2>2, <2>3, <2>4, <2>5
<1>11. CASE Unmet(deps) # {}
  BY <1>1, <1>2, <1>3, <1>4, <1>5, <1>6, <1>7, <1>8, <1>9, <1>11 DEF TypeOK
<1> QED BY <1>10, <1>11

\* The dependents linked to a task: the new one as often as it was named, and then
\* those it had.
LEMMA CopiesPositions ==
  ASSUME NEW deps \in Seq(TaskIds), NEW d \in TaskIds, NEW id \in TaskIds,
         NEW list \in Seq(TaskIds), NEW y, NEW n, n = Cardinality(Positions(deps, d))
  PROVE  /\ n \in Nat
         /\ \A i \in Int :
              i \in Positions(Copies(deps, d, id) \o list, y) <=>
                \/ i \in 1..n /\ y = id
                \/ i > n /\ i - n \in Positions(list, y)
<1>1. n \in Nat
  BY PositionsFinite
<1>2. /\ Copies(deps, d, id) \in Seq(TaskIds) /\ Len(Copies(deps, d, id)) = n
      /\ \A i \in Int : i \in Positions(Copies(deps, d, id), y) <=> i \in 1..n /\ y = id
  <2>1. Copies(deps, d, id) = [i \in 1..n |-> id]
    BY DEF Copies
  <2> QED BY <1>1, <2>1 DEF Positions
<1>3. \A i \in Int :
        i \in Positions(Copies(deps, d, id) \o list, y) <=>
          \/ i \in Positions(Copies(deps, d, id), y)
          \/ i > Len(Copies(deps, d, id)) /\ i - Len(Copies(deps, d, id)) \in Positions(list, y)
  BY <1>2, PutBefore
<1> QED BY <1>1, <1>2, <1>3

\* How the lists of dependents grow when a task named id is added: those in V get
\* it, as often as each was named.
Grown(D, E, deps, id, V) ==
  /\ D \in [TaskIds -> Seq(TaskIds)] /\ E \in [TaskIds -> Seq(TaskIds)]
  /\ deps \in Seq(TaskIds) /\ id \in TaskIds /\ V \in SUBSET TaskIds
  /\ \A d \in V : E[d] = Copies(deps, d, id) \o D[d]
  /\ \A d \in TaskIds \ V : E[d] = D[d]

\* A new task leaves the links of the others as many as they were.
LEMMA OtherLinks ==
  ASSUME NEW D, NEW E, NEW deps, NEW id, NEW V, Grown(D, E, deps, id, V),
         NEW y \in TaskIds, y # id
  PROVE  Cardinality(LinkSet(E, y)) = Cardinality(LinkSet(D, y))
<1>g. /\ D \in [TaskIds -> Seq(TaskIds)] /\ E \in [TaskIds -> Seq(TaskIds)]
      /\ deps \in Seq(TaskIds) /\ id \in TaskIds /\ V \in SUBSET TaskIds
  BY DEF Grown
<1>l. /\ \A d \in TaskIds, i \in Int : <<d, i>> \in LinkSet(D, y) <=> i \in Positions(D[d], y)
      /\ \A d \in TaskIds, i \in Int : <<d, i>> \in LinkSet(E, y) <=> i \in Positions(E[d], y)
  <2>1. \A d \in TaskIds, i \in Int : <<d, i>> \in LinkSet(D, y) <=> i \in Positions(D[d], y)
    BY <1>g, LinkMember
  <2>2. \A d \in TaskIds, i \in Int : <<d, i>> \in LinkSet(E, y) <=> i \in Positions(E[d], y)
    BY <1>g, LinkMember
  <2> QED BY <2>1, <2>2
<1> USE <1>g DEF Grown
<1> DEFINE A == LinkSet(D, y)
           B == LinkSet(E, y)
           by == [d \in TaskIds |-> IF d \in V THEN Cardinality(Positions(deps, d)) ELSE 0]
<1>1. /\ A \in SUBSET (TaskIds \X Nat) /\ B \in SUBSET (TaskIds \X Nat)
      /\ IsFiniteSet(A)
      /\ \A d \in TaskIds, i \in Int : <<d, i>> \in A <=> i \in Positions(D[d], y)
      /\ \A d \in TaskIds, i \in Int : <<d, i>> \in B <=> i \in Positions(E[d], y)
  <2>1. LinkSet(D, y) \subseteq TaskIds \X Nat /\ LinkSet(E, y) \subseteq TaskIds \X Nat
    BY LinkMember
  <2> QED BY <1>l, <2>1, LinksFinite
<1>2. by \in [TaskIds -> Int]
  <2>1. \A d \in TaskIds : Cardinality(Positions(deps, d)) \in Nat
    BY PositionsFinite
  <2> QED BY <2>1
<1> HIDE DEF A, B
<1>3. ASSUME NEW d \in TaskIds, NEW i \in Int
      PROVE  <<d, i>> \in A <=> <<d, i + by[d]>> \in B
  <2>1. CASE d \in V
    <3> DEFINE n == Cardinality(Positions(deps, d))
    <3>1. by[d] = n /\ n \in Nat
      BY <2>1, PositionsFinite
    <3>2. E[d] = Copies(deps, d, id) \o D[d] /\ D[d] \in Seq(TaskIds)
      BY <2>1
    <3>3. \A j \in Int :
            j \in Positions(E[d], y) <=> j > n /\ j - n \in Positions(D[d], y)
      BY <3>2, CopiesPositions
    <3>4. i \in Positions(D[d], y) => i > 0
      BY <3>2 DEF Positions
    <3> HIDE DEF n
    <3>5. i + n \in Int /\ (i + n) - n = i /\ (i > 0 => i + n > n)
      BY <3>1
    <3>6. i + n \in Positions(E[d], y) <=> i \in Positions(D[d], y)
      BY <3>3, <3>4, <3>5
    <3> QED BY <1>1, <3>1, <3>5, <3>6
  <2>2. CASE d \notin V
    <3>1. by[d] = 0 /\ i + by[d] = i
      BY <2>2
    <3> QED BY <1>1, <2>2, <3>1
  <2> QED BY <2>1, <2>2
<1> HIDE DEF by
<1> QED BY <1>1, <1>2, <1>3, LinksMoved DEF A, B

\* It has itself as many links as valid ids were named for it.
LEMMA NewLinks ==
  ASSUME NEW D, NEW E, NEW deps, NEW id, NEW V, Grown(D, E, deps, id, V),
         LinkSet(D, id) = {}
  PROVE  Cardinality(LinkSet(E, id)) = Cardinality(NamesOf(deps, V))
<1>g. /\ D \in [TaskIds -> Seq(TaskIds)] /\ E \in [TaskIds -> Seq(TaskIds)]
      /\ deps \in Seq(TaskIds) /\ id \in TaskIds /\ V \in SUBSET TaskIds
  BY DEF Grown
<1>l. \A d \in TaskIds, i \in Int : <<d, i>> \in LinkSet(E, id) <=> i \in Positions(E[d], id)
  BY <1>g, LinkMember
<1> USE <1>g DEF Grown, NamesOf
<1> DEFINE B == LinkSet(E, id)
           P == [d \in TaskIds |-> Positions(deps, d)]
           C == [d \in TaskIds |-> Cardinality(Positions(deps, d))]
           number == [d \in TaskIds |-> CHOOSE f \in Bijection(1..C[d], P[d]) : TRUE]
           S == NamesOf(deps, V)
           F == [p \in B |-> number[p[1]][p[2]]]
<1>0. \A d \in TaskIds : P[d] = Positions(deps, d) /\ C[d] = Cardinality(P[d])
  OBVIOUS
<1>1. ASSUME NEW d \in TaskIds
      PROVE  /\ C[d] \in Nat
             /\ number[d] \in [1..C[d] -> P[d]]
             /\ \A i, j \in 1..C[d] : number[d][i] = number[d][j] => i = j
             /\ \A k \in P[d] : \E i \in 1..C[d] : number[d][i] = k
  <2>1. C[d] \in Nat /\ ExistsBijection(1..C[d], P[d])
    <3>1. IsFiniteSet(P[d])
      BY <1>0, PositionsFinite
    <3> HIDE DEF P, C
    <3> QED BY <1>0, <3>1, FS_CardinalityType
  <2>2. number[d] = CHOOSE f \in Bijection(1..C[d], P[d]) : TRUE
    OBVIOUS
  <2> HIDE DEF number, P, C
  <2>3. number[d] \in Bijection(1..C[d], P[d])
    BY <2>1, <2>2 DEF ExistsBijection
  <2> QED BY <2>1, <2>3 DEF Bijection, Injection, Surjection, IsInjective
<1> HIDE DEF number, P, C
<1>2. /\ B \subseteq TaskIds \X Nat
      /\ \A d \in TaskIds, i \in Int : <<d, i>> \in B <=> d \in V /\ i \in 1..C[d]
  <2>1. LinkSet(E, id) \subseteq TaskIds \X Nat
    BY LinkMember
  <2>3. \A d \in TaskIds, i \in Int : i \notin Positions(D[d], id)
    <3>1. \A d \in TaskIds, i \in Int : <<d, i>> \in LinkSet(D, id) <=> i \in Positions(D[d], id)
      BY LinkMember
    <3> QED BY <3>1
  <2>4. ASSUME NEW d \in V, NEW i \in Int
        PROVE  i \in Positions(E[d], id) <=> i \in 1..C[d]
    <3>1. d \in TaskIds /\ D[d] \in Seq(TaskIds) /\ E[d] = Copies(deps, d, id) \o D[d]
      OBVIOUS
    <3>2. C[d] \in Nat /\ C[d] = Cardinality(Positions(deps, d))
      BY <1>0, <1>1, <3>1
    <3>3. i \in Positions(E[d], id) <=>
               \/ i \in 1..C[d] /\ id = id
               \/ i > C[d] /\ i - C[d] \in Positions(D[d], id)
      BY <3>1, <3>2, CopiesPositions
    <3>4. i > C[d] => i - C[d] \in Int
      BY <3>2
    <3> QED BY <2>3, <3>1, <3>3, <3>4
  <2>5. \A d \in TaskIds \ V, i \in Int : i \notin Positions(E[d], id)
    BY <2>3
  <2> QED BY <1>l, <2>1, <2>4, <2>5
<1>3. ASSUME NEW p \in B
      PROVE  /\ p = <<p[1], p[2]>> /\ p[1] \in V /\ p[1] \in TaskIds
             /\ p[2] \in 1..C[p[1]]
             /\ F[p] \in DOMAIN deps /\ deps[F[p]] = p[1] /\ F[p] = number[p[1]][p[2]]
  <2>1. p = <<p[1], p[2]>> /\ p[1] \in TaskIds /\ p[2] \in Int
    BY <1>2
  <2>2. p[1] \in V /\ p[2] \in 1..C[p[1]]
    BY <1>2, <2>1
  <2>3. F[p] = number[p[1]][p[2]]
    OBVIOUS
  <2>4. number[p[1]][p[2]] \in P[p[1]]
    BY <1>1, <2>1, <2>2
  <2>5. number[p[1]][p[2]] \in DOMAIN deps /\ deps[number[p[1]][p[2]]] = p[1]
    BY <1>0, <2>1, <2>4 DEF Positions
  <2> QED BY <2>1, <2>2, <2>3, <2>5
<1>4. F \in [B -> S]
  BY <1>3
<1>5. ASSUME NEW p \in B, NEW q \in B, F[p] = F[q] PROVE p = q
  <2>1. /\ p = <<p[1], p[2]>> /\ p[1] \in TaskIds /\ p[2] \in 1..C[p[1]]
        /\ deps[F[p]] = p[1] /\ F[p] = number[p[1]][p[2]]
    BY <1>3
  <2>2. /\ q = <<q[1], q[2]>> /\ q[2] \in 1..C[q[1]]
        /\ deps[F[q]] = q[1] /\ F[q] = number[q[1]][q[2]]
    BY <1>3
  <2> HIDE DEF F
  <2>3. p[1] = q[1]
    BY <1>5, <2>1, <2>2
  <2>4. number[p[1]][p[2]] = number[p[1]][q[2]] /\ q[2] \in 1..C[p[1]]
    BY <1>5, <2>1, <2>2, <2>3
  <2>5. p[2] = q[2]
    BY <1>1, <2>1, <2>4
  <2> QED BY <2>1, <2>2, <2>3, <2>5
<1>6. ASSUME NEW k \in S PROVE \E p \in B : F[p] = k
  <2>1. k \in DOMAIN deps /\ deps[k] \in V /\ deps[k] \in TaskIds /\ k \in P[deps[k]]
    BY <1>0 DEF Positions
  <2>2. PICK i \in 1..C[deps[k]] : number[deps[k]][i] = k
    BY <1>1, <2>1
  <2>3. <<deps[k], i>> \in B
    <3>1. i \in Int
      BY <1>1, <2>1
    <3> QED BY <1>2, <2>1, <2>2, <3>1
  <2>4. F[<<deps[k], i>>] = k
    BY <2>2, <2>3
  <2> QED BY <2>3, <2>4
<1>7. IsFiniteSet(B)
  BY LinksFinite
<1> HIDE DEF F, B
<1>8. Cardinality(S) = Cardinality(B)
  BY <1>4, <1>5, <1>6, <1>7, SameSize
<1> QED BY <1>8 DEF B

\* The new task has a link for each unmet dependency it counts; the others keep
\* theirs, and if it counts none it is queued at once.
LEMMA AddLockedStep ==
  ASSUME NEW t \in adding, NEW deps \in DepLists, NEW affinity \in Queues,
         NEW hasClosure \in BOOLEAN, ExecutorInv,
         AddLocked(t, deps, affinity, hasClosure)
  PROVE  ExecutorInv'
<1>i. PICK id : id = added + 1
  OBVIOUS
<1>v. PICK V : V = {d \in TaskIds : IsValidId(d)}
  OBVIOUS
<1>a. AddOutcome(t, deps, affinity, id)
  BY <1>i, AddEffect
<1>0. /\ id \in TaskIds /\ ~IsValidId(id)
      /\ deps \in Seq(TaskIds) /\ IsFiniteSet(Unmet(deps))
      /\ Range(deps) \subseteq 1..added
      /\ tasks' \in [TaskIds -> Records \cup {NoTask}]
      /\ tasks'[id] \in Records
      /\ tasks'[id].unmet = Cardinality(Unmet(deps))
      /\ tasks'[id].dependents = <<>> /\ tasks'[id].affinity = affinity
      /\ \A d \in TaskIds \ {id} :
           /\ ~IsValidId(d) => tasks'[d] = tasks[d]
           /\ IsValidId(d) =>
                /\ tasks'[d] \in Records
                /\ tasks'[d].unmet = tasks[d].unmet
                /\ tasks'[d].affinity = tasks[d].affinity
                /\ tasks'[d].dependents = Copies(deps, d, id) \o tasks[d].dependents
      /\ nextStamp' \in 0..(StampRange - 1)
      /\ \/ /\ tasks'[id].unmet = 0
            /\ queue' = [queue EXCEPT ![tasks'[id].affinity] = <<id>> \o @]
         \/ tasks'[id].unmet # 0 /\ queue' = queue
      /\ added' = id /\ adding' = adding \ {t}
      /\ awaited' = [awaited EXCEPT ![id] = UnmetTasks(deps)]
      /\ declared' = [declared EXCEPT ![id] = Range(deps)]
      /\ UNCHANGED <<mutex, closed, attached, workerPc, running, runs, completed>>
  BY <1>a DEF AddOutcome
<1> USE EntryAssumption DEF ExecutorInv
<1>2. /\ added \in Nat /\ id \in Nat /\ id \notin 1..added /\ 1..id \subseteq TaskIds
      /\ id \in 0..MaxTasks /\ runs[id] = 0
  BY <1>i, <1>0, BoundsAssumption DEF TypeOK, TaskIds, IssueInv
<1>3. /\ IsValidId(id)'
      /\ \A d \in TaskIds \ {id} : IsValidId(d)' = IsValidId(d)
  BY <1>0 DEF IsValidId
<1>4. TypeOK'
  <2>1. queue' \in [Queues -> Seq(TaskIds)]
    <3>1. <<id>> \o queue[affinity] \in Seq(TaskIds)
      BY <1>0, PushPositions DEF TypeOK
    <3> QED BY <1>0, <3>1 DEF TypeOK
  <2>2. awaited' \in [TaskIds -> SUBSET TaskIds]
    <3>1. UnmetTasks(deps) \in SUBSET TaskIds
      BY <1>0 DEF Unmet, UnmetTasks
    <3> QED BY <1>0, <3>1 DEF TypeOK
  <2>3. declared' \in [TaskIds -> SUBSET TaskIds]
    <3>1. Range(deps) \in SUBSET TaskIds
      BY <1>0, <1>2, BoundsAssumption DEF TypeOK, TaskIds
    <3> QED BY <1>0, <3>1 DEF TypeOK
  <2>4. adding' \subseteq Clients \cup Workers /\ added' \in 0..MaxTasks
    BY <1>0, <1>2 DEF TypeOK
  <2> QED BY <1>0, <2>1, <2>2, <2>3, <2>4 DEF TypeOK
<1>5. LockInv'
  BY <1>0 DEF LockInv
<1>6. HeldInv'
  <2>1. \A w \in Workers : workerPc[w] \in {"running", "signal"} =>
          /\ running[w].id \in 1..added' /\ running[w].id \in TaskIds \ {id}
    BY <1>0, <1>2, <1>i DEF HeldInv
  <2>2. \A w \in Workers : workerPc[w] \in {"running", "signal"} =>
          tasks'[running[w].id] = NoTask
    BY <1>0, <2>1 DEF HeldInv, IsValidId
  <2> QED BY <1>0, <2>1, <2>2 DEF HeldInv, IsValidId
<1>7. IssueInv'
  <2>1. \A x \in TaskIds : x > added' => ~IsValidId(x)' /\ runs'[x] = 0
    BY <1>0, <1>2, <1>3, <1>i DEF IssueInv, TaskIds
  <2>2. completed' \subseteq 1..added'
    BY <1>0, <1>2, <1>i DEF IssueInv
  <2>3. IsFiniteSet(adding') /\ added' + Cardinality(adding') <= MaxTasks
    <3>1. /\ IsFiniteSet(adding')
          /\ Cardinality(adding') = Cardinality(adding) - 1
          /\ Cardinality(adding) \in Nat
      BY <1>0, FS_RemoveElement, FS_CardinalityType DEF IssueInv
    <3> QED BY <1>0, <1>2, <1>i, <3>1, BoundsAssumption DEF IssueInv
  <2> QED BY <2>1, <2>2, <2>3 DEF IssueInv
<1>8. ListsKnown /\ ListsKnown'
  BY <1>4, <1>6, KnownLists, KnownListsNext
<1>d. PICK D : D = DependentLists
  OBVIOUS
<1>e. PICK E : E = DependentLists'
  OBVIOUS
<1>9. /\ D \in [TaskIds -> Seq(TaskIds)] /\ E \in [TaskIds -> Seq(TaskIds)]
      /\ \A x \in TaskIds : Links(x) = LinkSet(D, x) /\ Links(x)' = LinkSet(E, x)
      /\ \A d \in TaskIds : Dependents(d) = D[d] /\ Dependents(d)' = E[d]
  BY <1>8, <1>d, <1>e DEF ListsKnown, DependentLists, LinkSet
<1>10. V \in SUBSET TaskIds /\ id \notin V
  BY <1>0, <1>v
<1>11. ASSUME NEW d \in V PROVE E[d] = Copies(deps, d, id) \o D[d]
  <2>1. d \in TaskIds \ {id} /\ IsValidId(d) /\ IsValidId(d)'
    BY <1>3, <1>10, <1>v
  <2>2. D[d] = tasks[d].dependents /\ E[d] = tasks'[d].dependents
    BY <1>8, <1>9, <2>1 DEF ListsKnown
  <2> QED BY <1>0, <2>1, <2>2
<1>12. ASSUME NEW d \in TaskIds \ V PROVE E[d] = D[d]
  <2>1. ~IsValidId(d)
    BY <1>v
  <2>2. CASE d = id
    <3>1. \A w \in Workers : running[w].id \in 1..added \/ running[w].id = 0
      BY DEF HeldInv, NoRecord, TypeOK
    <3>5. \A w \in Workers : running[w].id # d
      BY <1>0, <1>2, <2>2, <3>1 DEF TaskIds
    <3>2. D[d] = <<>>
      BY <1>8, <1>9, <2>1, <3>5 DEF ListsKnown
    <3>3. E[d] = <<>>
      BY <1>0, <1>3, <1>8, <1>9, <2>2 DEF ListsKnown
    <3> QED BY <3>2, <3>3
  <2>3. CASE d # id
    <3>1. ~IsValidId(d)' /\ d \in TaskIds \ {id}
      BY <1>3, <2>1, <2>3
    <3>2. CASE \E w \in Workers : running[w].id = d
      <4>1. PICK w \in Workers : running[w].id = d
        BY <3>2
      <4>2. running'[w].id = d /\ running'[w] = running[w]
        BY <1>0, <4>1
      <4>3. Dependents(d) = running[w].dependents
        BY <1>8, <4>1 DEF ListsKnown
      <4>4. Dependents(d)' = running'[w].dependents
        BY <1>8, <4>2 DEF ListsKnown
      <4> QED BY <1>9, <4>2, <4>3, <4>4
    <3>3. CASE \A w \in Workers : running[w].id # d
      <4>1. \A w \in Workers : running'[w].id # d
        BY <1>0, <3>3
      <4> QED BY <1>8, <1>9, <2>1, <3>1, <3>3, <4>1 DEF ListsKnown
    <3> QED BY <3>2, <3>3
  <2> QED BY <2>2, <2>3
<1>g. Grown(D, E, deps, id, V)
  BY <1>0, <1>9, <1>10, <1>11, <1>12 DEF Grown
<1>13. CountsMatch'
  <2> SUFFICES ASSUME NEW x \in TaskIds
               PROVE  Cardinality(Links(x)') =
                        IF IsValidId(x)' THEN tasks'[x].unmet ELSE 0
    BY DEF CountsMatch
  <2>1. Cardinality(LinkSet(D, x)) = IF IsValidId(x) THEN tasks[x].unmet ELSE 0
    BY <1>9 DEF CountsMatch
  <2>2. CASE x = id
    <3>1. LinkSet(D, id) = {}
      BY <1>0, <1>9, <2>1, <2>2, LinksFinite
    <3>2. NamesOf(deps, V) = Unmet(deps)
      BY <1>0, <1>v DEF Unmet, NamesOf
    <3>3. Cardinality(LinkSet(E, id)) = Cardinality(NamesOf(deps, V))
      BY <1>g, <3>1, NewLinks
    <3> QED BY <1>0, <1>3, <1>9, <2>2, <3>2, <3>3
  <2>3. CASE x # id
    <3>1. Cardinality(LinkSet(E, x)) = Cardinality(LinkSet(D, x))
      BY <1>g, <2>3, OtherLinks
    <3> QED BY <1>0, <1>3, <1>9, <2>1, <2>3, <3>1
  <2> QED BY <2>2, <2>3
<1>14. AwaitInv'
  <2> SUFFICES ASSUME NEW x \in TaskIds, IsValidId(x)', NEW d \in awaited'[x]
               PROVE  d \in completed \/ Positions(E[d], x) # {}
    <3>1. \A y \in TaskIds : awaited'[y] \subseteq TaskIds
      BY <1>4 DEF TypeOK
    <3>2. \A d \in TaskIds, y \in TaskIds : Positions(E[d], y) = Positions(Dependents(d)', y)
      BY <1>9
    <3> QED BY <1>0, <3>1, <3>2 DEF AwaitInv
  <2>1. d \in TaskIds
    BY <1>4 DEF TypeOK
  <2>2. CASE x = id
    <3>1. PICK i \in Unmet(deps) : d = deps[i]
      BY <1>0, <2>2 DEF TypeOK, UnmetTasks
    <3>2. d \in V /\ i \in Positions(deps, d)
      BY <1>v, <2>1, <3>1 DEF Unmet, Positions
    <3>n. PICK n : n = Cardinality(Positions(deps, d))
      OBVIOUS
    <3>3. n \in Nat /\ n # 0
      BY <1>0, <3>2, <3>n, PositionsFinite
    <3>4. 1 \in Positions(Copies(deps, d, id) \o D[d], id)
      <4>1. /\ D[d] \in Seq(TaskIds)
            /\ 1 \in 1..n
        BY <1>9, <2>1, <3>3
      <4>2. \A i1 \in Int :
              i1 \in Positions(Copies(deps, d, id) \o D[d], id) <=>
                \/ i1 \in 1..n /\ id = id
                \/ i1 > n /\ i1 - n \in Positions(D[d], id)
        BY <1>0, <2>1, <3>n, <4>1, CopiesPositions
      <4> QED BY <4>1, <4>2
    <3> QED BY <1>11, <2>2, <3>2, <3>4
  <2>3. CASE x # id
    <3>1. IsValidId(x) /\ d \in awaited[x]
      BY <1>0, <1>3, <2>3 DEF TypeOK
    <3>2. d \in completed \/ Positions(D[d], x) # {}
      BY <1>9, <2>1, <3>1 DEF AwaitInv
    <3>3. CASE d \in V /\ Positions(D[d], x) # {}
      <4>1. PICK i \in Positions(D[d], x) : TRUE
        BY <3>3
      <4>n. PICK n : n = Cardinality(Positions(deps, d))
        OBVIOUS
      <4>2. D[d] \in Seq(TaskIds)
        BY <1>9, <2>1
      <4>3. /\ n \in Nat
            /\ \A j \in Int :
                 j \in Positions(Copies(deps, d, id) \o D[d], x) <=>
                   \/ j \in 1..n /\ x = id
                   \/ j > n /\ j - n \in Positions(D[d], x)
        BY <1>0, <2>1, <4>2, <4>n, CopiesPositions
      <4>4. i \in Int /\ i > 0
        BY <4>1, <4>2 DEF Positions
      <4>5. i + n \in Int /\ i + n > n /\ (i + n) - n = i
        BY <4>3, <4>4
      <4>6. i + n \in Positions(Copies(deps, d, id) \o D[d], x)
        BY <4>1, <4>3, <4>5
      <4> QED BY <1>11, <3>3, <4>6
    <3>4. CASE d \notin V
      BY <1>12, <2>1, <3>2, <3>4
    <3> QED BY <3>2, <3>3, <3>4
  <2> QED BY <2>2, <2>3
<1>15. ReadyIffQueued'
  BY <1>0, <1>3, <1>4, Pushed
<1>16. Accounted'
  <2> SUFFICES ASSUME NEW x \in 1..id
               PROVE  /\ runs[x] = IF IsValidId(x)' THEN 0 ELSE 1
                      /\ runs[x] = 1 => \/ x \in completed
                                        \/ \E w \in Workers : /\ running[w].id = x
                                                              /\ workerPc[w] = "running"
    BY <1>0 DEF Accounted
  <2>1. x = id \/ (x \in 1..added /\ x \in TaskIds \ {id})
    <3>1. x \in TaskIds
      BY <1>2
    <3> QED BY <1>2, <1>i, <3>1
  <2> QED BY <1>2, <1>3, <2>1 DEF Accounted
<1>17. RunsAfterDependencies'
  BY <1>0, <1>2 DEF RunsAfterDependencies, TypeOK
<1> QED BY <1>4, <1>5, <1>6, <1>7, <1>13, <1>14, <1>15, <1>16, <1>17

-----------------------------------------------------------------------------
\* The theorems.

\* Every step keeps the invariant.
LEMMA NextStep == ExecutorInv /\ [Next]_vars => ExecutorInv'
<1> SUFFICES ASSUME ExecutorInv, [Next]_vars PROVE ExecutorInv'
  OBVIOUS
<1>1. CASE \E t \in Clients \cup Workers : AddCheck(t)
  BY <1>1, AddCheckStep
<1>2. CASE Add
  BY <1>2, AddLockedStep DEF Add
<1>3. ASSUME NEW w \in Workers, WorkerNext(w) PROVE ExecutorInv'
  <2>1. CASE \E q \in Queues : Pop(w, q)
    BY <2>1, PopStep
  <2>2. CASE \/ EnterCheck(w) \/ Enter(w) \/ Release(w) \/ PollClosed(w)
             \/ PollOpen(w)
    BY <2>2, IdleStep
  <2>3. CASE Finish(w)
    BY <2>3, FinishStep
  <2>4. CASE SignalOne(w)
    BY <2>4, SignalOneStep
  <2>5. CASE SignalDone(w)
    BY <2>5, SignalDoneStep
  <2> QED BY <1>3, <2>1, <2>2, <2>3, <2>4, <2>5 DEF WorkerNext
<1>4. CASE Close
  BY <1>4, IdleStep
<1>5. CASE UNCHANGED vars
  <2> USE <1>5 DEF vars, history, ExecutorInv
  <2>1. AwaitInv' /\ ReadyIffQueued' /\ CountsMatch' /\ RunsAfterDependencies'
    BY TasksAlone
  <2>2. TypeOK' /\ LockInv' /\ HeldInv' /\ IssueInv' /\ Accounted'
    BY DEF TypeOK, LockInv, HeldInv, IssueInv, Accounted, IsValidId
  <2> QED BY <2>1, <2>2
<1> QED BY <1>1, <1>2, <1>3, <1>4, <1>5 DEF Next

\* The invariant holds in every reachable state.
THEOREM Invariance == Spec => []ExecutorInv
<1> QED BY InitInv, NextStep, PTL DEF Spec

\* Every variable has its type.
THEOREM TypeCorrect == Spec => []TypeOK
<1>1. ExecutorInv => TypeOK
  BY DEF ExecutorInv
<1> QED BY <1>1, Invariance, PTL

\* executor.hpp:67: a task is in the list of its affinity, once, exactly while it
\* waits for nothing and has not been popped, and in no other list.
THEOREM ListsRight == Spec => []ReadyIffQueued
<1>1. ExecutorInv => ReadyIffQueued
  BY DEF ExecutorInv
<1> QED BY <1>1, Invariance, PTL

\* num_unmet_dependencies counts the signals still to come, wherever the list
\* that holds them is: add_task, pop_task and signal_dependents lose none and
\* send none twice.
THEOREM CountsRight == Spec => []CountsMatch
<1>1. ExecutorInv => CountsMatch
  BY DEF ExecutorInv
<1> QED BY <1>1, Invariance, PTL

\* A task that was popped was linked only to tasks that have completed.
THEOREM OrderKept == Spec => []RunsAfterDependencies
<1>1. ExecutorInv => RunsAfterDependencies
  BY DEF ExecutorInv
<1> QED BY <1>1, Invariance, PTL

\* Every task is run at most once and none is forgotten.
THEOREM EachOnce == Spec => []Accounted
<1>1. ExecutorInv => Accounted
  BY DEF ExecutorInv
<1> QED BY <1>1, Invariance, PTL

\* A step by which a worker comes to hold a task takes it from the front of a
\* list the worker may look at, and it is the older of the two fronts.
LEMMA ShareStep ==
  ASSUME ExecutorInv, [Next]_vars, NEW w \in Workers,
         running'[w].id # running[w].id, running'[w].id # 0
  PROVE  LET task == tasks[running'[w].id]
             own == WorkerAffinity[w]
         IN /\ task.affinity \in {NoAffinity, own}
            /\ \A q \in {NoAffinity, own} :
                  queue[q] # <<>> => task.stamp <= tasks[Head(queue[q])].stamp
<1> USE DEF ExecutorInv
<1>1. PICK q \in Queues : Pop(w, q)
  <2>1. ASSUME NEW v \in Workers, NEW q \in Queues, Pop(v, q) PROVE v = w
    BY <2>1 DEF Pop, TypeOK
  <2>2. ASSUME NEW v \in Workers, WorkerNext(v), \A q \in Queues : ~Pop(v, q)
        PROVE  \/ running' = running
               \/ running' = [running EXCEPT ![v] = NoRecord]
               \/ running' = [running EXCEPT ![v].dependents = Tail(@)]
    BY <2>2 DEF WorkerNext, EnterCheck, Enter, Release, PollClosed, PollOpen,
                Finish, SignalOne, SignalDone
  <2>3. ASSUME NEW v \in Workers, WorkerNext(v), \A q \in Queues : ~Pop(v, q)
        PROVE  FALSE
    <3>1. \/ running' = running
          \/ running' = [running EXCEPT ![v] = NoRecord]
          \/ running' = [running EXCEPT ![v].dependents = Tail(@)]
      BY <2>2, <2>3
    <3>2. running \in [Workers -> [id : 0..MaxTasks, dependents : Seq(TaskIds)]]
      BY DEF TypeOK
    <3>3. CASE running' = [running EXCEPT ![v] = NoRecord]
      BY <3>2, <3>3 DEF NoRecord
    <3>4. CASE running' = [running EXCEPT ![v].dependents = Tail(@)]
      BY <3>2, <3>4
    <3> QED BY <3>1, <3>3, <3>4
  <2>4. running' # running
    OBVIOUS
  <2>5. \E v \in Workers : WorkerNext(v)
    BY <2>4 DEF Next, Add, AddCheck, AddLocked, Close, vars
  <2> QED BY <2>1, <2>3, <2>5
<1>2. PICK own : own = WorkerAffinity[w]
  OBVIOUS
<1>3. PICK id : id = Head(queue[q])
  OBVIOUS
<1>4. own \in Queues /\ NoAffinity \in Queues
  BY <1>2, AffinityAssumption DEF Queues
<1>5. Chosen(w, q) /\ queue[q] # <<>> /\ running'[w].id = id
  BY <1>1, <1>3 DEF Pop, Chosen, TypeOK
<1>6. \A p \in Queues : queue[p] # <<>> =>
        /\ tasks[Head(queue[p])] \in Records
        /\ tasks[Head(queue[p])].affinity = p
  BY FrontIsReady
<1>7. \A p \in Queues : queue[p] # <<>> => tasks[Head(queue[p])].stamp \in Int
  BY <1>6, BoundsAssumption DEF Records
<1>8. q \in {NoAffinity, own} /\ tasks[id].affinity = q
  BY <1>2, <1>3, <1>5, <1>6 DEF Chosen, HasAffinity
<1>9. ASSUME NEW p \in {NoAffinity, own}, queue[p] # <<>>
      PROVE  tasks[id].stamp <= tasks[Head(queue[p])].stamp
  <2>1. CASE p = q
    BY <1>3, <1>4, <1>7, <1>9, <2>1
  <2>2. CASE p # q
    <3>1. /\ HasAffinity(w) /\ queue[own] # <<>> /\ queue[NoAffinity] # <<>>
          /\ q = IF OlderFront(NoAffinity, own) THEN NoAffinity ELSE own
      BY <1>2, <1>5, <1>8, <1>9, <2>2 DEF Chosen, HasAffinity
    <3> QED BY <1>3, <1>4, <1>7, <1>8, <1>9, <2>2, <3>1 DEF OlderFront
  <2> QED BY <2>1, <2>2
<1> QED BY <1>2, <1>5, <1>8, <1>9

\* executor.cpp:77 and executor.hpp:80: a worker takes the older of the two front
\* tasks, and only its own affinity's or one that has none.
THEOREM ShareTaken == Spec => TakesItsShare
<1>1. ExecutorInv /\ [Next]_vars =>
        [\A w \in Workers : running'[w].id # running[w].id /\ running'[w].id # 0 =>
           LET task == tasks[running'[w].id]
               own == WorkerAffinity[w]
           IN /\ task.affinity \in {NoAffinity, own}
              /\ \A q \in {NoAffinity, own} :
                    queue[q] # <<>> => task.stamp <= tasks[Head(queue[q])].stamp
        ]_vars
  BY ShareStep
<1> QED BY <1>1, Invariance, PTL DEF Spec, TakesItsShare
=============================================================================
