------------------------------ MODULE IdVector ------------------------------
(***************************************************************************)
(* proto/id_vector.hpp: a fixed array of slots handed out without a lock.  *)
(* An id is a slot index and a tag.  The free slots form a list through    *)
(* the index part of their id words, from free_head_; a used slot has its  *)
(* own index there, and its id word is the id of the element.  The tags    *)
(* grow with every change: that of a slot to make its old ids invalid,     *)
(* that of free_head_ to let a compare and exchange see that the list      *)
(* changed under it.                                                       *)
(*                                                                         *)
(* A step ends at an access to free_head_ or to the id word of a slot that *)
(* another thread may touch.  The n-th element stored is the number n, and *)
(* handles[n] is the id emplace returned for it.  Any thread may erase any *)
(* id that was returned, also one that is being erased or was erased       *)
(* before, as a caller of an idempotent erase may.  move_from makes the    *)
(* same steps as erase.                                                    *)
(***************************************************************************)
EXTENDS Integers, Sequences, FiniteSets, SequencesExt

CONSTANTS Threads,     \* the threads that call the vector
          Capacity,    \* CAPACITY: the number of slots
          TagRange,    \* how many values a tag has
          MaxElements  \* bound: the number of elements stored

ASSUME RangeAssumption == /\ Capacity \in Nat \ {0}
                          /\ TagRange \in Nat \ {0}
                          /\ MaxElements \in Nat
ASSUME ThreadAssumption == IsFiniteSet(Threads)

VARIABLES freeHead,  \* free_head_
          slots,     \* the id word of each slot
          payload,   \* the element in each slot, 0 for none
          handles,   \* history: the id returned for each element
          pc,        \* where each thread is
          mirror,    \* head_mirror of each thread
          next,      \* new_head_index of a thread in acquire_slot
          owned,     \* the slot a thread works on
          target,    \* the element whose id a thread erases
          victim     \* history: the element a thread destroyed

locals == <<mirror, next, owned, target, victim>>
vars == <<freeHead, slots, payload, handles, pc, locals>>

Indices == 0..(Capacity - 1)
Invalid == Capacity          \* INVALID
Words == [tag : 0..(TagRange - 1), index : 0..Capacity]

\* increment_tag_and_reset and reset_index.
Retagged(word, index) == [tag |-> (word.tag + 1) % TagRange, index |-> index]
Redirected(word, index) == [word EXCEPT !.index = index]

\* init_empty.  The tags start at values derived from the vector's address, but
\* are only compared for equality.
EmptyHead == [tag |-> 0, index |-> 0]
EmptySlots == [i \in Indices |-> [tag |-> 0, index |-> i + 1]]

Init == /\ freeHead = EmptyHead
        /\ slots = EmptySlots
        /\ payload = [i \in Indices |-> 0]
        /\ handles = <<>>
        /\ pc = [t \in Threads |-> "idle"]
        /\ mirror = [t \in Threads |-> EmptyHead]
        /\ next = [t \in Threads |-> 0]
        /\ owned = [t \in Threads |-> 0]
        /\ target = [t \in Threads |-> 0]
        /\ victim = [t \in Threads |-> 0]

Moves(t, from, to) == pc[t] = from /\ pc' = [pc EXCEPT ![t] = to]

LoadHead(t) == mirror' = [mirror EXCEPT ![t] = freeHead]

Storing == {t \in Threads : pc[t] \in {"next", "acquire", "mark"}}

-----------------------------------------------------------------------------
\* emplace and acquire_slot.  A vector that is full is left as it is.

AcquireLoad(t) == /\ Moves(t, "idle", "next")
                  /\ Len(handles) + Cardinality(Storing) < MaxElements
                  /\ freeHead.index # Invalid
                  /\ LoadHead(t)
                  /\ UNCHANGED <<freeHead, slots, payload, handles, next,
                                 owned, target, victim>>

AcquireNext(t) == /\ Moves(t, "next", "acquire")
                  /\ next' = [next EXCEPT ![t] = slots[mirror[t].index].index]
                  /\ UNCHANGED <<freeHead, slots, payload, handles, mirror,
                                 owned, target, victim>>

\* Mutant: the head is stored without a comparison.
AcquireExchange_Blind(t) ==
  /\ Moves(t, "acquire", "mark")
  /\ freeHead' = Retagged(mirror[t], next[t])
  /\ owned' = [owned EXCEPT ![t] = mirror[t].index]
  /\ UNCHANGED <<slots, payload, handles, mirror, next, target, victim>>

\* Mutant: the new head is taken for the slot acquired.
AcquireExchange_TakesNext(t) ==
  /\ Moves(t, "acquire", "mark")
  /\ freeHead = mirror[t]
  /\ freeHead' = Retagged(mirror[t], next[t])
  /\ owned' = [owned EXCEPT ![t] = next[t]]
  /\ UNCHANGED <<slots, payload, handles, mirror, next, target, victim>>

AcquireExchange(t) ==
  /\ Moves(t, "acquire", "mark")
  /\ freeHead = mirror[t]
  /\ freeHead' = Retagged(mirror[t], next[t])
  /\ owned' = [owned EXCEPT ![t] = mirror[t].index]
  /\ UNCHANGED <<slots, payload, handles, mirror, next, target, victim>>

\* The exchange failed, perhaps spuriously, and the loop begins again.
AcquireRetry(t) ==
  /\ Moves(t, "acquire", IF freeHead.index = Invalid THEN "idle" ELSE "next")
  /\ LoadHead(t)
  /\ UNCHANGED <<freeHead, slots, payload, handles, next, owned, target,
                 victim>>

\* mark_acquired, the construction of the element and the return.
Mark(t) ==
  /\ Moves(t, "mark", "idle")
  /\ slots' = [slots EXCEPT ![owned[t]] = Redirected(@, owned[t])]
  /\ payload' = [payload EXCEPT ![owned[t]] = Len(handles) + 1]
  /\ handles' = Append(handles, slots'[owned[t]])
  /\ UNCHANGED <<freeHead, locals>>

-----------------------------------------------------------------------------
\* erase, lock_slot and release_locked_slot.  An id that is no longer that of
\* its slot is left alone.

\* Mutant: only the index of the id is compared.
EraseLock_IgnoresTag(t, n) ==
  LET id == handles[n]
  IN /\ Moves(t, "idle", "release")
     /\ slots[id.index].index = id.index
     /\ slots' = [slots EXCEPT ![id.index] = Retagged(@, id.index)]
     /\ owned' = [owned EXCEPT ![t] = id.index]
     /\ target' = [target EXCEPT ![t] = n]
     /\ victim' = [victim EXCEPT ![t] = payload[id.index]]
     /\ payload' = [payload EXCEPT ![id.index] = 0]
     /\ UNCHANGED <<freeHead, handles, mirror, next>>

\* Mutant: the tag of the slot stays as it is.
EraseLock_SameTag(t, n) ==
  LET id == handles[n]
  IN /\ Moves(t, "idle", "release")
     /\ slots[id.index] = id
     /\ owned' = [owned EXCEPT ![t] = id.index]
     /\ target' = [target EXCEPT ![t] = n]
     /\ victim' = [victim EXCEPT ![t] = payload[id.index]]
     /\ payload' = [payload EXCEPT ![id.index] = 0]
     /\ UNCHANGED <<freeHead, slots, handles, mirror, next>>

EraseLock(t, n) ==
  LET id == handles[n]
  IN /\ Moves(t, "idle", "release")
     /\ slots[id.index] = id
     /\ slots' = [slots EXCEPT ![id.index] = Retagged(id, id.index)]
     /\ owned' = [owned EXCEPT ![t] = id.index]
     /\ target' = [target EXCEPT ![t] = n]
     /\ victim' = [victim EXCEPT ![t] = payload[id.index]]
     /\ payload' = [payload EXCEPT ![id.index] = 0]
     /\ UNCHANGED <<freeHead, handles, mirror, next>>

ReleaseLoad(t) == /\ Moves(t, "release", "link")
                  /\ LoadHead(t)
                  /\ UNCHANGED <<freeHead, slots, payload, handles, next,
                                 owned, target, victim>>

ReleaseLink(t) ==
  /\ Moves(t, "link", "publish")
  /\ slots' = [slots EXCEPT ![owned[t]] = Redirected(@, mirror[t].index)]
  /\ UNCHANGED <<freeHead, payload, handles, locals>>

ReleaseExchange(t) ==
  /\ Moves(t, "publish", "idle")
  /\ freeHead = mirror[t]
  /\ freeHead' = Retagged(mirror[t], owned[t])
  /\ UNCHANGED <<slots, payload, handles, locals>>

\* Mutant: the slot is not linked again to the head that was loaded again.
ReleaseRetry_KeepsLink(t) ==
  /\ pc[t] = "publish"
  /\ LoadHead(t)
  /\ UNCHANGED <<freeHead, slots, payload, handles, pc, next, owned, target,
                 victim>>

ReleaseRetry(t) == /\ Moves(t, "publish", "link")
                   /\ LoadHead(t)
                   /\ UNCHANGED <<freeHead, slots, payload, handles, next,
                                  owned, target, victim>>

-----------------------------------------------------------------------------
ThreadNext(t) ==
  \/ AcquireLoad(t) \/ AcquireNext(t) \/ AcquireExchange(t) \/ AcquireRetry(t)
  \/ Mark(t)
  \/ \E n \in DOMAIN handles : EraseLock(t, n)
  \/ ReleaseLoad(t) \/ ReleaseLink(t) \/ ReleaseExchange(t) \/ ReleaseRetry(t)

\* unsafe_clear: destroy_elements goes by is_acquired, and init_empty starts
\* the tags again from the same seed, so that ids given out before the call
\* are given out again: the callers must have dropped them.
Clear ==
  /\ \A t \in Threads : pc[t] = "idle"
  /\ handles # <<>>
  /\ payload' = [i \in Indices |-> IF slots[i].index = i THEN 0 ELSE payload[i]]
  /\ freeHead' = EmptyHead
  /\ slots' = EmptySlots
  /\ handles' = <<>>
  \* The locals of calls that have returned are forgotten.
  /\ mirror' = [t \in Threads |-> EmptyHead]
  /\ next' = [t \in Threads |-> 0]
  /\ owned' = [t \in Threads |-> 0]
  /\ target' = [t \in Threads |-> 0]
  /\ victim' = [t \in Threads |-> 0]
  /\ UNCHANGED pc

Next == (\E t \in Threads : ThreadNext(t)) \/ Clear

Spec == Init /\ [][Next]_vars

-----------------------------------------------------------------------------
\* The vector as its callers see it.

\* Slots that are off the free list because a thread works on them.
Pending == {owned[t] : t \in {u \in Threads :
                                pc[u] \in {"mark", "release", "link", "publish"}}}

\* is_valid_id for the id of element n.  Between lock_slot and the link to the
\* free list a slot already shows the id its next element will have.
ValidElements == {n \in DOMAIN handles : /\ slots[handles[n].index] = handles[n]
                                         /\ handles[n].index \notin Pending}

S == INSTANCE IdStore WITH stored <- Len(handles), valid <- ValidElements

-----------------------------------------------------------------------------
\* Properties.

TypeOK == /\ freeHead \in Words
          /\ slots \in [Indices -> Words]
          /\ payload \in [Indices -> 0..MaxElements]
          /\ handles \in Seq(Words)
          /\ pc \in [Threads -> {"idle", "next", "acquire", "mark", "release",
                                 "link", "publish"}]
          /\ mirror \in [Threads -> Words]
          /\ next \in [Threads -> 0..Capacity]
          /\ owned \in [Threads -> Indices]
          /\ target \in [Threads -> 0..MaxElements]
          /\ victim \in [Threads -> 0..MaxElements]

\* The free list: the slots met from free_head_ on, up to a link that is Invalid.
FreeChains ==
  {chain \in SeqOf(Indices, Capacity) :
     /\ freeHead.index = IF chain = <<>> THEN Invalid ELSE chain[1]
     /\ \A k \in DOMAIN chain :
          slots[chain[k]].index = IF k = Len(chain) THEN Invalid ELSE chain[k + 1]}

\* The free list ends, and each slot is on it, or holds an element, or is in
\* the hands of exactly one thread: no slot leaks and none is given out twice.
\* When no call runs the slots that hold an element are those with their own
\* index, so that unsafe_clear and the destructor destroy each element once.
SlotsPartitioned ==
  \E chain \in FreeChains : \A i \in Indices :
    /\ Cardinality({t \in Threads : owned[t] = i /\
                      pc[t] \in {"mark", "release", "link", "publish"}}) <= 1
    /\ i \in Range(chain) => i \notin Pending /\ payload[i] = 0
    /\ i \notin Range(chain) => i \in Pending \/ payload[i] # 0
    /\ i \notin Pending => (payload[i] # 0 <=> slots[i].index = i)

\* A valid id leads to its own element.
IdsLeadHome == \A n \in ValidElements : payload[handles[n].index] = n

\* id_vector.hpp:114: "Idempotent."  An erase destroys the element whose id it
\* was given, or nothing, however late or often it is called.
EraseIdempotent == \A t \in Threads : pc[t] = "release" => victim[t] = target[t]

\* The vector implements the store of ids: an emplace and an erase take effect
\* at one moment each, whatever the threads do in between.
ImplementsStore == S!Spec
=============================================================================
