--------------------------- MODULE StableIdVector ---------------------------
(***************************************************************************)
(* core/stable_id_vector.hpp, where the executor keeps its tasks and       *)
(* dependents: a growing array of entries, used by one thread at a time.   *)
(* An id is the index of an entry and a tag.  The free entries form a list *)
(* from first_free_ to last_free_ through the index part of their ids;     *)
(* an entry in use has its own index there.  An erased entry gets the next *)
(* tag and goes to the end of the list, so that its index is used again as *)
(* late as possible.                                                       *)
(*                                                                         *)
(* The n-th element stored is the number n and handles[n] the id returned  *)
(* for it.  Callers erase only ids that are valid, as a DCHECK demands,    *)
(* and ask is_valid_id of any id they were ever given, as add_task does.   *)
(* The class itself is declared in no file of the repository: the members  *)
(* are those its functions use, and an entry starts with tag zero.         *)
(***************************************************************************)
EXTENDS IdWords, Sequences, SequencesExt

VARIABLES entries,    \* the id word of each entry, from index 0
          firstFree,  \* first_free_
          lastFree,   \* last_free_
          size,       \* size_
          handles     \* history: the id returned for each element

vars == <<entries, firstFree, lastFree, size, handles>>

Capacity == Cardinality(DOMAIN entries)

Init == /\ entries = <<>>
        /\ firstFree = Invalid
        /\ lastFree = Invalid
        /\ size = 0
        /\ handles = <<>>

\* is_valid_id.
IsValid(id) == id.index < Capacity /\ entries[id.index] = id

-----------------------------------------------------------------------------
\* Mutant: the old free list is dropped.
Reserve_DropsList(n) ==
  /\ n > Capacity
  /\ entries' = [i \in 0..(n - 1) |->
                   CASE i < Capacity -> entries[i]
                     [] i >= Capacity /\ i < n - 1 -> [tag |-> 0, index |-> i + 1]
                     [] i = n - 1 -> [tag |-> 0, index |-> Invalid]]
  /\ firstFree' = Capacity
  /\ lastFree' = n - 1
  /\ UNCHANGED <<size, handles>>

\* reserve puts the new entries before those that are free already.
Reserve(n) ==
  /\ n > Capacity
  /\ entries' = [i \in 0..(n - 1) |->
                   CASE i < Capacity -> entries[i]
                     [] i >= Capacity /\ i < n - 1 -> [tag |-> 0, index |-> i + 1]
                     [] i = n - 1 -> [tag |-> 0, index |-> firstFree]]
  /\ firstFree' = Capacity
  /\ lastFree' = IF lastFree = Invalid THEN n - 1 ELSE lastFree
  /\ UNCHANGED <<size, handles>>

\* emplace when no entry is free.
EmplaceGrow ==
  /\ lastFree = Invalid
  /\ entries' = [i \in 0..Capacity |-> IF i < Capacity THEN entries[i]
                                       ELSE [tag |-> 0, index |-> Capacity]]
  /\ size' = size + 1
  /\ handles' = Append(handles, entries'[Capacity])
  /\ UNCHANGED <<firstFree, lastFree>>

\* emplace in the first free entry.
EmplaceReuse ==
  /\ lastFree # Invalid
  /\ firstFree' = entries[firstFree].index
  /\ lastFree' = IF firstFree' = Invalid THEN Invalid ELSE lastFree
  /\ entries' = [entries EXCEPT ![firstFree].index = firstFree]
  /\ size' = size + 1
  /\ handles' = Append(handles, entries'[firstFree])

Emplace == Len(handles) < MaxElements /\ (EmplaceGrow \/ EmplaceReuse)

\* Mutant: the erased entry keeps its tag.
Erase_SameTag(id) ==
  /\ IsValid(id)
  /\ LET freed == [entries EXCEPT ![id.index].index = Invalid]
     IN IF lastFree = Invalid
          THEN entries' = freed /\ firstFree' = id.index
          ELSE /\ entries' = [freed EXCEPT ![lastFree] = Linked(@, id.index)]
               /\ UNCHANGED firstFree
  /\ lastFree' = id.index
  /\ size' = size - 1
  /\ UNCHANGED handles

\* erase.  The link of the last entry is made with &=, which is an assignment
\* as long as that entry is marked as the end of the list.
Erase(id) ==
  /\ IsValid(id)
  /\ LET freed == [entries EXCEPT ![id.index] = Retagged(@)]
     IN IF lastFree = Invalid
          THEN entries' = freed /\ firstFree' = id.index
          ELSE /\ entries' = [freed EXCEPT ![lastFree] = Linked(@, id.index)]
               /\ UNCHANGED firstFree
  /\ lastFree' = id.index
  /\ size' = size - 1
  /\ UNCHANGED handles

-----------------------------------------------------------------------------
Next == \/ \E n \in 1..MaxReserve : Reserve(n)
        \/ Emplace
        \/ \E n \in DOMAIN handles : Erase(handles[n])

Spec == Init /\ [][Next]_vars

-----------------------------------------------------------------------------
\* Properties.

TypeOK == /\ \A i \in DOMAIN entries : entries[i] \in Words
          /\ DOMAIN entries = 0..(Capacity - 1)
          /\ firstFree \in 0..Invalid
          /\ lastFree \in 0..Invalid
          /\ size \in 0..Capacity
          /\ handles \in Seq(Words)

\* The free list from first_free_ on, followed for k steps or to its end.
Followed[k \in 0..Capacity] ==
  IF k = 0 THEN <<firstFree>>
  ELSE LET before == Followed[k - 1]
       IN IF Last(before) = Invalid THEN before
          ELSE Append(before, entries[Last(before)].index)

\* It has at most as many entries as there are.
FreeChain == Followed[Capacity]

InUse == {i \in DOMAIN entries : entries[i].index = i}

\* The first n values of chain are the entries that are not in use, each once,
\* linked in this order from first_free_ to last_free_.
IsFreeList(n, chain) ==
  /\ \A k \in 1..n :
       entries[chain[k]].index = IF k = n THEN Invalid ELSE chain[k + 1]
  /\ firstFree = IF n = 0 THEN Invalid ELSE chain[1]
  /\ lastFree = IF n = 0 THEN Invalid ELSE chain[n]
  /\ \A j, k \in 1..n : chain[j] = chain[k] => j = k
  /\ {chain[k] : k \in 1..n} = (DOMAIN entries) \ InUse

\* size_ counts the entries in use, as the destructor's DCHECK says.
CountInv == size = Cardinality(InUse) /\ size <= Len(handles)

\* A tag counts the erases of its entry, of which there are fewer than elements.
TagInv == \A i \in DOMAIN entries :
            /\ entries[i].tag <= Len(handles)
            /\ i \in InUse => entries[i].tag < Len(handles)

\* No id is newer than its entry, those of a free entry are older, and no two
\* elements were given the same id.
HandleInv ==
  /\ \A m \in DOMAIN handles :
       LET i == handles[m].index
       IN /\ i \in DOMAIN entries
          /\ handles[m].tag <= entries[i].tag
          /\ i \notin InUse => handles[m].tag < entries[i].tag
  /\ \A m, n \in DOMAIN handles : handles[m] = handles[n] => m = n

\* What these two need: no tag wraps around.
NoWrap == MaxElements < TagRange

\* The free list ends, at last_free_, and holds every entry that is not in use,
\* so that none leaks; size_ counts the others, and ids are not newer than their
\* entries.
EntriesAccounted ==
  LET free == Front(FreeChain)
  IN /\ TypeOK
     /\ Last(FreeChain) = Invalid
     /\ IsFreeList(Len(free), free)
     /\ CountInv
     /\ NoWrap => TagInv /\ HandleInv

S == INSTANCE IdStore WITH
       stored <- Len(handles),
       valid <- {n \in DOMAIN handles : IsValid(handles[n])}

\* The vector implements the store of ids: is_valid_id is true of an id from
\* its emplace to its erase, whatever was stored and erased since.
ImplementsStore == S!Spec
=============================================================================
