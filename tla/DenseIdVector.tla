---------------------------- MODULE DenseIdVector ----------------------------
(***************************************************************************)
(* core/id_vector.hpp: a vector that keeps its elements side by side.  The *)
(* outer index of an id leads, through outer_to_index_, to the place of    *)
(* the element, and index_to_outer_ leads from the place back.  An erase   *)
(* moves the last element into the gap.  The entries of outer_to_index_    *)
(* that are not in use form a list from first_free_ to last_free_ through  *)
(* their index part, as in the stable vector.                              *)
(*                                                                         *)
(* The n-th element stored is the number n and handles[n] the id returned  *)
(* for it.  emplace and insert make the same changes.  Callers erase only  *)
(* ids that are valid, as a DCHECK demands, among those they were given.   *)
(***************************************************************************)
EXTENDS IdWords, Sequences, SequencesExt

VARIABLES outerToIndex,  \* outer_to_index_, from index 0
          indexToOuter,  \* index_to_outer_
          elements,      \* elements_
          firstFree,     \* first_free_
          lastFree,      \* last_free_
          handles        \* history: the id returned for each element

vars == <<outerToIndex, indexToOuter, elements, firstFree, lastFree, handles>>

Size == Cardinality(DOMAIN outerToIndex)

Init == /\ outerToIndex = <<>>
        /\ indexToOuter = <<>>
        /\ elements = <<>>
        /\ firstFree = Invalid
        /\ lastFree = Invalid
        /\ handles = <<>>

\* is_valid_id.  Only the tags are compared.
IsValid(id) == id.index < Size /\ outerToIndex[id.index].tag = id.tag

\* operator[]: the element an id leads to.
ElementOf(id) == elements[outerToIndex[id.index].index + 1]

\* id_from_iterator and id_from_pointer for the element at place p, from 0.
IdAt(p) == LET outer == indexToOuter[p + 1]
           IN [tag |-> outerToIndex[outer].tag, index |-> outer]

-----------------------------------------------------------------------------
\* Mutant: the end of the list is not moved when the list was empty.
ReserveIds_NoEnd(n) ==
  /\ n > Size
  /\ outerToIndex' = [i \in 0..(n - 1) |->
                        CASE i < Size -> outerToIndex[i]
                          [] i >= Size /\ i < n - 1 -> [tag |-> 0, index |-> i + 1]
                          [] i = n - 1 -> [tag |-> 0, index |-> firstFree]]
  /\ firstFree' = Size
  /\ UNCHANGED <<indexToOuter, elements, lastFree, handles>>

\* reserve_ids, which reserve_elements calls too, puts the new entries before
\* those that are free already.
ReserveIds(n) ==
  /\ n > Size
  /\ outerToIndex' = [i \in 0..(n - 1) |->
                        CASE i < Size -> outerToIndex[i]
                          [] i >= Size /\ i < n - 1 -> [tag |-> 0, index |-> i + 1]
                          [] i = n - 1 -> [tag |-> 0, index |-> firstFree]]
  /\ firstFree' = Size
  /\ lastFree' = IF lastFree = Invalid THEN n - 1 ELSE lastFree
  /\ UNCHANGED <<indexToOuter, elements, handles>>

\* create_id when no entry is free.
CreateIdGrow(outer) ==
  /\ lastFree = Invalid
  /\ outer = Size
  /\ outerToIndex' = [i \in 0..Size |-> IF i < Size THEN outerToIndex[i]
                                        ELSE [tag |-> 0, index |-> Len(elements)]]
  /\ UNCHANGED <<firstFree, lastFree>>

\* create_id with the first free entry.
CreateIdReuse(outer) ==
  /\ lastFree # Invalid
  /\ outer = firstFree
  /\ firstFree' = outerToIndex[outer].index
  /\ lastFree' = IF firstFree' = Invalid THEN Invalid ELSE lastFree
  /\ outerToIndex' = [outerToIndex EXCEPT ![outer].index = Len(elements)]

\* emplace and insert.
Emplace ==
  /\ Len(handles) < MaxElements
  /\ \E outer \in 0..Size :
       /\ CreateIdGrow(outer) \/ CreateIdReuse(outer)
       /\ elements' = Append(elements, Len(handles) + 1)
       /\ indexToOuter' = Append(indexToOuter, outer)
       /\ handles' = Append(handles, [tag |-> outerToIndex'[outer].tag,
                                      index |-> outer])

\* v[p] = v.back(); v.pop_back()
FillFromBack(v, p) == Front([v EXCEPT ![p + 1] = Last(v)])

\* Mutant: the entry of the element that was moved keeps its old place.
Erase_LosesMoved(id) ==
  /\ IsValid(id)
  /\ LET place == outerToIndex[id.index].index
         freed == [outerToIndex EXCEPT ![id.index] = Retagged(@)]
     IN /\ elements' = FillFromBack(elements, place)
        /\ indexToOuter' = FillFromBack(indexToOuter, place)
        /\ IF lastFree = Invalid
             THEN outerToIndex' = freed /\ firstFree' = id.index
             ELSE /\ outerToIndex' = [freed EXCEPT
                                        ![lastFree] = Linked(@, id.index)]
                  /\ UNCHANGED firstFree
  /\ lastFree' = id.index
  /\ UNCHANGED handles

\* erase and free_id.  When the last element itself is erased the code reads
\* index_to_outer_ one past its end, where the value just popped still is: the
\* entry it then changes is the one that is freed in the next statement.
Erase(id) ==
  /\ IsValid(id)
  /\ LET place == outerToIndex[id.index].index
         moved == [outerToIndex EXCEPT ![Last(indexToOuter)].index = place]
         freed == [moved EXCEPT ![id.index] = Retagged(@)]
     IN /\ elements' = FillFromBack(elements, place)
        /\ indexToOuter' = FillFromBack(indexToOuter, place)
        /\ IF lastFree = Invalid
             THEN outerToIndex' = freed /\ firstFree' = id.index
             ELSE /\ outerToIndex' = [freed EXCEPT
                                        ![lastFree] = Linked(@, id.index)]
                  /\ UNCHANGED firstFree
  /\ lastFree' = id.index
  /\ UNCHANGED handles

-----------------------------------------------------------------------------
Next == \/ \E n \in 1..MaxReserve : ReserveIds(n)
        \/ Emplace
        \/ \E n \in DOMAIN handles : Erase(handles[n])

Spec == Init /\ [][Next]_vars

-----------------------------------------------------------------------------
\* Properties.

TypeOK == /\ \A i \in DOMAIN outerToIndex : outerToIndex[i] \in Words
          /\ DOMAIN outerToIndex = 0..(Size - 1)
          /\ indexToOuter \in Seq(DOMAIN outerToIndex)
          /\ elements \in Seq(DOMAIN handles)
          /\ firstFree \in 0..Invalid
          /\ lastFree \in 0..Invalid
          /\ handles \in Seq(Words)

ValidElements == {n \in DOMAIN handles : IsValid(handles[n])}

\* The two tables are each other's inverse on the elements that are left,
\* however they were moved: a valid id leads to its own element, an iterator
\* back to the id of the element it points at, and the id of an erased element
\* is not valid.  These are the DCHECKs of operator[].
TablesInverse ==
  /\ Len(indexToOuter) = Len(elements)
  /\ Range(elements) = ValidElements
  /\ \A n \in ValidElements :
       /\ outerToIndex[handles[n].index].index < Len(elements)
       /\ ElementOf(handles[n]) = n
  /\ \A p \in 0..(Len(elements) - 1) :
       /\ IdAt(p) = handles[elements[p + 1]]
       /\ outerToIndex[indexToOuter[p + 1]].index = p
=============================================================================
