------------------------------- MODULE IdStore -------------------------------
(***************************************************************************)
(* What an id vector promises: each element gets an id of its own, which   *)
(* is valid from then on until the element is erased, once.  Elements are  *)
(* numbered in the order in which they are stored; an erase that finds the *)
(* element gone, and an emplace that finds no room, change nothing.        *)
(***************************************************************************)
EXTENDS Naturals

VARIABLES stored,   \* how many elements have been stored
          valid     \* the elements whose id is valid

Init == stored = 0 /\ valid = {}

Emplace == /\ stored' = stored + 1
           /\ valid' = valid \cup {stored + 1}

Erase(n) == /\ n \in valid
            /\ valid' = valid \ {n}
            /\ UNCHANGED stored

\* All elements go at once and the numbers start again.
Clear == stored' = 0 /\ valid' = {}

Next == Emplace \/ (\E n \in valid : Erase(n)) \/ Clear

Spec == Init /\ [][Next]_<<stored, valid>>
=============================================================================
