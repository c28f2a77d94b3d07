------------------------------ MODULE IdWords ------------------------------
(***************************************************************************)
(* The words core's two id vectors are made of (core/id_vector_fwd.hpp and *)
(* core/stable_id_vector_fwd.hpp declare the same constants): an index of  *)
(* IndexBits bits, the largest of which is no index but marks the end of   *)
(* the free list, and a tag, which tells an id from earlier ids with the   *)
(* same index.                                                             *)
(***************************************************************************)
EXTENDS Integers, FiniteSets, FiniteSetsExt

CONSTANTS IndexBits,   \* OUTER_BITS
          TagRange,    \* how many values a tag has
          MaxReserve,  \* bound: the largest capacity reserved
          MaxElements  \* bound: the number of elements stored

ASSUME BitsAssumption == IndexBits \in Nat \ {0}
ASSUME TagAssumption == TagRange \in Nat \ {0}

Invalid == 2^IndexBits - 1   \* INVALID_INDEX and OUTER_MASK
MaxIndex == Invalid - 1      \* MAX_INDEX
MaxSize == MaxIndex + 1      \* MAX_SIZE

\* A property of powers that provers do not know.
ASSUME InvalidAssumption == Invalid \in Nat \ {0}

\* Nothing in emplace keeps the entries of a vector below these limits but a
\* DCHECK of the dense one: the bounds do.
ASSUME BoundsAssumption == /\ MaxReserve \in 0..MaxSize
                           /\ MaxElements \in 0..MaxIndex

Words == [tag : 0..(TagRange - 1), index : 0..Invalid]

\* What erase makes of the word of the entry that it frees.
Retagged(word) == [tag |-> (word.tag + 1) % TagRange, index |-> Invalid]

Bits(n) == {k \in 0..(IndexBits - 1) : (n \div 2^k) % 2 = 1}

\* word &= INNER_MASK | i: the link from the last free entry to the next one.
\* It is an assignment as long as the index is all ones, the mark of the end.
Linked(word, i) ==
  [word EXCEPT !.index = IF @ = Invalid THEN i
                         ELSE SumSet({2^k : k \in Bits(@) \cap Bits(i)})]
=============================================================================
