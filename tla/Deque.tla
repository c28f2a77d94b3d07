------------------------------- MODULE Deque -------------------------------
(***************************************************************************)
(* What a work stealing queue promises its users: one owner thread adds    *)
(* elements at the back and removes them from the back, any number of      *)
(* thieves remove them from the front, every element added is handed to    *)
(* exactly one caller, and nothing else is ever handed out.  An operation  *)
(* that returns false changes nothing and is a stuttering step.            *)
(***************************************************************************)
EXTENDS Naturals, Sequences

CONSTANT Elements       \* the elements that may be pushed, each at most once

VARIABLES items,        \* the elements in the queue, oldest first
          delivered     \* how many times each element has been handed out

dequeVars == <<items, delivered>>

Holds(e) == \E i \in DOMAIN items : items[i] = e

Init == /\ items = <<>>
        /\ delivered = [e \in Elements |-> 0]

\* The owner adds an element that was never in the queue before.
PushBack(e) == /\ ~Holds(e)
               /\ delivered[e] = 0
               /\ items' = Append(items, e)
               /\ UNCHANGED delivered

HandOut(e) == delivered' = [delivered EXCEPT ![e] = @ + 1]

\* The owner removes the youngest element.
PopBack == /\ items # <<>>
           /\ items' = SubSeq(items, 1, Len(items) - 1)
           /\ HandOut(items[Len(items)])

\* A thief removes the oldest element.
PopFront == /\ items # <<>>
            /\ items' = Tail(items)
            /\ HandOut(Head(items))

Next == \/ \E e \in Elements : PushBack(e)
        \/ PopBack
        \/ PopFront

Spec == Init /\ [][Next]_dequeVars
=============================================================================
