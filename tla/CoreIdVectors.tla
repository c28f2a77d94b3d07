---------------------------- MODULE CoreIdVectors ----------------------------
(***************************************************************************)
(* Core's two id vectors, side by side, under the same calls.  The stable  *)
(* vector never moves an element and the dense one always keeps them       *)
(* together, but ids are made and taken back in the same way in both, so   *)
(* that a program may exchange one for the other: this module lets both    *)
(* make the same calls and compares what their callers see.                *)
(***************************************************************************)
EXTENDS StableIdVector

VARIABLES outerToIndex, indexToOuter, elements, denseFirst, denseLast,
          denseHandles

Dense == INSTANCE DenseIdVector WITH firstFree <- denseFirst,
                                     lastFree <- denseLast,
                                     handles <- denseHandles

bothVars == <<vars, Dense!vars>>

BothInit == Init /\ Dense!Init

BothReserve(n) == Reserve(n) /\ Dense!ReserveIds(n)

BothEmplace == Emplace /\ Dense!Emplace

BothErase(n) == Erase(handles[n]) /\ Dense!Erase(denseHandles[n])

BothNext == \/ \E n \in 1..MaxReserve : BothReserve(n)
            \/ BothEmplace
            \/ \E n \in DOMAIN handles : BothErase(n)

BothSpec == BothInit /\ [][BothNext]_bothVars

-----------------------------------------------------------------------------
\* Properties, beside those of StableIdVector.

\* Of the dense vector: ids and places lead to each other.
TablesInverse == Dense!TypeOK /\ Dense!TablesInverse

\* Both vectors return the same ids for the same calls, hold the same ids for
\* valid and have the same free list, word for word: what is shown of the ids
\* of the stable vector holds of those of the dense one.
SameIds ==
  /\ denseHandles = handles
  /\ \A n \in DOMAIN handles :
       IsValid(handles[n]) <=> Dense!IsValid(handles[n])
  /\ size = Len(elements)
  /\ denseFirst = firstFree /\ denseLast = lastFree
  /\ DOMAIN outerToIndex = DOMAIN entries
  /\ \A i \in DOMAIN entries \ InUse : outerToIndex[i] = entries[i]
=============================================================================
