------------------------------ MODULE WakeEvent ------------------------------
(***************************************************************************)
(* What UniquePulse promises the one thread that waits on it: a wait       *)
(* returns once for the pulses that came since the last return, and never  *)
(* sleeps through one.                                                     *)
(***************************************************************************)
VARIABLES signalled,  \* whether there was a pulse since the last return
          waiting     \* whether the thread is inside wait

eventVars == <<signalled, waiting>>

Init == signalled = FALSE /\ waiting = FALSE

Signal == signalled' = TRUE /\ UNCHANGED waiting

Call == ~waiting /\ waiting' = TRUE /\ UNCHANGED signalled

Return == waiting /\ signalled /\ waiting' = FALSE /\ signalled' = FALSE

Next == Signal \/ Call \/ Return

\* A wait that may return does return.
Spec == Init /\ [][Next]_eventVars /\ WF_eventVars(Return)
=============================================================================
