---------------------------- MODULE MCScheduler ----------------------------
(***************************************************************************)
(* Trees of tasks for the model checker.                                   *)
(***************************************************************************)
EXTENDS Scheduler

\* A root and leaves below it.
Flat(n) == [t \in 1..(n + 1) |-> IF t = 1 THEN [k \in 1..n |-> k + 1] ELSE <<>>]
Flat2 == Flat(2)

\* Two levels, as in the sandbox.
Deep == <<<<2, 3, 4, 5>>, <<>>, <<6, 7>>, <<>>, <<>>, <<>>, <<>>>>

\* The state without the local variables nobody will read again.
Stealing(i) == pc[i] \in {"steal", "announced", "missed"}
Live == [i \in Nodes |->
          [peer |-> IF pc[i] \in {"delegate", "offer", "redirect", "pulse",
                                  "stopFlag", "stopPulse"} THEN peer[i] ELSE i,
           steal |-> IF Stealing(i) THEN steal[i] ELSE <<>>,
           cursor |-> IF \/ pc[i] \in {"wait", "woken", "done"}
                         \/ Stealing(i) /\ steal[i].at # "second"
                        THEN i ELSE cursor[i]]]
LiveView == <<queues, signals, pc, empty, work, Live>>
============================================================================
