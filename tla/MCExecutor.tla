----------------------------- MODULE MCExecutor -----------------------------
(* TLC instance of Executor: one worker with an affinity, one without. *)
EXTENDS Executor

CONSTANTS w1, w2, a1

MCWorkerAffinity == [w \in {w1, w2} |-> IF w = w1 THEN a1 ELSE NoAffinity]
=============================================================================
