----------------------------- MODULE MCIdVector -----------------------------
(* TLC instance of IdVector: threads are interchangeable. *)
EXTENDS IdVector, TLC

ThreadSymmetry == Permutations(Threads)
=============================================================================
