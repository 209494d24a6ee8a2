------------------------------- MODULE MCPool -------------------------------
(* Model checking of LwtPool: the threads are interchangeable.             *)
EXTENDS LwtPool, TLC

ThreadSymmetry == Permutations(Threads)
=============================================================================
