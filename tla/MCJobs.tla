------------------------------- MODULE MCJobs -------------------------------
(* LwtJobs with a pool that fills, and with one whose threads have all     *)
(* been started and where they fail in every way.                          *)
EXTENDS LwtJobs

CONSTANTS j1, j2, j3

MCPrograms ==
    {[jobs |-> {j1, j2, j3}, idle |-> {}, events |-> {"abort"}],
     [jobs |-> {j1, j2}, idle |-> Workers, events |-> {"launch", "spurious", "fork"}]}
=============================================================================
