--------------------------- MODULE LwtCondVariable ---------------------------
(***************************************************************************)
(* What a condition variable of threads promises: to wait releases the     *)
(* mutex and joins the waiting threads in one step, a signal wakes one of  *)
(* them and a broadcast all, and a thread that was woken returns with the  *)
(* mutex.                                                                  *)
(***************************************************************************)
CONSTANTS Threads, Nobody

VARIABLES holder,      \* of the mutex
          waiting,     \* the threads that wait
          woken        \* those that were woken and have not returned

condVariableVars == <<holder, waiting, woken>>

Init ==
    /\ holder = Nobody
    /\ waiting = {}
    /\ woken = {}

Lock(t) ==
    /\ holder = Nobody
    /\ t \notin waiting \cup woken
    /\ holder' = t
    /\ UNCHANGED <<waiting, woken>>

Unlock(t) ==
    /\ holder = t
    /\ holder' = Nobody
    /\ UNCHANGED <<waiting, woken>>

Wait(t) ==
    /\ holder = t
    /\ holder' = Nobody
    /\ waiting' = waiting \cup {t}
    /\ UNCHANGED woken

Signal ==
    /\ \E t \in waiting :
          /\ waiting' = waiting \ {t}
          /\ woken' = woken \cup {t}
    /\ UNCHANGED holder

Broadcast ==
    /\ waiting' = {}
    /\ woken' = woken \cup waiting
    /\ UNCHANGED holder

Return(t) ==
    /\ t \in woken
    /\ holder = Nobody
    /\ holder' = t
    /\ woken' = woken \ {t}
    /\ UNCHANGED waiting

Next ==
    \/ \E t \in Threads : Lock(t) \/ Unlock(t) \/ Wait(t) \/ Return(t)
    \/ Signal
    \/ Broadcast

(* If the mutex stays free, a thread that was woken takes it.              *)
Spec ==
    /\ Init
    /\ [][Next]_condVariableVars
    /\ WF_condVariableVars(\E t \in Threads : Return(t))
=============================================================================
