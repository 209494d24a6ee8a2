---------------------------- MODULE LwtCondition ----------------------------
(***************************************************************************)
(* src/core/lwt_condition.ml: a condition variable whose waiters hold the  *)
(* mutex of LwtMutex, as in with_lock m (fun () -> wait ~mutex:m cvar).    *)
(* broadcast wakes one waiter after the other, and what follows the wait   *)
(* of the first may run before the second is woken.                        *)
(***************************************************************************)
EXTENDS LwtMutex

VARIABLES cvar,            \* the waiters, first to be signaled first
          wakeners,        \* those a broadcast under way has yet to wake
          failing,         \* failing[t]: t is to be woken by broadcast_exn
          notified         \* history: the threads notified and not resumed

condState == <<cvar, wakeners, failing, notified>>
condVars == <<mutexVars, condState>>

CondTypeOK ==
    /\ MutexTypeOK
    /\ cvar \in Seq(Threads)
    /\ wakeners \in Seq(Threads)
    /\ failing \in [Threads -> BOOLEAN]
    /\ notified \subseteq Threads

CondInit ==
    /\ MutexInit
    /\ cvar = <<>>
    /\ wakeners = <<>>
    /\ failing = [t \in Threads |-> FALSE]
    /\ notified = {}

(* The operations of the mutex, by threads that do not wait on cvar.       *)
mutex(t) ==
    /\ lock(t) \/ locked_callback(t) \/ unlock(t) \/ cancel_lock(t) \/ cancel_lock_callbacks(t)
    /\ UNCHANGED <<cvar, wakeners, failing, notified>>

wait(t) ==
    /\ pc[t] = "critical"
    /\ cvar' = Append(cvar, t)
    /\ Unlock([task EXCEPT ![t] = "Pending"])
    /\ pc' = [pc EXCEPT ![t] = "cond"]
    /\ UNCHANGED <<wakeners, failing, notified>>

\* Mutant: the wait is over when the thread is notified, the mutex not taken.
wait_callback_unlocked(t) ==
    /\ pc[t] = "cond"
    /\ task[t] \in {"Fulfilled", "Rejected", "Canceled"}
    /\ pc' = [pc EXCEPT ![t] = "critical"]
    /\ task' = [task EXCEPT ![t] = "none"]
    /\ cvar' = Without(cvar, t)
    /\ wakeners' = Without(wakeners, t)
    /\ notified' = notified \ {t}
    /\ UNCHANGED <<failing, locked, waiters>>

(* The wait is over, by a notification or a cancellation: finalize takes   *)
(* the mutex again.  The wakener of a canceled wait may still be in the    *)
(* hands of a broadcast; to wake it does nothing.                          *)
wait_callback(t) ==
    /\ pc[t] = "cond"
    /\ task[t] \in {"Fulfilled", "Rejected", "Canceled"}
    /\ Lock(t, "relock")
    /\ cvar' = Without(cvar, t)
    /\ wakeners' = Without(wakeners, t)
    /\ notified' = notified \ {t}
    /\ UNCHANGED failing

cancel_wait(t) ==
    /\ "cond" \in Cancelable
    /\ pc[t] = "cond"
    /\ task[t] = "Pending"
    /\ task' = [task EXCEPT ![t] = "Canceled"]
    /\ cvar' = IF SplitCancel THEN cvar ELSE Without(cvar, t)
    /\ UNCHANGED <<locked, waiters, pc, wakeners, failing, notified>>

(* The wait for the mutex was canceled: wait is rejected, and the scope of *)
(* with_lock goes on as if the mutex were held, to the unlock at its end,  *)
(* after which t does nothing more.                                        *)
relock_canceled(t) ==
    /\ pc[t] = "relock"
    /\ task[t] = "Canceled"
    /\ waiters' = Without(waiters, t)
    /\ task' = [task EXCEPT ![t] = "none"]
    /\ pc' = [pc EXCEPT ![t] = "astray"]
    /\ UNCHANGED <<locked, cvar, wakeners, failing, notified>>

unlock_astray(t) ==
    /\ pc[t] = "astray"
    /\ task[t] = "none"
    /\ Unlock([task EXCEPT ![t] = "Rejected"])
    /\ UNCHANGED <<pc, condState>>

(* A signal without waiters is lost.                                       *)
signal ==
    /\ cvar # <<>>
    /\ task' = wakeup_later(task, Head(cvar), "Fulfilled")
    /\ cvar' = Tail(cvar)
    /\ notified' = notified \cup {t \in Threads : task[t] # task'[t]}
    /\ UNCHANGED <<locked, waiters, pc, wakeners, failing>>

(* broadcast, and broadcast_exn if exn: all the nodes leave the queue.  A  *)
(* broadcast called by a thread that another one has woken comes first.    *)
broadcast(exn) ==
    /\ cvar # <<>>
    /\ wakeners' = cvar \o wakeners
    /\ cvar' = <<>>
    /\ failing' = [t \in Threads |-> IF InQueue(cvar, t) THEN exn ELSE failing[t]]
    /\ notified' = notified \cup {t \in Threads : InQueue(cvar, t) /\ task[t] = "Pending"}
    /\ UNCHANGED mutexVars

\* Mutant: the broadcast stops at a waiter that has been canceled.
broadcast_next_stop ==
    /\ wakeners # <<>>
    /\ LET t == Head(wakeners)
       IN  IF task[t] = "Pending"
           THEN /\ task' = [task EXCEPT ![t] = IF failing[t] THEN "Rejected" ELSE "Fulfilled"]
                /\ wakeners' = Tail(wakeners)
           ELSE /\ wakeners' = <<>>
                /\ UNCHANGED task
    /\ UNCHANGED <<locked, waiters, pc, cvar, failing, notified>>

broadcast_next ==
    /\ wakeners # <<>>
    /\ LET t == Head(wakeners)
       IN  task' = wakeup_later(task, t, IF failing[t] THEN "Rejected" ELSE "Fulfilled")
    /\ wakeners' = Tail(wakeners)
    /\ UNCHANGED <<locked, waiters, pc, cvar, failing, notified>>

CondNext ==
    \/ \E t \in Threads : mutex(t) \/ wait(t) \/ wait_callback(t)
                          \/ cancel_wait(t) \/ relock_canceled(t) \/ unlock_astray(t)
    \/ signal
    \/ \E exn \in BOOLEAN : broadcast(exn)
    \/ broadcast_next

(* Callbacks of resolved promises are run, and the functions given to      *)
(* with_lock end or wait.                                                  *)
CondFairness ==
    /\ WF_condVars(broadcast_next)
    /\ \A t \in Threads :
         /\ WF_condVars(wait_callback(t))
         /\ WF_condVars(relock_canceled(t))
         /\ WF_condVars(mutex(t) /\ (locked_callback(t) \/ cancel_lock_callbacks(t)))
         /\ WF_condVars((mutex(t) /\ unlock(t)) \/ wait(t))

CondSpec == CondInit /\ [][CondNext]_condVars /\ CondFairness
-----------------------------------------------------------------------------
(* lwt_condition.mli:46: "Upon notification, [mutex] is re-locked before   *)
(* [wait] returns".  A thread that was notified goes on, holding the mutex *)
(* unless its wait for that is canceled, if broadcasts do not interrupt    *)
(* one another for ever.                                                   *)
NotifiedResumes ==
    []<>(wakeners = <<>>) =>
        \A t \in Threads : t \in notified ~> pc[t] \in {"critical", "astray"}
=============================================================================
