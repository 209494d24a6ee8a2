------------------------------ MODULE LwtMutex ------------------------------
(***************************************************************************)
(* src/core/lwt_mutex.ml.  Threads use the mutex as with_lock does, and    *)
(* block as described in LwtTask.                                          *)
(***************************************************************************)
EXTENDS LwtTask

CONSTANT Cancelable        \* the waits that are canceled

ASSUME MutexAssumption == Cancelable \subseteq {"lock", "cond", "relock"}

VARIABLES locked,          \* the mutex's field
          waiters          \* the nodes of its queue, first to be woken first

mutexVars == <<locked, waiters, task, pc>>

(* In "astray" a thread goes on without the mutex (see LwtCondition).      *)
Pcs == {"idle", "lock", "critical", "cond", "relock", "astray"}

MutexTypeOK ==
    /\ locked \in BOOLEAN
    /\ waiters \in Seq(Threads)
    /\ task \in [Threads -> Tasks]
    /\ pc \in [Threads -> Pcs]

(* create                                                                  *)
MutexInit ==
    /\ locked = FALSE
    /\ waiters = <<>>
    /\ NoTasks

(* lock: t gets the mutex, or waits for it at wait.                        *)
Lock(t, wait) ==
    IF locked
    THEN /\ waiters' = Append(waiters, t)
         /\ task' = [task EXCEPT ![t] = "Pending"]
         /\ pc' = [pc EXCEPT ![t] = wait]
         /\ UNCHANGED locked
    ELSE /\ locked' = TRUE
         /\ task' = [task EXCEPT ![t] = "none"]
         /\ pc' = [pc EXCEPT ![t] = "critical"]
         /\ UNCHANGED waiters

(* unlock, when the tasks are those given.  The mutex stays locked when it *)
(* is handed over to a waiter.                                             *)
Unlock(tasks) ==
    IF locked /\ waiters # <<>>
    THEN /\ task' = wakeup_later(tasks, Head(waiters), "Fulfilled")
         /\ waiters' = Tail(waiters)
         /\ UNCHANGED locked
    ELSE /\ locked' = FALSE
         /\ task' = tasks
         /\ UNCHANGED waiters

lock(t) ==
    /\ pc[t] = "idle"
    /\ Lock(t, "lock")

(* The wait for the mutex is over.                                         *)
locked_callback(t) ==
    /\ pc[t] \in {"lock", "relock"}
    /\ task[t] = "Fulfilled"
    /\ pc' = [pc EXCEPT ![t] = "critical"]
    /\ task' = [task EXCEPT ![t] = "none"]
    /\ UNCHANGED <<locked, waiters>>

(* The end of with_lock, by the result or the exception of its function.   *)
unlock(t) ==
    /\ pc[t] = "critical"
    /\ Unlock(task)
    /\ pc' = [pc EXCEPT ![t] = "idle"]

(* The first phase of cancel, and the second one if nothing can come       *)
(* between.                                                                *)
cancel_lock(t) ==
    /\ task[t] = "Pending"
    /\ pc[t] \in Cancelable \cap {"lock", "relock"}
    /\ task' = [task EXCEPT ![t] = "Canceled"]
    /\ waiters' = IF SplitCancel THEN waiters ELSE Without(waiters, t)
    /\ UNCHANGED <<locked, pc>>

(* The callbacks of the canceled promise: with_lock does not call its      *)
(* function.                                                               *)
cancel_lock_callbacks(t) ==
    /\ task[t] = "Canceled"
    /\ pc[t] = "lock"
    /\ waiters' = Without(waiters, t)
    /\ task' = [task EXCEPT ![t] = "none"]
    /\ pc' = [pc EXCEPT ![t] = "idle"]
    /\ UNCHANGED locked

(* The steps that the resolution loop runs, or that end a with_lock.       *)
Progress(t) == locked_callback(t) \/ unlock(t) \/ cancel_lock_callbacks(t)

MutexNext == \E t \in Threads : lock(t) \/ cancel_lock(t) \/ Progress(t)

(* Callbacks of resolved promises are run, and the functions given to      *)
(* with_lock end.                                                          *)
MutexSpec ==
    /\ MutexInit
    /\ [][MutexNext]_mutexVars
    /\ \A t \in Threads : WF_mutexVars(Progress(t))
-----------------------------------------------------------------------------
(* The threads that have the mutex: it has been handed over to them, or    *)
(* they are between lock and unlock.                                       *)
Holders ==
    {t \in Threads : \/ pc[t] = "critical"
                     \/ pc[t] \in {"lock", "relock"} /\ task[t] = "Fulfilled"}

Exclusive == \A t, u \in Holders : t = u

(* No wait for the mutex at the end of Lwt_condition.wait was canceled.    *)
Orderly == \A t \in Threads : pc[t] # "astray"

(* At most one thread is between lock and unlock, the one the mutex is     *)
(* being handed over to included (lock, unlock).                           *)
MutualExclusion == Orderly => Exclusive

(* The mutex is locked exactly while some thread has it: it is not free    *)
(* while it is handed over, and no cancellation leaves it locked for ever. *)
LockedIffHeld == Orderly => (locked <=> Holders # {})

(* lwt_mutex.mli:28: unlock frees the mutex "if no threads is waiting on   *)
(* it. Otherwise it will eventually removes the first one and resumes it". *)
(* So after unlock the mutex is free, or some thread is resumed with it.   *)
UnlockHandsOver ==
    [][\A t \in Threads : unlock(t) =>
         \/ ~locked'
         \/ \E u \in Threads : task[u] = "Pending" /\ task'[u] = "Fulfilled"]_mutexVars
=============================================================================
