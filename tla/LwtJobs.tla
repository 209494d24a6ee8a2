------------------------------- MODULE LwtJobs -------------------------------
(***************************************************************************)
(* The jobs of src/unix/lwt_unix_stubs.c and their promises in             *)
(* src/unix/lwt_unix.cppo.ml: blocking calls that a pool of system threads *)
(* runs for the main thread.  What happens under pool_mutex is one step.   *)
(* The mutex of a job is explicit, because start_job reads the state of    *)
(* the job without it.  A notification is one step and arrives in order    *)
(* (LwtNotification shows that it does).                                   *)
(***************************************************************************)
EXTENDS Naturals, Sequences, FiniteSets

CONSTANTS Jobs,
          Workers,         \* system threads
          NoJob,           \* NULL
          pool_size,
          MaxWaiting,      \* thread_waiting_count is at most this
          Programs         \* each one with its jobs, the workers that wait
                           \* from earlier jobs, and the events that may
                           \* happen: "spurious", "abort", "launch", "fork"

ASSUME JobsAssumption ==
    /\ pool_size \in Nat /\ MaxWaiting \in Nat
    /\ Programs \subseteq [jobs : SUBSET Jobs, idle : SUBSET Workers,
                            events : SUBSET {"spurious", "abort", "launch", "fork"}]
    /\ IsFiniteSet(Workers)
    /\ \A p \in Programs : Cardinality(p.idle) <= pool_size
    /\ NoJob \notin Jobs

VARIABLES program,               \* the one of Programs that runs
          state, fast,           \* the fields of the jobs
          next,
          locked,                \* locked[j]: a worker holds the mutex of j
          pool_queue,            \* the job last enqueued
          thread_waiting_count,
          thread_count,
          wpc, wjob,             \* the workers: where they are, their jobs
          mpc, mjob,             \* the main thread in start_job
          waiter,                \* waiter[j]: the promise of j
          jobs,                  \* the jobs with an entry in jobs
          paused,                \* what is to come after a pause: check_job
                                 \* of a job, or the abort of the jobs that
                                 \* a fork collected
          notifiers,             \* the jobs whose notifier is registered
          notifications,         \* the notifications on their way
          mailbox,               \* what a child finds of the notifications:
                                 \* "open", "unsignaled" or "locked"
          results,               \* results[j]: how often j was freed
          queued                 \* history: the jobs in the queue, in order

poolVars == <<next, pool_queue, thread_waiting_count, thread_count, queued>>
mainVars == <<mpc, mjob, waiter, jobs, paused, notifiers, results>>
jobVars == <<state, fast, locked, wpc, wjob, notifications, mailbox, poolVars, mainVars>>
vars == <<program, jobVars>>

TypeOK ==
    /\ state \in [Jobs -> {"none", "PENDING", "RUNNING", "DONE"}]
    /\ fast \in [Jobs -> BOOLEAN]
    /\ next \in [Jobs -> Jobs \cup {NoJob}]
    /\ locked \in [Jobs -> BOOLEAN]
    /\ pool_queue \in Jobs \cup {NoJob}
    /\ thread_waiting_count \in Nat
    /\ thread_count \in Nat
    /\ wpc \in [Workers -> {"none", "execute", "worker", "finish", "done", "notify",
                            "loop", "wait", "signaled"}]
    /\ wjob \in [Workers -> Jobs \cup {NoJob}]
    /\ mpc \in {"idle", "enqueue", "read", "join", "check"}
    /\ mjob \in Jobs \cup {NoJob}
    /\ waiter \in [Jobs -> {"none", "Pending", "Result", "Failed"}]
    /\ jobs \subseteq Jobs
    /\ paused \in Seq([job : Jobs \cup {NoJob}, collected : SUBSET Jobs])
    /\ notifiers \subseteq Jobs
    /\ notifications \in Seq(Jobs)
    /\ mailbox \in {"open", "unsignaled", "locked"}
    /\ results \in [Jobs -> Nat]
    /\ queued \in Seq(Jobs)

Init ==
    /\ program \in Programs
    /\ state = [j \in Jobs |-> "none"]
    /\ fast = [j \in Jobs |-> TRUE]
    /\ next = [j \in Jobs |-> NoJob]
    /\ locked = [j \in Jobs |-> FALSE]
    /\ pool_queue = NoJob
    /\ thread_waiting_count = Cardinality(program.idle)
    /\ thread_count = Cardinality(program.idle)
    /\ wpc = [w \in Workers |-> IF w \in program.idle THEN "wait" ELSE "none"]
    /\ wjob = [w \in Workers |-> NoJob]
    /\ mpc = "idle"
    /\ mjob = NoJob
    /\ waiter = [j \in Jobs |-> "none"]
    /\ jobs = {}
    /\ paused = <<>>
    /\ notifiers = {}
    /\ notifications = <<>>
    /\ mailbox = "open"
    /\ results = [j \in Jobs |-> 0]
    /\ queued = <<>>
-----------------------------------------------------------------------------
(* The result of a job is read, which frees the job, and its promise is    *)
(* resolved unless it was aborted.                                         *)
Resolve(j) ==
    /\ results' = [results EXCEPT ![j] = @ + 1]
    /\ waiter' = [waiter EXCEPT ![j] = IF @ = "Failed" THEN @ ELSE "Result"]

(* start_job, up to the pool: with no thread to be had, the job is run by  *)
(* the main thread.  thread_waiting_count is read without the mutex: an    *)
(* increment of it may not be seen.                                        *)
start_job(j) ==
    /\ mpc = "idle"
    /\ state[j] = "none"
    /\ \/ /\ thread_count >= pool_size
          /\ state' = [state EXCEPT ![j] = "DONE"]
          /\ Resolve(j)
          /\ UNCHANGED <<mpc, mjob>>
       \/ /\ thread_waiting_count > 0 \/ thread_count < pool_size
          /\ state' = [state EXCEPT ![j] = "PENDING"]
          /\ mpc' = "enqueue"
          /\ mjob' = j
          /\ UNCHANGED <<waiter, results>>
    /\ UNCHANGED <<fast, locked, wpc, wjob, notifications, mailbox, poolVars, jobs, paused,
                   notifiers>>

\* Mutant: the job is queued as the first one.
Enqueue_first(j) ==
    \/ /\ pool_queue = NoJob
       /\ pool_queue' = j
       /\ next' = [next EXCEPT ![j] = j]
    \/ /\ pool_queue # NoJob
       /\ next' = [next EXCEPT ![j] = next[pool_queue], ![pool_queue] = j]
       /\ UNCHANGED pool_queue

(* The queue is circular: pool_queue is its last job, the next of which is *)
(* the first.                                                              *)
Enqueue(j) ==
    \/ /\ pool_queue = NoJob
       /\ pool_queue' = j
       /\ next' = [next EXCEPT ![j] = j]
    \/ /\ pool_queue # NoJob
       /\ next' = [next EXCEPT ![j] = next[pool_queue], ![pool_queue] = j]
       /\ pool_queue' = j

(* pthread_cond_signal wakes one of the threads that wait, if any do.      *)
condition_signal ==
    IF \E w \in Workers : wpc[w] = "wait"
    THEN \E w \in Workers : wpc[w] = "wait" /\ wpc' = [wpc EXCEPT ![w] = "signaled"]
    ELSE UNCHANGED wpc

(* start_job under pool_mutex: a thread is started with the job, or the    *)
(* job is queued for one that waits.                                       *)
enqueue ==
    /\ mpc = "enqueue"
    /\ \/ /\ thread_waiting_count = 0
          /\ \E w \in Workers :
               /\ wpc[w] = "none"
               /\ wpc' = [wpc EXCEPT ![w] = "execute"]
               /\ wjob' = [wjob EXCEPT ![w] = mjob]
          /\ thread_count' = thread_count + 1
          /\ UNCHANGED <<next, pool_queue, thread_waiting_count, queued>>
       \/ /\ thread_waiting_count > 0
          /\ Enqueue(mjob)
          /\ queued' = Append(queued, mjob)
          /\ thread_waiting_count' = thread_waiting_count - 1
          /\ condition_signal
          /\ UNCHANGED <<thread_count, wjob>>
    /\ mpc' = "read"
    /\ UNCHANGED <<state, fast, locked, notifications, mailbox, mjob, waiter, jobs, paused,
                   notifiers, results>>

(* The thread cannot be started: start_job raises, and the job is not      *)
(* freed.                                                                  *)
launch_fails ==
    /\ "launch" \in program.events
    /\ mpc = "enqueue"
    /\ thread_waiting_count = 0
    /\ mpc' = "idle"
    /\ mjob' = NoJob
    /\ waiter' = [waiter EXCEPT ![mjob] = "Failed"]
    /\ UNCHANGED <<state, fast, locked, wpc, wjob, notifications, mailbox, poolVars, jobs,
                   paused, notifiers, results>>

\* Mutant: the job is not waited for.
read_state_free ==
    /\ mpc = "read"
    /\ \/ /\ state[mjob] = "DONE"
          /\ Resolve(mjob)
          /\ mpc' = "idle"
          /\ mjob' = NoJob
          /\ UNCHANGED <<jobs, paused, notifiers>>
       \/ /\ waiter' = [waiter EXCEPT ![mjob] = "Pending"]
          /\ jobs' = jobs \cup {mjob}
          /\ notifiers' = notifiers \cup {mjob}
          /\ paused' = Append(paused, [job |-> mjob, collected |-> {}])
          /\ mpc' = "idle"
          /\ mjob' = NoJob
          /\ UNCHANGED results
    /\ UNCHANGED <<state, fast, locked, wpc, wjob, notifications, mailbox, poolVars>>

(* start_job reads the state without the mutex: a job that is done may not *)
(* be seen to be.  If it is not, run_job_aux registers the job and pauses. *)
read_state ==
    /\ mpc = "read"
    /\ \/ /\ state[mjob] = "DONE"
          /\ mpc' = "join"
          /\ UNCHANGED <<mjob, waiter, jobs, paused, notifiers, results>>
       \/ /\ waiter' = [waiter EXCEPT ![mjob] = "Pending"]
          /\ jobs' = jobs \cup {mjob}
          /\ notifiers' = notifiers \cup {mjob}
          /\ paused' = Append(paused, [job |-> mjob, collected |-> {}])
          /\ mpc' = "idle"
          /\ mjob' = NoJob
          /\ UNCHANGED results
    /\ UNCHANGED <<state, fast, locked, wpc, wjob, notifications, mailbox, poolVars>>

(* The job is done: its mutex is waited for, and its result is read.       *)
join ==
    /\ mpc = "join"
    /\ ~locked[mjob]
    /\ Resolve(mjob)
    /\ mpc' = "idle"
    /\ mjob' = NoJob
    /\ UNCHANGED <<state, fast, locked, wpc, wjob, notifications, mailbox, poolVars, jobs,
                   paused, notifiers>>

(* call_notification of the notifier of a job, if it has one.              *)
call_notification(j) ==
    IF j \in notifiers
    THEN /\ notifiers' = notifiers \ {j}
         /\ jobs' = jobs \ {j}
         /\ Resolve(j)
    ELSE UNCHANGED <<notifiers, jobs, waiter, results>>

(* A pause is over, and the main thread is in check_job, where it waits    *)
(* for the mutex of the job and does nothing else.                         *)
check_job ==
    /\ mpc = "idle"
    /\ paused # <<>> /\ Head(paused).job # NoJob
    /\ mpc' = "check"
    /\ mjob' = Head(paused).job
    /\ paused' = Tail(paused)
    /\ UNCHANGED <<state, fast, locked, wpc, wjob, notifications, mailbox, poolVars, waiter,
                   jobs, notifiers, results>>

\* Mutant: the main thread goes on without saying so.
check_job_fast ==
    /\ mpc = "check"
    /\ ~locked[mjob]
    /\ IF state[mjob] = "DONE"
       THEN call_notification(mjob)
       ELSE UNCHANGED <<notifiers, jobs, waiter, results>>
    /\ mpc' = "idle"
    /\ mjob' = NoJob
    /\ UNCHANGED <<state, fast, locked, wpc, wjob, notifications, mailbox, poolVars, paused>>

(* ... and when it has the mutex.                                          *)
check_job_locked ==
    /\ mpc = "check"
    /\ ~locked[mjob]
    /\ fast' = [fast EXCEPT ![mjob] = FALSE]
    /\ IF state[mjob] = "DONE"
       THEN call_notification(mjob)
       ELSE UNCHANGED <<notifiers, jobs, waiter, results>>
    /\ mpc' = "idle"
    /\ mjob' = NoJob
    /\ UNCHANGED <<state, locked, wpc, wjob, notifications, mailbox, poolVars, paused>>

handle_notification ==
    /\ mpc = "idle"
    /\ notifications # <<>>
    /\ notifications' = Tail(notifications)
    /\ call_notification(Head(notifications))
    /\ UNCHANGED <<state, fast, locked, wpc, wjob, mailbox, poolVars, mpc, mjob, paused>>

(* abort_jobs fails the promises of the jobs; the jobs go on.              *)
abort_jobs ==
    /\ "abort" \in program.events
    /\ mpc = "idle"
    /\ jobs # {}
    /\ jobs' = {}
    /\ waiter' = [j \in Jobs |-> IF j \in jobs THEN "Failed" ELSE waiter[j]]
    /\ UNCHANGED <<state, fast, locked, wpc, wjob, notifications, mailbox, poolVars, mpc, mjob,
                   paused, notifiers, results>>
-----------------------------------------------------------------------------
(* execute_job, by a worker.                                               *)
execute_job(w) ==
    LET j == wjob[w]
    IN  /\ \/ /\ wpc[w] = "execute"
              /\ state' = [state EXCEPT ![j] = "RUNNING"]
              /\ wpc' = [wpc EXCEPT ![w] = "worker"]
              /\ UNCHANGED locked
           \/ /\ wpc[w] = "worker"
              /\ wpc' = [wpc EXCEPT ![w] = "finish"]
              /\ UNCHANGED <<state, locked>>
           \/ /\ wpc[w] = "finish"
              /\ locked' = [locked EXCEPT ![j] = TRUE]
              /\ state' = [state EXCEPT ![j] = "DONE"]
              /\ wpc' = [wpc EXCEPT ![w] = "done"]
           \/ /\ wpc[w] = "done"
              /\ locked' = [locked EXCEPT ![j] = FALSE]
              /\ wpc' = [wpc EXCEPT ![w] = IF fast[j] THEN "loop" ELSE "notify"]
              /\ UNCHANGED state
        /\ UNCHANGED <<fast, wjob, notifications, mailbox, poolVars, mainVars>>

(* The notification, to the identifier in the job.  In a child that has    *)
(* the mutex of the notifications locked the worker is stuck; in one whose *)
(* buffer is not empty the main thread is not signaled.                    *)
notify(w) ==
    /\ wpc[w] = "notify"
    /\ mailbox # "locked"
    /\ notifications' = IF mailbox = "open" THEN Append(notifications, wjob[w])
                                            ELSE notifications
    /\ wpc' = [wpc EXCEPT ![w] = "loop"]
    /\ UNCHANGED <<state, fast, locked, wjob, mailbox, poolVars, mainVars>>

(* worker_loop under pool_mutex: the worker waits for a job or takes the   *)
(* first of the queue.                                                     *)
worker_loop(w) ==
    /\ wpc[w] \in {"loop", "signaled"}
    /\ \/ /\ pool_queue = NoJob
          /\ thread_waiting_count' = thread_waiting_count + 1
          /\ wpc' = [wpc EXCEPT ![w] = "wait"]
          /\ UNCHANGED <<wjob, next, pool_queue, queued>>
       \/ /\ pool_queue # NoJob
          /\ LET j == next[pool_queue]
             IN  /\ wjob' = [wjob EXCEPT ![w] = j]
                 /\ IF next[j] = j
                    THEN pool_queue' = NoJob /\ UNCHANGED next
                    ELSE next' = [next EXCEPT ![pool_queue] = next[j]]
                         /\ UNCHANGED pool_queue
          /\ queued' = Tail(queued)
          /\ wpc' = [wpc EXCEPT ![w] = "execute"]
          /\ UNCHANGED thread_waiting_count
    /\ UNCHANGED <<state, fast, locked, notifications, mailbox, thread_count, mainVars>>

(* pthread_cond_wait may return without a signal.                          *)
spurious_wakeup(w) ==
    /\ "spurious" \in program.events
    /\ thread_waiting_count < MaxWaiting
    /\ wpc[w] = "wait"
    /\ wpc' = [wpc EXCEPT ![w] = "signaled"]
    /\ UNCHANGED <<state, fast, locked, wjob, notifications, mailbox, poolVars, mainVars>>
-----------------------------------------------------------------------------
reset_after_fork ==
    /\ thread_waiting_count' = 0
    /\ thread_count' = 0
    /\ pool_queue' = NoJob

(* What the child has of the notifications: the ones that the main thread  *)
(* has received, the first n of them.  If there are others they stay in    *)
(* the buffer, and nobody is signaled, now or later; and a worker may have *)
(* been in lwt_unix_send_notification with the mutex.                      *)
fork_notifications ==
    /\ \E n \in 0..Len(notifications) :
         /\ mailbox # "open" => n = Len(notifications)
         /\ notifications' = SubSeq(notifications, 1, n)
         /\ mailbox' \in {IF n < Len(notifications) THEN "unsignaled" ELSE mailbox}
                \cup {m \in {"locked"} : \E w \in Workers : wpc[w] = "notify"}
    /\ mailbox = "locked" => mailbox' = "locked"

(* fork, seen from the child: the threads are gone with what they hold,    *)
(* the pool is reset, and the jobs are collected.  A worker at the         *)
(* beginning or the end of execute_job may have had the mutex of its job.  *)
fork ==
    /\ "fork" \in program.events
    /\ mpc = "idle"
    /\ \E w \in Workers : wpc[w] # "none"
    /\ \E held \in SUBSET {w \in Workers : wpc[w] \in {"execute", "finish"}} :
           locked' = [j \in Jobs |-> locked[j] \/ \E w \in held : wjob[w] = j]
    /\ wpc' = [w \in Workers |-> "none"]
    /\ wjob' = [w \in Workers |-> NoJob]
    /\ reset_after_fork
    /\ queued' = <<>>
    /\ fork_notifications
    /\ jobs' = {}
    /\ paused' = Append(paused, [job |-> NoJob, collected |-> jobs])
    /\ UNCHANGED <<state, fast, next, mpc, mjob, waiter, notifiers, results>>

(* The pause of a fork is over: the promises of the collected jobs fail.   *)
abort_collected ==
    /\ mpc = "idle"
    /\ paused # <<>> /\ Head(paused).job = NoJob
    /\ paused' = Tail(paused)
    /\ waiter' = [j \in Jobs |-> IF j \in Head(paused).collected /\ waiter[j] = "Pending"
                                THEN "Failed" ELSE waiter[j]]
    /\ UNCHANGED <<state, fast, locked, wpc, wjob, notifications, mailbox, poolVars, mpc, mjob,
                   jobs, notifiers, results>>

MainStep ==
    \/ enqueue \/ launch_fails \/ read_state \/ join
    \/ check_job \/ check_job_locked
    \/ handle_notification
    \/ abort_collected

WorkerStep(w) == execute_job(w) \/ notify(w) \/ worker_loop(w)

Next ==
    /\ \/ \E j \in program.jobs : start_job(j)
       \/ MainStep
       \/ abort_jobs
       \/ \E w \in Workers : WorkerStep(w) \/ spurious_wakeup(w)
       \/ fork
    /\ UNCHANGED program

(* The threads run, the functions of the jobs return, and the main loop    *)
(* handles paused promises and notifications.                              *)
Spec ==
    /\ Init
    /\ [][Next]_vars
    /\ WF_jobVars(MainStep)
    /\ \A w \in Workers : WF_jobVars(WorkerStep(w))
-----------------------------------------------------------------------------
(* A job is freed at most once, and no thread that still has it to run,    *)
(* mark, unlock or notify has a freed job in its hands, nor does the queue *)
(* (start_job, check_job, execute_job, result).                            *)
NoUseAfterFree ==
    /\ \A j \in Jobs : results[j] <= 1
    /\ \A w \in Workers :
           wpc[w] \in {"execute", "worker", "finish", "done", "notify"}
               => results[wjob[w]] = 0
    /\ \A i \in DOMAIN queued : results[queued[i]] = 0

(* The circular list holds exactly the jobs enqueued and not yet taken,    *)
(* the oldest one first: none is lost, and none is overtaken.  The count   *)
(* is that of the threads and within the limit (lwt_unix.mli:1508:         *)
(* "Maximum number of system threads that can be started"); and a job in   *)
(* the queue has a thread that is on its way to take it: the main thread   *)
(* never counts on a thread twice, unless pthread_cond_wait returns        *)
(* without a signal.                                                       *)
QueueServed ==
    /\ pool_queue = NoJob <=> queued = <<>>
    /\ \A i \in DOMAIN queued :
           queued[i] = next[IF i = 1 THEN pool_queue ELSE queued[i - 1]]
    /\ queued # <<>> => pool_queue = queued[Len(queued)]
    /\ thread_count = Cardinality({w \in Workers : wpc[w] # "none"})
    /\ thread_count <= pool_size
    /\ "spurious" \notin program.events =>
           Len(queued) <= Cardinality({w \in Workers : wpc[w] = "signaled"})

(* The main thread of a child waits for a mutex that nobody holds.         *)
Stuck ==
    /\ mpc = "check" /\ locked[mjob]
    /\ \A w \in Workers : ~(wpc[w] = "done" /\ wjob[w] = mjob)

(* The job depends on a notification in a child that gets none.            *)
Unheard(j) == mailbox # "open" /\ j \in jobs /\ ~fast[j]

(* The promise of a job whose function returns is resolved: no order of    *)
(* its end, of the pause and of the notification leaves it pending.  And a *)
(* job that is done is freed in the end, aborted or not.  In a child       *)
(* nothing more than lwt_unix.cppo.mli:202 is wrong ("This may cause the   *)
(* child's copy of their associated promises to remain forever pending"):  *)
(* the main thread waits for a mutex of the parent's, or the notifications *)
(* of the parent are in the way of the child's; else the promises of the   *)
(* jobs that fork abandoned are failed, and the child's own are resolved.  *)
JobResolves ==
    \A j \in Jobs :
        /\ state[j] # "none" ~> waiter[j] \in {"Result", "Failed"} \/ Stuck \/ Unheard(j)
        /\ state[j] = "DONE" ~> results[j] = 1 \/ "fork" \in program.events
=============================================================================
