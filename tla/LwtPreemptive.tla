---------------------------- MODULE LwtPreemptive ----------------------------
(***************************************************************************)
(* Lwt_preemptive, src/unix/lwt_preemptive.ml: tasks detached to OCaml     *)
(* threads, and functions that these threads have the main thread run.     *)
(* The steps of a thread are what it does between two places where another *)
(* one may run.  A notification arrives once and in order, as              *)
(* LwtNotification shows.                                                  *)
(***************************************************************************)
EXTENDS Integers, Sequences

CONSTANTS MaxDetach,        \* bound on the calls of detach
          WorkerThreads,    \* threads that may exist at a time
          Bounds,           \* the pairs given to set_bounds and init
          DefaultBounds,    \* those of simple_init: 0 and 4
          NoClient, NoWorker

(* The calls of detach, in their order.                                    *)
Clients == 1..MaxDetach

ASSUME PreemptiveAssumption ==
    /\ MaxDetach \in Nat
    /\ NoClient \notin Clients
    /\ NoWorker \notin WorkerThreads
    /\ DefaultBounds[1] = 0
    /\ \A b \in Bounds \cup {DefaultBounds} : b[1] \in Nat /\ b[2] \in Nat /\ b[1] <= b[2]

VARIABLES bounds,            \* min_threads, max_threads
          initialized,
          threads_count,
          workers,           \* the queue of the threads that are free
          clients_queue,     \* waiters: the calls that wait for a thread
          thread_at,         \* where a thread is in worker_loop
          reuse,             \* the field of the threads
          task_cell,         \* the task sent to a thread
          task,              \* the one it runs
          client_at,         \* where a call of detach is
          worker_of,         \* the thread of a call
          mailbox,           \* the notifications on their way
          main_jobs,         \* jobs: the threads that wait for their ends
          job_at,            \* what became of the function of a thread
          joining,           \* the call whose thread the main thread joins
          launching          \* the threads that set_bounds has still to make

threadVars == <<thread_at, reuse, task_cell, task>>
clientVars == <<client_at, worker_of, clients_queue, workers>>
jobVars == <<main_jobs, job_at>>
mainThreadVars == <<bounds, initialized, threads_count, joining, launching>>
preemptiveVars == <<threadVars, clientVars, mainThreadVars, mailbox, jobVars>>

PreemptiveTypeOK ==
    /\ bounds \in Bounds \cup {DefaultBounds, <<0, 0>>}
    /\ initialized \in BOOLEAN
    /\ threads_count \in Nat
    /\ workers \in Seq(WorkerThreads)
    /\ clients_queue \in Seq(Clients)
    /\ thread_at \in [WorkerThreads -> {"none", "cell", "task", "ask", "asked", "post", "answered",
                                        "done", "notify", "loop", "exited"}]
    /\ reuse \in [WorkerThreads -> BOOLEAN]
    /\ task_cell \in [WorkerThreads -> Clients \cup {NoClient}]
    /\ task \in [WorkerThreads -> Clients \cup {NoClient}]
    /\ client_at \in [Clients -> {"idle", "waits", "detached", "resolved", "canceled"}]
    /\ worker_of \in [Clients -> WorkerThreads \cup {NoWorker}]
    /\ mailbox \in Seq(Clients \cup {NoClient})
    /\ main_jobs \in Seq(WorkerThreads \cup {NoWorker})
    /\ job_at \in [WorkerThreads -> {"none", "runs", "answered"}]
    /\ joining \in Clients \cup {NoClient}
    /\ launching \in Nat

PreemptiveInit ==
    /\ bounds = <<0, 0>>
    /\ initialized = FALSE
    /\ threads_count = 0
    /\ workers = <<>>
    /\ clients_queue = <<>>
    /\ thread_at = [w \in WorkerThreads |-> "none"]
    /\ reuse = [w \in WorkerThreads |-> TRUE]
    /\ task_cell = [w \in WorkerThreads |-> NoClient]
    /\ task = [w \in WorkerThreads |-> NoClient]
    /\ client_at = [c \in Clients |-> "idle"]
    /\ worker_of = [c \in Clients |-> NoWorker]
    /\ mailbox = <<>>
    /\ main_jobs = <<>>
    /\ job_at = [w \in WorkerThreads |-> "none"]
    /\ joining = NoClient
    /\ launching = 0

MainThreadFree == joining = NoClient /\ launching = 0
-----------------------------------------------------------------------------
(* The part of detach that follows get_worker.                             *)
send_task(c, w) ==
    /\ task_cell' = [task_cell EXCEPT ![w] = c]
    /\ worker_of' = [worker_of EXCEPT ![c] = w]

make_worker(w) ==
    /\ thread_at[w] = "none"
    /\ threads_count' = threads_count + 1
    /\ thread_at' = [thread_at EXCEPT ![w] = "cell"]
    /\ reuse' = [reuse EXCEPT ![w] = TRUE]

(* A worker goes to the first call that waits, or to the pool; at is what  *)
(* the same step has made of the calls.                                    *)
add_worker(w, at) ==
    \/ /\ clients_queue = <<>>
       /\ workers' = Append(workers, w)
       /\ client_at' = at
       /\ UNCHANGED <<clients_queue, task_cell, worker_of>>
    \/ /\ clients_queue # <<>>
       /\ clients_queue' = Tail(clients_queue)
       /\ client_at' = [at EXCEPT ![Head(clients_queue)] = "detached"]
       /\ send_task(Head(clients_queue), w)
       /\ UNCHANGED workers

(* The bounds after simple_init, which launches nothing.                   *)
simple_init == IF initialized THEN bounds ELSE DefaultBounds

(* detach up to get_worker: the call c is the next one.                    *)
BeginDetach(c) ==
    /\ MainThreadFree
    /\ client_at[c] = "idle" /\ \A d \in 1..(c - 1) : client_at[d] # "idle"
    /\ bounds' = simple_init
    /\ initialized' = TRUE
    /\ UNCHANGED <<task, joining, launching, mailbox, jobVars>>

(* Its rest, with each of the three ways of get_worker.                    *)
detach_pooled(c) ==
    /\ BeginDetach(c)
    /\ workers # <<>>
    /\ workers' = Tail(workers)
    /\ client_at' = [client_at EXCEPT ![c] = "detached"]
    /\ send_task(c, Head(workers))
    /\ UNCHANGED <<thread_at, reuse, clients_queue, threads_count>>

detach_new(c, w) ==
    /\ BeginDetach(c)
    /\ workers = <<>>
    /\ threads_count < simple_init[2]
    /\ make_worker(w)
    /\ client_at' = [client_at EXCEPT ![c] = "detached"]
    /\ send_task(c, w)
    /\ UNCHANGED <<clients_queue, workers>>

detach_waits(c) ==
    /\ BeginDetach(c)
    /\ workers = <<>>
    /\ threads_count >= simple_init[2]
    /\ client_at' = [client_at EXCEPT ![c] = "waits"]
    /\ clients_queue' = Append(clients_queue, c)
    /\ UNCHANGED <<thread_at, reuse, task_cell, worker_of, workers, threads_count>>

(* A call that waits is canceled; its node leaves the queue.               *)
cancel_detach(c) ==
    /\ MainThreadFree
    /\ client_at[c] = "waits"
    /\ client_at' = [client_at EXCEPT ![c] = "canceled"]
    /\ clients_queue' = SelectSeq(clients_queue, LAMBDA d : d # c)
    /\ UNCHANGED <<threadVars, worker_of, workers, mainThreadVars, mailbox, jobVars>>

(* set_bounds, and init if known is TRUE; the loop that makes the missing  *)
(* threads is launch.                                                      *)
set_bounds(known) ==
    /\ MainThreadFree
    /\ bounds' \in Bounds \ {bounds}
    /\ initialized' = (initialized \/ known)
    /\ launching' = IF bounds'[1] > threads_count THEN bounds'[1] - threads_count ELSE 0
    /\ UNCHANGED <<threadVars, clientVars, threads_count, joining, mailbox, jobVars>>

launch(w) ==
    /\ launching > 0
    /\ launching' = launching - 1
    /\ make_worker(w)
    /\ add_worker(w, client_at)
    /\ UNCHANGED <<task, bounds, initialized, joining, mailbox, jobVars>>
-----------------------------------------------------------------------------
Goes(w, here, there) == thread_at[w] = here /\ thread_at' = [thread_at EXCEPT ![w] = there]

(* CELL.get: the thread waits for a task, on a condition of its own.       *)
worker_get(w) ==
    /\ Goes(w, "cell", "task")
    /\ task_cell[w] # NoClient
    /\ task_cell' = [task_cell EXCEPT ![w] = NoClient]
    /\ task' = [task EXCEPT ![w] = task_cell[w]]
    /\ UNCHANGED <<reuse, clientVars, mainThreadVars, mailbox, jobVars>>

task_ends(w) ==
    /\ Goes(w, "task", "done") \/ Goes(w, "answered", "done")
    /\ UNCHANGED <<reuse, task_cell, task, clientVars, mainThreadVars, mailbox, jobVars>>

(* The bound is read without a lock, as it is now.                         *)
worker_check(w) ==
    /\ Goes(w, "done", "notify")
    /\ reuse' = [reuse EXCEPT ![w] = @ /\ threads_count <= bounds[2]]
    /\ UNCHANGED <<task_cell, task, clientVars, mainThreadVars, mailbox, jobVars>>

worker_notify(w) ==
    /\ Goes(w, "notify", "loop")
    /\ mailbox' = Append(mailbox, task[w])
    /\ task' = [task EXCEPT ![w] = NoClient]
    /\ UNCHANGED <<reuse, task_cell, clientVars, mainThreadVars, jobVars>>

worker_loop(w) ==
    /\ Goes(w, "loop", IF reuse[w] THEN "cell" ELSE "exited")
    /\ UNCHANGED <<reuse, task_cell, task, clientVars, mainThreadVars, mailbox, jobVars>>

(* run_in_main, by a task: the function is queued, the main thread is      *)
(* notified, and the thread waits in CELL.get for the result.  A task asks *)
(* once at most.                                                           *)
run_in_main(w) ==
    /\ Goes(w, "task", "ask")
    /\ main_jobs' = Append(main_jobs, w)
    /\ UNCHANGED <<reuse, task_cell, task, clientVars, mainThreadVars, mailbox, job_at>>

(* run_in_main_dont_wait: nobody waits for the function to end.            *)
run_in_main_dont_wait(w) ==
    /\ Goes(w, "task", "post")
    /\ main_jobs' = Append(main_jobs, NoWorker)
    /\ UNCHANGED <<reuse, task_cell, task, clientVars, mainThreadVars, mailbox, job_at>>

run_in_main_notify(w) ==
    /\ Goes(w, "ask", "asked") \/ Goes(w, "post", "answered")
    /\ mailbox' = Append(mailbox, NoClient)
    /\ UNCHANGED <<reuse, task_cell, task, clientVars, mainThreadVars, jobVars>>

run_in_main_get(w) ==
    /\ Goes(w, "asked", "answered")
    /\ job_at[w] = "answered"
    /\ job_at' = [job_at EXCEPT ![w] = "none"]
    /\ UNCHANGED <<reuse, task_cell, task, clientVars, mainThreadVars, mailbox, main_jobs>>
-----------------------------------------------------------------------------
\* Mutant: the thread is put back whether it exits or not.
finalize_back(c) ==
    /\ add_worker(worker_of[c], [client_at EXCEPT ![c] = "resolved"])
    /\ UNCHANGED <<threads_count, joining>>

(* The end of detach: the thread is put back and the promise resolved, or  *)
(* the main thread waits for the thread to terminate.                      *)
finalize(c) ==
    \/ /\ reuse[worker_of[c]]
       /\ add_worker(worker_of[c], [client_at EXCEPT ![c] = "resolved"])
       /\ UNCHANGED <<threads_count, joining>>
    \/ /\ ~reuse[worker_of[c]]
       /\ threads_count' = threads_count - 1
       /\ joining' = c
       /\ UNCHANGED <<clientVars, task_cell>>

(* The notifier of a call: finalize runs as its promise is resolved.       *)
task_notification(c) ==
    /\ MainThreadFree
    /\ mailbox # <<>> /\ c = Head(mailbox)
    /\ mailbox' = Tail(mailbox)
    /\ finalize(c)
    /\ UNCHANGED <<thread_at, reuse, task, bounds, initialized, launching, jobVars>>

(* Thread.join returns.                                                    *)
join_thread(w) ==
    /\ joining # NoClient /\ w = worker_of[joining]
    /\ Goes(w, "exited", "none")
    /\ joining' = NoClient
    /\ client_at' = [client_at EXCEPT ![joining] = "resolved"]
    /\ UNCHANGED <<reuse, task_cell, task, worker_of, clients_queue, workers,
                   bounds, initialized, threads_count, launching, mailbox, jobVars>>

(* "The queue is never empty at this point."                               *)
job_notification ==
    /\ MainThreadFree
    /\ mailbox # <<>> /\ Head(mailbox) = NoClient
    /\ main_jobs # <<>>
    /\ mailbox' = Tail(mailbox)
    /\ main_jobs' = Tail(main_jobs)
    /\ job_at' = [w \in WorkerThreads |-> IF w = Head(main_jobs) THEN "runs" ELSE job_at[w]]
    /\ UNCHANGED <<threadVars, clientVars, mainThreadVars>>

(* The promise of the function is resolved: CELL.set.                      *)
job_ends(w) ==
    /\ MainThreadFree
    /\ job_at[w] = "runs"
    /\ job_at' = [job_at EXCEPT ![w] = "answered"]
    /\ UNCHANGED <<threadVars, clientVars, mainThreadVars, mailbox, main_jobs>>
-----------------------------------------------------------------------------
WorkerStep(w) ==
    \/ worker_get(w) \/ task_ends(w) \/ worker_check(w) \/ worker_notify(w) \/ worker_loop(w)
    \/ run_in_main(w) \/ run_in_main_dont_wait(w) \/ run_in_main_notify(w) \/ run_in_main_get(w)

MainStep ==
    \/ \E c \in Clients : task_notification(c)
    \/ \E w \in WorkerThreads : launch(w) \/ join_thread(w)
    \/ job_notification

PreemptiveNext ==
    \/ \E c \in Clients : detach_pooled(c) \/ detach_waits(c) \/ cancel_detach(c)
    \/ \E c \in Clients, w \in WorkerThreads : detach_new(c, w)
    \/ \E known \in BOOLEAN : set_bounds(known)
    \/ MainStep
    \/ \E w \in WorkerThreads : WorkerStep(w) \/ job_ends(w)

(* Threads are scheduled, tasks and functions end, and the main loop runs. *)
PreemptiveFairness ==
    /\ WF_preemptiveVars(MainStep)
    /\ \A w \in WorkerThreads :
          WF_preemptiveVars(WorkerStep(w)) /\ WF_preemptiveVars(job_ends(w))

PreemptiveSpec == PreemptiveInit /\ [][PreemptiveNext]_preemptiveVars /\ PreemptiveFairness
-----------------------------------------------------------------------------
(* lwt_preemptive.mli:18: "the number of preemptive threads is capped by   *)
(* default at four. If you would like a higher limit, call {!init} or      *)
(* {!set_bounds} directly".  But set_bounds does not set initialized: the  *)
(* first call of detach puts the default in place of what it has set.      *)
BoundsKept ==
    [][\A c \in Clients : client_at[c] = "idle" /\ client_at'[c] # "idle" /\ bounds # <<0, 0>>
          => bounds' = bounds]_preemptiveVars

(* lwt_preemptive.mli:15: a detached computation gets a thread and its     *)
(* promise is resolved, however the bounds change meanwhile.  A call that  *)
(* waits for a thread ends too, by a cancellation or with a thread, as     *)
(* long as there are threads: when the maximum is lowered, all of them may *)
(* see that there are too many, and exit without anybody to serve it.      *)
DetachEnds ==
    \A c \in Clients :
        client_at[c] \in {"waits", "detached"} ~>
            \/ client_at[c] \in {"resolved", "canceled"}
            \/ client_at[c] = "waits" /\ threads_count = 0
=============================================================================
