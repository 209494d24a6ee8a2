---------------------------- MODULE LwtJobsProofs ----------------------------
(***************************************************************************)
(* The jobs of lwt_unix_stubs.c for any jobs, threads, size of the pool    *)
(* and programs: no job is used after it was freed, and the queue holds    *)
(* what was put into it and has threads to serve it.  And the condition    *)
(* variables that the threads of the pool wait on under Windows, for any   *)
(* set of threads: they are those of the system, and no wakeup is lost.    *)
(***************************************************************************)
EXTENDS LwtJobs, LwtWinCondition, FiniteSetTheorems, TLAPS

(* The worker w has a job to run, mark, unlock or notify.                  *)
Has(w) == wpc[w] \in {"execute", "worker", "finish", "done", "notify"}

(* A job is in the hands of one worker, and its state says how far it is.  *)
WorkersOK ==
    \A w \in Workers :
        /\ Has(w) => wjob[w] \in Jobs /\ results[wjob[w]] = 0
        /\ wpc[w] = "execute" => state[wjob[w]] = "PENDING"
        /\ wpc[w] \in {"worker", "finish"} => state[wjob[w]] = "RUNNING"
        /\ wpc[w] \in {"done", "notify"} => state[wjob[w]] = "DONE"
        /\ wpc[w] = "done" => locked[wjob[w]]
        /\ wpc[w] = "notify" => ~fast[wjob[w]]
        /\ \A v \in Workers : Has(w) /\ Has(v) /\ wjob[w] = wjob[v] => w = v

(* The job that start_job has in its hands is unknown to everybody else,   *)
(* until it is enqueued; then to everybody but a worker or the queue.  The *)
(* one of check_job has its notifier and is paused no longer.              *)
MainOK ==
    /\ mpc = "idle" <=> mjob = NoJob
    /\ mpc # "idle" =>
           /\ fast[mjob] /\ state[mjob] # "none"
           /\ \A i \in DOMAIN paused : paused[i].job # mjob
    /\ mpc \in {"enqueue", "read", "join"} => results[mjob] = 0 /\ mjob \notin notifiers
    /\ mpc = "check" => mjob \in notifiers
    /\ mpc = "enqueue" =>
           /\ state[mjob] = "PENDING"
           /\ \A w \in Workers : Has(w) => wjob[w] # mjob
           /\ \A i \in DOMAIN queued : queued[i] # mjob
    /\ mpc = "join" => state[mjob] = "DONE"

(* A freed job has no notifier.                                            *)
FreedOK ==
    \A j \in Jobs :
        /\ results[j] \in {0, 1}
        /\ results[j] = 1 => state[j] = "DONE" /\ j \notin notifiers
        /\ state[j] = "none" => fast[j] /\ j \notin notifiers

(* A paused job is paused once, has a notifier, and its worker is not to   *)
(* send a notification.                                                    *)
PausedOK ==
    \A i \in DOMAIN paused :
        paused[i].job # NoJob =>
            /\ fast[paused[i].job] /\ paused[i].job \in notifiers
            /\ \A k \in DOMAIN paused : paused[i].job = paused[k].job => i = k

(* A job is queued once, and before any worker has it.                     *)
QueueOK ==
    \A i \in DOMAIN queued :
        /\ state[queued[i]] = "PENDING"
        /\ \A w \in Workers : Has(w) => wjob[w] # queued[i]
        /\ \A k \in DOMAIN queued : queued[i] = queued[k] => i = k

(* A notification is sent when its job is done with.                       *)
SentOK ==
    \A i \in DOMAIN notifications :
        /\ ~fast[notifications[i]] /\ state[notifications[i]] = "DONE"
        /\ \A w \in Workers : Has(w) => wjob[w] # notifications[i]

(* The circular list is the queue.                                         *)
LinkedOK ==
    /\ pool_queue = NoJob <=> queued = <<>>
    /\ \A i \in DOMAIN queued :
           queued[i] = next[IF i = 1 THEN pool_queue ELSE queued[i - 1]]
    /\ queued # <<>> => pool_queue = queued[Len(queued)]

At(f, where) == {w \in Workers : f[w] = where}
Started(f) == {w \in Workers : f[w] # "none"}

(* The counts are those of the threads; start_job goes to the pool only if *)
(* a thread waits or one more may be started.                              *)
CountsOK ==
    /\ thread_count = Cardinality(Started(wpc))
    /\ thread_count <= pool_size
    /\ mpc = "enqueue" => thread_waiting_count > 0 \/ thread_count < pool_size
    /\ "spurious" \notin program.events =>
           /\ thread_waiting_count = Cardinality(At(wpc, "wait"))
           /\ Len(queued) <= Cardinality(At(wpc, "signaled"))

JobsInv == TypeOK /\ WorkersOK /\ MainOK /\ FreedOK /\ PausedOK /\ QueueOK /\ SentOK
IInv == JobsInv /\ LinkedOK /\ CountsOK /\ program \in Programs
-----------------------------------------------------------------------------
LEMMA InitJobsInv == Init => JobsInv
  BY JobsAssumption, FS_CardinalityType, FS_Subset
  DEF Init, JobsInv, TypeOK, WorkersOK, MainOK, FreedOK, PausedOK, QueueOK, SentOK, Has

LEMMA StutterStep == JobsInv /\ UNCHANGED jobVars => JobsInv'
  BY DEF JobsInv, TypeOK, WorkersOK, MainOK, FreedOK, PausedOK, QueueOK, SentOK, Has, jobVars,
         poolVars, mainVars

LEMMA ResolveTypes ==
    ASSUME TypeOK, NEW j \in Jobs, Resolve(j)
    PROVE  results' \in [Jobs -> Nat] /\ waiter' \in [Jobs -> {"none", "Pending", "Result", "Failed"}]
<1>1. results' \in [Jobs -> Nat]
  BY DEF Resolve, TypeOK
<1>2. waiter[j] \in {"none", "Pending", "Result", "Failed"}
  BY DEF TypeOK
<1>3. waiter' \in [Jobs -> {"none", "Pending", "Result", "Failed"}]
  BY <1>2 DEF Resolve, TypeOK
<1> QED
  BY <1>1, <1>3

LEMMA StartJobStep ==
    ASSUME JobsInv, NEW j \in Jobs, start_job(j)
    PROVE  JobsInv'
<1> USE DEF JobsInv
<1>1. TypeOK'
  <2>1. results' \in [Jobs -> Nat] /\ waiter' \in [Jobs -> {"none", "Pending", "Result", "Failed"}]
    BY ResolveTypes DEF start_job, TypeOK
  <2> QED
    BY <2>1 DEF start_job, TypeOK, poolVars
<1>2. WorkersOK'
  BY DEF start_job, Resolve, TypeOK, WorkersOK, Has, MainOK, FreedOK, QueueOK, SentOK, mainVars
<1>3. MainOK'
  <2>1. CASE mpc' = "idle"
    BY <2>1, JobsAssumption DEF start_job, TypeOK, MainOK
  <2>2. CASE mpc' # "idle"
    <3>1. /\ mpc' = "enqueue" /\ mjob' = j /\ state' = [state EXCEPT ![j] = "PENDING"]
          /\ UNCHANGED <<results, fast, paused, notifiers, wpc, wjob, queued>>
          /\ state[j] = "none"
      BY <2>2 DEF start_job, MainOK, poolVars
    <3>2. /\ \A w \in Workers : Has(w) => wjob[w] # j
          /\ \A i \in DOMAIN queued : queued[i] # j
      BY <3>1 DEF WorkersOK, QueueOK, Has
    <3>3. /\ results[j] = 0 /\ fast[j] /\ j \notin notifiers
          /\ \A i \in DOMAIN paused : paused[i].job # j
      BY <3>1, JobsAssumption DEF FreedOK, PausedOK
    <3> QED
      BY <3>1, <3>2, <3>3, JobsAssumption DEF MainOK, TypeOK, Has
  <2> QED
    BY <2>1, <2>2
<1>4. FreedOK'
  BY DEF start_job, Resolve, TypeOK, FreedOK, MainOK, WorkersOK, SentOK, mainVars
<1>5. QueueOK'
  BY DEF start_job, Resolve, TypeOK, QueueOK, Has, poolVars
<1>6. SentOK'
  BY DEF start_job, Resolve, TypeOK, SentOK, Has
<1>7. PausedOK'
  BY DEF start_job, Resolve, TypeOK, PausedOK, WorkersOK, SentOK, FreedOK, MainOK, mainVars
<1> QED
  BY <1>1, <1>2, <1>3, <1>4, <1>5, <1>6, <1>7

LEMMA LaunchFailsStep ==
    ASSUME JobsInv, launch_fails
    PROVE  JobsInv'
<1> USE DEF JobsInv
<1>1. TypeOK'
  BY JobsAssumption DEF launch_fails, TypeOK, MainOK, poolVars, mainVars
<1>2. WorkersOK'
  BY DEF launch_fails, TypeOK, WorkersOK, Has, MainOK, FreedOK, QueueOK, SentOK, mainVars
<1>3. MainOK'
  BY DEF launch_fails, TypeOK, MainOK, Has, WorkersOK, FreedOK, poolVars, mainVars
<1>4. FreedOK'
  BY DEF launch_fails, TypeOK, FreedOK, MainOK, WorkersOK, SentOK, mainVars
<1>5. QueueOK'
  BY DEF launch_fails, TypeOK, QueueOK, Has, poolVars
<1>6. SentOK'
  BY DEF launch_fails, TypeOK, SentOK, Has
<1>7. PausedOK'
  BY DEF launch_fails, TypeOK, PausedOK, WorkersOK, SentOK, FreedOK, MainOK, mainVars
<1> QED
  BY <1>1, <1>2, <1>3, <1>4, <1>5, <1>6, <1>7

(* A sequence, when one is added or the first one is taken.                *)
LEMMA AppendOne ==
    ASSUME NEW S, NEW s \in Seq(S), NEW x \in S
    PROVE  /\ Append(s, x) \in Seq(S) /\ Len(s) \in Nat
           /\ DOMAIN s = 1..Len(s) /\ DOMAIN Append(s, x) = 1..(Len(s) + 1)
           /\ \A i \in DOMAIN s : Append(s, x)[i] = s[i]
           /\ Append(s, x)[Len(s) + 1] = x
  OBVIOUS

LEMMA TakeOne ==
    ASSUME NEW S, NEW s \in Seq(S), s # <<>>
    PROVE  /\ Head(s) \in S /\ 1 \in DOMAIN s /\ Head(s) = s[1] /\ Tail(s) \in Seq(S)
           /\ \A i \in DOMAIN Tail(s) :
                  i \in Nat /\ i + 1 \in DOMAIN s /\ i + 1 # 1 /\ Tail(s)[i] = s[i + 1]
  OBVIOUS

Pauses == [job : Jobs \cup {NoJob}, collected : SUBSET Jobs]

(* What a pause adds: nothing else is paused with the same job.            *)
LEMMA PauseAdded ==
    ASSUME TypeOK, NEW p \in Pauses, paused' = Append(paused, p)
    PROVE  /\ paused' \in Seq(Pauses)
           /\ \A i \in DOMAIN paused' :
                  \/ i \in DOMAIN paused /\ paused'[i] = paused[i]
                  \/ i = Len(paused) + 1 /\ paused'[i] = p
<1>1. paused \in Seq(Pauses)
  BY DEF TypeOK, Pauses
<1>2. \A n \in Nat : \A i \in 1..(n + 1) : i \in 1..n \/ i = n + 1
  OBVIOUS
<1>3. /\ paused' \in Seq(Pauses) /\ Len(paused) \in Nat
      /\ DOMAIN paused = 1..Len(paused) /\ DOMAIN paused' = 1..(Len(paused) + 1)
      /\ \A i \in DOMAIN paused : paused'[i] = paused[i]
      /\ paused'[Len(paused) + 1] = p
  BY <1>1, AppendOne
<1> QED
  BY <1>2, <1>3

LEMMA ReadStateStep ==
    ASSUME JobsInv, read_state
    PROVE  JobsInv'
<1> USE DEF JobsInv
<1>1. CASE UNCHANGED <<mjob, waiter, jobs, paused, notifiers, results>>
  <2>1. /\ mpc = "read" /\ mpc' = "join" /\ state[mjob] = "DONE"
        /\ UNCHANGED <<state, fast, locked, wpc, wjob, notifications, mailbox, poolVars>>
    BY <1>1, JobsAssumption DEF read_state, MainOK
  <2>2. TypeOK' /\ WorkersOK' /\ FreedOK' /\ PausedOK'
    BY <1>1, <2>1 DEF TypeOK, WorkersOK, FreedOK, PausedOK, Has, poolVars
  <2>3. MainOK' /\ QueueOK' /\ SentOK'
    BY <1>1, <2>1 DEF MainOK, QueueOK, SentOK, Has, poolVars
  <2> QED
    BY <2>2, <2>3
<1>2. CASE paused' = Append(paused, [job |-> mjob, collected |-> {}])
           /\ waiter' = [waiter EXCEPT ![mjob] = "Pending"]
           /\ jobs' = jobs \cup {mjob} /\ notifiers' = notifiers \cup {mjob}
           /\ mpc' = "idle" /\ mjob' = NoJob /\ UNCHANGED results
  <2>0. UNCHANGED <<state, fast, locked, wpc, wjob, notifications, mailbox, poolVars>>
    BY DEF read_state
  <2>1. /\ mpc = "read" /\ mjob \in Jobs /\ results[mjob] = 0 /\ fast[mjob]
        /\ state[mjob] # "none" /\ \A i \in DOMAIN paused : paused[i].job # mjob
    BY JobsAssumption DEF read_state, MainOK, TypeOK
  <2>2. [job |-> mjob, collected |-> {}] \in Pauses
    BY <2>1 DEF Pauses
  <2>3. TypeOK'
    BY <1>2, <2>0, <2>1, <2>2, PauseAdded DEF TypeOK, Pauses, poolVars
  <2>4. WorkersOK' /\ MainOK' /\ FreedOK'
    BY <1>2, <2>0, <2>1 DEF WorkersOK, MainOK, FreedOK, Has
  <2>5. PausedOK'
    <3>1. \A i \in DOMAIN paused' :
             \/ i \in DOMAIN paused /\ paused'[i].job = paused[i].job
             \/ i = Len(paused) + 1 /\ paused'[i].job = mjob
      BY <1>2, <2>2, PauseAdded
    <3> QED
      BY <1>2, <2>0, <2>1, <3>1 DEF PausedOK
  <2>6. QueueOK' /\ SentOK'
    BY <1>2, <2>0 DEF QueueOK, SentOK, Has, poolVars
  <2> QED
    BY <2>3, <2>4, <2>5, <2>6
<1> QED
  BY <1>1, <1>2 DEF read_state

LEMMA JoinStep ==
    ASSUME JobsInv, join
    PROVE  JobsInv'
<1> USE DEF JobsInv
<1>1. TypeOK'
  BY JobsAssumption DEF join, Resolve, TypeOK, MainOK, poolVars, mainVars
<1>2. WorkersOK'
  BY DEF join, Resolve, TypeOK, WorkersOK, Has, MainOK, FreedOK, QueueOK, SentOK, mainVars
<1>3. MainOK'
  BY DEF join, Resolve, TypeOK, MainOK, Has, WorkersOK, FreedOK, poolVars, mainVars
<1>4. FreedOK'
  BY DEF join, Resolve, TypeOK, FreedOK, MainOK, WorkersOK, SentOK, mainVars
<1>5. QueueOK'
  BY DEF join, Resolve, TypeOK, QueueOK, Has, poolVars
<1>6. SentOK'
  BY DEF join, Resolve, TypeOK, SentOK, Has
<1>7. PausedOK'
  BY DEF join, Resolve, TypeOK, PausedOK, WorkersOK, SentOK, FreedOK, MainOK, mainVars
<1> QED
  BY <1>1, <1>2, <1>3, <1>4, <1>5, <1>6, <1>7

(* The first of what is paused, and the others.                            *)
LEMMA FirstPaused ==
    ASSUME TypeOK, paused # <<>>
    PROVE  /\ Head(paused) \in Pauses
           /\ 1 \in DOMAIN paused /\ Head(paused) = paused[1]
           /\ Tail(paused) \in Seq(Pauses)
           /\ \A i \in DOMAIN Tail(paused) :
                  /\ i \in Nat /\ i + 1 \in DOMAIN paused /\ i + 1 # 1
                  /\ Tail(paused)[i] = paused[i + 1]
<1>1. paused \in Seq(Pauses)
  BY DEF TypeOK, Pauses
<1> QED
  BY <1>1, TakeOne

LEMMA CheckJobStep ==
    ASSUME JobsInv, check_job
    PROVE  JobsInv'
<1> USE DEF JobsInv
<1>a. /\ mpc = "idle" /\ mpc' = "check" /\ mjob' = Head(paused).job /\ paused' = Tail(paused)
      /\ paused # <<>> /\ Head(paused).job # NoJob
      /\ UNCHANGED <<state, fast, locked, wpc, wjob, notifications, mailbox, poolVars, waiter,
                     jobs, notifiers, results>>
  BY DEF check_job
<1>b. /\ mjob' \in Jobs /\ fast[mjob'] /\ mjob' \in notifiers
      /\ \A i \in DOMAIN paused' : paused'[i].job # mjob'
  BY <1>a, FirstPaused DEF PausedOK, Pauses
<1>1. TypeOK'
  BY <1>a, <1>b, FirstPaused DEF TypeOK, Pauses, poolVars
<1>2. WorkersOK' /\ FreedOK' /\ QueueOK' /\ SentOK'
  BY <1>a DEF WorkersOK, FreedOK, QueueOK, SentOK, Has, poolVars
<1>3. MainOK'
  BY <1>a, <1>b, JobsAssumption DEF MainOK, FreedOK
<1>4. PausedOK'
  BY <1>a, FirstPaused DEF PausedOK
<1> QED
  BY <1>1, <1>2, <1>3, <1>4

LEMMA CheckJobLockedStep ==
    ASSUME JobsInv, check_job_locked
    PROVE  JobsInv'
<1> USE DEF JobsInv
<1>a. mjob \in Jobs /\ mjob \in notifiers /\ fast[mjob]
  BY JobsAssumption DEF check_job_locked, MainOK, TypeOK
<1>1. TypeOK'
  <2>1. results' \in [Jobs -> Nat] /\ waiter' \in [Jobs -> {"none", "Pending", "Result", "Failed"}]
    BY <1>a, ResolveTypes DEF check_job_locked, call_notification, TypeOK
  <2> QED
    BY <2>1 DEF check_job_locked, call_notification, TypeOK, poolVars
<1>2. WorkersOK'
  BY <1>a DEF check_job_locked, call_notification, Resolve, TypeOK, WorkersOK, Has, FreedOK, QueueOK
<1>3. MainOK'
  BY DEF check_job_locked, MainOK
<1>4. FreedOK'
  BY <1>a DEF check_job_locked, call_notification, Resolve, TypeOK, FreedOK, MainOK
<1>5. QueueOK'
  BY DEF check_job_locked, QueueOK, Has, poolVars
<1>6. SentOK'
  BY <1>a DEF check_job_locked, TypeOK, SentOK, Has
<1>7. PausedOK'
  BY <1>a DEF check_job_locked, call_notification, TypeOK, PausedOK, MainOK
<1> QED
  BY <1>1, <1>2, <1>3, <1>4, <1>5, <1>6, <1>7

LEMMA HandleNotificationStep ==
    ASSUME JobsInv, handle_notification
    PROVE  JobsInv'
<1> USE DEF JobsInv
<1>1. TypeOK'
  <2>1. Head(notifications) \in Jobs /\ notifications' \in Seq(Jobs)
    BY DEF handle_notification, TypeOK
  <2>2. results' \in [Jobs -> Nat] /\ waiter' \in [Jobs -> {"none", "Pending", "Result", "Failed"}]
    BY <2>1, ResolveTypes DEF handle_notification, call_notification, TypeOK
  <2> QED
    BY <2>1, <2>2 DEF handle_notification, call_notification, TypeOK, poolVars
<1>2. WorkersOK'
  BY DEF handle_notification, call_notification, Resolve, TypeOK, WorkersOK, Has, MainOK, FreedOK, QueueOK, SentOK, mainVars
<1>3. MainOK'
  BY DEF handle_notification, call_notification, Resolve, TypeOK, MainOK, Has, WorkersOK, FreedOK, poolVars, mainVars
<1>4. FreedOK'
  BY DEF handle_notification, call_notification, Resolve, TypeOK, FreedOK, MainOK, WorkersOK, SentOK, mainVars
<1>5. QueueOK'
  BY DEF handle_notification, call_notification, Resolve, TypeOK, QueueOK, Has, poolVars
<1>6. SentOK'
  BY DEF handle_notification, call_notification, Resolve, TypeOK, SentOK, Has
<1>7. PausedOK'
  BY DEF handle_notification, call_notification, Resolve, TypeOK, PausedOK, WorkersOK, SentOK, FreedOK, MainOK, mainVars
<1> QED
  BY <1>1, <1>2, <1>3, <1>4, <1>5, <1>6, <1>7

LEMMA AbortJobsStep ==
    ASSUME JobsInv, abort_jobs
    PROVE  JobsInv'
<1> USE DEF JobsInv
<1>1. TypeOK'
  BY JobsAssumption DEF abort_jobs, TypeOK, MainOK, poolVars, mainVars
<1>2. WorkersOK'
  BY DEF abort_jobs, TypeOK, WorkersOK, Has, MainOK, FreedOK, QueueOK, SentOK, mainVars
<1>3. MainOK'
  BY DEF abort_jobs, TypeOK, MainOK, Has, WorkersOK, FreedOK, poolVars, mainVars
<1>4. FreedOK'
  BY DEF abort_jobs, TypeOK, FreedOK, MainOK, WorkersOK, SentOK, mainVars
<1>5. QueueOK'
  BY DEF abort_jobs, TypeOK, QueueOK, Has, poolVars
<1>6. SentOK'
  BY DEF abort_jobs, TypeOK, SentOK, Has
<1>7. PausedOK'
  BY DEF abort_jobs, TypeOK, PausedOK, WorkersOK, SentOK, FreedOK, MainOK, mainVars
<1> QED
  BY <1>1, <1>2, <1>3, <1>4, <1>5, <1>6, <1>7

LEMMA ExecuteJobStep ==
    ASSUME JobsInv, NEW w \in Workers, execute_job(w)
    PROVE  JobsInv'
<1> USE DEF JobsInv
<1>1. TypeOK'
  <2>1. /\ wpc' \in [Workers -> {"none", "execute", "worker", "finish", "done", "notify",
                                 "loop", "wait", "signaled"}]
        /\ state' \in [Jobs -> {"none", "PENDING", "RUNNING", "DONE"}]
        /\ locked' \in [Jobs -> BOOLEAN]
    BY DEF execute_job, TypeOK
  <2> QED
    BY <2>1 DEF execute_job, TypeOK, poolVars, mainVars
<1>2. WorkersOK'
  BY DEF execute_job, TypeOK, WorkersOK, Has, MainOK, FreedOK, QueueOK, SentOK, mainVars
<1>3. MainOK'
  BY DEF execute_job, TypeOK, MainOK, Has, WorkersOK, FreedOK, poolVars, mainVars
<1>4. FreedOK'
  BY DEF execute_job, TypeOK, FreedOK, MainOK, WorkersOK, SentOK, mainVars
<1>5. QueueOK'
  BY DEF execute_job, TypeOK, QueueOK, Has, poolVars
<1>6. SentOK'
  BY DEF execute_job, TypeOK, SentOK, Has
<1>7. PausedOK'
  BY DEF execute_job, TypeOK, PausedOK, WorkersOK, SentOK, FreedOK, MainOK, mainVars
<1> QED
  BY <1>1, <1>2, <1>3, <1>4, <1>5, <1>6, <1>7

LEMMA NotifyStep ==
    ASSUME JobsInv, NEW w \in Workers, notify(w)
    PROVE  JobsInv'
<1> USE DEF JobsInv
<1>1. TypeOK'
  <2>1. wjob[w] \in Jobs
    BY DEF notify, WorkersOK, Has
  <2>2. notifications' \in Seq(Jobs)
    BY <2>1 DEF notify, TypeOK
  <2> QED
    BY <2>2 DEF notify, TypeOK, poolVars, mainVars
<1>2. WorkersOK'
  BY DEF notify, TypeOK, WorkersOK, Has, MainOK, FreedOK, QueueOK, SentOK, mainVars
<1>3. MainOK'
  BY DEF notify, TypeOK, MainOK, Has, WorkersOK, FreedOK, poolVars, mainVars
<1>4. FreedOK'
  BY DEF notify, TypeOK, FreedOK, MainOK, WorkersOK, SentOK, mainVars
<1>5. QueueOK'
  BY DEF notify, TypeOK, QueueOK, Has, poolVars
<1>6. SentOK'
  <2> SUFFICES ASSUME NEW i \in DOMAIN notifications'
               PROVE  /\ ~fast[notifications'[i]] /\ state[notifications'[i]] = "DONE"
                      /\ \A v \in Workers : Has(v)' => wjob[v] # notifications'[i]
    BY DEF SentOK, notify
  <2>1. wjob[w] \in Jobs /\ wpc[w] = "notify"
    BY DEF notify, WorkersOK, Has
  <2>2. \/ i \in DOMAIN notifications /\ notifications'[i] = notifications[i]
        \/ notifications'[i] = wjob[w]
    BY <2>1 DEF notify, TypeOK
  <2>3. \A v \in Workers : Has(v)' => Has(v) /\ v # w
    BY DEF notify, Has, TypeOK
  <2>4. CASE notifications'[i] = wjob[w]
    BY <2>1, <2>3, <2>4 DEF WorkersOK, Has
  <2> QED
    BY <2>2, <2>3, <2>4 DEF SentOK
<1>7. PausedOK'
  BY DEF notify, TypeOK, PausedOK, WorkersOK, SentOK, FreedOK, MainOK, mainVars
<1> QED
  BY <1>1, <1>2, <1>3, <1>4, <1>5, <1>6, <1>7

LEMMA SpuriousWakeupStep ==
    ASSUME JobsInv, NEW w \in Workers, spurious_wakeup(w)
    PROVE  JobsInv'
<1> USE DEF JobsInv
<1>1. TypeOK'
  BY JobsAssumption DEF spurious_wakeup, TypeOK, MainOK, poolVars, mainVars
<1>2. WorkersOK'
  BY DEF spurious_wakeup, TypeOK, WorkersOK, Has, MainOK, FreedOK, QueueOK, SentOK, mainVars
<1>3. MainOK'
  BY DEF spurious_wakeup, TypeOK, MainOK, Has, WorkersOK, FreedOK, poolVars, mainVars
<1>4. FreedOK'
  BY DEF spurious_wakeup, TypeOK, FreedOK, MainOK, WorkersOK, SentOK, mainVars
<1>5. QueueOK'
  BY DEF spurious_wakeup, TypeOK, QueueOK, Has, poolVars
<1>6. SentOK'
  BY DEF spurious_wakeup, TypeOK, SentOK, Has
<1>7. PausedOK'
  BY DEF spurious_wakeup, TypeOK, PausedOK, WorkersOK, SentOK, FreedOK, MainOK, mainVars
<1> QED
  BY <1>1, <1>2, <1>3, <1>4, <1>5, <1>6, <1>7

LEMMA ForkStep ==
    ASSUME JobsInv, fork
    PROVE  JobsInv'
<1> USE DEF JobsInv
<1>a. /\ mpc = "idle" /\ wpc' = [w \in Workers |-> "none"] /\ wjob' = [w \in Workers |-> NoJob]
      /\ locked' \in [Jobs -> BOOLEAN] /\ queued' = <<>> /\ jobs' = {}
      /\ thread_waiting_count' = 0 /\ thread_count' = 0 /\ pool_queue' = NoJob
      /\ paused' = Append(paused, [job |-> NoJob, collected |-> jobs])
      /\ UNCHANGED <<state, fast, next, mpc, mjob, waiter, notifiers, results>>
  BY DEF fork, reset_after_fork, TypeOK
<1>b. [job |-> NoJob, collected |-> jobs] \in Pauses
  BY DEF TypeOK, Pauses
<1>c. /\ mailbox' \in {"open", "unsignaled", "locked"} /\ notifications' \in Seq(Jobs)
      /\ \A i \in DOMAIN notifications' :
             i \in DOMAIN notifications /\ notifications'[i] = notifications[i]
  <2>1. PICK n \in 0..Len(notifications) :
          /\ notifications' = SubSeq(notifications, 1, n)
          /\ mailbox' \in {IF n < Len(notifications) THEN "unsignaled" ELSE mailbox}
                 \cup {m \in {"locked"} : \E w \in Workers : wpc[w] = "notify"}
    BY DEF fork, fork_notifications
  <2>2. mailbox' \in {"open", "unsignaled", "locked"}
    BY <2>1 DEF TypeOK
  <2>3. notifications \in Seq(Jobs) /\ Len(notifications) \in Nat
    BY DEF TypeOK
  <2>4. /\ SubSeq(notifications, 1, n) \in Seq(Jobs)
        /\ \A i \in DOMAIN SubSeq(notifications, 1, n) :
               i \in DOMAIN notifications /\ SubSeq(notifications, 1, n)[i] = notifications[i]
    BY <2>3
  <2> QED
    BY <2>1, <2>2, <2>4
<1>1. TypeOK'
  BY <1>a, <1>b, <1>c, PauseAdded DEF TypeOK, Pauses
<1>2. WorkersOK' /\ QueueOK' /\ FreedOK'
  BY <1>a DEF WorkersOK, QueueOK, FreedOK, Has
<1>3. MainOK'
  BY <1>a DEF MainOK
<1>4. PausedOK'
  <2>1. \A i \in DOMAIN paused' :
           \/ i \in DOMAIN paused /\ paused'[i].job = paused[i].job
           \/ i = Len(paused) + 1 /\ paused'[i].job = NoJob
    BY <1>a, <1>b, PauseAdded
  <2> QED
    BY <1>a, <2>1 DEF PausedOK
<1>5. SentOK'
  BY <1>a, <1>c DEF SentOK, Has
<1> QED
  BY <1>1, <1>2, <1>3, <1>4, <1>5

LEMMA AbortCollectedStep ==
    ASSUME JobsInv, abort_collected
    PROVE  JobsInv'
<1> USE DEF JobsInv
<1>a. /\ mpc = "idle" /\ paused # <<>> /\ paused' = Tail(paused)
      /\ UNCHANGED <<state, fast, locked, wpc, wjob, notifications, mailbox, poolVars, mpc, mjob,
                     jobs, notifiers, results>>
  BY DEF abort_collected
<1>b. waiter' \in [Jobs -> {"none", "Pending", "Result", "Failed"}]
  BY DEF abort_collected, TypeOK
<1>1. TypeOK'
  BY <1>a, <1>b, FirstPaused DEF TypeOK, Pauses, poolVars
<1>2. WorkersOK' /\ MainOK' /\ FreedOK'
  BY <1>a DEF WorkersOK, MainOK, FreedOK, Has, poolVars
<1>3. PausedOK'
  BY <1>a, FirstPaused DEF PausedOK
<1>4. QueueOK' /\ SentOK'
  BY <1>a DEF QueueOK, SentOK, Has, poolVars
<1> QED
  BY <1>1, <1>2, <1>3, <1>4

(* start_job under pool_mutex: a new thread gets the job.                  *)
LEMMA LaunchStep ==
    ASSUME JobsInv, enqueue, thread_waiting_count = 0
    PROVE  JobsInv'
<1> USE DEF JobsInv
<1>0. PICK w \in Workers : /\ wpc[w] = "none"
                           /\ wpc' = [wpc EXCEPT ![w] = "execute"]
                           /\ wjob' = [wjob EXCEPT ![w] = mjob]
  BY DEF enqueue
<1>a. /\ mpc = "enqueue" /\ mpc' = "read" /\ thread_count' = thread_count + 1
      /\ UNCHANGED <<next, pool_queue, thread_waiting_count, queued, state, fast, locked,
                     notifications, mailbox, mjob, waiter, jobs, paused, notifiers, results>>
  BY DEF enqueue, TypeOK
<1>b. /\ mjob \in Jobs /\ state[mjob] = "PENDING" /\ results[mjob] = 0 /\ fast[mjob]
      /\ \A v \in Workers : Has(v) => wjob[v] # mjob
      /\ \A i \in DOMAIN queued : queued[i] # mjob
  BY <1>a, JobsAssumption DEF MainOK, TypeOK
<1>c. \A v \in Workers : Has(v)' => Has(v) \/ v = w
  BY <1>0 DEF Has, TypeOK
<1>1. TypeOK'
  BY <1>0, <1>a DEF TypeOK
<1>2. WorkersOK'
  BY <1>0, <1>a, <1>b DEF WorkersOK, Has, TypeOK
<1>3. MainOK' /\ FreedOK' /\ PausedOK'
  BY <1>0, <1>a, JobsAssumption DEF MainOK, FreedOK, PausedOK, TypeOK
<1>5. QueueOK' /\ SentOK'
  BY <1>0, <1>a, <1>b, <1>c DEF QueueOK, SentOK, TypeOK, Has
<1> QED
  BY <1>1, <1>2, <1>3, <1>5

(* ... or the job is queued.                                               *)
LEMMA EnqueueStep ==
    ASSUME JobsInv, enqueue, thread_waiting_count # 0
    PROVE  JobsInv'
<1> USE DEF JobsInv
<1>a. /\ mpc = "enqueue" /\ mpc' = "read" /\ Enqueue(mjob) /\ queued' = Append(queued, mjob)
      /\ thread_waiting_count > 0 /\ thread_waiting_count' = thread_waiting_count - 1
      /\ condition_signal
      /\ UNCHANGED <<thread_count, wjob, state, fast, locked,
                     notifications, mailbox, mjob, waiter, jobs, paused, notifiers, results>>
  BY DEF enqueue, TypeOK
<1>b. /\ mjob \in Jobs /\ state[mjob] = "PENDING"
      /\ \A v \in Workers : Has(v) => wjob[v] # mjob
      /\ \A i \in DOMAIN queued : queued[i] # mjob
  BY <1>a, JobsAssumption DEF MainOK, TypeOK
<1>c. /\ \A v \in Workers : wpc'[v] = wpc[v] \/ wpc'[v] = "signaled"
      /\ wpc' \in [Workers -> {"none", "execute", "worker", "finish", "done", "notify",
                               "loop", "wait", "signaled"}]
  BY <1>a DEF condition_signal, TypeOK
<1>d. \A v \in Workers : Has(v)' => Has(v) /\ wpc'[v] = wpc[v]
  BY <1>c DEF Has
<1>1. TypeOK'
  <2>1. queued' \in Seq(Jobs)
    BY <1>a, <1>b DEF TypeOK
  <2>2. pool_queue' \in Jobs \cup {NoJob} /\ next' \in [Jobs -> Jobs \cup {NoJob}]
    BY <1>a, <1>b DEF Enqueue, TypeOK
  <2> QED
    BY <1>a, <1>c, <2>1, <2>2 DEF TypeOK
<1>2. WorkersOK'
  BY <1>a, <1>c, <1>d DEF WorkersOK, Has
<1>3. MainOK' /\ FreedOK' /\ PausedOK'
  BY <1>a, JobsAssumption DEF MainOK, FreedOK, PausedOK, TypeOK
<1>5. QueueOK'
  <2>1. \A i \in DOMAIN queued' : \/ i \in DOMAIN queued /\ queued'[i] = queued[i]
                                  \/ i = Len(queued) + 1 /\ queued'[i] = mjob
    BY <1>a, <1>b DEF TypeOK
  <2> QED
    BY <1>a, <1>b, <1>d, <2>1 DEF QueueOK
<1>6. SentOK'
  BY <1>a, <1>d DEF SentOK
<1> QED
  BY <1>1, <1>2, <1>3, <1>5, <1>6

(* The first of the queue, and what is left when it is taken.              *)
LEMMA FirstOfQueue ==
    ASSUME TypeOK, LinkedOK, pool_queue # NoJob
    PROVE  /\ queued # <<>> /\ Len(queued) >= 1 /\ 1 \in DOMAIN queued
           /\ pool_queue \in Jobs /\ next[pool_queue] = queued[1] /\ queued[1] \in Jobs
           /\ Tail(queued) \in Seq(Jobs) /\ Len(Tail(queued)) = Len(queued) - 1
           /\ \A i \in DOMAIN Tail(queued) :
                  i + 1 \in DOMAIN queued /\ i + 1 # 1 /\ Tail(queued)[i] = queued[i + 1]
<1>1. queued # <<>> /\ pool_queue \in Jobs
  BY DEF LinkedOK, TypeOK
<1>2. Len(queued) >= 1 /\ 1 \in DOMAIN queued
  BY <1>1 DEF TypeOK
<1>3. next[pool_queue] = queued[1] /\ queued[1] \in Jobs
  <2>1. queued[1] = next[IF 1 = 1 THEN pool_queue ELSE queued[1 - 1]]
    BY <1>2 DEF LinkedOK
  <2>2. queued[1] \in Jobs
    BY <1>2 DEF TypeOK
  <2> QED
    BY <2>1, <2>2
<1>4. Tail(queued) \in Seq(Jobs) /\ Len(Tail(queued)) = Len(queued) - 1
  BY <1>1 DEF TypeOK
<1>5. \A i \in DOMAIN Tail(queued) :
         i + 1 \in DOMAIN queued /\ i + 1 # 1 /\ Tail(queued)[i] = queued[i + 1]
  BY <1>1 DEF TypeOK
<1> QED
  BY <1>1, <1>2, <1>3, <1>4, <1>5

LEMMA WorkerLoopStep ==
    ASSUME JobsInv, LinkedOK, NEW w \in Workers, worker_loop(w)
    PROVE  JobsInv'
<1> USE DEF JobsInv
<1>a. /\ wpc[w] \in {"loop", "signaled"} /\ ~Has(w)
      /\ UNCHANGED <<state, fast, locked, notifications, mailbox, thread_count, mpc, mjob,
                     waiter, jobs, paused, notifiers, results>>
  BY DEF worker_loop, mainVars, Has
<1>1. CASE pool_queue = NoJob
  <2>1. /\ thread_waiting_count' = thread_waiting_count + 1
        /\ wpc' = [wpc EXCEPT ![w] = "wait"]
        /\ UNCHANGED <<wjob, next, pool_queue, queued>>
    BY <1>1 DEF worker_loop
  <2>2. \A v \in Workers : Has(v)' => Has(v) /\ v # w /\ wpc'[v] = wpc[v]
    BY <2>1 DEF Has, TypeOK
  <2>3. TypeOK'
    BY <1>a, <2>1 DEF TypeOK
  <2>4. WorkersOK' /\ MainOK' /\ PausedOK'
    BY <1>a, <2>1, <2>2 DEF WorkersOK, MainOK, PausedOK, Has
  <2>5. FreedOK' /\ QueueOK' /\ SentOK'
    BY <1>a, <2>1, <2>2 DEF FreedOK, QueueOK, SentOK
  <2> QED
    BY <2>3, <2>4, <2>5
<1>2. CASE pool_queue # NoJob
  <2> DEFINE j == queued[1]
  <2>0. /\ j \in Jobs /\ 1 \in DOMAIN queued /\ pool_queue \in Jobs
        /\ Tail(queued) \in Seq(Jobs)
        /\ \A i \in DOMAIN Tail(queued) :
               i + 1 \in DOMAIN queued /\ i + 1 # 1 /\ Tail(queued)[i] = queued[i + 1]
    BY <1>2, FirstOfQueue
  <2>1. /\ wjob' = [wjob EXCEPT ![w] = j] /\ wpc' = [wpc EXCEPT ![w] = "execute"]
        /\ queued' = Tail(queued)
        /\ UNCHANGED thread_waiting_count
    BY <1>2, FirstOfQueue DEF worker_loop
  <2>2. pool_queue' \in Jobs \cup {NoJob} /\ next' \in [Jobs -> Jobs \cup {NoJob}]
    BY <1>2, FirstOfQueue DEF worker_loop, TypeOK
  <2>3. /\ state[j] = "PENDING" /\ results[j] = 0
        /\ \A v \in Workers : Has(v) => wjob[v] # j
        /\ \A i \in DOMAIN Tail(queued) : Tail(queued)[i] # j
    BY <2>0 DEF QueueOK, FreedOK
  <2> HIDE DEF j
  <2>4. \A v \in Workers :
           Has(v)' => \/ Has(v) /\ v # w /\ wpc'[v] = wpc[v] /\ wjob'[v] = wjob[v]
                      \/ v = w /\ wpc'[v] = "execute" /\ wjob'[v] = j
    <3>1. wpc'[w] = "execute" /\ wjob'[w] = j
      BY <2>1 DEF TypeOK
    <3>2. \A v \in Workers : v # w => wpc'[v] = wpc[v] /\ wjob'[v] = wjob[v]
      BY <2>1 DEF TypeOK
    <3> QED
      BY <3>1, <3>2 DEF Has
  <2>5. TypeOK'
    BY <1>a, <2>0, <2>1, <2>2 DEF TypeOK
  <2>6. WorkersOK'
    <3> SUFFICES ASSUME NEW v \in Workers
                 PROVE  /\ Has(v)' => wjob'[v] \in Jobs /\ results[wjob'[v]] = 0
                        /\ wpc'[v] = "execute" => state[wjob'[v]] = "PENDING"
                        /\ wpc'[v] \in {"worker", "finish"} => state[wjob'[v]] = "RUNNING"
                        /\ wpc'[v] \in {"done", "notify"} => state[wjob'[v]] = "DONE"
                        /\ wpc'[v] = "done" => locked[wjob'[v]]
                        /\ wpc'[v] = "notify" => ~fast[wjob'[v]]
                        /\ \A u \in Workers : Has(v)' /\ Has(u)' /\ wjob'[v] = wjob'[u] => v = u
      BY <1>a DEF WorkersOK
    <3>1. CASE ~Has(v)'
      BY <3>1 DEF Has
    <3>2. CASE Has(v)'
      BY <2>0, <2>3, <2>4, <3>2 DEF WorkersOK, Has
    <3> QED
      BY <3>1, <3>2
  <2>7. MainOK' /\ FreedOK' /\ PausedOK'
    <3>1. FreedOK' /\ PausedOK'
      BY <1>a DEF FreedOK, PausedOK
    <3>2. mpc = "enqueue" => /\ \A v \in Workers : Has(v)' => wjob'[v] # mjob
                             /\ \A i \in DOMAIN queued' : queued'[i] # mjob
      BY <2>0, <2>1, <2>4 DEF MainOK, j
    <3> QED
      BY <1>a, <3>1, <3>2 DEF MainOK
  <2>8. QueueOK'
    <3> SUFFICES ASSUME NEW i \in DOMAIN Tail(queued)
                 PROVE  /\ state'[Tail(queued)[i]] = "PENDING"
                        /\ \A v \in Workers : Has(v)' => wjob'[v] # Tail(queued)[i]
                        /\ \A k \in DOMAIN Tail(queued) : Tail(queued)[i] = Tail(queued)[k] => i = k
      BY <2>1, Zenon DEF QueueOK
    <3>1. \A v \in Workers : Has(v)' => wjob'[v] # Tail(queued)[i]
      <4>1. i + 1 \in DOMAIN queued /\ Tail(queued)[i] = queued[i + 1]
        BY <2>0
      <4>2. \A v \in Workers : Has(v) => wjob[v] # Tail(queued)[i]
        BY <4>1 DEF QueueOK
      <4> QED
        BY <2>3, <2>4, <4>2
    <3>2. state'[Tail(queued)[i]] = "PENDING"
      BY <1>a, <2>0 DEF QueueOK
    <3>3. ASSUME NEW k \in DOMAIN Tail(queued), Tail(queued)[i] = Tail(queued)[k] PROVE i = k
      <4>1. i + 1 = k + 1
        BY <2>0, <3>3 DEF QueueOK
      <4>2. i \in Nat /\ k \in Nat
        BY <2>0
      <4> QED
        BY <4>1, <4>2
    <3> QED
      BY <3>1, <3>2, <3>3
  <2>9. SentOK'
    BY <1>a, <2>3, <2>4 DEF SentOK
  <2> QED
    BY <2>5, <2>6, <2>7, <2>8, <2>9
<1> QED
  BY <1>1, <1>2
-----------------------------------------------------------------------------
(* The circular list, when a job is added and when the first one is taken. *)
LEMMA EnqueueKeepsLinks ==
    ASSUME JobsInv, LinkedOK, enqueue
    PROVE  LinkedOK'
<1> USE DEF JobsInv
<1>1. CASE thread_waiting_count = 0
  BY <1>1 DEF enqueue, LinkedOK, TypeOK
<1>2. CASE thread_waiting_count # 0
  <2>1. /\ Enqueue(mjob) /\ queued' = Append(queued, mjob)
        /\ mjob \in Jobs /\ mjob # NoJob /\ \A i \in DOMAIN queued : queued[i] # mjob
    BY <1>2, JobsAssumption DEF enqueue, MainOK, TypeOK
  <2>2. /\ Len(queued) \in Nat /\ DOMAIN queued = 1..Len(queued)
        /\ queued' # <<>> /\ Len(queued') = Len(queued) + 1
        /\ DOMAIN queued' = 1..(Len(queued) + 1)
        /\ \A i \in 1..Len(queued) : queued'[i] = queued[i]
        /\ queued'[Len(queued) + 1] = mjob
    <3>1. queued \in Seq(Jobs)
      BY DEF TypeOK
    <3>2. Len(queued) \in Nat /\ DOMAIN queued = 1..Len(queued)
      BY <3>1
    <3>3. /\ Len(Append(queued, mjob)) = Len(queued) + 1
          /\ DOMAIN Append(queued, mjob) = 1..(Len(queued) + 1)
          /\ \A i \in 1..Len(queued) : Append(queued, mjob)[i] = queued[i]
          /\ Append(queued, mjob)[Len(queued) + 1] = mjob
      BY <2>1, <3>1
    <3>4. Append(queued, mjob) # <<>>
      BY <2>1, <3>1
    <3> QED
      BY <2>1, <3>2, <3>3, <3>4
  <2>3. pool_queue' = mjob
    BY <2>1 DEF Enqueue
  <2>4. ASSUME NEW i \in DOMAIN queued'
        PROVE  queued'[i] = next'[IF i = 1 THEN pool_queue' ELSE queued'[i - 1]]
    <3>1. CASE pool_queue = NoJob
      <4>1. Len(queued) = 0 /\ i = 1
        BY <2>2, <3>1 DEF LinkedOK
      <4>2. next'[mjob] = mjob
        BY <2>1, <3>1 DEF Enqueue, TypeOK
      <4> QED
        BY <2>2, <2>3, <4>1, <4>2
    <3>2. CASE pool_queue # NoJob
      <4>1. /\ Len(queued) > 0 /\ pool_queue = queued[Len(queued)] /\ pool_queue \in Jobs
            /\ next[pool_queue] = queued[1]
        <5>1. /\ queued # <<>> /\ Len(queued) >= 1 /\ pool_queue \in Jobs
              /\ next[pool_queue] = queued[1]
          BY <3>2, FirstOfQueue
        <5> QED
          BY <2>2, <5>1 DEF LinkedOK
      <4>2. mjob # pool_queue
        BY <2>1, <2>2, <4>1
      <4>3. /\ next'[mjob] = queued[1] /\ next'[pool_queue] = mjob
            /\ \A j \in Jobs : j # mjob /\ j # pool_queue => next'[j] = next[j]
        BY <2>1, <3>2, <4>1, <4>2 DEF Enqueue, TypeOK
      <4>4. CASE i = 1
        BY <2>2, <2>3, <4>1, <4>3, <4>4
      <4>5. CASE i = Len(queued) + 1
        <5>1. i # 1 /\ queued'[i - 1] = pool_queue
          BY <2>2, <4>1, <4>5
        <5> QED
          BY <2>2, <4>3, <4>5, <5>1
      <4>6. CASE i # 1 /\ i # Len(queued) + 1
        <5>1. i \in DOMAIN queued /\ i - 1 \in DOMAIN queued /\ i - 1 # Len(queued)
          BY <2>2, <4>6
        <5>2. Len(queued) \in DOMAIN queued
          BY <2>2, <4>1
        <5>3. queued[i - 1] # pool_queue /\ queued[i - 1] # mjob /\ queued[i - 1] \in Jobs
          BY <2>1, <4>1, <5>1, <5>2 DEF QueueOK, TypeOK
        <5>4. queued[i] = next[queued[i - 1]]
          BY <4>6, <5>1 DEF LinkedOK
        <5>5. queued'[i] = queued[i] /\ queued'[i - 1] = queued[i - 1]
          BY <2>2, <5>1
        <5> QED
          BY <4>3, <4>6, <5>3, <5>4, <5>5
      <4> QED
        BY <4>4, <4>5, <4>6
    <3> QED
      BY <3>1, <3>2
  <2> QED
    BY <2>1, <2>2, <2>3, <2>4 DEF LinkedOK
<1> QED
  BY <1>1, <1>2

LEMMA WorkerLoopKeepsLinks ==
    ASSUME JobsInv, LinkedOK, NEW w \in Workers, worker_loop(w)
    PROVE  LinkedOK'
<1> USE DEF JobsInv
<1>1. CASE pool_queue = NoJob
  BY <1>1 DEF worker_loop, LinkedOK
<1>2. CASE pool_queue # NoJob
  <2> DEFINE j == queued[1]
  <2>0. /\ queued # <<>> /\ pool_queue \in Jobs /\ next[pool_queue] = j /\ j \in Jobs
        /\ Tail(queued) \in Seq(Jobs) /\ Len(Tail(queued)) = Len(queued) - 1
        /\ \A i \in DOMAIN Tail(queued) :
               i + 1 \in DOMAIN queued /\ i + 1 # 1 /\ Tail(queued)[i] = queued[i + 1]
    BY <1>2, FirstOfQueue
  <2>1. /\ queued' = Tail(queued)
        /\ IF next[j] = j THEN pool_queue' = NoJob /\ UNCHANGED next
           ELSE next' = [next EXCEPT ![pool_queue] = next[j]] /\ UNCHANGED pool_queue
    BY <1>2, <2>0 DEF worker_loop
  <2>2. /\ Len(queued) \in Nat /\ Len(queued) >= 1 /\ DOMAIN queued = 1..Len(queued)
        /\ DOMAIN Tail(queued) = 1..(Len(queued) - 1)
        /\ pool_queue = queued[Len(queued)]
    BY <2>0 DEF TypeOK, LinkedOK
  <2>3. CASE Len(queued) = 1
    <3>1. next[j] = j
      BY <2>0, <2>2, <2>3
    <3>2. queued' = <<>>
      BY <2>0, <2>1, <2>2, <2>3
    <3> QED
      BY <2>1, <3>1, <3>2 DEF LinkedOK
  <2>4. CASE Len(queued) # 1
    <3>0. 1 \in DOMAIN queued /\ 2 \in DOMAIN queued /\ 2 - 1 = 1
      BY <2>2, <2>4
    <3>1. next[j] = queued[2]
      BY <3>0 DEF LinkedOK
    <3>2. next[j] # j
      BY <3>0, <3>1 DEF QueueOK
    <3>3. next' = [next EXCEPT ![pool_queue] = queued[2]] /\ UNCHANGED pool_queue
      BY <2>1, <3>1, <3>2
    <3>4. /\ queued' # <<>> /\ Len(queued') = Len(queued) - 1 /\ Len(queued') \in DOMAIN queued'
          /\ queued'[Len(queued')] = pool_queue
      <4>1. Len(Tail(queued)) \in DOMAIN Tail(queued)
        BY <2>0, <2>2, <2>4
      <4>2. Tail(queued) # <<>>
        <5>1. Len(queued) - 1 # 0
          BY <2>2, <2>4
        <5>2. Len(<<>>) = 0
          OBVIOUS
        <5> HIDE DEF j
        <5> QED
          BY <2>0, <5>1, <5>2, Zenon
      <4>3. Len(Tail(queued)) + 1 = Len(queued)
        BY <2>0, <2>2
      <4>4. Tail(queued)[Len(Tail(queued))] = queued[Len(queued)]
        BY <2>0, <4>1, <4>3
      <4> QED
        BY <2>0, <2>1, <2>2, <4>1, <4>2, <4>4
    <3>5. ASSUME NEW i \in DOMAIN queued'
          PROVE  queued'[i] = next'[IF i = 1 THEN pool_queue' ELSE queued'[i - 1]]
      <4>1. CASE i = 1
        BY <2>0, <2>1, <3>3, <4>1 DEF TypeOK
      <4>2. CASE i # 1
        <5>1. /\ i - 1 \in DOMAIN queued' /\ i \in DOMAIN queued /\ i + 1 \in DOMAIN queued
              /\ i # Len(queued) /\ Len(queued) \in DOMAIN queued /\ (i + 1) - 1 = i
              /\ (i - 1) + 1 = i /\ i + 1 # 1
          BY <2>1, <2>2, <4>2
        <5>2. queued'[i - 1] = queued[i] /\ queued'[i] = queued[i + 1]
          BY <2>0, <2>1, <5>1
        <5>3. queued[i + 1] = next[queued[i]]
          BY <5>1 DEF LinkedOK
        <5>4. queued[i] # pool_queue /\ queued[i] \in Jobs
          <6>1. queued[i] \in Jobs
            BY <5>1 DEF TypeOK
          <6>2. queued[i] # queued[Len(queued)]
            BY <5>1 DEF QueueOK
          <6> QED
            BY <2>2, <6>1, <6>2
        <5> QED
          BY <3>3, <4>2, <5>2, <5>3, <5>4 DEF TypeOK
      <4> QED
        BY <4>1, <4>2
    <3> HIDE DEF j
    <3> QED
      BY <1>2, <3>3, <3>4, <3>5 DEF LinkedOK
  <2> QED
    BY <2>3, <2>4
<1> QED
  BY <1>1, <1>2
-----------------------------------------------------------------------------
WorkerGoes(w, to) == to # wpc[w] /\ wpc' = [wpc EXCEPT ![w] = to]

(* How the threads of a kind are counted when one of them moves.           *)
LEMMA WorkerMoves ==
    ASSUME TypeOK, NEW w \in Workers, NEW to, WorkerGoes(w, to)
    PROVE  /\ Cardinality(At(wpc', to)) = Cardinality(At(wpc, to)) + 1
           /\ Cardinality(At(wpc', wpc[w])) = Cardinality(At(wpc, wpc[w])) - 1
           /\ \A x : x # to /\ x # wpc[w] => At(wpc', x) = At(wpc, x)
           /\ wpc[w] = "none" => Cardinality(Started(wpc')) = Cardinality(Started(wpc)) + 1
           /\ wpc[w] # "none" /\ to # "none" => Started(wpc') = Started(wpc)
<1>0. /\ to # wpc[w] /\ wpc'[w] = to
      /\ \A v \in Workers : v # w => wpc'[v] = wpc[v]
  BY DEF WorkerGoes, TypeOK
<1>1. /\ At(wpc', to) = At(wpc, to) \cup {w} /\ w \notin At(wpc, to)
      /\ At(wpc', wpc[w]) = At(wpc, wpc[w]) \ {w} /\ w \in At(wpc, wpc[w])
  BY <1>0 DEF At
<1>2. \A x : x # to /\ x # wpc[w] => At(wpc', x) = At(wpc, x)
  BY <1>0 DEF At
<1>3. /\ wpc[w] = "none" => Started(wpc') = Started(wpc) \cup {w} /\ w \notin Started(wpc)
      /\ wpc[w] # "none" /\ to # "none" => Started(wpc') = Started(wpc)
  BY <1>0 DEF Started
<1>4. \A x : IsFiniteSet(At(wpc, x)) /\ IsFiniteSet(Started(wpc))
  BY JobsAssumption, FS_Subset DEF At, Started
<1>5. Cardinality(At(wpc', to)) = Cardinality(At(wpc, to)) + 1
  BY <1>1, <1>4, FS_AddElement
<1>6. Cardinality(At(wpc', wpc[w])) = Cardinality(At(wpc, wpc[w])) - 1
  BY <1>1, <1>4, FS_RemoveElement
<1>7. wpc[w] = "none" => Cardinality(Started(wpc')) = Cardinality(Started(wpc)) + 1
  BY <1>3, <1>4, FS_AddElement
<1> QED
  BY <1>2, <1>3, <1>5, <1>6, <1>7

LEMMA CountsAreNat ==
    /\ Cardinality(Started(wpc)) \in Nat
    /\ \A x : Cardinality(At(wpc, x)) \in Nat /\ (Cardinality(At(wpc, x)) = 0 <=> At(wpc, x) = {})
<1>1. \A x : IsFiniteSet(At(wpc, x)) /\ IsFiniteSet(Started(wpc))
  BY JobsAssumption, FS_Subset DEF At, Started
<1> QED
  BY <1>1, FS_CardinalityType, FS_EmptySet

LEMMA InitCounts == Init => LinkedOK /\ CountsOK
<1> SUFFICES ASSUME Init PROVE LinkedOK /\ CountsOK
  OBVIOUS
<1>1. LinkedOK
  BY DEF Init, LinkedOK
<1>2. program.idle \subseteq Workers
  BY JobsAssumption DEF Init
<1>3. Started(wpc) = program.idle /\ At(wpc, "wait") = program.idle
  BY <1>2 DEF Init, Started, At
<1>4. Len(queued) = 0
  BY DEF Init
<1>5. thread_count <= pool_size
  BY JobsAssumption DEF Init
<1>6. Len(queued) <= Cardinality(At(wpc, "signaled"))
  BY <1>4, CountsAreNat
<1> QED
  BY <1>1, <1>3, <1>5, <1>6 DEF Init, CountsOK

(* What leaves the queue and the threads alone leaves the counts alone.    *)
LEMMA SameCounts ==
    ASSUME CountsOK, LinkedOK, UNCHANGED <<poolVars, wpc, program>>,
           mpc' = "enqueue" => mpc = "enqueue"
    PROVE  CountsOK' /\ LinkedOK'
  BY DEF CountsOK, LinkedOK, poolVars, At, Started

(* A worker that works on its job.                                         *)
LEMMA WorkKeepsCounts ==
    ASSUME TypeOK, LinkedOK, CountsOK, NEW w \in Workers, execute_job(w) \/ notify(w),
           UNCHANGED program
    PROVE  LinkedOK' /\ CountsOK'
<1>0. UNCHANGED <<poolVars, mpc>>
  BY DEF execute_job, notify, mainVars
<1>1. PICK to \in {"worker", "finish", "done", "loop", "notify"} :
           WorkerGoes(w, to)
  BY DEF execute_job, notify, WorkerGoes
<1>2. wpc[w] \notin {"none", "wait", "signaled"}
  BY DEF execute_job, notify
<1>3. /\ Started(wpc') = Started(wpc)
      /\ At(wpc', "wait") = At(wpc, "wait") /\ At(wpc', "signaled") = At(wpc, "signaled")
  BY <1>1, <1>2, WorkerMoves
<1> QED
  BY <1>0, <1>3 DEF LinkedOK, CountsOK, poolVars

LEMMA WaitKeepsCounts ==
    ASSUME TypeOK, LinkedOK, CountsOK, NEW w \in Workers,
           worker_loop(w) \/ spurious_wakeup(w), UNCHANGED program
    PROVE  CountsOK'
<1>0. UNCHANGED <<thread_count, mpc>> /\ wpc[w] \in {"loop", "signaled", "wait"}
  BY DEF worker_loop, spurious_wakeup, poolVars, mainVars
<1>n. /\ thread_waiting_count \in Nat /\ Len(queued) \in Nat
      /\ Cardinality(At(wpc, "wait")) \in Nat /\ Cardinality(At(wpc, "signaled")) \in Nat
  BY CountsAreNat DEF TypeOK
<1>1. CASE worker_loop(w) /\ pool_queue = NoJob
  <2>1. /\ thread_waiting_count' = thread_waiting_count + 1
        /\ WorkerGoes(w, "wait") /\ queued' = queued
        /\ wpc[w] \in {"loop", "signaled"}
    BY <1>1 DEF worker_loop, WorkerGoes
  <2>2. /\ Cardinality(At(wpc', "wait")) = Cardinality(At(wpc, "wait")) + 1
        /\ Started(wpc') = Started(wpc)
    BY <2>1, WorkerMoves
  <2>3. Len(queued) = 0
    BY <1>1 DEF LinkedOK
  <2>4. Cardinality(At(wpc', "signaled")) \in Nat
    <3>1. IsFiniteSet(At(wpc', "signaled"))
      BY JobsAssumption, FS_Subset DEF At
    <3> QED
      BY <3>1, FS_CardinalityType
  <2> QED
    BY <1>0, <1>n, <2>1, <2>2, <2>3, <2>4 DEF CountsOK
<1>2. CASE worker_loop(w) /\ pool_queue # NoJob
  <2>1. /\ WorkerGoes(w, "execute") /\ wpc[w] \in {"loop", "signaled"}
        /\ queued' = Tail(queued) /\ UNCHANGED thread_waiting_count
    BY <1>2 DEF worker_loop, WorkerGoes
  <2>2. Len(queued') = Len(queued) - 1
    BY <1>2, <2>1, FirstOfQueue
  <2>3. Started(wpc') = Started(wpc) /\ At(wpc', "wait") = At(wpc, "wait")
    BY <2>1, WorkerMoves
  <2>4. \/ Cardinality(At(wpc', "signaled")) = Cardinality(At(wpc, "signaled")) - 1
        \/ At(wpc', "signaled") = At(wpc, "signaled")
    BY <2>1, WorkerMoves
  <2>5. "spurious" \notin program.events => Len(queued') <= Cardinality(At(wpc', "signaled"))
    BY <1>n, <2>2, <2>4 DEF CountsOK
  <2> QED
    BY <1>0, <2>1, <2>3, <2>5 DEF CountsOK
<1>3. CASE spurious_wakeup(w)
  <2>1. /\ WorkerGoes(w, "signaled") /\ wpc[w] = "wait" /\ "spurious" \in program.events
        /\ UNCHANGED thread_waiting_count
    BY <1>3 DEF spurious_wakeup, poolVars, WorkerGoes
  <2>2. Started(wpc') = Started(wpc)
    BY <2>1, WorkerMoves
  <2> QED
    BY <1>0, <2>1, <2>2 DEF CountsOK
<1> QED
  BY <1>1, <1>2, <1>3

LEMMA EnqueueKeepsCounts ==
    ASSUME TypeOK, CountsOK, enqueue, UNCHANGED program
    PROVE  CountsOK'
<1>n. /\ thread_waiting_count \in Nat /\ thread_count \in Nat /\ pool_size \in Nat
      /\ Len(queued) \in Nat
      /\ Cardinality(At(wpc, "wait")) \in Nat /\ Cardinality(At(wpc, "signaled")) \in Nat
  BY CountsAreNat, JobsAssumption DEF TypeOK
<1>0. mpc = "enqueue" /\ mpc' = "read"
  BY DEF enqueue
<1>1. CASE thread_waiting_count = 0
  <2>1. PICK w \in Workers : wpc[w] = "none" /\ WorkerGoes(w, "execute")
    BY <1>1 DEF enqueue, WorkerGoes
  <2>2. thread_count' = thread_count + 1 /\ UNCHANGED <<thread_waiting_count, queued>>
    BY <1>1 DEF enqueue
  <2>3. /\ Cardinality(Started(wpc')) = Cardinality(Started(wpc)) + 1
        /\ At(wpc', "wait") = At(wpc, "wait") /\ At(wpc', "signaled") = At(wpc, "signaled")
    BY <2>1, WorkerMoves
  <2>4. thread_count < pool_size
    BY <1>0, <1>1 DEF CountsOK
  <2> QED
    BY <1>n, <1>0, <2>2, <2>3, <2>4 DEF CountsOK
<1>2. CASE thread_waiting_count # 0
  <2>1. /\ thread_waiting_count' = thread_waiting_count - 1 /\ condition_signal
        /\ queued' = Append(queued, mjob) /\ UNCHANGED thread_count
    BY <1>2 DEF enqueue
  <2>2. Len(queued') = Len(queued) + 1
    BY <2>1 DEF TypeOK
  <2>3. CASE \E w \in Workers : wpc[w] = "wait"
    <3>1. PICK w \in Workers : wpc[w] = "wait" /\ WorkerGoes(w, "signaled")
      BY <2>1, <2>3 DEF condition_signal, WorkerGoes
    <3>2. /\ Cardinality(At(wpc', "signaled")) = Cardinality(At(wpc, "signaled")) + 1
          /\ Cardinality(At(wpc', "wait")) = Cardinality(At(wpc, "wait")) - 1
          /\ Started(wpc') = Started(wpc)
      BY <3>1, WorkerMoves
    <3> QED
      BY <1>n, <1>0, <2>1, <2>2, <3>2 DEF CountsOK
  <2>4. CASE ~\E w \in Workers : wpc[w] = "wait"
    <3>1. At(wpc, "wait") = {}
      BY <2>4 DEF At
    <3>2. "spurious" \in program.events
      BY <1>2, <3>1, FS_EmptySet DEF CountsOK
    <3>3. UNCHANGED wpc
      BY <2>1, <2>4 DEF condition_signal
    <3> QED
      BY <1>0, <2>1, <3>2, <3>3 DEF CountsOK
  <2> QED
    BY <2>3, <2>4
<1> QED
  BY <1>1, <1>2

(* In the child there are no threads and no queue.                         *)
LEMMA ForkResets ==
    ASSUME fork, UNCHANGED program
    PROVE  LinkedOK' /\ CountsOK'
<1>1. LinkedOK'
  BY DEF fork, reset_after_fork, LinkedOK
<1>2. Started(wpc') = {} /\ At(wpc', "wait") = {} /\ At(wpc', "signaled") = {}
  BY DEF fork, Started, At
<1>3. Len(queued') = 0
  BY DEF fork
<1>4. mpc' = "idle" /\ thread_count' = 0 /\ thread_waiting_count' = 0
  BY DEF fork, reset_after_fork
<1>5. Cardinality({}) = 0 /\ 0 <= pool_size /\ 0 <= 0
  BY FS_EmptySet, JobsAssumption
<1> QED
  BY <1>1, <1>2, <1>3, <1>4, <1>5 DEF CountsOK
-----------------------------------------------------------------------------
LEMMA NextIInv == IInv /\ [Next]_vars => IInv'
<1> SUFFICES ASSUME IInv, [Next]_vars PROVE IInv'
  OBVIOUS
<1>t. TypeOK /\ JobsInv /\ LinkedOK /\ CountsOK /\ program \in Programs
  BY DEF IInv, JobsInv
<1>1. CASE UNCHANGED vars
  <2>1. UNCHANGED jobVars /\ UNCHANGED program
    BY <1>1 DEF vars
  <2> QED
    BY <1>t, <2>1, StutterStep, SameCounts DEF IInv, jobVars, mainVars
<1>2. CASE Next
  <2>0. UNCHANGED program
    BY <1>2 DEF Next
  <2>1. ASSUME NEW j \in program.jobs, start_job(j) PROVE IInv'
    <3>1. mpc = "idle" /\ state[j] = "none" /\ UNCHANGED <<poolVars, wpc>>
      BY <2>1 DEF start_job
    <3>2. j \in Jobs
      BY <1>t, JobsAssumption
    <3>3. JobsInv'
      BY <1>t, <2>1, <3>2, StartJobStep
    <3>4. mpc' = "enqueue" => thread_waiting_count > 0 \/ thread_count < pool_size
      BY <2>1, <3>1 DEF start_job
    <3> QED
      BY <1>t, <2>0, <3>1, <3>3, <3>4 DEF IInv, CountsOK, LinkedOK, poolVars, At, Started
  <2>2. ASSUME enqueue PROVE IInv'
    <3>1. CASE thread_waiting_count = 0
      BY <1>t, <2>0, <2>2, <3>1, LaunchStep, EnqueueKeepsLinks, EnqueueKeepsCounts DEF IInv
    <3>2. CASE thread_waiting_count # 0
      BY <1>t, <2>0, <2>2, <3>2, EnqueueStep, EnqueueKeepsLinks, EnqueueKeepsCounts DEF IInv
    <3> QED
      BY <3>1, <3>2
  <2>3. ASSUME launch_fails PROVE IInv'
    BY <1>t, <2>0, <2>3, LaunchFailsStep, SameCounts DEF IInv, launch_fails
  <2>4. ASSUME read_state PROVE IInv'
    BY <1>t, <2>0, <2>4, ReadStateStep, SameCounts DEF IInv, read_state
  <2>5. ASSUME join PROVE IInv'
    BY <1>t, <2>0, <2>5, JoinStep, SameCounts DEF IInv, join
  <2>6. ASSUME check_job \/ check_job_locked PROVE IInv'
    BY <1>t, <2>0, <2>6, CheckJobStep, CheckJobLockedStep, SameCounts
       DEF IInv, check_job, check_job_locked
  <2>7. ASSUME handle_notification PROVE IInv'
    BY <1>t, <2>0, <2>7, HandleNotificationStep, SameCounts DEF IInv, handle_notification
  <2>8. ASSUME abort_collected PROVE IInv'
    BY <1>t, <2>0, <2>8, AbortCollectedStep, SameCounts DEF IInv, abort_collected
  <2>9. ASSUME abort_jobs PROVE IInv'
    BY <1>t, <2>0, <2>9, AbortJobsStep, SameCounts DEF IInv, abort_jobs
  <2>10. ASSUME NEW w \in Workers, execute_job(w) PROVE IInv'
    BY <1>t, <2>0, <2>10, ExecuteJobStep, WorkKeepsCounts DEF IInv
  <2>11. ASSUME NEW w \in Workers, notify(w) PROVE IInv'
    BY <1>t, <2>0, <2>11, NotifyStep, WorkKeepsCounts DEF IInv
  <2>12. ASSUME NEW w \in Workers, worker_loop(w) PROVE IInv'
    BY <1>t, <2>0, <2>12, WorkerLoopStep, WorkerLoopKeepsLinks, WaitKeepsCounts DEF IInv
  <2>13. ASSUME NEW w \in Workers, spurious_wakeup(w) PROVE IInv'
    <3>1. LinkedOK'
      BY <1>t, <2>13 DEF spurious_wakeup, poolVars, LinkedOK
    <3> QED
      BY <1>t, <2>0, <2>13, <3>1, SpuriousWakeupStep, WaitKeepsCounts DEF IInv
  <2>14. ASSUME fork PROVE IInv'
    BY <1>t, <2>0, <2>14, ForkStep, ForkResets DEF IInv
  <2> QED
    BY <1>2, <2>1, <2>2, <2>3, <2>4, <2>5, <2>6, <2>7, <2>8, <2>9, <2>10, <2>11, <2>12,
       <2>13, <2>14 DEF Next, MainStep, WorkerStep
<1> QED
  BY <1>1, <1>2

LEMMA InvariantHolds == Spec => []IInv
<1>1. Init => IInv
  BY InitJobsInv, InitCounts DEF IInv, Init
<1>2. IInv /\ [Next]_vars => IInv'
  BY NextIInv
<1> QED
  BY <1>1, <1>2, PTL DEF Spec

(* A job is freed at most once, and never while a thread still has it to   *)
(* run, mark, unlock or notify, or while it is queued: for any number of   *)
(* jobs and threads, whatever is aborted, fails to start or forks, and     *)
(* though start_job reads the state of the job without its mutex.          *)
THEOREM JobsAreNotUsedAfterFree == Spec => []NoUseAfterFree
<1>1. IInv => NoUseAfterFree
  <2> SUFFICES ASSUME IInv PROVE NoUseAfterFree
    OBVIOUS
  <2>1. \A j \in Jobs : results[j] <= 1
    BY DEF IInv, JobsInv, FreedOK
  <2>2. \A w \in Workers : wpc[w] \in {"execute", "worker", "finish", "done", "notify"}
                               => results[wjob[w]] = 0
    BY DEF IInv, JobsInv, WorkersOK, Has
  <2>3. \A i \in DOMAIN queued : results[queued[i]] = 0
    BY DEF IInv, JobsInv, TypeOK, QueueOK, FreedOK
  <2> QED
    BY <2>1, <2>2, <2>3 DEF NoUseAfterFree
<1> QED
  BY <1>1, InvariantHolds, PTL

(* The circular list is the queue of the jobs enqueued and not yet taken,  *)
(* the oldest one first; at most pool_size threads are started; and each   *)
(* queued job has a signaled thread, if none wakes up without a signal.    *)
THEOREM PoolServesItsQueue == Spec => []QueueServed
<1>1. IInv => QueueServed
  BY DEF IInv, LinkedOK, CountsOK, QueueServed, At, Started
<1> QED
  BY <1>1, InvariantHolds, PTL
-----------------------------------------------------------------------------
(* The condition variables of Windows.                                     *)

(* The mutexes are held where the functions hold them.                     *)
HoldersOK ==
    \A t \in Threads :
        /\ mutex = t <=> pc[t] \in {"locked", "created", "added", "broadcast", "next"}
        /\ condition_mutex = t <=> pc[t] \in {"broadcast", "next"}

(* A node is in the list once, its thread waits, and outside a broadcast   *)
(* its event is not set.                                                   *)
NodesOK ==
    /\ \A i, j \in DOMAIN waiters : waiters[i] = waiters[j] => i = j
    /\ Members(waiters) \subseteq InWait
    /\ condition_mutex = Nobody =>
           \A t \in Members(waiters) : pc[t] # "awake" /\ t \notin event
    /\ \A t \in Threads : pc[t] = "created" => t \notin event

(* The nodes that a broadcast has still to see are in the list.            *)
BroadcastOK ==
    /\ condition_mutex = Nobody => node = <<>>
    /\ \A t \in Threads : pc[t] = "next" => node # <<>>
    /\ Members(node) \subseteq Members(waiters)

(* A thread whose node was taken from the list, or that a broadcast has    *)
(* seen, finds its event set.                                              *)
WokenOK ==
    \A t \in InWait : pc[t] # "awake" /\ t \notin event =>
        /\ t \in Members(waiters)
        /\ condition_mutex # Nobody => t \in Members(node)
        /\ (\E b \in Threads : pc[b] = "next") => t # Head(node)

(* The inductive invariant.                                                *)
CondInv == ConditionTypeOK /\ NodesOK /\ HoldersOK /\ BroadcastOK /\ WokenOK

LEMMA MembersEmpty == Members(<<>>) = {}
  BY DEF Members

LEMMA MembersNil ==
    ASSUME NEW s \in Seq(Threads), Members(s) = {}
    PROVE  s = <<>>
<1>1. SUFFICES ASSUME s # <<>> PROVE FALSE
  OBVIOUS
<1>2. 1 \in DOMAIN s
  BY <1>1
<1> QED
  BY <1>2 DEF Members

LEMMA MembersTail ==
    ASSUME NEW s \in Seq(Threads), s # <<>>
    PROVE  /\ Tail(s) \in Seq(Threads) /\ Head(s) \in Threads
           /\ Members(s) = {Head(s)} \cup Members(Tail(s))
           /\ (\A i, j \in DOMAIN s : s[i] = s[j] => i = j) =>
                  /\ Head(s) \notin Members(Tail(s))
                  /\ \A i, j \in DOMAIN Tail(s) : Tail(s)[i] = Tail(s)[j] => i = j
<1>1. Tail(s) \in Seq(Threads) /\ Head(s) \in Threads
  OBVIOUS
<1>2. 1 \in DOMAIN s /\ Head(s) = s[1]
  OBVIOUS
<1>3. \A i \in DOMAIN Tail(s) : i + 1 \in DOMAIN s /\ Tail(s)[i] = s[i + 1] /\ i + 1 # 1
  OBVIOUS
<1>4. \A i \in DOMAIN s : i # 1 => i - 1 \in DOMAIN Tail(s) /\ Tail(s)[i - 1] = s[i]
  OBVIOUS
<1>5. \A i, j \in DOMAIN Tail(s) : i + 1 = j + 1 => i = j
  OBVIOUS
<1>6. ASSUME NEW x PROVE x \in Members(s) <=> x \in {Head(s)} \cup Members(Tail(s))
  <2>1. ASSUME NEW i \in DOMAIN s, x = s[i] PROVE x \in {Head(s)} \cup Members(Tail(s))
    BY <2>1, <1>2, <1>4 DEF Members
  <2>2. ASSUME x \in {Head(s)} \cup Members(Tail(s)) PROVE x \in Members(s)
    BY <2>2, <1>2, <1>3 DEF Members
  <2> QED
    BY <2>1, <2>2 DEF Members
<1>7. ASSUME \A i, j \in DOMAIN s : s[i] = s[j] => i = j
      PROVE  /\ Head(s) \notin Members(Tail(s))
             /\ \A i, j \in DOMAIN Tail(s) : Tail(s)[i] = Tail(s)[j] => i = j
  <2>1. ASSUME NEW i \in DOMAIN Tail(s) PROVE Tail(s)[i] # Head(s)
    BY <1>2, <1>3, <1>7
  <2>2. ASSUME NEW i \in DOMAIN Tail(s), NEW j \in DOMAIN Tail(s), Tail(s)[i] = Tail(s)[j] PROVE i = j
    BY <2>2, <1>3, <1>5, <1>7
  <2> QED
    BY <2>1, <2>2 DEF Members
<1> QED
  BY <1>1, <1>6, <1>7

LEMMA MembersCons ==
    ASSUME NEW s \in Seq(Threads), NEW t \in Threads, t \notin Members(s)
    PROVE  /\ <<t>> \o s \in Seq(Threads)
           /\ Members(<<t>> \o s) = {t} \cup Members(s)
           /\ (\A i, j \in DOMAIN s : s[i] = s[j] => i = j) =>
                  \A i, j \in DOMAIN (<<t>> \o s) : (<<t>> \o s)[i] = (<<t>> \o s)[j] => i = j
<1> DEFINE u == <<t>> \o s
<1>1. u \in Seq(Threads) /\ Len(u) = 1 + Len(s)
  OBVIOUS
<1>2. 1 \in DOMAIN u /\ u[1] = t
  OBVIOUS
<1>3. \A i \in DOMAIN u : i # 1 => i - 1 \in DOMAIN s /\ u[i] = s[i - 1]
  OBVIOUS
<1>4. \A i \in DOMAIN s : i + 1 \in DOMAIN u /\ u[i + 1] = s[i]
  OBVIOUS
<1>5. \A i, j \in DOMAIN u : i - 1 = j - 1 => i = j
  OBVIOUS
<1> HIDE DEF u
<1>6. ASSUME NEW x PROVE x \in Members(u) <=> x \in {t} \cup Members(s)
  <2>1. ASSUME NEW i \in DOMAIN u, x = u[i] PROVE x \in {t} \cup Members(s)
    BY <2>1, <1>2, <1>3 DEF Members
  <2>2. ASSUME x \in {t} \cup Members(s) PROVE x \in Members(u)
    BY <2>2, <1>2, <1>4 DEF Members
  <2> QED
    BY <2>1, <2>2 DEF Members
<1>7. ASSUME \A i, j \in DOMAIN s : s[i] = s[j] => i = j,
             NEW i \in DOMAIN u, NEW j \in DOMAIN u, u[i] = u[j]
      PROVE  i = j
  <2>1. CASE i = 1
    BY <2>1, <1>2, <1>3, <1>7 DEF Members
  <2>2. CASE i # 1 /\ j # 1
    BY <2>2, <1>3, <1>5, <1>7
  <2>3. CASE i # 1 /\ j = 1
    BY <2>3, <1>2, <1>3, <1>7 DEF Members
  <2> QED
    BY <2>1, <2>2, <2>3
<1> QED
  BY <1>1, <1>6, <1>7 DEF u

LEMMA MembersThreads ==
    ASSUME NEW s \in Seq(Threads)
    PROVE  Members(s) \subseteq Threads
  BY DEF Members

LEMMA CondInvInit == ConditionInit => CondInv
<1> SUFFICES ASSUME ConditionInit PROVE CondInv
  OBVIOUS
<1> USE WinConditionAssumption, MembersEmpty DEF ConditionInit
<1>1. ConditionTypeOK
  BY DEF ConditionTypeOK
<1>2. InWait = {}
  BY DEF InWait
<1>3. NodesOK /\ HoldersOK /\ BroadcastOK /\ WokenOK
  BY <1>2 DEF NodesOK, HoldersOK, BroadcastOK, WokenOK
<1> QED
  BY <1>1, <1>3 DEF CondInv

LEMMA CondInvNext == CondInv /\ [ConditionNext]_conditionVars => CondInv'
<1> SUFFICES ASSUME CondInv, [ConditionNext]_conditionVars PROVE CondInv'
  OBVIOUS
<1> USE WinConditionAssumption DEF CondInv
<1>0. CASE UNCHANGED conditionVars
  <2> USE <1>0 DEF conditionVars
  <2>1. Members(waiters)' = Members(waiters) /\ Members(node)' = Members(node) /\ InWait' = InWait
    BY DEF Members, InWait
  <2>2. ConditionTypeOK' /\ HoldersOK'
    BY DEF ConditionTypeOK, HoldersOK
  <2>3. NodesOK' /\ BroadcastOK'
    BY <2>1 DEF NodesOK, BroadcastOK
  <2>4. WokenOK'
    BY <2>1 DEF WokenOK
  <2> QED
    BY <2>2, <2>3, <2>4
<1>1. ASSUME NEW t \in Threads, mutex_lock(t) \/ mutex_unlock(t) \/ wait_create(t) PROVE CondInv'
  <2> USE <1>1 DEF mutex_lock, mutex_unlock, wait_create, Moves
  <2>1. ConditionTypeOK'
    BY DEF ConditionTypeOK
  <2>2. Members(waiters)' = Members(waiters) /\ Members(node)' = Members(node)
    BY DEF Members
  <2>3. InWait' = InWait /\ t \notin InWait
    BY DEF InWait, ConditionTypeOK
  <2>4. HoldersOK'
    BY DEF HoldersOK, ConditionTypeOK
  <2>5. NodesOK'
    BY <2>2, <2>3 DEF NodesOK, ConditionTypeOK, InWait
  <2>6. BroadcastOK'
    BY <2>2 DEF BroadcastOK, ConditionTypeOK
  <2>7. (\E b \in Threads : pc'[b] = "next") => \E b \in Threads : pc[b] = "next"
    BY DEF ConditionTypeOK
  <2>8. \A u \in InWait : u # t /\ pc'[u] = pc[u] /\ (u \notin event' => u \notin event)
    <3>1. \A u \in InWait : u # t /\ pc'[u] = pc[u]
      BY <2>3 DEF InWait, ConditionTypeOK
    <3> QED
      BY <3>1
  <2>9. WokenOK'
    BY <2>2, <2>3, <2>7, <2>8 DEF WokenOK
  <2> QED
    BY <2>1, <2>4, <2>5, <2>6, <2>9
<1>2. ASSUME NEW t \in Threads, wait_add(t) PROVE CondInv'
  <2> USE <1>2 DEF wait_add, Moves
  <2>1. t \notin InWait /\ t \notin Members(waiters)
    BY DEF InWait, NodesOK
  <2>2. /\ waiters' \in Seq(Threads) /\ Members(waiters)' = {t} \cup Members(waiters)
        /\ \A i, j \in DOMAIN waiters' : waiters'[i] = waiters'[j] => i = j
    <3>1. waiters \in Seq(Threads)
      BY DEF ConditionTypeOK
    <3>2. Members(waiters)' = Members(waiters')
      BY DEF Members
    <3> QED
      BY <2>1, <3>1, <3>2, MembersCons DEF NodesOK
  <2>3. ConditionTypeOK'
    BY <2>2 DEF ConditionTypeOK
  <2>4. InWait' = InWait \cup {t} /\ node = <<>> /\ node' = <<>> /\ Members(node)' = {}
    BY MembersEmpty DEF InWait, ConditionTypeOK, BroadcastOK, Members
  <2>5. HoldersOK'
    BY DEF HoldersOK, ConditionTypeOK
  <2>6. NodesOK'
    BY <2>1, <2>2, <2>4 DEF NodesOK, ConditionTypeOK
  <2>7. BroadcastOK'
    BY <2>2, <2>4 DEF BroadcastOK, ConditionTypeOK
  <2>8. \A b \in Threads : pc[b] # "next"
    BY DEF HoldersOK
  <2>9. WokenOK'
    BY <2>1, <2>2, <2>4, <2>8 DEF WokenOK, ConditionTypeOK
  <2> QED
    BY <2>3, <2>5, <2>6, <2>7, <2>9
<1>3. ASSUME NEW t \in Threads, wait_release(t) \/ wait_event(t) PROVE CondInv'
  <2> USE <1>3 DEF wait_release, wait_event, Moves
  <2>1. ConditionTypeOK'
    BY DEF ConditionTypeOK
  <2>2. Members(waiters)' = Members(waiters) /\ Members(node)' = Members(node)
    BY DEF Members
  <2>3. InWait' = InWait /\ t \in InWait
    BY DEF InWait, ConditionTypeOK
  <2>4. HoldersOK'
    BY DEF HoldersOK, ConditionTypeOK
  <2>5. \A u \in Threads : pc'[u] = IF u # t THEN pc[u] ELSE IF wait_event(t) THEN "awake" ELSE "waiting"
    BY DEF ConditionTypeOK
  <2>10. event' = IF wait_event(t) THEN event \ {t} ELSE event
    OBVIOUS
  <2>11. condition_mutex = Nobody /\ t \in Members(waiters) => ~wait_event(t)
    BY DEF NodesOK
  <2>12. NodesOK'
    <3>1. condition_mutex' = Nobody =>
             \A u \in Members(waiters)' : pc'[u] # "awake" /\ u \notin event'
      BY <2>2, <2>3, <2>5, <2>10, <2>11 DEF NodesOK, InWait
    <3>2. \A u \in Threads : pc'[u] = "created" => u \notin event'
      BY <2>5, <2>10 DEF NodesOK
    <3> QED
      BY <2>2, <2>3, <3>1, <3>2 DEF NodesOK
  <2>6. BroadcastOK'
    BY <2>2 DEF BroadcastOK, ConditionTypeOK
  <2>13. (\E b \in Threads : pc'[b] = "next") => \E b \in Threads : pc[b] = "next"
    BY DEF ConditionTypeOK
  <2>14. \A u \in InWait : pc'[u] # "awake" /\ u \notin event' => pc[u] # "awake" /\ u \notin event
    BY <2>5, <2>10 DEF InWait
  <2>7. WokenOK'
    BY <2>2, <2>3, <2>13, <2>14 DEF WokenOK
  <2> QED
    BY <2>1, <2>4, <2>6, <2>7, <2>12
<1>4. ASSUME NEW t \in Threads, wait_return(t) PROVE CondInv'
  <2> USE <1>4 DEF wait_return, Moves
  <2>1. ConditionTypeOK'
    BY DEF ConditionTypeOK
  <2>2. Members(waiters)' = Members(waiters) /\ Members(node)' = Members(node)
    BY DEF Members
  <2>3. condition_mutex = Nobody
    BY DEF HoldersOK, ConditionTypeOK
  <2>4. t \notin Members(waiters)
    BY <2>3 DEF NodesOK
  <2>5. InWait' = InWait \ {t}
    BY DEF InWait, ConditionTypeOK
  <2>6. HoldersOK'
    BY DEF HoldersOK, ConditionTypeOK
  <2>7. NodesOK'
    BY <2>2, <2>4, <2>5 DEF NodesOK, ConditionTypeOK
  <2>8. BroadcastOK'
    BY <2>2 DEF BroadcastOK, ConditionTypeOK
  <2>9. WokenOK'
    BY <2>2, <2>5 DEF WokenOK, ConditionTypeOK
  <2> QED
    BY <2>1, <2>6, <2>7, <2>8, <2>9
<1>5. ASSUME NEW t \in Threads, signal(t) PROVE CondInv'
  <2> USE <1>5 DEF signal
  <2>0. waiters \in Seq(Threads) /\ waiters # <<>> /\ waiters' = Tail(waiters)
    BY DEF ConditionTypeOK
  <2>1. PICK h : h = Head(waiters)
    OBVIOUS
  <2>2. /\ waiters' \in Seq(Threads) /\ h \in Threads /\ Members(waiters) = {h} \cup Members(waiters)'
        /\ h \notin Members(waiters)'
        /\ \A i, j \in DOMAIN waiters' : waiters'[i] = waiters'[j] => i = j
    <3>1. Members(waiters)' = Members(Tail(waiters))
      BY <2>0 DEF Members
    <3> QED
      BY <2>0, <2>1, <3>1, MembersTail DEF NodesOK
  <2>3. ConditionTypeOK'
    BY <2>1, <2>2 DEF ConditionTypeOK
  <2>4. InWait' = InWait /\ node = <<>> /\ node' = <<>> /\ Members(node)' = {} /\ event' = event \cup {h}
    BY <2>1, MembersEmpty DEF InWait, BroadcastOK, Members
  <2>5. HoldersOK'
    BY DEF HoldersOK, ConditionTypeOK
  <2>6. h \in InWait /\ pc[h] # "created"
    BY <2>2 DEF NodesOK, InWait
  <2>7. NodesOK'
    BY <2>2, <2>4, <2>6 DEF NodesOK
  <2>8. BroadcastOK'
    BY <2>2, <2>4 DEF BroadcastOK
  <2>9. \A b \in Threads : pc[b] # "next"
    BY DEF HoldersOK
  <2>10. WokenOK'
    BY <2>2, <2>4, <2>9 DEF WokenOK
  <2> QED
    BY <2>3, <2>5, <2>7, <2>8, <2>10
<1>6. ASSUME NEW t \in Threads, broadcast_begin(t) PROVE CondInv'
  <2> USE <1>6 DEF broadcast_begin, Moves
  <2>1. ConditionTypeOK'
    BY DEF ConditionTypeOK
  <2>2. Members(waiters)' = Members(waiters) /\ Members(node)' = Members(waiters)
    BY DEF Members
  <2>3. InWait' = InWait
    BY DEF InWait, ConditionTypeOK
  <2>4. HoldersOK'
    BY DEF HoldersOK, ConditionTypeOK
  <2>5. NodesOK'
    BY <2>2, <2>3 DEF NodesOK, ConditionTypeOK
  <2>6. \A b \in Threads : pc'[b] # "next"
    BY DEF HoldersOK, ConditionTypeOK
  <2>7. BroadcastOK'
    BY <2>2, <2>6 DEF BroadcastOK, ConditionTypeOK
  <2>8. \A u \in InWait : u # t /\ pc'[u] = pc[u]
    BY DEF ConditionTypeOK, InWait
  <2>9. WokenOK'
    BY <2>2, <2>3, <2>6, <2>8 DEF WokenOK
  <2> QED
    BY <2>1, <2>4, <2>5, <2>7, <2>9
<1>7. ASSUME NEW t \in Threads, broadcast_set(t) PROVE CondInv'
  <2> USE <1>7 DEF broadcast_set, Moves
  <2>0. node \in Seq(Threads) /\ node # <<>> /\ node' = node
    BY DEF ConditionTypeOK
  <2>1. PICK h : h = Head(node)
    OBVIOUS
  <2>2. Members(waiters)' = Members(waiters) /\ Members(node)' = Members(node) /\ h \in Members(node)
        /\ h \in Threads
    BY <2>0, <2>1, MembersTail DEF Members
  <2>3. ConditionTypeOK'
    BY <2>1, <2>2 DEF ConditionTypeOK
  <2>4. InWait' = InWait /\ event' = event \cup {h} /\ h \in InWait
    BY <2>1, <2>2 DEF InWait, ConditionTypeOK, NodesOK, BroadcastOK
  <2>5. HoldersOK'
    BY DEF HoldersOK, ConditionTypeOK
  <2>6. condition_mutex = t
    BY DEF HoldersOK
  <2>7. NodesOK'
    BY <2>2, <2>4, <2>6 DEF NodesOK, ConditionTypeOK, InWait
  <2>8. BroadcastOK'
    BY <2>0, <2>2, <2>6 DEF BroadcastOK
  <2>9. \A u \in InWait : u # t /\ pc'[u] = pc[u]
    BY DEF ConditionTypeOK, InWait
  <2>10. WokenOK'
    BY <2>0, <2>1, <2>2, <2>4, <2>6, <2>9 DEF WokenOK
  <2> QED
    BY <2>3, <2>5, <2>7, <2>8, <2>10
<1>8. ASSUME NEW t \in Threads, broadcast_next(t) PROVE CondInv'
  <2> USE <1>8 DEF broadcast_next, Moves
  <2>0. node \in Seq(Threads) /\ node # <<>>
    BY DEF ConditionTypeOK, BroadcastOK
  <2>1. PICK h : h = Head(node)
    OBVIOUS
  <2>2. h \in Threads /\ Tail(node) \in Seq(Threads) /\ Members(node) = {h} \cup Members(Tail(node))
    BY <2>0, <2>1, MembersTail
  <2>3. h \in InWait
    BY <2>2 DEF NodesOK, BroadcastOK
  <2>4. node' = Tail(node)
    BY <2>1, <2>3 DEF OnStack, InWait
  <2>5. Members(waiters)' = Members(waiters) /\ Members(node) = {h} \cup Members(node)'
    BY <2>2, <2>4 DEF Members
  <2>6. ConditionTypeOK'
    BY <2>2, <2>4 DEF ConditionTypeOK
  <2>7. InWait' = InWait /\ \A u \in InWait : u # t /\ pc'[u] = pc[u]
    BY DEF InWait, ConditionTypeOK
  <2>8. HoldersOK' /\ condition_mutex = t
    BY DEF HoldersOK, ConditionTypeOK
  <2>9. NodesOK'
    BY <2>5, <2>7, <2>8 DEF NodesOK, ConditionTypeOK
  <2>10. \A b \in Threads : pc'[b] # "next"
    BY <2>8 DEF HoldersOK, ConditionTypeOK
  <2>11. BroadcastOK'
    BY <2>5, <2>8, <2>10 DEF BroadcastOK
  <2>12. WokenOK'
    BY <2>1, <2>5, <2>7, <2>8, <2>10 DEF WokenOK
  <2> QED
    BY <2>6, <2>8, <2>9, <2>11, <2>12
<1>9. ASSUME NEW t \in Threads, broadcast_end(t) PROVE CondInv'
  <2> USE <1>9 DEF broadcast_end, Moves
  <2>1. ConditionTypeOK'
    BY DEF ConditionTypeOK
  <2>2. Members(waiters)' = {} /\ Members(node)' = {} /\ Members(node) = {}
    BY MembersEmpty DEF Members
  <2>3. InWait' = InWait /\ \A u \in InWait : u # t /\ pc'[u] = pc[u]
    BY DEF InWait, ConditionTypeOK
  <2>4. HoldersOK' /\ condition_mutex = t
    BY DEF HoldersOK, ConditionTypeOK
  <2>5. NodesOK'
    BY <2>2, <2>3 DEF NodesOK, ConditionTypeOK
  <2>6. \A b \in Threads : pc'[b] # "next"
    BY <2>4 DEF HoldersOK, ConditionTypeOK
  <2>7. BroadcastOK'
    BY <2>2, <2>6 DEF BroadcastOK
  <2>8. WokenOK'
    BY <2>2, <2>3, <2>4, <2>6 DEF WokenOK
  <2> QED
    BY <2>1, <2>4, <2>5, <2>7, <2>8
<1> QED
  BY <1>0, <1>1, <1>2, <1>3, <1>4, <1>5, <1>6, <1>7, <1>8, <1>9 DEF ConditionNext, ConditionStep

LEMMA CondInvAlways == ConditionSpec => []CondInv
<1> QED
  BY CondInvInit, CondInvNext, PTL DEF ConditionSpec


(* The safety part of RefinesCondVariable.                                 *)
CondVariableSafety ==
    CondVariable!Init /\ [][CondVariable!Next]_(CondVariable!condVariableVars)

Holder == IF \E t \in Threads : mutex = t /\ pc[t] = "added" THEN Nobody ELSE mutex
Woken == InWait \ Members(waiters)

LEMMA HolderIs ==
    ASSUME CondInv
    PROVE  /\ mutex = Nobody => Holder = Nobody
           /\ \A t \in Threads : mutex = t => Holder = IF pc[t] = "added" THEN Nobody ELSE t
  BY WinConditionAssumption DEF Holder

LEMMA HolderPrimed ==
    ASSUME CondInv'
    PROVE  /\ mutex' = Nobody => Holder' = Nobody
           /\ \A t \in Threads : mutex' = t => Holder' = IF pc'[t] = "added" THEN Nobody ELSE t
  BY WinConditionAssumption DEF Holder

LEMMA CondVariableInit == ConditionInit => CondVariable!Init
<1> SUFFICES ASSUME ConditionInit PROVE CondVariable!Init
  OBVIOUS
<1>1. InWait = {} /\ Members(waiters) = {}
  BY MembersEmpty DEF ConditionInit, InWait
<1>2. mutex = Nobody /\ pc = [t \in Threads |-> "idle"]
  BY DEF ConditionInit
<1> QED
  BY <1>1, <1>2 DEF CondVariable!Init

LEMMA CondVariableStep ==
    CondInv /\ CondInv' /\ [ConditionNext]_conditionVars
        => [CondVariable!Next]_(CondVariable!condVariableVars)
<1> SUFFICES ASSUME CondInv, CondInv', [ConditionNext]_conditionVars
             PROVE  [CondVariable!Next]_(CondVariable!condVariableVars)
  OBVIOUS
<1> DEFINE Quiet == Holder' = Holder /\ Members(waiters)' = Members(waiters) /\ Woken' = Woken
<1>q. ASSUME Quiet PROVE [CondVariable!Next]_(CondVariable!condVariableVars)
  BY <1>q DEF Holder, Woken, CondVariable!condVariableVars
<1>0. CASE UNCHANGED conditionVars
  <2>1. Quiet
    BY <1>0 DEF conditionVars, Holder, Woken, Members, InWait
  <2> QED
    BY <2>1, <1>q
<1>1. ASSUME NEW t \in Threads, mutex_lock(t) PROVE CondVariable!Lock(t)
  <2> USE <1>1 DEF mutex_lock, Moves
  <2>1. Holder = Nobody /\ Holder' = t
    BY HolderIs, HolderPrimed DEF CondInv, ConditionTypeOK
  <2>2. Members(waiters)' = Members(waiters) /\ InWait' = InWait /\ t \notin InWait
    BY DEF Members, InWait, CondInv, ConditionTypeOK
  <2>3. Woken' = Woken /\ t \notin Members(waiters) \cup Woken
    BY <2>2 DEF Woken, CondInv, NodesOK
  <2> QED
    BY <2>1, <2>2, <2>3 DEF CondVariable!Lock, Holder, Woken
<1>2. ASSUME NEW t \in Threads, mutex_unlock(t) PROVE CondVariable!Unlock(t)
  <2> USE <1>2 DEF mutex_unlock, Moves
  <2>1. Holder = t /\ Holder' = Nobody
    BY HolderIs, HolderPrimed DEF CondInv, HoldersOK
  <2>2. Members(waiters)' = Members(waiters) /\ InWait' = InWait
    BY DEF Members, InWait, CondInv, ConditionTypeOK
  <2>3. Woken' = Woken
    BY <2>2 DEF Woken
  <2> QED
    BY <2>1, <2>2, <2>3 DEF CondVariable!Unlock, Holder, Woken
<1>3. ASSUME NEW t \in Threads, wait_add(t) PROVE CondVariable!Wait(t)
  <2> USE <1>3 DEF wait_add, Moves
  <2>1. Holder = t /\ Holder' = Nobody
    BY HolderIs, HolderPrimed DEF CondInv, HoldersOK, ConditionTypeOK
  <2>2. t \notin InWait /\ t \notin Members(waiters) /\ InWait' = InWait \cup {t}
    BY DEF InWait, CondInv, NodesOK, ConditionTypeOK
  <2>3. Members(waiters)' = Members(waiters) \cup {t}
    <3>1. waiters \in Seq(Threads) /\ Members(waiters)' = Members(<<t>> \o waiters)
      BY DEF CondInv, ConditionTypeOK, Members
    <3> QED
      BY <2>2, <3>1, MembersCons
  <2>4. Woken' = Woken
    BY <2>2, <2>3 DEF Woken
  <2> QED
    BY <2>1, <2>3, <2>4 DEF CondVariable!Wait, Holder, Woken
<1>4. ASSUME NEW t \in Threads, wait_return(t) PROVE CondVariable!Return(t)
  <2> USE <1>4 DEF wait_return, Moves
  <2>1. Holder = Nobody /\ Holder' = t
    BY HolderIs, HolderPrimed DEF CondInv, ConditionTypeOK
  <2>2. Members(waiters)' = Members(waiters) /\ InWait' = InWait \ {t} /\ t \in InWait
    BY DEF Members, InWait, CondInv, ConditionTypeOK
  <2>3. t \notin Members(waiters)
    BY DEF CondInv, HoldersOK, NodesOK, ConditionTypeOK
  <2>4. Woken' = Woken \ {t} /\ t \in Woken
    BY <2>2, <2>3 DEF Woken
  <2> QED
    BY <2>1, <2>2, <2>4 DEF CondVariable!Return, Holder, Woken
<1>5. ASSUME NEW t \in Threads, signal(t) PROVE CondVariable!Signal
  <2> USE <1>5 DEF signal
  <2>1. Holder' = Holder /\ InWait' = InWait
    BY DEF Holder, InWait
  <2>2. PICK h : h = Head(waiters)
    OBVIOUS
  <2>3. Members(waiters)' = Members(waiters) \ {h} /\ h \in Members(waiters)
    <3>1. waiters \in Seq(Threads) /\ Members(waiters)' = Members(Tail(waiters))
      BY DEF CondInv, ConditionTypeOK, Members
    <3> QED
      BY <2>2, <3>1, MembersTail DEF CondInv, NodesOK
  <2>4. Woken' = Woken \cup {h}
    BY <2>1, <2>3 DEF Woken, CondInv, NodesOK
  <2> QED
    BY <2>1, <2>3, <2>4 DEF CondVariable!Signal, Holder, Woken
<1>6. ASSUME NEW t \in Threads, broadcast_end(t) PROVE CondVariable!Broadcast
  <2> USE <1>6 DEF broadcast_end, Moves
  <2>1. Holder' = Holder
    BY HolderIs, HolderPrimed DEF CondInv, HoldersOK, ConditionTypeOK
  <2>2. Members(waiters)' = {} /\ InWait' = InWait
    BY MembersEmpty DEF Members, InWait, CondInv, ConditionTypeOK
  <2>3. Woken' = Woken \cup Members(waiters)
    BY <2>2 DEF Woken, CondInv, NodesOK
  <2> QED
    BY <2>1, <2>2, <2>3 DEF CondVariable!Broadcast, Holder, Woken
<1>7. ASSUME NEW t \in Threads,
             \/ wait_create(t) \/ wait_release(t) \/ wait_event(t) \/ broadcast_begin(t)
             \/ broadcast_set(t) \/ broadcast_next(t)
      PROVE  Quiet
  <2>1. \/ mutex = t /\ mutex' = t /\ pc[t] # "added" /\ pc'[t] # "added"
        \/ mutex = t /\ pc[t] = "added" /\ mutex' = Nobody
        \/ pc[t] = "waiting" /\ pc'[t] = "awake" /\ mutex' = mutex
    BY <1>7 DEF wait_create, wait_release, wait_event, broadcast_begin, broadcast_set,
                broadcast_next, Moves, CondInv, HoldersOK, ConditionTypeOK
  <2>2. \A u \in Threads : u # t => pc'[u] = pc[u]
    BY <1>7 DEF wait_create, wait_release, wait_event, broadcast_begin, broadcast_set,
                broadcast_next, Moves, CondInv, ConditionTypeOK
  <2>3. Holder' = Holder
    BY <2>1, <2>2, WinConditionAssumption DEF Holder
  <2>4. waiters' = waiters /\ Members(waiters)' = Members(waiters)
    BY <1>7 DEF wait_create, wait_release, wait_event, broadcast_begin, broadcast_set,
                broadcast_next, Members
  <2>5. InWait' = InWait
    BY <1>7 DEF wait_create, wait_release, wait_event, broadcast_begin, broadcast_set,
                broadcast_next, Moves, InWait, CondInv, ConditionTypeOK
  <2> QED
    BY <2>3, <2>4, <2>5 DEF Woken
<1> QED
  BY <1>0, <1>1, <1>2, <1>3, <1>4, <1>5, <1>6, <1>7, <1>q
     DEF ConditionNext, ConditionStep, CondVariable!Next

(* Every step of the events, the list and the two mutexes is a step of the *)
(* condition variables of the system or a stutter, for any set of threads: *)
(* to be added to the list is to wait, a signal wakes one thread that      *)
(* waits and a broadcast all of them, and nobody else returns              *)
(* (lwt_unix_condition_wait, signal and broadcast).                        *)
THEOREM CondVariablesRefined == ConditionSpec => CondVariableSafety
<1> QED
  BY CondVariableInit, CondInvAlways, CondVariableStep, PTL DEF ConditionSpec, CondVariableSafety

(* No thread that was woken misses it, for any set of threads: the event   *)
(* is set when the node is taken from the list, and a broadcast, which     *)
(* keeps the mutex, finds every node on the stack of a thread that is      *)
(* still in lwt_unix_condition_wait.                                       *)
THEOREM WakeupsAreNotLost == ConditionSpec => []NoWakeupLost
<1>1. CondInv => NoWakeupLost
  BY DEF CondInv, WokenOK, NoWakeupLost
<1> QED
  BY <1>1, CondInvAlways, PTL
=============================================================================
