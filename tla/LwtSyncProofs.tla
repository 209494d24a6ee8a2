---------------------------- MODULE LwtSyncProofs ----------------------------
(***************************************************************************)
(* Mutual exclusion of lwt_mutex.ml for any set of threads, in every       *)
(* interleaving of lock, unlock, wakeups and cancellations; what turn_off  *)
(* of lwt_switch.ml waits for, for any set of hooks, in every interleaving *)
(* of their registration, their starts and their ends; and that            *)
(* lwt_mvar.ml neither loses, duplicates nor reorders values, and blocks   *)
(* threads only for what is not there, for any set of threads and any      *)
(* number of puts, if no other callback runs inside a cancellation.        *)
(***************************************************************************)
EXTENDS LwtMutex, LwtSwitch, LwtMvar, TLAPS

(* Every node of the queue belongs to a thread that waits for the mutex;   *)
(* only inside a cancellation may its promise be canceled already.         *)
QueueOK ==
    \A i \in DOMAIN waiters :
        /\ pc[waiters[i]] = "lock"
        /\ \/ task[waiters[i]] = "Pending"
           \/ SplitCancel /\ task[waiters[i]] = "Canceled"

(* No thread is in the queue twice.                                        *)
Distinct ==
    \A i, j \in DOMAIN waiters : waiters[i] = waiters[j] => i = j

(* A thread waits for a promise just while it is in lock; those that wait  *)
(* on a condition are another module's.                                    *)
TasksOK ==
    \A t \in Threads :
        /\ pc[t] \in {"idle", "lock", "critical"}
        /\ pc[t] # "lock" => task[t] = "none"
        /\ task[t] # "Rejected"

(* Who holds the mutex keeps it locked, and but for interrupted            *)
(* cancellations a locked mutex is held.                                   *)
HolderOK ==
    /\ Holders # {} => locked
    /\ ~SplitCancel /\ locked => Holders # {}

Inv == MutexTypeOK /\ QueueOK /\ Distinct /\ TasksOK /\ HolderOK /\ Exclusive
-----------------------------------------------------------------------------
(* Removing a node leaves the other nodes, each once.                      *)
LEMMA WithoutNode ==
    ASSUME NEW S, NEW q \in Seq(S), NEW t,
           \A i, j \in DOMAIN q : q[i] = q[j] => i = j
    PROVE  /\ Without(q, t) \in Seq(S)
           /\ \A i \in DOMAIN Without(q, t) :
                  Without(q, t)[i] # t /\ \E j \in DOMAIN q : Without(q, t)[i] = q[j]
           /\ \A i, j \in DOMAIN Without(q, t) :
                  Without(q, t)[i] = Without(q, t)[j] => i = j
<1>1. CASE ~InQueue(q, t)
  BY <1>1 DEF Without, WithoutPlace, InQueue
<1>2. CASE InQueue(q, t)
  <2> DEFINE k == CHOOSE i \in {i \in DOMAIN q : q[i] = t} : TRUE
             r == [i \in 1..(Len(q) - 1) |-> IF i < k THEN q[i] ELSE q[i + 1]]
  <2>1. k \in DOMAIN q /\ q[k] = t
    BY <1>2 DEF InQueue
  <2>2. Without(q, t) = r
    BY <1>2 DEF Without, WithoutPlace, InQueue
  <2>3. k \in 1..Len(q) /\ DOMAIN q = 1..Len(q) /\ Len(q) \in Nat
    BY <2>1
  <2> HIDE DEF k
  <2>4. \A i \in 1..(Len(q) - 1) : IF i < k THEN r[i] = q[i] /\ i \in DOMAIN q
                                   ELSE r[i] = q[i + 1] /\ i + 1 \in DOMAIN q
    BY <2>3
  <2>5. DOMAIN r = 1..(Len(q) - 1) /\ Len(q) - 1 \in Nat
    BY <2>3
  <2>6. r \in Seq(S)
    BY <2>3, <2>4, <2>5
  <2> HIDE DEF r
  <2>7. \A i \in DOMAIN r : r[i] # t /\ \E j \in DOMAIN q : r[i] = q[j]
    BY <2>1, <2>3, <2>4, <2>5
  <2>8. ASSUME NEW i \in DOMAIN r, NEW j \in DOMAIN r, r[i] = r[j] PROVE i = j
    <3> DEFINE at(m) == IF m < k THEN m ELSE m + 1
    <3>1. i \in 1..(Len(q) - 1) /\ j \in 1..(Len(q) - 1)
      BY <2>5
    <3>2. /\ at(i) \in DOMAIN q /\ r[i] = q[at(i)]
          /\ at(j) \in DOMAIN q /\ r[j] = q[at(j)]
      BY <2>4, <3>1
    <3>3. at(i) = at(j)
      BY <2>8, <3>2
    <3> QED
      BY <2>3, <3>1, <3>3
  <2> QED
    BY <2>2, <2>6, <2>7, <2>8
<1> QED
  BY <1>1, <1>2

LEMMA InitInv == MutexInit => Inv
<1> SUFFICES ASSUME MutexInit PROVE Inv
  OBVIOUS
<1>1. MutexTypeOK
  <2>1. locked \in BOOLEAN
    BY Zenon DEF MutexInit, NoTasks
  <2>2. waiters \in Seq(Threads)
    BY DEF MutexInit, NoTasks
  <2>3. task \in [Threads -> Tasks] /\ pc \in [Threads -> Pcs]
    BY DEF MutexInit, NoTasks, Tasks, Pcs
  <2> QED
    BY <2>1, <2>2, <2>3 DEF MutexTypeOK
<1>2. QueueOK /\ Distinct
  BY DEF MutexInit, NoTasks, QueueOK, Distinct
<1>3. TasksOK
  BY DEF MutexInit, NoTasks, TasksOK
<1>4. Holders = {}
  BY DEF MutexInit, NoTasks, Holders
<1>5. HolderOK /\ Exclusive
  BY <1>4 DEF MutexInit, NoTasks, HolderOK, Exclusive
<1> QED
  BY <1>1, <1>2, <1>3, <1>5 DEF Inv

(* lock: a thread that finds the mutex free is its only holder.            *)
LEMMA LockStep ==
    ASSUME Inv, NEW t \in Threads, lock(t)
    PROVE  Inv'
<1> USE DEF Inv
<1>1. CASE locked
  <2>1. /\ waiters' = Append(waiters, t)
        /\ task' = [task EXCEPT ![t] = "Pending"]
        /\ pc' = [pc EXCEPT ![t] = "lock"]
        /\ locked' = locked
        /\ pc[t] = "idle"
    BY <1>1 DEF lock, Lock
  <2>2. MutexTypeOK'
    BY <2>1 DEF MutexTypeOK, Tasks, Pcs
  <2>3. /\ DOMAIN waiters = 1..Len(waiters) /\ Len(waiters) \in Nat
        /\ DOMAIN waiters' = 1..(Len(waiters) + 1)
        /\ \A i \in DOMAIN waiters : waiters'[i] = waiters[i] /\ waiters[i] \in Threads
        /\ waiters'[Len(waiters) + 1] = t
    BY <2>1 DEF MutexTypeOK
  <2>4. \A i \in DOMAIN waiters : waiters[i] # t
    BY <2>1 DEF QueueOK
  <2>5. QueueOK'
    <3> SUFFICES ASSUME NEW i \in DOMAIN waiters'
                 PROVE  /\ pc'[waiters'[i]] = "lock"
                        /\ \/ task'[waiters'[i]] = "Pending"
                           \/ SplitCancel /\ task'[waiters'[i]] = "Canceled"
      BY DEF QueueOK
    <3>1. CASE i = Len(waiters) + 1
      BY <2>1, <2>3, <3>1 DEF MutexTypeOK
    <3>2. CASE i \in DOMAIN waiters
      BY <2>1, <2>3, <2>4, <3>2 DEF MutexTypeOK, QueueOK
    <3> QED
      BY <2>3, <3>1, <3>2
  <2>6. Distinct'
    BY <2>3, <2>4 DEF Distinct
  <2>7. TasksOK'
    BY <2>1 DEF TasksOK, MutexTypeOK
  <2>8. Holders' = Holders
    BY <2>1 DEF Holders, MutexTypeOK
  <2> QED
    BY <2>1, <2>2, <2>5, <2>6, <2>7, <2>8 DEF HolderOK, Exclusive
<1>2. CASE ~locked
  <2>1. /\ locked' = TRUE
        /\ task' = [task EXCEPT ![t] = "none"]
        /\ pc' = [pc EXCEPT ![t] = "critical"]
        /\ waiters' = waiters
        /\ pc[t] = "idle"
    BY <1>2 DEF lock, Lock
  <2>2. MutexTypeOK'
    BY <2>1 DEF MutexTypeOK, Tasks, Pcs
  <2>3. \A i \in DOMAIN waiters : waiters[i] # t /\ waiters[i] \in Threads
    BY <2>1 DEF QueueOK, MutexTypeOK
  <2>4. QueueOK' /\ Distinct'
    BY <2>1, <2>3 DEF QueueOK, Distinct, MutexTypeOK
  <2>5. TasksOK'
    BY <2>1 DEF TasksOK, MutexTypeOK
  <2>6. Holders = {}
    BY <1>2 DEF HolderOK
  <2>7. Holders' = {t}
    BY <2>1, <2>6 DEF Holders, MutexTypeOK
  <2> QED
    BY <2>1, <2>2, <2>4, <2>5, <2>7 DEF HolderOK, Exclusive
<1> QED
  BY <1>1, <1>2

(* The thread the mutex was handed over to goes on: it stays the holder.   *)
LEMMA CallbackStep ==
    ASSUME Inv, NEW t \in Threads, locked_callback(t)
    PROVE  Inv'
<1> USE DEF Inv
<1>1. /\ pc' = [pc EXCEPT ![t] = "critical"]
      /\ task' = [task EXCEPT ![t] = "none"]
      /\ locked' = locked /\ waiters' = waiters
      /\ task[t] = "Fulfilled" /\ pc[t] = "lock"
  BY DEF locked_callback, TasksOK
<1>2. MutexTypeOK'
  BY <1>1 DEF MutexTypeOK, Tasks, Pcs
<1>3. \A i \in DOMAIN waiters : waiters[i] # t /\ waiters[i] \in Threads
  BY <1>1 DEF QueueOK, MutexTypeOK
<1>4. QueueOK' /\ Distinct'
  BY <1>1, <1>3 DEF QueueOK, Distinct, MutexTypeOK
<1>5. TasksOK'
  BY <1>1 DEF TasksOK, MutexTypeOK
<1>6. Holders' = Holders
  BY <1>1 DEF Holders, MutexTypeOK
<1> QED
  BY <1>1, <1>2, <1>4, <1>5, <1>6 DEF HolderOK, Exclusive

(* unlock: the only holder leaves, and at most one waiter becomes one.     *)
LEMMA UnlockStep ==
    ASSUME Inv, NEW t \in Threads, unlock(t)
    PROVE  Inv'
<1> USE DEF Inv
<1>1. pc[t] = "critical" /\ pc' = [pc EXCEPT ![t] = "idle"] /\ task[t] = "none"
  BY DEF unlock, TasksOK
<1>2. \A i \in DOMAIN waiters : waiters[i] # t /\ waiters[i] \in Threads
  BY <1>1 DEF QueueOK, MutexTypeOK
<1>3. t \in Holders
  BY <1>1 DEF Holders
<1>4. \A u \in Threads \ {t} : u \notin Holders
  BY <1>3 DEF Exclusive
<1>5. CASE locked /\ waiters # <<>>
  <2> DEFINE h == Head(waiters)
  <2>1. /\ task' = wakeup_later(task, h, "Fulfilled")
        /\ waiters' = Tail(waiters)
        /\ locked' = locked
    BY <1>5 DEF unlock, Unlock
  <2>2. /\ DOMAIN waiters = 1..Len(waiters) /\ Len(waiters) \in Nat \ {0}
        /\ h = waiters[1] /\ 1 \in DOMAIN waiters
        /\ DOMAIN waiters' = 1..(Len(waiters) - 1)
        /\ \A i \in DOMAIN waiters' : waiters'[i] = waiters[i + 1] /\ i + 1 \in DOMAIN waiters
        /\ waiters' \in Seq(Threads)
    BY <1>5, <2>1 DEF MutexTypeOK
  <2>3. h \in Threads /\ h # t /\ pc[h] = "lock"
    BY <1>2, <2>2 DEF QueueOK
  <2> HIDE DEF h
  <2>4. MutexTypeOK'
    BY <1>1, <2>1, <2>2, <2>3, <1>5 DEF MutexTypeOK, Tasks, Pcs, wakeup_later
  <2>5. \A i \in DOMAIN waiters' : waiters'[i] # h
    BY <2>2 DEF Distinct
  <2>6. QueueOK'
    BY <1>1, <1>2, <2>1, <2>2, <2>5 DEF QueueOK, MutexTypeOK, wakeup_later
  <2>7. Distinct'
    <3> SUFFICES ASSUME NEW i \in DOMAIN waiters', NEW j \in DOMAIN waiters',
                        waiters'[i] = waiters'[j]
                 PROVE  i = j
      BY DEF Distinct
    <3>1. i + 1 = j + 1
      BY <2>2 DEF Distinct
    <3> QED
      BY <2>2, <3>1
  <2>8. TasksOK'
    BY <1>1, <2>1, <2>3 DEF TasksOK, MutexTypeOK, wakeup_later
  <2>9. Holders' \subseteq {h}
    BY <1>1, <1>4, <2>1, <2>3 DEF Holders, MutexTypeOK, wakeup_later
  <2>10. ~SplitCancel => h \in Holders'
    BY <1>1, <2>1, <2>2, <2>3 DEF Holders, MutexTypeOK, wakeup_later, QueueOK
  <2> QED
    BY <1>5, <2>1, <2>4, <2>6, <2>7, <2>8, <2>9, <2>10 DEF HolderOK, Exclusive
<1>6. CASE ~(locked /\ waiters # <<>>)
  <2>1. locked' = FALSE /\ task' = task /\ waiters' = waiters
    BY <1>6 DEF unlock, Unlock
  <2>2. MutexTypeOK'
    BY <1>1, <2>1 DEF MutexTypeOK, Pcs
  <2>3. QueueOK' /\ Distinct'
    BY <1>1, <1>2, <2>1 DEF QueueOK, Distinct, MutexTypeOK
  <2>4. TasksOK'
    BY <1>1, <2>1 DEF TasksOK, MutexTypeOK
  <2>5. Holders' = {}
    BY <1>1, <1>4, <2>1 DEF Holders, MutexTypeOK
  <2> QED
    BY <2>1, <2>2, <2>3, <2>4, <2>5 DEF HolderOK, Exclusive
<1> QED
  BY <1>5, <1>6

(* A cancellation changes nothing for the holder.                          *)
LEMMA CancelStep ==
    ASSUME Inv, NEW t \in Threads, cancel_lock(t)
    PROVE  Inv'
<1> USE DEF Inv
<1>1. /\ task[t] = "Pending" /\ pc[t] = "lock"
      /\ task' = [task EXCEPT ![t] = "Canceled"]
      /\ waiters' = IF SplitCancel THEN waiters ELSE Without(waiters, t)
      /\ locked' = locked /\ pc' = pc
  BY DEF cancel_lock, TasksOK
<1>2. /\ Without(waiters, t) \in Seq(Threads)
      /\ \A i \in DOMAIN Without(waiters, t) :
             Without(waiters, t)[i] # t
             /\ \E j \in DOMAIN waiters : Without(waiters, t)[i] = waiters[j]
      /\ \A i, j \in DOMAIN Without(waiters, t) :
             Without(waiters, t)[i] = Without(waiters, t)[j] => i = j
  BY WithoutNode DEF MutexTypeOK, Distinct
<1>3. MutexTypeOK'
  BY <1>1, <1>2 DEF MutexTypeOK, Tasks
<1>4. \A i \in DOMAIN waiters : waiters[i] \in Threads
  BY DEF MutexTypeOK
<1>5. QueueOK'
  <2>1. CASE SplitCancel
    BY <1>1, <1>4, <2>1 DEF QueueOK, MutexTypeOK
  <2>2. CASE ~SplitCancel
    BY <1>1, <1>2, <1>4, <2>2 DEF QueueOK, MutexTypeOK
  <2> QED
    BY <2>1, <2>2
<1>6. Distinct'
  BY <1>1, <1>2 DEF Distinct
<1>7. TasksOK'
  BY <1>1 DEF TasksOK, MutexTypeOK
<1>8. Holders' = Holders
  BY <1>1 DEF Holders, MutexTypeOK
<1> QED
  BY <1>1, <1>3, <1>5, <1>6, <1>7, <1>8 DEF HolderOK, Exclusive

LEMMA CancelCallbacksStep ==
    ASSUME Inv, NEW t \in Threads, cancel_lock_callbacks(t)
    PROVE  Inv'
<1> USE DEF Inv
<1>1. /\ task[t] = "Canceled" /\ pc[t] = "lock"
      /\ waiters' = Without(waiters, t)
      /\ task' = [task EXCEPT ![t] = "none"]
      /\ pc' = [pc EXCEPT ![t] = "idle"]
      /\ locked' = locked
  BY DEF cancel_lock_callbacks
<1>2. /\ waiters' \in Seq(Threads)
      /\ \A i \in DOMAIN waiters' :
             waiters'[i] # t /\ \E j \in DOMAIN waiters : waiters'[i] = waiters[j]
      /\ Distinct'
  BY <1>1, WithoutNode DEF MutexTypeOK, Distinct
<1>3. MutexTypeOK'
  BY <1>1, <1>2 DEF MutexTypeOK, Tasks, Pcs
<1>4. \A i \in DOMAIN waiters : waiters[i] \in Threads
  BY DEF MutexTypeOK
<1>5. QueueOK'
  BY <1>1, <1>2, <1>4 DEF QueueOK, MutexTypeOK
<1>6. TasksOK'
  BY <1>1 DEF TasksOK, MutexTypeOK
<1>7. Holders' = Holders
  BY <1>1 DEF Holders, MutexTypeOK
<1> QED
  BY <1>1, <1>2, <1>3, <1>5, <1>6, <1>7 DEF HolderOK, Exclusive

LEMMA StepInv == Inv /\ [MutexNext]_mutexVars => Inv'
<1> SUFFICES ASSUME Inv, [MutexNext]_mutexVars PROVE Inv'
  OBVIOUS
<1>1. CASE UNCHANGED mutexVars
  BY <1>1 DEF Inv, mutexVars, MutexTypeOK, QueueOK, Distinct, TasksOK, HolderOK,
              Exclusive, Holders
<1>2. CASE MutexNext
  <2>1. PICK t \in Threads : lock(t) \/ cancel_lock(t) \/ Progress(t)
    BY <1>2 DEF MutexNext
  <2> QED
    BY <2>1, LockStep, CallbackStep, UnlockStep, CancelStep, CancelCallbacksStep
       DEF Progress
<1> QED
  BY <1>1, <1>2

LEMMA InvAlways == MutexSpec => []Inv
<1>1. MutexInit => Inv
  BY InitInv
<1>2. Inv /\ [MutexNext]_mutexVars => Inv'
  BY StepInv
<1> QED
  BY <1>1, <1>2, PTL DEF MutexSpec

(* For any set of threads, at most one is between lock and unlock or has   *)
(* been handed the mutex, whatever is canceled and however cancellations   *)
(* are interrupted (lock, unlock).                                         *)
THEOREM MutexExcludes == MutexSpec => []MutualExclusion
<1>1. Inv => MutualExclusion
  BY DEF Inv, MutualExclusion
<1> QED
  BY <1>1, InvAlways, PTL

(* For any set of threads, a mutex is locked exactly while it is held, if  *)
(* no other callback runs inside a cancellation (unlock, cancel).          *)
THEOREM MutexLockedIffHeld == ASSUME ~SplitCancel PROVE MutexSpec => []LockedIffHeld
<1>1. Inv => LockedIffHeld
  BY DEF Inv, HolderOK, LockedIffHeld, MutexTypeOK
<1> QED
  BY <1>1, InvAlways, PTL
-----------------------------------------------------------------------------
In(h, q) == \E i \in DOMAIN q : q[i] = h

(* A registered hook is known to the switch, or to the turn_off that has   *)
(* taken the hooks from it.                                                *)
RegisteredOK == \A h \in Hooks : hook[h] = "registered" => In(h, hooks) \/ In(h, todo)

(* Where a switch is in its life: one turn_off, whose hooks are all        *)
(* started before its join can be resolved.                                *)
PhaseOK ==
    /\ state = "on" => todo = <<>> /\ joined = {} /\ result = "none"
    /\ state = "off" => hooks = <<>> /\ result # "none"
    /\ result # "Pending" => todo = <<>>

(* What the join saw stays so: the hooks it waited for have ended.         *)
JoinOK ==
    result \in {"Fulfilled", "Rejected"} =>
        /\ \A h \in joined : hook[h] \in {"done", "failed"}
        /\ result = "Rejected" <=> \E h \in joined : hook[h] = "failed"

SwitchInv == SwitchTypeOK /\ RegisteredOK /\ PhaseOK /\ JoinOK

LEMMA SwitchInitInv == SwitchInit => SwitchInv
<1> SUFFICES ASSUME SwitchInit PROVE SwitchInv
  OBVIOUS
<1>1. hooks \in Seq(Hooks) /\ todo \in Seq(Hooks)
  BY DEF SwitchInit
<1>2. SwitchTypeOK
  BY <1>1 DEF SwitchInit, SwitchTypeOK
<1> QED
  BY <1>2 DEF SwitchInit, SwitchInv, RegisteredOK, PhaseOK, JoinOK

LEMMA AddHookStep ==
    ASSUME SwitchInv, NEW h \in Hooks, add_hook(h)
    PROVE  SwitchInv'
<1> USE DEF SwitchInv
<1>1. CASE state = "on"
  <2>1. /\ hooks' = <<h>> \o hooks /\ hook' = [hook EXCEPT ![h] = "registered"]
        /\ UNCHANGED <<state, todo, joined, result>>
    BY <1>1 DEF add_hook
  <2>2. /\ hooks \in Seq(Hooks) /\ hooks' \in Seq(Hooks)
        /\ DOMAIN hooks = 1..Len(hooks) /\ Len(hooks) \in Nat
        /\ DOMAIN hooks' = 1..(Len(hooks) + 1)
        /\ hooks'[1] = h
        /\ \A i \in DOMAIN hooks : hooks'[i + 1] = hooks[i]
    BY <2>1 DEF SwitchTypeOK
  <2>3. SwitchTypeOK'
    BY <2>1, <2>2 DEF SwitchTypeOK
  <2>4. RegisteredOK'
    <3> SUFFICES ASSUME NEW g \in Hooks, hook'[g] = "registered"
                 PROVE  In(g, hooks') \/ In(g, todo')
      BY DEF RegisteredOK
    <3>1. CASE g = h
      BY <2>2, <3>1 DEF In
    <3>2. CASE g # h
      <4>1. In(g, hooks) \/ In(g, todo)
        BY <2>1, <3>2 DEF RegisteredOK, SwitchTypeOK
      <4>2. ASSUME In(g, hooks) PROVE In(g, hooks')
        <5>1. PICK i \in DOMAIN hooks : hooks[i] = g
          BY <4>2 DEF In
        <5>2. i + 1 \in DOMAIN hooks' /\ hooks'[i + 1] = g
          BY <2>2, <5>1
        <5> QED
          BY <5>2 DEF In
      <4> QED
        BY <2>1, <4>1, <4>2
    <3> QED
      BY <3>1, <3>2
  <2>5. PhaseOK' /\ JoinOK'
    BY <1>1, <2>1 DEF PhaseOK, JoinOK
  <2> QED
    BY <2>3, <2>4, <2>5
<1>2. CASE state # "on"
  <2>1. /\ hook' = [hook EXCEPT ![h] = "refused"] /\ hook[h] = "free"
        /\ UNCHANGED <<state, hooks, todo, joined, result>>
    BY <1>2 DEF add_hook
  <2> QED
    BY <2>1 DEF SwitchTypeOK, RegisteredOK, PhaseOK, JoinOK
<1> QED
  BY <1>1, <1>2

LEMMA OtherHookSteps ==
    ASSUME SwitchInv, NEW h \in Hooks, add_hook_or_exec(h) \/ end_hook(h)
    PROVE  SwitchInv'
<1> USE DEF SwitchInv
<1>1. PICK outcome \in {"running", "done", "failed"} :
          /\ hook' = [hook EXCEPT ![h] = outcome]
          /\ hook[h] \in {"free", "running"}
          /\ UNCHANGED <<state, hooks, todo, joined, result>>
  BY DEF add_hook_or_exec, end_hook
<1> QED
  BY <1>1 DEF SwitchTypeOK, RegisteredOK, PhaseOK, JoinOK

LEMMA TurnOffStep == ASSUME SwitchInv, turn_off PROVE SwitchInv'
<1> USE DEF SwitchInv
<1>1. hooks' \in Seq(Hooks) /\ todo' \in Seq(Hooks)
  BY DEF turn_off, SwitchTypeOK
<1> QED
  BY <1>1 DEF turn_off, SwitchTypeOK, RegisteredOK, PhaseOK, JoinOK, In

LEMMA StartHookStep == ASSUME SwitchInv, start_hook PROVE SwitchInv'
<1> USE DEF SwitchInv
<1> DEFINE h == Head(todo)
<1>1. PICK outcome \in {"running", "failed"} : hook' = [hook EXCEPT ![h] = outcome]
  BY DEF start_hook
<1>2. /\ todo # <<>> /\ todo' = Tail(todo) /\ joined' = joined \cup {h}
      /\ UNCHANGED <<state, hooks, result>>
  BY DEF start_hook
<1>3. /\ todo \in Seq(Hooks) /\ todo' \in Seq(Hooks) /\ h \in Hooks /\ h = todo[1]
      /\ DOMAIN todo = 1..Len(todo) /\ Len(todo) \in Nat
      /\ DOMAIN todo' = 1..(Len(todo) - 1)
      /\ \A i \in DOMAIN todo' : todo'[i] = todo[i + 1]
  BY <1>2 DEF SwitchTypeOK
<1> HIDE DEF h
<1>4. SwitchTypeOK'
  BY <1>1, <1>2, <1>3 DEF SwitchTypeOK
<1>5. RegisteredOK'
  <2> SUFFICES ASSUME NEW g \in Hooks, hook'[g] = "registered"
               PROVE  In(g, hooks') \/ In(g, todo')
    BY DEF RegisteredOK
  <2>1. g # h /\ hook[g] = "registered"
    BY <1>1, <1>3 DEF SwitchTypeOK
  <2>2. ASSUME In(g, todo) PROVE In(g, todo')
    <3>1. PICK i \in DOMAIN todo : todo[i] = g
      BY <2>2 DEF In
    <3>2. i - 1 \in DOMAIN todo' /\ todo'[i - 1] = g
      BY <1>3, <2>1, <3>1
    <3> QED
      BY <3>2 DEF In
  <2> QED
    BY <1>2, <2>1, <2>2 DEF RegisteredOK
<1>6. result = "Pending" /\ state = "off"
  BY <1>2 DEF PhaseOK, SwitchTypeOK
<1>7. PhaseOK' /\ JoinOK'
  BY <1>2, <1>6 DEF PhaseOK, JoinOK
<1> QED
  BY <1>4, <1>5, <1>7

LEMMA JoinStep == ASSUME SwitchInv, join PROVE SwitchInv'
<1> USE DEF SwitchInv
<1>1. SwitchTypeOK' /\ RegisteredOK'
  BY DEF join, SwitchTypeOK, RegisteredOK
<1>2. PhaseOK' /\ JoinOK'
  BY DEF join, PhaseOK, JoinOK
<1> QED
  BY <1>1, <1>2

LEMMA SwitchStepInv == SwitchInv /\ [SwitchNext]_switchVars => SwitchInv'
<1> SUFFICES ASSUME SwitchInv, [SwitchNext]_switchVars PROVE SwitchInv'
  OBVIOUS
<1>1. CASE UNCHANGED switchVars
  BY <1>1 DEF SwitchInv, SwitchTypeOK, RegisteredOK, PhaseOK, JoinOK, switchVars
<1>2. CASE SwitchNext
  BY <1>2, AddHookStep, OtherHookSteps, TurnOffStep, StartHookStep, JoinStep DEF SwitchNext
<1> QED
  BY <1>1, <1>2

(* For any set of hooks, when the promise of turn_off is resolved no hook  *)
(* is left to be called, those it called have ended, and it has failed     *)
(* just if one of them did, however they overlap and whatever is           *)
(* registered meanwhile (add_hook, add_hook_or_exec, turn_off).            *)
THEOREM SwitchWaitsForHooks == SwitchSpec => []TurnOffWaits
<1>1. SwitchInit => SwitchInv
  BY SwitchInitInv
<1>2. SwitchInv /\ [SwitchNext]_switchVars => SwitchInv'
  BY SwitchStepInv
<1>3. SwitchInv => TurnOffWaits
  BY DEF SwitchInv, SwitchTypeOK, RegisteredOK, PhaseOK, JoinOK, TurnOffWaits, In
<1> QED
  BY <1>1, <1>2, <1>3, PTL DEF SwitchSpec
-----------------------------------------------------------------------------
(* lwt_mvar.ml                                                             *)
(* Blocked threads are in the queue of what they do, with a promise that   *)
(* is pending, once; an unblocked one has no promise.                      *)
QueuesOK ==
    /\ \A i \in DOMAIN readers :
           pc[readers[i]] = "take" /\ task[readers[i]] = "Pending"
    /\ \A i \in DOMAIN writers :
           pc[writers[i].thread] = "put" /\ task[writers[i].thread] = "Pending"
    /\ \A i, j \in DOMAIN readers : readers[i] = readers[j] => i = j
    /\ \A i, j \in DOMAIN writers : writers[i].thread = writers[j].thread => i = j
    /\ \A t \in Threads : pc[t] = "idle" => task[t] = "none"

(* Readers wait for an empty mailbox, writers for a full one.              *)
EmptyOrFull ==
    /\ readers # <<>> => mvar_contents = NoValue
    /\ writers # <<>> => mvar_contents # NoValue

(* The values entered in the order of the puts, and the blocked ones come  *)
(* next, in that order.                                                    *)
InOrder ==
    /\ \A i, j \in DOMAIN accepted : i < j => accepted[i] < accepted[j]
    /\ \A i, j \in DOMAIN writers : i < j => writers[i].value < writers[j].value
    /\ \A i \in DOMAIN accepted, j \in DOMAIN writers : accepted[i] < writers[j].value
    /\ \A i \in DOMAIN accepted : accepted[i] <= puts
    /\ \A i \in DOMAIN writers : writers[i].value <= puts

Conserved == accepted = given \o Contents

MvarInv == MvarTypeOK /\ QueuesOK /\ EmptyOrFull /\ InOrder /\ Conserved
-----------------------------------------------------------------------------
(* Removing a node leaves the others, in their order.                      *)
LEMMA WithoutPlaces ==
    ASSUME NEW S, NEW q \in Seq(S), NEW K \in SUBSET (DOMAIN q),
           \A i, j \in K : i = j
    PROVE  /\ WithoutPlace(q, K) \in Seq(S)
           /\ \A i \in DOMAIN WithoutPlace(q, K) :
                  \E a \in (DOMAIN q) \ K : WithoutPlace(q, K)[i] = q[a]
           /\ \A i, j \in DOMAIN WithoutPlace(q, K) : i < j =>
                  \E a, b \in (DOMAIN q) \ K :
                      a < b /\ WithoutPlace(q, K)[i] = q[a] /\ WithoutPlace(q, K)[j] = q[b]
<1>1. CASE K = {}
  BY <1>1 DEF WithoutPlace
<1>2. CASE K # {}
  <2> DEFINE k == CHOOSE i \in K : TRUE
             r == [i \in 1..(Len(q) - 1) |-> IF i < k THEN q[i] ELSE q[i + 1]]
             at(i) == IF i < k THEN i ELSE i + 1
  <2>1. k \in DOMAIN q /\ K = {k}
    BY <1>2
  <2>2. WithoutPlace(q, K) = r
    BY <1>2 DEF WithoutPlace
  <2>3. k \in 1..Len(q) /\ DOMAIN q = 1..Len(q) /\ Len(q) \in Nat
    BY <2>1
  <2> HIDE DEF k
  <2>4. \A i \in 1..(Len(q) - 1) : r[i] = q[at(i)] /\ at(i) \in (DOMAIN q) \ K
    BY <2>1, <2>3
  <2>5. DOMAIN r = 1..(Len(q) - 1) /\ Len(q) - 1 \in Nat
    BY <2>3
  <2>6. r \in Seq(S)
    BY <2>3, <2>4, <2>5
  <2>7. \A i, j \in 1..(Len(q) - 1) : i < j => at(i) < at(j)
    BY <2>3
  <2> HIDE DEF r, at
  <2> QED
    BY <2>2, <2>4, <2>5, <2>6, <2>7
<1> QED
  BY <1>1, <1>2

LEMMA MvarInitInv == MvarInit => MvarInv
<1> SUFFICES ASSUME MvarInit PROVE MvarInv
  OBVIOUS
<1>1. MvarTypeOK
  <2>1. mvar_contents \in Values \cup {NoValue}
    BY DEF MvarInit, NoTasks
  <2>2. writers \in Seq(Writer) /\ readers \in Seq(Threads)
    BY DEF MvarInit, NoTasks
  <2>3. task \in [Threads -> {"none", "Pending", "Fulfilled", "Canceled"}]
        /\ pc \in [Threads -> {"idle", "put", "take"}]
    BY DEF MvarInit, NoTasks
  <2>4. puts \in 0..MaxPuts
    BY MvarAssumption DEF MvarInit, NoTasks
  <2>5. accepted \in Seq(Values) /\ given \in Seq(Values)
    BY DEF MvarInit, NoTasks
  <2> QED
    BY <2>1, <2>2, <2>3, <2>4, <2>5 DEF MvarTypeOK
<1>2. QueuesOK /\ EmptyOrFull
  BY DEF MvarInit, NoTasks, QueuesOK, EmptyOrFull
<1>3. InOrder
  BY DEF MvarInit, NoTasks, InOrder
<1>4. Conserved
  BY DEF MvarInit, NoTasks, Conserved, Contents
<1> QED
  BY <1>1, <1>2, <1>3, <1>4 DEF MvarInv

(* A value enters the mailbox at the end of accepted.                      *)
LEMMA AppendAccepted ==
    ASSUME NEW a \in Seq(Values), NEW g \in Seq(Values), NEW v \in Values
    PROVE  /\ a = g \o <<>> => Append(a, v) = g \o <<v>>
           /\ a = g \o <<>> => Append(a, v) = Append(g, v) \o <<>>
           /\ \A u \in Values : a = g \o <<u>> => a = Append(g, u) \o <<>>
           /\ \A u \in Values :
                 a = g \o <<u>> => Append(a, v) = Append(g, u) \o <<v>>
  OBVIOUS

(* The nodes of the queues, and who is not in them.                        *)
LEMMA QueueNodes ==
    ASSUME MvarInv
    PROVE  /\ DOMAIN readers = 1..Len(readers) /\ Len(readers) \in Nat
           /\ DOMAIN writers = 1..Len(writers) /\ Len(writers) \in Nat
           /\ \A i \in DOMAIN readers : readers[i] \in Threads
           /\ \A i \in DOMAIN writers : writers[i].thread \in Threads /\ writers[i].value \in Values
           /\ \A t \in Threads : pc[t] = "idle" =>
                  /\ \A i \in DOMAIN readers : readers[i] # t
                  /\ \A i \in DOMAIN writers : writers[i].thread # t
<1>1. readers \in Seq(Threads) /\ writers \in Seq(Writer)
  BY DEF MvarInv, MvarTypeOK
<1>2. /\ DOMAIN readers = 1..Len(readers) /\ Len(readers) \in Nat
      /\ DOMAIN writers = 1..Len(writers) /\ Len(writers) \in Nat
      /\ \A i \in DOMAIN readers : readers[i] \in Threads
  BY <1>1
<1>3. \A i \in DOMAIN writers : writers[i] \in Writer
  BY <1>1
<1>4. \A i \in DOMAIN writers : writers[i].thread \in Threads /\ writers[i].value \in Values
  BY <1>3 DEF Writer
<1>5. \A t \in Threads : pc[t] = "idle" =>
          /\ \A i \in DOMAIN readers : readers[i] # t
          /\ \A i \in DOMAIN writers : writers[i].thread # t
  BY DEF MvarInv, QueuesOK
<1> QED
  BY <1>2, <1>4, <1>5

LEMMA MvarCallbackStep ==
    ASSUME MvarInv, NEW t \in Threads, blocked_callback(t)
    PROVE  MvarInv'
<1> USE DEF MvarInv
<1>1. MvarTypeOK'
  BY DEF MvarTypeOK, blocked_callback
<1>2. QueuesOK'
  BY DEF MvarTypeOK, QueuesOK, blocked_callback
<1>3. EmptyOrFull' /\ InOrder' /\ Conserved'
  BY DEF blocked_callback, EmptyOrFull, InOrder, Conserved, Contents
<1> QED
  BY <1>1, <1>2, <1>3

LEMMA TakeStep ==
    ASSUME MvarInv, NEW t \in Threads, take(t)
    PROVE  MvarInv'
<1> USE DEF MvarInv
<1>1. MvarTypeOK'
  BY DEF MvarTypeOK, take
<1>2. /\ DOMAIN readers = 1..Len(readers) /\ Len(readers) \in Nat
      /\ DOMAIN readers' = 1..(Len(readers) + 1)
      /\ \A i \in DOMAIN readers : readers'[i] = readers[i] /\ readers[i] # t
                                     /\ readers[i] \in Threads
      /\ readers'[Len(readers) + 1] = t
      /\ \A i \in DOMAIN writers : writers[i].thread # t /\ writers[i].thread \in Threads
  <2>1. readers' = Append(readers, t) /\ readers \in Seq(Threads) /\ pc[t] = "idle"
    BY DEF take, MvarTypeOK
  <2> QED
    BY <2>1, QueueNodes
<1>3. QueuesOK'
  <2>1. \A i \in DOMAIN readers' : pc'[readers'[i]] = "take" /\ task'[readers'[i]] = "Pending"
    <3> TAKE i \in DOMAIN readers'
    <3>1. CASE i = Len(readers) + 1
      BY <1>2, <3>1 DEF MvarTypeOK, take
    <3>2. CASE i \in DOMAIN readers
      BY <1>2, <3>2 DEF MvarTypeOK, take, QueuesOK
    <3> QED
      BY <1>2, <3>1, <3>2
  <2>2. \A i \in DOMAIN writers' : pc'[writers'[i].thread] = "put"
                                      /\ task'[writers'[i].thread] = "Pending"
    BY <1>2 DEF MvarTypeOK, take, QueuesOK
  <2>3. \A i, j \in DOMAIN readers' : readers'[i] = readers'[j] => i = j
    BY <1>2 DEF QueuesOK
  <2>4. \A i, j \in DOMAIN writers' : writers'[i].thread = writers'[j].thread => i = j
    BY DEF take, QueuesOK
  <2>5. \A u \in Threads : pc'[u] = "idle" => task'[u] = "none"
    BY DEF MvarTypeOK, take, QueuesOK
  <2> QED
    BY <2>1, <2>2, <2>3, <2>4, <2>5 DEF QueuesOK
<1>4. EmptyOrFull' /\ InOrder' /\ Conserved'
  BY DEF take, EmptyOrFull, InOrder, Conserved, Contents
<1> QED
  BY <1>1, <1>3, <1>4
(* put gives the value to the mailbox, to the first reader, or to the      *)
(* queue of the writers.                                                   *)
LEMMA PutStep ==
    ASSUME MvarInv, ~SplitCancel, NEW t \in Threads, put(t)
    PROVE  MvarInv'
<1> USE DEF MvarInv
<1> DEFINE v == puts + 1
<1>1. v \in Values /\ puts' = v /\ pc[t] = "idle" /\ puts \in Nat
  BY MvarAssumption DEF put, MvarTypeOK, Values
<1>2. /\ accepted \in Seq(Values) /\ given \in Seq(Values)
      /\ DOMAIN accepted = 1..Len(accepted) /\ Len(accepted) \in Nat
      /\ \A i \in DOMAIN accepted : accepted[i] \in Nat /\ accepted[i] < v
      /\ \A i \in DOMAIN writers : writers[i].value \in Nat /\ writers[i].value < v
  <2>1. accepted \in Seq(Values) /\ given \in Seq(Values)
    BY DEF MvarTypeOK
  <2>2. \A i \in DOMAIN accepted : accepted[i] \in Nat
    BY <2>1, MvarAssumption DEF Values
  <2>3. \A i \in DOMAIN writers : writers[i].value \in Nat
    BY QueueNodes, MvarAssumption DEF Values
  <2> QED
    BY <1>1, <2>1, <2>2, <2>3 DEF InOrder
<1>3. ASSUME accepted' = Append(accepted, v), writers = <<>>, writers' = writers
      PROVE  InOrder'
  <2>1. /\ DOMAIN accepted' = 1..(Len(accepted) + 1)
        /\ \A i \in DOMAIN accepted : accepted'[i] = accepted[i]
        /\ accepted'[Len(accepted) + 1] = v
    BY <1>1, <1>2, <1>3
  <2>2. \A i, j \in DOMAIN accepted' : i < j => accepted'[i] < accepted'[j]
    BY <1>1, <1>2, <2>1 DEF InOrder
  <2>3. \A i \in DOMAIN accepted' : accepted'[i] <= puts'
    BY <1>1, <1>2, <2>1
  <2>4. DOMAIN writers' = {}
    BY <1>3
  <2> QED
    BY <2>2, <2>3, <2>4 DEF InOrder
<1>4. CASE mvar_contents = NoValue /\ readers = <<>>
  <2>1. /\ mvar_contents' = v /\ accepted' = Append(accepted, v)
        /\ given' = given /\ readers' = readers /\ writers' = writers
        /\ task' = task /\ pc' = pc
    BY <1>4 DEF put
  <2>2. writers = <<>>
    BY <1>4 DEF EmptyOrFull
  <2>3. MvarTypeOK'
    BY <1>1, <1>2, <2>1, MvarAssumption DEF MvarTypeOK, Values
  <2>4. QueuesOK'
    BY <2>1 DEF QueuesOK
  <2>5. EmptyOrFull'
    BY <1>4, <2>1, <2>2 DEF EmptyOrFull
  <2>6. InOrder'
    BY <1>3, <2>1, <2>2
  <2>7. v # NoValue
    BY <1>1, MvarAssumption
  <2>8. Conserved'
    BY <1>1, <1>2, <1>4, <2>1, <2>7, AppendAccepted DEF Conserved, Contents
  <2> QED
    BY <2>3, <2>4, <2>5, <2>6, <2>8
<1>5. CASE mvar_contents = NoValue /\ readers # <<>>
  <2> DEFINE r == Head(readers)
  <2>1. /\ readers' = Tail(readers) /\ resume(r)
        /\ accepted' = Append(accepted, v)
        /\ given' = IF task[r] = "Pending" THEN Append(given, v) ELSE given
        /\ mvar_contents' = mvar_contents /\ writers' = writers /\ pc' = pc
    BY <1>5 DEF put
  <2>2. writers = <<>>
    BY <1>5 DEF EmptyOrFull
  <2>3. /\ readers \in Seq(Threads) /\ r = readers[1] /\ 1 \in DOMAIN readers
        /\ readers' \in Seq(Threads)
        /\ DOMAIN readers' = 1..(Len(readers) - 1)
        /\ \A i \in DOMAIN readers' : i + 1 \in DOMAIN readers /\ readers'[i] = readers[i + 1]
    BY <1>5, <2>1 DEF MvarTypeOK
  <2>4. r \in Threads /\ task[r] = "Pending" /\ pc[r] = "take"
    BY <2>3, QueueNodes DEF QueuesOK
  <2> HIDE DEF r
  <2>5. task' = [task EXCEPT ![r] = "Fulfilled"] /\ given' = Append(given, v)
    BY <2>1, <2>4 DEF resume, wakeup_later
  <2>6. MvarTypeOK'
    <3>1. accepted' \in Seq(Values) /\ given' \in Seq(Values)
      BY <1>1, <1>2, <2>1, <2>5
    <3>2. puts' \in 0..MaxPuts
      BY <1>1, MvarAssumption DEF Values
    <3>3. task' \in [Threads -> {"none", "Pending", "Fulfilled", "Canceled"}]
      BY <2>5 DEF MvarTypeOK
    <3> QED
      BY <2>1, <2>3, <3>1, <3>2, <3>3 DEF MvarTypeOK
  <2>7. QueuesOK'
    <3>1. \A i \in DOMAIN readers' : readers'[i] # r /\ readers'[i] \in Threads
      BY <2>3, QueueNodes DEF QueuesOK
    <3>2. \A i \in DOMAIN readers' : pc'[readers'[i]] = "take" /\ task'[readers'[i]] = "Pending"
      BY <2>1, <2>3, <2>5, <3>1 DEF QueuesOK, MvarTypeOK
    <3>3. DOMAIN writers' = {}
      BY <2>1, <2>2
    <3>4. ASSUME NEW i \in DOMAIN readers', NEW j \in DOMAIN readers',
                 readers'[i] = readers'[j]
          PROVE  i = j
      <4>1. i + 1 = j + 1
        BY <2>3, <3>4 DEF QueuesOK
      <4> QED
        BY <2>3, <4>1
    <3>5. \A u \in Threads : pc'[u] = "idle" => task'[u] = "none"
      BY <2>1, <2>4, <2>5 DEF QueuesOK, MvarTypeOK
    <3> QED
      BY <3>2, <3>3, <3>4, <3>5 DEF QueuesOK
  <2>8. EmptyOrFull'
    BY <1>5, <2>1, <2>2 DEF EmptyOrFull
  <2>9. InOrder'
    BY <1>3, <2>1, <2>2
  <2>10. Conserved'
    BY <1>1, <1>2, <1>5, <2>1, <2>5, AppendAccepted DEF Conserved, Contents
  <2> QED
    BY <2>6, <2>7, <2>8, <2>9, <2>10
<1>6. CASE mvar_contents # NoValue
  <2> DEFINE w == [thread |-> t, value |-> v]
  <2>1. /\ writers' = Append(writers, w)
        /\ task' = [task EXCEPT ![t] = "Pending"]
        /\ pc' = [pc EXCEPT ![t] = "put"]
        /\ UNCHANGED <<mvar_contents, readers, accepted, given>>
    BY <1>6 DEF put
  <2>2. w \in Writer /\ w.thread = t /\ w.value = v
    BY <1>1 DEF Writer
  <2> HIDE DEF w
  <2>3. /\ writers' \in Seq(Writer)
        /\ DOMAIN writers' = 1..(Len(writers) + 1)
        /\ \A i \in DOMAIN writers : writers'[i] = writers[i]
        /\ writers'[Len(writers) + 1] = w
    BY <2>1, <2>2 DEF MvarTypeOK
  <2>4. MvarTypeOK'
    BY <1>1, <2>1, <2>3, MvarAssumption DEF MvarTypeOK, Values
  <2>5. QueuesOK'
    <3>1. \A i \in DOMAIN readers' : pc'[readers'[i]] = "take" /\ task'[readers'[i]] = "Pending"
      BY <1>1, <2>1, QueueNodes DEF QueuesOK, MvarTypeOK
    <3>2. \A i \in DOMAIN writers' : pc'[writers'[i].thread] = "put"
                                        /\ task'[writers'[i].thread] = "Pending"
      <4> TAKE i \in DOMAIN writers'
      <4>1. CASE i = Len(writers) + 1
        BY <2>1, <2>2, <2>3, <4>1 DEF MvarTypeOK
      <4>2. CASE i \in DOMAIN writers
        BY <1>1, <2>1, <2>3, <4>2, QueueNodes DEF QueuesOK, MvarTypeOK
      <4> QED
        BY <2>3, <4>1, <4>2, QueueNodes
    <3>3. \A i, j \in DOMAIN readers' : readers'[i] = readers'[j] => i = j
      BY <2>1 DEF QueuesOK
    <3>4. \A i, j \in DOMAIN writers' : writers'[i].thread = writers'[j].thread => i = j
      BY <1>1, <2>2, <2>3, QueueNodes DEF QueuesOK
    <3>5. \A u \in Threads : pc'[u] = "idle" => task'[u] = "none"
      BY <2>1 DEF QueuesOK, MvarTypeOK
    <3> QED
      BY <3>1, <3>2, <3>3, <3>4, <3>5 DEF QueuesOK
  <2>6. EmptyOrFull' /\ Conserved'
    BY <1>6, <2>1 DEF EmptyOrFull, Conserved, Contents
  <2>7. InOrder'
    <3>1. ASSUME NEW i \in DOMAIN writers', NEW j \in DOMAIN writers', i < j
          PROVE  writers'[i].value < writers'[j].value
      <4>1. i \in DOMAIN writers
        BY <2>3, <3>1, QueueNodes
      <4>2. CASE j \in DOMAIN writers
        BY <2>3, <3>1, <4>1, <4>2 DEF InOrder
      <4>3. CASE j = Len(writers) + 1
        BY <1>2, <2>2, <2>3, <4>1, <4>3
      <4> QED
        BY <2>3, <4>2, <4>3, QueueNodes
    <3>2. \A i \in DOMAIN accepted', j \in DOMAIN writers' : accepted'[i] < writers'[j].value
      BY <1>1, <1>2, <2>1, <2>2, <2>3, QueueNodes DEF InOrder
    <3>3. \A i \in DOMAIN writers' : writers'[i].value <= puts'
      BY <1>1, <1>2, <2>2, <2>3, QueueNodes DEF InOrder
    <3>4. \A i \in DOMAIN accepted' : accepted'[i] <= puts'
      BY <1>1, <1>2, <2>1
    <3> QED
      BY <2>1, <3>1, <3>2, <3>3, <3>4 DEF InOrder
  <2> QED
    BY <2>4, <2>5, <2>6, <2>7
<1> QED
  BY <1>4, <1>5, <1>6

(* The contents are taken, and the first writer, if any, refills the       *)
(* mailbox.                                                                *)
LEMMA TakeAvailableStep ==
    ASSUME MvarInv, NEW t \in Threads, take_available(t)
    PROVE  MvarInv'
<1> USE DEF MvarInv
<1>1. /\ pc[t] = "idle" /\ mvar_contents # NoValue /\ mvar_contents \in Values
      /\ given' = Append(given, mvar_contents)
      /\ readers' = readers /\ pc' = pc /\ puts' = puts
  BY DEF take_available, MvarTypeOK
<1>2. readers = <<>>
  BY <1>1 DEF EmptyOrFull
<1>3. accepted \in Seq(Values) /\ given \in Seq(Values) /\ given' \in Seq(Values)
  BY <1>1 DEF MvarTypeOK
<1>4. accepted = given \o <<mvar_contents>>
  BY <1>1 DEF Conserved, Contents
<1>5. CASE writers = <<>>
  <2>1. mvar_contents' = NoValue /\ UNCHANGED <<writers, task, accepted>>
    BY <1>5 DEF take_available, next_writer
  <2>2. MvarTypeOK'
    BY <1>1, <1>3, <2>1 DEF MvarTypeOK
  <2>3. QueuesOK' /\ EmptyOrFull' /\ InOrder'
    BY <1>1, <1>5, <2>1 DEF QueuesOK, EmptyOrFull, InOrder
  <2>4. Conserved'
    BY <1>1, <1>3, <1>4, <2>1, AppendAccepted DEF Conserved, Contents
  <2> QED
    BY <2>2, <2>3, <2>4
<1>6. CASE writers # <<>>
  <2> DEFINE w == Head(writers)
  <2>1. /\ mvar_contents' = w.value /\ resume(w.thread)
        /\ accepted' = Append(accepted, w.value) /\ writers' = Tail(writers)
    BY <1>6 DEF take_available, next_writer
  <2>2. /\ writers \in Seq(Writer) /\ w = writers[1] /\ 1 \in DOMAIN writers
        /\ Len(writers) \in Nat /\ DOMAIN writers = 1..Len(writers)
        /\ writers' \in Seq(Writer)
        /\ DOMAIN writers' = 1..(Len(writers) - 1)
        /\ \A i \in DOMAIN writers' : i + 1 \in DOMAIN writers /\ writers'[i] = writers[i + 1]
    BY <1>6, <2>1 DEF MvarTypeOK
  <2>3. /\ w.thread \in Threads /\ w.value \in Values
        /\ task[w.thread] = "Pending" /\ pc[w.thread] = "put"
    BY <2>2, QueueNodes DEF QueuesOK
  <2> HIDE DEF w
  <2>4. task' = [task EXCEPT ![w.thread] = "Fulfilled"]
    BY <2>1, <2>3 DEF resume, wakeup_later
  <2>5. MvarTypeOK'
    <3>1. accepted' \in Seq(Values)
      BY <1>3, <2>1, <2>3
    <3>2. task' \in [Threads -> {"none", "Pending", "Fulfilled", "Canceled"}]
      BY <2>4 DEF MvarTypeOK
    <3> QED
      BY <1>1, <1>3, <2>1, <2>2, <2>3, <3>1, <3>2 DEF MvarTypeOK
  <2>6. QueuesOK'
    <3>1. \A i \in DOMAIN writers' : writers'[i].thread # w.thread
                                      /\ writers'[i].thread \in Threads
      <4> TAKE i \in DOMAIN writers'
      <4>1. i + 1 # 1 /\ i + 1 \in DOMAIN writers /\ writers'[i] = writers[i + 1]
        BY <2>2
      <4> QED
        BY <2>2, <4>1, QueueNodes DEF QueuesOK
    <3>2. \A i \in DOMAIN writers' : pc'[writers'[i].thread] = "put"
                                        /\ task'[writers'[i].thread] = "Pending"
      BY <1>1, <2>2, <2>4, <3>1 DEF QueuesOK, MvarTypeOK
    <3>3. DOMAIN readers' = {}
      BY <1>1, <1>2
    <3>4. ASSUME NEW i \in DOMAIN writers', NEW j \in DOMAIN writers',
                 writers'[i].thread = writers'[j].thread
          PROVE  i = j
      <4>1. i + 1 = j + 1
        BY <2>2, <3>4 DEF QueuesOK
      <4> QED
        BY <2>2, <4>1
    <3>5. \A u \in Threads : pc'[u] = "idle" => task'[u] = "none"
      BY <1>1, <2>3, <2>4 DEF QueuesOK, MvarTypeOK
    <3> QED
      BY <3>2, <3>3, <3>4, <3>5 DEF QueuesOK
  <2>7. w.value # NoValue
    BY <2>3, MvarAssumption DEF Values
  <2>8. EmptyOrFull'
    BY <1>1, <1>2, <2>1, <2>7 DEF EmptyOrFull
  <2>9. Conserved'
    BY <1>1, <1>3, <1>4, <2>1, <2>3, <2>7, AppendAccepted DEF Conserved, Contents
  <2>10. InOrder'
    <3>1. /\ Len(accepted) \in Nat /\ DOMAIN accepted = 1..Len(accepted)
          /\ DOMAIN accepted' = 1..(Len(accepted) + 1)
          /\ \A i \in DOMAIN accepted : accepted'[i] = accepted[i] /\ accepted[i] < w.value
          /\ accepted'[Len(accepted) + 1] = w.value
      <4>1. \A i \in DOMAIN accepted : accepted[i] < w.value
        BY <2>2 DEF InOrder
      <4>2. /\ Len(accepted) \in Nat /\ DOMAIN accepted = 1..Len(accepted)
            /\ DOMAIN accepted' = 1..(Len(accepted) + 1)
            /\ \A i \in DOMAIN accepted : accepted'[i] = accepted[i]
            /\ accepted'[Len(accepted) + 1] = w.value
        BY <1>3, <2>1, <2>3
      <4> QED
        BY <4>1, <4>2
    <3>2. \A i \in DOMAIN writers' : w.value < writers'[i].value
      <4> TAKE i \in DOMAIN writers'
      <4>1. 1 < i + 1 /\ i + 1 \in DOMAIN writers /\ writers'[i] = writers[i + 1]
        BY <2>2
      <4> QED
        BY <2>2, <4>1 DEF InOrder
    <3>3. \A i, j \in DOMAIN accepted' : i < j => accepted'[i] < accepted'[j]
      BY <3>1 DEF InOrder
    <3>4. ASSUME NEW i \in DOMAIN writers', NEW j \in DOMAIN writers', i < j
          PROVE  writers'[i].value < writers'[j].value
      <4>1. i + 1 < j + 1
        BY <2>2, <3>4
      <4> QED
        BY <2>2, <4>1 DEF InOrder
    <3>5. ASSUME NEW i \in DOMAIN accepted', NEW j \in DOMAIN writers'
          PROVE  accepted'[i] < writers'[j].value
      <4>1. CASE i = Len(accepted) + 1
        BY <3>1, <3>2, <4>1
      <4>2. CASE i \in DOMAIN accepted
        BY <2>2, <3>1, <4>2 DEF InOrder
      <4> QED
        BY <3>1, <4>1, <4>2
    <3>6. \A i \in DOMAIN accepted' : accepted'[i] <= puts'
      BY <1>1, <2>2, <3>1 DEF InOrder
    <3>7. \A i \in DOMAIN writers' : writers'[i].value <= puts'
      BY <1>1, <2>2 DEF InOrder
    <3> QED
      BY <3>3, <3>4, <3>5, <3>6, <3>7 DEF InOrder
  <2> QED
    BY <2>5, <2>6, <2>8, <2>9, <2>10
<1> QED
  BY <1>5, <1>6

(* The places of a thread in the queues.                                   *)
ReaderPlaces(t) == {i \in DOMAIN readers : readers[i] = t}
WriterPlaces(t) == {i \in DOMAIN writers : writers[i].thread = t}

(* Taking a thread out of the queues leaves the others where they wait.    *)
LEMMA RemoveNodeStep ==
    ASSUME MvarInv, NEW t \in Threads, RemoveNode(t),
           UNCHANGED <<mvar_contents, puts, accepted, given>>,
           task' \in [Threads -> {"none", "Pending", "Fulfilled", "Canceled"}],
           pc' \in [Threads -> {"idle", "put", "take"}],
           \A u \in Threads \ {t} : task'[u] = task[u] /\ pc'[u] = pc[u],
           pc'[t] = "idle" => task'[t] = "none"
    PROVE  MvarInv'
<1> USE DEF MvarInv
<1> DEFINE K == ReaderPlaces(t)
           L == WriterPlaces(t)
<1>1. /\ K \in SUBSET (DOMAIN readers) /\ L \in SUBSET (DOMAIN writers)
      /\ \A i, j \in K : i = j
      /\ \A i, j \in L : i = j
      /\ readers \in Seq(Threads) /\ writers \in Seq(Writer)
  BY DEF QueuesOK, MvarTypeOK, ReaderPlaces, WriterPlaces
<1>2. readers' = WithoutPlace(readers, K) /\ writers' = WithoutPlace(writers, L)
  BY DEF RemoveNode, ReaderPlaces, WriterPlaces
<1>3. /\ \A a \in (DOMAIN readers) \ K : readers[a] \in Threads \ {t}
      /\ \A a \in (DOMAIN writers) \ L : writers[a].thread \in Threads \ {t}
  BY QueueNodes DEF ReaderPlaces, WriterPlaces
<1> HIDE DEF K, L
<1>4. /\ readers' \in Seq(Threads)
      /\ \A i \in DOMAIN readers' : \E a \in (DOMAIN readers) \ K : readers'[i] = readers[a]
      /\ \A i, j \in DOMAIN readers' : i < j =>
             \E a, b \in (DOMAIN readers) \ K :
                 a < b /\ readers'[i] = readers[a] /\ readers'[j] = readers[b]
  BY <1>1, <1>2, WithoutPlaces
<1>5. /\ writers' \in Seq(Writer)
      /\ \A i \in DOMAIN writers' : \E a \in (DOMAIN writers) \ L : writers'[i] = writers[a]
      /\ \A i, j \in DOMAIN writers' : i < j =>
             \E a, b \in (DOMAIN writers) \ L :
                 a < b /\ writers'[i] = writers[a] /\ writers'[j] = writers[b]
  BY <1>1, <1>2, WithoutPlaces
<1>6. /\ DOMAIN readers' \subseteq Nat /\ DOMAIN writers' \subseteq Nat
      /\ DOMAIN readers \subseteq Nat /\ DOMAIN writers \subseteq Nat
  BY <1>1, <1>4, <1>5
<1>7. MvarTypeOK'
  BY <1>4, <1>5 DEF MvarTypeOK
<1>8. QueuesOK'
  <2>1. \A i \in DOMAIN readers' : pc'[readers'[i]] = "take" /\ task'[readers'[i]] = "Pending"
    BY <1>3, <1>4 DEF QueuesOK
  <2>2. \A i \in DOMAIN writers' : pc'[writers'[i].thread] = "put"
                                      /\ task'[writers'[i].thread] = "Pending"
    BY <1>3, <1>5 DEF QueuesOK
  <2>3. ASSUME NEW i \in DOMAIN readers', NEW j \in DOMAIN readers',
               readers'[i] = readers'[j]
        PROVE  i = j
    <3>1. ~ (i < j)
      BY <1>4, <1>6, <2>3 DEF QueuesOK
    <3>2. ~ (j < i)
      BY <1>4, <1>6, <2>3 DEF QueuesOK
    <3> QED
      BY <1>6, <3>1, <3>2
  <2>4. ASSUME NEW i \in DOMAIN writers', NEW j \in DOMAIN writers',
               writers'[i].thread = writers'[j].thread
        PROVE  i = j
    <3>1. ~ (i < j)
      BY <1>5, <1>6, <2>4 DEF QueuesOK
    <3>2. ~ (j < i)
      BY <1>5, <1>6, <2>4 DEF QueuesOK
    <3> QED
      BY <1>6, <3>1, <3>2
  <2>5. \A u \in Threads : pc'[u] = "idle" => task'[u] = "none"
    BY DEF QueuesOK
  <2> QED
    BY <2>1, <2>2, <2>3, <2>4, <2>5 DEF QueuesOK
<1>9. EmptyOrFull'
  <2>1. readers' # <<>> => readers # <<>>
    BY <1>1, <1>4
  <2>2. writers' # <<>> => writers # <<>>
    BY <1>1, <1>5
  <2> QED
    BY <2>1, <2>2 DEF EmptyOrFull
<1>10. InOrder'
  <2>1. \A i, j \in DOMAIN writers' : i < j => writers'[i].value < writers'[j].value
    BY <1>5 DEF InOrder
  <2>2. \A i \in DOMAIN accepted, j \in DOMAIN writers' : accepted[i] < writers'[j].value
    BY <1>5 DEF InOrder
  <2>3. \A i \in DOMAIN writers' : writers'[i].value <= puts
    BY <1>5 DEF InOrder
  <2> QED
    BY <2>1, <2>2, <2>3 DEF InOrder
<1>11. Conserved'
  BY DEF Conserved, Contents
<1> QED
  BY <1>7, <1>8, <1>9, <1>10, <1>11

LEMMA MvarCancelStep ==
    ASSUME MvarInv, ~SplitCancel, NEW t \in Threads, cancel_blocked(t)
    PROVE  MvarInv'
<1>1. task[t] = "Pending" /\ pc[t] # "idle"
  BY DEF cancel_blocked, MvarInv, QueuesOK
<1>2. RemoveNode(t) /\ UNCHANGED <<mvar_contents, puts, accepted, given>>
  BY DEF cancel_blocked
<1>3. /\ task' \in [Threads -> {"none", "Pending", "Fulfilled", "Canceled"}]
      /\ pc' \in [Threads -> {"idle", "put", "take"}]
      /\ \A u \in Threads \ {t} : task'[u] = task[u] /\ pc'[u] = pc[u]
      /\ pc'[t] # "idle"
  BY <1>1 DEF cancel_blocked, MvarInv, MvarTypeOK
<1> QED
  BY <1>2, <1>3, RemoveNodeStep

LEMMA MvarCancelCallbacksStep ==
    ASSUME MvarInv, NEW t \in Threads, cancel_blocked_callbacks(t)
    PROVE  MvarInv'
<1>1. RemoveNode(t) /\ UNCHANGED <<mvar_contents, puts, accepted, given>>
  BY DEF cancel_blocked_callbacks
<1>2. /\ task' \in [Threads -> {"none", "Pending", "Fulfilled", "Canceled"}]
      /\ pc' \in [Threads -> {"idle", "put", "take"}]
      /\ \A u \in Threads \ {t} : task'[u] = task[u] /\ pc'[u] = pc[u]
      /\ task'[t] = "none"
  BY DEF cancel_blocked_callbacks, MvarInv, MvarTypeOK
<1> QED
  BY <1>1, <1>2, RemoveNodeStep

LEMMA MvarStutterStep == MvarInv /\ UNCHANGED mvarVars => MvarInv'
  BY DEF MvarInv, mvarVars, mvarState, MvarTypeOK, QueuesOK, EmptyOrFull, InOrder, Conserved, Contents

(* The invariant gives the property: accepted is in increasing order.      *)
LEMMA MvarInvNoValueLost == MvarInv => NoValueLost
<1> SUFFICES ASSUME MvarInv PROVE NoValueLost
  OBVIOUS
<1>1. accepted \in Seq(Values)
  BY DEF MvarInv, MvarTypeOK
<1>2. \A i \in 2..Len(accepted) : accepted[i - 1] < accepted[i]
  <2> TAKE i \in 2..Len(accepted)
  <2>1. i \in DOMAIN accepted /\ i - 1 \in DOMAIN accepted /\ i - 1 < i
    BY <1>1
  <2> QED
    BY <2>1 DEF MvarInv, InOrder
<1> QED
  BY <1>2 DEF MvarInv, Conserved, NoValueLost

LEMMA MvarStepInv == ASSUME ~SplitCancel, MvarInv, [MvarNext]_mvarVars PROVE MvarInv'
<1>1. CASE UNCHANGED mvarVars
  BY <1>1, MvarStutterStep
<1>2. ASSUME NEW t \in Threads,
             put(t) \/ take_available(t) \/ take(t) \/ blocked_callback(t)
                 \/ cancel_blocked(t) \/ cancel_blocked_callbacks(t)
      PROVE  MvarInv'
  BY <1>2, PutStep, TakeAvailableStep, TakeStep, MvarCallbackStep, MvarCancelStep,
     MvarCancelCallbacksStep
<1> QED
  BY <1>1, <1>2 DEF MvarNext

(* Every value that put handed over is taken by one reader that is there   *)
(* to get it, once, in the order of the puts, or is in the mailbox, for    *)
(* any set of threads and any number of puts (put, next_writer, take,      *)
(* take_available), if nothing runs inside a cancellation.                 *)
THEOREM MvarLosesNothing ==
    ASSUME ~SplitCancel
    PROVE  MvarSpec => []NoValueLost
<1>1. MvarInit => MvarInv
  BY MvarInitInv
<1>2. MvarInv /\ [MvarNext]_mvarVars => MvarInv'
  BY MvarStepInv
<1>3. MvarInv => NoValueLost
  BY MvarInvNoValueLost
<1> QED
  BY <1>1, <1>2, <1>3, PTL DEF MvarSpec
-----------------------------------------------------------------------------
(* A thread whose promise is pending is in the queue of what it does.      *)
Enqueued ==
    \A t \in Threads : task[t] = "Pending" =>
        /\ pc[t] = "take" => \E i \in DOMAIN readers : readers[i] = t
        /\ pc[t] = "put" => \E i \in DOMAIN writers : writers[i].thread = t

(* Removing a node leaves every other one.                                 *)
LEMMA OthersStay ==
    ASSUME NEW S, NEW q \in Seq(S), NEW K \in SUBSET (DOMAIN q),
           \A i, j \in K : i = j,
           NEW a \in (DOMAIN q) \ K
    PROVE  \E i \in DOMAIN WithoutPlace(q, K) : WithoutPlace(q, K)[i] = q[a]
<1>1. CASE K = {}
  BY <1>1 DEF WithoutPlace
<1>2. CASE K # {}
  <2> DEFINE k == CHOOSE i \in K : TRUE
             r == [i \in 1..(Len(q) - 1) |-> IF i < k THEN q[i] ELSE q[i + 1]]
             at == IF a < k THEN a ELSE a - 1
  <2>1. k \in DOMAIN q /\ k # a
    BY <1>2
  <2>2. WithoutPlace(q, K) = r
    BY <1>2 DEF WithoutPlace
  <2>3. k \in 1..Len(q) /\ a \in 1..Len(q) /\ Len(q) \in Nat
    BY <2>1
  <2> HIDE DEF k
  <2>4. at \in 1..(Len(q) - 1) /\ r[at] = q[a]
    BY <2>1, <2>3
  <2> QED
    BY <2>2, <2>4
<1> QED
  BY <1>1, <1>2

LEMMA PutEnqueued ==
    ASSUME MvarInv, Enqueued, NEW t \in Threads, put(t)
    PROVE  Enqueued'
<1> SUFFICES ASSUME NEW u \in Threads, task'[u] = "Pending"
             PROVE  /\ pc'[u] = "take" => \E i \in DOMAIN readers' : readers'[i] = u
                    /\ pc'[u] = "put" => \E i \in DOMAIN writers' : writers'[i].thread = u
  BY DEF Enqueued
<1>1. /\ readers \in Seq(Threads) /\ writers \in Seq(Writer)
      /\ task \in [Threads -> {"none", "Pending", "Fulfilled", "Canceled"}]
      /\ pc \in [Threads -> {"idle", "put", "take"}]
      /\ pc[t] = "idle"
  BY DEF MvarInv, MvarTypeOK, put
<1>2. CASE mvar_contents = NoValue /\ readers = <<>>
  BY <1>2 DEF put, Enqueued
<1>3. CASE mvar_contents = NoValue /\ readers # <<>>
  <2>1. /\ readers' = Tail(readers) /\ writers' = writers /\ pc' = pc
        /\ resume(Head(readers))
    BY <1>3 DEF put
  <2>2. /\ Head(readers) \in Threads /\ Head(readers) = readers[1]
        /\ DOMAIN readers = 1..Len(readers) /\ Len(readers) \in Nat
        /\ DOMAIN readers' = 1..(Len(readers) - 1)
        /\ \A i \in DOMAIN readers' : readers'[i] = readers[i + 1]
    BY <1>1, <1>3, <2>1
  <2>3. task[Head(readers)] = "Pending"
    BY <1>3, <2>2, QueueNodes DEF MvarInv, QueuesOK
  <2>4. u # Head(readers) /\ task[u] = "Pending"
    BY <1>1, <2>1, <2>2, <2>3 DEF resume, wakeup_later
  <2>5. ASSUME pc'[u] = "take" PROVE \E i \in DOMAIN readers' : readers'[i] = u
    <3>1. PICK i \in DOMAIN readers : readers[i] = u
      BY <2>1, <2>4, <2>5 DEF Enqueued
    <3>2. i - 1 \in DOMAIN readers' /\ readers'[i - 1] = readers[i]
      BY <2>2, <2>4, <3>1
    <3> QED
      BY <3>1, <3>2
  <2> QED
    BY <2>1, <2>4, <2>5 DEF Enqueued
<1>4. CASE mvar_contents # NoValue
  <2> DEFINE w == [thread |-> t, value |-> puts + 1]
  <2>1. /\ writers' = Append(writers, w)
        /\ task' = [task EXCEPT ![t] = "Pending"] /\ pc' = [pc EXCEPT ![t] = "put"]
        /\ readers' = readers
    BY <1>4 DEF put
  <2>2. /\ DOMAIN writers' = 1..(Len(writers) + 1) /\ DOMAIN writers = 1..Len(writers)
        /\ Len(writers) \in Nat
        /\ writers'[Len(writers) + 1] = w
        /\ \A i \in DOMAIN writers : writers'[i] = writers[i]
    BY <1>1, <2>1
  <2>3. CASE u = t
    <3>1. Len(writers) + 1 \in DOMAIN writers' /\ writers'[Len(writers) + 1].thread = u
      BY <2>2, <2>3
    <3> QED
      BY <1>1, <2>1, <2>3, <3>1
  <2>4. CASE u # t
    <3>1. task[u] = "Pending" /\ pc'[u] = pc[u]
      BY <1>1, <2>1, <2>4
    <3> QED
      BY <2>1, <2>2, <3>1 DEF Enqueued
  <2> QED
    BY <2>3, <2>4
<1> QED
  BY <1>2, <1>3, <1>4

LEMMA TakeEnqueued ==
    ASSUME MvarInv, Enqueued, NEW t \in Threads, take(t)
    PROVE  Enqueued'
<1> SUFFICES ASSUME NEW u \in Threads, task'[u] = "Pending"
             PROVE  /\ pc'[u] = "take" => \E i \in DOMAIN readers' : readers'[i] = u
                    /\ pc'[u] = "put" => \E i \in DOMAIN writers' : writers'[i].thread = u
  BY DEF Enqueued
<1>1. /\ readers \in Seq(Threads)
      /\ task \in [Threads -> {"none", "Pending", "Fulfilled", "Canceled"}]
      /\ pc \in [Threads -> {"idle", "put", "take"}]
      /\ readers' = Append(readers, t) /\ writers' = writers
      /\ task' = [task EXCEPT ![t] = "Pending"] /\ pc' = [pc EXCEPT ![t] = "take"]
  BY DEF MvarInv, MvarTypeOK, take
<1>2. /\ DOMAIN readers' = 1..(Len(readers) + 1) /\ DOMAIN readers = 1..Len(readers)
      /\ Len(readers) \in Nat
      /\ readers'[Len(readers) + 1] = t
      /\ \A i \in DOMAIN readers : readers'[i] = readers[i]
  BY <1>1
<1>3. CASE u = t
  <2>1. Len(readers) + 1 \in DOMAIN readers' /\ readers'[Len(readers) + 1] = u
    BY <1>2, <1>3
  <2> QED
    BY <1>1, <1>3, <2>1
<1>4. CASE u # t
  <2>1. task[u] = "Pending" /\ pc'[u] = pc[u]
    BY <1>1, <1>4
  <2> QED
    BY <1>1, <1>2, <2>1 DEF Enqueued
<1> QED
  BY <1>3, <1>4

LEMMA TakeAvailableEnqueued ==
    ASSUME MvarInv, Enqueued, NEW t \in Threads, take_available(t)
    PROVE  Enqueued'
<1> SUFFICES ASSUME NEW u \in Threads, task'[u] = "Pending"
             PROVE  /\ pc'[u] = "take" => \E i \in DOMAIN readers' : readers'[i] = u
                    /\ pc'[u] = "put" => \E i \in DOMAIN writers' : writers'[i].thread = u
  BY DEF Enqueued
<1>1. /\ writers \in Seq(Writer) /\ readers' = readers /\ pc' = pc
      /\ task \in [Threads -> {"none", "Pending", "Fulfilled", "Canceled"}]
  BY DEF MvarInv, MvarTypeOK, take_available
<1>2. CASE writers = <<>>
  BY <1>1, <1>2 DEF take_available, next_writer, Enqueued
<1>3. CASE writers # <<>>
  <2>1. writers' = Tail(writers) /\ resume(Head(writers).thread)
    BY <1>3 DEF take_available, next_writer
  <2>2. /\ Head(writers) = writers[1] /\ 1 \in DOMAIN writers
        /\ DOMAIN writers = 1..Len(writers) /\ Len(writers) \in Nat
        /\ DOMAIN writers' = 1..(Len(writers) - 1)
        /\ \A i \in DOMAIN writers' : writers'[i] = writers[i + 1]
    BY <1>1, <1>3, <2>1
  <2>3. writers[1].thread \in Threads /\ task[writers[1].thread] = "Pending"
    BY <2>2, QueueNodes DEF MvarInv, QueuesOK
  <2>4. u # writers[1].thread /\ task[u] = "Pending"
    BY <1>1, <2>1, <2>2, <2>3 DEF resume, wakeup_later
  <2>5. ASSUME pc'[u] = "put" PROVE \E i \in DOMAIN writers' : writers'[i].thread = u
    <3>1. PICK i \in DOMAIN writers : writers[i].thread = u
      BY <1>1, <2>4, <2>5 DEF Enqueued
    <3>2. i - 1 \in DOMAIN writers' /\ writers'[i - 1] = writers[i]
      BY <2>2, <2>4, <3>1
    <3> QED
      BY <3>1, <3>2
  <2> QED
    BY <1>1, <2>4, <2>5 DEF Enqueued
<1> QED
  BY <1>2, <1>3

LEMMA RemoveEnqueued ==
    ASSUME MvarInv, Enqueued, NEW t \in Threads, RemoveNode(t),
           task'[t] # "Pending",
           \A u \in Threads \ {t} : task'[u] = task[u] /\ pc'[u] = pc[u]
    PROVE  Enqueued'
<1> SUFFICES ASSUME NEW u \in Threads \ {t}, task[u] = "Pending"
             PROVE  /\ pc[u] = "take" => \E i \in DOMAIN readers' : readers'[i] = u
                    /\ pc[u] = "put" => \E i \in DOMAIN writers' : writers'[i].thread = u
  BY DEF Enqueued
<1> DEFINE K == ReaderPlaces(t)
           L == WriterPlaces(t)
<1>1. /\ K \in SUBSET (DOMAIN readers) /\ L \in SUBSET (DOMAIN writers)
      /\ \A i, j \in K : i = j
      /\ \A i, j \in L : i = j
      /\ readers \in Seq(Threads) /\ writers \in Seq(Writer)
  BY DEF MvarInv, QueuesOK, MvarTypeOK, ReaderPlaces, WriterPlaces
<1>2. readers' = WithoutPlace(readers, K) /\ writers' = WithoutPlace(writers, L)
  BY DEF RemoveNode, ReaderPlaces, WriterPlaces
<1>3. ASSUME pc[u] = "take" PROVE \E i \in DOMAIN readers' : readers'[i] = u
  <2>1. PICK a \in DOMAIN readers : readers[a] = u
    BY <1>3 DEF Enqueued
  <2>2. a \in (DOMAIN readers) \ K
    BY <2>1 DEF ReaderPlaces
  <2> HIDE DEF K, L
  <2> QED
    BY <1>1, <1>2, <2>1, <2>2, OthersStay
<1>4. ASSUME pc[u] = "put" PROVE \E i \in DOMAIN writers' : writers'[i].thread = u
  <2>1. PICK a \in DOMAIN writers : writers[a].thread = u
    BY <1>4 DEF Enqueued
  <2>2. a \in (DOMAIN writers) \ L
    BY <2>1 DEF WriterPlaces
  <2> HIDE DEF K, L
  <2>3. \E i \in DOMAIN writers' : writers'[i] = writers[a]
    BY <1>1, <1>2, <2>2, OthersStay
  <2> QED
    BY <2>1, <2>3
<1> QED
  BY <1>3, <1>4

LEMMA StepEnqueued ==
    ASSUME ~SplitCancel, MvarInv, Enqueued, [MvarNext]_mvarVars
    PROVE  Enqueued'
<1>1. CASE UNCHANGED mvarVars
  BY <1>1 DEF Enqueued, mvarVars, mvarState
<1>2. ASSUME NEW t \in Threads, blocked_callback(t) PROVE Enqueued'
  BY <1>2 DEF blocked_callback, Enqueued, MvarInv, MvarTypeOK
<1>3. ASSUME NEW t \in Threads, cancel_blocked(t) \/ cancel_blocked_callbacks(t) PROVE Enqueued'
  <2>1. /\ RemoveNode(t) /\ task'[t] # "Pending"
        /\ \A u \in Threads \ {t} : task'[u] = task[u] /\ pc'[u] = pc[u]
    BY <1>3 DEF cancel_blocked, cancel_blocked_callbacks, MvarInv, MvarTypeOK
  <2> QED
    BY <2>1, RemoveEnqueued
<1> QED
  BY <1>1, <1>2, <1>3, PutEnqueued, TakeEnqueued, TakeAvailableEnqueued DEF MvarNext

(* For any set of threads and any number of puts, readers block only on an *)
(* empty mailbox and writers only on a full one, and whoever is blocked is *)
(* in the queue from which it will be woken (put, take, the cancel         *)
(* callbacks), if nothing runs inside a cancellation.                      *)
THEOREM MvarBlocksForAReason ==
    ASSUME ~SplitCancel
    PROVE  MvarSpec => []BlockedForAReason
<1>1. MvarInit => MvarInv /\ Enqueued
  BY MvarInitInv DEF MvarInit, NoTasks, Enqueued
<1>2. MvarInv /\ Enqueued /\ [MvarNext]_mvarVars => MvarInv' /\ Enqueued'
  BY MvarStepInv, StepEnqueued
<1>3. MvarInv /\ Enqueued => BlockedForAReason
  BY DEF MvarInv, EmptyOrFull, Enqueued, BlockedForAReason
<1> QED
  BY <1>1, <1>2, <1>3, PTL DEF MvarSpec
=============================================================================
