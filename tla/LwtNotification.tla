--------------------------- MODULE LwtNotification ---------------------------
(***************************************************************************)
(* The notifications of src/unix/lwt_unix_stubs.c and their handling in    *)
(* src/unix/lwt_unix.cppo.ml.  Threads of the C pool, OCaml threads and    *)
(* signal handlers send identifiers to the main thread through a buffer    *)
(* under notification_mutex and a descriptor, written when the buffer      *)
(* becomes non-empty, on which the main thread polls.  OCaml code runs     *)
(* under the master lock of the runtime.  Between locking a mutex and      *)
(* unlocking it a thread takes one step, but for the steps that lock two   *)
(* of them or that a fork or a signal may cut in two.                      *)
(*                                                                         *)
(* A signal handler runs on top of the thread it interrupts, the main      *)
(* thread or an OCaml thread (those of the pool block all signals): it is  *)
(* a sender of its own, and its thread stands still until it returns.      *)
(***************************************************************************)
EXTENDS Naturals, Sequences

CONSTANTS Main,              \* the main thread
          CThreads,          \* threads that run C code only
          OcamlThreads,      \* threads that hold the master lock to send
          Nobody,            \* no thread
          Ids,               \* identifiers of notifiers
          BufferSize,        \* 4096
          MaxSends,          \* the number of notifications sent
          Programs           \* each one what may happen: "raise", "fork", "signal"

ASSUME NotificationAssumption ==
    /\ BufferSize \in Nat \ {0}
    /\ MaxSends \in Nat
    /\ Programs \subseteq SUBSET {"raise", "fork", "signal"}

Threads == {Main} \cup CThreads \cup OcamlThreads
handler(t) == <<t>>                      \* the signal handler on the thread t
Handlers == {handler(t) : t \in {Main} \cup OcamlThreads}
Senders == Threads \cup Handlers
Thread(s) == IF s \in Handlers THEN s[1] ELSE s

(* The names of the threads and of the handlers are different.             *)
ASSUME SendersAssumption ==
    /\ Main \notin CThreads \cup OcamlThreads
    /\ CThreads \cap OcamlThreads = {}
    /\ Threads \cap Handlers = {}
    /\ Nobody \notin Senders

VARIABLES program,                \* the set of Programs that runs
          notifications,          \* the cells of the buffer in use
          notification_count,     \* the size of the buffer
          event,                  \* what has been written to the descriptor
          notification_mutex,     \* its holder
          master,                 \* the holder of the master lock
          pc,                     \* pc[s]: where in send_notification s is
          main,                   \* what the main thread does
          current_index,
          result,                 \* identifiers received and not yet called
          sent,                   \* the number of notifications sent
          called,                 \* history, as in LwtMailbox
          signal_notifications,   \* the identifier for the signal, or Nobody
          signum_id,              \* signum_id[h]: the one that the handler h sends
          forked                  \* is this the child of a fork?

mailVars == <<notifications, notification_count, event, notification_mutex,
          master, pc, main, current_index, result, sent, called, forked>>
signalVars == <<signal_notifications, signum_id>>
vars == <<program, mailVars, signalVars>>

TypeOK ==
    /\ notifications \in Seq(Ids)
    /\ notification_count \in Nat
    /\ event \in Nat
    /\ notification_mutex \in Senders \cup {Nobody}
    /\ master \in {Main, Nobody} \cup OcamlThreads
    /\ pc \in [Senders -> {"idle", "send", "locked"}]
    /\ main \in {"poll", "handle", "receive", "alloc", "yielded", "allocated", "call"}
    /\ current_index \in Nat
    /\ result \in Seq(Ids)
    /\ sent \in 0..MaxSends
    /\ called \in Seq(Ids)
    /\ signal_notifications \in Ids \cup {Nobody}
    /\ signum_id \in [Handlers -> Ids \cup {Nobody}]
    /\ forked \in BOOLEAN

(* init_notifications, init_notification, init_signals                     *)
Init ==
    /\ program \in Programs
    /\ notifications = <<>>
    /\ notification_count = BufferSize
    /\ event = 0
    /\ notification_mutex = Nobody
    /\ master = Nobody
    /\ pc = [s \in Senders |-> "idle"]
    /\ main = "poll"
    /\ current_index = 0
    /\ result = <<>>
    /\ sent = 0
    /\ called = <<>>
    /\ signal_notifications = Nobody
    /\ signum_id = [h \in Handlers |-> Nobody]
    /\ forked = FALSE
-----------------------------------------------------------------------------
\* Mutant: signals are not blocked.
Masked_never(t) == FALSE

(* The thread t blocks all signals: in send_notification and while it      *)
(* receives notifications.                                                 *)
Masked(t) ==
    \/ pc[t] # "idle"
    \/ t = Main /\ main \in {"receive", "alloc", "yielded", "allocated"}

(* No signal handler runs on the thread t.                                 *)
Uninterrupted(t) == t \notin CThreads => pc[handler(t)] = "idle"

(* A thread calls send_notification: an OCaml thread holds the master lock *)
(* until it returns; the main thread does so in a callback.                *)
send_begin(s) ==
    /\ s \in Threads
    /\ pc[s] = "idle"
    /\ Uninterrupted(s)
    /\ sent < MaxSends
    /\ pc' = [pc EXCEPT ![s] = "send"]
    /\ IF s \in OcamlThreads
       THEN master = Nobody /\ master' = s
       ELSE UNCHANGED master
    /\ s = Main => main \in {"poll", "call"}
    /\ UNCHANGED <<notifications, notification_count, event, notification_mutex,
                   main, current_index, result, sent, called, forked, signalVars>>

(* The system runs the signal handler on a thread that does not block it.  *)
handle_signal(h) ==
    /\ h \in Handlers
    /\ pc[h] = "idle"
    /\ ~Masked(Thread(h))
    /\ signal_notifications # Nobody
    /\ sent < MaxSends
    /\ signum_id' = [signum_id EXCEPT ![h] = signal_notifications]
    /\ pc' = [pc EXCEPT ![h] = "send"]
    /\ UNCHANGED <<notifications, notification_count, event, notification_mutex, master,
                   main, current_index, result, sent, called, forked, signal_notifications>>

send_lock(s) ==
    /\ pc[s] = "send"
    /\ s \in Threads => Uninterrupted(s)
    /\ notification_mutex = Nobody
    /\ notification_mutex' = s
    /\ pc' = [pc EXCEPT ![s] = "locked"]
    /\ UNCHANGED <<notifications, notification_count, event, master, main,
                   current_index, result, sent, called, forked, signalVars>>

(* A write to the descriptor, and a read, which resets an eventfd and      *)
(* takes one byte out of a pipe or a socket.                               *)
notification_send == event' = event + 1
notification_recv == event' \in {0, event - 1}

resize_notifications == notification_count' = 2 * notification_count

(* The body of send_notification: the descriptor is written if nothing is  *)
(* pending.  A write that fails is left out: its error path, which keeps   *)
(* the identifier in the buffer, needs a descriptor that was closed.       *)
send(id) ==
    /\ notifications' = Append(notifications, id)
    /\ \/ /\ notifications # <<>>
          /\ IF Len(notifications) = notification_count
             THEN resize_notifications ELSE UNCHANGED notification_count
          /\ UNCHANGED event
       \/ /\ notifications = <<>>
          /\ notification_send
          /\ UNCHANGED notification_count

send_end(s) ==
    /\ pc[s] = "locked"
    /\ s \in Threads => Uninterrupted(s)
    /\ \E id \in (IF s \in Handlers THEN {signum_id[s]} ELSE Ids) : send(id)
    /\ sent' = IF sent < MaxSends THEN sent + 1 ELSE sent
    /\ notification_mutex' = Nobody
    /\ pc' = [pc EXCEPT ![s] = "idle"]
    /\ master' = IF master = s /\ s \in OcamlThreads THEN Nobody ELSE master
    /\ signum_id' = IF s \in Handlers THEN [signum_id EXCEPT ![s] = Nobody] ELSE signum_id
    /\ UNCHANGED <<main, current_index, result, called, forked, signal_notifications>>
-----------------------------------------------------------------------------
(* The main thread is not in the middle of a send of its own or of a       *)
(* signal handler.                                                         *)
MainFree == pc[Main] = "idle" /\ Uninterrupted(Main)

(* The engine finds the descriptor readable and calls handle_notifications *)
(* under the master lock.                                                  *)
poll ==
    /\ MainFree
    /\ main = "poll"
    /\ event > 0
    /\ master = Nobody
    /\ master' = Main
    /\ main' = "handle"
    /\ UNCHANGED <<notifications, notification_count, event, notification_mutex, pc,
                   current_index, result, sent, called, forked, signalVars>>

(* recv_notifications blocks signals, takes the mutex and reads the        *)
(* descriptor.                                                             *)
recv_begin ==
    /\ MainFree
    /\ main = "handle"
    /\ notification_mutex = Nobody
    /\ event > 0
    /\ notification_recv
    /\ notification_mutex' = Main
    /\ main' = "receive"
    /\ UNCHANGED <<notifications, notification_count, master, pc, current_index,
                   result, sent, called, forked, signalVars>>

(* The mutex is released for caml_alloc_tuple.                             *)
recv_alloc ==
    /\ main = "receive"
    /\ current_index' = Len(notifications)
    /\ notification_mutex' = Nobody
    /\ main' = "alloc"
    /\ UNCHANGED <<notifications, notification_count, event, master, pc, result,
                   sent, called, forked, signalVars>>

(* The allocation may pass the master lock to other OCaml threads.         *)
yield_master ==
    /\ main = "alloc"
    /\ main' = "yielded"
    /\ master' = Nobody
    /\ UNCHANGED <<notifications, notification_count, event, notification_mutex, pc,
                   current_index, result, sent, called, forked, signalVars>>

resume_master ==
    /\ main = "yielded"
    /\ master = Nobody
    /\ master' = Main
    /\ main' = "allocated"
    /\ UNCHANGED <<notifications, notification_count, event, notification_mutex, pc,
                   current_index, result, sent, called, forked, signalVars>>

\* Mutants: only the identifiers that were there before the allocation are
\* read, and the others are left in the buffer, or dropped.
recv_end_rest ==
    /\ main \in {"alloc", "allocated"}
    /\ notification_mutex = Nobody
    /\ result' = SubSeq(notifications, 1, current_index)
    /\ notifications' = SubSeq(notifications, current_index + 1, Len(notifications))
    /\ main' = "call"
    /\ UNCHANGED <<notification_count, event, notification_mutex, master, pc,
                   current_index, sent, called, forked, signalVars>>

recv_end_unchecked ==
    /\ main \in {"alloc", "allocated"}
    /\ notification_mutex = Nobody
    /\ result' = SubSeq(notifications, 1, current_index)
    /\ notifications' = <<>>
    /\ main' = "call"
    /\ UNCHANGED <<notification_count, event, notification_mutex, master, pc,
                   current_index, sent, called, forked, signalVars>>

(* The mutex is taken again: if more has come, the allocation is repeated; *)
(* if not, the buffer is emptied.                                          *)
recv_end ==
    /\ main \in {"alloc", "allocated"}
    /\ notification_mutex = Nobody
    /\ \/ /\ current_index # Len(notifications)
          /\ notification_mutex' = Main
          /\ main' = "receive"
          /\ UNCHANGED <<notifications, result>>
       \/ /\ current_index = Len(notifications)
          /\ result' = notifications
          /\ notifications' = <<>>
          /\ main' = "call"
          /\ UNCHANGED notification_mutex
    /\ UNCHANGED <<notification_count, event, master, pc, current_index, sent,
                   called, forked, signalVars>>

(* handle_notifications calls the notifiers one by one; an exception of    *)
(* one of them leaves Array.iter.                                          *)
call_notification ==
    /\ MainFree
    /\ main = "call"
    /\ result # <<>>
    /\ called' = Append(called, Head(result))
    /\ \/ result' = Tail(result)
       \/ "raise" \in program /\ result' = <<>>
    /\ UNCHANGED <<notifications, notification_count, event, notification_mutex,
                   master, pc, main, current_index, sent, forked, signalVars>>

handled ==
    /\ MainFree
    /\ main = "call"
    /\ result = <<>>
    /\ main' = "poll"
    /\ master' = Nobody
    /\ UNCHANGED <<notifications, notification_count, event, notification_mutex, pc,
                   current_index, result, sent, called, forked, signalVars>>

(* fork, in a callback, seen from the child: the other threads are gone,   *)
(* with what they hold; init_notification makes a new descriptor and       *)
(* leaves the buffer and the mutex.  The threads that the child starts     *)
(* later have the names of the old ones.                                   *)
fork ==
    /\ "fork" \in program
    /\ ~forked
    /\ MainFree
    /\ main = "call" \/ (main = "poll" /\ master = Nobody)
    /\ forked' = TRUE
    /\ event' = 0
    /\ pc' = [s \in Senders |-> "idle"]
    /\ signum_id' = [h \in Handlers |-> Nobody]
    /\ UNCHANGED <<notifications, notification_count, notification_mutex, master, main,
                   current_index, result, sent, called, signal_notifications>>

(* set_signal and remove_signal, in a callback of the main thread.         *)
set_signal ==
    /\ "signal" \in program
    /\ MainFree
    /\ main \in {"poll", "call"}
    /\ \E id \in Ids \cup {Nobody} : signal_notifications' = id   \* Nobody: sigaction fails
    /\ UNCHANGED <<mailVars, signum_id>>

remove_signal ==
    /\ MainFree
    /\ main \in {"poll", "call"}
    /\ signal_notifications # Nobody
    /\ signal_notifications' = Nobody
    /\ UNCHANGED <<mailVars, signum_id>>

MainStep ==
    \/ poll \/ recv_begin \/ recv_alloc \/ resume_master \/ recv_end
    \/ call_notification \/ handled

Next ==
    /\ \/ \E s \in Senders : send_begin(s) \/ handle_signal(s) \/ send_lock(s) \/ send_end(s)
       \/ set_signal \/ remove_signal
       \/ MainStep
       \/ yield_master
       \/ fork
    /\ UNCHANGED program

(* Threads that can run do.                                                *)
Spec ==
    /\ Init
    /\ [][Next]_vars
    /\ \A s \in Senders : WF_mailVars(send_lock(s) \/ send_end(s))
    /\ WF_mailVars(MainStep)
-----------------------------------------------------------------------------
Mailbox == INSTANCE LwtMailbox
    WITH reliable <- program \cap {"raise", "fork"} = {}, pending <- result \o notifications

(* Every notification that was sent is handled, once, in order, whichever  *)
(* threads send meanwhile: nothing is lost while the main thread reads the *)
(* buffer, and the main thread is always woken (send_notification,         *)
(* recv_notifications, handle_notifications).  Exceptions of notifiers and *)
(* forks may make it skip some, but never change the order.                *)
RefinesMailbox == Mailbox!Spec

(* lwt_unix_stubs.c:566: "There is already a pending notification in the   *)
(* buffer, no need to signal the main thread".  While something is pending *)
(* the descriptor is readable, or the main thread is about to look at the  *)
(* buffer; in the child of a fork the descriptor is new and the buffer is  *)
(* not, so there this fails.  And the read of the descriptor never blocks  *)
(* and leaves nothing in it, so that an eventfd and a pipe behave alike:   *)
(* at most one wakeup is there, and it is there when the main thread comes *)
(* to read it, in the child too.  The buffer is never overrun.             *)
SignaledIffPending ==
    /\ notifications # <<>> /\ ~forked =>
           event > 0 \/ main \in {"receive", "alloc", "yielded", "allocated"}
    /\ Len(notifications) <= notification_count
    /\ event <= 1
    /\ main = "handle" => event = 1

(* The thread a waits for a lock that b holds.                             *)
WaitsFor(a, b) ==
    \/ /\ \E s \in Senders : pc[s] = "send" /\ Thread(s) = a
       /\ notification_mutex # Nobody
       /\ b = Thread(notification_mutex)
    \/ a = Main /\ main = "yielded" /\ b = master

(* The threads never wait for one another in a circle: a thread that holds *)
(* the master lock never waits for a mutex whose holder needs that lock,   *)
(* and a signal handler never waits for the mutex that the thread it       *)
(* interrupted holds (send_notification and recv_notifications block       *)
(* signals and release the mutex around the allocation).  In the child of  *)
(* a fork the mutex may be held by a thread that is gone.                  *)
NoLockCycle == ~forked => \A a, b \in Threads : ~ (WaitsFor(a, b) /\ WaitsFor(b, a))
=============================================================================
