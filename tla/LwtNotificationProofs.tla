----------------------- MODULE LwtNotificationProofs -----------------------
(***************************************************************************)
(* The notifications of lwt_unix_stubs.c for any threads, identifiers,     *)
(* size of the buffer and number of sends: the descriptor agrees with the  *)
(* buffer, locks are taken without a circle, and what is sent is handled   *)
(* in order.  And the timeouts of lwt_timeout.ml for any timeouts and      *)
(* delays: each one expires after its own delay.                           *)
(***************************************************************************)
EXTENDS LwtNotification, LwtTimeout, SequenceTheorems, TLAPS

(* The main thread receives, with all signals blocked.                     *)
Receiving == main \in {"receive", "alloc", "yielded", "allocated"}

(* The holder of the mutex is in its critical section; in the child of a   *)
(* fork it may be a thread that is gone.                                   *)
MutexOK ==
    /\ \A s \in Senders : pc[s] = "locked" => notification_mutex = s
    /\ main = "receive" => notification_mutex = Main
    /\ ~forked /\ notification_mutex # Nobody =>
           \/ pc[notification_mutex] = "locked"
           \/ notification_mutex = Main /\ main = "receive"

(* A thread and its signal handler are never both in send_notification,    *)
(* and the main thread does not send, nor is it interrupted, while it      *)
(* receives.                                                               *)
SendersOK ==
    /\ \A t \in {Main} \cup OcamlThreads : pc[t] = "idle" \/ pc[handler(t)] = "idle"
    /\ main \notin {"poll", "call"} => pc[Main] = "idle"
    /\ Receiving => pc[handler(Main)] = "idle"
    /\ main = "yielded" => master # Main
    /\ \A h \in Handlers : pc[h] # "idle" => signum_id[h] \in Ids

(* The descriptor is written once per filling of the buffer.               *)
EventOK ==
    /\ event \in {0, 1}
    /\ event = 1 => notifications # <<>>
    /\ main = "handle" => event = 1
    /\ Receiving => event = 0 /\ notifications # <<>>
    /\ notifications # <<>> /\ ~forked /\ ~Receiving => event = 1
    /\ notification_count > 0
    /\ Len(notifications) <= notification_count

(* What has been received is called before the main thread looks for more. *)
ResultOK == main # "call" => result = <<>>

IInv == TypeOK /\ MutexOK /\ SendersOK /\ EventOK /\ ResultOK
-----------------------------------------------------------------------------
(* Threads and their handlers.                                             *)
LEMMA SenderFacts ==
    /\ Main \in Threads /\ Threads \subseteq Senders /\ Handlers \subseteq Senders
    /\ OcamlThreads \subseteq Threads /\ Nobody \notin Senders
    /\ \A s \in Senders : s \in Threads \/ s \in Handlers
    /\ \A t \in {Main} \cup OcamlThreads :
           handler(t) \in Handlers /\ handler(t) \notin Threads /\ Thread(handler(t)) = t
    /\ \A t, u \in Threads : handler(t) = handler(u) => t = u
    /\ \A h \in Handlers : \E t \in {Main} \cup OcamlThreads : h = handler(t)
    /\ \A t \in Threads : Thread(t) = t /\ t \notin Handlers
    /\ \A t \in Threads : t \notin CThreads => t \in {Main} \cup OcamlThreads
    /\ Main \notin CThreads /\ Main \notin OcamlThreads
    /\ \A t \in OcamlThreads : t \notin CThreads
  BY SendersAssumption DEF Threads, Handlers, Senders, handler, Thread

LEMMA InitIInv == Init => IInv
<1> SUFFICES ASSUME Init PROVE IInv
  OBVIOUS
<1>1. TypeOK
  <2>1. /\ notification_count \in Nat /\ sent \in 0..MaxSends
        /\ event \in Nat /\ current_index \in Nat
    BY NotificationAssumption DEF Init
  <2>2. notifications \in Seq(Ids) /\ result \in Seq(Ids) /\ called \in Seq(Ids)
    BY DEF Init
  <2>3. /\ pc \in [Senders -> {"idle", "send", "locked"}]
        /\ signum_id \in [Handlers -> Ids \cup {Nobody}]
    BY DEF Init
  <2> QED
    BY <2>1, <2>2, <2>3 DEF Init, TypeOK
<1>2. MutexOK /\ SendersOK
  BY SenderFacts DEF Init, MutexOK, SendersOK, Receiving
<1>3. EventOK /\ ResultOK
  BY NotificationAssumption DEF Init, EventOK, ResultOK, Receiving
<1> QED
  BY <1>1, <1>2, <1>3 DEF IInv

LEMMA StutterStep == IInv /\ UNCHANGED <<mailVars, signalVars>> => IInv'
  BY DEF IInv, TypeOK, MutexOK, SendersOK, EventOK, ResultOK, Receiving, mailVars, signalVars

LEMMA SendBeginStep ==
    ASSUME IInv, NEW s \in Senders, send_begin(s)
    PROVE  IInv'
<1> USE DEF IInv
<1>1. TypeOK'
  BY SenderFacts DEF send_begin, TypeOK, signalVars
<1>2. MutexOK'
  BY SenderFacts DEF send_begin, TypeOK, MutexOK
<1>3. SendersOK'
  BY SenderFacts DEF send_begin, TypeOK, SendersOK, Receiving, Uninterrupted, signalVars
<1>4. EventOK' /\ ResultOK'
  BY DEF send_begin, EventOK, ResultOK, Receiving
<1> QED
  BY <1>1, <1>2, <1>3, <1>4

LEMMA HandleSignalStep ==
    ASSUME IInv, NEW s \in Senders, handle_signal(s)
    PROVE  IInv'
<1> USE DEF IInv
<1>1. TypeOK'
  BY SenderFacts DEF handle_signal, TypeOK
<1>2. MutexOK'
  BY SenderFacts DEF handle_signal, TypeOK, MutexOK
<1>3. SendersOK'
  BY SenderFacts DEF handle_signal, TypeOK, SendersOK, Receiving, Masked
<1>4. EventOK' /\ ResultOK'
  BY DEF handle_signal, EventOK, ResultOK, Receiving
<1> QED
  BY <1>1, <1>2, <1>3, <1>4

LEMMA SendLockStep ==
    ASSUME IInv, NEW s \in Senders, send_lock(s)
    PROVE  IInv'
<1> USE DEF IInv
<1>1. TypeOK'
  BY SenderFacts DEF send_lock, TypeOK, signalVars
<1>2. MutexOK'
  BY SenderFacts DEF send_lock, TypeOK, MutexOK
<1>3. SendersOK'
  BY SenderFacts DEF send_lock, TypeOK, SendersOK, Receiving, signalVars
<1>4. EventOK' /\ ResultOK'
  BY DEF send_lock, EventOK, ResultOK, Receiving
<1> QED
  BY <1>1, <1>2, <1>3, <1>4

(* The body of send_notification: the descriptor is written when the       *)
(* buffer was empty, and the buffer is doubled when it is full.            *)
LEMMA SendBody ==
    ASSUME IInv, NEW id \in Ids, send(id)
    PROVE  /\ notifications' \in Seq(Ids) /\ notifications' # <<>>
           /\ Len(notifications') <= notification_count'
           /\ notification_count' \in Nat /\ notification_count' > 0
           /\ event' \in {0, 1}
           /\ notifications = <<>> => event' = 1
           /\ notifications # <<>> => event' = event
<1> USE DEF IInv
<1>1. /\ notifications' \in Seq(Ids) /\ Len(notifications') = Len(notifications) + 1
      /\ notifications' # <<>> /\ Len(notifications) \in Nat
  BY DEF send, TypeOK
<1>2. notifications = <<>> => event = 0
  BY DEF EventOK
<1>3. CASE notifications = <<>>
  BY <1>1, <1>2, <1>3 DEF send, notification_send, EventOK, TypeOK
<1>4. CASE notifications # <<>>
  BY <1>1, <1>4 DEF send, resize_notifications, EventOK, TypeOK
<1> QED
  BY <1>3, <1>4

LEMMA SendEndStep ==
    ASSUME IInv, NEW s \in Senders, send_end(s)
    PROVE  IInv'
<1> USE DEF IInv
<1>1. PICK id \in Ids : send(id)
  BY SenderFacts DEF send_end, SendersOK
<1>2. /\ notifications' \in Seq(Ids) /\ notifications' # <<>>
      /\ Len(notifications') <= notification_count'
      /\ notification_count' \in Nat /\ notification_count' > 0
      /\ event' \in {0, 1}
      /\ notifications = <<>> => event' = 1
      /\ notifications # <<>> => event' = event
  BY <1>1, SendBody
<1>3. TypeOK'
  <2>1. sent' \in 0..MaxSends
    BY NotificationAssumption DEF send_end, TypeOK
  <2> QED
    BY <1>2, <2>1, SenderFacts DEF send_end, TypeOK
<1>4. MutexOK'
  BY SenderFacts DEF send_end, TypeOK, MutexOK, SendersOK
<1>5. SendersOK'
  BY SenderFacts DEF send_end, TypeOK, SendersOK, Receiving
<1>6. EventOK' /\ ResultOK'
  BY <1>2 DEF send_end, EventOK, ResultOK, Receiving
<1> QED
  BY <1>3, <1>4, <1>5, <1>6

LEMMA PollStep ==
    ASSUME IInv, poll
    PROVE  IInv'
<1> USE DEF IInv
<1>1. TypeOK'
  BY SenderFacts DEF poll, TypeOK, signalVars
<1>2. MutexOK'
  BY SenderFacts DEF poll, TypeOK, MutexOK, MainFree, Uninterrupted
<1>3. SendersOK'
  BY SenderFacts DEF poll, TypeOK, SendersOK, Receiving, signalVars, MainFree, Uninterrupted
<1>4. EventOK' /\ ResultOK'
  BY DEF poll, EventOK, ResultOK, Receiving, TypeOK
<1> QED
  BY <1>1, <1>2, <1>3, <1>4

LEMMA RecvBeginStep ==
    ASSUME IInv, recv_begin
    PROVE  IInv'
<1> USE DEF IInv
<1>1. TypeOK'
  BY SenderFacts DEF recv_begin, TypeOK, signalVars, notification_recv
<1>2. MutexOK'
  BY SenderFacts DEF recv_begin, TypeOK, MutexOK, MainFree, Uninterrupted
<1>3. SendersOK'
  BY SenderFacts DEF recv_begin, TypeOK, SendersOK, Receiving, signalVars, MainFree, Uninterrupted
<1>4. EventOK' /\ ResultOK'
  BY DEF recv_begin, EventOK, ResultOK, Receiving, TypeOK, notification_recv
<1> QED
  BY <1>1, <1>2, <1>3, <1>4

LEMMA RecvAllocStep ==
    ASSUME IInv, recv_alloc
    PROVE  IInv'
<1> USE DEF IInv
<1>1. TypeOK'
  BY SenderFacts DEF recv_alloc, TypeOK, signalVars
<1>2. MutexOK'
  BY SenderFacts DEF recv_alloc, TypeOK, MutexOK, SendersOK
<1>3. SendersOK'
  BY SenderFacts DEF recv_alloc, TypeOK, SendersOK, Receiving, signalVars
<1>4. EventOK' /\ ResultOK'
  BY DEF recv_alloc, EventOK, ResultOK, Receiving, TypeOK
<1> QED
  BY <1>1, <1>2, <1>3, <1>4

LEMMA YieldMasterStep ==
    ASSUME IInv, yield_master
    PROVE  IInv'
<1> USE DEF IInv
<1>1. TypeOK'
  BY SenderFacts DEF yield_master, TypeOK, signalVars
<1>2. MutexOK'
  BY SenderFacts DEF yield_master, TypeOK, MutexOK
<1>3. SendersOK'
  BY SenderFacts DEF yield_master, TypeOK, SendersOK, Receiving, signalVars
<1>4. EventOK' /\ ResultOK'
  BY DEF yield_master, EventOK, ResultOK, Receiving, TypeOK
<1> QED
  BY <1>1, <1>2, <1>3, <1>4

LEMMA ResumeMasterStep ==
    ASSUME IInv, resume_master
    PROVE  IInv'
<1> USE DEF IInv
<1>1. TypeOK'
  BY SenderFacts DEF resume_master, TypeOK, signalVars
<1>2. MutexOK'
  BY SenderFacts DEF resume_master, TypeOK, MutexOK
<1>3. SendersOK'
  BY SenderFacts DEF resume_master, TypeOK, SendersOK, Receiving, signalVars
<1>4. EventOK' /\ ResultOK'
  BY DEF resume_master, EventOK, ResultOK, Receiving, TypeOK
<1> QED
  BY <1>1, <1>2, <1>3, <1>4

LEMMA RecvEndStep ==
    ASSUME IInv, recv_end
    PROVE  IInv'
<1> USE DEF IInv
<1>1. TypeOK'
  <2>1. <<>> \in Seq(Ids) /\ notifications \in Seq(Ids) /\ result \in Seq(Ids)
    BY DEF TypeOK
  <2>2. notifications' \in Seq(Ids) /\ result' \in Seq(Ids)
    BY <2>1 DEF recv_end
  <2> QED
    BY <2>2, SenderFacts DEF recv_end, TypeOK, signalVars
<1>2. MutexOK'
  BY SenderFacts DEF recv_end, TypeOK, MutexOK
<1>3. SendersOK'
  BY SenderFacts DEF recv_end, TypeOK, SendersOK, Receiving, signalVars
<1>4. EventOK' /\ ResultOK'
  BY DEF recv_end, EventOK, ResultOK, Receiving, TypeOK
<1> QED
  BY <1>1, <1>2, <1>3, <1>4

LEMMA CallNotificationStep ==
    ASSUME IInv, call_notification
    PROVE  IInv'
<1> USE DEF IInv
<1>1. TypeOK'
  <2>1. result \in Seq(Ids) /\ called \in Seq(Ids) /\ result # <<>>
    BY DEF call_notification, TypeOK
  <2>2. Tail(result) \in Seq(Ids) /\ <<>> \in Seq(Ids) /\ Append(called, Head(result)) \in Seq(Ids)
    BY <2>1
  <2>3. called' \in Seq(Ids) /\ result' \in Seq(Ids)
    BY <2>2 DEF call_notification
  <2> QED
    BY <2>3 DEF call_notification, TypeOK, signalVars
<1>2. MutexOK'
  BY SenderFacts DEF call_notification, TypeOK, MutexOK
<1>3. SendersOK'
  BY SenderFacts DEF call_notification, TypeOK, SendersOK, Receiving, signalVars
<1>4. EventOK' /\ ResultOK'
  BY DEF call_notification, EventOK, ResultOK, Receiving, TypeOK
<1> QED
  BY <1>1, <1>2, <1>3, <1>4

LEMMA HandledStep ==
    ASSUME IInv, handled
    PROVE  IInv'
<1> USE DEF IInv
<1>1. TypeOK'
  BY SenderFacts DEF handled, TypeOK, signalVars
<1>2. MutexOK'
  BY SenderFacts DEF handled, TypeOK, MutexOK
<1>3. SendersOK'
  BY SenderFacts DEF handled, TypeOK, SendersOK, Receiving, signalVars
<1>4. EventOK' /\ ResultOK'
  BY DEF handled, EventOK, ResultOK, Receiving, TypeOK
<1> QED
  BY <1>1, <1>2, <1>3, <1>4

LEMMA ForkStep ==
    ASSUME IInv, fork
    PROVE  IInv'
<1> USE DEF IInv
<1>1. TypeOK'
  BY SenderFacts DEF fork, TypeOK, signalVars
<1>2. MutexOK'
  BY SenderFacts DEF fork, TypeOK, MutexOK, MainFree, Uninterrupted
<1>3. SendersOK'
  BY SenderFacts DEF fork, TypeOK, SendersOK, Receiving, signalVars, MainFree, Uninterrupted
<1>4. EventOK' /\ ResultOK'
  BY DEF fork, EventOK, ResultOK, Receiving, TypeOK
<1> QED
  BY <1>1, <1>2, <1>3, <1>4

LEMMA SetSignalStep ==
    ASSUME IInv, set_signal
    PROVE  IInv'
<1> USE DEF IInv
<1>1. TypeOK'
  BY SenderFacts DEF set_signal, TypeOK, signalVars, mailVars
<1>2. MutexOK'
  BY SenderFacts DEF set_signal, TypeOK, MutexOK, mailVars
<1>3. SendersOK'
  BY SenderFacts DEF set_signal, TypeOK, SendersOK, Receiving, signalVars, mailVars
<1>4. EventOK' /\ ResultOK'
  BY DEF set_signal, EventOK, ResultOK, Receiving, TypeOK, mailVars
<1> QED
  BY <1>1, <1>2, <1>3, <1>4

LEMMA RemoveSignalStep ==
    ASSUME IInv, remove_signal
    PROVE  IInv'
<1> USE DEF IInv
<1>1. TypeOK'
  BY SenderFacts DEF remove_signal, TypeOK, signalVars, mailVars
<1>2. MutexOK'
  BY SenderFacts DEF remove_signal, TypeOK, MutexOK, mailVars
<1>3. SendersOK'
  BY SenderFacts DEF remove_signal, TypeOK, SendersOK, Receiving, signalVars, mailVars
<1>4. EventOK' /\ ResultOK'
  BY DEF remove_signal, EventOK, ResultOK, Receiving, TypeOK, mailVars
<1> QED
  BY <1>1, <1>2, <1>3, <1>4

LEMMA NextIInv == IInv /\ [Next]_vars => IInv'
<1> SUFFICES ASSUME IInv, [Next]_vars PROVE IInv'
  OBVIOUS
<1>1. CASE UNCHANGED vars
  BY <1>1, StutterStep DEF vars
<1>2. ASSUME NEW s \in Senders, send_begin(s) \/ handle_signal(s) \/ send_lock(s) \/ send_end(s)
      PROVE  IInv'
  BY <1>2, SendBeginStep, HandleSignalStep, SendLockStep, SendEndStep
<1>3. CASE set_signal \/ remove_signal
  BY <1>3, SetSignalStep, RemoveSignalStep
<1>4. CASE MainStep
  BY <1>4, PollStep, RecvBeginStep, RecvAllocStep, ResumeMasterStep, RecvEndStep,
     CallNotificationStep, HandledStep DEF MainStep
<1>5. CASE yield_master \/ fork
  BY <1>5, YieldMasterStep, ForkStep
<1> QED
  BY <1>1, <1>2, <1>3, <1>4, <1>5 DEF Next

LEMMA IInvAlways == Spec => []IInv
<1>1. Init => IInv
  BY InitIInv
<1>2. IInv /\ [Next]_vars => IInv'
  BY NextIInv
<1> QED
  BY <1>1, <1>2, PTL DEF Spec
-----------------------------------------------------------------------------
(* For any threads, any size of the buffer and any number of sends, while  *)
(* something is in the buffer the descriptor is readable or the main       *)
(* thread is about to look, the descriptor holds at most one wakeup, which *)
(* is there when the main thread reads it, and the buffer is not overrun   *)
(* (send_notification, recv_notifications).                                *)
THEOREM DescriptorSignalsBuffer == Spec => []SignaledIffPending
<1>1. IInv => SignaledIffPending
  BY DEF IInv, EventOK, Receiving, SignaledIffPending
<1> QED
  BY <1>1, IInvAlways, PTL

LEMMA IInvNoLockCycle == IInv => NoLockCycle
<1> SUFFICES ASSUME IInv, ~forked,
                    NEW a \in Threads, NEW b \in Threads, WaitsFor(a, b), WaitsFor(b, a)
             PROVE  FALSE
  BY DEF NoLockCycle
<1> USE DEF IInv
<1> DEFINE h == notification_mutex
           Sends(t) == \E s \in Senders : pc[s] = "send" /\ Thread(s) = t
<1>1. /\ h # Nobody => h \in Senders
      /\ h # Nobody => pc[h] = "locked" \/ (h = Main /\ main = "receive")
      /\ master # Nobody => master \in Threads
  BY SenderFacts DEF TypeOK, MutexOK
(* A thread that sends does not hold the mutex, nor does its handler.      *)
<1>2. ASSUME NEW t \in Threads, Sends(t), h # Nobody PROVE Thread(h) # t
  <2>1. PICK s \in Senders : pc[s] = "send" /\ Thread(s) = t
    BY <1>2
  <2>2. SUFFICES ASSUME Thread(h) = t PROVE FALSE
    OBVIOUS
  <2>3. pc[s] # "idle" /\ s # h
    BY <1>1, <1>2, <2>1 DEF SendersOK
  <2>4. CASE pc[h] = "locked"
    BY <1>1, <1>2, <2>1, <2>2, <2>3, <2>4, SenderFacts DEF SendersOK
  <2>5. CASE h = Main /\ main = "receive"
    BY <1>1, <1>2, <2>1, <2>2, <2>3, <2>5, SenderFacts DEF SendersOK, Receiving
  <2> QED
    BY <1>1, <1>2, <2>4, <2>5
(* While the main thread is without the master lock, nobody waits for it.  *)
<1>3. ASSUME main = "yielded", h # Nobody PROVE Thread(h) # Main
  BY <1>1, <1>3, SenderFacts DEF SendersOK, Receiving
<1> QED
  BY <1>2, <1>3, SenderFacts DEF WaitsFor, SendersOK

(* For any threads, in the parent of a fork, no two threads wait for the   *)
(* locks of one another, nor one for a lock that it holds itself, directly *)
(* or under a signal handler (send_notification, recv_notifications).      *)
THEOREM NotificationsDoNotDeadlock == Spec => []NoLockCycle
<1>1. IInv => NoLockCycle
  BY IInvNoLockCycle
<1> QED
  BY <1>1, IInvAlways, PTL
-----------------------------------------------------------------------------
(* The mailbox without its liveness: what was sent and not yet called is   *)
(* what the main thread has received, then what is in the buffer.          *)
MailboxSafety == Mailbox!Init /\ [][Mailbox!Next]_(Mailbox!vars)

LEMMA MailboxInit == Init => Mailbox!Init
  BY DEF Init, Mailbox!Init

LEMMA SendRefines ==
    ASSUME IInv, NEW s \in Senders, send_end(s), UNCHANGED program
    PROVE  Mailbox!Next
<1>1. PICK id \in Ids : send(id)
  BY SenderFacts DEF send_end, IInv, SendersOK
<1>2. notifications' = Append(notifications, id) /\ result' = result /\ called' = called
  BY <1>1 DEF send_end, send
<1>3. result \in Seq(Ids) /\ notifications \in Seq(Ids)
  BY DEF IInv, TypeOK
<1>4. result' \o notifications' = Append(result \o notifications, id)
  BY <1>2, <1>3
<1> QED
  BY <1>2, <1>4 DEF Mailbox!Next, Mailbox!Send

(* The functions of several identifiers are skipped by an exception.       *)
LEMMA CallRefines ==
    ASSUME IInv, call_notification, UNCHANGED program
    PROVE  Mailbox!Next
<1> DEFINE pending == result \o notifications
<1>1. /\ result \in Seq(Ids) /\ notifications \in Seq(Ids) /\ result # <<>>
      /\ notifications' = notifications
      /\ called' = Append(called, Head(result))
  BY DEF IInv, TypeOK, call_notification
<1>2. pending # <<>> /\ Head(pending) = Head(result) /\ Len(result) <= Len(pending)
  BY <1>1
<1>3. CASE result' = Tail(result)
  <2>1. result' \o notifications' = Tail(pending)
    BY <1>1, <1>3
  <2> QED
    BY <1>1, <1>2, <2>1 DEF Mailbox!Next, Mailbox!Call
<1>4. CASE "raise" \in program /\ result' = <<>>
  <2>1. result' \o notifications' = SubSeq(pending, Len(result) + 1, Len(pending))
    BY <1>1, <1>4
  <2>2. CASE Len(result) = 1
    <3>1. result' \o notifications' = Tail(pending)
      <4>1. pending \in Seq(Ids)
        BY <1>1
      <4>2. Tail(pending) = SubSeq(pending, 2, Len(pending))
        BY <1>2, <4>1, TailIsSubSeq
      <4> QED
        BY <2>1, <2>2, <4>2
    <3> QED
      BY <1>1, <1>2, <3>1 DEF Mailbox!Next, Mailbox!Call
  <2>3. CASE Len(result) # 1
    <3>1. Len(result) \in 2..Len(pending)
      <4>1. pending \in Seq(Ids) /\ Len(pending) \in Nat /\ Len(result) \in Nat
        BY <1>1
      <4>2. Len(result) # 0
        BY <1>1
      <4>3. \A n, m \in Nat : n # 0 /\ n # 1 /\ n <= m => n \in 2..m
        OBVIOUS
      <4> QED
        BY <1>2, <2>3, <4>1, <4>2, <4>3
    <3>2. program \cap {"raise", "fork"} # {}
      BY <1>4
    <3> QED
      BY <1>1, <1>2, <2>1, <3>1, <3>2 DEF Mailbox!Next, Mailbox!Call
  <2> QED
    BY <2>2, <2>3
<1> QED
  BY <1>3, <1>4 DEF call_notification

(* The buffer becomes the result, which was empty.                         *)
LEMMA RecvEndRefines ==
    ASSUME IInv, recv_end, UNCHANGED program
    PROVE  UNCHANGED Mailbox!vars
<1>1. result = <<>> /\ notifications \in Seq(Ids) /\ called' = called
  BY DEF IInv, TypeOK, ResultOK, recv_end
<1>2. result' \o notifications' = result \o notifications
  <2>1. <<>> \o notifications = notifications /\ notifications \o <<>> = notifications
    BY <1>1
  <2> QED
    BY <1>1, <2>1 DEF recv_end
<1> QED
  BY <1>1, <1>2 DEF Mailbox!vars

LEMMA OthersRefine ==
    ASSUME UNCHANGED <<program, notifications, result, called>>
    PROVE  UNCHANGED Mailbox!vars
  BY DEF Mailbox!vars

(* Each step is a step of the mailbox, or leaves it unchanged: for any     *)
(* threads, identifiers and sizes, what is sent is handled in the order of *)
(* the sends, nothing twice, and nothing is skipped unless notifiers raise *)
(* (send_notification, recv_notifications, handle_notifications).          *)
THEOREM NotificationsAreAMailbox == Spec => MailboxSafety
<1>1. Init => Mailbox!Init
  BY MailboxInit
<1>2. IInv /\ [Next]_vars => [Mailbox!Next]_(Mailbox!vars)
  <2> SUFFICES ASSUME IInv, [Next]_vars PROVE Mailbox!Next \/ UNCHANGED Mailbox!vars
    OBVIOUS
  <2>1. CASE UNCHANGED vars
    BY <2>1, OthersRefine DEF vars, mailVars
  <2>2. CASE Next
    <3>1. UNCHANGED program
      BY <2>2 DEF Next
    <3>2. ASSUME NEW s \in Senders, send_begin(s) \/ handle_signal(s) \/ send_lock(s)
          PROVE  UNCHANGED <<notifications, result, called>>
      BY <3>2 DEF send_begin, handle_signal, send_lock
    <3>3. ASSUME set_signal \/ remove_signal \/ yield_master \/ fork
          PROVE  UNCHANGED <<notifications, result, called>>
      BY <3>3 DEF set_signal, remove_signal, yield_master, fork, mailVars
    <3>4. ASSUME poll \/ recv_begin \/ recv_alloc \/ resume_master \/ handled
          PROVE  UNCHANGED <<notifications, result, called>>
      BY <3>4 DEF poll, recv_begin, recv_alloc, resume_master, handled
    <3> QED
      BY <2>2, <3>1, <3>2, <3>3, <3>4, SendRefines, CallRefines, RecvEndRefines, OthersRefine
         DEF Next, MainStep
  <2> QED
    BY <2>1, <2>2
<1> QED
  BY <1>1, <1>2, IInvAlways, PTL DEF Spec, MailboxSafety
-----------------------------------------------------------------------------
(* Lwt_timeout.                                                            *)

(* Each timeout is at most once in the wheel, which has a current bucket   *)
(* unless it is empty.                                                     *)
WheelOK(w) ==
    /\ w = [buckets |-> w.buckets, curr |-> w.curr]
    /\ w.buckets \in Seq(Seq(Timeouts))
    /\ w.curr \in Nat
    /\ w.curr < Len(w.buckets) \/ (w.curr = 0 /\ Len(w.buckets) = 0)
    /\ \A i \in DOMAIN w.buckets : \A j, k \in DOMAIN w.buckets[i] :
           w.buckets[i][j] = w.buckets[i][k] => j = k
    /\ \A x \in Timeouts : \A i, j \in DOMAIN w.buckets :
           InBucket(w, i, x) /\ InBucket(w, j, x) => i = j

(* The wheel has room for every delay.                                     *)
RoomOK ==
    /\ delay \in [Timeouts -> Durations \cup {0}]
    /\ \A x \in Timeouts : delay[x] # 0 => delay[x] < Len(wheel.buckets)
    /\ loop_at # "none" => Len(wheel.buckets) > 0

AlarmInv == WheelOK(wheel) /\ RoomOK

(* Distance, in any wheel.                                                 *)
DistanceIn(w, x) ==
    LET n == Len(w.buckets)
        places == {i \in 0..(n - 1) : InBucket(w, i + 1, x)}
    IN  IF places = {} THEN Off ELSE ((CHOOSE i \in places : TRUE) - w.curr) % n

LEMMA ModOnce ==
    ASSUME NEW n \in Nat \ {0}, NEW a \in Int
    PROVE  /\ 0 <= a /\ a < n => a % n = a
           /\ n <= a /\ a < 2 * n => a % n = a - n
           /\ -n <= a /\ a < 0 => a % n = a + n
<1>1. 0 <= a /\ a < n => a % n = a
  OBVIOUS
<1>2. n <= a /\ a < 2 * n => a % n = a - n
  OBVIOUS
<1>3. -n <= a /\ a < 0 => a % n = a + n
  OBVIOUS
<1> QED
  BY <1>1, <1>2, <1>3

LEMMA DistanceIs ==
    ASSUME NEW w, WheelOK(w), NEW x \in Timeouts, NEW i \in DOMAIN w.buckets, InBucket(w, i, x)
    PROVE  DistanceIn(w, x) = IF i > w.curr THEN i - 1 - w.curr
                              ELSE i - 1 - w.curr + Len(w.buckets)
<1> DEFINE n == Len(w.buckets)
           places == {k \in 0..(n - 1) : InBucket(w, k + 1, x)}
<1>1. n \in Nat /\ i \in 1..n /\ w.curr \in Nat /\ w.curr < n
  BY DEF WheelOK
<1>2. i - 1 \in places
  BY <1>1
<1>3. ASSUME NEW k \in places PROVE k = i - 1
  <2>1. k + 1 \in DOMAIN w.buckets /\ InBucket(w, k + 1, x) /\ k \in Int
    BY <1>1 DEF WheelOK
  <2>2. k + 1 = i
    BY <2>1 DEF WheelOK
  <2> QED
    BY <2>1, <2>2, <1>1
<1>4. (CHOOSE k \in places : TRUE) = i - 1
  BY <1>2, <1>3
<1>5. DistanceIn(w, x) = (i - 1 - w.curr) % n
  BY <1>2, <1>4 DEF DistanceIn
<1> HIDE DEF n
<1>6. PICK a \in Int : a = i - 1 - w.curr
  BY <1>1
<1>9. /\ 0 <= a /\ a < n => a % n = a
      /\ -n <= a /\ a < 0 => a % n = a + n
  BY <1>1, <1>6, ModOnce
<1>7. CASE i > w.curr
  <2>1. 0 <= a /\ a < n
    BY <1>1, <1>6, <1>7
  <2> QED
    BY <1>5, <1>6, <1>7, <1>9, <2>1
<1>8. CASE ~(i > w.curr)
  <2>1. -n <= a /\ a < 0
    BY <1>1, <1>6, <1>8
  <2> QED
    BY <1>5, <1>6, <1>8, <1>9, <2>1 DEF n
<1> QED
  BY <1>7, <1>8

LEMMA DistanceOff ==
    ASSUME NEW w, WheelOK(w), NEW x, \A i \in DOMAIN w.buckets : ~InBucket(w, i, x)
    PROVE  DistanceIn(w, x) = Off
  BY DEF DistanceIn, WheelOK

(* The place of x, if it has one, from the current bucket.                 *)
LEMMA DistanceNat ==
    ASSUME NEW w, WheelOK(w), NEW x \in Timeouts
    PROVE  /\ DistanceIn(w, x) # Off <=> \E i \in DOMAIN w.buckets : InBucket(w, i, x)
           /\ DistanceIn(w, x) # Off => DistanceIn(w, x) \in 0..(Len(w.buckets) - 1)
<1>1. CASE \E i \in DOMAIN w.buckets : InBucket(w, i, x)
  <2>1. PICK i \in DOMAIN w.buckets : InBucket(w, i, x)
    BY <1>1
  <2>2. w.curr \in Nat /\ w.curr < Len(w.buckets) /\ Len(w.buckets) \in Nat /\ i \in 1..Len(w.buckets)
    BY DEF WheelOK
  <2>3. DistanceIn(w, x) \in 0..(Len(w.buckets) - 1)
    BY <2>1, <2>2, DistanceIs
  <2> QED
    BY <1>1, <2>3, TimeoutAssumption
<1>2. CASE ~\E i \in DOMAIN w.buckets : InBucket(w, i, x)
  BY <1>2, DistanceOff
<1> QED
  BY <1>1, <1>2

(* The list u is s without x.                                              *)
Without(u, s, x) ==
    /\ u \in Seq(Timeouts)
    /\ \A i, k \in DOMAIN u : u[i] = u[k] => i = k
    /\ \A y : (\E i \in DOMAIN u : u[i] = y) <=> y # x /\ \E i \in DOMAIN s : s[i] = y

LEMMA UnlinkedFacts ==
    ASSUME NEW s \in Seq(Timeouts), NEW x, NEW j \in DOMAIN s, s[j] = x,
           \A i, k \in DOMAIN s : s[i] = s[k] => i = k
    PROVE  Without(Unlinked(s, x), s, x)
<1>1. (CHOOSE k \in DOMAIN s : s[k] = x) = j
  OBVIOUS
<1> DEFINE u == Unlinked(s, x)
<1>2. u = SubSeq(s, 1, j - 1) \o SubSeq(s, j + 1, Len(s))
  BY <1>1 DEF Unlinked
<1>3. j \in 1..Len(s) /\ Len(s) \in Nat
  OBVIOUS
<1>4. PICK s1 : s1 = SubSeq(s, 1, j - 1)
  OBVIOUS
<1>11. PICK s2 : s2 = SubSeq(s, j + 1, Len(s))
  OBVIOUS
<1>13. /\ s1 \in Seq(Timeouts) /\ Len(s1) = j - 1
       /\ \A i \in 1..(j - 1) : s1[i] = s[i]
  <2>1. /\ s1 \in Seq(Timeouts) /\ Len(s1) = IF 1 <= j - 1 THEN (j - 1) - 1 + 1 ELSE 0
        /\ \A i \in 1..((j - 1) - 1 + 1) : s1[i] = s[1 + i - 1]
    BY <1>3, <1>4, SubSeqProperties
  <2> QED
    BY <2>1, <1>3
<1>14. /\ s2 \in Seq(Timeouts) /\ Len(s2) = Len(s) - j
       /\ \A i \in 1..(Len(s) - j) : s2[i] = s[i + j]
  <2>1. /\ s2 \in Seq(Timeouts) /\ Len(s2) = IF j + 1 <= Len(s) THEN Len(s) - (j + 1) + 1 ELSE 0
        /\ \A i \in 1..(Len(s) - (j + 1) + 1) : s2[i] = s[(j + 1) + i - 1]
    BY <1>3, <1>11, SubSeqProperties
  <2> QED
    BY <2>1, <1>3
<1>12. u = s1 \o s2
  BY <1>2, <1>4, <1>11
<1> HIDE DEF u
<1>15. /\ u \in Seq(Timeouts) /\ Len(u) = Len(s1) + Len(s2)
       /\ \A i \in 1..Len(u) : u[i] = IF i <= Len(s1) THEN s1[i] ELSE s2[i - Len(s1)]
  <2>1. /\ s1 \o s2 \in Seq(Timeouts) /\ Len(s1 \o s2) = Len(s1) + Len(s2)
        /\ \A i \in 1..(Len(s1) + Len(s2)) :
               (s1 \o s2)[i] = IF i <= Len(s1) THEN s1[i] ELSE s2[i - Len(s1)]
    BY <1>13, <1>14, ConcatProperties
  <2> QED
    BY <2>1, <1>12
<1>5. u \in Seq(Timeouts) /\ Len(u) = Len(s) - 1
  BY <1>3, <1>13, <1>14, <1>15
<1>6. ASSUME NEW i \in DOMAIN u PROVE u[i] = s[IF i < j THEN i ELSE i + 1]
  <2>1. i \in 1..(Len(s) - 1)
    BY <1>5
  <2>2. u[i] = IF i <= j - 1 THEN s1[i] ELSE s2[i - (j - 1)]
    BY <2>1, <1>5, <1>13, <1>15
  <2>3. CASE i < j
    BY <2>1, <2>2, <2>3, <1>3, <1>13
  <2>4. CASE ~(i < j)
    <3>1. u[i] = s2[i - (j - 1)] /\ i - (j - 1) \in 1..(Len(s) - j)
      BY <2>1, <2>2, <2>4, <1>3
    <3>2. s2[i - (j - 1)] = s[(i - (j - 1)) + j] /\ (i - (j - 1)) + j = i + 1
      BY <3>1, <1>3, <1>14, <2>1
    <3> QED
      BY <3>1, <3>2, <2>4
  <2> QED
    BY <2>3, <2>4
<1>7. DOMAIN u = 1..(Len(s) - 1) /\ DOMAIN s = 1..Len(s)
  BY <1>5
<1>8. ASSUME NEW i \in DOMAIN u, NEW k \in DOMAIN u, u[i] = u[k] PROVE i = k
  <2>1. PICK i1 \in DOMAIN s : i1 = IF i < j THEN i ELSE i + 1
    BY <1>3, <1>7
  <2>2. PICK k1 \in DOMAIN s : k1 = IF k < j THEN k ELSE k + 1
    BY <1>3, <1>7
  <2>3. i1 = k1
    BY <1>6, <1>8, <2>1, <2>2
  <2> QED
    BY <1>3, <1>7, <2>1, <2>2, <2>3
<1>9. ASSUME NEW y, NEW i \in DOMAIN u, u[i] = y PROVE y # x /\ \E k \in DOMAIN s : s[k] = y
  <2>1. PICK i1 \in DOMAIN s : i1 = (IF i < j THEN i ELSE i + 1) /\ i1 # j
    BY <1>3, <1>7
  <2> QED
    BY <1>6, <1>9, <2>1
<1>10. ASSUME NEW y, y # x, NEW k \in DOMAIN s, s[k] = y PROVE \E i \in DOMAIN u : u[i] = y
  <2>1. k # j
    BY <1>10
  <2>2. PICK i \in DOMAIN u : (IF i < j THEN i ELSE i + 1) = k
    <3>1. CASE k < j
      BY <3>1, <1>3, <1>7
    <3>2. CASE k > j
      <4>1. k - 1 \in DOMAIN u /\ ~(k - 1 < j) /\ (k - 1) + 1 = k
        BY <3>2, <1>3, <1>7
      <4> QED
        BY <4>1
    <3> QED
      BY <2>1, <3>1, <3>2, <1>3, <1>7
  <2> QED
    BY <2>2, <1>6, <1>10
<1> QED
  BY <1>5, <1>8, <1>9, <1>10 DEF u, Without

(* What lst_remove, lst_insert and size do to the places of timeouts.      *)
LEMMA RemoveFacts ==
    ASSUME NEW w, WheelOK(w), NEW x \in Timeouts
    PROVE  /\ WheelOK(lst_remove(w, x))
           /\ lst_remove(w, x).curr = w.curr
           /\ Len(lst_remove(w, x).buckets) = Len(w.buckets)
           /\ \A i \in DOMAIN w.buckets : \A y :
                  InBucket(lst_remove(w, x), i, y) <=> InBucket(w, i, y) /\ y # x
<1> DEFINE bs == [i \in DOMAIN w.buckets |->
                     IF InBucket(w, i, x) THEN Unlinked(w.buckets[i], x) ELSE w.buckets[i]]
           v == lst_remove(w, x)
<1>1. v = [buckets |-> bs, curr |-> w.curr]
  <2>1. PICK b, c : w = [buckets |-> b, curr |-> c]
    BY DEF WheelOK
  <2>2. w.buckets = b /\ w.curr = c
    BY <2>1
  <2>3. v = [w EXCEPT !.buckets = bs]
    BY <2>1, <2>2 DEF lst_remove
  <2> HIDE DEF bs, v
  <2> QED
    BY <2>1, <2>2, <2>3
<1>2. \A i \in DOMAIN w.buckets : w.buckets[i] \in Seq(Timeouts)
  BY DEF WheelOK
<1>3. ASSUME NEW i \in DOMAIN w.buckets
      PROVE  /\ bs[i] \in Seq(Timeouts)
             /\ \A j, k \in DOMAIN bs[i] : bs[i][j] = bs[i][k] => j = k
             /\ \A y : (\E j \in DOMAIN bs[i] : bs[i][j] = y) <=> InBucket(w, i, y) /\ y # x
  <2>1. CASE InBucket(w, i, x)
    <3>1. PICK s \in Seq(Timeouts) : s = w.buckets[i]
      BY <1>2
    <3>2. bs[i] = Unlinked(s, x)
      BY <2>1, <3>1
    <3>3. PICK j \in DOMAIN s : s[j] = x
      BY <2>1, <3>1 DEF InBucket
    <3>4. \A k, l \in DOMAIN s : s[k] = s[l] => k = l
      BY <3>1 DEF WheelOK
    <3>5. \A y : InBucket(w, i, y) <=> \E k \in DOMAIN s : s[k] = y
      BY <3>1 DEF InBucket
    <3>6. Without(Unlinked(s, x), s, x)
      BY <3>3, <3>4, UnlinkedFacts
    <3> HIDE DEF bs
    <3> QED
      BY <3>2, <3>5, <3>6 DEF Without
  <2>2. CASE ~InBucket(w, i, x)
    <3>1. bs[i] = w.buckets[i]
      BY <2>2
    <3> HIDE DEF bs
    <3> QED
      BY <2>2, <3>1, <1>2 DEF InBucket, WheelOK
  <2> QED
    BY <2>1, <2>2
<1>4. Len(w.buckets) \in Nat /\ DOMAIN w.buckets = 1..Len(w.buckets) /\ DOMAIN bs = DOMAIN w.buckets
  BY DEF WheelOK
<1> HIDE DEF bs
<1>5. bs \in Seq(Seq(Timeouts)) /\ Len(bs) = Len(w.buckets)
  <2>1. bs = [i \in DOMAIN w.buckets |->
                     IF InBucket(w, i, x) THEN Unlinked(w.buckets[i], x) ELSE w.buckets[i]]
    BY DEF bs
  <2>2. bs \in [1..Len(w.buckets) -> Seq(Timeouts)]
    BY <1>3, <1>4, <2>1
  <2> QED
    BY <2>2, <1>4
<1>6. v.buckets = bs /\ v.curr = w.curr /\ v = [buckets |-> v.buckets, curr |-> v.curr]
  BY <1>1
<1> HIDE DEF v
<1>7. ASSUME NEW i \in DOMAIN w.buckets, NEW y PROVE InBucket(v, i, y) <=> InBucket(w, i, y) /\ y # x
  <2>1. InBucket(v, i, y) <=> \E j \in DOMAIN bs[i] : bs[i][j] = y
    BY <1>6 DEF InBucket
  <2> QED
    BY <1>3, <2>1
<1>8. WheelOK(v)
  <2>1. v.curr \in Nat /\ (v.curr < Len(v.buckets) \/ (v.curr = 0 /\ Len(v.buckets) = 0))
    BY <1>5, <1>6 DEF WheelOK
  <2>2. \A i \in DOMAIN v.buckets : \A j, k \in DOMAIN v.buckets[i] :
           v.buckets[i][j] = v.buckets[i][k] => j = k
    BY <1>3, <1>4, <1>6
  <2>3. \A y \in Timeouts : \A i, j \in DOMAIN v.buckets :
           InBucket(v, i, y) /\ InBucket(v, j, y) => i = j
    BY <1>4, <1>6, <1>7 DEF WheelOK
  <2> QED
    BY <1>5, <1>6, <2>1, <2>2, <2>3 DEF WheelOK
<1> QED
  BY <1>5, <1>6, <1>7, <1>8 DEF v

LEMMA InsertFacts ==
    ASSUME NEW w, WheelOK(w), NEW x \in Timeouts, NEW d \in Nat, d < Len(w.buckets),
           \A i \in DOMAIN w.buckets : ~InBucket(w, i, x)
    PROVE  /\ WheelOK(lst_insert(w, d, x))
           /\ lst_insert(w, d, x).curr = w.curr
           /\ Len(lst_insert(w, d, x).buckets) = Len(w.buckets)
           /\ DistanceIn(lst_insert(w, d, x), x) = d
           /\ \A i \in DOMAIN w.buckets : \A y \in Timeouts \ {x} :
                  InBucket(lst_insert(w, d, x), i, y) <=> InBucket(w, i, y)
<1> DEFINE n == Len(w.buckets)
           v == lst_insert(w, d, x)
<1>1. n \in Nat \ {0} /\ w.curr \in Nat /\ w.curr < n /\ DOMAIN w.buckets = 1..n
  BY DEF WheelOK
<1>2. PICK a : a = (w.curr + d) % n
  OBVIOUS
<1>3. a = IF w.curr + d < n THEN w.curr + d ELSE w.curr + d - n
  <2>1. PICK b \in Int : b = w.curr + d
    BY <1>1
  <2>2. PICK m \in Nat \ {0} : m = n
    BY <1>1
  <2>3. 0 <= b /\ b < 2 * m
    BY <1>1, <2>1, <2>2
  <2>4. /\ 0 <= b /\ b < m => b % m = b
        /\ m <= b /\ b < 2 * m => b % m = b - m
    BY ModOnce
  <2>5. a = b % m
    BY <1>2, <2>1, <2>2
  <2> HIDE DEF n
  <2>6. a = IF b < m THEN b ELSE b - m
    BY <2>3, <2>4, <2>5
  <2> QED
    BY <1>1, <2>1, <2>2, <2>6
<1>4. PICK p \in 1..n : p = 1 + a
  BY <1>1, <1>3
<1>5. \A i \in 1..n : w.buckets[i] \in Seq(Timeouts)
  BY <1>1 DEF WheelOK
<1>6. PICK l \in Seq(Timeouts) : l = <<x>> \o w.buckets[p]
  <2>1. PICK s \in Seq(Timeouts) : s = w.buckets[p]
    BY <1>5
  <2>2. <<x>> \o s \in Seq(Timeouts)
    OBVIOUS
  <2> QED
    BY <2>1, <2>2
<1>7. v = [buckets |-> [w.buckets EXCEPT ![p] = l], curr |-> w.curr]
  <2>1. PICK b, c : w = [buckets |-> b, curr |-> c]
    BY DEF WheelOK
  <2>2. w.buckets = b /\ w.curr = c
    BY <2>1
  <2>3. v = [w EXCEPT !.buckets[p] = <<x>> \o @]
    BY <1>2, <1>4 DEF lst_insert
  <2>4. v = [buckets |-> [b EXCEPT ![p] = <<x>> \o b[p]], curr |-> c]
    BY <2>1, <2>2, <2>3
  <2> QED
    BY <2>2, <2>4, <1>6
<1>8. v.buckets = [w.buckets EXCEPT ![p] = l] /\ v.curr = w.curr
      /\ v = [buckets |-> v.buckets, curr |-> v.curr]
  BY <1>7
<1> HIDE DEF v
<1>9. v.buckets \in Seq(Seq(Timeouts)) /\ Len(v.buckets) = n /\ DOMAIN v.buckets = 1..n
  BY <1>1, <1>8 DEF WheelOK
<1>10. \A i \in 1..n : v.buckets[i] = IF i = p THEN l ELSE w.buckets[i]
  BY <1>1, <1>8 DEF WheelOK
<1>11. /\ \A y : (\E j \in DOMAIN l : l[j] = y) <=> y = x \/ InBucket(w, p, y)
       /\ \A j, k \in DOMAIN l : l[j] = l[k] => j = k
  <2>1. PICK s \in Seq(Timeouts) : s = w.buckets[p] /\ l = <<x>> \o s
    BY <1>5, <1>6
  <2>2. /\ DOMAIN l = 1..(Len(s) + 1) /\ DOMAIN s = 1..Len(s) /\ Len(s) \in Nat
        /\ l[1] = x /\ \A i \in 2..(Len(s) + 1) : l[i] = s[i - 1]
    BY <2>1
  <2>3. \A i \in 1..Len(s) : l[i + 1] = s[i] /\ i + 1 \in DOMAIN l
    BY <2>2
  <2>4. \A i \in DOMAIN l : i # 1 => i - 1 \in DOMAIN s /\ l[i] = s[i - 1]
    BY <2>2
  <2>5. \A y : InBucket(w, p, y) <=> \E j \in DOMAIN s : s[j] = y
    BY <2>1 DEF InBucket
  <2>6. \A i \in DOMAIN s : s[i] # x
    BY <2>5, <1>1
  <2>7. \A i, j \in DOMAIN s : s[i] = s[j] => i = j
    BY <2>1, <1>1 DEF WheelOK
  <2>8. ASSUME NEW j \in DOMAIN l, NEW k \in DOMAIN l, l[j] = l[k] PROVE j = k
    <3>1. CASE j = 1 \/ k = 1
      BY <3>1, <2>2, <2>4, <2>6, <2>8
    <3>2. CASE j # 1 /\ k # 1
      <4>1. j - 1 = k - 1
        BY <3>2, <2>4, <2>7, <2>8
      <4> QED
        BY <4>1, <2>2
    <3> QED
      BY <3>1, <3>2
  <2>9. ASSUME NEW y, NEW j \in DOMAIN l, l[j] = y PROVE y = x \/ InBucket(w, p, y)
    BY <2>2, <2>4, <2>5, <2>9
  <2>10. ASSUME NEW y, y = x \/ InBucket(w, p, y) PROVE \E j \in DOMAIN l : l[j] = y
    <3>1. CASE y = x
      BY <2>2, <3>1
    <3>2. CASE InBucket(w, p, y)
      BY <2>2, <2>3, <2>5, <3>2
    <3> QED
      BY <2>10, <3>1, <3>2
  <2> QED
    BY <2>8, <2>9, <2>10
<1>12. \A i \in 1..n : \A y : InBucket(v, i, y) <=> InBucket(w, i, y) \/ (y = x /\ i = p)
  <2>1. ASSUME NEW i \in 1..n, NEW y, i = p PROVE InBucket(v, i, y) <=> InBucket(w, i, y) \/ y = x
    <3>1. InBucket(v, i, y) <=> \E j \in DOMAIN l : l[j] = y
      BY <2>1, <1>10 DEF InBucket
    <3> QED
      BY <2>1, <3>1, <1>11
  <2>2. ASSUME NEW i \in 1..n, NEW y, i # p PROVE InBucket(v, i, y) <=> InBucket(w, i, y)
    BY <2>2, <1>10 DEF InBucket
  <2> QED
    BY <2>1, <2>2
<1>13. WheelOK(v)
  <2>1. v.curr \in Nat /\ v.curr < Len(v.buckets)
    BY <1>1, <1>8, <1>9
  <2>2. \A i \in DOMAIN v.buckets : \A j, k \in DOMAIN v.buckets[i] :
           v.buckets[i][j] = v.buckets[i][k] => j = k
    BY <1>1, <1>9, <1>10, <1>11 DEF WheelOK
  <2>3. \A y \in Timeouts : \A i, j \in DOMAIN v.buckets :
           InBucket(v, i, y) /\ InBucket(v, j, y) => i = j
    BY <1>1, <1>9, <1>12 DEF WheelOK
  <2> QED
    BY <1>8, <1>9, <2>1, <2>2, <2>3 DEF WheelOK
<1>14. DistanceIn(v, x) = d
  <2>1. p \in DOMAIN v.buckets /\ InBucket(v, p, x)
    BY <1>9, <1>12
  <2>2. DistanceIn(v, x) = IF p > v.curr THEN p - 1 - v.curr ELSE p - 1 - v.curr + Len(v.buckets)
    BY <1>13, <2>1, DistanceIs
  <2>3. DistanceIn(v, x) = IF p > w.curr THEN p - 1 - w.curr ELSE p - 1 - w.curr + n
    BY <2>2, <1>8, <1>9
  <2> HIDE DEF n
  <2>4. CASE w.curr + d < n
    BY <2>3, <2>4, <1>1, <1>3, <1>4
  <2>5. CASE ~(w.curr + d < n)
    BY <2>3, <2>5, <1>1, <1>3, <1>4
  <2> QED
    BY <2>4, <2>5
<1> QED
  BY <1>8, <1>9, <1>12, <1>13, <1>14, <1>1 DEF v

LEMMA ConcatFacts ==
    ASSUME NEW S, NEW p \in Seq(S), NEW q \in Seq(S)
    PROVE  /\ p \o q \in Seq(S) /\ Len(p \o q) = Len(p) + Len(q)
           /\ \A i \in 1..(Len(p) + Len(q)) :
                  (p \o q)[i] = IF i <= Len(p) THEN p[i] ELSE q[i - Len(p)]
  BY ConcatProperties

(* The bucket k of a wheel that has grown.                                 *)
IsGrown(g, b, c, l) ==
    /\ g \in Seq(Seq(Timeouts)) /\ Len(g) = l + 1
    /\ \A k \in 1..(l + 1) :
           g[k] = IF k <= Len(b) - c THEN b[k + c]
                  ELSE IF k <= Len(b) THEN b[k - (Len(b) - c)] ELSE <<>>

LEMMA GrownFacts ==
    ASSUME NEW b \in Seq(Seq(Timeouts)), NEW c \in Nat, c <= Len(b), NEW l \in Nat, Len(b) <= l
    PROVE  IsGrown(Grown(SubSeq(b, c + 1, Len(b)) \o SubSeq(b, 1, c), l), b, c, l)
<1>21. PICK g : g = Grown(SubSeq(b, c + 1, Len(b)) \o SubSeq(b, 1, c), l)
  OBVIOUS
<1>1. PICK n \in Nat : n = Len(b)
  OBVIOUS
<1>2. PICK s1 : s1 = SubSeq(b, c + 1, n)
  OBVIOUS
<1>3. PICK s2 : s2 = SubSeq(b, 1, c)
  OBVIOUS
<1>4. PICK s3 : s3 = [i \in 1..(l + 1 - n) |-> <<>>]
  OBVIOUS
<1>5. \A i \in 1..n : b[i] \in Seq(Timeouts)
  BY <1>1
<1>20. c <= n /\ n <= l
  BY <1>1
<1>6. /\ s1 \in Seq(Seq(Timeouts)) /\ Len(s1) = n - c
      /\ \A i \in 1..(n - c) : s1[i] = b[i + c]
  <2>1. /\ s1 \in Seq(Seq(Timeouts)) /\ Len(s1) = IF c + 1 <= n THEN n - (c + 1) + 1 ELSE 0
        /\ \A i \in 1..(n - (c + 1) + 1) : s1[i] = b[(c + 1) + i - 1]
    BY <1>1, <1>2, <1>5, SubSeqProperties
  <2> QED
    BY <2>1, <1>1
<1>7. /\ s2 \in Seq(Seq(Timeouts)) /\ Len(s2) = c
      /\ \A i \in 1..c : s2[i] = b[i]
  <2>1. /\ s2 \in Seq(Seq(Timeouts)) /\ Len(s2) = IF 1 <= c THEN c - 1 + 1 ELSE 0
        /\ \A i \in 1..(c - 1 + 1) : s2[i] = b[1 + i - 1]
    BY <1>1, <1>3, <1>5, SubSeqProperties
  <2> QED
    BY <2>1
<1>8. /\ s3 \in Seq(Seq(Timeouts)) /\ Len(s3) = l + 1 - n
      /\ \A i \in 1..(l + 1 - n) : s3[i] = <<>>
  BY <1>1, <1>4
<1>9. PICK r : r = s1 \o s2
  OBVIOUS
<1>10. /\ r \in Seq(Seq(Timeouts)) /\ Len(r) = n
       /\ \A i \in 1..n : r[i] = IF i <= n - c THEN s1[i] ELSE s2[i - (n - c)]
  <2>1. /\ r \in Seq(Seq(Timeouts)) /\ Len(r) = Len(s1) + Len(s2)
        /\ \A i \in 1..(Len(s1) + Len(s2)) : r[i] = IF i <= Len(s1) THEN s1[i] ELSE s2[i - Len(s1)]
    BY <1>6, <1>7, <1>9, ConcatFacts
  <2> QED
    BY <2>1, <1>6, <1>7, <1>1
<1>11. g = r \o s3
  BY <1>1, <1>2, <1>3, <1>4, <1>9, <1>10, <1>21 DEF Grown
<1>12. /\ g \in Seq(Seq(Timeouts)) /\ Len(g) = l + 1
       /\ \A i \in 1..(l + 1) : g[i] = IF i <= n THEN r[i] ELSE s3[i - n]
  <2>1. /\ g \in Seq(Seq(Timeouts)) /\ Len(g) = Len(r) + Len(s3)
        /\ \A i \in 1..(Len(r) + Len(s3)) : g[i] = IF i <= Len(r) THEN r[i] ELSE s3[i - Len(r)]
    <3>1. r \in Seq(Seq(Timeouts)) /\ s3 \in Seq(Seq(Timeouts))
      BY <1>8, <1>10
    <3>2. /\ r \o s3 \in Seq(Seq(Timeouts)) /\ Len(r \o s3) = Len(r) + Len(s3)
          /\ \A i \in 1..(Len(r) + Len(s3)) :
                 (r \o s3)[i] = IF i <= Len(r) THEN r[i] ELSE s3[i - Len(r)]
      BY <3>1, ConcatFacts
    <3> QED
      BY <3>2, <1>11
  <2>2. Len(r) = n /\ Len(s3) = l + 1 - n /\ Len(r) + Len(s3) = l + 1
    BY <1>8, <1>10
  <2> QED
    BY <2>1, <2>2
<1>13. ASSUME NEW k \in 1..(l + 1)
       PROVE  g[k] = IF k <= n - c THEN b[k + c] ELSE IF k <= n THEN b[k - (n - c)] ELSE <<>>
  <2>0. g[k] = IF k <= n THEN r[k] ELSE s3[k - n]
    BY <1>12
  <2>1. CASE k <= n - c
    <3>1. k <= n /\ k \in 1..(n - c) /\ k \in 1..n
      BY <2>1, <1>20
    <3>2. r[k] = s1[k] /\ s1[k] = b[k + c]
      BY <2>1, <3>1, <1>6, <1>10
    <3> QED
      BY <2>0, <2>1, <3>1, <3>2
  <2>2. CASE ~(k <= n - c) /\ k <= n
    <3>1. k - (n - c) \in 1..c /\ k \in 1..n
      BY <2>2, <1>20
    <3>2. r[k] = s2[k - (n - c)] /\ s2[k - (n - c)] = b[k - (n - c)]
      BY <2>2, <3>1, <1>7, <1>10
    <3> QED
      BY <2>0, <2>2, <3>2
  <2>3. CASE ~(k <= n)
    <3>1. k - n \in 1..(l + 1 - n) /\ ~(k <= n - c)
      BY <2>3, <1>20
    <3>2. s3[k - n] = <<>>
      BY <3>1, <1>8
    <3> QED
      BY <2>0, <2>3, <3>1, <3>2
  <2> QED
    BY <2>1, <2>2, <2>3
<1> QED
  BY <1>1, <1>12, <1>13, <1>21 DEF IsGrown

LEMMA SizeFacts ==
    ASSUME WheelOK(wheel), NEW l \in Nat
    PROVE  /\ WheelOK(size(l))
           /\ l < Len(size(l).buckets) /\ Len(wheel.buckets) <= Len(size(l).buckets)
           /\ \A y \in Timeouts : DistanceIn(size(l), y) = DistanceIn(wheel, y)
<1>1. CASE l < Len(wheel.buckets)
  BY <1>1 DEF size, WheelOK
<1>2. CASE ~(l < Len(wheel.buckets))
  <2>1. PICK b \in Seq(Seq(Timeouts)), c \in Nat, n \in Nat :
            b = wheel.buckets /\ c = wheel.curr /\ n = Len(b) /\ c <= n
    BY DEF WheelOK
  <2>2. PICK v : v = size(l)
    OBVIOUS
  <2>3. PICK g : g = Grown(SubSeq(b, c + 1, Len(b)) \o SubSeq(b, 1, c), l)
    OBVIOUS
  <2>4. v.buckets = g /\ v.curr = 0 /\ v = [buckets |-> v.buckets, curr |-> v.curr]
    BY <1>2, <2>1, <2>2, <2>3 DEF size
  <2>5. /\ g \in Seq(Seq(Timeouts)) /\ Len(g) = l + 1 /\ n <= l
        /\ \A k \in 1..(l + 1) :
               g[k] = IF k <= n - c THEN b[k + c] ELSE IF k <= n THEN b[k - (n - c)] ELSE <<>>
    <3>1. Len(b) <= l /\ c <= Len(b)
      BY <1>2, <2>1
    <3>2. IsGrown(g, b, c, l)
      BY <3>1, <2>3, GrownFacts
    <3>3. n = Len(b)
      BY <2>1
    <3> QED
      BY <3>1, <3>2, <3>3 DEF IsGrown
  <2> DEFINE Old(k) == IF k <= n - c THEN k + c ELSE k - (n - c)
             Place(i) == IF i > c THEN i - c ELSE i + (n - c)
  <2>14. c <= n
    BY <2>1
  <2>6. \A k \in 1..n : Old(k) \in 1..n /\ Place(Old(k)) = k
    BY <2>14
  <2>7. \A i \in 1..n : Place(i) \in 1..n /\ Old(Place(i)) = i
    BY <2>14
  <2>8. ASSUME NEW k \in 1..(l + 1) PROVE g[k] = IF k <= n THEN b[Old(k)] ELSE <<>>
    <3>1. g[k] = IF k <= n - c THEN b[k + c] ELSE IF k <= n THEN b[k - (n - c)] ELSE <<>>
      BY <2>5
    <3>2. k <= n - c => k <= n
      BY <2>14
    <3> QED
      BY <3>1, <3>2
  <2> HIDE DEF Old, Place
  <2>9. ASSUME NEW k \in 1..(l + 1), NEW y
        PROVE  InBucket(v, k, y) <=> k <= n /\ InBucket(wheel, Old(k), y)
    <3>1. CASE k <= n
      BY <3>1, <2>1, <2>4, <2>8 DEF InBucket
    <3>2. CASE ~(k <= n)
      BY <3>2, <2>4, <2>8 DEF InBucket
    <3> QED
      BY <3>1, <3>2
  <2>10. DOMAIN g = 1..(l + 1) /\ DOMAIN b = 1..n
    BY <2>1, <2>5
  <2>11. WheelOK(v)
    <3>1. ASSUME NEW k \in 1..(l + 1), NEW i \in DOMAIN g[k], NEW j \in DOMAIN g[k], g[k][i] = g[k][j]
          PROVE  i = j
      <4>1. CASE k <= n
        <5>1. Old(k) \in DOMAIN wheel.buckets /\ g[k] = wheel.buckets[Old(k)]
          BY <4>1, <2>1, <2>6, <2>8, <2>10
        <5> QED
          BY <5>1, <3>1 DEF WheelOK
      <4>2. CASE ~(k <= n)
        BY <4>2, <3>1, <2>8
      <4> QED
        BY <4>1, <4>2
    <3>2. ASSUME NEW y \in Timeouts, NEW i \in 1..(l + 1), NEW j \in 1..(l + 1),
                 InBucket(v, i, y), InBucket(v, j, y)
          PROVE  i = j
      <4>1. /\ i \in 1..n /\ j \in 1..n
            /\ InBucket(wheel, Old(i), y) /\ InBucket(wheel, Old(j), y)
        BY <3>2, <2>9
      <4>2. Old(i) = Old(j)
        BY <4>1, <2>1, <2>6, <2>10 DEF WheelOK
      <4> QED
        BY <4>1, <4>2, <2>6
    <3>3. v.curr \in Nat /\ v.curr < Len(v.buckets)
      BY <2>4, <2>5
    <3> QED
      BY <2>4, <2>5, <2>10, <3>1, <3>2, <3>3 DEF WheelOK
  <2>12. ASSUME NEW y \in Timeouts PROVE DistanceIn(v, y) = DistanceIn(wheel, y)
    <3>1. CASE \E i \in DOMAIN wheel.buckets : InBucket(wheel, i, y)
      <4>1. PICK i \in 1..n : InBucket(wheel, i, y)
        BY <3>1, <2>1, <2>10
      <4>2. PICK k \in 1..n : k = Place(i) /\ Old(k) = i
        BY <2>7
      <4>7. n <= l
        BY <2>5
      <4>3. k \in 1..(l + 1) /\ InBucket(v, k, y)
        BY <4>1, <4>2, <4>7, <2>9
      <4>4. DistanceIn(v, y) = IF k > v.curr THEN k - 1 - v.curr ELSE k - 1 - v.curr + Len(v.buckets)
        BY <4>3, <2>4, <2>10, <2>11, DistanceIs
      <4>5. DistanceIn(v, y) = k - 1
        BY <4>2, <4>4, <2>4
      <4>6. DistanceIn(wheel, y) = IF i > c THEN i - 1 - c ELSE i - 1 - c + n
        BY <4>1, <2>1, <2>10, DistanceIs
      <4> QED
        BY <4>2, <4>5, <4>6, <2>1 DEF Place
    <3>2. CASE ~\E i \in DOMAIN wheel.buckets : InBucket(wheel, i, y)
      <4>1. \A k \in DOMAIN v.buckets : ~InBucket(v, k, y)
        BY <3>2, <2>1, <2>4, <2>6, <2>9, <2>10
      <4> QED
        BY <3>2, <4>1, <2>11, DistanceOff
    <3> QED
      BY <3>1, <3>2
  <2>13. l < Len(v.buckets) /\ Len(wheel.buckets) <= Len(v.buckets)
    BY <2>1, <2>4, <2>5
  <2> QED
    BY <2>2, <2>11, <2>12, <2>13
<1> QED
  BY <1>1, <1>2

-----------------------------------------------------------------------------
LEMMA AlarmInvInit == TimeoutInit => AlarmInv
<1> SUFFICES ASSUME TimeoutInit PROVE AlarmInv
  OBVIOUS
<1>1. wheel = [buckets |-> <<>>, curr |-> 0] /\ wheel.buckets = <<>> /\ wheel.curr = 0
  BY DEF TimeoutInit
<1>2. WheelOK(wheel)
  BY <1>1 DEF WheelOK
<1>3. RoomOK
  BY DEF TimeoutInit, RoomOK
<1> QED
  BY <1>2, <1>3 DEF AlarmInv

(* The wheel w has everything where it was, x apart, which is d away.      *)
Moved(w, x, d) ==
    /\ WheelOK(w) /\ Len(w.buckets) >= Len(wheel.buckets)
    /\ DistanceIn(w, x) = d
    /\ \A y \in Timeouts \ {x} : DistanceIn(w, y) = DistanceIn(wheel, y)

LEMMA RemoveMoves ==
    ASSUME WheelOK(wheel), NEW x \in Timeouts
    PROVE  Moved(lst_remove(wheel, x), x, Off)
<1>1. PICK v : v = lst_remove(wheel, x)
  OBVIOUS
<1>2. /\ WheelOK(v) /\ v.curr = wheel.curr /\ Len(v.buckets) = Len(wheel.buckets)
      /\ \A i \in DOMAIN wheel.buckets : \A y : InBucket(v, i, y) <=> InBucket(wheel, i, y) /\ y # x
  BY <1>1, RemoveFacts
<1>3. DOMAIN v.buckets = DOMAIN wheel.buckets /\ Len(wheel.buckets) \in Nat
  BY <1>2 DEF WheelOK
<1>4. DistanceIn(v, x) = Off
  BY <1>2, <1>3, DistanceOff
<1>5. ASSUME NEW y \in Timeouts \ {x} PROVE DistanceIn(v, y) = DistanceIn(wheel, y)
  <2>1. CASE \E i \in DOMAIN wheel.buckets : InBucket(wheel, i, y)
    <3>1. PICK i \in DOMAIN wheel.buckets : InBucket(wheel, i, y)
      BY <2>1
    <3>2. InBucket(v, i, y) /\ i \in DOMAIN v.buckets
      BY <3>1, <1>2, <1>3
    <3> QED
      BY <3>1, <3>2, <1>2, DistanceIs
  <2>2. CASE ~\E i \in DOMAIN wheel.buckets : InBucket(wheel, i, y)
    <3>1. \A i \in DOMAIN v.buckets : ~InBucket(v, i, y)
      BY <2>2, <1>2, <1>3
    <3> QED
      BY <2>2, <3>1, <1>2, DistanceOff
  <2> QED
    BY <2>1, <2>2
<1> QED
  BY <1>1, <1>2, <1>3, <1>4, <1>5 DEF Moved

(* start, in a wheel that has every timeout where wheel has it.            *)
LEMMA StartMoves ==
    ASSUME WheelOK(wheel), NEW u, WheelOK(u), Len(u.buckets) >= Len(wheel.buckets),
           \A y \in Timeouts : DistanceIn(u, y) = DistanceIn(wheel, y),
           NEW x \in Timeouts, NEW d \in Nat, d < Len(u.buckets)
    PROVE  Moved(lst_insert(lst_remove(u, x), d, x), x, d)
<1>1. PICK v : v = lst_remove(u, x)
  OBVIOUS
<1>2. /\ WheelOK(v) /\ v.curr = u.curr /\ Len(v.buckets) = Len(u.buckets)
      /\ \A i \in DOMAIN u.buckets : \A y : InBucket(v, i, y) <=> InBucket(u, i, y) /\ y # x
  BY <1>1, RemoveFacts
<1>3. /\ DOMAIN v.buckets = DOMAIN u.buckets /\ Len(wheel.buckets) \in Nat
      /\ \A i \in DOMAIN v.buckets : ~InBucket(v, i, x)
  BY <1>2 DEF WheelOK
<1>4. PICK w : w = lst_insert(v, d, x)
  OBVIOUS
<1>5. /\ WheelOK(w) /\ w.curr = v.curr /\ Len(w.buckets) = Len(v.buckets) /\ DistanceIn(w, x) = d
      /\ \A i \in DOMAIN v.buckets : \A y \in Timeouts \ {x} : InBucket(w, i, y) <=> InBucket(v, i, y)
  BY <1>2, <1>3, <1>4, InsertFacts
<1>6. DOMAIN w.buckets = DOMAIN u.buckets
  BY <1>2, <1>3, <1>5 DEF WheelOK
<1>7. ASSUME NEW y \in Timeouts \ {x} PROVE DistanceIn(w, y) = DistanceIn(u, y)
  <2>0. \A i \in DOMAIN u.buckets : InBucket(w, i, y) <=> InBucket(u, i, y)
    BY <1>2, <1>3, <1>5
  <2>1. CASE \E i \in DOMAIN u.buckets : InBucket(u, i, y)
    <3>1. PICK i \in DOMAIN u.buckets : InBucket(u, i, y)
      BY <2>1
    <3>2. InBucket(w, i, y) /\ i \in DOMAIN w.buckets
      BY <2>0, <3>1, <1>6
    <3>3. /\ DistanceIn(u, y) = IF i > u.curr THEN i - 1 - u.curr ELSE i - 1 - u.curr + Len(u.buckets)
          /\ DistanceIn(w, y) = IF i > w.curr THEN i - 1 - w.curr ELSE i - 1 - w.curr + Len(w.buckets)
      BY <3>1, <3>2, <1>5, DistanceIs
    <3> QED
      BY <3>3, <1>2, <1>5
  <2>2. CASE ~\E i \in DOMAIN u.buckets : InBucket(u, i, y)
    <3>1. \A i \in DOMAIN w.buckets : ~InBucket(w, i, y)
      BY <2>0, <2>2, <1>6
    <3> QED
      BY <2>2, <3>1, <1>5, DistanceOff
  <2> QED
    BY <2>1, <2>2
<1> QED
  BY <1>1, <1>2, <1>3, <1>4, <1>5, <1>7 DEF Moved

LEMMA DueIsCurrent ==
    ASSUME WheelOK(wheel), wheel.curr < Len(wheel.buckets), NEW x \in Timeouts
    PROVE  DistanceIn(wheel, x) = 0 <=> InBucket(wheel, wheel.curr + 1, x)
<1>1. PICK c \in Nat, n \in Nat : c = wheel.curr /\ n = Len(wheel.buckets) /\ c < n
  BY DEF WheelOK
<1>2. DOMAIN wheel.buckets = 1..n
  BY <1>1 DEF WheelOK
<1>3. ASSUME InBucket(wheel, c + 1, x) PROVE DistanceIn(wheel, x) = 0
  <2>1. c + 1 \in DOMAIN wheel.buckets
    BY <1>1, <1>2
  <2>2. DistanceIn(wheel, x) = IF c + 1 > c THEN c + 1 - 1 - c ELSE c + 1 - 1 - c + n
    BY <2>1, <1>1, <1>3, DistanceIs
  <2> QED
    BY <2>2
<1>4. ASSUME DistanceIn(wheel, x) = 0 PROVE InBucket(wheel, c + 1, x)
  <2>1. DistanceIn(wheel, x) # Off
    BY <1>4, TimeoutAssumption
  <2>2. PICK i \in 1..n : InBucket(wheel, i, x)
    BY <2>1, <1>2, DistanceNat
  <2>3. DistanceIn(wheel, x) = IF i > c THEN i - 1 - c ELSE i - 1 - c + n
    BY <2>2, <1>1, <1>2, DistanceIs
  <2>4. c < n
    BY <1>1
  <2>5. i = c + 1
    BY <2>3, <2>4, <1>4
  <2> QED
    BY <2>2, <2>5
<1> QED
  BY <1>1, <1>3, <1>4

(* The wheel turns when nothing is in its current bucket.                  *)
LEMMA TurnMoves ==
    ASSUME WheelOK(wheel), Len(wheel.buckets) > 0, Current = <<>>,
           NEW v, v = [wheel EXCEPT !.curr = (@ + 1) % Len(wheel.buckets)]
    PROVE  /\ WheelOK(v) /\ Len(v.buckets) = Len(wheel.buckets)
           /\ \A x \in Timeouts :
                  /\ DistanceIn(wheel, x) # 0
                  /\ DistanceIn(v, x) = IF DistanceIn(wheel, x) = Off THEN Off
                                        ELSE DistanceIn(wheel, x) - 1
<1>1. PICK b, c, n :
          /\ wheel = [buckets |-> b, curr |-> c] /\ b = wheel.buckets /\ c = wheel.curr
          /\ c \in Nat /\ n = Len(b) /\ n \in Nat \ {0} /\ c < n
  <2>1. /\ wheel.curr \in Nat /\ Len(wheel.buckets) \in Nat \ {0} /\ wheel.curr < Len(wheel.buckets)
        /\ wheel = [buckets |-> wheel.buckets, curr |-> wheel.curr]
    BY DEF WheelOK
  <2> QED
    BY <2>1
<1>2. PICK e : e = (c + 1) % n
  OBVIOUS
<1>3. v.buckets = b /\ v.curr = e /\ v = [buckets |-> v.buckets, curr |-> v.curr]
  BY <1>1, <1>2
<1>4. e = IF c + 1 < n THEN c + 1 ELSE 0
  <2>1. PICK a \in Nat : a = c + 1
    BY <1>1
  <2>2. /\ 0 <= a /\ a < n => a % n = a
        /\ n <= a /\ a < 2 * n => a % n = a - n
    <3>1. n \in Nat \ {0}
      BY <1>1
    <3> QED
      BY <3>1, ModOnce
  <2>3. c < n /\ n \in Nat \ {0} /\ c \in Nat
    BY <1>1
  <2> QED
    BY <2>1, <2>2, <2>3, <1>2
<1>5. DOMAIN b = 1..n
  BY <1>1 DEF WheelOK
<1>6. WheelOK(v)
  <2>1. e \in Nat /\ e < Len(v.buckets)
    BY <1>1, <1>3, <1>4
  <2>2. \A i, x : InBucket(v, i, x) <=> InBucket(wheel, i, x)
    BY <1>1, <1>3 DEF InBucket
  <2>3. v.buckets = wheel.buckets
    BY <1>1, <1>3
  <2>4. /\ v.buckets \in Seq(Seq(Timeouts))
        /\ \A i \in DOMAIN v.buckets : \A j, k \in DOMAIN v.buckets[i] :
               v.buckets[i][j] = v.buckets[i][k] => j = k
    BY <2>3 DEF WheelOK
  <2>5. \A x \in Timeouts : \A i, j \in DOMAIN v.buckets :
           InBucket(v, i, x) /\ InBucket(v, j, x) => i = j
    BY <2>2, <2>3 DEF WheelOK
  <2> QED
    BY <1>3, <2>1, <2>4, <2>5 DEF WheelOK
<1>7. ASSUME NEW x \in Timeouts
      PROVE  /\ DistanceIn(wheel, x) # 0
             /\ DistanceIn(v, x) = IF DistanceIn(wheel, x) = Off THEN Off ELSE DistanceIn(wheel, x) - 1
  <2>1. ~InBucket(wheel, c + 1, x)
    BY <1>1 DEF Current, InBucket
  <2>2. DistanceIn(wheel, x) # 0
    BY <2>1, <1>1, DueIsCurrent
  <2>3. CASE \E i \in DOMAIN wheel.buckets : InBucket(wheel, i, x)
    <3>1. PICK i \in 1..n : InBucket(wheel, i, x)
      BY <2>3, <1>1, <1>5
    <3>2. i # c + 1
      BY <2>1, <3>1
    <3>3. InBucket(v, i, x) /\ i \in DOMAIN v.buckets
      BY <3>1, <1>1, <1>3, <1>5 DEF InBucket
    <3>4. DistanceIn(wheel, x) = IF i > c THEN i - 1 - c ELSE i - 1 - c + n
      BY <3>1, <1>1, <1>5, DistanceIs
    <3>5. DistanceIn(v, x) = IF i > e THEN i - 1 - e ELSE i - 1 - e + n
      <4>1. DistanceIn(v, x) = IF i > v.curr THEN i - 1 - v.curr
                               ELSE i - 1 - v.curr + Len(v.buckets)
        BY <3>3, <1>6, DistanceIs
      <4> QED
        BY <4>1, <1>1, <1>3
    <3>6. DistanceIn(wheel, x) # Off
      BY <2>3, DistanceNat
    <3>7. c < n /\ n \in Nat \ {0} /\ c \in Nat
      BY <1>1
    <3>8. DistanceIn(v, x) = DistanceIn(wheel, x) - 1
      BY <3>2, <3>4, <3>5, <3>7, <1>4
    <3> QED
      BY <2>2, <3>6, <3>8
  <2>4. CASE ~\E i \in DOMAIN wheel.buckets : InBucket(wheel, i, x)
    <3>1. \A i \in DOMAIN v.buckets : ~InBucket(v, i, x)
      BY <2>4, <1>1, <1>3 DEF InBucket
    <3>2. DistanceIn(v, x) = Off /\ DistanceIn(wheel, x) = Off
      BY <2>4, <3>1, <1>6, DistanceOff
    <3> QED
      BY <2>2, <3>2
  <2> QED
    BY <2>3, <2>4
<1> QED
  BY <1>1, <1>3, <1>6, <1>7
-----------------------------------------------------------------------------
(* The steps, as what they do to the places of timeouts.                   *)
Remains(w) ==
    /\ WheelOK(w) /\ Len(w.buckets) >= Len(wheel.buckets)
    /\ \A y \in Timeouts : DistanceIn(w, y) = DistanceIn(wheel, y)

LEMMA SizeRemains ==
    ASSUME WheelOK(wheel), NEW d \in Durations
    PROVE  Remains(size(d)) /\ d < Len(size(d).buckets) /\ d \in Nat
<1>1. d \in Nat
  BY TimeoutAssumption
<1>2. PICK v : v = size(d)
  OBVIOUS
<1>3. /\ WheelOK(v) /\ d < Len(v.buckets) /\ Len(wheel.buckets) <= Len(v.buckets)
      /\ \A y \in Timeouts : DistanceIn(v, y) = DistanceIn(wheel, y)
  BY <1>1, <1>2, SizeFacts
<1>4. Len(v.buckets) \in Nat /\ Len(wheel.buckets) \in Nat
  BY <1>3 DEF WheelOK
<1> QED
  BY <1>1, <1>2, <1>3, <1>4 DEF Remains

LEMMA RoomKept ==
    ASSUME AlarmInv, WheelOK(wheel'), Len(wheel'.buckets) >= Len(wheel.buckets),
           \/ delay' = delay
           \/ \E x \in Timeouts, d \in Durations :
                  delay' = [delay EXCEPT ![x] = d] /\ d < Len(wheel'.buckets),
           loop_at # "none" \/ loop_at' = "none" \/ Len(wheel'.buckets) > 0
    PROVE  RoomOK'
<1>1. PICK m \in Nat, n \in Nat : m = Len(wheel.buckets) /\ n = Len(wheel'.buckets) /\ n >= m
  <2>1. Len(wheel.buckets) \in Nat
    BY DEF AlarmInv, WheelOK
  <2>2. Len(wheel'.buckets) \in Nat
    BY DEF WheelOK
  <2> QED
    BY <2>1, <2>2
<1>2. RoomOK
  BY DEF AlarmInv
<1>3. delay' \in [Timeouts -> Durations \cup {0}]
  BY <1>2 DEF RoomOK
<1>4. ASSUME NEW y \in Timeouts, delay'[y] # 0 PROVE delay'[y] < n
  <2>1. delay[y] # 0 => delay[y] \in Nat /\ delay[y] < m
    BY <1>1, <1>2, TimeoutAssumption DEF RoomOK
  <2>2. CASE delay' = delay
    BY <2>1, <2>2, <1>1, <1>4
  <2>3. ASSUME NEW x \in Timeouts, NEW d \in Durations,
               delay' = [delay EXCEPT ![x] = d], d < Len(wheel'.buckets)
        PROVE  delay'[y] < n
    <3>1. delay'[y] = IF y = x THEN d ELSE delay[y]
      BY <2>3, <1>2 DEF RoomOK
    <3>2. CASE y = x
      BY <3>1, <3>2, <2>3, <1>1
    <3>3. CASE y # x
      BY <3>1, <3>3, <2>1, <1>1, <1>4
    <3> QED
      BY <3>2, <3>3
  <2> QED
    BY <2>2, <2>3
<1>5. loop_at' # "none" => n > 0
  BY <1>1, <1>2 DEF RoomOK
<1> QED
  BY <1>1, <1>3, <1>4, <1>5 DEF RoomOK

LEMMA CreateStep ==
    ASSUME AlarmInv, NEW x \in Timeouts, NEW d \in Durations, create(x, d)
    PROVE  RoomOK' /\ Remains(wheel')
<1>1. Remains(wheel') /\ d < Len(wheel'.buckets) /\ d \in Nat
  BY SizeRemains DEF AlarmInv, create
<1>2. Len(wheel'.buckets) \in Nat /\ Len(wheel.buckets) \in Nat /\ Len(wheel'.buckets) >= Len(wheel.buckets)
  BY <1>1 DEF Remains, AlarmInv, WheelOK
<1>3. delay' = [delay EXCEPT ![x] = d] /\ loop_at' = loop_at
  BY DEF create
<1>4. RoomOK'
  BY <1>1, <1>2, <1>3, RoomKept DEF Remains
<1> QED
  BY <1>1, <1>4

LEMMA StartStep ==
    ASSUME AlarmInv, NEW x \in Timeouts, start(x)
    PROVE  RoomOK' /\ Moved(wheel', x, delay[x]) /\ delay[x] \in Durations
<1>1. /\ delay[x] \in Durations /\ delay[x] \in Nat /\ delay[x] < Len(wheel.buckets)
      /\ delay' = delay
  BY TimeoutAssumption DEF AlarmInv, RoomOK, start
<1>2. wheel' = lst_insert(lst_remove(wheel, x), delay[x], x)
  BY <1>1 DEF start, StartIn
<1>3. WheelOK(wheel) /\ Len(wheel.buckets) \in Nat
  BY DEF AlarmInv, WheelOK
<1>4. PICK d \in Nat : d = delay[x]
  BY <1>1
<1>5. Moved(wheel', x, d)
  BY <1>1, <1>2, <1>3, <1>4, StartMoves
<1>6. Len(wheel'.buckets) \in Nat /\ Len(wheel'.buckets) >= Len(wheel.buckets)
  BY <1>5 DEF Moved, WheelOK
<1>7. RoomOK'
  <2>1. Len(wheel'.buckets) > 0
    BY <1>1, <1>3, <1>6
  <2> QED
    BY <2>1, <1>1, <1>5, <1>6, RoomKept DEF Moved
<1> QED
  BY <1>1, <1>4, <1>5, <1>7

LEMMA StopStep ==
    ASSUME AlarmInv, NEW x \in Timeouts, stop(x)
    PROVE  RoomOK' /\ Moved(wheel', x, Off)
<1>1. wheel' = lst_remove(wheel, x) /\ delay' = delay /\ loop_at' = loop_at
  BY DEF stop
<1>2. Moved(wheel', x, Off)
  BY <1>1, RemoveMoves DEF AlarmInv
<1>3. /\ Len(wheel'.buckets) \in Nat /\ Len(wheel'.buckets) >= Len(wheel.buckets)
      /\ Len(wheel.buckets) \in Nat
  BY <1>2 DEF Moved, WheelOK, AlarmInv
<1>4. RoomOK'
  BY <1>1, <1>2, <1>3, RoomKept DEF Moved
<1> QED
  BY <1>2, <1>4

LEMMA ChangeStep ==
    ASSUME AlarmInv, NEW x \in Timeouts, NEW d \in Durations, change(x, d)
    PROVE  RoomOK' /\ (Moved(wheel', x, d) \/ Remains(wheel'))
<1>1. PICK u : u = size(d)
  OBVIOUS
<1>2. Remains(u) /\ d < Len(u.buckets) /\ d \in Nat
  BY <1>1, SizeRemains DEF AlarmInv
<1>3. WheelOK(wheel) /\ Len(wheel.buckets) \in Nat /\ Len(u.buckets) \in Nat
  BY <1>2 DEF AlarmInv, WheelOK, Remains
<1>4. delay' = [delay EXCEPT ![x] = d] /\ delay'[x] = d
  BY DEF change, AlarmInv, RoomOK
<1>5. Len(wheel'.buckets) >= Len(u.buckets) /\ Len(wheel'.buckets) \in Nat
      /\ (Moved(wheel', x, d) \/ Remains(wheel'))
  <2>1. CASE wheel' = u
    BY <2>1, <1>2, <1>3
  <2>2. CASE wheel' = lst_insert(lst_remove(u, x), d, x)
    <3>1. Moved(wheel', x, d)
      BY <2>2, <1>2, <1>3, StartMoves DEF Remains
    <3>2. PICK v : v = lst_remove(u, x)
      OBVIOUS
    <3>3. /\ WheelOK(v) /\ Len(v.buckets) = Len(u.buckets)
          /\ \A i \in DOMAIN u.buckets : ~InBucket(v, i, x)
      BY <1>2, <3>2, RemoveFacts DEF Remains
    <3>4. DOMAIN v.buckets = DOMAIN u.buckets
      BY <1>2, <3>3 DEF WheelOK, Remains
    <3>5. Len(wheel'.buckets) = Len(v.buckets)
      BY <2>2, <3>2, <3>3, <3>4, <1>2, InsertFacts
    <3> QED
      BY <3>1, <3>3, <3>5, <1>3
  <2> QED
    BY <2>1, <2>2, <1>1, <1>4 DEF change, StartIn
<1>6. Len(wheel'.buckets) > 0
  BY <1>2, <1>3, <1>5
<1>7. Len(wheel'.buckets) >= Len(wheel.buckets) /\ d < Len(wheel'.buckets) /\ WheelOK(wheel')
  <2>1. Len(u.buckets) >= Len(wheel.buckets)
    BY <1>2 DEF Remains
  <2> QED
    BY <2>1, <1>2, <1>3, <1>5 DEF Moved, Remains
<1>8. RoomOK'
  BY <1>4, <1>6, <1>7, RoomKept
<1> QED
  BY <1>5, <1>8

LEMMA ActionStep ==
    ASSUME AlarmInv, loop_action
    PROVE  \E x \in Timeouts :
               RoomOK' /\ Moved(wheel', x, Off) /\ DistanceIn(wheel, x) = 0
<1>1. WheelOK(wheel) /\ Len(wheel.buckets) > 0 /\ wheel.curr \in Nat /\ wheel.curr < Len(wheel.buckets)
  BY DEF AlarmInv, RoomOK, WheelOK, loop_action
<1>2. PICK c \in DOMAIN wheel.buckets : c = wheel.curr + 1
  BY <1>1 DEF WheelOK
<1>3. PICK s \in Seq(Timeouts) : s = wheel.buckets[c]
  BY <1>1, <1>2 DEF WheelOK
<1>4. s = Current /\ s # <<>>
  BY <1>2, <1>3 DEF Current, loop_action
<1>5. PICK x \in Timeouts : x = Head(s) /\ x = s[1] /\ 1 \in DOMAIN s
  BY <1>4
<1>6. InBucket(wheel, wheel.curr + 1, x)
  BY <1>2, <1>3, <1>5 DEF InBucket
<1>7. DistanceIn(wheel, x) = 0
  BY <1>1, <1>6, DueIsCurrent
<1>8. wheel' = lst_remove(wheel, x) /\ delay' = delay /\ loop_at # "none"
  BY <1>4, <1>5 DEF loop_action
<1>9. Moved(wheel', x, Off)
  BY <1>1, <1>8, RemoveMoves
<1>10. RoomOK'
  BY <1>8, <1>9, RoomKept DEF Moved
<1> QED
  BY <1>7, <1>9, <1>10

LEMMA TurnStep ==
    ASSUME AlarmInv, loop_turns
    PROVE  /\ RoomOK' /\ WheelOK(wheel')
           /\ \A x \in Timeouts :
                  /\ DistanceIn(wheel, x) # 0
                  /\ DistanceIn(wheel', x) = IF DistanceIn(wheel, x) = Off THEN Off
                                             ELSE DistanceIn(wheel, x) - 1
<1>1. WheelOK(wheel) /\ Len(wheel.buckets) > 0 /\ Len(wheel.buckets) \in Nat /\ Current = <<>>
  BY DEF AlarmInv, RoomOK, WheelOK, loop_turns
<1>2. PICK v : v = wheel' /\ v = [wheel EXCEPT !.curr = (@ + 1) % Len(wheel.buckets)]
  BY DEF loop_turns
<1>3. /\ WheelOK(v) /\ Len(v.buckets) = Len(wheel.buckets)
      /\ \A x \in Timeouts :
             /\ DistanceIn(wheel, x) # 0
             /\ DistanceIn(v, x) = IF DistanceIn(wheel, x) = Off THEN Off
                                   ELSE DistanceIn(wheel, x) - 1
  BY <1>1, <1>2, TurnMoves
<1>4. delay' = delay /\ loop_at # "none"
  BY DEF loop_turns
<1>5. RoomOK'
  BY <1>1, <1>2, <1>3, <1>4, RoomKept
<1> QED
  BY <1>2, <1>3, <1>5

LEMMA QuietStep ==
    ASSUME AlarmInv, loop_wakes \/ action_ends \/ UNCHANGED timeoutVars
    PROVE  RoomOK' /\ Remains(wheel')
<1>1. wheel' = wheel /\ delay' = delay /\ (loop_at # "none" \/ loop_at' = "none")
  BY DEF loop_wakes, action_ends, timeoutVars
<1>2. WheelOK(wheel') /\ Len(wheel'.buckets) >= Len(wheel.buckets)
  BY <1>1 DEF AlarmInv, WheelOK
<1>3. RoomOK'
  BY <1>1, <1>2, RoomKept
<1> QED
  BY <1>1, <1>2, <1>3 DEF Remains

(* What a step may do to the places of the timeouts.                       *)
Places ==
    \/ Remains(wheel')
    \/ \E x \in Timeouts : Moved(wheel', x, Off)
    \/ \E x \in Timeouts, d \in Durations : Moved(wheel', x, d)
    \/ /\ WheelOK(wheel')
       /\ \A x \in Timeouts :
              /\ DistanceIn(wheel, x) # 0
              /\ DistanceIn(wheel', x) = IF DistanceIn(wheel, x) = Off THEN Off
                                         ELSE DistanceIn(wheel, x) - 1

LEMMA TimeoutSteps ==
    ASSUME AlarmInv, [TimeoutNext]_timeoutVars
    PROVE  RoomOK' /\ Places
<1>1. CASE loop_wakes \/ action_ends \/ UNCHANGED timeoutVars
  BY <1>1, QuietStep DEF Places
<1>2. CASE loop_action
  BY <1>2, ActionStep DEF Places
<1>3. CASE loop_turns
  BY <1>3, TurnStep DEF Places
<1>4. ASSUME NEW x \in Timeouts, start(x) PROVE RoomOK' /\ Places
  BY <1>4, StartStep DEF Places
<1>5. ASSUME NEW x \in Timeouts, stop(x) PROVE RoomOK' /\ Places
  BY <1>5, StopStep DEF Places
<1>6. ASSUME NEW x \in Timeouts, NEW d \in Durations, create(x, d) PROVE RoomOK' /\ Places
  BY <1>6, CreateStep DEF Places
<1>7. ASSUME NEW x \in Timeouts, NEW d \in Durations, change(x, d) PROVE RoomOK' /\ Places
  BY <1>7, ChangeStep DEF Places
<1> QED
  BY <1>1, <1>2, <1>3, <1>4, <1>5, <1>6, <1>7 DEF TimeoutNext, LoopStep

LEMMA AlarmInvNext == AlarmInv /\ [TimeoutNext]_timeoutVars => AlarmInv'
<1> SUFFICES ASSUME AlarmInv, [TimeoutNext]_timeoutVars PROVE AlarmInv'
  OBVIOUS
<1>1. RoomOK' /\ WheelOK(wheel')
  BY TimeoutSteps DEF Places, Remains, Moved
<1>2. WheelOK(wheel)'
  BY <1>1 DEF WheelOK, InBucket
<1> QED
  BY <1>1, <1>2 DEF AlarmInv

LEMMA AlarmInvAlways == TimeoutSpec => []AlarmInv
<1> QED
  BY AlarmInvInit, AlarmInvNext, PTL DEF TimeoutSpec
-----------------------------------------------------------------------------
(* The safety part of RefinesAlarms, and what it leaves open: the loop     *)
(* itself starts and stops nothing, it counts and calls what is due.       *)
AlarmsSafety ==
    /\ Alarms!Init
    /\ [][Alarms!Next]_[x \in Timeouts |-> Distance(x)]
    /\ [][LoopStep => Alarms!Advance \/ UNCHANGED [x \in Timeouts |-> Distance(x)]]_timeoutVars

LEMMA LeftIs ==
    /\ [x \in Timeouts |-> Distance(x)] = [x \in Timeouts |-> DistanceIn(wheel, x)]
    /\ [x \in Timeouts |-> Distance(x)]' = [x \in Timeouts |-> DistanceIn(wheel', x)]
  BY DEF Distance, DistanceIn, InBucket

LEMMA MovedIs ==
    ASSUME NEW x \in Timeouts, NEW d, Moved(wheel', x, d)
    PROVE  [y \in Timeouts |-> Distance(y)]'
               = [[y \in Timeouts |-> Distance(y)] EXCEPT ![x] = d]
<1>1. \A y \in Timeouts : DistanceIn(wheel', y) = IF y = x THEN d ELSE DistanceIn(wheel, y)
  BY DEF Moved
<1> QED
  BY <1>1, LeftIs

LEMMA RemainsIs ==
    ASSUME Remains(wheel')
    PROVE  UNCHANGED [y \in Timeouts |-> Distance(y)]
<1>1. \A y \in Timeouts : DistanceIn(wheel', y) = DistanceIn(wheel, y)
  BY DEF Remains
<1> QED
  BY <1>1, LeftIs

LEMMA TurnIs ==
    ASSUME \A x \in Timeouts :
               /\ DistanceIn(wheel, x) # 0
               /\ DistanceIn(wheel', x) = IF DistanceIn(wheel, x) = Off THEN Off
                                          ELSE DistanceIn(wheel, x) - 1
    PROVE  Alarms!Tick \/ UNCHANGED [x \in Timeouts |-> Distance(x)]
<1>1. \A x \in Timeouts : Distance(x) = DistanceIn(wheel, x)
  BY DEF Distance, DistanceIn, InBucket
<1>2. Alarms!Due = {}
  BY <1>1 DEF Alarms!Due
<1>3. Alarms!On = {x \in Timeouts : DistanceIn(wheel, x) # Off}
  BY <1>1 DEF Alarms!On
<1>4. [x \in Timeouts |-> Distance(x)]' =
          [x \in Timeouts |-> IF x \in Alarms!On THEN Distance(x) - 1 ELSE Off]
  BY <1>1, <1>3, LeftIs
<1>5. CASE Alarms!On = {}
  BY <1>1, <1>3, <1>4, <1>5
<1>6. CASE Alarms!On # {}
  BY <1>2, <1>4, <1>6 DEF Alarms!Tick
<1> QED
  BY <1>5, <1>6

LEMMA AlarmsStep ==
    AlarmInv /\ [TimeoutNext]_timeoutVars
        => [Alarms!Next]_[x \in Timeouts |-> Distance(x)]
<1> SUFFICES ASSUME AlarmInv, [TimeoutNext]_timeoutVars
             PROVE  Alarms!Next \/ UNCHANGED [x \in Timeouts |-> Distance(x)]
  OBVIOUS
<1>1. CASE Remains(wheel')
  BY <1>1, RemainsIs
<1>2. ASSUME NEW x \in Timeouts, Moved(wheel', x, Off) PROVE Alarms!Next
  BY <1>2, MovedIs DEF Alarms!Next, Alarms!Stop
<1>3. ASSUME NEW x \in Timeouts, NEW d \in Durations, Moved(wheel', x, d) PROVE Alarms!Next
  BY <1>3, MovedIs DEF Alarms!Next, Alarms!Start
<1>4. CASE \A x \in Timeouts :
               /\ DistanceIn(wheel, x) # 0
               /\ DistanceIn(wheel', x) = IF DistanceIn(wheel, x) = Off THEN Off
                                          ELSE DistanceIn(wheel, x) - 1
  BY <1>4, TurnIs DEF Alarms!Next, Alarms!Advance
<1> QED
  BY <1>1, <1>2, <1>3, <1>4, TimeoutSteps DEF Places

LEMMA LoopAdvances ==
    AlarmInv /\ [TimeoutNext]_timeoutVars
        => [LoopStep => Alarms!Advance \/ UNCHANGED [x \in Timeouts |-> Distance(x)]]_timeoutVars
<1> SUFFICES ASSUME AlarmInv, LoopStep
             PROVE  Alarms!Advance \/ UNCHANGED [x \in Timeouts |-> Distance(x)]
  OBVIOUS
<1>1. CASE loop_wakes \/ action_ends
  BY <1>1, QuietStep, RemainsIs
<1>2. CASE loop_action
  <2>1. PICK x \in Timeouts : Moved(wheel', x, Off) /\ DistanceIn(wheel, x) = 0
    BY <1>2, ActionStep
  <2>2. [y \in Timeouts |-> Distance(y)][x] = 0
    BY <2>1, LeftIs
  <2>3. Alarms!Expire(x)
    BY <2>1, <2>2, MovedIs DEF Alarms!Expire, Alarms!Due
  <2> QED
    BY <2>3 DEF Alarms!Advance
<1>3. CASE loop_turns
  BY <1>3, TurnStep, TurnIs DEF Alarms!Advance
<1> QED
  BY <1>1, <1>2, <1>3 DEF LoopStep

LEMMA AlarmsInit == TimeoutInit => Alarms!Init
<1> SUFFICES ASSUME TimeoutInit PROVE Alarms!Init
  OBVIOUS
<1>1. WheelOK(wheel) /\ wheel.buckets = <<>>
  BY AlarmInvInit DEF AlarmInv, TimeoutInit
<1>2. \A x \in Timeouts : DistanceIn(wheel, x) = Off
  BY <1>1, DistanceOff
<1> QED
  BY <1>2, LeftIs DEF Alarms!Init

(* For any timeouts and any delays, however timeouts are created, started, *)
(* stopped and changed while the wheel turns and grows, a step of          *)
(* Lwt_timeout is a step of the alarms or a stutter: all that are started  *)
(* come one tick nearer together, none before those that are due have been *)
(* called, and the loop calls only what is due (loop, start, stop, change, *)
(* size).                                                                  *)
THEOREM TimeoutsAreAlarms == TimeoutSpec => AlarmsSafety
<1> QED
  BY AlarmsInit, AlarmInvAlways, AlarmsStep, LoopAdvances, PTL DEF TimeoutSpec, AlarmsSafety
=============================================================================
