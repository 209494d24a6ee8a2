--------------------------- MODULE LwtWinCondition ---------------------------
(***************************************************************************)
(* The condition variables that lwt_unix_stubs.c builds on Windows, where  *)
(* the thread pool runs on them: a list of nodes, each on the stack of a   *)
(* thread that waits and with an event of its own.  The list is a          *)
(* sequence, last in first.                                                *)
(***************************************************************************)
EXTENDS Sequences

CONSTANTS Threads, Nobody

ASSUME WinConditionAssumption == Nobody \notin Threads

VARIABLES pc,               \* where each thread is
          mutex,            \* the mutex that is passed to wait: its holder
          condition_mutex,  \* condition->mutex, held during a broadcast
          waiters,          \* condition->waiters
          event,            \* the events that are set
          node              \* the nodes that the broadcast has still to see

conditionVars == <<pc, mutex, condition_mutex, waiters, event, node>>

ConditionTypeOK ==
    /\ pc \in [Threads -> {"idle", "locked", "created", "added", "waiting", "awake",
                           "broadcast", "next"}]
    /\ mutex \in Threads \cup {Nobody}
    /\ condition_mutex \in Threads \cup {Nobody}
    /\ waiters \in Seq(Threads)
    /\ event \subseteq Threads
    /\ node \in Seq(Threads)

(* lwt_unix_condition_init                                                 *)
ConditionInit ==
    /\ pc = [t \in Threads |-> "idle"]
    /\ mutex = Nobody
    /\ condition_mutex = Nobody
    /\ waiters = <<>>
    /\ event = {}
    /\ node = <<>>

Moves(t, here, there) == pc[t] = here /\ pc' = [pc EXCEPT ![t] = there]

mutex_lock(t) ==
    /\ Moves(t, "idle", "locked")
    /\ mutex = Nobody
    /\ mutex' = t
    /\ UNCHANGED <<condition_mutex, waiters, event, node>>

mutex_unlock(t) ==
    /\ Moves(t, "locked", "idle")
    /\ mutex' = Nobody
    /\ UNCHANGED <<condition_mutex, waiters, event, node>>
-----------------------------------------------------------------------------
(* condition_wait: the event is created, the node added, the mutex         *)
(* released; the event, which resets itself, is waited for and closed, and *)
(* the mutex is taken again.                                               *)
wait_create(t) ==
    /\ Moves(t, "locked", "created")
    /\ event' = event \ {t}
    /\ UNCHANGED <<mutex, condition_mutex, waiters, node>>

\* Mutant: the node that is added does not point to the others.
wait_add_alone(t) ==
    /\ Moves(t, "created", "added")
    /\ condition_mutex = Nobody
    /\ waiters' = <<t>>
    /\ UNCHANGED <<mutex, condition_mutex, event, node>>

wait_add(t) ==
    /\ Moves(t, "created", "added")
    /\ condition_mutex = Nobody
    /\ waiters' = <<t>> \o waiters
    /\ UNCHANGED <<mutex, condition_mutex, event, node>>

wait_release(t) ==
    /\ Moves(t, "added", "waiting")
    /\ mutex' = Nobody
    /\ UNCHANGED <<condition_mutex, waiters, event, node>>

wait_event(t) ==
    /\ Moves(t, "waiting", "awake")
    /\ t \in event
    /\ event' = event \ {t}
    /\ UNCHANGED <<mutex, condition_mutex, waiters, node>>

wait_return(t) ==
    /\ Moves(t, "awake", "locked")
    /\ mutex = Nobody
    /\ mutex' = t
    /\ UNCHANGED <<condition_mutex, waiters, event, node>>

(* condition_signal, with or without the mutex.                            *)
signal(t) ==
    /\ pc[t] \in {"idle", "locked"}
    /\ condition_mutex = Nobody
    /\ waiters # <<>>
    /\ waiters' = Tail(waiters)
    /\ event' = event \cup {Head(waiters)}
    /\ UNCHANGED <<pc, mutex, condition_mutex, node>>

(* condition_broadcast, with the mutex: it reads the next node after it    *)
(* has set the event, when the thread of the node may have returned and    *)
(* its stack may hold anything.                                            *)
broadcast_begin(t) ==
    /\ Moves(t, "locked", "broadcast")
    /\ condition_mutex = Nobody
    /\ condition_mutex' = t
    /\ node' = waiters
    /\ UNCHANGED <<mutex, waiters, event>>

broadcast_set(t) ==
    /\ node # <<>>
    /\ Moves(t, "broadcast", "next")
    /\ event' = event \cup {Head(node)}
    /\ UNCHANGED <<mutex, condition_mutex, waiters, node>>

OnStack(t) == pc[t] \in {"created", "added", "waiting", "awake"}

broadcast_next(t) ==
    /\ Moves(t, "next", "broadcast")
    /\ IF OnStack(Head(node)) THEN node' = Tail(node) ELSE node' \in {<<>>, Tail(node)}
    /\ UNCHANGED <<mutex, condition_mutex, waiters, event>>

broadcast_end(t) ==
    /\ node = <<>>
    /\ Moves(t, "broadcast", "locked")
    /\ waiters' = <<>>
    /\ condition_mutex' = Nobody
    /\ UNCHANGED <<mutex, event, node>>

(* What a thread does once it is in one of the functions.                  *)
ConditionStep(t) ==
    \/ mutex_unlock(t) \/ wait_add(t) \/ wait_release(t) \/ wait_event(t) \/ wait_return(t)
    \/ broadcast_set(t) \/ broadcast_next(t) \/ broadcast_end(t)

ConditionNext ==
    \E t \in Threads :
        ConditionStep(t) \/ mutex_lock(t) \/ wait_create(t) \/ signal(t) \/ broadcast_begin(t)

ConditionFairness == \A t \in Threads : WF_conditionVars(ConditionStep(t))
ConditionSpec == ConditionInit /\ [][ConditionNext]_conditionVars /\ ConditionFairness
-----------------------------------------------------------------------------
Members(s) == {s[i] : i \in DOMAIN s}
InWait == {t \in Threads : pc[t] \in {"added", "waiting", "awake"}}

(* A thread that was woken finds its event set until it has waited for it, *)
(* although a signal may come before it waits, and a broadcast reads the   *)
(* next node when the thread of the last one may have gone on              *)
(* (lwt_unix_condition_wait, signal and broadcast).                        *)
NoWakeupLost == \A t \in InWait \ Members(waiters) : pc[t] = "awake" \/ t \in event

CondVariable == INSTANCE LwtCondVariable
    WITH holder <- IF \E t \in Threads : mutex = t /\ pc[t] = "added" THEN Nobody ELSE mutex,
         waiting <- Members(waiters),
         woken <- InWait \ Members(waiters)

(* The condition variables built of events behave as those of the system:  *)
(* a thread that has been added to the list before it releases the mutex   *)
(* misses no signal, a signal wakes one thread and a broadcast all of      *)
(* them, and each one that was woken returns, with the mutex               *)
(* (lwt_unix_condition_wait, signal and broadcast).                        *)
RefinesCondVariable == CondVariable!Spec
=============================================================================
