------------------------------ MODULE LwtTask ------------------------------
(***************************************************************************)
(* What the queues of waiters of src/core have in common: a thread that    *)
(* blocks waits for a task that Lwt.add_task_r has put in a queue.         *)
(*                                                                         *)
(* What follows a resolved promise is a step of its own: Lwt.wakeup_later  *)
(* may run it at once or defer it to the end of the resolution loop.       *)
(* Lwt.cancel rejects all the promises it reaches before it runs any of    *)
(* their callbacks, and runs the callbacks of one after those of another   *)
(* (lwt.ml:1459): between the rejection of a waiter and the cancel         *)
(* callback that takes its node out of the queue, the callbacks of other   *)
(* promises may run.  SplitCancel says whether cancellations that reach    *)
(* several promises (of a join) are modelled, or only those that reach a   *)
(* waiter alone.                                                           *)
(***************************************************************************)
EXTENDS Naturals, Sequences

CONSTANTS Threads,
          SplitCancel      \* may other callbacks run inside a cancellation?

ASSUME TaskAssumption == SplitCancel \in BOOLEAN

VARIABLES task,            \* task[t]: the promise t waits for
          pc               \* pc[t]: where t is

Tasks == {"none", "Pending", "Fulfilled", "Rejected", "Canceled"}

NoTasks ==
    /\ task = [t \in Threads |-> "none"]
    /\ pc = [t \in Threads |-> "idle"]

(* wakeup_later: a promise that has been canceled is left alone.           *)
wakeup_later(tasks, t, result) ==
    IF tasks[t] = "Pending" THEN [tasks EXCEPT ![t] = result] ELSE tasks

(* The queue q without the node at a place of K, if there is one.          *)
WithoutPlace(q, K) ==
    IF K = {}
    THEN q
    ELSE LET k == CHOOSE i \in K : TRUE
         IN  [i \in 1..(Len(q) - 1) |-> IF i < k THEN q[i] ELSE q[i + 1]]

InQueue(q, t) == \E i \in DOMAIN q : q[i] = t

\* Mutant: the node stays in the queue.
Without_keep(q, t) == q

(* The cancel callback of add_task_r: Lwt_sequence.remove, which does      *)
(* nothing to a node that has been taken out.                              *)
Without(q, t) == WithoutPlace(q, {i \in DOMAIN q : q[i] = t})
=============================================================================
