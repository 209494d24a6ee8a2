------------------------------- MODULE LwtMvar -------------------------------
(***************************************************************************)
(* src/core/lwt_mvar.ml: a mailbox with queues of blocked writers and      *)
(* readers.  A blocked thread waits for a task; what follows it is a step  *)
(* of its own, and the cancellation of a task has the two phases described *)
(* in LwtTask.                                                             *)
(***************************************************************************)
EXTENDS LwtTask

CONSTANTS MaxPuts,         \* the number of values put
          NoValue          \* None

ASSUME MvarAssumption ==
    /\ MaxPuts \in Nat
    /\ NoValue \notin Nat

(* The values are numbered in the order in which put is called.            *)
Values == 1..MaxPuts

VARIABLES mvar_contents,
          writers,         \* the blocked writers and their values
          readers,         \* the blocked readers
          puts,            \* the number of calls of put so far
          accepted,        \* history: the values that entered the mailbox
          given            \* history: the values given to readers

mvarState == <<mvar_contents, writers, readers, puts, accepted, given>>
mvarVars == <<mvarState, task, pc>>

Writer == [thread : Threads, value : Values]

MvarTypeOK ==
    /\ mvar_contents \in Values \cup {NoValue}
    /\ writers \in Seq(Writer)
    /\ readers \in Seq(Threads)
    /\ task \in [Threads -> {"none", "Pending", "Fulfilled", "Canceled"}]
    /\ pc \in [Threads -> {"idle", "put", "take"}]
    /\ puts \in 0..MaxPuts
    /\ accepted \in Seq(Values)
    /\ given \in Seq(Values)

(* create_empty                                                            *)
MvarInit ==
    /\ mvar_contents = NoValue
    /\ writers = <<>>
    /\ readers = <<>>
    /\ NoTasks
    /\ puts = 0
    /\ accepted = <<>>
    /\ given = <<>>

resume(t) == task' = wakeup_later(task, t, "Fulfilled")

\* Mutant: a value is put though readers wait.
put_no_readers(t) ==
    /\ pc[t] = "idle"
    /\ puts < MaxPuts
    /\ puts' = puts + 1
    /\ mvar_contents = NoValue
    /\ mvar_contents' = puts + 1
    /\ accepted' = Append(accepted, puts + 1)
    /\ UNCHANGED <<given, readers, writers, task, pc>>

put(t) ==
    /\ pc[t] = "idle"
    /\ puts < MaxPuts
    /\ puts' = puts + 1
    /\ \/ /\ mvar_contents = NoValue
          /\ readers = <<>>
          /\ mvar_contents' = puts + 1
          /\ accepted' = Append(accepted, puts + 1)
          /\ UNCHANGED <<given, readers, writers, task, pc>>
       \/ /\ mvar_contents = NoValue
          /\ readers # <<>>
          /\ readers' = Tail(readers)
          /\ resume(Head(readers))
          /\ accepted' = Append(accepted, puts + 1)
          /\ given' = IF task[Head(readers)] = "Pending"
                      THEN Append(given, puts + 1) ELSE given
          /\ UNCHANGED <<mvar_contents, writers, pc>>
       \/ /\ mvar_contents # NoValue
          /\ writers' = Append(writers, [thread |-> t, value |-> puts + 1])
          /\ task' = [task EXCEPT ![t] = "Pending"]
          /\ pc' = [pc EXCEPT ![t] = "put"]
          /\ UNCHANGED <<mvar_contents, readers, accepted, given>>

\* Mutant: the last writer comes first.
next_writer_last ==
    \/ /\ writers # <<>>
       /\ LET w == writers[Len(writers)]
          IN  /\ mvar_contents' = w.value
              /\ resume(w.thread)
              /\ accepted' = Append(accepted, w.value)
       /\ writers' = SubSeq(writers, 1, Len(writers) - 1)
    \/ /\ writers = <<>>
       /\ mvar_contents' = NoValue
       /\ UNCHANGED <<writers, task, accepted>>

next_writer ==
    \/ /\ writers # <<>>
       /\ mvar_contents' = Head(writers).value
       /\ resume(Head(writers).thread)
       /\ accepted' = Append(accepted, Head(writers).value)
       /\ writers' = Tail(writers)
    \/ /\ writers = <<>>
       /\ mvar_contents' = NoValue
       /\ UNCHANGED <<writers, task, accepted>>

(* take and take_available of a full mailbox; take_available of an empty   *)
(* one does nothing.                                                       *)
take_available(t) ==
    /\ pc[t] = "idle"
    /\ mvar_contents # NoValue
    /\ next_writer
    /\ given' = Append(given, mvar_contents)
    /\ UNCHANGED <<readers, pc, puts>>

take(t) ==
    /\ pc[t] = "idle"
    /\ mvar_contents = NoValue
    /\ readers' = Append(readers, t)
    /\ task' = [task EXCEPT ![t] = "Pending"]
    /\ pc' = [pc EXCEPT ![t] = "take"]
    /\ UNCHANGED <<mvar_contents, writers, puts, accepted, given>>

blocked_callback(t) ==
    /\ task[t] = "Fulfilled"
    /\ task' = [task EXCEPT ![t] = "none"]
    /\ pc' = [pc EXCEPT ![t] = "idle"]
    /\ UNCHANGED <<mvar_contents, writers, readers, puts, accepted, given>>

\* Mutant: on_cancel is forgotten.
RemoveNode_not(t) == UNCHANGED <<readers, writers>>

(* Lwt_sequence.remove, by the cancel callback of the task, which does     *)
(* nothing to a node that has been taken out.                              *)
RemoveNode(t) ==
    /\ readers' = WithoutPlace(readers, {i \in DOMAIN readers : readers[i] = t})
    /\ writers' = WithoutPlace(writers, {i \in DOMAIN writers : writers[i].thread = t})

(* The first phase of cancel, and the second one if nothing can come       *)
(* between.                                                                *)
cancel_blocked(t) ==
    /\ task[t] = "Pending"
    /\ task' = [task EXCEPT ![t] = "Canceled"]
    /\ IF SplitCancel THEN UNCHANGED <<readers, writers>> ELSE RemoveNode(t)
    /\ UNCHANGED <<mvar_contents, pc, puts, accepted, given>>

cancel_blocked_callbacks(t) ==
    /\ task[t] = "Canceled"
    /\ RemoveNode(t)
    /\ task' = [task EXCEPT ![t] = "none"]
    /\ pc' = [pc EXCEPT ![t] = "idle"]
    /\ UNCHANGED <<mvar_contents, puts, accepted, given>>

MvarNext ==
    \E t \in Threads :
        put(t) \/ take_available(t) \/ take(t) \/ blocked_callback(t)
            \/ cancel_blocked(t) \/ cancel_blocked_callbacks(t)

MvarSpec == MvarInit /\ [][MvarNext]_mvarVars
-----------------------------------------------------------------------------
(* The values in the mailbox, as a sequence.                               *)
Contents == IF mvar_contents = NoValue THEN <<>> ELSE <<mvar_contents>>

(* Every value that entered the mailbox is given to one reader that is     *)
(* still there to get it, once, in the order of the puts, or is the        *)
(* contents (put, next_writer, take_available).                            *)
NoValueLost ==
    /\ accepted = given \o Contents
    /\ \A i \in 2..Len(accepted) : accepted[i - 1] < accepted[i]

(* Nobody waits for what is there: readers block only on an empty mailbox, *)
(* writers only on a full one, and every blocked thread is in its queue.   *)
BlockedForAReason ==
    /\ readers # <<>> => mvar_contents = NoValue
    /\ writers # <<>> => mvar_contents # NoValue
    /\ \A t \in Threads : task[t] = "Pending" =>
           /\ pc[t] = "take" => \E i \in DOMAIN readers : readers[i] = t
           /\ pc[t] = "put" => \E i \in DOMAIN writers : writers[i].thread = t
=============================================================================
