------------------------------ MODULE LwtStream ------------------------------
(***************************************************************************)
(* Streams, src/core/lwt_stream.ml: the list of nodes that a stream and    *)
(* its clones share, the calls that read it and the four sources that feed *)
(* it.  Nodes are numbered: the node after i is i + 1, data[i] is the data *)
(* of node i, and the last node is the one after those of data.            *)
(*                                                                         *)
(* A call goes from node to node; between two nodes other callbacks run,   *)
(* since taking an element wakes the producer that waits for room, and     *)
(* what follows a resolved promise is a step of its own.  Readers that one *)
(* promise wakes go on in any order.  The functions given to from,         *)
(* from_direct and get_while_s do not use the stream before they return.   *)
(***************************************************************************)
EXTENDS Naturals, Sequences

CONSTANTS Streams,         \* the stream and its clones
          Readers,         \* who calls get and the like
          MaxElements,     \* the number of elements offered to the stream
          MaxRead,         \* the most elements one call asks for
          Sizes,           \* of bounded streams
          StreamPrograms   \* each one a source, the calls made and what may happen

Sources == {"from", "from_direct", "push", "push_bounded"}
Calls == {"get", "nget", "peek", "while", "available"}

ASSUME StreamAssumption ==
    /\ MaxElements \in Nat
    /\ MaxRead \in Nat \ {0}
    /\ Sizes \subseteq Nat /\ Sizes # {}
    /\ Streams # {}
    /\ \A p \in StreamPrograms :
           /\ \E s \in Sources : p \cap Sources = {s}
           /\ p \subseteq Sources \cup Calls \cup {"alone", "clone", "cancel", "split", "fail"}

None == 0

VARIABLES streamProgram,   \* the set of StreamPrograms that runs
          data,            \* the data of the nodes before the last one
          first,           \* first[s]: the field node of s, 0 before s is made
          reading,         \* reading[r]: the call of r
          from_thread,     \* the last call of from_create: "done", "sleeping", "ending"
          waiting,         \* push_waiting, pushb_waiting
          push_signal,     \* push_signal, pushb_signal
          closed,          \* is the promise closed resolved, or the method close called?
          size,            \* pushb_size
          count,           \* pushb_count
          pending,         \* pushb_pending
          pusher,          \* the push that waits for pushb_push_waiter, or None
          outcome          \* what became of each element offered

sourceVars == <<from_thread, waiting, push_signal, closed>>
boundVars == <<size, count, pending, pusher>>
streamVars == <<streamProgram, data, first, reading, sourceVars, boundVars, outcome>>

Elements == 1..MaxElements

StreamTypeOK ==
    /\ streamProgram \in StreamPrograms
    /\ data \in Seq({None} \cup Elements)
    /\ first \in [Streams -> Nat]
    /\ reading \in [Readers -> [call : Calls \cup {"none"},
                                at : {"idle", "run", "wait", "test", "done", "failed"},
                                stream : Streams \cup {None}, node : Nat, n : Nat,
                                got : Seq({None} \cup Elements)]]
    /\ from_thread \in {"done", "sleeping", "ending"}
    /\ waiting \in BOOLEAN
    /\ push_signal \in {"Pending", "Fulfilled"}
    /\ closed \in {"no", "ending", "yes"}
    /\ size \in Sizes
    /\ count \in Nat
    /\ pending \in {None} \cup Elements
    /\ pusher \in {None} \cup Elements
    /\ outcome \in Seq({"blocked", "canceling", "accepted", "refused"})

(* from_source, create_with_reference, create_bounded                      *)
StreamInit ==
    /\ streamProgram \in StreamPrograms
    /\ data = <<>>
    /\ first = [s \in Streams |-> IF s = CHOOSE t \in Streams : TRUE THEN 1 ELSE 0]
    /\ reading = [r \in Readers |-> [call |-> "none", at |-> "idle", stream |-> None,
                                     node |-> 0, n |-> 0, got |-> <<>>]]
    /\ from_thread = "done"
    /\ waiting = FALSE
    /\ push_signal = "Pending"
    /\ closed = "no"
    /\ size \in (IF "push_bounded" \in streamProgram THEN Sizes ELSE {CHOOSE n \in Sizes : TRUE})
    /\ count = 0
    /\ pending = None
    /\ pusher = None
    /\ outcome = <<>>

source == CHOOSE s \in Sources : s \in streamProgram

may(what) == what \in streamProgram

(* The readers that wait for the signal, or for from_thread, go on.        *)
Wake(at) ==
    [r \in Readers |->
        IF reading[r].at = "wait" THEN [reading[r] EXCEPT !.at = at] ELSE reading[r]]

(* An element made by from_create or given to push, or the end.            *)
New(x) ==
    \/ x = None /\ UNCHANGED outcome
    \/ /\ Len(outcome) < MaxElements
       /\ x = Len(outcome) + 1
       /\ outcome' = Append(outcome, "accepted")

enqueue(x) == data' = Append(data, x)
-----------------------------------------------------------------------------
(* A reader calls get, nget, npeek, get_while_s, get_available or one of   *)
(* their relatives, for n elements.  With "alone" nobody else is reading   *)
(* that stream.                                                            *)
begin_read(r) ==
    /\ reading[r].at \in {"idle", "done", "failed"}
    /\ \E c \in Calls \cap streamProgram, s \in Streams, n \in 1..MaxRead :
           /\ first[s] # 0
           /\ may("alone") => \A o \in Readers \ {r} :
                  reading[o].stream = s => reading[o].at \in {"idle", "done", "failed"}
           /\ reading' = [reading EXCEPT ![r] = [call |-> c, at |-> "run", stream |-> s,
                                                 node |-> first[s], n |-> n, got |-> <<>>]]
    /\ UNCHANGED <<streamProgram, data, first, sourceVars, boundVars, outcome>>

AtLast(r) == reading[r].at = "run" /\ reading[r].node = Len(data) + 1

(* What a call does if feed returns a sleeping promise.                    *)
Sleep(r) ==
    reading' = [reading EXCEPT ![r].at = IF reading[r].call = "available" THEN "done" ELSE "wait"]

(* feed on a source that calls a function: the call under way is shared;   *)
(* a new one may take time, return at once, or fail.                       *)
feed_from_sleeps(r) ==
    /\ AtLast(r)
    /\ source = "from"
    /\ from_thread' = IF from_thread = "done" THEN "sleeping" ELSE from_thread
    /\ Sleep(r)
    /\ UNCHANGED <<streamProgram, data, first, waiting, push_signal, closed, boundVars, outcome>>

feed_now(r) ==
    /\ AtLast(r)
    /\ source = "from_direct" \/ (source = "from" /\ from_thread = "done")
    /\ \E x \in {None, Len(outcome) + 1} :
           /\ New(x)
           /\ enqueue(x)
           /\ closed' = IF x = None THEN "yes" ELSE closed
    /\ UNCHANGED <<streamProgram, first, reading, from_thread, waiting, push_signal, boundVars>>

feed_fails(r) ==
    /\ may("fail")
    /\ AtLast(r)
    /\ source = "from_direct" \/ (source = "from" /\ from_thread = "done")
    /\ reading' = [reading EXCEPT ![r].at = "failed"]
    /\ UNCHANGED <<streamProgram, data, first, sourceVars, boundVars, outcome>>

(* from_create ends: the element is in the queue before the readers go on; *)
(* at the end of the stream the callbacks of closed run before that.       *)
from_returns ==
    /\ from_thread = "sleeping"
    /\ \E x \in {None, Len(outcome) + 1} :
           /\ New(x)
           /\ enqueue(x)
           /\ IF x = None
              THEN from_thread' = "ending" /\ closed' = "yes" /\ UNCHANGED reading
              ELSE from_thread' = "done" /\ reading' = Wake("run") /\ UNCHANGED closed
    /\ UNCHANGED <<streamProgram, first, waiting, push_signal, boundVars>>

from_ends ==
    /\ from_thread = "ending"
    /\ from_thread' = "done"
    /\ reading' = Wake("run")
    /\ UNCHANGED <<streamProgram, data, first, waiting, push_signal, closed, boundVars, outcome>>

from_fails ==
    /\ may("fail")
    /\ from_thread = "sleeping"
    /\ from_thread' = "done"
    /\ reading' = Wake("failed")
    /\ UNCHANGED <<streamProgram, data, first, waiting, push_signal, closed, boundVars, outcome>>

(* feed on a push stream: the flag asks the producer for a signal.         *)
feed_push(r) ==
    /\ AtLast(r)
    /\ source \in {"push", "push_bounded"}
    /\ waiting' = TRUE
    /\ IF push_signal = "Pending" THEN Sleep(r) ELSE UNCHANGED reading
    /\ UNCHANGED <<streamProgram, data, first, from_thread, push_signal, closed, boundVars, outcome>>
-----------------------------------------------------------------------------
(* Add the pending element to the queue and wake the push that waits; its  *)
(* promise is left alone if it has been canceled meanwhile.                *)
notify_pusher ==
    /\ enqueue(pending)
    /\ pending' = None
    /\ pusher' = None
    /\ outcome' = IF pusher # None /\ outcome[pusher] = "blocked"
                  THEN [outcome EXCEPT ![pusher] = "accepted"] ELSE outcome

\* Mutant: the node need not be the first one any more.
consume_any(s, node) ==
    /\ first' = [first EXCEPT ![s] = node + 1]
    /\ \/ /\ source # "push_bounded"
          /\ UNCHANGED <<data, count, pending, pusher, outcome>>
       \/ /\ source = "push_bounded" /\ pending = None
          /\ count' = count - 1
          /\ UNCHANGED <<data, pending, pusher, outcome>>
       \/ /\ source = "push_bounded" /\ pending # None
          /\ notify_pusher
          /\ UNCHANGED count

(* Remove a node from the top of the queue, unless it was consumed; the    *)
(* room it leaves goes to the push that waits.                             *)
consume(s, node) ==
    \/ /\ first[s] # node
       /\ UNCHANGED <<data, first, count, pending, pusher, outcome>>
    \/ /\ first[s] = node
       /\ first' = [first EXCEPT ![s] = node + 1]
       /\ \/ /\ source # "push_bounded"
             /\ UNCHANGED <<data, count, pending, pusher, outcome>>
          \/ /\ source = "push_bounded" /\ pending = None
             /\ count' = count - 1
             /\ UNCHANGED <<data, pending, pusher, outcome>>
          \/ /\ source = "push_bounded" /\ pending # None
             /\ notify_pusher
             /\ UNCHANGED count

(* The data of a node; the last one has none.                              *)
Data(node) == IF node <= Len(data) THEN data[node] ELSE None

(* What the call looks at: nget looks at the first node of the stream and  *)
(* consumes the one it has come to.                                        *)
Seen(r) ==
    IF reading[r].call = "nget" THEN Data(first[reading[r].stream]) ELSE Data(reading[r].node)

OnNode(r) == reading[r].at = "run" /\ reading[r].node <= Len(data)

Advance(r, x) ==
    reading' = [reading EXCEPT ![r].got = Append(@, x),
                               ![r].node = @ + 1,
                               ![r].n = @ - 1,
                               ![r].at = IF reading[r].n = 1 THEN "done" ELSE "run"]

(* The end of the stream, where the call stops.                            *)
read_end(r) ==
    /\ OnNode(r)
    /\ Seen(r) = None
    /\ reading' = [reading EXCEPT ![r].at = "done"]
    /\ UNCHANGED <<streamProgram, data, first, sourceVars, boundVars, outcome>>

read_peek(r) ==
    /\ OnNode(r)
    /\ Seen(r) # None
    /\ reading[r].call = "peek"
    /\ Advance(r, Seen(r))
    /\ UNCHANGED <<streamProgram, data, first, sourceVars, boundVars, outcome>>

read_take(r) ==
    /\ OnNode(r)
    /\ Seen(r) # None
    /\ reading[r].call \in {"get", "nget", "available"}
    /\ consume(reading[r].stream, reading[r].node)
    /\ Advance(r, Seen(r))
    /\ UNCHANGED <<streamProgram, sourceVars, size>>

(* get_while_s and junk_while_s wait for the answer of a function before   *)
(* they consume the node.                                                  *)
read_test(r) ==
    /\ OnNode(r)
    /\ Seen(r) # None
    /\ reading[r].call = "while"
    /\ reading' = [reading EXCEPT ![r].at = "test"]
    /\ UNCHANGED <<streamProgram, data, first, sourceVars, boundVars, outcome>>

tested(r) ==
    /\ reading[r].at = "test"
    /\ \/ /\ consume(reading[r].stream, reading[r].node)
          /\ Advance(r, Seen(r))
       \/ /\ \E at \in {"done", "failed"} : reading' = [reading EXCEPT ![r].at = at]
          /\ UNCHANGED <<data, first, count, pending, pusher, outcome>>
    /\ UNCHANGED <<streamProgram, sourceVars, size>>

(* A reader is canceled: Lwt.protected keeps it from the promise that the  *)
(* others wait for.                                                        *)
cancel_read(r) ==
    /\ may("cancel")
    /\ reading[r].at = "wait"
    /\ reading' = [reading EXCEPT ![r].at = "failed"]
    /\ UNCHANGED <<streamProgram, data, first, sourceVars, boundVars, outcome>>

clone ==
    /\ may("clone")
    /\ source # "push_bounded"
    /\ \E s, t \in Streams :
           first[s] = 0 /\ first[t] # 0 /\ first' = [first EXCEPT ![s] = first[t]]
    /\ UNCHANGED <<streamProgram, data, reading, sourceVars, boundVars, outcome>>
-----------------------------------------------------------------------------
(* The push function of a push stream.  If a reader waits it is woken, and *)
(* callbacks run, before closed is resolved at the end of the stream.      *)
push ==
    /\ source = "push"
    /\ closed # "yes"
    /\ \E x \in {None, Len(outcome) + 1} :
           /\ New(x)
           /\ enqueue(x)
           /\ closed' = IF x # None THEN closed ELSE IF waiting THEN "ending" ELSE "yes"
    /\ waiting' = FALSE
    /\ reading' = IF waiting THEN Wake("run") ELSE reading
    /\ UNCHANGED <<streamProgram, first, from_thread, push_signal, boundVars>>

push_ends ==
    /\ closed = "ending"
    /\ closed' = "yes"
    /\ UNCHANGED <<streamProgram, data, first, reading, from_thread, waiting, push_signal, boundVars, outcome>>

(* Closed, of both push streams, and Full.                                 *)
push_refused ==
    /\ Len(outcome) < MaxElements
    /\ \/ source \in {"push", "push_bounded"} /\ closed = "yes"
       \/ source = "push_bounded" /\ pending # None
    /\ outcome' = Append(outcome, "refused")
    /\ UNCHANGED <<streamProgram, data, first, reading, sourceVars, boundVars>>

(* The method push of bounded streams.                                     *)
push_blocks ==
    /\ source = "push_bounded"
    /\ closed = "no" /\ pending = None
    /\ count >= size
    /\ Len(outcome) < MaxElements
    /\ pending' = Len(outcome) + 1
    /\ pusher' = Len(outcome) + 1
    /\ outcome' = Append(outcome, "blocked")
    /\ UNCHANGED <<streamProgram, data, first, reading, sourceVars, size, count>>

push_enqueues ==
    /\ source = "push_bounded"
    /\ closed = "no" /\ pending = None
    /\ count < size
    /\ New(Len(outcome) + 1)
    /\ enqueue(Len(outcome) + 1)
    /\ count' = count + 1
    /\ waiting' = FALSE
    /\ reading' = IF waiting THEN Wake("run") ELSE reading
    /\ UNCHANGED <<streamProgram, first, from_thread, push_signal, closed, size, pending, pusher>>

(* A blocked push is canceled: its promise is rejected, and then a handler *)
(* drops the pending element and makes a new waiter.  Only if the          *)
(* cancellation reaches other promises too do their callbacks run between  *)
(* the two ("split").                                                      *)
cancel_push ==
    /\ may("cancel")
    /\ pusher # None /\ outcome[pusher] = "blocked"
    /\ outcome' = [outcome EXCEPT ![pusher] = "canceling"]
    /\ UNCHANGED <<streamProgram, data, first, reading, sourceVars, boundVars>>

push_canceled ==
    /\ \E p \in DOMAIN outcome :
           outcome[p] = "canceling" /\ outcome' = [outcome EXCEPT ![p] = "refused"]
    /\ pending' = None
    /\ pusher' = None
    /\ UNCHANGED <<streamProgram, data, first, reading, sourceVars, size, count>>

resize ==
    /\ source = "push_bounded"
    /\ size' \in Sizes \ {size}
    /\ IF count < size' /\ pending # None
       THEN count' = count + 1 /\ notify_pusher
       ELSE UNCHANGED <<data, count, pending, pusher, outcome>>
    /\ UNCHANGED <<streamProgram, first, reading, sourceVars>>

(* The method close.  The signal is resolved and not replaced.             *)
close ==
    /\ source = "push_bounded"
    /\ closed = "no"
    /\ closed' = "yes"
    /\ enqueue(None)
    /\ pending' = None
    /\ outcome' = IF pending # None /\ outcome[pusher] = "blocked"
                  THEN [outcome EXCEPT ![pusher] = "refused"] ELSE outcome
    /\ waiting' = FALSE
    /\ push_signal' = IF waiting THEN "Fulfilled" ELSE push_signal
    /\ reading' = IF waiting THEN Wake("run") ELSE reading
    /\ UNCHANGED <<streamProgram, first, from_thread, size, count, pusher>>
-----------------------------------------------------------------------------
(* What a reader does without waiting.                                     *)
ReaderStep(r) ==
    \/ feed_from_sleeps(r) \/ feed_now(r) \/ feed_fails(r) \/ feed_push(r)
    \/ read_end(r) \/ read_peek(r) \/ read_take(r) \/ read_test(r) \/ tested(r)

InCancel == ~may("split") /\ \E p \in DOMAIN outcome : outcome[p] = "canceling"

StreamNext ==
    \/ push_canceled
    \/ /\ ~InCancel
       /\ \/ \E r \in Readers : begin_read(r) \/ ReaderStep(r) \/ cancel_read(r)
          \/ from_returns \/ from_ends \/ from_fails
          \/ clone
          \/ push \/ push_ends \/ push_refused
          \/ push_blocks \/ push_enqueues \/ cancel_push
          \/ resize \/ close

(* Readers that are not waiting run, and the predicates of get_while_s     *)
(* return.  That a call of from_create returns is not assumed.             *)
StreamFairness ==
    /\ \A r \in Readers : WF_streamVars(~InCancel /\ ReaderStep(r))
    /\ WF_streamVars(from_ends)
    /\ WF_streamVars(push_canceled)

StreamSpec == StreamInit /\ [][StreamNext]_streamVars /\ StreamFairness
-----------------------------------------------------------------------------
Channel == INSTANCE LwtChannel WITH
    elements <- data,
    cursor <- first,
    read <- [r \in Readers |->
        [at |-> IF reading[r].at \in {"run", "wait", "test"} THEN "reading" ELSE reading[r].at,
         exact |-> reading[r].call \in {"none", "get", "nget", "peek"},
         takes |-> reading[r].call \notin {"none", "peek"},
         stream |-> reading[r].stream, node |-> reading[r].node,
         n |-> reading[r].n, got |-> reading[r].got]],
    outcome <- [p \in DOMAIN outcome |->
                   IF outcome[p] = "canceling" THEN "refused" ELSE outcome[p]],
    limit <- IF source = "push_bounded" THEN size ELSE MaxElements

(* However many readers and clones share a stream, a call gets the         *)
(* elements that follow its start, all of them, in order and once, and     *)
(* stops early only at the end; the cursor passes an element only when it  *)
(* was given to somebody; a push is fulfilled if and only if its element   *)
(* got in, whatever cancellations, resizes and closing race with it; a     *)
(* bounded stream never grows beyond its size; no reader sleeps with       *)
(* elements before it, no push with room (feed, consume, notify_pusher,    *)
(* and the methods of bounded_push).                                       *)
RefinesChannel == Channel!Spec
=============================================================================
