----------------------------- MODULE LwtMailbox -----------------------------
(***************************************************************************)
(* What the notifications of Lwt_unix promise to the threads that send     *)
(* them: each one reaches the main thread, once, in the order in which     *)
(* they were sent.  If notifiers raise exceptions or the process forks the *)
(* order remains, but some are skipped.                                    *)
(***************************************************************************)
EXTENDS Naturals, Sequences

CONSTANT Ids

VARIABLES reliable,    \* are none skipped?
          pending,     \* the identifiers sent and not yet called
          called       \* those for which call_notification was called

vars == <<reliable, pending, called>>

Init ==
    /\ reliable \in BOOLEAN
    /\ pending = <<>>
    /\ called = <<>>

Send ==
    /\ \E id \in Ids : pending' = Append(pending, id)
    /\ UNCHANGED <<reliable, called>>

Call ==
    /\ pending # <<>>
    /\ called' = Append(called, Head(pending))
    /\ \/ pending' = Tail(pending)
       \/ /\ ~reliable
          /\ \E n \in 2..Len(pending) :
                 pending' = SubSeq(pending, n + 1, Len(pending))
    /\ UNCHANGED reliable

Next == Send \/ Call

Spec == Init /\ [][Next]_vars /\ WF_vars(reliable /\ Call)
=============================================================================
