----------------------------- MODULE LwtChannel -----------------------------
(***************************************************************************)
(* What src/core/lwt_stream.ml promises: a list of elements that grows at  *)
(* its end, one cursor for each stream that shares it, and calls that read *)
(* on from where the cursor was when they were made.  How readers and      *)
(* producers wait for one another is not visible here; that they do not    *)
(* wait in vain is the fairness of Serve and Accept.                       *)
(***************************************************************************)
EXTENDS Naturals, Sequences

CONSTANTS Streams, Readers,
          MaxRead      \* the most elements one call asks for

VARIABLES elements,     \* the elements so far; 0 is the end of the stream
          cursor,       \* cursor[s]: the place of its first element, 0 if s is not made yet
          read,         \* read[r]: the call under way, or how it ended
          outcome,      \* outcome[p]: what became of the p-th push
          limit         \* how many elements may wait to be read

vars == <<elements, cursor, read, outcome, limit>>

Active(r) == read[r].at = "reading"

(* The elements that s holds and nobody has taken.                         *)
Held(s) ==
    IF cursor[s] = 0 THEN 0
    ELSE Len(SelectSeq(SubSeq(elements, cursor[s], Len(elements)), LAMBDA x : x # 0))

(* A stream never grows beyond its limit, which it exceeds only if the     *)
(* limit was lowered.                                                      *)
WithinLimit == \A s \in Streams : Held(s)' <= limit' \/ Held(s)' <= Held(s)

Init ==
    /\ elements = <<>>
    /\ cursor \in [Streams -> {0, 1}]
    /\ read = [r \in Readers |-> [at |-> "idle", exact |-> TRUE, takes |-> FALSE, stream |-> 0,
                                  node |-> 0, n |-> 0, got |-> <<>>]]
    /\ outcome = <<>>
    /\ limit \in Nat

(* A blocked push gets its element in.                                     *)
Unblock ==
    \E p \in DOMAIN outcome :
        /\ outcome[p] = "blocked"
        /\ elements' = Append(elements, p)
        /\ outcome' = [outcome EXCEPT ![p] = "accepted"]

Accept == Unblock /\ UNCHANGED <<cursor, read, limit>> /\ WithinLimit

(* A call for n elements, all of them (exact) or as many as it likes.      *)
Begin(r) ==
    /\ ~Active(r)
    /\ \E s \in Streams, n \in 1..MaxRead, exact, takes \in BOOLEAN :
           /\ cursor[s] # 0
           /\ read' = [read EXCEPT ![r] = [at |-> "reading", exact |-> exact, takes |-> takes,
                             stream |-> s, node |-> cursor[s], n |-> n, got |-> <<>>]]
    /\ UNCHANGED <<elements, cursor, outcome, limit>>

(* The next element, which moves the cursor if the call takes elements and *)
(* the cursor is still there; in a bounded stream this makes room.         *)
Deliver(r) ==
    LET node == read[r].node
        s == read[r].stream IN
    /\ Active(r)
    /\ node <= Len(elements)
    /\ elements[node] # 0
    /\ read' = [read EXCEPT ![r].got = Append(@, elements[node]),
                            ![r].node = node + 1,
                            ![r].n = @ - 1,
                            ![r].at = IF read[r].n = 1 THEN "done" ELSE "reading"]
    /\ IF read[r].takes /\ cursor[s] = node
       THEN /\ cursor' = [cursor EXCEPT ![s] = node + 1]
            /\ Unblock \/ UNCHANGED <<elements, outcome>>
       ELSE UNCHANGED <<cursor, elements, outcome>>
    /\ UNCHANGED limit

(* A call ends before it has all it asked for at the end of the stream     *)
(* only, or if it asked for no number.                                     *)
Finish(r) ==
    /\ Active(r)
    /\ ~read[r].exact \/ (read[r].node <= Len(elements) /\ elements[read[r].node] = 0)
    /\ read' = [read EXCEPT ![r].at = "done"]
    /\ UNCHANGED <<elements, cursor, outcome, limit>>

Fail(R) ==
    /\ \A r \in R : Active(r)
    /\ read' = [r \in Readers |-> IF r \in R THEN [read[r] EXCEPT !.at = "failed"] ELSE read[r]]
    /\ UNCHANGED <<elements, cursor, outcome, limit>>

Put ==
    /\ elements' = Append(elements, Len(outcome) + 1)
    /\ outcome' = Append(outcome, "accepted")
    /\ UNCHANGED <<cursor, read, limit>>

(* Only a full stream makes a push wait.                                   *)
Block ==
    /\ \E s \in Streams : cursor[s] # 0 /\ Held(s) >= limit
    /\ outcome' = Append(outcome, "blocked")
    /\ UNCHANGED <<elements, cursor, read, limit>>

Refuse ==
    /\ outcome' = Append(outcome, "refused")
    /\ UNCHANGED <<elements, cursor, read, limit>>

Withdraw ==
    /\ \E p \in DOMAIN outcome :
           /\ outcome[p] = "blocked"
           /\ outcome' = [outcome EXCEPT ![p] = "refused"]
    /\ UNCHANGED <<elements, cursor, read, limit>>

(* The end of the stream refuses the push that is blocked.                 *)
Close ==
    /\ elements' = Append(elements, 0)
    /\ outcome' = [p \in DOMAIN outcome |->
                       IF outcome[p] = "blocked" THEN "refused" ELSE outcome[p]]
    /\ UNCHANGED <<cursor, read, limit>>

Resize ==
    /\ limit' \in Nat
    /\ Unblock \/ UNCHANGED <<elements, outcome>>
    /\ UNCHANGED <<cursor, read>>

Clone ==
    /\ \E s, t \in Streams :
           cursor[s] = 0 /\ cursor[t] # 0 /\ cursor' = [cursor EXCEPT ![s] = cursor[t]]
    /\ UNCHANGED <<elements, read, outcome, limit>>

Next ==
    /\ \/ \E r \in Readers : Begin(r) \/ Deliver(r) \/ Finish(r)
       \/ \E R \in SUBSET Readers : Fail(R)
       \/ Accept \/ Put \/ Block \/ Refuse \/ Withdraw \/ Close \/ Resize \/ Clone
    /\ WithinLimit

(* A call that has something before it goes on.                            *)
Serve(r) == read[r].node <= Len(elements) /\ (Deliver(r) \/ Finish(r)) /\ WithinLimit

Spec ==
    /\ Init
    /\ [][Next]_vars
    /\ \A r \in Readers : WF_vars(Serve(r))
    /\ WF_vars(Accept)
=============================================================================
