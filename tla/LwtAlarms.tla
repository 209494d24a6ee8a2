------------------------------ MODULE LwtAlarms ------------------------------
(***************************************************************************)
(* What lwt_timeout.mli promises: each timeout that is started counts its  *)
(* own delay down and expires once, whatever the others do.                *)
(***************************************************************************)
EXTENDS Integers

CONSTANTS Timeouts, Durations, Off

VARIABLE left    \* the ticks until a timeout expires, or Off

On == {x \in Timeouts : left[x] # Off}
Due == {x \in Timeouts : left[x] = 0}

Init == left = [x \in Timeouts |-> Off]

Start(x, d) == left' = [left EXCEPT ![x] = d]
Stop(x) == left' = [left EXCEPT ![x] = Off]

Expire(x) == x \in Due /\ left' = [left EXCEPT ![x] = Off]

(* Time passes when all that were due have expired.                        *)
Tick ==
    /\ On # {} /\ Due = {}
    /\ left' = [x \in Timeouts |-> IF x \in On THEN left[x] - 1 ELSE Off]

Advance == Tick \/ \E x \in Timeouts : Expire(x)

Next == Advance \/ \E x \in Timeouts : Stop(x) \/ \E d \in Durations : Start(x, d)

Spec == Init /\ [][Next]_left /\ WF_left(Advance)
=============================================================================
