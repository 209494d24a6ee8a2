----------------------------- MODULE LwtLimiter -----------------------------
(***************************************************************************)
(* What lwt_throttle.mli promises: the calls on one channel are granted at *)
(* most Rate times in a period, and none waits for ever.                   *)
(***************************************************************************)
EXTENDS Integers, FiniteSets

CONSTANTS Keys, Callers, Rate, MaxPending

VARIABLES call,      \* call[c]: its state
          channel,   \* channel[c]: the key it was made with
          used       \* used[k]: the grants of the present period

Waiting == {c \in Callers : call[c] \in {"pending", "canceled"}}

Init ==
    /\ call = [c \in Callers |-> "idle"]
    /\ channel \in [Callers -> Keys]
    /\ used = [k \in Keys |-> 0]

Becomes(c, from, to) == call[c] = from /\ call' = [call EXCEPT ![c] = to]

Ask(c) == Becomes(c, "idle", "pending") /\ UNCHANGED used

(* Refused: the calls that wait are too many, counting canceled ones.      *)
Refuse(c) == Becomes(c, "idle", "false") /\ Cardinality(Waiting) >= MaxPending /\ UNCHANGED used

Grant(c) ==
    /\ Becomes(c, "idle", "true") \/ Becomes(c, "pending", "true")
    /\ used[channel[c]] < Rate
    /\ used' = [used EXCEPT ![channel[c]] = @ + 1]

Cancel(c) == Becomes(c, "pending", "canceled") /\ UNCHANGED used

Period == used' = [k \in Keys |-> 0] /\ UNCHANGED call

Next ==
    /\ Period \/ \E c \in Callers : Ask(c) \/ Refuse(c) \/ Grant(c) \/ Cancel(c)
    /\ UNCHANGED channel

Served == \A c \in Callers : call[c] = "pending" ~> call[c] # "pending"

Spec == Init /\ [][Next]_<<call, channel, used>> /\ Served
=============================================================================
