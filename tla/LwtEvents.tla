------------------------------ MODULE LwtEvents ------------------------------
(***************************************************************************)
(* What lwt_engine.mli promises of events: their functions are called when *)
(* a descriptor is ready or a delay has passed, and only until the event   *)
(* is stopped.                                                             *)
(***************************************************************************)
EXTENDS Integers, Sequences

CONSTANTS IoEvents, Timers, Delays, Sides, NoSide

VARIABLES event,      \* event[e]: "none", "on", "stopped", or "done" for a timer
          side,       \* what an event is registered on
          left,       \* the time until a timer expires
          ready,      \* the descriptors that are ready, or that are not open
          bad,        \*   any more
          running     \* the events whose functions run, each called by the one before

Events == IoEvents \cup Timers

Init ==
    /\ event = [e \in Events |-> "none"]
    /\ side = [e \in IoEvents |-> NoSide]
    /\ left = [t \in Timers |-> 0]
    /\ ready = {} /\ bad = {}
    /\ running = <<>>

RegisterIo(e, s) ==
    /\ event[e] = "none" /\ event' = [event EXCEPT ![e] = "on"]
    /\ side' = [side EXCEPT ![e] = s]
    /\ UNCHANGED <<left, ready, bad, running>>

RegisterTimer(t, d) ==
    /\ event[t] = "none" /\ event' = [event EXCEPT ![t] = "on"]
    /\ left' = [left EXCEPT ![t] = d]
    /\ UNCHANGED <<side, ready, bad, running>>

Stop(e) == event' = [event EXCEPT ![e] = "stopped"] /\ UNCHANGED <<side, left, ready, bad, running>>

Call(e) ==
    /\ event[e] = "on"
    /\ running' = Append(running, e)
    /\ \/ e \in IoEvents /\ UNCHANGED <<event, left>>
       \/ /\ e \in Timers /\ left[e] = 0
          /\ \/ event' = [event EXCEPT ![e] = "done"] /\ UNCHANGED left
             \/ \E d \in Delays : left' = [left EXCEPT ![e] = d] /\ UNCHANGED event
    /\ UNCHANGED <<side, ready, bad>>

Return ==
    /\ running # <<>>
    /\ running' = SubSeq(running, 1, Len(running) - 1)
    /\ UNCHANGED <<event, side, left, ready, bad>>

Environment ==
    /\ \/ ready' \in SUBSET Sides /\ UNCHANGED <<bad, left>>
       \/ bad' \in SUBSET Sides /\ UNCHANGED <<ready, left>>
       \/ left' = [t \in Timers |-> IF left[t] > 0 THEN left[t] - 1 ELSE 0] /\ UNCHANGED <<ready, bad>>
    /\ UNCHANGED <<event, side, running>>

Next ==
    \/ \E e \in IoEvents, s \in Sides : RegisterIo(e, s)
    \/ \E t \in Timers, d \in Delays : RegisterTimer(t, d)
    \/ \E e \in Events : Stop(e) \/ Call(e)
    \/ Return
    \/ Environment

Runs(e) == running # <<>> /\ running[Len(running)] = e

(* Every event is served, unless descriptors are left in it that are not   *)
(* open any more.                                                          *)
Served ==
    /\ \A e \in IoEvents :
          event[e] = "on" /\ side[e] \in ready ~>
              event[e] # "on" \/ side[e] \notin ready \/ Runs(e) \/ bad # {}
    /\ \A t \in Timers : event[t] = "on" ~> event[t] # "on" \/ Runs(t)

eventVars == <<event, side, left, ready, bad, running>>
Spec == Init /\ [][Next]_eventVars /\ Served
=============================================================================
