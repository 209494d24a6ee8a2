----------------------------- MODULE LwtTimeout -----------------------------
(***************************************************************************)
(* Lwt_timeout, src/unix/lwt_timeout.ml: a wheel of buckets that a loop    *)
(* turns once a second.  Programs call the module from anywhere, from the  *)
(* actions of timeouts too.  An exception of an action is handled; one of  *)
(* the handler ends the program, as the default handler does.              *)
(***************************************************************************)
EXTENDS Integers, Sequences

CONSTANTS Timeouts, Durations, Off

ASSUME TimeoutAssumption ==
    /\ Durations \subseteq Nat \ {0}
    /\ Off \notin Nat

VARIABLES wheel,         \* buckets and curr
          delay,         \* the field of each timeout, 0 before its creation
          started,       \* count
          loop_stopped,  \* stopped
          loop_at        \* where the loop is

timeoutVars == <<wheel, delay, started, loop_stopped, loop_at>>

TimeoutTypeOK ==
    /\ wheel.buckets \in Seq(Seq(Timeouts))
    /\ wheel.curr \in 0..Len(wheel.buckets)
    /\ delay \in [Timeouts -> Durations \cup {0}]
    /\ started \in Nat
    /\ loop_stopped \in BOOLEAN
    /\ loop_at \in {"none", "sleep", "bucket", "action"}

TimeoutInit ==
    /\ wheel = [buckets |-> <<>>, curr |-> 0]
    /\ delay = [x \in Timeouts |-> 0]
    /\ started = 0
    /\ loop_stopped = TRUE
    /\ loop_at = "none"

(* User code runs: the loop sleeps or has ended, or is in an action.       *)
LoopWaits == loop_at # "bucket"

InBucket(w, i, x) == \E j \in DOMAIN w.buckets[i] : w.buckets[i][j] = x
lst_in_list(x) == \E i \in DOMAIN wheel.buckets : InBucket(wheel, i, x)

(* The list of a bucket without the node of x.                             *)
Unlinked(list, x) ==
    LET place == CHOOSE j \in DOMAIN list : list[j] = x
    IN  SubSeq(list, 1, place - 1) \o SubSeq(list, place + 1, Len(list))

lst_remove(w, x) ==
    [w EXCEPT !.buckets = [i \in DOMAIN @ |->
        IF InBucket(w, i, x) THEN Unlinked(@[i], x) ELSE @[i]]]

(* Into the bucket d places from the current one, as its first.            *)
lst_insert(w, d, x) ==
    [w EXCEPT !.buckets[1 + ((w.curr + d) % Len(w.buckets))] = <<x>> \o @]

Grown(bs, l) == bs \o [i \in 1..(l + 1 - Len(bs)) |-> <<>>]

\* Mutant: the buckets keep their places and curr is reset.
size_unrotated(l) ==
    IF l < Len(wheel.buckets) THEN wheel
    ELSE [buckets |-> Grown(wheel.buckets, l), curr |-> 0]

(* The wheel with room for a delay of l: when it grows, the buckets from   *)
(* curr on come first and then the others.                                 *)
size(l) ==
    IF l < Len(wheel.buckets) THEN wheel
    ELSE [buckets |-> Grown(SubSeq(wheel.buckets, wheel.curr + 1, Len(wheel.buckets))
                                \o SubSeq(wheel.buckets, 1, wheel.curr), l),
          curr |-> 0]

create(x, d) ==
    /\ LoopWaits
    /\ delay[x] = 0
    /\ delay' = [delay EXCEPT ![x] = d]
    /\ wheel' = size(d)
    /\ UNCHANGED <<started, loop_stopped, loop_at>>

(* start, in the wheel w; loop() up to its sleep is included.              *)
StartIn(w, x) ==
    /\ wheel' = lst_insert(lst_remove(w, x), delay'[x], x)
    /\ started' = IF lst_in_list(x) THEN started ELSE started + 1
    /\ LET begins == ~lst_in_list(x) /\ started' = 1 /\ loop_stopped
       IN  /\ loop_stopped' = (loop_stopped /\ ~begins)
           /\ loop_at' = IF begins THEN "sleep" ELSE loop_at

start(x) ==
    /\ LoopWaits
    /\ delay[x] # 0
    /\ UNCHANGED delay
    /\ StartIn(wheel, x)

stop(x) ==
    /\ LoopWaits
    /\ lst_in_list(x)
    /\ wheel' = lst_remove(wheel, x)
    /\ started' = started - 1
    /\ UNCHANGED <<delay, loop_stopped, loop_at>>

change(x, d) ==
    /\ LoopWaits
    /\ delay[x] # 0
    /\ delay' = [delay EXCEPT ![x] = d]
    /\ \/ lst_in_list(x) /\ StartIn(size(d), x)
       \/ /\ ~lst_in_list(x)
          /\ wheel' = size(d)
          /\ UNCHANGED <<started, loop_stopped, loop_at>>
-----------------------------------------------------------------------------
(* The sleep of one second ends.                                           *)
loop_wakes ==
    /\ loop_at = "sleep"
    /\ loop_at' = "bucket"
    /\ UNCHANGED <<wheel, delay, started, loop_stopped>>

(* The list of the bucket, which stays the current one while actions run.  *)
Current == wheel.buckets[wheel.curr + 1]

loop_action ==
    /\ loop_at = "bucket"
    /\ Current # <<>>
    /\ wheel' = lst_remove(wheel, Head(Current))
    /\ started' = started - 1
    /\ loop_at' = "action"
    /\ UNCHANGED <<delay, loop_stopped>>

action_ends ==
    /\ loop_at = "action"
    /\ loop_at' = "bucket"
    /\ UNCHANGED <<wheel, delay, started, loop_stopped>>

\* Mutant: the loop ends without a word.
loop_turns_silent ==
    /\ loop_at = "bucket"
    /\ Current = <<>>
    /\ wheel' = [wheel EXCEPT !.curr = (@ + 1) % Len(wheel.buckets)]
    /\ loop_at' = IF started > 0 THEN "sleep" ELSE "none"
    /\ UNCHANGED <<delay, started, loop_stopped>>

loop_turns ==
    /\ loop_at = "bucket"
    /\ Current = <<>>
    /\ wheel' = [wheel EXCEPT !.curr = (@ + 1) % Len(wheel.buckets)]
    /\ loop_stopped' = (started = 0)
    /\ loop_at' = IF started > 0 THEN "sleep" ELSE "none"
    /\ UNCHANGED <<delay, started>>

LoopStep == loop_wakes \/ loop_action \/ action_ends \/ loop_turns

TimeoutNext ==
    \/ LoopStep
    \/ \E x \in Timeouts : start(x) \/ stop(x) \/ \E d \in Durations : create(x, d) \/ change(x, d)

(* Sleeps and actions end.                                                 *)
TimeoutFairness == WF_timeoutVars(LoopStep)

TimeoutSpec == TimeoutInit /\ [][TimeoutNext]_timeoutVars /\ TimeoutFairness
-----------------------------------------------------------------------------
(* How many times the wheel turns until it comes to a timeout.             *)
Distance(x) ==
    LET n == Len(wheel.buckets)
        places == {i \in 0..(n - 1) : InBucket(wheel, i + 1, x)}
    IN  IF places = {} THEN Off ELSE ((CHOOSE i \in places : TRUE) - wheel.curr) % n

(* lwt_timeout.mli:10: a timeout has a duration, "[f] is the {e action}, a *)
(* function to be called once the timeout expires"; starting it again "has *)
(* the same effect as stopping it, and then restarting it".  However       *)
(* timeouts are created, started, stopped and changed, by actions too, and *)
(* the wheel grows while it turns, each one that stays started is called   *)
(* after its own delay, and the loop runs as long as there is one.         *)
Alarms == INSTANCE LwtAlarms WITH left <- [x \in Timeouts |-> Distance(x)]
RefinesAlarms == Alarms!Spec
=============================================================================
