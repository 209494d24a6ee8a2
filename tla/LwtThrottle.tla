---------------------------- MODULE LwtThrottle ----------------------------
(***************************************************************************)
(* Lwt_throttle, src/unix/lwt_throttle.ml: calls of wait on several keys,  *)
(* and the cleaner that lets the next ones through every second.           *)
(***************************************************************************)
EXTENDS Integers, Sequences, FiniteSets, SequencesExt, FiniteSetsExt

CONSTANTS Keys, Rate,
          MaxPending,   \* the argument max
          MaxCalls      \* bound on the calls of wait

Callers == 1..MaxCalls

ASSUME ThrottleAssumption == Rate \in Nat \ {0} /\ MaxPending \in Nat \ {0}

VARIABLES consumed,     \* the field of a key's entry; 0 without an entry
          queue,        \* the field of that name
          waiting,
          cleaning,     \* whether the field is not None
          cleaners,     \* the calls of launch_cleaning that sleep
          to_run,       \* what clean_table has still to wake
          caller,       \* the promise of each call
          key,          \* the key of each call
          granted       \* history: the calls let through since the last cleaning

throttleVars == <<consumed, queue, waiting, cleaning, cleaners, to_run, caller, key, granted>>

ThrottleTypeOK ==
    /\ consumed \in [Keys -> 0..Rate]
    /\ queue \in [Keys -> Seq(Callers)]
    /\ waiting \in Nat
    /\ cleaning \in BOOLEAN
    /\ cleaners \in Nat
    /\ to_run \in Seq(Callers)
    /\ caller \in [Callers -> {"idle", "pending", "true", "false", "canceled"}]
    /\ key \in [Callers -> Keys]
    /\ granted \in [Keys -> Nat]

ThrottleInit ==
    /\ consumed = [k \in Keys |-> 0]
    /\ queue = [k \in Keys |-> <<>>]
    /\ waiting = 0
    /\ cleaning = FALSE
    /\ cleaners = 0
    /\ to_run = <<>>
    /\ caller = [c \in Callers |-> "idle"]
    /\ key \in [Callers -> Keys]
    /\ granted = [k \in Keys |-> 0]

Resolve(c, result) ==
    /\ caller' = [caller EXCEPT ![c] = result]
    /\ granted' = IF result = "true" THEN [granted EXCEPT ![key[c]] = @ + 1] ELSE granted

NextCall(c) == caller[c] = "idle" /\ \A d \in 1..(c - 1) : caller[d] # "idle"

(* The end of wait.                                                        *)
EnsureCleaning ==
    /\ cleaning' = TRUE
    /\ cleaners' = IF cleaning THEN cleaners ELSE cleaners + 1

(* wait, of a key that has been used less than rate times, or not at all.  *)
wait_passes(c) ==
    /\ NextCall(c)
    /\ consumed[key[c]] < Rate
    /\ consumed' = [consumed EXCEPT ![key[c]] = @ + 1]
    /\ Resolve(c, "true")
    /\ EnsureCleaning
    /\ UNCHANGED <<queue, waiting, to_run, key>>

really_wait(c) ==
    /\ NextCall(c)
    /\ consumed[key[c]] >= Rate
    /\ \/ /\ MaxPending > waiting
          /\ queue' = [queue EXCEPT ![key[c]] = Append(@, c)]
          /\ waiting' = waiting + 1
          /\ Resolve(c, "pending")
       \/ /\ MaxPending <= waiting
          /\ Resolve(c, "false")
          /\ UNCHANGED <<queue, waiting>>
    /\ EnsureCleaning
    /\ UNCHANGED <<consumed, to_run, key>>

(* The promise of a call is one of Lwt.task; it stays in the queue.        *)
cancel_wait(c) ==
    /\ caller[c] = "pending"
    /\ Resolve(c, "canceled")
    /\ UNCHANGED <<consumed, queue, waiting, cleaning, cleaners, to_run, key>>
-----------------------------------------------------------------------------
Passing(k) == Min({Rate, Len(queue[k])})

\* Mutant: the calls let through are not counted in the new period.
update_key_uncounted(k) == 0

(* What update_key leaves in consumed.                                     *)
update_key(k) == Passing(k)

\* Mutant: the cleaner does not sleep again.
launch_cleaning_once == cleaners - 1

(* The cleaner ends, or sleeps again.                                      *)
launch_cleaning == IF cleaning' THEN cleaners ELSE cleaners - 1

(* clean_table, after the sleep of a second: the keys come in any order,   *)
(* and of each the first calls in its queue pass; the last of them all is  *)
(* woken first.                                                            *)
clean_table ==
    /\ cleaners > 0
    /\ to_run = <<>>
    /\ consumed' = [k \in Keys |-> update_key(k)]
    /\ queue' = [k \in Keys |-> SubSeq(queue[k], Passing(k) + 1, Len(queue[k]))]
    /\ \E ks \in SetToSeqs(Keys) :
          to_run' = Reverse(FlattenSeq([i \in DOMAIN ks |-> SubSeq(queue[ks[i]], 1, Passing(ks[i]))]))
    /\ waiting' = MapThenSumSet(LAMBDA k : Len(queue'[k]), Keys)
    /\ cleaning' = ~(waiting' = 0 /\ to_run' = <<>>)
    /\ cleaners' = launch_cleaning
    /\ granted' = [k \in Keys |-> 0]
    /\ UNCHANGED <<caller, key>>

(* Its end: each call that was not canceled is woken, and its callbacks    *)
(* may call wait.                                                          *)
wakeup_next ==
    /\ to_run # <<>>
    /\ to_run' = Tail(to_run)
    /\ \/ caller[Head(to_run)] = "pending" /\ Resolve(Head(to_run), "true")
       \/ caller[Head(to_run)] # "pending" /\ UNCHANGED <<caller, granted>>
    /\ UNCHANGED <<consumed, queue, waiting, cleaning, cleaners, key>>

ThrottleNext ==
    \/ \E c \in Callers : wait_passes(c) \/ really_wait(c) \/ cancel_wait(c)
    \/ clean_table
    \/ wakeup_next

(* Sleeps end.                                                             *)
ThrottleFairness == WF_throttleVars(clean_table) /\ WF_throttleVars(wakeup_next)

ThrottleSpec == ThrottleInit /\ [][ThrottleNext]_throttleVars /\ ThrottleFairness
-----------------------------------------------------------------------------
(* lwt_throttle.mli:20: a rate is the "Maximum number of promise           *)
(* resolutions per second, per channel", and a promise "will be resolved   *)
(* with [true] at some future time, such that the rate limit of [limiter]  *)
(* is not exceeded".  Between two cleanings no channel exceeds its rate,   *)
(* every call that waits is let through in the end, and none is refused    *)
(* unless MaxPending wait, counting the canceled ones.                            *)
Limiter == INSTANCE LwtLimiter WITH call <- caller, channel <- key, used <- granted
RefinesLimiter == Limiter!Spec
=============================================================================
