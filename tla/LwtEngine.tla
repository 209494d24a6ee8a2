------------------------------ MODULE LwtEngine ------------------------------
(***************************************************************************)
(* The engines of select and poll (src/unix/lwt_engine.ml) under the loop  *)
(* of Lwt_main.run.  The two maps of actions are alike: a side is one of   *)
(* the two of a descriptor.  Time is what is left until a timer expires.   *)
(* Functions of events may register, stop and simulate events.             *)
(***************************************************************************)
EXTENDS Integers, Sequences, SequencesExt

CONSTANTS Sides, IoEvents, Timers, Delays, NoSide, NoEvent,
          EnginePrograms,  \* programs: the events each uses, "fake" and "close"
          MaxNesting       \* bound on the calls of fake_io under way

ASSUME EngineAssumption ==
    /\ IoEvents \cap Timers = {}
    /\ NoEvent \notin IoEvents \cup Timers
    /\ NoSide \notin Sides
    /\ Delays \subseteq Nat

VARIABLES engine_program,  \* the one that runs
          event,           \* what became of each event
          side,            \* what an event is registered on
          repeat,          \* the delay after which a timer is called again, -1 if once
          left,            \* the field time of the sleepers
          actions,         \* wait_readable, wait_writable; empty if not in the map
          sleep_queue,
          new_sleeps,
          expired,         \* the sleepers whose time is not after now, in restart_actions
          found,           \* the descriptors of select, still to be invoked
          frames,          \* the iterations over actions under way
          main_at,         \* where the main loop is
          block,           \* the argument of iter
          ready, bad       \* external: descriptors that are ready, or not open

engineVars == <<engine_program, event, side, repeat, left, actions, sleep_queue, new_sleeps, expired,
                found, frames, main_at, block, ready, bad>>
envVars == <<engine_program, ready, bad>>
timerVars == <<repeat, left, sleep_queue, new_sleeps>>
iterVars == <<expired, found, main_at, block>>

Frame == [visit : Seq(IoEvents), on : Sides \cup {NoSide}, at : IoEvents \cup Timers \cup {NoEvent}]

EngineTypeOK ==
    /\ event \in [IoEvents \cup Timers -> {"none", "on", "stopped", "done"}]
    /\ side \in [IoEvents -> Sides \cup {NoSide}]
    /\ repeat \in [Timers -> Delays \cup {-1}]
    /\ left \in [Timers -> Nat]
    /\ actions \in [Sides -> Seq(IoEvents)]
    /\ sleep_queue \subseteq Timers
    /\ new_sleeps \subseteq Timers
    /\ expired \subseteq Timers
    /\ found \in Seq(Sides)
    /\ frames \in Seq(Frame)
    /\ main_at \in {"user", "select", "timers", "fds"}
    /\ block \in BOOLEAN
    /\ ready \subseteq Sides /\ bad \subseteq Sides

EngineInit ==
    /\ engine_program \in EnginePrograms
    /\ event = [e \in IoEvents \cup Timers |-> "none"]
    /\ side = [e \in IoEvents |-> NoSide]
    /\ repeat = [t \in Timers |-> -1]
    /\ left = [t \in Timers |-> 0]
    /\ actions = [s \in Sides |-> <<>>]
    /\ sleep_queue = {} /\ new_sleeps = {} /\ expired = {}
    /\ found = <<>> /\ frames = <<>>
    /\ main_at = "user" /\ block = FALSE
    /\ ready = {} /\ bad = {}

(* User code runs: hooks and paused promises of the main loop, or the      *)
(* function of an event.                                                   *)
Top == frames[Len(frames)]
UserRuns == IF frames = <<>> THEN main_at = "user" ELSE Top.at # NoEvent

Without(list, e) == SelectSeq(list, LAMBDA d : d # e)
-----------------------------------------------------------------------------
(* on_readable, on_writable: the action goes in front of those of its      *)
(* side, where an iteration does not find it, and the event behind all in  *)
(* readables, where a fake_io under way comes to it.                       *)
on_readable(e, s) ==
    /\ UserRuns
    /\ e \in engine_program
    /\ event[e] = "none"
    /\ event' = [event EXCEPT ![e] = "on"]
    /\ side' = [side EXCEPT ![e] = s]
    /\ actions' = [actions EXCEPT ![s] = <<e>> \o @]
    /\ frames' = [i \in DOMAIN frames |->
                     IF frames[i].on = s THEN [frames[i] EXCEPT !.visit = Append(@, e)]
                                         ELSE frames[i]]
    /\ UNCHANGED <<timerVars, iterVars, envVars>>

on_timer(t, d, again) ==
    /\ UserRuns
    /\ t \in engine_program
    /\ event[t] = "none"
    /\ event' = [event EXCEPT ![t] = "on"]
    /\ left' = [left EXCEPT ![t] = d]
    /\ repeat' = [repeat EXCEPT ![t] = IF again THEN d ELSE -1]
    /\ new_sleeps' = new_sleeps \cup {t}
    /\ UNCHANGED <<side, actions, sleep_queue, frames, iterVars, envVars>>

\* Mutant: the entry of the descriptor is removed with its first action.
stop_event_entry(e) ==
    /\ UserRuns
    /\ event[e] # "none"
    /\ event' = [event EXCEPT ![e] = "stopped"]
    /\ actions' = [s \in Sides |-> IF e \in ToSet(actions[s]) THEN <<>> ELSE actions[s]]
    /\ frames' = [i \in DOMAIN frames |-> [frames[i] EXCEPT !.visit = Without(@, e)]]
    /\ UNCHANGED <<side, timerVars, iterVars, envVars>>

(* A sleeper is only marked; an action leaves its sequence and those       *)
(* iterations over it that have not come to it.                            *)
stop_event(e) ==
    /\ UserRuns
    /\ event[e] # "none"
    /\ event' = [event EXCEPT ![e] = "stopped"]
    /\ actions' = [s \in Sides |-> Without(actions[s], e)]
    /\ frames' = [i \in DOMAIN frames |-> [frames[i] EXCEPT !.visit = Without(@, e)]]
    /\ UNCHANGED <<side, timerVars, iterVars, envVars>>

(* Simulated activity: the events of the side, in the order of their       *)
(* registration.                                                           *)
fake_io(s) ==
    /\ UserRuns
    /\ "fake" \in engine_program
    /\ Len(frames) < MaxNesting
    /\ actions[s] # <<>>
    /\ frames' = Append(frames, [visit |-> Reverse(actions[s]), on |-> s, at |-> NoEvent])
    /\ UNCHANGED <<event, side, timerVars, actions, iterVars, envVars>>
-----------------------------------------------------------------------------
(* Lwt_main.run: blocking depends on whether promises are paused.          *)
begin_iter ==
    /\ frames = <<>> /\ main_at = "user"
    /\ main_at' = "select"
    /\ block' \in BOOLEAN
    /\ sleep_queue' = sleep_queue \cup new_sleeps
    /\ new_sleeps' = {}
    /\ UNCHANGED <<event, side, repeat, left, actions, expired, found, frames, envVars>>

Polled == {s \in Sides : actions[s] # <<>>}

\* Mutant: a sleeper that was stopped hides those behind it.
TimedOut_hidden ==
    \E t \in sleep_queue :
        left[t] = 0 /\ \A u \in sleep_queue : left[u] = 0 => event[u] # "stopped"

(* The timeout that get_next_timeout gives, past those that were stopped,  *)
(* is over; there is none if no sleeper is left.                           *)
TimedOut == \E t \in sleep_queue : event[t] # "stopped" /\ left[t] = 0

(* What comes after select, found in hand: the time is read.               *)
Return(fds) ==
    /\ main_at = "select"
    /\ found' = fds
    /\ expired' = {t \in sleep_queue : left[t] = 0}
    /\ main_at' = "timers"
    /\ UNCHANGED <<event, side, timerVars, actions, frames, block, envVars>>

(* select: what is ready, at once or, if it blocks, when there is          *)
(* something or the timeout is over; or the descriptors that are not open, *)
(* if there is one.                                                        *)
select ==
    \/ /\ Polled \cap bad # {}
       /\ \E fds \in SetToSeqs(Polled \cap bad) : Return(fds)
    \/ /\ Polled \cap bad = {}
       /\ Polled \cap ready # {} \/ ~block \/ TimedOut
       /\ \E fds \in SetToSeqs(Polled \cap ready) : Return(fds)

(* EINTR: a signal comes while it blocks.                                  *)
select_interrupted == block /\ Polled \cap (bad \cup ready) = {} /\ Return(<<>>)

Act(e) == frames' = Append(frames, [visit |-> <<>>, on |-> NoSide, at |-> e])

(* restart_actions: the sleepers whose time has come, each taken out       *)
(* before its action runs; one that repeats goes to new_sleeps.            *)
restart_action(t) ==
    /\ main_at = "timers" /\ frames = <<>>
    /\ t \in expired
    /\ expired' = expired \ {t}
    /\ sleep_queue' = sleep_queue \ {t}
    /\ \/ event[t] = "stopped" /\ UNCHANGED <<event, left, new_sleeps, frames>>
       \/ /\ event[t] # "stopped" /\ repeat[t] = -1
          /\ event' = [event EXCEPT ![t] = "done"]
          /\ Act(t)
          /\ UNCHANGED <<left, new_sleeps>>
       \/ /\ event[t] # "stopped" /\ repeat[t] # -1
          /\ left' = [left EXCEPT ![t] = repeat[t]]
          /\ new_sleeps' = new_sleeps \cup {t}
          /\ Act(t)
          /\ UNCHANGED event
    /\ UNCHANGED <<side, repeat, actions, found, main_at, block, envVars>>

timers_done ==
    /\ main_at = "timers" /\ frames = <<>> /\ expired = {}
    /\ main_at' = "fds"
    /\ UNCHANGED <<event, side, timerVars, actions, expired, found, frames, block, envVars>>

(* The map is looked up when its turn comes, after other actions have run. *)
invoke_actions ==
    /\ main_at = "fds" /\ frames = <<>>
    /\ found # <<>>
    /\ found' = Tail(found)
    /\ frames' = <<[visit |-> actions[Head(found)], on |-> NoSide, at |-> NoEvent]>>
    /\ UNCHANGED <<event, side, timerVars, actions, expired, main_at, block, envVars>>

end_iter ==
    /\ main_at = "fds" /\ frames = <<>>
    /\ found = <<>>
    /\ main_at' = "user"
    /\ UNCHANGED <<event, side, timerVars, actions, expired, found, frames, block, envVars>>

SetTop(f) == frames' = [frames EXCEPT ![Len(frames)] = f]

(* The function of an event, or of the i-th iteration under way, returns.  *)
action_returns(i) ==
    /\ Len(frames) = i
    /\ Top.at # NoEvent
    /\ SetTop([Top EXCEPT !.at = NoEvent])
    /\ UNCHANGED <<event, side, timerVars, actions, iterVars, envVars>>

(* An iteration calls the next function, or ends.                          *)
iter_l ==
    /\ frames # <<>>
    /\ Top.at = NoEvent
    /\ \/ /\ Top.visit # <<>>
          /\ SetTop([Top EXCEPT !.at = Head(Top.visit), !.visit = Tail(Top.visit)])
       \/ /\ Top.visit = <<>>
          /\ frames' = Front(frames)
    /\ UNCHANGED <<event, side, timerVars, actions, iterVars, envVars>>

EngineStep ==
    \/ select \/ timers_done \/ invoke_actions \/ end_iter \/ iter_l
    \/ \E t \in Timers : restart_action(t)

(* Descriptors become ready or are read, they are closed, and time passes. *)
Readiness ==
    /\ \E s \in Sides : ready' = (ready \ {s}) \cup ({s} \ ready)
    /\ UNCHANGED <<event, side, timerVars, actions, iterVars, frames, engine_program, bad>>

Closing ==
    /\ UserRuns
    /\ "close" \in engine_program
    /\ \E s \in Sides : bad' = (bad \ {s}) \cup ({s} \ bad)
    /\ UNCHANGED <<event, side, timerVars, actions, iterVars, frames, engine_program, ready>>

Clock ==
    /\ \E t \in Timers : left[t] > 0
    /\ left' = [t \in Timers |-> IF left[t] > 0 THEN left[t] - 1 ELSE 0]
    /\ UNCHANGED <<event, side, repeat, sleep_queue, new_sleeps, actions, iterVars, frames, envVars>>

EngineNext ==
    \/ \E e \in IoEvents, s \in Sides : on_readable(e, s)
    \/ \E t \in Timers, d \in Delays, again \in BOOLEAN : on_timer(t, d, again)
    \/ \E e \in IoEvents \cup Timers : stop_event(e)
    \/ \E s \in Sides : fake_io(s)
    \/ begin_iter
    \/ EngineStep
    \/ select_interrupted
    \/ \E i \in 1..MaxNesting : action_returns(i)
    \/ Readiness \/ Closing \/ Clock

(* The code of the engine runs and time passes, but no signal need come to *)
(* end a select that blocks; user code ends, which may do much before it   *)
(* does: hence the strong fairness.                                        *)
EngineFairness ==
    /\ WF_engineVars(EngineStep) /\ WF_engineVars(Clock)
    /\ SF_engineVars(begin_iter)
    /\ \A i \in 1..MaxNesting : SF_engineVars(action_returns(i))

EngineSpec == EngineInit /\ [][EngineNext]_engineVars /\ EngineFairness
-----------------------------------------------------------------------------
Running == LET all == [i \in DOMAIN frames |-> frames[i].at]
           IN  SelectSeq(all, LAMBDA e : e # NoEvent)

(* lwt_engine.mli:29: on_readable "calls [f] each time [fd] becomes        *)
(* readable", and on_timer "one time after [delay] seconds" or each delay. *)
(* However functions register and stop events, of their own descriptor and *)
(* of those found in the same iteration, and simulate activity, none is    *)
(* called after its event was stopped or before its time, a timer that     *)
(* does not repeat once, and each is called in the end, unless descriptors *)
(* that are not open keep select from seeing the others.                   *)
Events == INSTANCE LwtEvents WITH running <- Running
RefinesEvents == Events!Spec
=============================================================================
