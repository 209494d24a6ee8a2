------------------------------- MODULE MCLoop -------------------------------
(* The parts that the main loop turns: paused promises; the events of the  *)
(* engine; the wheel of timeouts; or the cleaner of a throttle.            *)
EXTENDS LwtPause, LwtEngine, LwtTimeout, LwtThrottle

VARIABLE part

LoopInit ==
    /\ PauseInit /\ EngineInit /\ TimeoutInit /\ ThrottleInit
    /\ part \in {"pause", "engine", "timeout", "throttle"}
    /\ part # "pause" => program = CHOOSE p \in Programs : TRUE
    /\ part # "engine" => engine_program = CHOOSE p \in EnginePrograms : TRUE
    /\ part # "throttle" => key = [c \in Callers |-> CHOOSE k \in Keys : TRUE]

LoopNext ==
    /\ \/ /\ part = "pause" /\ PauseNext
          /\ UNCHANGED <<engineVars, timeoutVars, throttleVars>>
       \/ /\ part = "engine" /\ EngineNext
          /\ UNCHANGED <<allVars, timeoutVars, throttleVars>>
       \/ /\ part = "timeout" /\ TimeoutNext
          /\ UNCHANGED <<allVars, engineVars, throttleVars>>
       \/ /\ part = "throttle" /\ ThrottleNext
          /\ UNCHANGED <<allVars, engineVars, timeoutVars>>
    /\ UNCHANGED part

(* The fairness of the parts, of the one that runs: in the others, say,    *)
(* begin_iter is enabled for ever and never taken.                         *)
In(p, A) == part = p /\ A

LoopFairness ==
    /\ WF_engineVars(In("engine", EngineStep)) /\ WF_engineVars(In("engine", Clock))
    /\ SF_engineVars(In("engine", begin_iter))
    /\ \A i \in 1..MaxNesting : SF_engineVars(In("engine", action_returns(i)))
    /\ WF_timeoutVars(In("timeout", LoopStep))
    /\ WF_throttleVars(In("throttle", clean_table))
    /\ WF_throttleVars(In("throttle", wakeup_next))

LoopSpec ==
    /\ LoopInit
    /\ [][LoopNext]_<<allVars, engineVars, timeoutVars, throttleVars, part>>
    /\ LoopFairness
=============================================================================
