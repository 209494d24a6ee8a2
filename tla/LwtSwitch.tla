------------------------------ MODULE LwtSwitch ------------------------------
(***************************************************************************)
(* src/core/lwt_switch.ml: hooks registered on a switch are run when it is *)
(* turned off.  A hook is user code: while turn_off starts the hooks, the  *)
(* ones started may use the switch, and they end when they like.           *)
(***************************************************************************)
EXTENDS Naturals, Sequences

CONSTANT Hooks

VARIABLES state,           \* "on" or "off"
          hooks,           \* the registered hooks, newest first
          todo,            \* those turn_off has yet to start
          joined,          \* those turn_off waits for
          hook,            \* hook[h]: what has become of h
          result           \* the promise of the turn_off that found it on

switchVars == <<state, hooks, todo, joined, hook, result>>

SwitchTypeOK ==
    /\ state \in {"on", "off"}
    /\ hooks \in Seq(Hooks)
    /\ todo \in Seq(Hooks)
    /\ joined \subseteq Hooks
    /\ hook \in [Hooks -> {"free", "registered", "refused", "running", "done", "failed"}]
    /\ result \in {"none", "Pending", "Fulfilled", "Rejected"}

SwitchInit ==
    /\ state = "on"
    /\ hooks = <<>>
    /\ todo = <<>>
    /\ joined = {}
    /\ hook = [h \in Hooks |-> "free"]
    /\ result = "none"

(* add_hook; on a switch that is off it raises Off.                        *)
add_hook(h) ==
    /\ hook[h] = "free"
    /\ \/ /\ state = "on"
          /\ hooks' = <<h>> \o hooks
          /\ hook' = [hook EXCEPT ![h] = "registered"]
       \/ /\ state = "off"
          /\ hook' = [hook EXCEPT ![h] = "refused"]
          /\ UNCHANGED hooks
    /\ UNCHANGED <<state, todo, joined, result>>

(* add_hook_or_exec on a switch that is off calls the hook; on one that is *)
(* on it is add_hook.                                                      *)
add_hook_or_exec(h) ==
    /\ state = "off"
    /\ hook[h] = "free"
    /\ hook' = [hook EXCEPT ![h] = "running"]
    /\ UNCHANGED <<state, hooks, todo, joined, result>>

(* A second turn_off finds the switch off and returns at once.             *)
turn_off ==
    /\ state = "on"
    /\ state' = "off"
    /\ hooks' = <<>>
    /\ todo' = hooks
    /\ result' = "Pending"
    /\ UNCHANGED <<joined, hook>>

\* Mutant: the exception of a hook leaves turn_off.
start_hook_raise ==
    /\ todo # <<>>
    /\ joined' = joined \cup {Head(todo)}
    /\ \/ /\ hook' = [hook EXCEPT ![Head(todo)] = "running"]
          /\ todo' = Tail(todo)
          /\ UNCHANGED result
       \/ /\ hook' = [hook EXCEPT ![Head(todo)] = "failed"]
          /\ todo' = <<>>
          /\ result' = "none"
    /\ UNCHANGED <<state, hooks>>

(* Lwt.apply hook (): an exception is a failed promise.                    *)
start_hook ==
    /\ todo # <<>>
    /\ todo' = Tail(todo)
    /\ joined' = joined \cup {Head(todo)}
    /\ \E outcome \in {"running", "failed"} :
           hook' = [hook EXCEPT ![Head(todo)] = outcome]
    /\ UNCHANGED <<state, hooks, result>>

end_hook(h) ==
    /\ hook[h] = "running"
    /\ \E outcome \in {"done", "failed"} : hook' = [hook EXCEPT ![h] = outcome]
    /\ UNCHANGED <<state, hooks, todo, joined, result>>

\* Mutant: the first hook to fail is not waited for with the others.
join_eager ==
    /\ result = "Pending" /\ todo = <<>>
    /\ \/ /\ \E h \in joined : hook[h] = "failed"
          /\ result' = "Rejected"
       \/ /\ \A h \in joined : hook[h] = "done"
          /\ result' = "Fulfilled"
    /\ UNCHANGED <<state, hooks, todo, joined, hook>>

(* The join of the hooks is resolved.                                      *)
join ==
    /\ result = "Pending" /\ todo = <<>>
    /\ \A h \in joined : hook[h] \in {"done", "failed"}
    /\ result' = IF \E h \in joined : hook[h] = "failed" THEN "Rejected" ELSE "Fulfilled"
    /\ UNCHANGED <<state, hooks, todo, joined, hook>>

SwitchNext ==
    \/ \E h \in Hooks : add_hook(h) \/ add_hook_or_exec(h) \/ end_hook(h)
    \/ turn_off \/ start_hook \/ join

(* turn_off starts all the hooks, and hooks end.                           *)
SwitchFairness ==
    /\ WF_switchVars(start_hook)
    /\ WF_switchVars(join)
    /\ \A h \in Hooks : WF_switchVars(end_hook(h))

SwitchSpec == SwitchInit /\ [][SwitchNext]_switchVars /\ SwitchFairness
-----------------------------------------------------------------------------
(* lwt_switch.mli: turn_off "calls all registered hooks, waits for all of  *)
(* them to terminate, then returns.  If one of the hooks failed, it will   *)
(* fail".                                                                  *)
TurnOffWaits ==
    result \in {"Fulfilled", "Rejected"} =>
        /\ \A h \in Hooks : hook[h] # "registered"
        /\ \A h \in joined : hook[h] \in {"done", "failed"}
        /\ result = "Rejected" <=> \E h \in joined : hook[h] = "failed"

(* A switch that is turned off finishes turning off.                       *)
TurnOffEnds == state = "off" ~> result \in {"Fulfilled", "Rejected"}
=============================================================================
