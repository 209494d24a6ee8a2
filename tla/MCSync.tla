------------------------------- MODULE MCSync -------------------------------
(* Programs whose threads use a mutex with a condition, a mailbox, a       *)
(* switch or a stream, one of the four each.                               *)
EXTENDS LwtCondition, LwtMvar, LwtSwitch, LwtStream

VARIABLE program

Init ==
    /\ CondInit /\ MvarInit /\ SwitchInit
    /\ program \in {"condition", "mvar", "switch", "stream"}
    /\ StreamInit
    /\ program # "stream" =>
           /\ streamProgram = CHOOSE p \in StreamPrograms : TRUE
           /\ size = CHOOSE n \in Sizes : TRUE

Next ==
    /\ \/ program = "condition" /\ CondNext /\ UNCHANGED <<mvarState, switchVars, streamVars>>
       \/ program = "mvar" /\ MvarNext /\ UNCHANGED <<locked, waiters, condState, switchVars, streamVars>>
       \/ program = "switch" /\ SwitchNext /\ UNCHANGED <<condVars, mvarState, streamVars>>
       \/ program = "stream" /\ StreamNext /\ UNCHANGED <<condVars, mvarState, switchVars>>
    /\ UNCHANGED program

Spec ==
    /\ Init
    /\ [][Next]_<<condVars, mvarVars, switchVars, streamVars, program>>
    /\ CondFairness
    /\ SwitchFairness
    /\ StreamFairness
=============================================================================
