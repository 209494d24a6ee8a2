---------------------------- MODULE MCSequence ----------------------------
(* Model checking of LwtSequence, and of its refinement of LwtDeque.       *)
EXTENDS LwtSequence

(* The nodes met following next from s until a sentinel (none if no        *)
(* sentinel is met, which WellLinked excludes).                            *)
Walk(s) ==
    LET succ[k \in 0..Cardinality(Nodes)] ==
            IF k = 0 THEN next[s] ELSE next[succ[k - 1]]
        ends == {k \in DOMAIN succ : succ[k] \in Seqs}
        len == IF ends = {} THEN 0 ELSE CHOOSE k \in ends : \A j \in ends : k <= j
    IN  [i \in 1..len |-> succ[i - 1]]

Deque == INSTANCE LwtDeque WITH content <- [s \in Seqs |-> Walk(s)]

(* Following the links next from every sentinel, lwt_sequence.ml behaves   *)
(* as the double-ended queues of LwtDeque: every step of the pointers is   *)
(* a step of the queues or leaves them unchanged, and it is the step of    *)
(* the operation's name (a self-transfer empties the sequence).            *)
RefinesDeque ==
    /\ Deque!Spec
    /\ [][\A s, t \in Seqs, n \in Nodes :
            /\ add_l(s, n) => Deque!AddL(s, n)
            /\ add_r(s, n) => Deque!AddR(s, n)
            /\ take_l(s) => Deque!TakeOut(Head(Walk(s)))
            /\ take_r(s) => Deque!TakeOut(Walk(s)[Len(Walk(s))])
            /\ transfer_l(s, t) /\ s # t => Deque!TransferL(s, t)
            /\ transfer_r(s, t) /\ s # t => Deque!TransferR(s, t)]_vars
=============================================================================
