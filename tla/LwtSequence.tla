---------------------------- MODULE LwtSequence ----------------------------
(***************************************************************************)
(* src/core/lwt_sequence.ml: the circular doubly linked lists that hold    *)
(* every queue of waiters in Lwt.  The model is at the level of the        *)
(* pointers.  A sequence is its own sentinel; a node carries a flag        *)
(* node_active.  An iteration is a small-step process: the function it is  *)
(* given runs between two of its steps and may use the whole interface.    *)
(***************************************************************************)
EXTENDS Naturals, FiniteSets, Sequences

CONSTANTS Seqs,            \* the sequences (create () made them)
          Nodes,           \* the nodes that may be allocated
          NoSeq,           \* what a node that is in no sequence belongs to
          RemoveCleared    \* may a caller remove a node it cleared away?

ASSUME ConstantsAssumption ==
    /\ Seqs # {}
    /\ Seqs \cap Nodes = {}
    /\ NoSeq \notin Seqs
    /\ RemoveCleared \in BOOLEAN

Cells == Seqs \cup Nodes

VARIABLES prev, next,      \* the links of every cell
          active,          \* active[n]: node_active of a node
          used,            \* the nodes allocated so far
          owner,           \* history: the sequence a cell was last put in and
                           \*   not taken out of (a sentinel owns itself)
          iter,            \* the iteration under way
          seen,            \* history: the nodes this iteration passed to f
          stayed           \* history: the nodes that were in the sequence when
                           \*   this iteration began and never left it

links == <<prev, next, active, used, owner>>
vars == <<prev, next, active, used, owner, iter, seen, stayed>>

(* pc "loop": about to test curr; "f": the function has been given curr.   *)
IterStates ==
    [pc : {"idle", "loop", "f"}, seq : Seqs, dir : {"l", "r"}, curr : Cells]

TypeOK ==
    /\ prev \in [Cells -> Cells]
    /\ next \in [Cells -> Cells]
    /\ active \in [Nodes -> BOOLEAN]
    /\ used \subseteq Nodes
    /\ owner \in [Cells -> Seqs \cup {NoSeq}]
    /\ iter \in IterStates
    /\ seen \subseteq Cells
    /\ stayed \subseteq Nodes

NoIteration ==
    LET s == CHOOSE s \in Seqs : TRUE
    IN  [pc |-> "idle", seq |-> s, dir |-> "l", curr |-> s]

(* create: both links of a sentinel point to itself.  A node that is not   *)
(* allocated yet has no fields; the model gives it links to itself.        *)
Init ==
    /\ prev = [c \in Cells |-> c]
    /\ next = [c \in Cells |-> c]
    /\ active = [n \in Nodes |-> FALSE]
    /\ used = {}
    /\ owner = [c \in Cells |-> IF c \in Seqs THEN c ELSE NoSeq]
    /\ iter = NoIteration
    /\ seen = {}
    /\ stayed = {}

is_empty(s) == next[s] = s

(* The nodes of a sequence.                                                *)
Members(s) == {n \in Nodes : owner[n] = s}

(* The function of an iteration is running, or there is no iteration.      *)
Turn == iter.pc \in {"idle", "f"}

(* The addresses of new nodes are interchangeable: allocation is given any *)
(* fixed order.                                                            *)
Fresh == {n \in Nodes \ used : n = CHOOSE m \in Nodes \ used : TRUE}

(* A node leaves the sequence it is in.                                    *)
Leave(ns) ==
    /\ owner' = [c \in Cells |-> IF c \in ns THEN NoSeq ELSE owner[c]]
    /\ stayed' = stayed \ ns
-----------------------------------------------------------------------------
(* The operations                                                          *)

\* Mutant: the links of the removed node are reset.
Unlink_reset(n) ==
    /\ active' = [active EXCEPT ![n] = FALSE]
    /\ next' = [next EXCEPT ![prev[n]] = next[n], ![n] = n]
    /\ prev' = [prev EXCEPT ![next[n]] = prev[n], ![n] = n]
    /\ Leave({n})
    /\ UNCHANGED <<used, iter, seen>>

Unlink(n) ==
    /\ active' = [active EXCEPT ![n] = FALSE]
    /\ next' = [next EXCEPT ![prev[n]] = next[n]]
    /\ prev' = [prev EXCEPT ![next[n]] = prev[n]]
    /\ Leave({n})
    /\ UNCHANGED <<used, iter, seen>>

(* A second remove of the same node finds it inactive and does nothing.    *)
remove(n) ==
    /\ Turn
    /\ n \in used /\ active[n]
    /\ RemoveCleared \/ owner[n] # NoSeq
    /\ Unlink(n)

add_l(s, n) ==
    /\ Turn
    /\ n \in Fresh
    /\ used' = used \cup {n}
    /\ active' = [active EXCEPT ![n] = TRUE]
    /\ prev' = [prev EXCEPT ![n] = s, ![next[s]] = n]
    /\ next' = [next EXCEPT ![n] = next[s], ![s] = n]
    /\ owner' = [owner EXCEPT ![n] = s]
    /\ UNCHANGED <<iter, seen, stayed>>

add_r(s, n) ==
    /\ Turn
    /\ n \in Fresh
    /\ used' = used \cup {n}
    /\ active' = [active EXCEPT ![n] = TRUE]
    /\ next' = [next EXCEPT ![n] = s, ![prev[s]] = n]
    /\ prev' = [prev EXCEPT ![n] = prev[s], ![s] = n]
    /\ owner' = [owner EXCEPT ![n] = s]
    /\ UNCHANGED <<iter, seen, stayed>>

(* take_l and take_opt_l; an empty sequence raises Empty or gives None.    *)
(* node_of_seq is a cast: that the cell is a node follows from WellLinked. *)
take_l(s) ==
    /\ Turn
    /\ ~is_empty(s)
    /\ next[s] \in Nodes /\ active[next[s]]
    /\ Unlink(next[s])

take_r(s) ==
    /\ Turn
    /\ ~is_empty(s)
    /\ prev[s] \in Nodes /\ active[prev[s]]
    /\ Unlink(prev[s])

(* The pointers change one assignment after the other: with an empty s1    *)
(* the third assignment reads what the second one wrote.  No caller moves  *)
(* the nodes out of a sequence it is iterating over.                       *)
NotIterated(s) == iter.pc = "idle" \/ iter.seq # s

(* The nodes of s1 go to s2.                                               *)
Move(s1, s2) ==
    /\ owner' = [c \in Cells |-> IF c \in Members(s1)
                                 THEN IF s1 = s2 THEN NoSeq ELSE s2
                                 ELSE owner[c]]
    /\ stayed' = stayed \ Members(s1)
    /\ UNCHANGED <<active, used, iter, seen>>

transfer_l(s1, s2) ==
    /\ Turn
    /\ NotIterated(s1)
    /\ LET p1 == [prev EXCEPT ![next[s2]] = prev[s1]]
           n1 == [next EXCEPT ![p1[s1]] = next[s2]]
           n2 == [n1 EXCEPT ![s2] = n1[s1]]
           p2 == [p1 EXCEPT ![n2[s1]] = s2]
       IN  /\ prev' = [p2 EXCEPT ![s1] = s1]
           /\ next' = [n2 EXCEPT ![s1] = s1]
    /\ Move(s1, s2)

\* Mutants: the last node keeps its link to s1; the nodes go to the left.
transfer_r_forget(s1, s2) ==
    /\ Turn
    /\ NotIterated(s1)
    /\ LET n1 == [next EXCEPT ![prev[s2]] = next[s1]]
           p1 == [prev EXCEPT ![n1[s1]] = prev[s2]]
           p2 == [p1 EXCEPT ![s2] = p1[s1]]
       IN  /\ prev' = [p2 EXCEPT ![s1] = s1]
           /\ next' = [n1 EXCEPT ![s1] = s1]
    /\ Move(s1, s2)

transfer_r_left(s1, s2) == transfer_l(s1, s2)

transfer_r(s1, s2) ==
    /\ Turn
    /\ NotIterated(s1)
    /\ LET n1 == [next EXCEPT ![prev[s2]] = next[s1]]
           p1 == [prev EXCEPT ![n1[s1]] = prev[s2]]
           p2 == [p1 EXCEPT ![s2] = p1[s1]]
           n2 == [n1 EXCEPT ![p2[s1]] = s2]
       IN  /\ prev' = [p2 EXCEPT ![s1] = s1]
           /\ next' = [n2 EXCEPT ![s1] = s1]
    /\ Move(s1, s2)

(* Only the sentinel changes: the nodes stay active and keep their links.  *)
clear(s) ==
    /\ Turn
    /\ prev' = [prev EXCEPT ![s] = s]
    /\ next' = [next EXCEPT ![s] = s]
    /\ Leave(Members(s))
    /\ UNCHANGED <<active, used, iter, seen>>
-----------------------------------------------------------------------------
(* Iterations: iter_l, iter_node_l, fold_l, find_node_l and their mirrors  *)
(* are the same loop.  It reads the link of a node after f returned.       *)

link(d) == IF d = "l" THEN next ELSE prev

iter_begin(s, d) ==
    /\ iter.pc = "idle"
    /\ iter' = [pc |-> "loop", seq |-> s, dir |-> d, curr |-> link(d)[s]]
    /\ seen' = {}
    /\ stayed' = Members(s)
    /\ UNCHANGED links

iter_end ==
    /\ iter.pc = "loop"
    /\ iter.curr = iter.seq
    /\ iter' = NoIteration
    /\ seen' = {} /\ stayed' = {}
    /\ UNCHANGED links

iter_visit ==
    /\ iter.pc = "loop"
    /\ iter.curr # iter.seq
    /\ active[iter.curr]
    /\ iter' = [iter EXCEPT !.pc = "f"]
    /\ seen' = seen \cup {iter.curr}
    /\ UNCHANGED <<links, stayed>>

\* Mutant: a removed node ends the iteration.
iter_skip_stop ==
    /\ iter.pc = "loop"
    /\ iter.curr # iter.seq
    /\ ~active[iter.curr]
    /\ iter' = [iter EXCEPT !.curr = iter.seq]
    /\ UNCHANGED <<links, seen, stayed>>

iter_skip ==
    /\ iter.pc = "loop"
    /\ iter.curr # iter.seq
    /\ ~active[iter.curr]
    /\ iter' = [iter EXCEPT !.curr = link(iter.dir)[iter.curr]]
    /\ UNCHANGED <<links, seen, stayed>>

iter_return ==
    /\ iter.pc = "f"
    /\ iter' = [iter EXCEPT !.pc = "loop", !.curr = link(iter.dir)[iter.curr]]
    /\ UNCHANGED <<links, seen, stayed>>

Iterate == iter_end \/ iter_visit \/ iter_skip \/ iter_return

Next ==
    \/ \E s \in Seqs, n \in Nodes : add_l(s, n) \/ add_r(s, n)
    \/ \E n \in Nodes : remove(n)
    \/ \E s \in Seqs : take_l(s) \/ take_r(s) \/ clear(s)
    \/ \E s1, s2 \in Seqs : transfer_l(s1, s2) \/ transfer_r(s1, s2)
    \/ \E s \in Seqs, d \in {"l", "r"} : iter_begin(s, d)
    \/ Iterate

(* The loops are straight-line code and the functions given to them        *)
(* return.                                                                 *)
Spec == Init /\ [][Next]_vars /\ WF_vars(Iterate)
-----------------------------------------------------------------------------
(* What must hold                                                          *)

(* The cells that are in a sequence.                                       *)
Linked == {c \in Cells : owner[c] # NoSeq}

(* Around every cell that is in a sequence the two links are inverse, and  *)
(* they stay inside that sequence: no removal, transfer or clear ever      *)
(* leaves a live cell pointing to a node that was taken out or to another  *)
(* sequence (remove, add_l, add_r, transfer_l, transfer_r, clear).         *)
WellLinked ==
    \A c \in Linked :
        /\ next[c] \in Linked /\ prev[next[c]] = c /\ owner[next[c]] = owner[c]
        /\ prev[c] \in Linked /\ next[prev[c]] = c /\ owner[prev[c]] = owner[c]

(* A node is in a sequence only while it is allocated and active, so that  *)
(* remove and take_l always find what they are to take out.                *)
LinkedActive ==
    \A n \in Nodes : owner[n] # NoSeq => n \in used /\ active[n]

(* An iteration gives f every node that was in the sequence from its       *)
(* beginning to its end, and gives it no node twice.                       *)
IterationExact ==
    [][ /\ iter_end => stayed \subseteq seen
        /\ iter_visit => iter.curr \notin seen ]_vars

(* An iteration ends: the links of removed nodes never lead it in a        *)
(* circle.                                                                 *)
IterationEnds == iter.pc # "idle" ~> iter.pc = "idle"
=============================================================================
