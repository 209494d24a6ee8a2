------------------------------ MODULE LwtDeque ------------------------------
(***************************************************************************)
(* What Lwt_sequence promises (src/core/lwt_sequence.mli): every sequence  *)
(* is a double-ended queue of nodes, a node can be removed from wherever   *)
(* it is, and a whole queue can be moved to an end of another.  Iterating  *)
(* never changes a queue.                                                  *)
(***************************************************************************)
EXTENDS Sequences, SequencesExt

CONSTANTS Seqs,     \* the sequences
          Nodes     \* the nodes that may ever be in one

VARIABLE content    \* content[s]: the nodes of s, leftmost first

Init == content = [s \in Seqs |-> <<>>]

Inside(n) == \E s \in Seqs : Contains(content[s], n)

AddL(s, n) ==
    /\ ~Inside(n)
    /\ content' = [content EXCEPT ![s] = <<n>> \o @]

AddR(s, n) ==
    /\ ~Inside(n)
    /\ content' = [content EXCEPT ![s] = Append(@, n)]

TakeOut(n) ==
    /\ Inside(n)
    /\ content' = [s \in Seqs |-> SelectSeq(content[s], LAMBDA m : m # n)]

TransferL(s1, s2) ==
    /\ s1 # s2
    /\ content' = [content EXCEPT ![s1] = <<>>, ![s2] = content[s1] \o @]

TransferR(s1, s2) ==
    /\ s1 # s2
    /\ content' = [content EXCEPT ![s1] = <<>>, ![s2] = @ \o content[s1]]

Clear(s) == content' = [content EXCEPT ![s] = <<>>]

Next ==
    \/ \E s \in Seqs, n \in Nodes : AddL(s, n) \/ AddR(s, n)
    \/ \E n \in Nodes : TakeOut(n)
    \/ \E s1, s2 \in Seqs : TransferL(s1, s2) \/ TransferR(s1, s2)
    \/ \E s \in Seqs : Clear(s)

Spec == Init /\ [][Next]_content
=============================================================================
