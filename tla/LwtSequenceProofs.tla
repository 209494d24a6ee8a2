------------------------- MODULE LwtSequenceProofs -------------------------
(***************************************************************************)
(* Lwt_sequence for any number of sequences and of nodes: its links, and   *)
(* what an iteration visits while the sequence changes under it.           *)
(***************************************************************************)
EXTENDS LwtSequence, TLAPS

(* A sentinel is in its own sequence.                                      *)
SentinelOwns == \A s \in Seqs : owner[s] = s

IInv == TypeOK /\ SentinelOwns /\ LinkedActive /\ WellLinked

(* Taking a linked node out keeps the links of all other cells inverse     *)
(* (Lwt_sequence.remove, and through it take_l and take_r).                *)
LEMMA UnlinkStep ==
    ASSUME IInv, NEW n \in Nodes, owner[n] # NoSeq, Unlink(n)
    PROVE  IInv'
<1> USE ConstantsAssumption DEF Cells, IInv, Linked
<1>1. n \in Cells /\ n \in Linked /\ n \notin Seqs
  BY DEF TypeOK
<1>2. TypeOK'
  BY <1>1 DEF TypeOK, Unlink, Leave, IterStates
<1>3. SentinelOwns'
  BY <1>1 DEF SentinelOwns, Unlink, Leave
<1>4. LinkedActive'
  BY DEF LinkedActive, Unlink, Leave, TypeOK
<1>5. WellLinked'
  <2> SUFFICES ASSUME NEW c \in Linked'
               PROVE  /\ next'[c] \in Linked' /\ prev'[next'[c]] = c
                      /\ owner'[next'[c]] = owner'[c]
                      /\ prev'[c] \in Linked' /\ next'[prev'[c]] = c
                      /\ owner'[prev'[c]] = owner'[c]
    BY DEF WellLinked
  <2>1. c \in Linked /\ c # n /\ owner'[c] = owner[c]
    BY DEF Unlink, Leave, TypeOK
  <2>2. \A d \in Linked : d # n => d \in Linked' /\ owner'[d] = owner[d]
    BY DEF Unlink, Leave, TypeOK
  <2>3. /\ next[c] \in Linked /\ prev[next[c]] = c /\ owner[next[c]] = owner[c]
        /\ prev[c] \in Linked /\ next[prev[c]] = c /\ owner[prev[c]] = owner[c]
        /\ next[n] \in Linked /\ prev[next[n]] = n /\ owner[next[n]] = owner[n]
        /\ prev[n] \in Linked /\ next[prev[n]] = n /\ owner[prev[n]] = owner[n]
    BY <1>1, <2>1 DEF WellLinked
  <2>4. /\ next' = [next EXCEPT ![prev[n]] = next[n]]
        /\ prev' = [prev EXCEPT ![next[n]] = prev[n]]
        /\ next \in [Cells -> Cells] /\ prev \in [Cells -> Cells]
    BY DEF Unlink, TypeOK
  <2> QED
    BY <2>1, <2>2, <2>3, <2>4
<1> QED
  BY <1>2, <1>3, <1>4, <1>5

(* Adding at the left end.                                                 *)
LEMMA AddLStep ==
    ASSUME IInv, NEW s \in Seqs, NEW n \in Nodes, add_l(s, n)
    PROVE  IInv'
<1> USE ConstantsAssumption DEF Cells, IInv, Linked
<1>1. n \in Cells /\ n \notin Seqs /\ n \notin used /\ s \in Cells
  BY DEF add_l, Fresh
<1>2. s \in Linked /\ n \notin Linked /\ owner[s] = s
  BY <1>1 DEF SentinelOwns, LinkedActive
<1>3. TypeOK'
  BY <1>1 DEF TypeOK, add_l, IterStates
<1>4. SentinelOwns'
  BY <1>1 DEF SentinelOwns, add_l, TypeOK
<1>5. LinkedActive'
  BY <1>1 DEF LinkedActive, add_l, TypeOK
<1>6. WellLinked'
  <2> SUFFICES ASSUME NEW c \in Linked'
               PROVE  /\ next'[c] \in Linked' /\ prev'[next'[c]] = c
                      /\ owner'[next'[c]] = owner'[c]
                      /\ prev'[c] \in Linked' /\ next'[prev'[c]] = c
                      /\ owner'[prev'[c]] = owner'[c]
    BY DEF WellLinked
  <2>1. /\ next' = [next EXCEPT ![n] = next[s], ![s] = n]
        /\ prev' = [prev EXCEPT ![n] = s, ![next[s]] = n]
        /\ next \in [Cells -> Cells] /\ prev \in [Cells -> Cells]
    BY DEF add_l, TypeOK
  <2>2. /\ owner'[n] = s /\ n \in Linked'
        /\ \A d \in Linked : d # n /\ d \in Linked' /\ owner'[d] = owner[d]
    BY <1>1, <1>2 DEF add_l, TypeOK
  <2>3. next[s] \in Linked /\ prev[next[s]] = s /\ owner[next[s]] = s
    BY <1>2 DEF WellLinked
  <2>4. CASE c = n
    BY <1>1, <1>2, <2>1, <2>2, <2>3, <2>4
  <2>5. CASE c # n
    <3>1. c \in Linked
      BY <2>5 DEF add_l, TypeOK
    <3>2. /\ next[c] \in Linked /\ prev[next[c]] = c /\ owner[next[c]] = owner[c]
          /\ prev[c] \in Linked /\ next[prev[c]] = c /\ owner[prev[c]] = owner[c]
      BY <3>1 DEF WellLinked
    <3> QED
      BY <1>1, <1>2, <2>1, <2>2, <2>3, <2>5, <3>1, <3>2
  <2> QED
    BY <2>4, <2>5
<1> QED
  BY <1>3, <1>4, <1>5, <1>6

(* Adding at the right end: the mirror image.                              *)
LEMMA AddRStep ==
    ASSUME IInv, NEW s \in Seqs, NEW n \in Nodes, add_r(s, n)
    PROVE  IInv'
<1> USE ConstantsAssumption DEF Cells, IInv, Linked
<1>1. n \in Cells /\ n \notin Seqs /\ n \notin used /\ s \in Cells
  BY DEF add_r, Fresh
<1>2. s \in Linked /\ n \notin Linked /\ owner[s] = s
  BY <1>1 DEF SentinelOwns, LinkedActive
<1>3. TypeOK'
  BY <1>1 DEF TypeOK, add_r, IterStates
<1>4. SentinelOwns'
  BY <1>1 DEF SentinelOwns, add_r, TypeOK
<1>5. LinkedActive'
  BY <1>1 DEF LinkedActive, add_r, TypeOK
<1>6. WellLinked'
  <2> SUFFICES ASSUME NEW c \in Linked'
               PROVE  /\ next'[c] \in Linked' /\ prev'[next'[c]] = c
                      /\ owner'[next'[c]] = owner'[c]
                      /\ prev'[c] \in Linked' /\ next'[prev'[c]] = c
                      /\ owner'[prev'[c]] = owner'[c]
    BY DEF WellLinked
  <2>1. /\ next' = [next EXCEPT ![n] = s, ![prev[s]] = n]
        /\ prev' = [prev EXCEPT ![n] = prev[s], ![s] = n]
        /\ next \in [Cells -> Cells] /\ prev \in [Cells -> Cells]
    BY DEF add_r, TypeOK
  <2>2. /\ owner'[n] = s /\ n \in Linked'
        /\ \A d \in Linked : d # n /\ d \in Linked' /\ owner'[d] = owner[d]
    BY <1>1, <1>2 DEF add_r, TypeOK
  <2>3. prev[s] \in Linked /\ next[prev[s]] = s /\ owner[prev[s]] = s
    BY <1>2 DEF WellLinked
  <2>4. CASE c = n
    BY <1>1, <1>2, <2>1, <2>2, <2>3, <2>4
  <2>5. CASE c # n
    <3>1. c \in Linked
      BY <2>5 DEF add_r, TypeOK
    <3>2. /\ next[c] \in Linked /\ prev[next[c]] = c /\ owner[next[c]] = owner[c]
          /\ prev[c] \in Linked /\ next[prev[c]] = c /\ owner[prev[c]] = owner[c]
      BY <3>1 DEF WellLinked
    <3> QED
      BY <1>1, <1>2, <2>1, <2>2, <2>3, <2>5, <3>1, <3>2
  <2> QED
    BY <2>4, <2>5
<1> QED
  BY <1>3, <1>4, <1>5, <1>6

(* Moving the nodes of s1 to the left end of s2.  The facts about the four    *)
(* cells whose links change are stated before the cases on c.              *)
LEMMA TransferLStep ==
    ASSUME IInv, NEW s1 \in Seqs, NEW s2 \in Seqs, transfer_l(s1, s2)
    PROVE  IInv'
<1> USE ConstantsAssumption DEF Cells, IInv, Linked
<1>1. /\ s1 \in Linked /\ s2 \in Linked /\ owner[s1] = s1 /\ owner[s2] = s2
      /\ next \in [Cells -> Cells] /\ prev \in [Cells -> Cells]
  BY DEF SentinelOwns, TypeOK
<1>2. /\ next[s1] \in Linked /\ prev[next[s1]] = s1 /\ owner[next[s1]] = s1
      /\ prev[s1] \in Linked /\ next[prev[s1]] = s1 /\ owner[prev[s1]] = s1
      /\ next[s2] \in Linked /\ prev[next[s2]] = s2 /\ owner[next[s2]] = s2
      /\ prev[s2] \in Linked /\ next[prev[s2]] = s2 /\ owner[prev[s2]] = s2
  BY <1>1 DEF WellLinked
<1>3. TypeOK'
  BY <1>1 DEF TypeOK, transfer_l, Move, IterStates, Members
<1>4. SentinelOwns'
  BY DEF SentinelOwns, transfer_l, Move, Members
<1>5. LinkedActive'
  BY DEF LinkedActive, transfer_l, Move, TypeOK, Members
<1>6. WellLinked'
  <2> SUFFICES ASSUME NEW c \in Linked'
               PROVE  /\ next'[c] \in Linked' /\ prev'[next'[c]] = c
                      /\ owner'[next'[c]] = owner'[c]
                      /\ prev'[c] \in Linked' /\ next'[prev'[c]] = c
                      /\ owner'[prev'[c]] = owner'[c]
    BY DEF WellLinked
  <2>1. c \in Cells /\ c \in Linked
    BY DEF transfer_l, Move, TypeOK, Members
  <2>2. /\ next[c] \in Linked /\ prev[next[c]] = c /\ owner[next[c]] = owner[c]
        /\ prev[c] \in Linked /\ next[prev[c]] = c /\ owner[prev[c]] = owner[c]
    BY <2>1 DEF WellLinked
  <2>3. \A d \in Cells : owner'[d] = IF d \in Nodes /\ owner[d] = s1
                                   THEN IF s1 = s2 THEN NoSeq ELSE s2
                                   ELSE owner[d]
    BY DEF transfer_l, Move, Members
  <2>4. \A d \in Cells : d \in Linked' <=> owner'[d] # NoSeq
    OBVIOUS
  <2>5. \A d \in Linked : d \in Seqs => owner[d] = d
    BY DEF SentinelOwns
  <2>6. CASE s1 = s2
    <3>1. /\ \A d \in Cells : d # s1 /\ owner[d] # s1 =>
                                  next'[d] = next[d] /\ prev'[d] = prev[d]
          /\ next'[s1] = s1 /\ prev'[s1] = s1
      BY <1>1, <1>2, <2>6 DEF transfer_l
    <3> QED
      BY <1>1, <1>2, <2>1, <2>2, <2>3, <2>4, <2>5, <2>6, <3>1
  <2>7. CASE s1 # s2 /\ next[s1] = s1
    <3>1. next' = next /\ prev' = prev
      BY <1>1, <1>2, <2>7 DEF transfer_l
    <3> QED
      BY <1>1, <1>2, <2>1, <2>2, <2>3, <2>4, <2>5, <2>7, <3>1
  <2>8. CASE s1 # s2 /\ next[s1] # s1
    <3>1. next[s1] \in Nodes /\ prev[s1] \in Nodes
      BY <1>1, <1>2, <2>5, <2>8
    <3>2. /\ next' = [next EXCEPT ![prev[s1]] = next[s2], ![s2] = next[s1], ![s1] = s1]
          /\ prev' = [prev EXCEPT ![next[s2]] = prev[s1], ![next[s1]] = s2, ![s1] = s1]
      BY <1>1, <1>2, <2>8, <3>1 DEF transfer_l
    <3> QED
      BY <1>1, <1>2, <2>1, <2>2, <2>3, <2>4, <2>5, <2>8, <3>1, <3>2
  <2> QED
    BY <2>6, <2>7, <2>8
<1> QED
  BY <1>3, <1>4, <1>5, <1>6

(* Moving the nodes of s1 to the right end of s2.  The facts about the four    *)
(* cells whose links change are stated before the cases on c.              *)
LEMMA TransferRStep ==
    ASSUME IInv, NEW s1 \in Seqs, NEW s2 \in Seqs, transfer_r(s1, s2)
    PROVE  IInv'
<1> USE ConstantsAssumption DEF Cells, IInv, Linked
<1>1. /\ s1 \in Linked /\ s2 \in Linked /\ owner[s1] = s1 /\ owner[s2] = s2
      /\ next \in [Cells -> Cells] /\ prev \in [Cells -> Cells]
  BY DEF SentinelOwns, TypeOK
<1>2. /\ next[s1] \in Linked /\ prev[next[s1]] = s1 /\ owner[next[s1]] = s1
      /\ prev[s1] \in Linked /\ next[prev[s1]] = s1 /\ owner[prev[s1]] = s1
      /\ next[s2] \in Linked /\ prev[next[s2]] = s2 /\ owner[next[s2]] = s2
      /\ prev[s2] \in Linked /\ next[prev[s2]] = s2 /\ owner[prev[s2]] = s2
  BY <1>1 DEF WellLinked
<1>3. TypeOK'
  BY <1>1 DEF TypeOK, transfer_r, Move, IterStates, Members
<1>4. SentinelOwns'
  BY DEF SentinelOwns, transfer_r, Move, Members
<1>5. LinkedActive'
  BY DEF LinkedActive, transfer_r, Move, TypeOK, Members
<1>6. WellLinked'
  <2> SUFFICES ASSUME NEW c \in Linked'
               PROVE  /\ next'[c] \in Linked' /\ prev'[next'[c]] = c
                      /\ owner'[next'[c]] = owner'[c]
                      /\ prev'[c] \in Linked' /\ next'[prev'[c]] = c
                      /\ owner'[prev'[c]] = owner'[c]
    BY DEF WellLinked
  <2>1. c \in Cells /\ c \in Linked
    BY DEF transfer_r, Move, TypeOK, Members
  <2>2. /\ next[c] \in Linked /\ prev[next[c]] = c /\ owner[next[c]] = owner[c]
        /\ prev[c] \in Linked /\ next[prev[c]] = c /\ owner[prev[c]] = owner[c]
    BY <2>1 DEF WellLinked
  <2>3. \A d \in Cells : owner'[d] = IF d \in Nodes /\ owner[d] = s1
                                   THEN IF s1 = s2 THEN NoSeq ELSE s2
                                   ELSE owner[d]
    BY DEF transfer_r, Move, Members
  <2>4. \A d \in Cells : d \in Linked' <=> owner'[d] # NoSeq
    OBVIOUS
  <2>5. \A d \in Linked : d \in Seqs => owner[d] = d
    BY DEF SentinelOwns
  <2>6. CASE s1 = s2
    <3>1. /\ \A d \in Cells : d # s1 /\ owner[d] # s1 =>
                                  next'[d] = next[d] /\ prev'[d] = prev[d]
          /\ next'[s1] = s1 /\ prev'[s1] = s1
      BY <1>1, <1>2, <2>6 DEF transfer_r
    <3> QED
      BY <1>1, <1>2, <2>1, <2>2, <2>3, <2>4, <2>5, <2>6, <3>1
  <2>7. CASE s1 # s2 /\ next[s1] = s1
    <3>1. next' = next /\ prev' = prev
      BY <1>1, <1>2, <2>7 DEF transfer_r
    <3> QED
      BY <1>1, <1>2, <2>1, <2>2, <2>3, <2>4, <2>5, <2>7, <3>1
  <2>8. CASE s1 # s2 /\ next[s1] # s1
    <3>1. next[s1] \in Nodes /\ prev[s1] \in Nodes
      BY <1>1, <1>2, <2>5, <2>8
    <3>2. /\ next' = [next EXCEPT ![prev[s2]] = next[s1], ![prev[s1]] = s2, ![s1] = s1]
          /\ prev' = [prev EXCEPT ![next[s1]] = prev[s2], ![s2] = prev[s1], ![s1] = s1]
      BY <1>1, <1>2, <2>8, <3>1 DEF transfer_r
    <3> QED
      BY <1>1, <1>2, <2>1, <2>2, <2>3, <2>4, <2>5, <2>8, <3>1, <3>2
  <2> QED
    BY <2>6, <2>7, <2>8
<1> QED
  BY <1>3, <1>4, <1>5, <1>6

(* Clearing makes the sentinel a sequence of its own; all the nodes leave. *)
LEMMA ClearStep ==
    ASSUME IInv, NEW s \in Seqs, clear(s)
    PROVE  IInv'
<1> USE ConstantsAssumption DEF Cells, IInv, Linked
<1>1. s \in Linked /\ owner[s] = s
  BY DEF SentinelOwns
<1>2. TypeOK'
  BY DEF TypeOK, clear, Leave, Members, IterStates
<1>3. SentinelOwns'
  BY DEF SentinelOwns, clear, Leave, Members
<1>4. LinkedActive'
  BY DEF LinkedActive, clear, Leave, Members, TypeOK
<1>5. WellLinked'
  <2> SUFFICES ASSUME NEW c \in Linked'
               PROVE  /\ next'[c] \in Linked' /\ prev'[next'[c]] = c
                      /\ owner'[next'[c]] = owner'[c]
                      /\ prev'[c] \in Linked' /\ next'[prev'[c]] = c
                      /\ owner'[prev'[c]] = owner'[c]
    BY DEF WellLinked
  <2>1. c \in Linked /\ (c # s => owner[c] # s)
    BY DEF clear, Leave, Members, TypeOK, SentinelOwns
  <2>2. \A d \in Linked : d = s \/ owner[d] # s => d \in Linked' /\ owner'[d] = owner[d]
    BY DEF clear, Leave, Members
  <2>3. /\ next[c] \in Linked /\ prev[next[c]] = c /\ owner[next[c]] = owner[c]
        /\ prev[c] \in Linked /\ next[prev[c]] = c /\ owner[prev[c]] = owner[c]
    BY <2>1 DEF WellLinked
  <2>4. /\ next' = [next EXCEPT ![s] = s] /\ prev' = [prev EXCEPT ![s] = s]
        /\ next \in [Cells -> Cells] /\ prev \in [Cells -> Cells]
    BY DEF clear, TypeOK
  <2> QED
    BY <1>1, <2>1, <2>2, <2>3, <2>4
<1> QED
  BY <1>2, <1>3, <1>4, <1>5

(* An iteration reads the links and never writes them.                     *)
LEMMA IterateStep ==
    ASSUME IInv,
           Iterate \/ (\E s \in Seqs, d \in {"l", "r"} : iter_begin(s, d))
    PROVE  IInv'
<1> USE ConstantsAssumption DEF Cells, IInv
<1>1. UNCHANGED links
  BY DEF Iterate, iter_begin, iter_end, iter_visit, iter_skip, iter_return, links
<1>2. NoIteration \in IterStates
  BY DEF NoIteration, IterStates
<1>3. TypeOK'
  <2>1. iter' \in IterStates /\ seen' \subseteq Cells /\ stayed' \subseteq Nodes
    <3>1. ASSUME NEW s \in Seqs, NEW d \in {"l", "r"}, iter_begin(s, d)
          PROVE  iter' \in IterStates /\ seen' \subseteq Cells /\ stayed' \subseteq Nodes
      BY <3>1 DEF iter_begin, link, TypeOK, IterStates, Members
    <3>2. CASE iter_end
      BY <3>2, <1>2 DEF iter_end
    <3>3. CASE iter_visit
      BY <3>3 DEF iter_visit, TypeOK, IterStates
    <3>4. CASE iter_skip
      BY <3>4 DEF iter_skip, link, TypeOK, IterStates
    <3>5. CASE iter_return
      BY <3>5 DEF iter_return, link, TypeOK, IterStates
    <3> QED
      BY <3>1, <3>2, <3>3, <3>4, <3>5 DEF Iterate
  <2> QED
    BY <1>1, <2>1 DEF TypeOK, links
<1>4. SentinelOwns' /\ LinkedActive' /\ WellLinked'
  BY <1>1 DEF links, SentinelOwns, LinkedActive, WellLinked, Linked
<1> QED
  BY <1>3, <1>4

(* No step breaks the links, provided that callers do not remove a node    *)
(* after they cleared its sequence.                                        *)
LEMMA NextStep ==
    ASSUME RemoveCleared = FALSE, IInv, [Next]_vars
    PROVE  IInv'
<1> USE ConstantsAssumption
<1>1. ASSUME NEW s \in Seqs, NEW n \in Nodes, add_l(s, n)
      PROVE  IInv'
  BY <1>1, AddLStep
<1>2. ASSUME NEW s \in Seqs, NEW n \in Nodes, add_r(s, n)
      PROVE  IInv'
  BY <1>2, AddRStep
<1>3. ASSUME NEW n \in Nodes, remove(n)
      PROVE  IInv'
  BY <1>3, UnlinkStep DEF remove
<1>4. ASSUME NEW s \in Seqs, take_l(s)
      PROVE  IInv'
  <2>1. s \in Cells /\ owner[s] = s /\ next[s] # s
    BY <1>4 DEF IInv, SentinelOwns, Cells, take_l, is_empty
  <2>2. next[s] \in Cells /\ owner[next[s]] = s
    BY <2>1 DEF IInv, TypeOK, WellLinked, Linked
  <2>3. next[s] \in Nodes /\ owner[next[s]] # NoSeq
    BY <2>1, <2>2 DEF IInv, SentinelOwns, Cells
  <2> QED
    BY <1>4, <2>3, UnlinkStep DEF take_l
<1>5. ASSUME NEW s \in Seqs, take_r(s)
      PROVE  IInv'
  <2>1. s \in Cells /\ owner[s] = s /\ next[s] # s
    BY <1>5 DEF IInv, SentinelOwns, Cells, take_r, is_empty
  <2>2. /\ prev[s] \in Cells /\ owner[prev[s]] = s
        /\ next[prev[s]] = s
    BY <2>1 DEF IInv, TypeOK, WellLinked, Linked
  <2>3. prev[s] \in Nodes /\ owner[prev[s]] # NoSeq
    BY <2>1, <2>2 DEF IInv, SentinelOwns, Cells
  <2> QED
    BY <1>5, <2>3, UnlinkStep DEF take_r
<1>6. ASSUME NEW s \in Seqs, clear(s)
      PROVE  IInv'
  BY <1>6, ClearStep
<1>7. ASSUME NEW s1 \in Seqs, NEW s2 \in Seqs, transfer_l(s1, s2)
      PROVE  IInv'
  BY <1>7, TransferLStep
<1>8. ASSUME NEW s1 \in Seqs, NEW s2 \in Seqs, transfer_r(s1, s2)
      PROVE  IInv'
  BY <1>8, TransferRStep
<1>9. CASE Iterate \/ (\E s \in Seqs, d \in {"l", "r"} : iter_begin(s, d))
  BY <1>9, IterateStep
<1>10. CASE UNCHANGED vars
  BY <1>10 DEF vars, IInv, TypeOK, SentinelOwns, LinkedActive, WellLinked, Linked
<1> QED
  BY <1>1, <1>2, <1>3, <1>4, <1>5, <1>6, <1>7, <1>8, <1>9, <1>10 DEF Next

LEMMA InitOK == Init => IInv
<1> SUFFICES ASSUME Init PROVE IInv
  OBVIOUS
<1> USE ConstantsAssumption DEF Init, Cells
<1>1. NoIteration \in IterStates
  BY DEF NoIteration, IterStates
<1>2. TypeOK
  BY <1>1 DEF TypeOK
<1>3. SentinelOwns /\ LinkedActive /\ WellLinked
  BY DEF SentinelOwns, LinkedActive, WellLinked, Linked
<1> QED
  BY <1>2, <1>3 DEF IInv

(* For any sequences and nodes: in every reachable state of Lwt_sequence   *)
(* the links around every cell of a sequence are inverse to each other and *)
(* stay inside the sequence.                                               *)
THEOREM SequencesWellLinked ==
    ASSUME RemoveCleared = FALSE
    PROVE  Spec => []WellLinked
<1>1. IInv => WellLinked
  BY DEF IInv
<1> QED
  BY InitOK, NextStep, <1>1, PTL DEF Spec

(* A node that is in a sequence is allocated and active: take_l, take_r    *)
(* and remove never meet a node that was already taken out.                *)
THEOREM LinkedNodesActive ==
    ASSUME RemoveCleared = FALSE
    PROVE  Spec => []LinkedActive
<1>1. IInv => LinkedActive
  BY DEF IInv
<1> QED
  BY InitOK, NextStep, <1>1, PTL DEF Spec
-----------------------------------------------------------------------------
(* Iterations.  The links f in one direction, next or prev, and g in the   *)
(* other; o is owner and u is used.                                        *)

(* R has what follows its cells, up to the sentinel s.                     *)
Onward(f, s, R) == \A c \in R \ {s} : f[c] \in R

(* Following f from x one comes to n, before s.                            *)
Reaches(f, x, s, n) ==
    \A R \in SUBSET Cells : x \in R /\ Onward(f, s, R) => n \in R

(* From its sentinel one comes to every node of a sequence.                *)
Reached(f, o) ==
    \A s \in Seqs : \A n \in Nodes : o[n] = s => Reaches(f, f[s], s, n)

(* What links and owners are like.                                         *)
Ring(f, g, o) ==
    /\ f \in [Cells -> Cells] /\ g \in [Cells -> Cells] /\ o \in [Cells -> Seqs \cup {NoSeq}]
    /\ \A s \in Seqs : o[s] = s
    /\ \A c \in Cells : o[c] # NoSeq =>
           /\ o[f[c]] = o[c] /\ g[f[c]] = c
           /\ o[g[c]] = o[c] /\ f[g[c]] = c

(* A node not allocated yet has no links.                                  *)
Unlinked(f, u) == \A n \in Nodes \ u : f[n] = n

(* The iteration over s stands on k.  K has k, the cells that come after   *)
(* it, and the other sequences; it never comes to one of them twice.       *)
Path(f, o, u, s, k, K) ==
    /\ K \subseteq Cells \ {s}
    /\ Seqs \ {s} \subseteq K /\ K \subseteq Seqs \cup u
    /\ \A c \in Cells : o[c] \in Seqs \ {s} => c \in K
    /\ \A c \in K : f[c] = s \/ f[c] \in K \ {k}
    /\ \A c, d \in K : f[c] = f[d] /\ f[c] \in Nodes => c = d
    /\ \A c \in K : o[c] = NoSeq =>
           f[c] = s \/ (f[c] \in Nodes /\ o[f[c]] \in {s, NoSeq})
    /\ k \in K /\ k \in Nodes /\ o[k] \in {s, NoSeq}

AllReachedOK == Reached(next, owner) /\ Reached(prev, owner)
UnlinkedOK == Unlinked(next, used) /\ Unlinked(prev, used)

(* What stays and has not been visited is ahead of the iteration.          *)
StayedOK ==
    iter.pc # "idle" =>
        /\ stayed \subseteq Members(iter.seq)
        /\ \A n \in stayed \ seen : Reaches(link(iter.dir), iter.curr, iter.seq, n)

(* What has been visited is behind it.                                     *)
PassedOK ==
    /\ seen \subseteq used
    /\ iter.pc = "f" => iter.curr \in seen /\ iter.curr # iter.seq
    /\ iter.pc # "idle" /\ iter.curr # iter.seq =>
          \E K \in SUBSET Cells :
              /\ Path(link(iter.dir), owner, used, iter.seq, iter.curr, K)
              /\ K \cap seen = IF iter.pc = "f" THEN {iter.curr} ELSE {}

IterInv == IInv /\ AllReachedOK /\ UnlinkedOK /\ StayedOK /\ PassedOK
-----------------------------------------------------------------------------
(* A node is taken out, or added behind the last one or before the first,  *)
(* and gets the owner w.                                                   *)
TakenOut(f, g, f1, m) ==
    f1[g[m]] = f[m] /\ \A c \in Cells : c # g[m] => f1[c] = f[c]

AddedEnd(f, g, f1, m, t) ==
    f1[m] = t /\ f1[g[t]] = m /\ \A c \in Cells : c # m /\ c # g[t] => f1[c] = f[c]

AddedFront(f, f1, m, t) ==
    f1[m] = f[t] /\ f1[t] = m /\ \A c \in Cells : c # m /\ c # t => f1[c] = f[c]

Owns(o, o1, m, w) ==
    o1[m] = w /\ \A c \in Cells : c # m => o1[c] = o[c]
-----------------------------------------------------------------------------
(* What is reached.                                                        *)

LEMMA ReachesNone ==
    ASSUME NEW f, NEW s \in Seqs, NEW n, Reaches(f, s, s, n)
    PROVE  n = s
<1>1. {s} \in SUBSET Cells /\ Onward(f, s, {s})
  BY DEF Cells, Onward
<1> QED
  BY <1>1 DEF Reaches

LEMMA ReachesNext ==
    ASSUME NEW f, NEW s \in Seqs, NEW x \in Cells, NEW n, n # x, Reaches(f, x, s, n)
    PROVE  Reaches(f, f[x], s, n)
<1> SUFFICES ASSUME NEW R \in SUBSET Cells, f[x] \in R, Onward(f, s, R) PROVE n \in R
  BY DEF Reaches
<1>1. R \cup {x} \in SUBSET Cells /\ Onward(f, s, R \cup {x})
  BY DEF Onward
<1> QED
  BY <1>1 DEF Reaches

(* Other sequences change, or something is added behind the last node.     *)
LEMMA ReachesOther ==
    ASSUME NEW f, NEW g, NEW o, Ring(f, g, o), NEW s \in Seqs, NEW x, NEW n \in Nodes, o[n] = s,
           NEW f1, Reaches(f, x, s, n),
           \A c \in Cells \ {s} : o[c] \in {s, NoSeq} => f1[c] = f[c] \/ f[c] \in {s, c}
    PROVE  Reaches(f1, x, s, n)
<1> SUFFICES ASSUME NEW R \in SUBSET Cells, x \in R, Onward(f1, s, R) PROVE n \in R
  BY DEF Reaches
<1> DEFINE T == R \cup {s} \cup {c \in Cells : o[c] \in Seqs \ {s}}
<1>1. T \in SUBSET Cells /\ x \in T
  BY DEF Cells
<1>2. ASSUME NEW c \in T, c # s PROVE f[c] \in T
  <2>1. c \in Cells /\ o[c] \in Seqs \cup {NoSeq} /\ f[c] \in Cells
    BY <1>1 DEF Ring
  <2>2. CASE o[c] \in Seqs \ {s}
    BY <2>1, <2>2, ConstantsAssumption DEF Ring
  <2>3. CASE o[c] \notin Seqs \ {s}
    <3>1. c \in R /\ f1[c] \in R /\ o[c] \in {s, NoSeq}
      BY <1>2, <2>1, <2>3 DEF Onward
    <3> QED
      BY <1>2, <2>1, <3>1
  <2> QED
    BY <2>2, <2>3
<1>3. n \in T
  BY <1>1, <1>2 DEF Reaches, Onward
<1> QED
  BY <1>3, ConstantsAssumption

(* A node is taken out.                                                    *)
LEMMA ReachesTaken ==
    ASSUME NEW f, NEW g, NEW o, Ring(f, g, o), NEW m \in Nodes, o[m] # NoSeq,
           NEW s \in Seqs, NEW x, NEW n, n # m, Reaches(f, x, s, n),
           NEW f1, TakenOut(f, g, f1, m)
    PROVE  Reaches(f1, x, s, n)
<1>1. m \in Cells /\ m # s /\ g[m] \in Cells /\ f[m] \in Cells /\ f[g[m]] = m /\ f \in [Cells -> Cells]
  BY ConstantsAssumption DEF Ring, Cells
<1>2. f1[g[m]] = f[m] /\ \A c \in Cells : c # g[m] => f1[c] = f[c]
  BY DEF TakenOut
<1> SUFFICES ASSUME NEW R \in SUBSET Cells, x \in R, Onward(f1, s, R) PROVE n \in R
  BY DEF Reaches
<1>3. CASE g[m] \in R \ {s}
  <2>1. f[m] \in R
    BY <1>2, <1>3 DEF Onward
  <2>2. R \cup {m} \in SUBSET Cells /\ Onward(f, s, R \cup {m})
    BY <1>1, <1>2, <2>1 DEF Onward
  <2> QED
    BY <2>2 DEF Reaches
<1>4. CASE g[m] \notin R \ {s}
  <2>1. Onward(f, s, R)
    BY <1>2, <1>4 DEF Onward
  <2> QED
    BY <2>1 DEF Reaches
<1> QED
  BY <1>3, <1>4
-----------------------------------------------------------------------------
(* Every node remains within reach of its sentinel, in either direction.   *)

(* The sequences whose nodes keep their links.                             *)
LEMMA ReachedOther ==
    ASSUME NEW f, NEW g, NEW o, Ring(f, g, o), Reached(f, o), NEW s \in Seqs,
           NEW f1, f1[s] = f[s], NEW n \in Nodes, o[n] = s,
           \A c \in Cells \ {s} : o[c] \in {s, NoSeq} => f1[c] = f[c] \/ f[c] \in {s, c}
    PROVE  Reaches(f1, f1[s], s, n)
  BY ReachesOther DEF Reached

LEMMA EndsOf ==
    ASSUME NEW f, NEW g, NEW o, Ring(f, g, o), Reached(f, o), NEW s \in Seqs
    PROVE  /\ s \in Cells /\ o[s] = s /\ o[f[s]] = s /\ o[g[s]] = s /\ f[g[s]] = s /\ g[f[s]] = s
           /\ f[s] \in Cells /\ g[s] \in Cells
           /\ f[s] # s => f[s] \in Nodes
           /\ g[s] # s => g[s] \in Nodes
           /\ f[s] = s <=> g[s] = s
           /\ f[s] = s => \A n \in Nodes : o[n] # s
<1>1. /\ s \in Cells /\ o[s] = s /\ o[f[s]] = s /\ o[g[s]] = s /\ f[g[s]] = s /\ g[f[s]] = s
      /\ f[s] \in Cells /\ g[s] \in Cells
  BY ConstantsAssumption DEF Ring, Cells
<1>2. \A c \in Cells : o[c] = s /\ c # s => c \in Nodes
  BY DEF Ring, Cells
<1>3. ASSUME f[s] = s, NEW n \in Nodes, o[n] = s PROVE FALSE
  BY <1>3, ReachesNone, ConstantsAssumption DEF Reached
<1> QED
  BY <1>1, <1>2, <1>3

LEMMA ReachedTaken ==
    ASSUME NEW f, NEW g, NEW o, Ring(f, g, o), Reached(f, o), NEW m \in Nodes, o[m] # NoSeq,
           NEW f1, TakenOut(f, g, f1, m),
           NEW o1, Owns(o, o1, m, NoSeq)
    PROVE  Reached(f1, o1)
<1>1. m \in Cells /\ g[m] \in Cells /\ f[g[m]] = m /\ f \in [Cells -> Cells]
  BY DEF Ring, Cells
<1> SUFFICES ASSUME NEW s \in Seqs, NEW n \in Nodes, o1[n] = s PROVE Reaches(f1, f1[s], s, n)
  BY DEF Reached
<1>2. n # m /\ o[n] = s /\ Reaches(f, f[s], s, n)
  BY ConstantsAssumption DEF Cells, Reached, Owns
<1>3. CASE g[m] = s
  <2>1. f[s] = m /\ f1[s] = f[m]
    BY <1>1, <1>3 DEF TakenOut
  <2>2. Reaches(f, f[m], s, n)
    BY <1>1, <1>2, <2>1, ReachesNext
  <2> QED
    BY <1>2, <2>1, <2>2, ReachesTaken
<1>4. CASE g[m] # s
  <2>1. f1[s] = f[s]
    BY <1>1, <1>4 DEF Cells, TakenOut
  <2> QED
    BY <1>2, <2>1, ReachesTaken
<1> QED
  BY <1>3, <1>4

LEMMA ReachedEnd ==
    ASSUME NEW f, NEW g, NEW o, Ring(f, g, o), Reached(f, o), NEW t \in Seqs,
           NEW m \in Nodes, o[m] = NoSeq, f[m] = m,
           NEW f1, AddedEnd(f, g, f1, m, t), NEW o1, Owns(o, o1, m, t)
    PROVE  Reached(f1, o1)
<1>1. /\ m \in Cells /\ t \in Cells /\ g[t] \in Cells /\ f[g[t]] = t /\ o[g[t]] = t /\ g[t] # m /\ t # m
      /\ f \in [Cells -> Cells] /\ o \in [Cells -> Seqs \cup {NoSeq}]
      /\ (g[t] # t => g[t] \in Nodes) /\ (f[t] = t <=> g[t] = t)
      /\ (f[t] = t => \A n \in Nodes : o[n] # t)
  BY EndsOf, ConstantsAssumption DEF Ring, Cells
<1>2. f1[m] = t /\ f1[g[t]] = m /\ \A c \in Cells : c # m /\ c # g[t] => f1[c] = f[c]
  BY DEF AddedEnd
<1>3. o1[m] = t /\ \A c \in Cells : c # m => o1[c] = o[c]
  BY DEF Owns
<1>4. ASSUME NEW s \in Seqs, NEW n \in Nodes, o[n] = s PROVE Reaches(f1, f1[s], s, n)
  <2>1. f1[s] = f[s]
    <3>1. s \in Cells /\ s # m /\ o[s] = s
      BY <1>4, ConstantsAssumption DEF Cells, Ring
    <3> QED
      BY <1>1, <1>2, <1>4, <3>1
  <2>2. \A c \in Cells \ {s} : o[c] \in {s, NoSeq} => f1[c] = f[c] \/ f[c] \in {s, c}
    BY <1>1, <1>2, ConstantsAssumption
  <2> QED
    BY <1>4, <2>1, <2>2, ReachedOther
<1>5. Reaches(f1, f1[t], t, m)
  <2> SUFFICES ASSUME NEW R \in SUBSET Cells, f1[t] \in R, Onward(f1, t, R) PROVE m \in R
    BY DEF Reaches
  <2>1. CASE g[t] = t
    BY <1>2, <2>1
  <2>2. CASE g[t] # t
    <3>1. g[t] \in R
      BY <1>1, <1>4, <2>2 DEF Reaches
    <3> QED
      BY <1>2, <2>2, <3>1 DEF Onward
  <2> QED
    BY <2>1, <2>2
<1> SUFFICES ASSUME NEW s \in Seqs, NEW n \in Nodes, o1[n] = s PROVE Reaches(f1, f1[s], s, n)
  BY DEF Reached
<1>6. CASE n = m
  BY <1>3, <1>5, <1>6
<1>7. CASE n # m
  BY <1>3, <1>4, <1>7 DEF Cells
<1> QED
  BY <1>6, <1>7

LEMMA ReachedFront ==
    ASSUME NEW f, NEW g, NEW o, Ring(f, g, o), Reached(f, o), NEW t \in Seqs,
           NEW m \in Nodes, o[m] = NoSeq, f[m] = m,
           NEW f1, AddedFront(f, f1, m, t), NEW o1, Owns(o, o1, m, t)
    PROVE  Reached(f1, o1)
<1>1. /\ m \in Cells /\ t \in Cells /\ t # m /\ o[t] = t
      /\ f \in [Cells -> Cells] /\ o \in [Cells -> Seqs \cup {NoSeq}]
  BY EndsOf, ConstantsAssumption DEF Ring, Cells
<1>2. f1[m] = f[t] /\ f1[t] = m /\ \A c \in Cells : c # m /\ c # t => f1[c] = f[c]
  BY DEF AddedFront
<1>3. o1[m] = t /\ \A c \in Cells : c # m => o1[c] = o[c]
  BY DEF Owns
<1>4. ASSUME NEW s \in Seqs, NEW n \in Nodes, o[n] = s PROVE Reaches(f1, f[s], s, n)
  <2>1. \A c \in Cells \ {s} : o[c] \in {s, NoSeq} => f1[c] = f[c] \/ f[c] \in {s, c}
    BY <1>1, <1>2, ConstantsAssumption
  <2> QED
    BY <1>4, <2>1, ReachesOther DEF Reached
<1> SUFFICES ASSUME NEW s \in Seqs, NEW n \in Nodes, o1[n] = s PROVE Reaches(f1, f1[s], s, n)
  BY DEF Reached
<1>5. CASE n = m
  <2>1. s = t
    BY <1>3, <1>5
  <2> QED
    BY <1>2, <1>5, <2>1 DEF Reaches
<1>6. CASE n # m
  <2>1. o[n] = s /\ Reaches(f1, f[s], s, n)
    BY <1>3, <1>4, <1>6 DEF Cells
  <2>2. CASE s = t
    <3> SUFFICES ASSUME NEW R \in SUBSET Cells, m \in R, Onward(f1, t, R) PROVE n \in R
      BY <1>2, <2>2 DEF Reaches
    <3>1. f[t] \in R
      BY <1>1, <1>2 DEF Onward
    <3> QED
      BY <2>1, <2>2, <3>1 DEF Reaches
  <2>3. CASE s # t
    <3>1. s \in Cells /\ s # m
      BY ConstantsAssumption DEF Cells
    <3> QED
      BY <1>2, <2>1, <2>3, <3>1
  <2> QED
    BY <2>2, <2>3
<1> QED
  BY <1>5, <1>6

(* The nodes of a are put behind those of b, or before them.               *)
Appended(f, g, f1, a, b) ==
    /\ f1[g[b]] = f[a] /\ f1[g[a]] = b /\ f1[a] = a
    /\ \A c \in Cells : c # g[b] /\ c # g[a] /\ c # a => f1[c] = f[c]

Prepended(f, g, f1, a, b) ==
    /\ f1[b] = f[a] /\ f1[g[a]] = f[b] /\ f1[a] = a
    /\ \A c \in Cells : c # b /\ c # g[a] /\ c # a => f1[c] = f[c]

(* The nodes of a get the owner w.                                         *)
Moved(o, o1, a, w) ==
    \A c \in Cells : o1[c] = IF c \in Nodes /\ o[c] = a THEN w ELSE o[c]

(* The way from the first to the last node of a is as it was.              *)
LEMMA ReachesMoved ==
    ASSUME NEW f, NEW g, NEW o, Ring(f, g, o), Reached(f, o), NEW a \in Seqs, f[a] # a, NEW f1,
           \A c \in Cells : o[c] = a /\ c # a /\ c # g[a] => f1[c] = f[c],
           NEW b \in Seqs, a # b, NEW R \in SUBSET Cells, f[a] \in R, Onward(f1, b, R), NEW n \in Nodes, o[n] = a
    PROVE  n \in R
<1> DEFINE T == {c \in R : o[c] = a} \cup {a}
<1>1. /\ a \in Cells /\ o[a] = a /\ o[f[a]] = a /\ f[g[a]] = a /\ o[b] = b
  BY EndsOf DEF Ring
<1>2. T \in SUBSET Cells /\ f[a] \in T
  BY <1>1
<1>3. ASSUME NEW c \in T, c # a PROVE f[c] \in T
  <2>1. c \in R /\ o[c] = a /\ c # b /\ c \in Cells
    BY <1>1, <1>3
  <2>2. o[f[c]] = a
    BY <2>1, ConstantsAssumption DEF Ring
  <2>3. CASE c = g[a]
    BY <1>1, <2>3
  <2>4. CASE c # g[a]
    BY <1>3, <2>1, <2>2, <2>4 DEF Onward
  <2> QED
    BY <2>3, <2>4
<1>4. Reaches(f, f[a], a, n)
  BY DEF Reached
<1>5. Onward(f, a, T)
  BY <1>3 DEF Onward
<1>6. n \in T
  BY <1>2, <1>4, <1>5 DEF Reaches
<1> QED
  BY <1>6, ConstantsAssumption

LEMMA ReachedAppended ==
    ASSUME NEW f, NEW g, NEW o, Ring(f, g, o), Reached(f, o), NEW a \in Seqs, f[a] # a,
           NEW b \in Seqs, a # b, NEW f1, Appended(f, g, f1, a, b), NEW o1, Moved(o, o1, a, b)
    PROVE  Reached(f1, o1)
<1>1. /\ a \in Cells /\ o[a] = a /\ g[a] \in Cells /\ o[g[a]] = a /\ f[g[a]] = a
      /\ b \in Cells /\ o[b] = b /\ g[b] \in Cells /\ o[g[b]] = b /\ f[g[b]] = b
      /\ (f[b] = b <=> g[b] = b) /\ (g[b] # b => g[b] \in Nodes) /\ NoSeq # a /\ NoSeq # b
      /\ (f[b] = b => \A n \in Nodes : o[n] # b)
  BY EndsOf, ConstantsAssumption
<1>2. /\ f1[g[b]] = f[a] /\ f1[g[a]] = b /\ f1[a] = a
      /\ \A c \in Cells : c # g[b] /\ c # g[a] /\ c # a => f1[c] = f[c]
  BY DEF Appended
<1>3. ASSUME NEW s \in Seqs, s # a, NEW n \in Nodes, o[n] = s PROVE Reaches(f1, f1[s], s, n)
  <2>1. \A c \in Cells \ {s} : o[c] \in {s, NoSeq} => f1[c] = f[c] \/ f[c] \in {s, c}
    BY <1>1, <1>2, <1>3
  <2>2. f1[s] = f[s]
    <3>1. s \in Cells /\ o[s] = s
      BY DEF Cells, Ring
    <3> QED
      BY <1>1, <1>2, <1>3, <3>1
  <2> QED
    BY <1>3, <2>1, <2>2, ReachedOther
<1>4. ASSUME NEW n \in Nodes, o[n] = a PROVE Reaches(f1, f1[b], b, n)
  <2> SUFFICES ASSUME NEW R \in SUBSET Cells, f1[b] \in R, Onward(f1, b, R) PROVE n \in R
    BY DEF Reaches
  <2>1. f[a] \in R
    <3>1. CASE g[b] = b
      BY <1>2, <3>1
    <3>2. CASE g[b] # b
      <4>1. g[b] \in R
        BY <1>1, <1>3, <3>2 DEF Reaches
      <4> QED
        BY <1>2, <3>2, <4>1 DEF Onward
    <3> QED
      BY <3>1, <3>2
  <2>2. \A c \in Cells : o[c] = a /\ c # a /\ c # g[a] => f1[c] = f[c]
    BY <1>1, <1>2
  <2> QED
    BY <1>4, <2>1, <2>2, ReachesMoved
<1> SUFFICES ASSUME NEW s \in Seqs, NEW n \in Nodes, o1[n] = s PROVE Reaches(f1, f1[s], s, n)
  BY DEF Reached
<1>5. o1[n] = IF o[n] = a THEN b ELSE o[n]
  BY DEF Moved, Cells
<1> QED
  BY <1>3, <1>4, <1>5

LEMMA ReachedPrepended ==
    ASSUME NEW f, NEW g, NEW o, Ring(f, g, o), Reached(f, o), NEW a \in Seqs, f[a] # a,
           NEW b \in Seqs, a # b, NEW f1, Prepended(f, g, f1, a, b), NEW o1, Moved(o, o1, a, b)
    PROVE  Reached(f1, o1)
<1>1. /\ a \in Cells /\ o[a] = a /\ g[a] \in Cells /\ o[g[a]] = a /\ f[g[a]] = a /\ g[a] \in Nodes
      /\ b \in Cells /\ o[b] = b /\ NoSeq # a /\ NoSeq # b
  BY EndsOf, ConstantsAssumption
<1>2. /\ f1[b] = f[a] /\ f1[g[a]] = f[b] /\ f1[a] = a
      /\ \A c \in Cells : c # b /\ c # g[a] /\ c # a => f1[c] = f[c]
  BY DEF Prepended
<1>3. ASSUME NEW s \in Seqs, s # a, NEW n \in Nodes, o[n] = s PROVE Reaches(f1, f[s], s, n)
  <2>1. \A c \in Cells \ {s} : o[c] \in {s, NoSeq} => f1[c] = f[c] \/ f[c] \in {s, c}
    BY <1>1, <1>2, <1>3
  <2> QED
    BY <1>3, <2>1, ReachesOther DEF Reached
<1>4. ASSUME NEW R \in SUBSET Cells, f1[b] \in R, Onward(f1, b, R), NEW n \in Nodes, o[n] = a PROVE n \in R
  <2>1. \A c \in Cells : o[c] = a /\ c # a /\ c # g[a] => f1[c] = f[c]
    BY <1>1, <1>2
  <2> QED
    BY <1>2, <1>4, <2>1, ReachesMoved
<1> SUFFICES ASSUME NEW s \in Seqs, NEW n \in Nodes, o1[n] = s PROVE Reaches(f1, f1[s], s, n)
  BY DEF Reached
<1>5. o1[n] = IF o[n] = a THEN b ELSE o[n]
  BY DEF Moved, Cells
<1>6. CASE o[n] = a
  BY <1>4, <1>5, <1>6 DEF Reaches
<1>7. CASE o[n] # a
  <2>1. o[n] = s /\ s # a /\ Reaches(f1, f[s], s, n)
    BY <1>3, <1>5, <1>7
  <2>2. CASE s = b
    <3> SUFFICES ASSUME NEW R \in SUBSET Cells, f1[b] \in R, Onward(f1, b, R) PROVE n \in R
      BY <2>2 DEF Reaches
    <3>1. g[a] \in R
      BY <1>1, <1>4
    <3>2. f[b] \in R
      BY <1>1, <1>2, <3>1, ConstantsAssumption DEF Onward
    <3> QED
      BY <2>1, <2>2, <3>2 DEF Reaches
  <2>3. CASE s # b
    <3>1. s \in Cells /\ o[s] = s
      BY DEF Cells, Ring
    <3>2. f1[s] = f[s]
      BY <1>1, <1>2, <2>1, <2>3, <3>1
    <3> QED
      BY <2>1, <3>2
  <2> QED
    BY <2>2, <2>3
<1> QED
  BY <1>6, <1>7

(* A sequence loses all its nodes.                                         *)
LEMMA ReachedDropped ==
    ASSUME NEW f, NEW g, NEW o, Ring(f, g, o), Reached(f, o), NEW a \in Seqs,
           NEW f1, \A c \in Cells : o[c] # a => f1[c] = f[c],
           NEW o1, Moved(o, o1, a, NoSeq)
    PROVE  Reached(f1, o1)
<1> SUFFICES ASSUME NEW s \in Seqs, NEW n \in Nodes, o1[n] = s PROVE Reaches(f1, f1[s], s, n)
  BY DEF Reached
<1>1. o[n] = s /\ s # a /\ o[s] = s /\ s \in Cells
  BY ConstantsAssumption DEF Moved, Cells, Ring
<1>2. \A c \in Cells \ {s} : o[c] \in {s, NoSeq} => f1[c] = f[c] \/ f[c] \in {s, c}
  BY <1>1, ConstantsAssumption
<1> QED
  BY <1>1, <1>2, ReachedOther
-----------------------------------------------------------------------------
(* The way of an iteration never comes back to where it was.               *)

(* The iteration begins.                                                   *)
LEMMA PathBegins ==
    ASSUME NEW f, NEW g, NEW o, Ring(f, g, o), NEW s \in Seqs, f[s] # s,
           NEW u, \A n \in Nodes : o[n] # NoSeq => n \in u
    PROVE  Path(f, o, u, s, f[s], {c \in Cells : o[c] # NoSeq} \ {s})
<1> DEFINE K == {c \in Cells : o[c] # NoSeq} \ {s}
<1>1. /\ s \in Cells /\ o[s] = s /\ f[s] \in Cells /\ o[f[s]] = s /\ g[f[s]] = s /\ NoSeq \notin Seqs
      /\ \A c \in Cells : c \in Seqs \/ c \in Nodes
  BY ConstantsAssumption DEF Ring, Cells
<1>2. \A c \in K : c \in Cells /\ f[c] \in Cells /\ o[f[c]] = o[c] /\ g[f[c]] = c
  BY DEF Ring
<1>3. f[s] \in Nodes /\ f[s] \in K
  BY <1>1 DEF Ring
<1>4. K \subseteq Cells \ {s} /\ Seqs \ {s} \subseteq K /\ K \subseteq Seqs \cup u
  BY <1>1 DEF Ring, Cells
<1>5. \A c \in K : f[c] = s \/ f[c] \in K \ {f[s]}
  BY <1>1, <1>2
<1>6. \A c, d \in K : f[c] = f[d] => c = d
  BY <1>2
<1> QED
  BY <1>1, <1>3, <1>4, <1>5, <1>6 DEF Path

(* It goes on to the next cell.                                            *)
LEMMA PathGoesOn ==
    ASSUME NEW f, NEW g, NEW o, Ring(f, g, o), NEW s \in Seqs, NEW u, NEW k, NEW K,
           Path(f, o, u, s, k, K), f[k] # s
    PROVE  Path(f, o, u, s, f[k], K \ {k})
<1>1. k \in K /\ k \in Nodes /\ o[k] \in {s, NoSeq} /\ f[k] \in K \ {k} /\ k \in Cells
  BY DEF Path
<1>2. f[k] \in Nodes /\ o[f[k]] \in {s, NoSeq}
  <2>1. CASE o[k] = NoSeq
    BY <1>1, <2>1 DEF Path
  <2>2. CASE o[k] = s
    <3>1. o[f[k]] = s /\ f[k] \in Cells
      BY <1>1, <2>2, ConstantsAssumption DEF Ring
    <3> QED
      BY <3>1 DEF Ring, Cells
  <2> QED
    BY <1>1, <2>1, <2>2
<1>3. \A c \in K \ {k} : f[c] = s \/ f[c] \in K \ {k, f[k]}
  BY <1>1, <1>2 DEF Path
<1>4. K \ {k} \subseteq Cells \ {s} /\ Seqs \ {s} \subseteq K \ {k} /\ K \ {k} \subseteq Seqs \cup u
  BY <1>1, ConstantsAssumption DEF Path
<1>5. \A c \in Cells : o[c] \in Seqs \ {s} => c \in K \ {k}
  BY <1>1, ConstantsAssumption DEF Path
<1>6. \A c \in K \ {k} : o[c] = NoSeq => f[c] = s \/ (f[c] \in Nodes /\ o[f[c]] \in {s, NoSeq})
  BY DEF Path
<1>7. \A c, d \in K \ {k} : f[c] = f[d] /\ f[c] \in Nodes => c = d
  BY DEF Path
<1> QED
  BY <1>1, <1>2, <1>3, <1>4, <1>5, <1>6, <1>7 DEF Path

(* A node is taken out; it remains on the way only if the iteration stands *)
(* on what was before it, or on it.                                        *)
LEMMA PathTaken ==
    ASSUME NEW f, NEW g, NEW o, Ring(f, g, o), NEW s \in Seqs, NEW u, NEW k, NEW K,
           Path(f, o, u, s, k, K), NEW m \in Nodes, o[m] # NoSeq,
           NEW f1, TakenOut(f, g, f1, m),
           NEW o1, Owns(o, o1, m, NoSeq)
    PROVE  \E L \in SUBSET K : Path(f1, o1, u, s, k, L)
<1>1. /\ m \in Cells /\ g[m] \in Cells /\ f[m] \in Cells /\ f[g[m]] = m /\ g[f[m]] = m
      /\ o[g[m]] = o[m] /\ o[f[m]] = o[m] /\ f \in [Cells -> Cells] /\ m \notin Seqs /\ m # s
      /\ o[m] \in Seqs /\ NoSeq \notin Seqs /\ o[s] = s
  BY ConstantsAssumption DEF Ring, Cells
<1>2. f1[g[m]] = f[m] /\ \A c \in Cells : c # g[m] => f1[c] = f[c]
  BY DEF TakenOut
<1>3. o1[m] = NoSeq /\ \A c \in Cells : c # m => o1[c] = o[c]
  BY DEF Owns
<1>4. /\ K \subseteq Cells \ {s} /\ Seqs \ {s} \subseteq K /\ K \subseteq Seqs \cup u
      /\ \A c \in Cells : o[c] \in Seqs \ {s} => c \in K
      /\ \A c \in K : f[c] = s \/ f[c] \in K \ {k}
      /\ \A c, d \in K : f[c] = f[d] /\ f[c] \in Nodes => c = d
      /\ \A c \in K : o[c] = NoSeq => f[c] = s \/ (f[c] \in Nodes /\ o[f[c]] \in {s, NoSeq})
      /\ k \in K /\ k \in Nodes /\ o[k] \in {s, NoSeq}
  BY DEF Path
<1>5. o1[k] \in {s, NoSeq}
  BY <1>3, <1>4
<1>6. \A c \in Cells : o1[c] \in Seqs \ {s} => c \in K \ {m}
  BY <1>1, <1>3, <1>4
<1>7. CASE g[m] \in K
  <2>1. m \in K /\ m # k
    BY <1>1, <1>4, <1>7
  <2>2. g[m] = m \/ f[m] # m
    BY <1>1
  <2>3. \A c \in K \ {m} : f1[c] = s \/ f1[c] \in (K \ {m}) \ {k}
    BY <1>1, <1>2, <1>4, <1>7, <2>1, <2>2
  <2>4. \A c, d \in K \ {m} : f1[c] = f1[d] /\ f1[c] \in Nodes => c = d
    BY <1>1, <1>2, <1>4, <2>1
  <2>5. \A c \in K \ {m} : o1[c] = NoSeq => f1[c] = s \/ (f1[c] \in Nodes /\ o1[f1[c]] \in {s, NoSeq})
    <3> SUFFICES ASSUME NEW c \in K \ {m}, o1[c] = NoSeq
                 PROVE  f1[c] = s \/ (f1[c] \in Nodes /\ o1[f1[c]] \in {s, NoSeq})
      OBVIOUS
    <3>1. c \in Cells /\ o[c] = NoSeq /\ c # g[m]
      BY <1>1, <1>3, <1>4
    <3>2. f1[c] = f[c] /\ (f[c] = s \/ (f[c] \in Nodes /\ o[f[c]] \in {s, NoSeq})) /\ f[c] \in Cells
      BY <1>1, <1>2, <1>4, <3>1
    <3> QED
      BY <1>3, <3>2
  <2>6. Path(f1, o1, u, s, k, K \ {m})
    BY <1>1, <1>4, <1>5, <1>6, <2>1, <2>3, <2>4, <2>5 DEF Path
  <2> QED
    BY <2>1, <2>6, <1>4
<1>8. CASE g[m] \notin K
  <2>1. \A c \in K : f1[c] = f[c]
    BY <1>2, <1>4, <1>8
  <2>2. m \in K => o[m] = s /\ (f[m] = s \/ f[m] \in Nodes)
    <3>1. o[m] = s
      BY <1>1, <1>4, <1>8
    <3>2. f[m] = s \/ f[m] \in Nodes
      BY <1>1, <3>1 DEF Ring, Cells
    <3> QED
      BY <3>1, <3>2
  <2>3. \A c \in K : o1[c] = NoSeq => f1[c] = s \/ (f1[c] \in Nodes /\ o1[f1[c]] \in {s, NoSeq})
    <3> SUFFICES ASSUME NEW c \in K, o1[c] = NoSeq
                 PROVE  f[c] = s \/ (f[c] \in Nodes /\ o1[f[c]] \in {s, NoSeq})
      BY <2>1
    <3>1. c \in Cells /\ f[c] \in Cells
      BY <1>1, <1>4
    <3>2. f[c] = s \/ (f[c] \in Nodes /\ o[f[c]] \in {s, NoSeq})
      BY <1>1, <1>3, <1>4, <2>2, <3>1
    <3> QED
      BY <1>3, <3>1, <3>2
  <2>4. \A c \in K : f1[c] = s \/ f1[c] \in K \ {k}
    BY <1>4, <2>1
  <2>5. \A c, d \in K : f1[c] = f1[d] /\ f1[c] \in Nodes => c = d
    BY <1>4, <2>1
  <2>6. Path(f1, o1, u, s, k, K)
    BY <1>4, <1>5, <1>6, <2>3, <2>4, <2>5 DEF Path
  <2> QED
    BY <1>4, <2>6
<1> QED
  BY <1>7, <1>8

(* A node is added behind the last one, or before the first one.           *)
LEMMA PathEnd ==
    ASSUME NEW f, NEW g, NEW o, Ring(f, g, o), NEW s \in Seqs, NEW u, NEW k, NEW K,
           Path(f, o, u, s, k, K), NEW t \in Seqs, NEW m \in Nodes, m \notin u, o[m] = NoSeq,
           NEW f1, AddedEnd(f, g, f1, m, t), NEW o1, Owns(o, o1, m, t)
    PROVE  Path(f1, o1, u \cup {m}, s, k, K \cup {m})
<1>1. /\ m \in Cells /\ t \in Cells /\ g[t] \in Cells /\ o[g[t]] = t /\ g[t] # m /\ m \notin Seqs
      /\ f \in [Cells -> Cells] /\ o \in [Cells -> Seqs \cup {NoSeq}] /\ NoSeq \notin Seqs
      /\ t \notin Nodes
  BY ConstantsAssumption DEF Ring, Cells
<1>2. f1[m] = t /\ f1[g[t]] = m /\ \A c \in Cells : c # m /\ c # g[t] => f1[c] = f[c]
  BY DEF AddedEnd
<1>3. o1[m] = t /\ \A c \in Cells : c # m => o1[c] = o[c]
  BY DEF Owns
<1>4. /\ K \subseteq Cells \ {s} /\ Seqs \ {s} \subseteq K /\ K \subseteq Seqs \cup u
      /\ \A c \in Cells : o[c] \in Seqs \ {s} => c \in K
      /\ \A c \in K : f[c] = s \/ f[c] \in K \ {k}
      /\ \A c, d \in K : f[c] = f[d] /\ f[c] \in Nodes => c = d
      /\ \A c \in K : o[c] = NoSeq => f[c] = s \/ (f[c] \in Nodes /\ o[f[c]] \in {s, NoSeq})
      /\ k \in K /\ k \in Nodes /\ o[k] \in {s, NoSeq}
  BY DEF Path
<1>5. m \notin K /\ k # m /\ k # t /\ m # s
  BY <1>1, <1>4
<1>6. K \cup {m} \subseteq Cells \ {s} /\ Seqs \ {s} \subseteq K \cup {m} /\ K \cup {m} \subseteq Seqs \cup (u \cup {m})
  BY <1>1, <1>4, <1>5
<1>7. \A c \in Cells : o1[c] \in Seqs \ {s} => c \in K \cup {m}
  BY <1>3, <1>4
<1>8. \A c \in K \cup {m} : f1[c] = s \/ f1[c] \in (K \cup {m}) \ {k}
  BY <1>1, <1>2, <1>4, <1>5
<1>9. \A c, d \in K \cup {m} : f1[c] = f1[d] /\ f1[c] \in Nodes => c = d
  BY <1>1, <1>2, <1>4, <1>5
<1>10. \A c \in K \cup {m} : o1[c] = NoSeq => f1[c] = s \/ (f1[c] \in Nodes /\ o1[f1[c]] \in {s, NoSeq})
  <2> SUFFICES ASSUME NEW c \in K \cup {m}, o1[c] = NoSeq
               PROVE  f1[c] = s \/ (f1[c] \in Nodes /\ o1[f1[c]] \in {s, NoSeq})
    OBVIOUS
  <2>1. c \in K /\ c \in Cells /\ o[c] = NoSeq /\ c # g[t] /\ c # m
    BY <1>1, <1>3, <1>4, <1>5
  <2>2. f1[c] = f[c] /\ f[c] # m /\ f[c] \in Cells
    BY <1>1, <1>2, <1>4, <1>5, <2>1
  <2> QED
    BY <1>3, <1>4, <2>1, <2>2
<1>11. o1[k] \in {s, NoSeq}
  BY <1>3, <1>4, <1>5
<1> QED
  BY <1>4, <1>6, <1>7, <1>8, <1>9, <1>10, <1>11 DEF Path

LEMMA PathFront ==
    ASSUME NEW f, NEW g, NEW o, Ring(f, g, o), NEW s \in Seqs, NEW u, NEW k, NEW K,
           Path(f, o, u, s, k, K), NEW t \in Seqs, NEW m \in Nodes, m \notin u, o[m] = NoSeq,
           NEW f1, AddedFront(f, f1, m, t), NEW o1, Owns(o, o1, m, t)
    PROVE  \E L \in SUBSET (K \cup {m}) : Path(f1, o1, u \cup {m}, s, k, L)
<1> DEFINE L == IF t = s THEN K ELSE K \cup {m}
<1>1. /\ m \in Cells /\ t \in Cells /\ o[t] = t /\ m \notin Seqs /\ f[t] \in Cells
      /\ f \in [Cells -> Cells] /\ o \in [Cells -> Seqs \cup {NoSeq}] /\ NoSeq \notin Seqs
      /\ t \notin Nodes
  BY ConstantsAssumption DEF Ring, Cells
<1>2. f1[m] = f[t] /\ f1[t] = m /\ \A c \in Cells : c # m /\ c # t => f1[c] = f[c]
  BY DEF AddedFront
<1>3. o1[m] = t /\ \A c \in Cells : c # m => o1[c] = o[c]
  BY DEF Owns
<1>4. /\ K \subseteq Cells \ {s} /\ Seqs \ {s} \subseteq K /\ K \subseteq Seqs \cup u
      /\ \A c \in Cells : o[c] \in Seqs \ {s} => c \in K
      /\ \A c \in K : f[c] = s \/ f[c] \in K \ {k}
      /\ \A c, d \in K : f[c] = f[d] /\ f[c] \in Nodes => c = d
      /\ \A c \in K : o[c] = NoSeq => f[c] = s \/ (f[c] \in Nodes /\ o[f[c]] \in {s, NoSeq})
      /\ k \in K /\ k \in Nodes /\ o[k] \in {s, NoSeq}
  BY DEF Path
<1>5. m \notin K /\ k # m /\ k # t /\ m # s
  BY <1>1, <1>4
<1>6. L \subseteq Cells \ {s} /\ Seqs \ {s} \subseteq L /\ L \subseteq Seqs \cup (u \cup {m}) /\ k \in L
  BY <1>1, <1>4, <1>5
<1>7. \A c \in Cells : o1[c] \in Seqs \ {s} => c \in L
  BY <1>3, <1>4
<1>8. t = s \/ t \in K
  BY <1>4
<1>9. \A c \in L : f1[c] = s \/ f1[c] \in L \ {k}
  BY <1>1, <1>2, <1>4, <1>5, <1>8
<1>10. \A c, d \in L : f1[c] = f1[d] /\ f1[c] \in Nodes => c = d
  BY <1>1, <1>2, <1>4, <1>5, <1>8
<1>11. \A c \in L : o1[c] = NoSeq => f1[c] = s \/ (f1[c] \in Nodes /\ o1[f1[c]] \in {s, NoSeq})
  <2> SUFFICES ASSUME NEW c \in L, o1[c] = NoSeq
               PROVE  f1[c] = s \/ (f1[c] \in Nodes /\ o1[f1[c]] \in {s, NoSeq})
    OBVIOUS
  <2>1. c \in K /\ c \in Cells /\ o[c] = NoSeq /\ c # t /\ c # m
    BY <1>1, <1>3, <1>4, <1>5
  <2>2. f1[c] = f[c] /\ f[c] # m /\ f[c] \in Cells
    BY <1>1, <1>2, <1>4, <1>5, <2>1
  <2> QED
    BY <1>3, <1>4, <2>1, <2>2
<1>12. o1[k] \in {s, NoSeq}
  BY <1>3, <1>4, <1>5
<1>13. Path(f1, o1, u \cup {m}, s, k, L)
  BY <1>4, <1>6, <1>7, <1>9, <1>10, <1>11, <1>12 DEF Path
<1> QED
  BY <1>13

(* The sequence that is iterated over is cleared.                          *)
LEMMA PathCleared ==
    ASSUME NEW f, NEW g, NEW o, Ring(f, g, o), NEW s \in Seqs, NEW u, NEW k, NEW K,
           Path(f, o, u, s, k, K), NEW f1, \A c \in Cells : c # s => f1[c] = f[c],
           NEW o1, Moved(o, o1, s, NoSeq)
    PROVE  Path(f1, o1, u, s, k, K)
<1>1. /\ K \subseteq Cells \ {s} /\ Seqs \ {s} \subseteq K /\ K \subseteq Seqs \cup u
      /\ \A c \in Cells : o[c] \in Seqs \ {s} => c \in K
      /\ \A c \in K : f[c] = s \/ f[c] \in K \ {k}
      /\ \A c, d \in K : f[c] = f[d] /\ f[c] \in Nodes => c = d
      /\ \A c \in K : o[c] = NoSeq => f[c] = s \/ (f[c] \in Nodes /\ o[f[c]] \in {s, NoSeq})
      /\ k \in K /\ k \in Nodes /\ o[k] \in {s, NoSeq}
  BY DEF Path
<1>2. \A c \in K : f1[c] = f[c] /\ c \in Cells /\ f[c] \in Cells
  BY <1>1 DEF Ring
<1>3. \A c \in Cells : o1[c] = IF c \in Nodes /\ o[c] = s THEN NoSeq ELSE o[c]
  BY DEF Moved
<1>4. \A c \in Cells : o1[c] \in Seqs \ {s} => c \in K
  BY <1>1, <1>3, ConstantsAssumption
<1>5. \A c \in K : o1[c] = NoSeq => f1[c] = s \/ (f1[c] \in Nodes /\ o1[f1[c]] \in {s, NoSeq})
  <2> SUFFICES ASSUME NEW c \in K, o1[c] = NoSeq, f[c] # s PROVE f[c] \in Nodes /\ o1[f[c]] \in {s, NoSeq}
    BY <1>2
  <2>1. c \in Cells /\ f[c] \in Cells /\ (o[c] = NoSeq \/ o[c] = s)
    BY <1>2, <1>3
  <2>2. o[c] = s => o[f[c]] = s
    BY <2>1, ConstantsAssumption DEF Ring
  <2>3. o[f[c]] = s => f[c] \in Nodes
    BY <2>1 DEF Ring, Cells
  <2> QED
    BY <1>1, <1>3, <2>1, <2>2, <2>3
<1>6. o1[k] \in {s, NoSeq}
  BY <1>1, <1>3
<1>7. \A c, d \in K : f1[c] = f1[d] /\ f1[c] \in Nodes => c = d
  BY <1>1, <1>2
<1> QED
  BY <1>1, <1>2, <1>4, <1>5, <1>6, <1>7 DEF Path

(* Another sequence loses its nodes, or they are put before those of s.    *)
LEMMA PathDropped ==
    ASSUME NEW f, NEW g, NEW o, Ring(f, g, o), NEW s \in Seqs, NEW u, NEW k, NEW K,
           Path(f, o, u, s, k, K), NEW a \in Seqs, a # s,
           NEW f1, f1[a] = a, \A c \in Cells : c # s /\ o[c] # a => f1[c] = f[c],
           NEW o1, NEW w \in {s, NoSeq}, Moved(o, o1, a, w)
    PROVE  \E L \in SUBSET K : Path(f1, o1, u, s, k, L)
<1> DEFINE M == {c \in Nodes : o[c] = a}
           L == K \ M
<1>1. /\ K \subseteq Cells \ {s} /\ Seqs \ {s} \subseteq K /\ K \subseteq Seqs \cup u
      /\ \A c \in Cells : o[c] \in Seqs \ {s} => c \in K
      /\ \A c \in K : f[c] = s \/ f[c] \in K \ {k}
      /\ \A c, d \in K : f[c] = f[d] /\ f[c] \in Nodes => c = d
      /\ \A c \in K : o[c] = NoSeq => f[c] = s \/ (f[c] \in Nodes /\ o[f[c]] \in {s, NoSeq})
      /\ k \in K /\ k \in Nodes /\ o[k] \in {s, NoSeq}
  BY DEF Path
<1>2. \A c \in Cells : o1[c] = IF c \in Nodes /\ o[c] = a THEN w ELSE o[c]
  BY DEF Moved
<1>3. a \in K /\ a \notin Nodes /\ a \in Cells /\ NoSeq \notin Seqs
  BY <1>1, ConstantsAssumption
<1>4. k \in L /\ L \in SUBSET K /\ Seqs \ {s} \subseteq L
  BY <1>1, <1>3, ConstantsAssumption
<1>5. \A c \in L : c = a \/ (o[c] # a /\ f1[c] = f[c])
  <2> SUFFICES ASSUME NEW c \in L, o[c] = a PROVE c = a
    BY <1>1
  <2> QED
    BY <1>1 DEF Ring, Cells
<1>6. ASSUME NEW c \in L, c # a PROVE f[c] \notin M
  <2> SUFFICES ASSUME f[c] \in M PROVE FALSE
    OBVIOUS
  <2>1. f[c] \in Cells /\ g[f[c]] \in Cells /\ o[g[f[c]]] = a /\ f[g[f[c]]] = f[c]
    BY <1>3 DEF Ring, Cells
  <2>2. g[f[c]] \in K
    BY <1>1, <1>3, <2>1
  <2>3. c = g[f[c]]
    BY <1>1, <2>1, <2>2
  <2> QED
    BY <1>5, <1>6, <2>1, <2>3
<1>7. \A c \in L : f1[c] = s \/ f1[c] \in L \ {k}
  BY <1>1, <1>3, <1>4, <1>5, <1>6
<1>8. \A c, d \in L : f1[c] = f1[d] /\ f1[c] \in Nodes => c = d
  BY <1>1, <1>3, <1>5
<1>9. \A c \in Cells : o1[c] \in Seqs \ {s} => c \in L
  BY <1>1, <1>2, <1>3
<1>10. \A c \in L : o1[c] = NoSeq => f1[c] = s \/ (f1[c] \in Nodes /\ o1[f1[c]] \in {s, NoSeq})
  <2> SUFFICES ASSUME NEW c \in L, o1[c] = NoSeq PROVE f1[c] = s \/ (f1[c] \in Nodes /\ o1[f1[c]] \in {s, NoSeq})
    OBVIOUS
  <2>1. c \in Cells /\ o[c] = NoSeq /\ c # a
    BY <1>1, <1>2, <1>3 DEF Ring
  <2>2. f1[c] = f[c] /\ f[c] \in Cells /\ f[c] \notin M
    BY <1>5, <1>6, <2>1 DEF Ring
  <2> QED
    BY <1>1, <1>2, <2>1, <2>2
<1>11. o1[k] \in {s, NoSeq}
  BY <1>1, <1>2
<1>12. Path(f1, o1, u, s, k, L)
  BY <1>1, <1>4, <1>7, <1>8, <1>9, <1>10, <1>11 DEF Path
<1> QED
  BY <1>4, <1>12

(* The nodes of another sequence are moved to a third, or behind s.        *)
LEMMA PathMoved ==
    ASSUME NEW f, NEW g, NEW o, Ring(f, g, o), NEW s \in Seqs, NEW u, NEW k, NEW K,
           Path(f, o, u, s, k, K), NEW a \in Seqs, a # s, NEW b \in Seqs, a # b,
           NEW f1, Appended(f, g, f1, a, b) \/ (b # s /\ Prepended(f, g, f1, a, b)),
           NEW o1, Moved(o, o1, a, b)
    PROVE  Path(f1, o1, u, s, k, K)
<1>1. /\ K \subseteq Cells \ {s} /\ Seqs \ {s} \subseteq K /\ K \subseteq Seqs \cup u
      /\ \A c \in Cells : o[c] \in Seqs \ {s} => c \in K
      /\ \A c \in K : f[c] = s \/ f[c] \in K \ {k}
      /\ \A c, d \in K : f[c] = f[d] /\ f[c] \in Nodes => c = d
      /\ \A c \in K : o[c] = NoSeq => f[c] = s \/ (f[c] \in Nodes /\ o[f[c]] \in {s, NoSeq})
      /\ k \in K /\ k \in Nodes /\ o[k] \in {s, NoSeq}
  BY DEF Path
<1>2. \A c \in Cells : o1[c] = IF c \in Nodes /\ o[c] = a THEN b ELSE o[c]
  BY DEF Moved
<1>3. /\ a \in Cells /\ o[a] = a /\ g[a] \in Cells /\ o[g[a]] = a /\ f[g[a]] = a /\ a \in K /\ g[a] \in K
      /\ b \in Cells /\ o[b] = b /\ g[b] \in Cells /\ o[g[b]] = b /\ f[g[b]] = b /\ (b # s => b \in K)
      /\ NoSeq # a /\ NoSeq # b /\ a \notin Nodes /\ b \notin Nodes /\ k # a /\ k # b
  BY <1>1, ConstantsAssumption DEF Ring, Cells
<1>4. \A c \in Cells : o1[c] \in Seqs \ {s} => c \in K
  BY <1>1, <1>2, <1>3
<1>5. \A c \in K : o[c] = NoSeq => f1[c] = f[c] /\ c \in Cells /\ f[c] \in Cells
  BY <1>1, <1>3 DEF Appended, Prepended, Ring
<1>6. \A c \in K : o1[c] = NoSeq => f1[c] = s \/ (f1[c] \in Nodes /\ o1[f1[c]] \in {s, NoSeq})
  <2> SUFFICES ASSUME NEW c \in K, o1[c] = NoSeq PROVE f1[c] = s \/ (f1[c] \in Nodes /\ o1[f1[c]] \in {s, NoSeq})
    OBVIOUS
  <2>1. o[c] = NoSeq
    BY <1>1, <1>2, <1>3
  <2> QED
    BY <1>1, <1>2, <1>3, <1>5, <2>1
<1>7. o1[k] \in {s, NoSeq}
  BY <1>1, <1>2, <1>3
<1>8. CASE Appended(f, g, f1, a, b)
  <2>1. /\ f1[g[b]] = f[a] /\ f1[g[a]] = b /\ f1[a] = a
        /\ \A c \in Cells : c # g[b] /\ c # g[a] /\ c # a => f1[c] = f[c]
    BY <1>8 DEF Appended
  <2>2. \A c \in K : f1[c] = s \/ f1[c] \in K \ {k}
    BY <1>1, <1>3, <2>1
  <2>3. \A c, d \in K : f1[c] = f1[d] /\ f1[c] \in Nodes => c = d
    BY <1>1, <1>3, <2>1
  <2> QED
    BY <1>1, <1>4, <1>6, <1>7, <2>2, <2>3 DEF Path
<1>9. CASE b # s /\ Prepended(f, g, f1, a, b)
  <2>1. /\ f1[b] = f[a] /\ f1[g[a]] = f[b] /\ f1[a] = a
        /\ \A c \in Cells : c # b /\ c # g[a] /\ c # a => f1[c] = f[c]
    BY <1>9 DEF Prepended
  <2>2. g[a] # a => g[a] \in Nodes
    BY <1>3 DEF Ring, Cells
  <2>3. \A c \in K : f1[c] = s \/ f1[c] \in K \ {k}
    BY <1>1, <1>3, <1>9, <2>1
  <2>4. \A c, d \in K : f1[c] = f1[d] /\ f1[c] \in Nodes => c = d
    BY <1>1, <1>3, <1>9, <2>1, <2>2
  <2> QED
    BY <1>1, <1>4, <1>6, <1>7, <2>3, <2>4 DEF Path
<1> QED
  BY <1>8, <1>9
-----------------------------------------------------------------------------
(* The steps keep the way of the iteration.                                *)

LEMMA Rings ==
    ASSUME IInv
    PROVE  Ring(next, prev, owner) /\ Ring(prev, next, owner)
<1>1. \A c \in Cells : owner[c] # NoSeq =>
          /\ owner[next[c]] = owner[c] /\ prev[next[c]] = c
          /\ owner[prev[c]] = owner[c] /\ next[prev[c]] = c
  BY DEF IInv, WellLinked, Linked
<1> QED
  BY <1>1 DEF IInv, TypeOK, SentinelOwns, Ring

(* What an operation leaves of the way in the direction f.                 *)
Kept(f, f1) ==
    /\ \A n \in stayed' :
           Reaches(f, iter.curr, iter.seq, n) => Reaches(f1, iter.curr, iter.seq, n)
    /\ \A K \in SUBSET Cells :
           Path(f, owner, used, iter.seq, iter.curr, K) =>
               \E L \in SUBSET (K \cup (used' \ used)) :
                   Path(f1, owner', used', iter.seq, iter.curr, L)

LEMMA OperationStep ==
    ASSUME IterInv, Turn, UNCHANGED <<iter, seen>>, used \subseteq used', stayed' \subseteq stayed,
           iter.pc = "f" => /\ \A n \in stayed' : n \in Nodes /\ owner'[n] = iter.seq
                            /\ Kept(next, next') /\ Kept(prev, prev')
    PROVE  StayedOK' /\ PassedOK'
<1>1. CASE iter.pc = "idle"
  BY <1>1 DEF IterInv, StayedOK, PassedOK
<1>2. CASE iter.pc = "f"
  <2>1. link(iter.dir)' = IF iter.dir = "l" THEN next' ELSE prev'
    BY DEF link
  <2>2. link(iter.dir) = IF iter.dir = "l" THEN next ELSE prev
    BY DEF link
  <2>3. PICK f, f1 : f = link(iter.dir) /\ f1 = link(iter.dir)' /\ Kept(f, f1)
    BY <1>2, <2>1, <2>2
  <2>4. /\ seen \subseteq used /\ iter.curr \in seen /\ iter.curr # iter.seq
        /\ \A n \in stayed \ seen : Reaches(f, iter.curr, iter.seq, n)
    BY <1>2, <2>3 DEF IterInv, StayedOK, PassedOK
  <2>5. PICK K \in SUBSET Cells : Path(f, owner, used, iter.seq, iter.curr, K) /\ K \cap seen = {iter.curr}
    BY <1>2, <2>3, <2>4 DEF IterInv, PassedOK
  <2>6. PICK L \in SUBSET (K \cup (used' \ used)) : Path(f1, owner', used', iter.seq, iter.curr, L)
    BY <2>3, <2>5 DEF Kept
  <2>7. L \subseteq Cells /\ L \cap seen = {iter.curr}
    <3>1. L \subseteq Cells /\ iter.curr \in L
      BY <2>6 DEF Path
    <3> QED
      BY <2>4, <2>5, <2>6, <3>1
  <2>8. \A n \in stayed' \ seen : Reaches(f1, iter.curr, iter.seq, n)
    BY <2>3, <2>4 DEF Kept
  <2>9. StayedOK'
    BY <1>2, <2>3, <2>8 DEF StayedOK, Members
  <2>10. PassedOK'
    BY <1>2, <2>3, <2>4, <2>6, <2>7 DEF PassedOK
  <2> QED
    BY <2>9, <2>10
<1> QED
  BY <1>1, <1>2 DEF Turn

(* The links of a node that is not allocated are not those of a sequence.  *)
LEMMA FreshNode ==
    ASSUME IterInv, NEW m \in Nodes, m \in Fresh
    PROVE  m \notin used /\ owner[m] = NoSeq /\ next[m] = m /\ prev[m] = m
  BY DEF Fresh, IterInv, IInv, LinkedActive, UnlinkedOK, Unlinked

LEMMA Seat ==
    ASSUME IterInv, iter.pc = "f"
    PROVE  /\ iter.seq \in Seqs /\ iter.curr \in Nodes
           /\ \A n \in stayed : n \in Nodes /\ owner[n] = iter.seq
<1>1. iter.seq \in Seqs /\ iter.curr # iter.seq
  BY DEF IterInv, IInv, TypeOK, IterStates, PassedOK
<1>2. \E K \in SUBSET Cells : Path(link(iter.dir), owner, used, iter.seq, iter.curr, K)
  BY <1>1 DEF IterInv, PassedOK
<1> QED
  BY <1>1, <1>2 DEF Path, IterInv, StayedOK, Members

LEMMA IterTaken ==
    ASSUME IterInv, NEW m \in Nodes, owner[m] # NoSeq, Unlink(m), Turn
    PROVE  IterInv'
<1>1. /\ next' = [next EXCEPT ![prev[m]] = next[m]] /\ prev' = [prev EXCEPT ![next[m]] = prev[m]]
      /\ owner' = [c \in Cells |-> IF c \in {m} THEN NoSeq ELSE owner[c]]
      /\ stayed' = stayed \ {m} /\ UNCHANGED <<used, iter, seen>>
  BY DEF Unlink, Leave
<1>2. IInv' /\ IInv
  BY UnlinkStep DEF IterInv
<1>3. Ring(next, prev, owner) /\ Ring(prev, next, owner)
  BY <1>2, Rings
<1>T. /\ TakenOut(next, prev, next', m) /\ TakenOut(prev, next, prev', m)
      /\ Owns(owner, owner', m, NoSeq)
  <2>1. m \in Cells /\ prev[m] \in Cells /\ next[m] \in Cells /\ next \in [Cells -> Cells] /\ prev \in [Cells -> Cells]
    BY <1>3 DEF Ring, Cells
  <2> QED
    BY <1>1, <2>1 DEF TakenOut, Owns
<1>4. AllReachedOK'
  <2>1. Reached(next, owner) /\ Reached(prev, owner)
    BY DEF IterInv, AllReachedOK
  <2>2. Reached(next', owner')
    BY <1>3, <1>T, <2>1, ReachedTaken
  <2>3. Reached(prev', owner')
    BY <1>3, <1>T, <2>1, ReachedTaken
  <2> QED
    BY <2>2, <2>3 DEF AllReachedOK
<1>5. UnlinkedOK'
  <2>1. ASSUME NEW n \in Nodes \ used PROVE next'[n] = n /\ prev'[n] = n
    <3>1. owner[n] = NoSeq /\ next[n] = n /\ prev[n] = n /\ n \in Cells
      BY DEF IterInv, IInv, LinkedActive, UnlinkedOK, Unlinked, Cells
    <3>2. owner[prev[m]] # NoSeq /\ owner[next[m]] # NoSeq /\ next \in [Cells -> Cells] /\ prev \in [Cells -> Cells]
      BY <1>3 DEF Ring, Cells
    <3> QED
      BY <1>1, <3>1, <3>2
  <2> QED
    BY <1>1, <2>1 DEF UnlinkedOK, Unlinked
<1>6. ASSUME NEW f, NEW g, Ring(f, g, owner), NEW f1, TakenOut(f, g, f1, m), iter.pc = "f"
      PROVE  Kept(f, f1)
  <2>1. \A n \in stayed' : Reaches(f, iter.curr, iter.seq, n) => Reaches(f1, iter.curr, iter.seq, n)
    BY <1>1, <1>6, ReachesTaken, Seat
  <2>2. ASSUME NEW K \in SUBSET Cells, Path(f, owner, used, iter.seq, iter.curr, K)
        PROVE  \E L \in SUBSET (K \cup (used' \ used)) : Path(f1, owner', used', iter.seq, iter.curr, L)
    <3>1. \E L \in SUBSET K : Path(f1, owner', used, iter.seq, iter.curr, L)
      BY <1>6, <1>T, <2>2, Seat, PathTaken
    <3> QED
      BY <1>1, <3>1
  <2> QED
    BY <2>1, <2>2 DEF Kept
<1>7. iter.pc = "f" => \A n \in stayed' : n \in Nodes /\ owner'[n] = iter.seq
  BY <1>1, Seat DEF Cells
<1>8. StayedOK' /\ PassedOK'
  BY <1>1, <1>3, <1>T, <1>6, <1>7, OperationStep
<1> QED
  BY <1>2, <1>4, <1>5, <1>8 DEF IterInv

(* A node is added at an end of a sequence: behind it for one direction    *)
(* and before it for the other.                                            *)
LEMMA KeptAdd ==
    ASSUME IterInv, iter.pc = "f", NEW t \in Seqs, NEW m \in Nodes, m \in Fresh,
           Owns(owner, owner', m, t), used' = used \cup {m}, UNCHANGED stayed,
           NEW f, NEW g, Ring(f, g, owner), f[m] = m,
           NEW f1, AddedEnd(f, g, f1, m, t) \/ AddedFront(f, f1, m, t)
    PROVE  Kept(f, f1)
<1>1. m \notin used /\ owner[m] = NoSeq /\ used' \ used = {m} /\ iter.seq \in Seqs
  BY FreshNode, Seat
<1>2. /\ f \in [Cells -> Cells] /\ t \in Cells /\ m \in Cells /\ g[t] \in Cells /\ owner[t] = t
      /\ f[g[t]] = t /\ owner[g[t]] = t /\ m # g[t] /\ m # t /\ NoSeq \notin Seqs
  BY <1>1, ConstantsAssumption DEF Ring, Cells
<1>3. ASSUME NEW n \in stayed', Reaches(f, iter.curr, iter.seq, n)
      PROVE  Reaches(f1, iter.curr, iter.seq, n)
  <2>1. \A c \in Cells \ {iter.seq} : owner[c] \in {iter.seq, NoSeq} => f1[c] = f[c] \/ f[c] \in {iter.seq, c}
    BY <1>1, <1>2 DEF AddedEnd, AddedFront
  <2>2. n \in Nodes /\ owner[n] = iter.seq
    BY Seat
  <2> QED
    BY <1>1, <1>3, <2>1, <2>2, ReachesOther
<1>4. ASSUME NEW K \in SUBSET Cells, Path(f, owner, used, iter.seq, iter.curr, K)
      PROVE  \E L \in SUBSET (K \cup {m}) : Path(f1, owner', used', iter.seq, iter.curr, L)
  <2>1. CASE AddedEnd(f, g, f1, m, t)
    <3>1. Path(f1, owner', used \cup {m}, iter.seq, iter.curr, K \cup {m})
      BY <1>1, <1>4, <2>1, PathEnd
    <3> QED
      BY <3>1
  <2>2. CASE AddedFront(f, f1, m, t)
    <3>1. PICK s, k, o1 : s = iter.seq /\ k = iter.curr /\ o1 = owner'
      OBVIOUS
    <3>2. s \in Seqs /\ Path(f, owner, used, s, k, K) /\ Owns(owner, o1, m, t)
      BY <1>1, <1>4, <3>1
    <3>3. \E L \in SUBSET (K \cup {m}) : Path(f1, o1, used \cup {m}, s, k, L)
      BY <1>1, <2>2, <3>2, PathFront
    <3> QED
      BY <3>1, <3>3
  <2> QED
    BY <2>1, <2>2
<1> QED
  BY <1>1, <1>3, <1>4 DEF Kept

LEMMA IterAdded ==
    ASSUME IterInv, NEW t \in Seqs, NEW m \in Nodes, add_l(t, m) \/ add_r(t, m)
    PROVE  IterInv'
<1>1. /\ m \in Fresh /\ Turn /\ owner' = [owner EXCEPT ![m] = t] /\ used' = used \cup {m}
      /\ UNCHANGED <<iter, seen, stayed>>
      /\ \/ /\ next' = [next EXCEPT ![m] = next[t], ![t] = m]
            /\ prev' = [prev EXCEPT ![m] = t, ![next[t]] = m]
         \/ /\ next' = [next EXCEPT ![m] = t, ![prev[t]] = m]
            /\ prev' = [prev EXCEPT ![m] = prev[t], ![t] = m]
  BY DEF add_l, add_r
<1>2. IInv' /\ IInv
  BY AddLStep, AddRStep DEF IterInv
<1>3. Ring(next, prev, owner) /\ Ring(prev, next, owner)
  BY <1>2, Rings
<1>4. m \notin used /\ owner[m] = NoSeq /\ next[m] = m /\ prev[m] = m
  BY <1>1, FreshNode
<1>A. /\ AddedEnd(next, prev, next', m, t) \/ AddedFront(next, next', m, t)
      /\ AddedEnd(prev, next, prev', m, t) \/ AddedFront(prev, prev', m, t)
      /\ Owns(owner, owner', m, t)
  <2>1. /\ m \in Cells /\ t \in Cells /\ prev[t] \in Cells /\ next[t] \in Cells /\ m # t
        /\ next \in [Cells -> Cells] /\ prev \in [Cells -> Cells] /\ owner \in [Cells -> Seqs \cup {NoSeq}]
        /\ m # prev[t] /\ m # next[t]
    BY <1>3, <1>4, ConstantsAssumption DEF Ring, Cells
  <2>2. Owns(owner, owner', m, t)
    BY <1>1, <2>1 DEF Owns
  <2>3. AddedEnd(next, prev, next', m, t) \/ AddedFront(next, next', m, t)
    BY <1>1, <2>1 DEF AddedEnd, AddedFront
  <2>4. AddedEnd(prev, next, prev', m, t) \/ AddedFront(prev, prev', m, t)
    BY <1>1, <2>1 DEF AddedEnd, AddedFront
  <2> QED
    BY <2>2, <2>3, <2>4
<1>5. AllReachedOK'
  <2>1. Reached(next, owner) /\ Reached(prev, owner)
    BY DEF IterInv, AllReachedOK
  <2>2. Reached(next', owner')
    BY <1>3, <1>4, <1>A, <2>1, ReachedEnd, ReachedFront
  <2>3. Reached(prev', owner')
    BY <1>3, <1>4, <1>A, <2>1, ReachedEnd, ReachedFront
  <2> QED
    BY <2>2, <2>3 DEF AllReachedOK
<1>6. UnlinkedOK'
  <2>1. ASSUME NEW n \in Nodes \ used' PROVE next'[n] = n /\ prev'[n] = n
    <3>1. n # m /\ owner[n] = NoSeq /\ next[n] = n /\ prev[n] = n /\ n \in Cells
      BY <1>1 DEF IterInv, IInv, LinkedActive, UnlinkedOK, Unlinked, Cells
    <3>2. /\ owner[prev[t]] = t /\ owner[next[t]] = t /\ owner[t] = t /\ t # NoSeq
          /\ next \in [Cells -> Cells] /\ prev \in [Cells -> Cells]
      BY <1>3, ConstantsAssumption DEF Ring, Cells
    <3> QED
      BY <1>1, <3>1, <3>2
  <2> QED
    BY <2>1 DEF UnlinkedOK, Unlinked
<1>7. iter.pc = "f" => \A n \in stayed' : n \in Nodes /\ owner'[n] = iter.seq
  <2>1. iter.pc = "f" => \A n \in stayed : n \in Nodes /\ owner[n] = iter.seq /\ iter.seq \in Seqs
    BY Seat
  <2>2. \A n \in Nodes : n # m => owner'[n] = owner[n]
    BY <1>1, <1>3 DEF Ring, Cells
  <2> QED
    BY <1>1, <1>4, <2>1, <2>2, ConstantsAssumption
<1>8. ASSUME iter.pc = "f" PROVE Kept(next, next') /\ Kept(prev, prev')
  <2>1. Kept(next, next')
    BY <1>1, <1>3, <1>4, <1>A, <1>8, KeptAdd
  <2>2. Kept(prev, prev')
    BY <1>1, <1>3, <1>4, <1>A, <1>8, KeptAdd
  <2> QED
    BY <2>1, <2>2
<1>9. StayedOK' /\ PassedOK'
  BY <1>1, <1>7, <1>8, OperationStep
<1> QED
  BY <1>2, <1>5, <1>6, <1>9 DEF IterInv

(* All the nodes of a leave: their links need not remain, unless a is      *)
(* being iterated over.                                                    *)
Dropped(f, f1, a) ==
    /\ f1[a] = a
    /\ \A c \in Cells : owner[c] # a => f1[c] = f[c]
    /\ a = iter.seq /\ iter.pc = "f" => \A c \in Cells : c # a => f1[c] = f[c]

LEMMA KeptDropped ==
    ASSUME IterInv, iter.pc = "f", NEW a \in Seqs, Moved(owner, owner', a, NoSeq),
           stayed' = stayed \ Members(a), used' = used,
           NEW f, NEW g, Ring(f, g, owner), NEW f1, Dropped(f, f1, a)
    PROVE  Kept(f, f1)
<1>1. PICK s, k, o1 : s = iter.seq /\ k = iter.curr /\ o1 = owner'
  OBVIOUS
<1>2. /\ s \in Seqs /\ Moved(owner, o1, a, NoSeq) /\ f1[a] = a /\ owner[a] = a /\ NoSeq \notin Seqs
      /\ \A c \in Cells : owner[c] # a => f1[c] = f[c]
      /\ a = s => \A c \in Cells : c # s => f1[c] = f[c]
  BY <1>1, Seat, ConstantsAssumption DEF Dropped, Ring
<1>3. \A n \in stayed' : n \in Nodes /\ owner[n] = s /\ owner[n] # a
  BY <1>1, Seat DEF Members
<1>4. ASSUME NEW n \in stayed', Reaches(f, k, s, n) PROVE Reaches(f1, k, s, n)
  <2>1. n \in Nodes /\ owner[n] = s /\ a # s
    BY <1>3
  <2>2. \A c \in Cells \ {s} : owner[c] \in {s, NoSeq} => f1[c] = f[c] \/ f[c] \in {s, c}
    BY <1>2, <2>1
  <2> QED
    BY <1>2, <1>4, <2>1, <2>2, ReachesOther
<1>5. ASSUME NEW K \in SUBSET Cells, Path(f, owner, used, s, k, K)
      PROVE  \E L \in SUBSET K : Path(f1, o1, used, s, k, L)
  <2>1. CASE a = s
    <3>1. Path(f1, o1, used, s, k, K)
      BY <1>2, <1>5, <2>1, PathCleared
    <3> QED
      BY <3>1
  <2>2. CASE a # s
    <3>1. \A c \in Cells : c # s /\ owner[c] # a => f1[c] = f[c]
      BY <1>2
    <3> QED
      BY <1>2, <1>5, <2>2, <3>1, PathDropped
  <2> QED
    BY <2>1, <2>2
<1> QED
  BY <1>1, <1>4, <1>5 DEF Kept

LEMMA IterDropped ==
    ASSUME IterInv, IInv', Turn, UNCHANGED <<used, iter, seen>>, NEW a \in Seqs,
           Moved(owner, owner', a, NoSeq), stayed' = stayed \ Members(a),
           Dropped(next, next', a), Dropped(prev, prev', a)
    PROVE  IterInv'
<1>1. Ring(next, prev, owner) /\ Ring(prev, next, owner)
  BY Rings DEF IterInv
<1>2. AllReachedOK'
  <2>1. Reached(next, owner) /\ Reached(prev, owner)
    BY DEF IterInv, AllReachedOK
  <2>2. \A c \in Cells : owner[c] # a => next'[c] = next[c]
    BY DEF Dropped
  <2>3. \A c \in Cells : owner[c] # a => prev'[c] = prev[c]
    BY DEF Dropped
  <2>4. Reached(next', owner')
    BY <1>1, <2>1, <2>2, ReachedDropped
  <2>5. Reached(prev', owner')
    BY <1>1, <2>1, <2>3, ReachedDropped
  <2> QED
    BY <2>4, <2>5 DEF AllReachedOK
<1>3. UnlinkedOK'
  <2>1. ASSUME NEW n \in Nodes \ used PROVE next'[n] = n /\ prev'[n] = n
    <3>1. owner[n] = NoSeq /\ next[n] = n /\ prev[n] = n /\ n \in Cells /\ a # NoSeq
      BY ConstantsAssumption DEF IterInv, IInv, LinkedActive, UnlinkedOK, Unlinked, Cells
    <3> QED
      BY <3>1 DEF Dropped
  <2> QED
    BY <2>1 DEF UnlinkedOK, Unlinked
<1>4. iter.pc = "f" => \A n \in stayed' : n \in Nodes /\ owner'[n] = iter.seq
  <2>1. ASSUME iter.pc = "f", NEW n \in stayed' PROVE n \in Nodes /\ owner'[n] = iter.seq
    <3>1. n \in Nodes /\ n \in Cells /\ owner[n] = iter.seq /\ owner[n] # a
      BY <2>1, Seat DEF Members, Cells
    <3> QED
      BY <3>1 DEF Moved
  <2> QED
    BY <2>1
<1>5. ASSUME iter.pc = "f" PROVE Kept(next, next') /\ Kept(prev, prev')
  <2>1. Kept(next, next')
    BY <1>1, <1>5, KeptDropped
  <2>2. Kept(prev, prev')
    BY <1>1, <1>5, KeptDropped
  <2> QED
    BY <2>1, <2>2
<1>6. StayedOK' /\ PassedOK'
  BY <1>4, <1>5, OperationStep
<1> QED
  BY <1>2, <1>3, <1>6 DEF IterInv

LEMMA IterCleared ==
    ASSUME IterInv, NEW a \in Seqs, clear(a)
    PROVE  IterInv'
<1>1. IInv /\ IInv' /\ Turn /\ UNCHANGED <<used, iter, seen>> /\ stayed' = stayed \ Members(a)
  BY ClearStep DEF IterInv, clear, Leave
<1>2. Moved(owner, owner', a, NoSeq)
  BY DEF clear, Leave, Members, Moved
<1>3. a \in Cells /\ owner[a] = a /\ next \in [Cells -> Cells] /\ prev \in [Cells -> Cells]
  BY <1>1 DEF IInv, TypeOK, SentinelOwns, Cells
<1>4. Dropped(next, next', a) /\ Dropped(prev, prev', a)
  BY <1>3 DEF clear, Dropped
<1> QED
  BY <1>1, <1>2, <1>4, IterDropped

(* The nodes of a, which is not being iterated over, go to b.              *)
LEMMA KeptMoved ==
    ASSUME IterInv, iter.pc = "f", NEW a \in Seqs, NEW b \in Seqs, a # b, a # iter.seq,
           Moved(owner, owner', a, b), stayed' = stayed \ Members(a), used' = used,
           NEW f, NEW g, Ring(f, g, owner),
           NEW f1, Appended(f, g, f1, a, b) \/ Prepended(f, g, f1, a, b)
    PROVE  Kept(f, f1)
<1>1. PICK s, k, o1 : s = iter.seq /\ k = iter.curr /\ o1 = owner'
  OBVIOUS
<1>2. /\ s \in Seqs /\ a # s /\ Moved(owner, o1, a, b) /\ NoSeq \notin Seqs
      /\ a \in Cells /\ owner[a] = a /\ g[a] \in Cells /\ owner[g[a]] = a
      /\ b \in Cells /\ owner[b] = b /\ g[b] \in Cells /\ owner[g[b]] = b /\ f[g[b]] = b
  BY <1>1, Seat, ConstantsAssumption DEF Ring, Cells
<1>3. \A n \in stayed' : n \in Nodes /\ owner[n] = s
  BY <1>1, Seat
<1>4. ASSUME NEW n \in stayed', Reaches(f, k, s, n) PROVE Reaches(f1, k, s, n)
  <2>1. \A c \in Cells \ {s} : owner[c] \in {s, NoSeq} => f1[c] = f[c] \/ f[c] \in {s, c}
    <3>1. CASE Appended(f, g, f1, a, b)
      BY <1>2, <3>1 DEF Appended
    <3>2. CASE Prepended(f, g, f1, a, b)
      BY <1>2, <3>2 DEF Prepended
    <3> QED
      BY <3>1, <3>2
  <2> QED
    BY <1>2, <1>3, <1>4, <2>1, ReachesOther
<1>5. ASSUME NEW K \in SUBSET Cells, Path(f, owner, used, s, k, K)
      PROVE  \E L \in SUBSET K : Path(f1, o1, used, s, k, L)
  <2>1. CASE Appended(f, g, f1, a, b) \/ (b # s /\ Prepended(f, g, f1, a, b))
    <3>1. Path(f1, o1, used, s, k, K)
      BY <1>2, <1>5, <2>1, PathMoved
    <3> QED
      BY <3>1
  <2>2. CASE b = s /\ Prepended(f, g, f1, a, b)
    <3>1. f1[a] = a /\ \A c \in Cells : c # s /\ owner[c] # a => f1[c] = f[c]
      BY <1>2, <2>2 DEF Prepended
    <3>2. Moved(owner, o1, a, s)
      BY <1>2, <2>2
    <3> QED
      BY <1>2, <1>5, <3>1, <3>2, PathDropped
  <2> QED
    BY <2>1, <2>2
<1> QED
  BY <1>1, <1>4, <1>5 DEF Kept

LEMMA IterMoved ==
    ASSUME IterInv, IInv', Turn, UNCHANGED <<used, iter, seen>>,
           NEW a \in Seqs, NEW b \in Seqs, a # b, NotIterated(a), next[a] # a,
           Moved(owner, owner', a, b), stayed' = stayed \ Members(a),
           Appended(next, prev, next', a, b) \/ Prepended(next, prev, next', a, b),
           Appended(prev, next, prev', a, b) \/ Prepended(prev, next, prev', a, b)
    PROVE  IterInv'
<1>1. Ring(next, prev, owner) /\ Ring(prev, next, owner)
  BY Rings DEF IterInv
<1>2. Reached(next, owner) /\ Reached(prev, owner)
  BY DEF IterInv, AllReachedOK
<1>3. /\ a \in Cells /\ owner[a] = a /\ owner[prev[a]] = a /\ owner[next[a]] = a
      /\ b \in Cells /\ owner[b] = b /\ owner[prev[b]] = b /\ owner[next[b]] = b
      /\ prev[a] # a /\ a # NoSeq /\ b # NoSeq
  BY <1>1, <1>2, EndsOf, ConstantsAssumption
<1>4. AllReachedOK'
  <2>1. Reached(next', owner')
    BY <1>1, <1>2, ReachedAppended, ReachedPrepended
  <2>2. Reached(prev', owner')
    BY <1>1, <1>2, <1>3, ReachedAppended, ReachedPrepended
  <2> QED
    BY <2>1, <2>2 DEF AllReachedOK
<1>5. UnlinkedOK'
  <2>1. ASSUME NEW n \in Nodes \ used PROVE next'[n] = n /\ prev'[n] = n
    <3>1. owner[n] = NoSeq /\ next[n] = n /\ prev[n] = n /\ n \in Cells
      BY DEF IterInv, IInv, LinkedActive, UnlinkedOK, Unlinked, Cells
    <3> QED
      BY <1>3, <3>1 DEF Appended, Prepended
  <2> QED
    BY <2>1 DEF UnlinkedOK, Unlinked
<1>6. iter.pc = "f" => \A n \in stayed' : n \in Nodes /\ owner'[n] = iter.seq
  <2>1. ASSUME iter.pc = "f", NEW n \in stayed' PROVE n \in Nodes /\ owner'[n] = iter.seq
    <3>1. n \in Nodes /\ n \in Cells /\ owner[n] = iter.seq /\ owner[n] # a
      BY <2>1, Seat DEF Members, Cells
    <3> QED
      BY <3>1 DEF Moved
  <2> QED
    BY <2>1
<1>7. ASSUME iter.pc = "f" PROVE Kept(next, next') /\ Kept(prev, prev')
  <2>1. a # iter.seq
    BY <1>7 DEF NotIterated
  <2>2. Kept(next, next')
    BY <1>1, <1>7, <2>1, KeptMoved
  <2>3. Kept(prev, prev')
    BY <1>1, <1>7, <2>1, KeptMoved
  <2> QED
    BY <2>2, <2>3
<1>8. StayedOK' /\ PassedOK'
  BY <1>6, <1>7, OperationStep
<1> QED
  BY <1>4, <1>5, <1>8 DEF IterInv

LEMMA IterSame ==
    ASSUME IterInv, UNCHANGED vars
    PROVE  IterInv'
<1>1. IInv'
  BY DEF IterInv, IInv, vars, TypeOK, SentinelOwns, LinkedActive, WellLinked, Linked
<1>2. AllReachedOK' /\ UnlinkedOK'
  BY DEF IterInv, vars, AllReachedOK, UnlinkedOK
<1>3. StayedOK' /\ PassedOK'
  BY DEF IterInv, vars, StayedOK, PassedOK, Members, link
<1> QED
  BY <1>1, <1>2, <1>3 DEF IterInv

LEMMA IterTransferL ==
    ASSUME IterInv, NEW a \in Seqs, NEW b \in Seqs, transfer_l(a, b)
    PROVE  IterInv'
<1>1. IInv /\ IInv'
  BY TransferLStep DEF IterInv
<1>2. /\ Turn /\ NotIterated(a) /\ UNCHANGED <<used, iter, seen, active>> /\ stayed' = stayed \ Members(a)
      /\ Moved(owner, owner', a, IF a = b THEN NoSeq ELSE b)
  BY DEF transfer_l, Move, Members, Moved
<1>3. Ring(next, prev, owner) /\ Ring(prev, next, owner) /\ Reached(next, owner)
  BY <1>1, Rings DEF IterInv, AllReachedOK
<1>4. /\ a \in Cells /\ owner[a] = a /\ next[a] \in Cells /\ prev[a] \in Cells
      /\ owner[next[a]] = a /\ owner[prev[a]] = a /\ next[prev[a]] = a /\ prev[next[a]] = a
      /\ (next[a] # a => next[a] \in Nodes /\ prev[a] \in Nodes) /\ (next[a] = a <=> prev[a] = a)
      /\ (next[a] = a => \A n \in Nodes : owner[n] # a)
  BY <1>3, EndsOf
<1>5. /\ b \in Cells /\ owner[b] = b /\ next[b] \in Cells /\ prev[b] \in Cells
      /\ owner[next[b]] = b /\ owner[prev[b]] = b /\ next[prev[b]] = b /\ prev[next[b]] = b
  BY <1>3, EndsOf
<1>6. next \in [Cells -> Cells] /\ prev \in [Cells -> Cells] /\ a # NoSeq /\ b # NoSeq /\ a \notin Nodes /\ b \notin Nodes
  BY <1>3, ConstantsAssumption DEF Ring
<1>7. CASE a = b
  <2>1. next'[a] = a /\ \A c \in Cells : owner[c] # a => next'[c] = next[c]
    BY <1>4, <1>6, <1>7 DEF transfer_l
  <2>2. prev'[a] = a /\ \A c \in Cells : owner[c] # a => prev'[c] = prev[c]
    BY <1>4, <1>6, <1>7 DEF transfer_l
  <2>3. ~(a = iter.seq /\ iter.pc = "f")
    BY <1>2 DEF NotIterated
  <2>4. Dropped(next, next', a) /\ Dropped(prev, prev', a)
    BY <2>1, <2>2, <2>3 DEF Dropped
  <2>5. Moved(owner, owner', a, NoSeq)
    BY <1>2, <1>7
  <2> QED
    BY <1>1, <1>2, <2>4, <2>5, IterDropped
<1>8. CASE a # b /\ next[a] = a
  <2>1. next' = next /\ prev' = prev
    BY <1>4, <1>5, <1>6, <1>8 DEF transfer_l
  <2>2. Members(a) = {}
    BY <1>4, <1>8 DEF Members
  <2>3. owner' = owner
    <3>1. owner' = [c \in Cells |-> owner[c]]
      BY <2>2 DEF transfer_l, Move
    <3>2. owner \in [Cells -> Seqs \cup {NoSeq}]
      BY <1>3 DEF Ring
    <3> QED
      BY <3>1, <3>2
  <2> QED
    BY <1>2, <2>1, <2>2, <2>3, IterSame DEF vars
<1>9. CASE a # b /\ next[a] # a
  <2>1. next' = [next EXCEPT ![prev[a]] = next[b], ![b] = next[a], ![a] = a]
    BY <1>4, <1>5, <1>6, <1>9 DEF transfer_l
  <2>2. prev' = [prev EXCEPT ![next[b]] = prev[a], ![next[a]] = b, ![a] = a]
    BY <1>4, <1>5, <1>6, <1>9 DEF transfer_l
  <2>3. Prepended(next, prev, next', a, b)
    BY <1>4, <1>5, <1>6, <1>9, <2>1 DEF Prepended
  <2>4. Appended(prev, next, prev', a, b)
    BY <1>4, <1>5, <1>6, <1>9, <2>2 DEF Appended
  <2>5. Moved(owner, owner', a, b)
    BY <1>2, <1>9
  <2> QED
    BY <1>1, <1>2, <1>9, <2>3, <2>4, <2>5, IterMoved
<1> QED
  BY <1>7, <1>8, <1>9

LEMMA IterTransferR ==
    ASSUME IterInv, NEW a \in Seqs, NEW b \in Seqs, transfer_r(a, b)
    PROVE  IterInv'
<1>1. IInv /\ IInv'
  BY TransferRStep DEF IterInv
<1>2. /\ Turn /\ NotIterated(a) /\ UNCHANGED <<used, iter, seen, active>> /\ stayed' = stayed \ Members(a)
      /\ Moved(owner, owner', a, IF a = b THEN NoSeq ELSE b)
  BY DEF transfer_r, Move, Members, Moved
<1>3. Ring(next, prev, owner) /\ Ring(prev, next, owner) /\ Reached(next, owner)
  BY <1>1, Rings DEF IterInv, AllReachedOK
<1>4. /\ a \in Cells /\ owner[a] = a /\ next[a] \in Cells /\ prev[a] \in Cells
      /\ owner[next[a]] = a /\ owner[prev[a]] = a /\ next[prev[a]] = a /\ prev[next[a]] = a
      /\ (next[a] # a => next[a] \in Nodes /\ prev[a] \in Nodes) /\ (next[a] = a <=> prev[a] = a)
      /\ (next[a] = a => \A n \in Nodes : owner[n] # a)
  BY <1>3, EndsOf
<1>5. /\ b \in Cells /\ owner[b] = b /\ next[b] \in Cells /\ prev[b] \in Cells
      /\ owner[next[b]] = b /\ owner[prev[b]] = b /\ next[prev[b]] = b /\ prev[next[b]] = b
  BY <1>3, EndsOf
<1>6. next \in [Cells -> Cells] /\ prev \in [Cells -> Cells] /\ a # NoSeq /\ b # NoSeq /\ a \notin Nodes /\ b \notin Nodes
  BY <1>3, ConstantsAssumption DEF Ring
<1>7. CASE a = b
  <2>1. next'[a] = a /\ \A c \in Cells : owner[c] # a => next'[c] = next[c]
    BY <1>4, <1>6, <1>7 DEF transfer_r
  <2>2. prev'[a] = a /\ \A c \in Cells : owner[c] # a => prev'[c] = prev[c]
    BY <1>4, <1>6, <1>7 DEF transfer_r
  <2>3. ~(a = iter.seq /\ iter.pc = "f")
    BY <1>2 DEF NotIterated
  <2>4. Dropped(next, next', a) /\ Dropped(prev, prev', a)
    BY <2>1, <2>2, <2>3 DEF Dropped
  <2>5. Moved(owner, owner', a, NoSeq)
    BY <1>2, <1>7
  <2> QED
    BY <1>1, <1>2, <2>4, <2>5, IterDropped
<1>8. CASE a # b /\ next[a] = a
  <2>1. next' = next /\ prev' = prev
    BY <1>4, <1>5, <1>6, <1>8 DEF transfer_r
  <2>2. Members(a) = {}
    BY <1>4, <1>8 DEF Members
  <2>3. owner' = owner
    <3>1. owner' = [c \in Cells |-> owner[c]]
      BY <2>2 DEF transfer_r, Move
    <3>2. owner \in [Cells -> Seqs \cup {NoSeq}]
      BY <1>3 DEF Ring
    <3> QED
      BY <3>1, <3>2
  <2> QED
    BY <1>2, <2>1, <2>2, <2>3, IterSame DEF vars
<1>9. CASE a # b /\ next[a] # a
  <2>1. next' = [next EXCEPT ![prev[b]] = next[a], ![prev[a]] = b, ![a] = a]
    BY <1>4, <1>5, <1>6, <1>9 DEF transfer_r
  <2>2. prev' = [prev EXCEPT ![next[a]] = prev[b], ![b] = prev[a], ![a] = a]
    BY <1>4, <1>5, <1>6, <1>9 DEF transfer_r
  <2>3. Appended(next, prev, next', a, b)
    BY <1>4, <1>5, <1>6, <1>9, <2>1 DEF Appended
  <2>4. Prepended(prev, next, prev', a, b)
    BY <1>4, <1>5, <1>6, <1>9, <2>2 DEF Prepended
  <2>5. Moved(owner, owner', a, b)
    BY <1>2, <1>9
  <2> QED
    BY <1>1, <1>2, <1>9, <2>3, <2>4, <2>5, IterMoved
<1> QED
  BY <1>7, <1>8, <1>9

(* The steps of the iteration itself.                                      *)
LEMMA IterBegins ==
    ASSUME IterInv, NEW s \in Seqs, NEW d \in {"l", "r"}, iter_begin(s, d)
    PROVE  StayedOK' /\ PassedOK'
<1>1. PICK f : f = link(d) /\ f = link(iter.dir)' /\ Reached(f, owner) /\ \E g : Ring(f, g, owner)
  <2>1. link(iter.dir)' = link(d)
    BY DEF iter_begin, link, links
  <2>2. Reached(link(d), owner)
    BY DEF IterInv, AllReachedOK, link
  <2>3. \E g : Ring(link(d), g, owner)
    BY Rings DEF IterInv, link
  <2> QED
    BY <2>1, <2>2, <2>3
<1>2. PICK g : Ring(f, g, owner)
  BY <1>1
<1>3. /\ iter'.pc = "loop" /\ iter'.seq = s /\ iter'.curr = f[s]
      /\ seen' = {} /\ stayed' = Members(s) /\ owner' = owner /\ used' = used
  BY <1>1 DEF iter_begin, links
<1>4. StayedOK'
  BY <1>1, <1>3 DEF StayedOK, Members, Reached
<1>5. ASSUME f[s] # s PROVE \E K \in SUBSET Cells : Path(f, owner, used, s, f[s], K)
  <2>1. \A n \in Nodes : owner[n] # NoSeq => n \in used
    BY DEF IterInv, IInv, LinkedActive
  <2>2. Path(f, owner, used, s, f[s], {c \in Cells : owner[c] # NoSeq} \ {s})
    BY <1>2, <1>5, <2>1, PathBegins
  <2> QED
    BY <2>2
<1>6. PassedOK'
  BY <1>1, <1>3, <1>5 DEF PassedOK
<1> QED
  BY <1>4, <1>6

LEMMA IterGoesOn ==
    ASSUME IterInv, iter.pc # "idle", iter.curr # iter.seq,
           iter'.pc = "loop", iter'.seq = iter.seq, iter'.dir = iter.dir,
           iter'.curr = link(iter.dir)[iter.curr], UNCHANGED <<links, seen, stayed>>,
           iter.pc = "loop" => iter.curr \notin stayed
    PROVE  StayedOK' /\ PassedOK'
<1>1. PICK f, s, k : f = link(iter.dir) /\ s = iter.seq /\ k = iter.curr
  OBVIOUS
<1>2. PICK g : Ring(f, g, owner)
  BY <1>1, Rings DEF IterInv, link
<1>3. f = link(iter.dir)' /\ owner' = owner /\ used' = used
  BY <1>1 DEF link, links
<1>4. s \in Seqs /\ k \in Cells /\ k # s
  BY <1>1 DEF IterInv, IInv, TypeOK, IterStates
<1>5. /\ stayed \subseteq Members(s) /\ seen \subseteq used
      /\ \A n \in stayed \ seen : n # k /\ Reaches(f, k, s, n)
  <2>1. iter.pc \in {"loop", "f"}
    BY DEF IterInv, IInv, TypeOK, IterStates
  <2> QED
    BY <1>1, <2>1 DEF IterInv, StayedOK, PassedOK
<1>6. \A n \in stayed \ seen : Reaches(f, f[k], s, n)
  BY <1>4, <1>5, ReachesNext
<1>7. StayedOK'
  BY <1>1, <1>3, <1>5, <1>6 DEF StayedOK, Members
<1>8. PICK K \in SUBSET Cells : Path(f, owner, used, s, k, K) /\ K \cap seen \subseteq {k}
  BY <1>1 DEF IterInv, PassedOK
<1>9. ASSUME f[k] # s PROVE Path(f, owner, used, s, f[k], K \ {k}) /\ (K \ {k}) \cap seen = {}
  BY <1>2, <1>4, <1>8, <1>9, PathGoesOn
<1>10. ASSUME f[k] # s
       PROVE  \E L \in SUBSET Cells : Path(f, owner, used, s, f[k], L) /\ L \cap seen = {}
  BY <1>9, <1>10
<1>11. PassedOK'
  BY <1>1, <1>3, <1>5, <1>10 DEF PassedOK
<1> QED
  BY <1>7, <1>11

LEMMA IterVisits ==
    ASSUME IterInv, iter_visit
    PROVE  StayedOK' /\ PassedOK' /\ iter.curr \notin seen
<1>1. PICK f, s, k : f = link(iter.dir) /\ s = iter.seq /\ k = iter.curr
  OBVIOUS
<1>2. /\ iter.pc = "loop" /\ k # s /\ iter'.pc = "f" /\ iter'.seq = s /\ iter'.curr = k /\ iter'.dir = iter.dir
      /\ seen' = seen \cup {k} /\ stayed' = stayed /\ owner' = owner /\ used' = used
  BY <1>1 DEF iter_visit, links, IterInv, IInv, TypeOK, IterStates
<1>3. f = link(iter.dir)'
  BY <1>1, <1>2 DEF link, links, iter_visit
<1>4. PICK K \in SUBSET Cells : Path(f, owner, used, s, k, K) /\ K \cap seen = {}
  BY <1>1, <1>2 DEF IterInv, PassedOK
<1>5. k \in K /\ k \in Nodes /\ k \in used /\ k \notin seen
  BY <1>4, ConstantsAssumption DEF Path
<1>6. StayedOK'
  BY <1>1, <1>2, <1>3 DEF IterInv, StayedOK, Members
<1>7. K \cap seen' = {k} /\ seen' \subseteq used
  BY <1>2, <1>4, <1>5 DEF IterInv, PassedOK
<1>8. PassedOK'
  BY <1>2, <1>3, <1>4, <1>7 DEF PassedOK
<1> QED
  BY <1>1, <1>5, <1>6, <1>8

(* Every step keeps the invariant.  What a remove or a take finds is in a  *)
(* sequence: no caller removes what it cleared away, and what follows a    *)
(* sentinel is its own.                                                    *)
LEMMA IterStep ==
    ASSUME RemoveCleared = FALSE, IterInv, [Next]_vars
    PROVE  IterInv'
<1>1. IInv /\ IInv' /\ NoSeq \notin Seqs
  BY NextStep, ConstantsAssumption DEF IterInv
<1>2. ASSUME NEW s \in Seqs, NEW n \in Nodes, add_l(s, n) \/ add_r(s, n) PROVE IterInv'
  BY <1>2, IterAdded
<1>3. ASSUME NEW n \in Nodes, remove(n) PROVE IterInv'
  BY <1>3, IterTaken DEF remove
<1>4. ASSUME NEW s \in Seqs, take_l(s) \/ take_r(s) PROVE IterInv'
  <2>1. owner[next[s]] = s /\ owner[prev[s]] = s
    BY <1>1, Rings DEF Ring, Cells
  <2> QED
    BY <1>1, <1>4, <2>1, IterTaken DEF take_l, take_r
<1>5. ASSUME NEW s \in Seqs, clear(s) PROVE IterInv'
  BY <1>5, IterCleared
<1>6. ASSUME NEW s1 \in Seqs, NEW s2 \in Seqs, transfer_l(s1, s2) \/ transfer_r(s1, s2) PROVE IterInv'
  BY <1>6, IterTransferL, IterTransferR
<1>7. ASSUME UNCHANGED links PROVE AllReachedOK' /\ UnlinkedOK'
  BY <1>7 DEF IterInv, AllReachedOK, UnlinkedOK, links
<1>8. ASSUME NEW s \in Seqs, NEW d \in {"l", "r"}, iter_begin(s, d) PROVE IterInv'
  <2>1. UNCHANGED links
    BY <1>8 DEF iter_begin
  <2> QED
    BY <1>1, <1>7, <1>8, <2>1, IterBegins DEF IterInv
<1>9. CASE iter_end
  <2>1. UNCHANGED links /\ iter'.pc = "idle" /\ seen' = {}
    BY <1>9 DEF iter_end, NoIteration
  <2>2. StayedOK' /\ PassedOK'
    BY <2>1 DEF StayedOK, PassedOK
  <2> QED
    BY <1>1, <1>7, <2>1, <2>2 DEF IterInv
<1>10. CASE iter_visit
  <2>1. UNCHANGED links
    BY <1>10 DEF iter_visit
  <2> QED
    BY <1>1, <1>7, <1>10, <2>1, IterVisits DEF IterInv
<1>11. CASE iter_skip
  <2>1. /\ iter.pc = "loop" /\ iter.curr # iter.seq /\ UNCHANGED <<links, seen, stayed>>
        /\ ~active[iter.curr] /\ iter' = [iter EXCEPT !.curr = link(iter.dir)[iter.curr]]
    BY <1>11 DEF iter_skip
  <2>2. /\ iter'.pc = "loop" /\ iter'.seq = iter.seq /\ iter'.dir = iter.dir
        /\ iter'.curr = link(iter.dir)[iter.curr] /\ iter.seq \in Seqs
    BY <1>1, <2>1 DEF IInv, TypeOK, IterStates
  <2>3. iter.curr \notin stayed
    BY <1>1, <2>1, <2>2 DEF IterInv, StayedOK, Members, IInv, LinkedActive
  <2>4. StayedOK' /\ PassedOK'
    BY <2>1, <2>2, <2>3, IterGoesOn
  <2> QED
    BY <1>1, <1>7, <2>1, <2>4 DEF IterInv
<1>12. CASE iter_return
  <2>1. /\ iter.pc = "f" /\ iter.curr # iter.seq /\ UNCHANGED <<links, seen, stayed>>
        /\ iter' = [iter EXCEPT !.pc = "loop", !.curr = link(iter.dir)[iter.curr]]
    BY <1>12 DEF iter_return, IterInv, PassedOK
  <2>2. /\ iter'.pc = "loop" /\ iter'.seq = iter.seq /\ iter'.dir = iter.dir
        /\ iter'.curr = link(iter.dir)[iter.curr]
    BY <1>1, <2>1 DEF IInv, TypeOK, IterStates
  <2>3. StayedOK' /\ PassedOK'
    BY <2>1, <2>2, IterGoesOn
  <2> QED
    BY <1>1, <1>7, <2>1, <2>3 DEF IterInv
<1>13. CASE UNCHANGED vars
  BY <1>13, IterSame
<1> QED
  BY <1>2, <1>3, <1>4, <1>5, <1>6, <1>8, <1>9, <1>10, <1>11, <1>12, <1>13 DEF Next, Iterate

LEMMA IterInit == Init => IterInv
<1> SUFFICES ASSUME Init PROVE IterInv
  OBVIOUS
<1>1. IInv
  BY InitOK
<1>2. \A n \in Nodes : owner[n] = NoSeq /\ next[n] = n /\ prev[n] = n
  BY ConstantsAssumption DEF Init, Cells
<1>3. AllReachedOK /\ UnlinkedOK
  BY <1>2, ConstantsAssumption DEF AllReachedOK, UnlinkedOK, Reached, Unlinked
<1>4. StayedOK /\ PassedOK
  BY DEF Init, NoIteration, StayedOK, PassedOK
<1> QED
  BY <1>1, <1>3, <1>4 DEF IterInv

(* When the loop is back at the sentinel, nothing that stayed is ahead.    *)
LEMMA IterEnds ==
    ASSUME IterInv, iter_end
    PROVE  stayed \subseteq seen
<1>1. iter.pc # "idle" /\ iter.curr = iter.seq /\ iter.seq \in Seqs
  BY DEF iter_end, IterInv, IInv, TypeOK, IterStates
<1>2. ASSUME NEW n \in stayed, n \notin seen PROVE FALSE
  <2>1. n \in Nodes /\ Reaches(link(iter.dir), iter.seq, iter.seq, n)
    BY <1>1, <1>2 DEF IterInv, StayedOK, Members
  <2>2. n = iter.seq
    BY <1>1, <2>1, ReachesNone
  <2> QED
    BY <1>1, <2>1, <2>2, ConstantsAssumption
<1> QED
  BY <1>2

(* iter_l, iter_r and the loops like them give f every node that was in    *)
(* the sequence from the beginning of the iteration to its end, and no     *)
(* node twice, while f adds, removes, takes, clears and transfers: for any *)
(* number of sequences and nodes, if no caller removes a node after        *)
(* clearing its sequence.                                                  *)
THEOREM IterationsAreExact ==
    ASSUME RemoveCleared = FALSE PROVE Spec => IterationExact
<1>1. IterInv /\ [Next]_vars => IterInv'
  BY IterStep
<1>2. IterInv /\ [Next]_vars =>
          [ /\ iter_end => stayed \subseteq seen
            /\ iter_visit => iter.curr \notin seen ]_vars
  BY IterEnds, IterVisits
<1> QED
  BY <1>1, <1>2, IterInit, PTL DEF Spec, IterationExact
=============================================================================
