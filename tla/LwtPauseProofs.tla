--------------------------- MODULE LwtPauseProofs ---------------------------
(***************************************************************************)
(* Lwt.pause and Lwt.wakeup_paused for any number of promises: the main    *)
(* loop does not block while a promise is paused, and a round wakes those  *)
(* paused before it, all of them and no other.  The programs are those     *)
(* that do not both cancel and abandon paused promises.                    *)
(***************************************************************************)
EXTENDS LwtPause, LwtSequenceProofs

(* R has x and all that is after it in the sequence s, up to the sentinel. *)
Follows(x, s, R) == x \in R /\ \A c \in R \ {s} : owner[c] = s => next[c] \in R

(* The node n is at x or after it.                                         *)
Ahead(x, s, n) == \A R \in SUBSET Cells : Follows(x, s, R) => n \in R

(* Every node of a sequence is reached from its sentinel.                  *)
AllReached == \A s \in Seqs : \A n \in Members(s) : Ahead(next[s], s, n)

(* An active node is in a sequence, unless some were abandoned; and then   *)
(* nothing is canceled.                                                    *)
ProgramOK ==
    /\ \A n \in canceling : promise[n] = "Canceled"
    /\ "abandon" \notin program => \A n \in Nodes : active[n] => owner[n] # NoSeq
    /\ "cancel" \notin program => canceling = {}

(* Sequences that wakeup_paused has not created, nodes that pause has not. *)
FreshOK ==
    /\ tmp = paused \/ tmp \in tmps
    /\ \A s \in Tmps \ tmps : Members(s) = {}
    /\ \A n \in Nodes : n \notin used => promise[n] = "none" /\ n \notin batch

(* The iteration of wakeup_paused stands on a node of tmp or on its        *)
(* sentinel; the promise it has just woken is not pending any more.        *)
IterOK ==
    /\ tmp = paused => iter.pc = "idle"
    /\ iter.pc # "idle" => /\ iter.seq = tmp /\ iter.dir = "l"
                           /\ iter.curr \in Cells /\ owner[iter.curr] = tmp
    /\ iter.pc = "loop" => canceling = {}
    /\ tmp # paused /\ iter.pc = "idle" => canceling = {}
    /\ iter.pc = "f" => /\ iter.curr \in Nodes /\ promise[iter.curr] # "Pending"
                        /\ iter.curr \notin canceling

(* What is to be woken in this round is in tmp, ahead of the iteration.    *)
BatchOK ==
    tmp # paused =>
        /\ Members(tmp) \subseteq batch
        /\ \A n \in batch : promise[n] = "Pending" =>
               /\ owner[n] = tmp
               /\ iter.pc = "loop" => Ahead(iter.curr, tmp, n)
               /\ iter.pc = "f" => Ahead(next[iter.curr], tmp, n)

PauseInv ==
    /\ IInv /\ PauseTypeOK /\ program \in Programs
    /\ AllReached /\ ProgramOK /\ FreshOK /\ IterOK /\ BatchOK /\ CountCoversPaused
-----------------------------------------------------------------------------
(* What is ahead.                                                          *)

LEMMA NothingAhead ==
    ASSUME NEW s \in Seqs, NEW n, Ahead(s, s, n)
    PROVE  n = s
<1>1. {s} \in SUBSET Cells /\ Follows(s, s, {s})
  BY DEF Cells, Follows
<1> QED
  BY <1>1 DEF Ahead

(* The node after x is ahead of all the others.                            *)
LEMMA AheadNext ==
    ASSUME NEW s \in Seqs, NEW x \in Cells, NEW n, n # x, x # s, Ahead(x, s, n)
    PROVE  Ahead(next[x], s, n)
<1> SUFFICES ASSUME NEW R \in SUBSET Cells, Follows(next[x], s, R) PROVE n \in R
  BY DEF Ahead
<1>1. R \cup {x} \in SUBSET Cells /\ Follows(x, s, R \cup {x})
  BY DEF Follows
<1> QED
  BY <1>1 DEF Ahead

(* A step that does not change the sequence.                               *)
LEMMA AheadSame ==
    ASSUME NEW s \in Seqs, NEW x, NEW n, Ahead(x, s, n),
           \A c \in Cells : c # s /\ owner[c] = s => owner'[c] = s /\ next'[c] = next[c]
    PROVE  Ahead(x, s, n)'
<1> SUFFICES ASSUME NEW R \in SUBSET Cells, Follows(x, s, R)' PROVE n \in R
  BY DEF Ahead, Cells
<1>1. Follows(x, s, R)
  BY DEF Follows
<1> QED
  BY <1>1 DEF Ahead

(* A node is taken out.                                                    *)
LEMMA AheadUnlink ==
    ASSUME IInv, NEW m \in Nodes, owner[m] # NoSeq, Unlink(m),
           NEW s \in Seqs, NEW x \in Cells, owner[x] = s, NEW n, n # m, Ahead(x, s, n),
           NEW y, y = IF x = m THEN next[m] ELSE x
    PROVE  Ahead(y, s, n)'
<1>1. m \in Cells /\ m \in Linked /\ m # s
  BY ConstantsAssumption DEF Cells, Linked
<1>2. /\ prev[m] \in Cells /\ next[m] \in Cells /\ next[prev[m]] = m /\ owner[prev[m]] = owner[m]
      /\ \A c \in Linked : prev[next[c]] = c
  BY <1>1 DEF IInv, TypeOK, WellLinked
<1>3. /\ next' = [next EXCEPT ![prev[m]] = next[m]] /\ next \in [Cells -> Cells]
      /\ \A c \in Cells : c # m => owner'[c] = owner[c]
  BY DEF Unlink, Leave, IInv, TypeOK
<1>4. NoSeq # s
  BY ConstantsAssumption
<1> SUFFICES ASSUME NEW R \in SUBSET Cells, Follows(y, s, R)' PROVE n \in R
  BY DEF Ahead, Cells
<1>5. y \in R /\ \A c \in R : c # s /\ c # m /\ owner[c] = s => next'[c] \in R
  BY <1>3 DEF Follows
<1>6. CASE next[m] \in R
  <2>1. R \cup {m} \in SUBSET Cells
    BY <1>1
  <2>2. ASSUME NEW c \in R \cup {m}, c # s, owner[c] = s PROVE next[c] \in R \cup {m}
    BY <1>2, <1>3, <1>5, <1>6, <2>1, <2>2
  <2>3. Follows(x, s, R \cup {m})
    BY <1>5, <2>2 DEF Follows
  <2> QED
    BY <2>1, <2>3 DEF Ahead
<1>7. CASE next[m] \notin R
  <2>1. R \ {m} \in SUBSET Cells
    OBVIOUS
  <2>2. ASSUME NEW c \in R \ {m}, c # s, owner[c] = s PROVE next[c] \in R \ {m}
    <3>1. c \in Linked /\ next'[c] \in R /\ c \in Cells
      BY <1>4, <1>5, <2>2 DEF Linked
    <3>2. c # prev[m]
      BY <1>2, <1>3, <1>7, <3>1
    <3>3. next[c] = next'[c] /\ next[c] # m
      BY <1>2, <1>3, <3>1, <3>2
    <3> QED
      BY <3>1, <3>3
  <2>3. x \in R \ {m}
    BY <1>5, <1>7
  <2>4. Follows(x, s, R \ {m})
    BY <2>2, <2>3 DEF Follows
  <2> QED
    BY <2>1, <2>4 DEF Ahead
<1> QED
  BY <1>6, <1>7

(* The first node of a sequence, and what a sequence without nodes is.     *)
LEMMA FirstNode ==
    ASSUME IInv, NEW s \in Seqs
    PROVE  /\ s \in Linked /\ owner[s] = s
           /\ next[s] \in Cells /\ owner[next[s]] = s /\ prev[next[s]] = s
           /\ prev[s] \in Cells /\ owner[prev[s]] = s /\ next[prev[s]] = s
           /\ next[s] # s => next[s] \in Members(s)
           /\ prev[s] # s => prev[s] \in Members(s)
           /\ next[s] = s <=> prev[s] = s
<1>1. s \in Linked /\ owner[s] = s /\ s \in Cells
  BY ConstantsAssumption DEF IInv, SentinelOwns, Linked, Cells
<1>2. /\ next[s] \in Cells /\ owner[next[s]] = s /\ prev[next[s]] = s
      /\ prev[s] \in Cells /\ owner[prev[s]] = s /\ next[prev[s]] = s
  BY <1>1 DEF IInv, WellLinked, Linked
<1>3. \A c \in Cells : owner[c] = s /\ c # s => c \in Members(s)
  BY DEF IInv, SentinelOwns, Cells, Members
<1> QED
  BY <1>1, <1>2, <1>3

LEMMA EmptySequence ==
    ASSUME IInv, AllReached, NEW s \in Seqs
    PROVE  is_empty(s) <=> Members(s) = {}
<1>1. ASSUME is_empty(s), NEW n \in Members(s) PROVE FALSE
  <2>1. Ahead(s, s, n)
    BY <1>1 DEF AllReached, is_empty
  <2>2. n = s /\ n \in Nodes
    BY <2>1, NothingAhead DEF Members
  <2> QED
    BY <2>2, ConstantsAssumption
<1>2. ~is_empty(s) => Members(s) # {}
  BY FirstNode DEF is_empty
<1> QED
  BY <1>1, <1>2
-----------------------------------------------------------------------------
(* The operations keep every node within reach of its sentinel.            *)

LEMMA ReachedUnlink ==
    ASSUME IInv, AllReached, NEW m \in Nodes, owner[m] # NoSeq, Unlink(m)
    PROVE  AllReached'
<1> SUFFICES ASSUME NEW s \in Seqs, NEW n \in Members(s)' PROVE Ahead(next[s], s, n)'
  BY DEF AllReached
<1>1. /\ next' = [next EXCEPT ![prev[m]] = next[m]] /\ next \in [Cells -> Cells]
      /\ owner' = [c \in Cells |-> IF c \in {m} THEN NoSeq ELSE owner[c]]
      /\ m \in Cells /\ s \in Cells /\ m # s
  BY ConstantsAssumption DEF Unlink, Leave, IInv, TypeOK, Cells
<1>2. n \in Members(s) /\ n # m
  BY <1>1, ConstantsAssumption DEF Members, Cells
<1>3. next[s] \in Cells /\ owner[next[s]] = s /\ Ahead(next[s], s, n)
  BY <1>2, FirstNode DEF AllReached
<1>4. next'[s] = IF next[s] = m THEN next[m] ELSE next[s]
  <2>1. m \in Linked /\ s \in Linked
    BY <1>1, FirstNode DEF Linked
  <2>2. next[prev[m]] = m /\ prev[next[s]] = s /\ prev[m] \in Cells
    BY <2>1 DEF IInv, WellLinked, TypeOK, Linked
  <2> QED
    BY <1>1, <2>2
<1>5. PICK y : y = next'[s]
  OBVIOUS
<1>6. Ahead(y, s, n)'
  BY <1>2, <1>3, <1>4, <1>5, AheadUnlink
<1> QED
  BY <1>5, <1>6 DEF Ahead, Follows, Cells
LEMMA ReachedAddR ==
    ASSUME IInv, AllReached, NEW s0 \in Seqs, NEW m \in Nodes, add_r(s0, m)
    PROVE  AllReached'
<1> SUFFICES ASSUME NEW s \in Seqs, NEW n \in Members(s)' PROVE Ahead(next[s], s, n)'
  BY DEF AllReached
<1>1. m \notin used /\ owner[m] = NoSeq /\ m \in Cells /\ s0 \in Cells /\ s \in Cells /\ m # s /\ m # s0
  BY ConstantsAssumption DEF add_r, Fresh, Cells, IInv, LinkedActive
<1>2. /\ prev[s0] \in Cells /\ owner[prev[s0]] = s0 /\ next[prev[s0]] = s0 /\ prev[s0] # m
      /\ next[s0] = s0 <=> prev[s0] = s0
      /\ prev[s0] # s0 => prev[s0] \in Members(s0)
  BY <1>1, FirstNode, ConstantsAssumption
<1>3. /\ next' = [next EXCEPT ![m] = s0, ![prev[s0]] = m] /\ next \in [Cells -> Cells]
      /\ owner' = [owner EXCEPT ![m] = s0] /\ owner \in [Cells -> Seqs \cup {NoSeq}]
  BY DEF add_r, IInv, TypeOK
<1>4. n \in Nodes /\ n \in Cells /\ n # s /\ (n # m => n \in Members(s)) /\ (n = m => s = s0)
  BY <1>1, <1>3, ConstantsAssumption DEF Members, Cells
<1>5. CASE s # s0
  <2>1. Ahead(next[s], s, n)
    BY <1>4, <1>5 DEF AllReached
  <2>2. \A c \in Cells : c # s /\ owner[c] = s => owner'[c] = s /\ next'[c] = next[c]
    BY <1>1, <1>2, <1>3, <1>5, ConstantsAssumption
  <2>3. next'[s] = next[s]
    BY <1>1, <1>2, <1>3, <1>5, FirstNode
  <2>4. PICK x : x = next[s]
    OBVIOUS
  <2>5. Ahead(x, s, n)'
    BY <2>1, <2>2, <2>4, AheadSame
  <2> QED
    BY <2>3, <2>4, <2>5 DEF Ahead, Follows
<1>6. CASE s = s0
  <2> SUFFICES ASSUME NEW R \in SUBSET Cells, Follows(next[s], s, R)' PROVE n \in R
    BY DEF Ahead, Cells
  <2>1. next'[s] \in R /\ \A c \in R : c # s /\ owner'[c] = s => next'[c] \in R
    BY DEF Follows
  <2>2. CASE prev[s] = s
    <3>1. next'[s] = m
      BY <1>1, <1>3, <1>6, <2>2
    <3>2. Members(s) = {}
      BY <1>2, <1>6, <2>2, EmptySequence DEF is_empty
    <3> QED
      BY <1>4, <2>1, <3>1, <3>2
  <2>3. CASE prev[s] # s
    <3>1. next'[s] = next[s]
      BY <1>1, <1>3, <1>6, <2>3
    <3>2. ASSUME NEW c \in R \cup {s}, c # s, owner[c] = s PROVE next[c] \in R \cup {s}
      <4>1. c \in R /\ c \in Cells /\ c # m
        BY <1>1, <3>2, ConstantsAssumption
      <4>2. next'[c] \in R
        BY <1>3, <2>1, <3>2, <4>1
      <4>3. CASE c = prev[s]
        BY <1>2, <1>6, <4>3
      <4>4. CASE c # prev[s]
        BY <1>3, <1>6, <4>1, <4>2, <4>4
      <4> QED
        BY <4>3, <4>4
    <3>3. R \cup {s} \in SUBSET Cells /\ Follows(next[s], s, R \cup {s})
      BY <1>1, <2>1, <3>1, <3>2 DEF Follows
    <3>4. ASSUME NEW z \in Members(s) PROVE z \in R
      <4>1. z # s
        BY ConstantsAssumption DEF Members
      <4>2. Ahead(next[s], s, z)
        BY DEF AllReached
      <4> QED
        BY <3>3, <4>1, <4>2 DEF Ahead
    <3>5. m \in R
      <4>1. prev[s] \in R /\ owner'[prev[s]] = s /\ next'[prev[s]] = m
        BY <1>1, <1>2, <1>3, <1>6, <2>3, <3>4
      <4> QED
        BY <2>1, <2>3, <4>1
    <3> QED
      BY <1>4, <3>4, <3>5
  <2> QED
    BY <2>2, <2>3
<1> QED
  BY <1>5, <1>6

(* transfer_r to an empty sequence.                                        *)
LEMMA ReachedTransfer ==
    ASSUME IInv, AllReached, NEW s1 \in Seqs, NEW s2 \in Seqs, s1 # s2, Members(s2) = {}, ~is_empty(s1),
           transfer_r(s1, s2)
    PROVE  AllReached' /\ next'[s2] = next[s1]
<1>1. s1 \in Cells /\ s2 \in Cells /\ next[s2] = s2 /\ prev[s2] = s2 /\ next[s1] # s1 /\ prev[s1] # s1
  BY EmptySequence, FirstNode DEF is_empty, Cells
<1>2. /\ next[s1] \in Cells /\ owner[next[s1]] = s1 /\ next[s1] # s2
      /\ prev[s1] \in Cells /\ owner[prev[s1]] = s1 /\ prev[s1] # s2 /\ next[prev[s1]] = s1
      /\ owner[s1] = s1 /\ owner[s2] = s2
  BY <1>1, FirstNode
<1>3. /\ next \in [Cells -> Cells] /\ prev \in [Cells -> Cells]
      /\ owner' = [c \in Cells |-> IF c \in Members(s1) THEN s2 ELSE owner[c]]
  BY DEF transfer_r, Move, IInv, TypeOK
<1>4. /\ next'[s1] = s1 /\ next'[s2] = next[s1]
      /\ \A c \in Cells : c # s1 /\ c # s2 /\ c # prev[s1] => next'[c] = next[c]
  <2> DEFINE n1 == [next EXCEPT ![prev[s2]] = next[s1]]
             p1 == [prev EXCEPT ![n1[s1]] = prev[s2]]
             p2 == [p1 EXCEPT ![s2] = p1[s1]]
             n2 == [n1 EXCEPT ![p2[s1]] = s2]
  <2>1. next' = [n2 EXCEPT ![s1] = s1]
    BY DEF transfer_r
  <2>2. n1 = [next EXCEPT ![s2] = next[s1]] /\ n1[s1] = next[s1] /\ n1 \in [Cells -> Cells]
    BY <1>1, <1>2, <1>3
  <2>3. p1[s1] = prev[s1] /\ p1 \in [Cells -> Cells]
    BY <1>1, <1>2, <1>3, <2>2
  <2>4. p2[s1] = prev[s1]
    BY <1>1, <2>3
  <2>5. n2 = [n1 EXCEPT ![prev[s1]] = s2]
    BY <2>4
  <2>6. n2 \in [Cells -> Cells]
    BY <1>1, <2>2, <2>5
  <2>7. \A c \in Cells : n1[c] = IF c = s2 THEN next[s1] ELSE next[c]
    BY <1>3, <2>2
  <2> HIDE DEF n1, n2
  <2>8. \A c \in Cells : n2[c] = IF c = prev[s1] THEN s2 ELSE n1[c]
    BY <2>2, <2>5
  <2>9. \A c \in Cells : next'[c] = IF c = s1 THEN s1 ELSE n2[c]
    BY <2>1, <2>6
  <2> QED
    BY <1>1, <1>2, <2>7, <2>8, <2>9
<1>5. next'[s2] = next[s1]
  BY <1>1, <1>4
<1>6. ASSUME NEW s \in Seqs, NEW n \in Members(s)' PROVE Ahead(next[s], s, n)'
  <2>1. n \in Nodes /\ n \in Cells /\ n # s /\ n # s1 /\ owner'[n] = s
    BY ConstantsAssumption DEF Members, Cells
  <2>2. CASE s # s1 /\ s # s2
    <3>1. Ahead(next[s], s, n)
      BY <1>3, <2>1, <2>2 DEF AllReached, Members
    <3>2. \A c \in Cells : c # s /\ owner[c] = s => owner'[c] = s /\ next'[c] = next[c]
      BY <1>2, <1>3, <1>4, <2>2 DEF Members
    <3>3. next'[s] = next[s]
      <4>1. s # prev[s1] /\ s \in Cells
        BY <1>2, <2>2, FirstNode DEF Cells
      <4> QED
        BY <1>4, <2>2, <4>1
    <3>4. PICK x : x = next[s]
      OBVIOUS
    <3>5. Ahead(x, s, n)'
      BY <3>1, <3>2, <3>4, AheadSame
    <3> QED
      BY <3>3, <3>4, <3>5 DEF Ahead, Follows
  <2>3. CASE s = s1
    BY <1>3, <2>1, <2>3 DEF Members
  <2>4. CASE s = s2
    <3>1. n \in Members(s1)
      BY <1>3, <2>1, <2>4 DEF Members
    <3> SUFFICES ASSUME NEW R \in SUBSET Cells, Follows(next[s], s, R)' PROVE n \in R
      BY DEF Ahead, Cells
    <3>2. next[s1] \in R /\ \A c \in R : c # s2 /\ owner'[c] = s2 => next'[c] \in R
      BY <1>5, <2>4 DEF Follows
    <3>3. ASSUME NEW c \in R \cup {s1}, c # s1, owner[c] = s1 PROVE next[c] \in R \cup {s1}
      <4>1. c \in R /\ c \in Cells /\ c # s2
        BY <1>2, <3>3
      <4>2. c \in Members(s1)
        BY <3>3, <4>1 DEF Members, Cells, IInv, SentinelOwns
      <4>3. owner'[c] = s2
        BY <1>3, <4>1, <4>2
      <4>4. next'[c] \in R
        BY <3>2, <4>1, <4>3
      <4>5. CASE c = prev[s1]
        BY <1>2, <4>5
      <4>6. CASE c # prev[s1]
        BY <1>4, <3>3, <4>1, <4>4, <4>6
      <4> QED
        BY <4>5, <4>6
    <3>4. R \cup {s1} \in SUBSET Cells /\ Follows(next[s1], s1, R \cup {s1})
      BY <1>1, <3>2, <3>3 DEF Follows
    <3>5. Ahead(next[s1], s1, n)
      BY <3>1 DEF AllReached
    <3> QED
      BY <2>1, <3>4, <3>5 DEF Ahead
  <2> QED
    BY <2>2, <2>3, <2>4
<1> QED
  BY <1>5, <1>6 DEF AllReached

LEMMA ReachedClear ==
    ASSUME IInv, AllReached, NEW s0 \in Seqs, clear(s0)
    PROVE  AllReached'
<1> SUFFICES ASSUME NEW s \in Seqs, NEW n \in Members(s)' PROVE Ahead(next[s], s, n)'
  BY DEF AllReached
<1>1. /\ next' = [next EXCEPT ![s0] = s0] /\ next \in [Cells -> Cells]
      /\ owner' = [c \in Cells |-> IF c \in Members(s0) THEN NoSeq ELSE owner[c]]
  BY DEF clear, Leave, IInv, TypeOK
<1>2. n \in Members(s) /\ s # s0
  BY <1>1, ConstantsAssumption DEF Members, Cells
<1>3. Ahead(next[s], s, n)
  BY <1>2 DEF AllReached
<1>4. \A c \in Cells : c # s /\ owner[c] = s => owner'[c] = s /\ next'[c] = next[c]
  BY <1>1, <1>2, FirstNode DEF Members
<1>5. next'[s] = next[s]
  BY <1>1, <1>2 DEF Cells
<1>6. PICK x : x = next[s]
  OBVIOUS
<1>7. Ahead(x, s, n)'
  BY <1>3, <1>4, <1>6, AheadSame
<1> QED
  BY <1>5, <1>6, <1>7 DEF Ahead, Follows

LEMMA ReachedSame ==
    ASSUME AllReached, UNCHANGED <<next, owner>>
    PROVE  AllReached'
  BY DEF AllReached, Ahead, Follows, Members, Cells
-----------------------------------------------------------------------------
(* The steps                                                               *)

(* The sequence tmp and the iteration over it, when another is changed.    *)
LEMMA OtherSequence ==
    ASSUME PauseInv, tmp # paused, iter.pc = "f", NEW n \in batch, promise[n] = "Pending",
           UNCHANGED <<iter, tmp>>,
           \A c \in Cells : c # tmp /\ owner[c] = tmp => owner'[c] = tmp /\ next'[c] = next[c]
    PROVE  Ahead(next[iter.curr], tmp, n)'
<1>1. tmp \in Seqs /\ iter.curr \in Nodes /\ owner[iter.curr] = tmp /\ Ahead(next[iter.curr], tmp, n)
  BY DEF PauseInv, PauseTypeOK, IterOK, BatchOK
<1>2. next'[iter.curr] = next[iter.curr]
  BY <1>1, ConstantsAssumption DEF Cells
<1>3. PICK x \in {next[iter.curr]}, s \in Seqs : s = tmp
  BY <1>1
<1>4. Ahead(x, s, n)'
  BY <1>1, <1>3, AheadSame
<1> QED
  BY <1>2, <1>3, <1>4 DEF Ahead, Follows

LEMMA PauseStep ==
    ASSUME PauseInv, pause, UNCHANGED program
    PROVE  PauseInv'
<1>1. PICK m \in Nodes : add_r(paused, m)
  BY DEF pause
<1>2. paused \in Seqs /\ IInv /\ AllReached /\ tmp \in Seqs /\ PauseTypeOK /\ paused # NoSeq
  BY PauseAssumption, ConstantsAssumption DEF PauseInv, PauseTypeOK
<1>3. IInv' /\ AllReached'
  BY <1>1, <1>2, AddRStep, ReachedAddR
<1>4. /\ m \notin used /\ owner[m] = NoSeq /\ m \in Cells /\ used' = used \cup {m}
      /\ owner' = [owner EXCEPT ![m] = paused] /\ owner \in [Cells -> Seqs \cup {NoSeq}]
      /\ next' = [next EXCEPT ![m] = paused, ![prev[paused]] = m] /\ next \in [Cells -> Cells]
      /\ active' = [active EXCEPT ![m] = TRUE] /\ active \in [Nodes -> BOOLEAN] /\ iter' = iter
  BY <1>1, <1>2 DEF add_r, Fresh, IInv, TypeOK, LinkedActive, Cells
<1>5. /\ promise'[m] = "Pending" /\ \A n \in Nodes : n # m => promise'[n] = promise[n]
      /\ paused_count' = paused_count + 1 /\ UNCHANGED <<canceling, tmp, tmps, batch, abandoned>>
      /\ promise' \in [Nodes -> {"none", "Pending", "Fulfilled", "Canceled"}]
  BY <1>2, <1>4 DEF pause, PauseTypeOK
<1>6. PauseTypeOK'
  BY <1>2, <1>3, <1>5 DEF PauseTypeOK, IInv
<1>7. m \notin canceling /\ m \notin batch /\ promise[m] = "none"
  BY <1>4 DEF PauseInv, ProgramOK, FreshOK
<1>8. ProgramOK'
  BY <1>2, <1>4, <1>5, <1>6, <1>7 DEF PauseInv, ProgramOK, PauseTypeOK, Cells
<1>9. FreshOK'
  BY <1>2, <1>4, <1>5 DEF PauseInv, FreshOK, Members, Cells, Tmps
<1>10. \A s \in Seqs : s # paused => Members(s)' = Members(s)
  BY <1>4, ConstantsAssumption DEF Members, Cells
<1>11. IterOK'
  <2>1. iter.pc # "idle" => iter.curr # m
    BY <1>2, <1>4, ConstantsAssumption DEF PauseInv, IterOK
  <2>2. iter.pc # "idle" => owner'[iter.curr] = tmp
    BY <1>4, <2>1 DEF PauseInv, IterOK
  <2>3. iter.pc = "f" => promise'[iter.curr] # "Pending"
    BY <1>5, <2>1 DEF PauseInv, IterOK
  <2> QED
    BY <1>4, <1>5, <2>2, <2>3 DEF PauseInv, IterOK, Cells
<1>12. BatchOK'
  <2> SUFFICES ASSUME tmp # paused
               PROVE  /\ Members(tmp)' \subseteq batch
                      /\ \A n \in batch : promise'[n] = "Pending" =>
                             /\ owner'[n] = tmp
                             /\ iter.pc # "loop"
                             /\ iter.pc = "f" => Ahead(next[iter.curr], tmp, n)'
    BY <1>4, <1>5 DEF BatchOK
  <2>1. Members(tmp)' \subseteq batch
    BY <1>2, <1>5, <1>10 DEF PauseInv, BatchOK, Members
  <2>2. iter.pc # "loop"
    BY DEF pause, UserCode, Turn
  <2>3. ASSUME NEW n \in batch, promise'[n] = "Pending" PROVE promise[n] = "Pending" /\ owner'[n] = tmp
    <3>1. n # m /\ n \in Nodes
      BY <1>2, <1>7 DEF PauseTypeOK
    <3> QED
      BY <1>4, <1>5, <2>3, <3>1 DEF PauseInv, BatchOK, Cells
  <2>4. \A c \in Cells : c # tmp /\ owner[c] = tmp => owner'[c] = tmp /\ next'[c] = next[c]
    <3>1. owner[prev[paused]] = paused /\ prev[paused] \in Cells /\ tmp # NoSeq
      BY <1>2, FirstNode, ConstantsAssumption
    <3> QED
      BY <1>4, <3>1
  <2>5. ASSUME NEW n \in batch, promise'[n] = "Pending", iter.pc = "f" PROVE Ahead(next[iter.curr], tmp, n)'
    BY <1>4, <1>5, <2>3, <2>4, <2>5, OtherSequence
  <2> QED
    BY <2>1, <2>2, <2>3, <2>5
<1>13. CountCoversPaused'
  BY <1>2, <1>5 DEF CountCoversPaused, PauseTypeOK
<1> QED
  BY <1>3, <1>6, <1>8, <1>9, <1>11, <1>12, <1>13 DEF PauseInv

LEMMA WakeupPausedStep ==
    ASSUME PauseInv, wakeup_paused, UNCHANGED program
    PROVE  PauseInv'
<1>1. paused \in Seqs /\ IInv /\ AllReached /\ PauseTypeOK
  BY PauseAssumption DEF PauseInv
<1>2. tmp = paused /\ iter.pc = "idle" /\ canceling = {} /\ UNCHANGED <<promise, canceling, abandoned>> /\ paused_count' = 0
  BY DEF wakeup_paused
<1>3. CASE is_empty(paused)
  <2>1. UNCHANGED <<vars, tmp, tmps, batch>>
    BY <1>3 DEF wakeup_paused
  <2>2. UNCHANGED <<prev, next, active, used, owner, iter, seen, stayed>>
    BY <2>1 DEF vars
  <2>3. IInv'
    BY <1>1, <2>2 DEF IInv, TypeOK, SentinelOwns, LinkedActive, WellLinked, Linked
  <2>4. AllReached'
    BY <1>1, <2>2, ReachedSame
  <2>5. PauseTypeOK'
    BY <1>1, <1>2, <2>1, <2>3 DEF PauseTypeOK, IInv
  <2>6. ProgramOK' /\ FreshOK'
    BY <1>2, <2>1, <2>2 DEF PauseInv, ProgramOK, FreshOK, Members
  <2>7. IterOK' /\ BatchOK'
    BY <1>2, <2>1, <2>2 DEF IterOK, BatchOK
  <2>8. CountCoversPaused'
    <3>1. Members(paused)' = {}
      BY <1>1, <1>3, <2>2, EmptySequence DEF Members
    <3> QED
      BY <3>1 DEF CountCoversPaused
  <2> QED
    BY <2>3, <2>4, <2>5, <2>6, <2>7, <2>8 DEF PauseInv
<1>4. CASE ~is_empty(paused)
  <2>1. PICK t \in Tmps \ tmps : tmp' = t /\ tmps' = tmps \cup {t} /\ transfer_r(paused, t) /\ batch' = Members(paused)
    BY <1>4 DEF wakeup_paused
  <2>2. t \in Seqs /\ t # paused /\ Members(t) = {} /\ t # NoSeq
    BY ConstantsAssumption DEF Tmps, PauseInv, FreshOK
  <2>3. IInv' /\ AllReached'
    BY <1>1, <1>4, <2>1, <2>2, TransferRStep, ReachedTransfer
  <2>4. /\ owner' = [c \in Cells |-> IF c \in Members(paused) THEN t ELSE owner[c]]
        /\ UNCHANGED <<active, used, iter, seen>>
    BY <2>1, <2>2 DEF transfer_r, Move
  <2>5. Members(paused) \subseteq Nodes /\ Members(paused) \subseteq used
    BY <1>1, PauseAssumption, ConstantsAssumption DEF Members, IInv, LinkedActive
  <2>6. PauseTypeOK'
    BY <1>1, <1>2, <2>1, <2>2, <2>3, <2>5 DEF PauseTypeOK, IInv
  <2>7. ProgramOK'
    BY <1>2, <2>2, <2>4 DEF PauseInv, ProgramOK, Cells
  <2>8. FreshOK'
    <3>1. ASSUME NEW s \in Tmps, s # t, s \notin tmps PROVE Members(s)' = {}
      BY <2>4, <3>1 DEF PauseInv, FreshOK, Members, Cells
    <3> QED
      BY <1>2, <2>1, <2>4, <2>5, <3>1 DEF PauseInv, FreshOK
  <2>9. IterOK'
    BY <1>2, <2>1, <2>2, <2>4 DEF IterOK
  <2>10. BatchOK'
    <3>1. Members(t)' = Members(paused)
      BY <2>2, <2>4 DEF Members, Cells
    <3>2. \A n \in Members(paused) : owner'[n] = t
      BY <2>4, <2>5 DEF Cells
    <3> QED
      BY <1>2, <2>1, <2>4, <3>1, <3>2 DEF BatchOK, Members
  <2>11. CountCoversPaused'
    <3>1. Members(paused)' = {}
      BY <2>2, <2>4 DEF Members, Cells
    <3> QED
      BY <3>1 DEF CountCoversPaused
  <2> QED
    BY <2>3, <2>6, <2>7, <2>8, <2>9, <2>10, <2>11 DEF PauseInv
<1> QED
  BY <1>3, <1>4
(* Steps of the iteration, which change no link.                           *)
LEMMA SameLinks ==
    ASSUME PauseInv, UNCHANGED links, Iterate \/ iter_begin(tmp, "l"), UNCHANGED <<program, canceling, tmps, batch, paused_count>>,
           tmp' \in {tmp, paused}, PauseTypeOK', \A n \in Nodes : promise'[n] \in {promise[n], "Fulfilled"},
           \A n \in Nodes : promise'[n] # promise[n] => promise[n] = "Pending"
    PROVE  IInv' /\ AllReached' /\ ProgramOK' /\ FreshOK' /\ CountCoversPaused'
<1>1. UNCHANGED <<prev, next, active, used, owner>>
  BY DEF links
<1>2. IInv'
  <2>1. tmp \in Seqs
    BY DEF PauseInv, PauseTypeOK
  <2> QED
    BY <2>1, IterateStep DEF PauseInv
<1>3. AllReached'
  BY <1>1, ReachedSame DEF PauseInv
<1>4. ProgramOK'
  BY <1>1 DEF PauseInv, ProgramOK, PauseTypeOK
<1>5. FreshOK'
  BY <1>1 DEF PauseInv, FreshOK, Members
<1>6. CountCoversPaused'
  BY <1>1 DEF PauseInv, CountCoversPaused, Members
<1> QED
  BY <1>2, <1>3, <1>4, <1>5, <1>6

LEMMA WakeupBeginStep ==
    ASSUME PauseInv, wakeup_begin, UNCHANGED program
    PROVE  PauseInv'
<1>1. /\ tmp # paused /\ iter.pc = "idle" /\ iter_begin(tmp, "l") /\ UNCHANGED links
      /\ iter' = [pc |-> "loop", seq |-> tmp, dir |-> "l", curr |-> next[tmp]]
      /\ UNCHANGED <<paused_count, promise, canceling, tmp, tmps, batch, abandoned>>
      /\ UNCHANGED <<next, owner>>
  BY DEF wakeup_begin, iter_begin, link, pauseVars, links
<1>2. tmp \in Seqs /\ IInv /\ AllReached /\ PauseTypeOK
  BY DEF PauseInv, PauseTypeOK
<1>3. PauseTypeOK'
  <2>1. IInv'
    BY <1>1, <1>2, IterateStep
  <2> QED
    BY <1>1, <1>2, <2>1 DEF PauseTypeOK, IInv
<1>4. IInv' /\ AllReached' /\ ProgramOK' /\ FreshOK' /\ CountCoversPaused'
  BY <1>1, <1>3, SameLinks
<1>5. next[tmp] \in Cells /\ owner[next[tmp]] = tmp
  BY <1>2, FirstNode
<1>6. iter'.pc = "loop" /\ iter'.seq = tmp /\ iter'.dir = "l" /\ iter'.curr = next[tmp]
  BY <1>1
<1>7. IterOK'
  BY <1>1, <1>5, <1>6 DEF PauseInv, IterOK, Cells
<1>8. BatchOK'
  <2>1. ASSUME NEW n \in batch, promise[n] = "Pending" PROVE owner[n] = tmp /\ Ahead(iter.curr, tmp, n)'
    <3>1. n \in Members(tmp) /\ owner[n] = tmp
      BY <1>1, <1>2, <2>1 DEF PauseInv, BatchOK, Members, PauseTypeOK
    <3>2. Ahead(next[tmp], tmp, n)
      BY <1>2, <3>1 DEF AllReached
    <3> QED
      BY <1>1, <1>6, <3>1, <3>2 DEF Ahead, Follows, Cells
  <2>2. Members(tmp)' = Members(tmp)
    BY <1>1 DEF Members
  <2> QED
    BY <1>1, <1>6, <2>1, <2>2 DEF PauseInv, BatchOK
<1> QED
  BY <1>3, <1>4, <1>7, <1>8 DEF PauseInv

LEMMA WakeupEndStep ==
    ASSUME PauseInv, wakeup_end, UNCHANGED program
    PROVE  PauseInv'
<1>1. /\ iter.pc = "loop" /\ iter' = NoIteration /\ UNCHANGED links /\ tmp' = paused /\ Iterate
      /\ UNCHANGED <<paused_count, promise, canceling, tmps, batch, abandoned>>
  BY DEF wakeup_end, iter_end, Iterate
<1>2. PauseTypeOK'
  <2>1. IInv'
    BY <1>1, IterateStep DEF PauseInv
  <2> QED
    BY <1>1, <2>1, PauseAssumption DEF PauseInv, PauseTypeOK, IInv
<1>3. IInv' /\ AllReached' /\ ProgramOK' /\ FreshOK' /\ CountCoversPaused'
  BY <1>1, <1>2, SameLinks
<1>4. IterOK' /\ BatchOK'
  BY <1>1 DEF IterOK, BatchOK, NoIteration
<1> QED
  BY <1>2, <1>3, <1>4 DEF PauseInv

(* The iteration stands on a node of tmp.                                  *)
LEMMA OnNode ==
    ASSUME PauseInv, iter.pc # "idle", iter.curr # iter.seq
    PROVE  /\ tmp # paused /\ tmp \in Seqs /\ iter.seq = tmp
           /\ iter.curr \in Members(tmp) /\ iter.curr \in Nodes /\ iter.curr \in Cells
           /\ next[iter.curr] \in Cells /\ owner[next[iter.curr]] = tmp
<1>1. tmp # paused /\ tmp \in Seqs /\ iter.seq = tmp /\ iter.curr \in Cells /\ owner[iter.curr] = tmp
  BY DEF PauseInv, PauseTypeOK, IterOK
<1>2. iter.curr \in Nodes
  BY <1>1 DEF Cells, PauseInv, IInv, SentinelOwns
<1>3. iter.curr \in Linked
  BY <1>1, ConstantsAssumption DEF Linked
<1> QED
  BY <1>1, <1>2, <1>3 DEF PauseInv, IInv, WellLinked, Linked, Members

LEMMA WakeupOneStep ==
    ASSUME PauseInv, wakeup_one, UNCHANGED program
    PROVE  PauseInv'
<1> DEFINE c == iter.curr
<1>1. /\ iter.pc = "loop" /\ iter.curr # iter.seq /\ iter' = [iter EXCEPT !.pc = "f"] /\ UNCHANGED links /\ Iterate
      /\ UNCHANGED <<next, owner>>
      /\ promise' = [promise EXCEPT ![c] = IF @ = "Pending" THEN "Fulfilled" ELSE @]
      /\ UNCHANGED <<paused_count, canceling, tmp, tmps, batch, abandoned>>
  BY DEF wakeup_one, iter_visit, Iterate, links
<1>2. /\ tmp # paused /\ tmp \in Seqs /\ iter.seq = tmp
      /\ c \in Members(tmp) /\ c \in Nodes /\ c \in Cells
      /\ next[c] \in Cells /\ owner[next[c]] = tmp
  BY <1>1, OnNode
<1>3. promise \in [Nodes -> {"none", "Pending", "Fulfilled", "Canceled"}] /\ iter \in IterStates /\ canceling = {}
  BY <1>1 DEF PauseInv, PauseTypeOK, TypeOK, IterOK
<1>4. /\ promise'[c] # "Pending" /\ \A n \in Nodes : n # c => promise'[n] = promise[n]
      /\ \A n \in Nodes : promise'[n] \in {promise[n], "Fulfilled"}
      /\ \A n \in Nodes : promise'[n] # promise[n] => promise[n] = "Pending"
  BY <1>1, <1>2, <1>3
<1>5. iter'.pc = "f" /\ iter'.seq = iter.seq /\ iter'.dir = iter.dir /\ iter'.curr = c
  BY <1>1, <1>3 DEF IterStates
<1>6. PauseTypeOK'
  <2>1. IInv'
    BY <1>1, IterateStep DEF PauseInv
  <2> QED
    BY <1>1, <1>2, <1>3, <2>1 DEF PauseInv, PauseTypeOK, IInv
<1>7. IInv' /\ AllReached' /\ ProgramOK' /\ FreshOK' /\ CountCoversPaused'
  BY <1>1, <1>4, <1>6, SameLinks
<1>8. IterOK'
  BY <1>1, <1>2, <1>3, <1>4, <1>5 DEF PauseInv, IterOK, Cells
<1>9. BatchOK'
  <2>1. ASSUME NEW n \in batch, promise'[n] = "Pending" PROVE owner[n] = tmp /\ Ahead(next[iter.curr], tmp, n)'
    <3>1. n \in Nodes /\ n # c /\ promise[n] = "Pending"
      BY <1>2, <1>4, <2>1 DEF PauseInv, PauseTypeOK
    <3>2. owner[n] = tmp /\ Ahead(c, tmp, n)
      BY <1>1, <1>2, <3>1 DEF PauseInv, BatchOK
    <3>3. Ahead(next[c], tmp, n)
      BY <1>1, <1>2, <3>1, <3>2, AheadNext
    <3> QED
      BY <1>1, <1>5, <3>2, <3>3 DEF Ahead, Follows, Cells
  <2>2. Members(tmp)' = Members(tmp)
    BY <1>1 DEF Members
  <2> QED
    BY <1>1, <1>2, <1>5, <2>1, <2>2 DEF PauseInv, BatchOK
<1> QED
  BY <1>6, <1>7, <1>8, <1>9 DEF PauseInv

LEMMA WakeupReturnStep ==
    ASSUME PauseInv, wakeup_return, UNCHANGED program
    PROVE  PauseInv'
<1> DEFINE c == iter.curr
<1>1. /\ iter.pc = "f" /\ canceling = {} /\ UNCHANGED links /\ Iterate /\ UNCHANGED <<next, owner>>
      /\ iter' = [iter EXCEPT !.pc = "loop", !.curr = link(iter.dir)[iter.curr]]
      /\ UNCHANGED <<paused_count, promise, canceling, tmp, tmps, batch, abandoned>>
  BY DEF wakeup_return, iter_return, Iterate, links, pauseVars
<1>2. /\ tmp # paused /\ tmp \in Seqs /\ iter.seq = tmp /\ next[c] \in Cells /\ owner[next[c]] = tmp
      /\ iter.dir = "l"
  <2>1. iter.curr # iter.seq /\ iter.dir = "l"
    BY <1>1, ConstantsAssumption DEF PauseInv, IterOK, PauseTypeOK
  <2> QED
    BY <1>1, <2>1, OnNode
<1>3. iter'.pc = "loop" /\ iter'.seq = iter.seq /\ iter'.dir = iter.dir /\ iter'.curr = next[c]
  BY <1>1, <1>2 DEF PauseInv, PauseTypeOK, TypeOK, IterStates, link
<1>4. PauseTypeOK'
  <2>1. IInv'
    BY <1>1, IterateStep DEF PauseInv
  <2> QED
    BY <1>1, <2>1 DEF PauseInv, PauseTypeOK, IInv
<1>5. IInv' /\ AllReached' /\ ProgramOK' /\ FreshOK' /\ CountCoversPaused'
  BY <1>1, <1>4, SameLinks
<1>6. IterOK'
  BY <1>1, <1>2, <1>3 DEF PauseInv, IterOK, Cells
<1>7. BatchOK'
  <2>1. ASSUME NEW n \in batch, promise[n] = "Pending" PROVE owner[n] = tmp /\ Ahead(iter.curr, tmp, n)'
    <3>1. owner[n] = tmp /\ Ahead(next[c], tmp, n)
      BY <1>1, <1>2, <2>1 DEF PauseInv, BatchOK
    <3> QED
      BY <1>1, <1>3, <3>1 DEF Ahead, Follows, Cells
  <2>2. Members(tmp)' = Members(tmp)
    BY <1>1 DEF Members
  <2> QED
    BY <1>1, <1>2, <1>3, <2>1, <2>2 DEF PauseInv, BatchOK
<1> QED
  BY <1>4, <1>5, <1>6, <1>7 DEF PauseInv
LEMMA CancelStep ==
    ASSUME PauseInv, NEW m \in Nodes, cancel(m), UNCHANGED program
    PROVE  PauseInv'
<1>1. /\ "cancel" \in program /\ iter.pc # "loop" /\ (tmp = paused \/ iter.pc = "f")
      /\ promise[m] = "Pending" /\ canceling' = canceling \cup {m}
      /\ promise' = [promise EXCEPT ![m] = "Canceled"]
      /\ UNCHANGED <<prev, next, active, used, owner, iter, seen, stayed>>
      /\ UNCHANGED <<paused_count, tmp, tmps, batch, abandoned>>
  BY DEF cancel, UserCode, Turn, vars
<1>2. promise \in [Nodes -> {"none", "Pending", "Fulfilled", "Canceled"}] /\ canceling \subseteq Nodes
  BY DEF PauseInv, PauseTypeOK
<1>3. promise'[m] = "Canceled" /\ \A n \in Nodes : n # m => promise'[n] = promise[n]
  BY <1>1, <1>2
<1>4. IInv'
  BY <1>1 DEF PauseInv, IInv, TypeOK, SentinelOwns, LinkedActive, WellLinked, Linked
<1>5. PauseTypeOK'
  BY <1>1, <1>2, <1>4 DEF PauseInv, PauseTypeOK, IInv
<1>6. AllReached'
  BY <1>1, ReachedSame DEF PauseInv
<1>7. ProgramOK'
  BY <1>1, <1>2, <1>3 DEF PauseInv, ProgramOK
<1>8. FreshOK'
  BY <1>1, <1>3 DEF PauseInv, FreshOK, Members
<1>9. IterOK'
  <2>1. iter.pc = "f" => iter.curr # m
    BY <1>1 DEF PauseInv, IterOK
  <2> QED
    BY <1>1, <1>3, <2>1 DEF PauseInv, IterOK, Cells
<1>10. BatchOK'
  <2>1. ASSUME NEW n \in batch, promise'[n] = "Pending" PROVE promise[n] = "Pending"
    BY <1>2, <1>3, <2>1 DEF PauseInv, PauseTypeOK
  <2>2. Members(tmp)' = Members(tmp)
    BY <1>1 DEF Members
  <2>3. ASSUME NEW n \in batch, promise'[n] = "Pending", tmp # paused
        PROVE  owner'[n] = tmp /\ iter.pc # "loop" /\ (iter.pc = "f" => Ahead(next[iter.curr], tmp, n)')
    <3>1. owner[n] = tmp /\ (iter.pc = "f" => Ahead(next[iter.curr], tmp, n))
      BY <2>1, <2>3 DEF PauseInv, BatchOK
    <3> QED
      BY <1>1, <3>1 DEF Ahead, Follows, Cells
  <2> QED
    BY <1>1, <2>2, <2>3 DEF PauseInv, BatchOK
<1>11. CountCoversPaused'
  BY <1>1, <1>3 DEF PauseInv, CountCoversPaused, Members
<1> QED
  BY <1>1, <1>4, <1>5, <1>6, <1>7, <1>8, <1>9, <1>10, <1>11 DEF PauseInv

(* The node of a canceled promise leaves its sequence.                     *)
LEMMA CancelCallbackStep ==
    ASSUME PauseInv, ~({"cancel", "abandon"} \subseteq program),
           NEW m \in Nodes, cancel_callback(m), UNCHANGED program
    PROVE  PauseInv'
<1>1. /\ m \in canceling /\ canceling' = canceling \ {m} /\ promise[m] = "Canceled"
      /\ UNCHANGED <<paused_count, promise, tmp, tmps, batch, abandoned>>
      /\ PauseTypeOK /\ IInv /\ AllReached
  BY DEF cancel_callback, PauseInv, ProgramOK
<1>2. iter.pc # "loop" /\ (tmp = paused \/ iter.pc = "f")
  BY <1>1 DEF PauseInv, IterOK, PauseTypeOK, TypeOK, IterStates
<1>3. CASE active[m]
  <2>1. Unlink(m)
    BY <1>3 DEF cancel_callback, remove
  <2>2. owner[m] # NoSeq
    BY <1>1, <1>3 DEF PauseInv, ProgramOK
  <2>3. IInv' /\ AllReached'
    BY <1>1, <2>1, <2>2, UnlinkStep, ReachedUnlink
  <2>4. /\ next' = [next EXCEPT ![prev[m]] = next[m]] /\ next \in [Cells -> Cells]
        /\ active' = [active EXCEPT ![m] = FALSE] /\ active \in [Nodes -> BOOLEAN]
        /\ UNCHANGED <<used, iter, seen>>
    BY <1>1, <2>1 DEF Unlink, IInv, TypeOK
  <2>5. owner'[m] = NoSeq /\ (\A c \in Cells : c # m => owner'[c] = owner[c]) /\ m \in Cells
    BY <2>1 DEF Unlink, Leave, Cells
  <2>6. PauseTypeOK'
    BY <1>1, <2>3 DEF PauseTypeOK, IInv
  <2>7. ProgramOK'
    BY <1>1, <2>4, <2>5 DEF PauseInv, ProgramOK, Cells
  <2>8. \A s \in Seqs : Members(s)' \subseteq Members(s)
    BY <2>5, ConstantsAssumption DEF Members, Cells
  <2>9. FreshOK'
    BY <1>1, <2>4, <2>8 DEF PauseInv, FreshOK, Tmps
  <2>10. iter.pc = "f" => iter.curr # m
    BY <1>1 DEF PauseInv, IterOK
  <2>11. IterOK'
    <3>1. iter.pc = "f" => owner'[iter.curr] = tmp
      BY <2>5, <2>10 DEF PauseInv, IterOK
    <3> QED
      BY <1>1, <1>2, <2>4, <3>1 DEF PauseInv, IterOK, Cells, PauseTypeOK, TypeOK, IterStates
  <2>12. BatchOK'
    <3> SUFFICES ASSUME tmp # paused PROVE BatchOK'
      BY <1>1 DEF BatchOK
    <3>1. iter.pc = "f" /\ iter.curr \in Members(tmp) /\ iter.curr \in Cells /\ iter.curr # m
      <4>1. iter.pc = "f" /\ iter.curr \in Nodes /\ iter.curr \in Cells /\ owner[iter.curr] = tmp
        BY <1>2 DEF PauseInv, IterOK
      <4> QED
        BY <2>10, <4>1 DEF Members
    <3>2. /\ tmp \in Seqs /\ tmp # NoSeq /\ iter.curr \in Linked /\ m \in Linked
          /\ owner[next[iter.curr]] = tmp /\ next[iter.curr] \in Cells /\ prev[next[iter.curr]] = iter.curr
          /\ next[prev[m]] = m /\ prev[m] \in Cells
      <4>1. tmp \in Seqs /\ tmp # NoSeq /\ iter.curr \in Linked /\ m \in Linked /\ owner[iter.curr] = tmp
        BY <1>1, <2>2, <2>5, <3>1, ConstantsAssumption DEF PauseTypeOK, Linked, Members
      <4> QED
        BY <1>1, <4>1 DEF IInv, WellLinked, Linked
    <3>3. next'[iter.curr] = IF next[iter.curr] = m THEN next[m] ELSE next[iter.curr]
      BY <2>4, <3>1, <3>2
    <3>4. PICK s \in Seqs : s = tmp
      BY <3>2
    <3>5. PICK x \in Cells : x = next[iter.curr]
      BY <3>2
    <3>6. PICK y : y = next'[iter.curr]
      OBVIOUS
    <3>7. ASSUME NEW n \in batch, promise[n] = "Pending"
          PROVE  owner'[n] = tmp /\ Ahead(next[iter.curr], tmp, n)'
      <4>1. n # m /\ n \in Nodes /\ owner[n] = tmp /\ Ahead(x, s, n)
        BY <1>1, <3>1, <3>4, <3>5, <3>7 DEF PauseInv, BatchOK, PauseTypeOK
      <4>2. owner[x] = s /\ y = IF x = m THEN next[m] ELSE x
        BY <3>2, <3>3, <3>4, <3>5, <3>6
      <4>3. Ahead(y, s, n)'
        BY <1>1, <2>1, <2>2, <4>1, <4>2, AheadUnlink
      <4>4. owner'[n] = tmp
        BY <2>5, <4>1 DEF Cells
      <4> QED
        BY <1>1, <2>4, <3>4, <3>6, <4>3, <4>4 DEF Ahead, Follows
    <3>8. Members(tmp)' \subseteq batch
      <4>1. Members(s)' \subseteq Members(s) /\ Members(s) \subseteq batch
        BY <2>8, <3>4 DEF PauseInv, BatchOK
      <4> QED
        BY <1>1, <3>4, <4>1 DEF Members
    <3> QED
      BY <1>1, <2>4, <3>1, <3>7, <3>8 DEF BatchOK
  <2>13. CountCoversPaused'
    BY <1>1, <2>8, PauseAssumption DEF PauseInv, CountCoversPaused
  <2> QED
    BY <2>3, <2>6, <2>7, <2>9, <2>11, <2>12, <2>13 DEF PauseInv
<1>4. CASE ~active[m]
  <2>1. UNCHANGED <<prev, next, active, used, owner, iter, seen, stayed>>
    BY <1>4 DEF cancel_callback, vars
  <2>2. IInv'
    BY <1>1, <2>1 DEF IInv, TypeOK, SentinelOwns, LinkedActive, WellLinked, Linked
  <2>3. PauseTypeOK'
    BY <1>1, <2>2 DEF PauseTypeOK, IInv
  <2>4. AllReached'
    BY <1>1, <2>1, ReachedSame
  <2>5. ProgramOK' /\ FreshOK'
    BY <1>1, <2>1 DEF PauseInv, ProgramOK, FreshOK, Members
  <2>6. IterOK'
    BY <1>1, <2>1 DEF PauseInv, IterOK, Cells
  <2>7. BatchOK'
    BY <1>1, <2>1 DEF PauseInv, BatchOK, Members, Ahead, Follows, Cells
  <2>8. CountCoversPaused'
    BY <1>1, <2>1 DEF PauseInv, CountCoversPaused, Members
  <2> QED
    BY <2>2, <2>3, <2>4, <2>5, <2>6, <2>7, <2>8 DEF PauseInv
<1> QED
  BY <1>3, <1>4

LEMMA AbandonStep ==
    ASSUME PauseInv, abandon_paused, UNCHANGED program
    PROVE  PauseInv'
<1>1. /\ paused \in Seqs /\ paused # NoSeq /\ IInv /\ AllReached /\ PauseTypeOK
      /\ tmp \in Seqs /\ tmp # NoSeq
  BY PauseAssumption, ConstantsAssumption DEF PauseInv, PauseTypeOK
<1>2. /\ "abandon" \in program /\ iter.pc # "loop" /\ clear(paused) /\ paused_count' = 0
      /\ abandoned' = abandoned \cup Members(paused)
      /\ UNCHANGED <<promise, canceling, tmp, tmps, batch>>
  BY DEF abandon_paused, UserCode, Turn
<1>3. IInv' /\ AllReached'
  BY <1>1, <1>2, ClearStep, ReachedClear
<1>4. /\ next' = [next EXCEPT ![paused] = paused] /\ next \in [Cells -> Cells]
      /\ owner' = [c \in Cells |-> IF c \in Members(paused) THEN NoSeq ELSE owner[c]]
      /\ UNCHANGED <<active, used, iter, seen>>
  BY <1>1, <1>2 DEF clear, Leave, IInv, TypeOK
<1>5. Members(paused)' = {} /\ \A s \in Seqs : s # paused => Members(s)' = Members(s)
  BY <1>1, <1>4, ConstantsAssumption DEF Members, Cells
<1>6. \A c \in Cells : c \notin Members(paused) => owner'[c] = owner[c]
  BY <1>4
<1>7. PauseTypeOK'
  BY <1>1, <1>2, <1>3 DEF PauseTypeOK, IInv, Members
<1>8. ProgramOK'
  BY <1>2, <1>4 DEF PauseInv, ProgramOK
<1>9. FreshOK'
  BY <1>2, <1>4, <1>5 DEF PauseInv, FreshOK, Tmps
<1>10. IterOK'
  <2>1. iter.pc = "f" => owner'[iter.curr] = tmp
    BY <1>6 DEF PauseInv, IterOK, Members
  <2> QED
    BY <1>1, <1>2, <1>4, <2>1 DEF PauseInv, IterOK, Cells, PauseTypeOK, TypeOK, IterStates
<1>11. BatchOK'
  <2> SUFFICES ASSUME tmp # paused PROVE BatchOK'
    BY <1>2 DEF BatchOK
  <2>1. Members(tmp)' \subseteq batch
    BY <1>1, <1>2, <1>5 DEF PauseInv, BatchOK, Members
  <2>2. \A c \in Cells : c # tmp /\ owner[c] = tmp => owner'[c] = tmp /\ next'[c] = next[c]
    <3>1. owner[paused] = paused
      BY <1>1, FirstNode
    <3> QED
      BY <1>4, <1>6, <3>1 DEF Members
  <2>3. ASSUME NEW n \in batch, promise[n] = "Pending" PROVE owner'[n] = tmp
    <3>1. owner[n] = tmp /\ n \in Cells
      BY <1>1, <2>3 DEF PauseInv, BatchOK, PauseTypeOK, Cells
    <3> QED
      BY <1>6, <3>1 DEF Members
  <2>4. ASSUME NEW n \in batch, promise[n] = "Pending", iter.pc = "f" PROVE Ahead(next[iter.curr], tmp, n)'
    BY <1>2, <1>4, <2>2, <2>4, OtherSequence
  <2> QED
    BY <1>2, <1>4, <2>1, <2>3, <2>4 DEF BatchOK
<1>12. CountCoversPaused'
  BY <1>5 DEF CountCoversPaused
<1> QED
  BY <1>2, <1>3, <1>7, <1>8, <1>9, <1>10, <1>11, <1>12 DEF PauseInv
-----------------------------------------------------------------------------
LEMMA PauseInitOK == PauseInit => PauseInv
<1> SUFFICES ASSUME PauseInit PROVE PauseInv
  OBVIOUS
<1>1. IInv /\ paused \in Seqs
  BY InitOK, PauseAssumption DEF PauseInit
<1>2. \A s \in Seqs : Members(s) = {}
  BY ConstantsAssumption DEF PauseInit, Init, Members, Cells
<1>3. AllReached
  BY <1>2 DEF AllReached
<1>4. PauseTypeOK
  BY <1>1 DEF PauseInit, PauseTypeOK, IInv
<1>5. ProgramOK
  BY DEF PauseInit, Init, ProgramOK
<1>6. FreshOK
  BY <1>2 DEF PauseInit, FreshOK, Tmps
<1>7. IterOK /\ BatchOK
  BY DEF PauseInit, Init, IterOK, BatchOK, NoIteration
<1>8. CountCoversPaused
  BY <1>1, <1>2 DEF CountCoversPaused
<1> QED
  BY <1>1, <1>3, <1>4, <1>5, <1>6, <1>7, <1>8 DEF PauseInv, PauseInit

LEMMA PauseNextOK ==
    ASSUME \A p \in Programs : ~({"cancel", "abandon"} \subseteq p), PauseInv, [PauseNext]_allVars
    PROVE  PauseInv'
<1>1. CASE PauseNext
  <2>1. UNCHANGED program /\ ~({"cancel", "abandon"} \subseteq program)
    BY <1>1 DEF PauseNext, PauseInv
  <2>2. CASE \E n \in Nodes : cancel(n) \/ cancel_callback(n)
    BY <2>1, <2>2, CancelStep, CancelCallbackStep
  <2>3. CASE pause \/ wakeup_paused \/ abandon_paused
    BY <2>1, <2>3, PauseStep, WakeupPausedStep, AbandonStep
  <2>4. CASE wakeup_begin \/ wakeup_end \/ wakeup_one \/ wakeup_return
    BY <2>1, <2>4, WakeupBeginStep, WakeupEndStep, WakeupOneStep, WakeupReturnStep
  <2> QED
    BY <1>1, <2>2, <2>3, <2>4 DEF PauseNext
<1>2. CASE UNCHANGED allVars
  <2>1. UNCHANGED <<prev, next, active, used, owner, iter, seen, stayed, program>>
    BY <1>2 DEF allVars, vars
  <2>2. UNCHANGED <<paused_count, promise, canceling, tmp, tmps, batch, abandoned>>
    BY <1>2 DEF allVars, pauseVars
  <2>3. IInv'
    BY <2>1 DEF PauseInv, IInv, TypeOK, SentinelOwns, LinkedActive, WellLinked, Linked
  <2>4. AllReached'
    BY <2>1, ReachedSame DEF PauseInv
  <2>5. PauseTypeOK'
    BY <2>2, <2>3 DEF PauseInv, PauseTypeOK, IInv
  <2>6. ProgramOK' /\ FreshOK' /\ CountCoversPaused'
    BY <2>1, <2>2 DEF PauseInv, ProgramOK, FreshOK, Members, CountCoversPaused
  <2>7. IterOK'
    BY <2>1, <2>2 DEF PauseInv, IterOK, Cells
  <2>8. BatchOK'
    BY <2>1, <2>2 DEF PauseInv, BatchOK, Members, Ahead, Follows, Cells
  <2> QED
    BY <2>1, <2>3, <2>4, <2>5, <2>6, <2>7, <2>8 DEF PauseInv
<1> QED
  BY <1>1, <1>2

(* For any number of paused promises and of rounds, the count that the     *)
(* main loop reads is not zero while a promise is paused: Lwt_main does    *)
(* not block on I/O then (pause, wakeup_paused, abandon_paused).           *)
THEOREM PausedAreCounted ==
    ASSUME \A p \in Programs : ~({"cancel", "abandon"} \subseteq p)
    PROVE  PauseSpec => []CountCoversPaused
<1>1. PauseInv => CountCoversPaused
  BY DEF PauseInv
<1> QED
  BY PauseInitOK, PauseNextOK, <1>1, PTL DEF PauseSpec

(* A round of wakeup_paused fulfills every promise that it found, unless   *)
(* it was canceled meanwhile, and fulfills no promise that a callback of   *)
(* the round paused.                                                       *)
THEOREM PausedAreWoken ==
    ASSUME \A p \in Programs : ~({"cancel", "abandon"} \subseteq p)
    PROVE  PauseSpec => WokenExactly
<1> DEFINE Woken == /\ wakeup_end => \A n \in batch : promise[n] # "Pending"
                    /\ \A n \in Nodes : promise[n] # promise'[n] /\ promise'[n] = "Fulfilled"
                                          => n \in batch
<1>1. ASSUME PauseInv, [PauseNext]_allVars PROVE [Woken]_allVars
  <2> SUFFICES ASSUME PauseNext PROVE Woken
    BY <1>1
  <2>1. ASSUME wakeup_end, NEW n \in batch, promise[n] = "Pending" PROVE FALSE
    <3>1. iter.pc = "loop" /\ iter.curr = iter.seq
      BY <2>1 DEF wakeup_end, iter_end
    <3>2. tmp \in Seqs /\ tmp # paused /\ iter.curr = tmp /\ n \in Nodes
      BY <1>1, <3>1 DEF PauseInv, PauseTypeOK, IterOK
    <3>3. Ahead(tmp, tmp, n)
      BY <1>1, <2>1, <3>1, <3>2 DEF PauseInv, BatchOK
    <3> QED
      BY <3>2, <3>3, NothingAhead, ConstantsAssumption
  <2>2. ASSUME NEW n \in Nodes, promise[n] # promise'[n], promise'[n] = "Fulfilled" PROVE n \in batch
    <3>1. promise \in [Nodes -> {"none", "Pending", "Fulfilled", "Canceled"}]
      BY <1>1 DEF PauseInv, PauseTypeOK
    <3>2. ~pause
      BY <2>2 DEF pause
    <3>3. \A m \in Nodes : ~cancel(m) /\ ~cancel_callback(m)
      BY <2>2, <3>1 DEF cancel, cancel_callback
    <3>4. ~wakeup_paused /\ ~wakeup_begin /\ ~wakeup_end /\ ~wakeup_return /\ ~abandon_paused
      BY <2>2 DEF wakeup_paused, wakeup_begin, wakeup_end, wakeup_return, abandon_paused, pauseVars
    <3>5. wakeup_one
      BY <3>2, <3>3, <3>4 DEF PauseNext
    <3>6. n = iter.curr /\ iter.pc = "loop" /\ iter.curr # iter.seq
      BY <2>2, <3>1, <3>5 DEF wakeup_one, iter_visit
    <3>7. tmp # paused /\ iter.curr \in Members(tmp)
      BY <1>1, <3>6, OnNode
    <3> QED
      BY <1>1, <3>6, <3>7 DEF PauseInv, BatchOK
  <2> QED
    BY <2>1, <2>2
<1>2. PauseSpec => [][Woken]_allVars
  BY PauseInitOK, PauseNextOK, <1>1, PTL DEF PauseSpec
<1> QED
  BY <1>2 DEF WokenExactly
=============================================================================
