---------------------------- MODULE LwtPoolProofs ----------------------------
(***************************************************************************)
(* lwt_pool.ml for any number of threads, maximum, number of members and   *)
(* programs: its count is that of its members, no two threads have the     *)
(* same one, and a clear is not missed.                                    *)
(***************************************************************************)
EXTENDS LwtPool, FiniteSetTheorems, TLAPS

Distinct(q) == \A i, j \in DOMAIN q : q[i] = q[j] => i = j
In(q, x) == \E i \in DOMAIN q : q[i] = x

(* A thread waits exactly as long as it has a promise; the threads in the  *)
(* queue, and those a member is created for, wait for one, and once.       *)
WaitersOK ==
    /\ \A t \in Threads : task[t] # "none" <=> pc[t] = "wait"
    /\ Distinct(waiters)
    /\ \A t \in Threads : In(waiters, t) =>
           /\ task[t] = "Pending" \/ (SplitCancel /\ task[t] = "Canceled")
           /\ t \notin creating
    /\ \A t \in creating : task[t] \in {"Pending", "Canceled"}

(* Who has a member, and who has none.                                     *)
Holding(t) ==
    \/ pc[t] \in {"validate", "use", "drop_invalid", "drop_failed", "drop_used"}
    \/ pc[t] = "wait" /\ task[t] = "Fulfilled"

HoldersOK ==
    \A t \in Threads : member[t] \in Members <=> Holding(t)

Listed(m) == In(list, m)
Held(m) == \E t \in Threads : member[t] = m
Cleared(m) == \E ms \in clearing : In(ms, m)

OneHolder ==
    \A t, u \in Threads : member[t] = member[u] /\ member[t] \in Members => t = u

ClearsApart ==
    /\ \A ms \in clearing : ms # <<>> /\ Distinct(ms)
    /\ \A ms, ns \in clearing : \A m \in Members : In(ms, m) /\ In(ns, m) => ms = ns

(* No member is in two places, and only live ones are in any.              *)
Apart ==
    /\ Distinct(list) /\ OneHolder /\ ClearsApart
    /\ \A m \in Members :
           /\ Listed(m) => ~Held(m) /\ ~Cleared(m)
           /\ Held(m) => ~Cleared(m)
           /\ Listed(m) \/ Held(m) \/ Cleared(m) => m \in Live
    /\ \A m \in disposed : m <= created

(* No replacements are created if no validation raises, and no members are *)
(* disposed of by clears if nothing clears.                                *)
ProgramOK ==
    /\ "validate" \notin program =>
           /\ creating = {} /\ orphaned = 0
           /\ \A t \in Threads : pc[t] # "drop_failed"
    /\ "clear" \notin program => clearing = {}

Kept == NothingLoses => \A m \in Live : Listed(m) \/ Held(m) \/ Cleared(m)

(* A member is newer than the last clear or was spared by it, unless the   *)
(* flag of its user has been set.                                          *)
Fresh(m) == m > lastClear \/ m \in spared

FreshOK ==
    /\ lastClear <= created
    /\ \A t \in Threads : since[t] <= lastClear
    /\ \A m \in Members : Listed(m) => Fresh(m)
    /\ \A t \in Threads :
           /\ pc[t] \in {"wait", "validate"} /\ Holding(t) => Fresh(member[t])
           /\ pc[t] = "use" /\ ~cleared[t] => Fresh(member[t])

PoolInv == TypeOK /\ WaitersOK /\ HoldersOK /\ ProgramOK
PlaceInv == Apart /\ Kept
IInv == PoolInv /\ PlaceInv /\ FreshOK /\ FreshOrSpared /\ CountExact
-----------------------------------------------------------------------------
(* A queue of distinct elements from which the first is taken, or to which *)
(* one is added.                                                           *)
LEMMA TakeFirst ==
    ASSUME NEW S, NEW q \in Seq(S), q # <<>>, Distinct(q)
    PROVE  /\ Head(q) \in S /\ In(q, Head(q)) /\ Tail(q) \in Seq(S) /\ Distinct(Tail(q))
           /\ \A x : In(Tail(q), x) <=> In(q, x) /\ x # Head(q)
<1>1. /\ 1 \in DOMAIN q /\ Head(q) = q[1] /\ q[1] \in S /\ Tail(q) \in Seq(S)
      /\ DOMAIN q = 1..Len(q) /\ Len(q) \in Nat /\ DOMAIN Tail(q) = 1..(Len(q) - 1)
  OBVIOUS
<1>2. \A i \in 1..(Len(q) - 1) : Tail(q)[i] = q[i + 1]
  OBVIOUS
<1>3. \A i \in 1..(Len(q) - 1) : i + 1 \in DOMAIN q /\ i + 1 # 1 /\ i \in Nat
  BY <1>1
<1>4. ASSUME NEW i \in DOMAIN Tail(q), NEW j \in DOMAIN Tail(q), Tail(q)[i] = Tail(q)[j]
      PROVE  i = j
  <2>1. i + 1 = j + 1
    BY <1>1, <1>2, <1>3, <1>4 DEF Distinct
  <2> QED
    BY <1>1, <1>3, <2>1
<1>5. \A x : In(Tail(q), x) => In(q, x) /\ x # Head(q)
  BY <1>1, <1>2, <1>3 DEF In, Distinct
<1>6. ASSUME NEW x, In(q, x), x # Head(q) PROVE In(Tail(q), x)
  <2>1. PICK i \in DOMAIN q : q[i] = x
    BY <1>6 DEF In
  <2>2. i # 1
    BY <1>1, <1>6, <2>1
  <2>3. i - 1 \in DOMAIN Tail(q) /\ (i - 1) + 1 = i
    BY <1>1, <2>2
  <2>4. Tail(q)[i - 1] = x
    BY <1>1, <1>2, <2>1, <2>3
  <2> QED
    BY <2>3, <2>4 DEF In
<1> QED
  BY <1>1, <1>4, <1>5, <1>6 DEF In, Distinct

LEMMA AddLast ==
    ASSUME NEW S, NEW q \in Seq(S), NEW y \in S
    PROVE  /\ Append(q, y) \in Seq(S)
           /\ \A x : In(Append(q, y), x) <=> In(q, x) \/ x = y
           /\ Distinct(q) /\ ~In(q, y) => Distinct(Append(q, y))
<1>1. Append(q, y) \in Seq(S)
  OBVIOUS
<1>2. /\ Len(q) \in Nat /\ DOMAIN q = 1..Len(q) /\ DOMAIN Append(q, y) = 1..(Len(q) + 1)
      /\ \A i \in 1..Len(q) : Append(q, y)[i] = q[i]
      /\ Append(q, y)[Len(q) + 1] = y
  OBVIOUS
<1>3. \A i \in DOMAIN Append(q, y) : i \in DOMAIN q \/ i = Len(q) + 1
  BY <1>2
<1>4. Len(q) + 1 \in DOMAIN Append(q, y) /\ \A i \in DOMAIN q : i \in DOMAIN Append(q, y)
  BY <1>2
<1>5. \A x : In(Append(q, y), x) <=> In(q, x) \/ x = y
  BY <1>2, <1>3, <1>4 DEF In
<1>6. Distinct(q) /\ ~In(q, y) => Distinct(Append(q, y))
  BY <1>2, <1>3 DEF In, Distinct
<1> QED
  BY <1>1, <1>5, <1>6

(* Removing a node leaves the other nodes, each once.                      *)
LEMMA WithoutNode ==
    ASSUME NEW S, NEW q \in Seq(S), NEW t, Distinct(q)
    PROVE  /\ Without(q, t) \in Seq(S) /\ Distinct(Without(q, t))
           /\ \A x : In(Without(q, t), x) => In(q, x) /\ x # t
<1> DEFINE K == {i \in DOMAIN q : q[i] = t}
<1>1. CASE K = {}
  BY <1>1 DEF Without, WithoutPlace, In
<1>2. CASE K # {}
  <2> DEFINE k == CHOOSE i \in K : TRUE
             at == [i \in 1..(Len(q) - 1) |-> IF i < k THEN i ELSE i + 1]
             r == [i \in 1..(Len(q) - 1) |-> IF i < k THEN q[i] ELSE q[i + 1]]
  <2>1. k \in DOMAIN q /\ q[k] = t
    BY <1>2
  <2>2. Without(q, t) = r
    BY <1>2 DEF Without, WithoutPlace
  <2>3. k \in 1..Len(q) /\ DOMAIN q = 1..Len(q) /\ Len(q) \in Nat
    BY <2>1
  <2> HIDE DEF k, K
  <2>4. /\ DOMAIN r = 1..(Len(q) - 1) /\ Len(q) - 1 \in Nat
        /\ \A i \in DOMAIN r : r[i] = q[at[i]] /\ at[i] \in DOMAIN q /\ at[i] # k
        /\ \A i, j \in DOMAIN r : at[i] = at[j] => i = j
    BY <2>3
  <2>5. r \in Seq(S)
    BY <2>3, <2>4
  <2> HIDE DEF r, at
  <2>6. Distinct(r)
    BY <2>4 DEF Distinct
  <2>7. \A x : In(r, x) => In(q, x) /\ x # t
    BY <2>1, <2>4 DEF In, Distinct
  <2> QED
    BY <2>2, <2>5, <2>6, <2>7
<1> QED
  BY <1>1, <1>2
-----------------------------------------------------------------------------
(* The last element is removed.                                            *)
LEMMA RemoveLast ==
    ASSUME NEW S, NEW q \in Seq(S), q # <<>>, Distinct(q)
    PROVE  LET r == SubSeq(q, 1, Len(q) - 1)
               y == q[Len(q)]
           IN  /\ y \in S /\ In(q, y) /\ r \in Seq(S) /\ Distinct(r)
               /\ \A x : In(r, x) <=> In(q, x) /\ x # y
               /\ Len(q) = 1 => \A x : In(q, x) => x = y
               /\ Len(q) # 1 => r # <<>>
<1> DEFINE r == SubSeq(q, 1, Len(q) - 1)
           y == q[Len(q)]
<1>1. Len(q) \in Nat /\ Len(q) # 0 /\ DOMAIN q = 1..Len(q) /\ \A i \in DOMAIN q : q[i] \in S
  OBVIOUS
<1>2. Len(q) \in DOMAIN q /\ y \in S /\ In(q, y)
  BY <1>1 DEF In
<1>3. r \in Seq(S) /\ Len(r) = Len(q) - 1 /\ DOMAIN r = 1..(Len(q) - 1)
  BY <1>1
<1>4. \A i \in 1..(Len(q) - 1) : r[i] = q[i] /\ i \in DOMAIN q /\ i # Len(q)
  <2>0. \A n \in Nat : \A i \in 1..(n - 1) : i \in 1..n /\ i # n
    OBVIOUS
  <2>1. \A i \in 1..(Len(q) - 1) : i \in DOMAIN q /\ i # Len(q)
    BY <1>1, <2>0
  <2>2. \A i \in 1..(Len(q) - 1) : r[i] = q[i]
    BY <1>1
  <2> QED
    BY <2>1, <2>2
<1>5. \A i \in DOMAIN q : i = Len(q) \/ i \in 1..(Len(q) - 1)
  BY <1>1
<1> HIDE DEF r, y
<1>6. Distinct(r)
  BY <1>3, <1>4 DEF Distinct
<1>7. \A x : In(r, x) <=> In(q, x) /\ x # y
  BY <1>2, <1>3, <1>4, <1>5 DEF In, Distinct, y
<1>8. Len(q) = 1 => \A x : In(q, x) => x = y
  BY <1>1, <1>5 DEF In, y
<1>9. Len(q) # 1 => r # <<>>
  <2>1. Len(q) # 1 => Len(r) # 0
    BY <1>1, <1>3
  <2> QED
    BY <2>1
<1> QED
  BY <1>2, <1>3, <1>6, <1>7, <1>8, <1>9 DEF r, y

LEMMA InitPoolInv == Init => PoolInv
<1> SUFFICES ASSUME Init PROVE PoolInv
  OBVIOUS
<1>1. TypeOK
  BY PoolAssumption DEF Init, NoTasks, TypeOK, Pcs, Tasks
<1>2. WaitersOK /\ HoldersOK /\ ProgramOK
  BY PoolAssumption DEF Init, NoTasks, WaitersOK, HoldersOK, Holding, ProgramOK, In,
                        Distinct, Members
<1> QED
  BY <1>1, <1>2 DEF PoolInv

LEMMA StutterStep == PoolInv /\ UNCHANGED vars => PoolInv'
  BY DEF PoolInv, TypeOK, WaitersOK, HoldersOK, Holding, ProgramOK, vars

(* use: a member is created, waited for, or taken from the list.           *)
UseCreates(t) ==
    /\ pc[t] = "idle" /\ count < Max /\ count' = count + 1
    /\ Goes(t, "create", NoMember)
    /\ since' = [since EXCEPT ![t] = lastClear]
    /\ UNCHANGED <<list, waiters, task, cleared, creating, clearing, created, disposed,
                   lastClear, spared>>

UseWaits(t) ==
    /\ pc[t] = "idle"
    /\ waiters' = Append(waiters, t)
    /\ task' = [task EXCEPT ![t] = "Pending"]
    /\ Goes(t, "wait", NoMember)
    /\ since' = [since EXCEPT ![t] = lastClear]
    /\ UNCHANGED <<count, list, cleared, creating, clearing, created, disposed, lastClear,
                   spared>>

UseTakes(t) ==
    /\ pc[t] = "idle" /\ list # <<>>
    /\ list' = Tail(list)
    /\ Goes(t, "validate", Head(list))
    /\ since' = [since EXCEPT ![t] = lastClear]
    /\ UNCHANGED <<count, waiters, task, cleared, creating, clearing, created, disposed,
                   lastClear, spared>>

LEMMA UseCases ==
    ASSUME NEW t \in Threads, use(t)
    PROVE  UseCreates(t) \/ UseWaits(t) \/ UseTakes(t)
  BY DEF use, acquire, Wait, TakeFree, UseCreates, UseWaits, UseTakes

LEMMA UseStep ==
    ASSUME PoolInv, NEW t \in Threads, use(t), UNCHANGED orphaned, UNCHANGED program
    PROVE  PoolInv'
<1> USE DEF PoolInv
<1>0. pc[t] = "idle" /\ task[t] = "none" /\ ~In(waiters, t) /\ t \notin creating
  BY DEF use, WaitersOK
<1>1. CASE UseCreates(t)
  <2>1. TypeOK'
    BY <1>1 DEF UseCreates, Goes, TypeOK, Pcs
  <2>2. WaitersOK' /\ ProgramOK'
    BY <1>0, <1>1 DEF UseCreates, Goes, TypeOK, WaitersOK, ProgramOK
  <2>3. HoldersOK'
    BY <1>1, PoolAssumption DEF UseCreates, Goes, TypeOK, HoldersOK, Holding, Members
  <2> QED
    BY <2>1, <2>2, <2>3
<1>2. CASE UseWaits(t)
  <2>0. /\ waiters' \in Seq(Threads) /\ Distinct(waiters')
        /\ \A x : In(waiters', x) <=> In(waiters, x) \/ x = t
    BY <1>0, <1>2, AddLast DEF UseWaits, TypeOK, WaitersOK
  <2>1. TypeOK'
    BY <1>2, <2>0 DEF UseWaits, Goes, TypeOK, Pcs, Tasks
  <2>2. WaitersOK' /\ ProgramOK'
    BY <1>0, <1>2, <2>0 DEF UseWaits, Goes, TypeOK, WaitersOK, ProgramOK
  <2>3. HoldersOK'
    BY <1>2, PoolAssumption DEF UseWaits, Goes, TypeOK, HoldersOK, Holding, Members
  <2> QED
    BY <2>1, <2>2, <2>3
<1>3. CASE UseTakes(t)
  <2>0. Head(list) \in Members /\ Tail(list) \in Seq(Members)
    BY <1>3 DEF UseTakes, TypeOK
  <2>1. TypeOK'
    BY <1>3, <2>0 DEF UseTakes, Goes, TypeOK, Pcs
  <2>2. WaitersOK' /\ ProgramOK'
    BY <1>0, <1>3 DEF UseTakes, Goes, TypeOK, WaitersOK, ProgramOK
  <2>3. HoldersOK'
    BY <1>3, <2>0 DEF UseTakes, Goes, TypeOK, HoldersOK, Holding
  <2> QED
    BY <2>1, <2>2, <2>3
<1> QED
  BY <1>1, <1>2, <1>3, UseCases

LEMMA CreateDoneStep ==
    ASSUME PoolInv, NEW t \in Threads, create_done(t), UNCHANGED orphaned, UNCHANGED program
    PROVE  PoolInv'
<1> USE DEF PoolInv
<1>1. TypeOK'
  BY PoolAssumption DEF create_done, BeginUse, Goes, TypeOK, Pcs, Tasks, Members, history
<1>2. WaitersOK'
  BY DEF create_done, BeginUse, Goes, TypeOK, WaitersOK, In, Distinct
<1>3. HoldersOK'
  BY PoolAssumption DEF create_done, BeginUse, Goes, TypeOK, WaitersOK, HoldersOK, Holding, Members
<1>4. ProgramOK'
  BY DEF create_done, BeginUse, Goes, TypeOK, ProgramOK
<1> QED
  BY <1>1, <1>2, <1>3, <1>4

LEMMA CreateFailStep ==
    ASSUME PoolInv, NEW t \in Threads, create_fail(t), UNCHANGED orphaned, UNCHANGED program
    PROVE  PoolInv'
<1> USE DEF PoolInv
<1>1. TypeOK'
  BY PoolAssumption DEF create_fail, Goes, TypeOK, Pcs, Tasks, Members, history
<1>2. WaitersOK'
  BY DEF create_fail, Goes, TypeOK, WaitersOK, In, Distinct
<1>3. HoldersOK'
  BY PoolAssumption DEF create_fail, Goes, TypeOK, WaitersOK, HoldersOK, Holding, Members
<1>4. ProgramOK'
  BY DEF create_fail, Goes, TypeOK, ProgramOK
<1> QED
  BY <1>1, <1>2, <1>3, <1>4

LEMMA WaitDoneStep ==
    ASSUME PoolInv, NEW t \in Threads, wait_done(t), UNCHANGED orphaned, UNCHANGED program
    PROVE  PoolInv'
<1> USE DEF PoolInv
<1>1. TypeOK'
  BY PoolAssumption DEF wait_done, Goes, TypeOK, Pcs, Tasks, Members, history
<1>2. WaitersOK'
  BY DEF wait_done, Goes, TypeOK, WaitersOK, In, Distinct
<1>3. HoldersOK'
  BY PoolAssumption DEF wait_done, Goes, TypeOK, WaitersOK, HoldersOK, Holding, Members
<1>4. ProgramOK'
  BY DEF wait_done, Goes, TypeOK, ProgramOK
<1> QED
  BY <1>1, <1>2, <1>3, <1>4

LEMMA ValidateTrueStep ==
    ASSUME PoolInv, NEW t \in Threads, validate_true(t), UNCHANGED orphaned, UNCHANGED program
    PROVE  PoolInv'
<1> USE DEF PoolInv
<1>1. TypeOK'
  BY PoolAssumption DEF validate_true, BeginUse, Goes, TypeOK, Pcs, Tasks, Members, history
<1>2. WaitersOK'
  BY DEF validate_true, BeginUse, Goes, TypeOK, WaitersOK, In, Distinct
<1>3. HoldersOK'
  BY PoolAssumption DEF validate_true, BeginUse, Goes, TypeOK, WaitersOK, HoldersOK, Holding, Members
<1>4. ProgramOK'
  BY DEF validate_true, BeginUse, Goes, TypeOK, ProgramOK
<1> QED
  BY <1>1, <1>2, <1>3, <1>4

LEMMA ValidateFalseStep ==
    ASSUME PoolInv, NEW t \in Threads, validate_false(t), UNCHANGED orphaned, UNCHANGED program
    PROVE  PoolInv'
<1> USE DEF PoolInv
<1>1. TypeOK'
  BY PoolAssumption DEF validate_false, Goes, TypeOK, Pcs, Tasks, Members, history
<1>2. WaitersOK'
  BY DEF validate_false, Goes, TypeOK, WaitersOK, In, Distinct
<1>3. HoldersOK'
  BY PoolAssumption DEF validate_false, Goes, TypeOK, WaitersOK, HoldersOK, Holding, Members
<1>4. ProgramOK'
  BY DEF validate_false, Goes, TypeOK, ProgramOK
<1> QED
  BY <1>1, <1>2, <1>3, <1>4

(* The member of t goes to a waiter, to nobody if the waiter is being      *)
(* canceled, to the list, is to be disposed of, or is lost with an         *)
(* exception of check.                                                     *)
HandsOver(t) ==
    /\ pc[t] = "use" /\ ~cleared[t] /\ waiters # <<>> /\ task[Head(waiters)] = "Pending"
    /\ pc' = [pc EXCEPT ![t] = "idle"]
    /\ task' = [task EXCEPT ![Head(waiters)] = "Fulfilled"]
    /\ member' = [member EXCEPT ![t] = NoMember, ![Head(waiters)] = member[t]]
    /\ waiters' = Tail(waiters)
    /\ UNCHANGED <<list, count, cleared, creating, clearing, created, disposed, history>>

HandsToNobody(t) ==
    /\ pc[t] = "use" /\ waiters # <<>> /\ task[Head(waiters)] # "Pending"
    /\ Goes(t, "idle", NoMember)
    /\ waiters' = Tail(waiters)
    /\ UNCHANGED <<list, task, count, cleared, creating, clearing, created, disposed, history>>

PutsBack(t) ==
    /\ pc[t] = "use" /\ ~cleared[t]
    /\ Goes(t, "idle", NoMember)
    /\ list' = Append(list, member[t])
    /\ UNCHANGED <<waiters, task, count, cleared, creating, clearing, created, disposed, history>>

Drops(t) ==
    /\ pc[t] = "use"
    /\ Goes(t, "drop_used", member[t])
    /\ UNCHANGED <<list, waiters, task, count, cleared, creating, clearing, created, disposed,
                   history>>

CheckRaises(t) ==
    /\ pc[t] = "use" /\ "check_raises" \in program
    /\ Goes(t, "idle", NoMember)
    /\ UNCHANGED <<list, waiters, task, count, cleared, creating, clearing, created, disposed,
                   history>>

LEMMA UseDoneCases ==
    ASSUME NEW t \in Threads, use_done(t)
    PROVE  HandsOver(t) \/ HandsToNobody(t) \/ PutsBack(t) \/ Drops(t) \/ CheckRaises(t)
  BY DEF use_done, release, Goes, HandsOver, HandsToNobody, PutsBack, Drops, CheckRaises

(* The first waiter, and the others.                                       *)
LEMMA FirstWaiter ==
    ASSUME PoolInv, waiters # <<>>
    PROVE  /\ Head(waiters) \in Threads /\ In(waiters, Head(waiters))
           /\ Tail(waiters) \in Seq(Threads) /\ Distinct(Tail(waiters))
           /\ \A x : In(Tail(waiters), x) <=> In(waiters, x) /\ x # Head(waiters)
           /\ pc[Head(waiters)] = "wait" /\ task[Head(waiters)] \in {"Pending", "Canceled"}
           /\ ~SplitCancel => task[Head(waiters)] = "Pending"
           /\ Head(waiters) \notin creating
<1>1. /\ Head(waiters) \in Threads /\ In(waiters, Head(waiters))
      /\ Tail(waiters) \in Seq(Threads) /\ Distinct(Tail(waiters))
      /\ \A x : In(Tail(waiters), x) <=> In(waiters, x) /\ x # Head(waiters)
  BY TakeFirst DEF PoolInv, TypeOK, WaitersOK
<1>2. /\ task[Head(waiters)] = "Pending" \/ (SplitCancel /\ task[Head(waiters)] = "Canceled")
      /\ Head(waiters) \notin creating
  BY <1>1 DEF PoolInv, WaitersOK
<1>3. pc[Head(waiters)] = "wait"
  BY <1>1, <1>2 DEF PoolInv, WaitersOK
<1> QED
  BY <1>1, <1>2, <1>3

LEMMA UseDoneStep ==
    ASSUME PoolInv, NEW t \in Threads, use_done(t), UNCHANGED orphaned, UNCHANGED program
    PROVE  PoolInv'
<1> USE DEF PoolInv
<1>0. pc[t] = "use" /\ task[t] = "none" /\ member[t] \in Members
  BY DEF use_done, WaitersOK, HoldersOK, Holding
<1>1. CASE HandsOver(t)
  <2> DEFINE w == Head(waiters)
  <2>0. /\ w \in Threads /\ pc[w] = "wait" /\ w # t /\ w \notin creating
        /\ Tail(waiters) \in Seq(Threads) /\ Distinct(Tail(waiters))
        /\ \A x : In(Tail(waiters), x) <=> In(waiters, x) /\ x # w
    BY <1>0, <1>1, FirstWaiter DEF HandsOver
  <2>a. /\ pc' = [pc EXCEPT ![t] = "idle"]
        /\ task' = [task EXCEPT ![w] = "Fulfilled"]
        /\ member' = [member EXCEPT ![t] = NoMember, ![w] = member[t]]
        /\ waiters' = Tail(waiters)
        /\ UNCHANGED <<list, count, cleared, creating, clearing, created, disposed, history>>
    BY <1>1 DEF HandsOver
  <2> HIDE DEF w
  <2>1. TypeOK'
    BY <1>0, <2>0, <2>a DEF TypeOK, Pcs, Tasks, history
  <2>2. WaitersOK' /\ ProgramOK'
    BY <1>0, <2>0, <2>a DEF TypeOK, WaitersOK, ProgramOK
  <2>3. HoldersOK'
    BY <1>0, <2>0, <2>a, PoolAssumption DEF TypeOK, HoldersOK, Holding, Members
  <2> QED
    BY <2>1, <2>2, <2>3
<1>2. CASE HandsToNobody(t)
  <2>0. /\ Tail(waiters) \in Seq(Threads) /\ Distinct(Tail(waiters))
        /\ \A x : In(Tail(waiters), x) => In(waiters, x)
    BY <1>2, FirstWaiter DEF HandsToNobody
  <2>1. TypeOK'
    BY <1>2, <2>0 DEF HandsToNobody, Goes, TypeOK, Pcs, history
  <2>2. WaitersOK' /\ ProgramOK'
    BY <1>0, <1>2, <2>0 DEF HandsToNobody, Goes, TypeOK, WaitersOK, ProgramOK
  <2>3. HoldersOK'
    BY <1>2, PoolAssumption DEF HandsToNobody, Goes, TypeOK, HoldersOK, Holding, Members
  <2> QED
    BY <2>1, <2>2, <2>3
<1>3. CASE PutsBack(t)
  <2>0. Append(list, member[t]) \in Seq(Members)
    BY <1>0 DEF TypeOK
  <2>1. TypeOK'
    BY <1>3, <2>0 DEF PutsBack, Goes, TypeOK, Pcs, history
  <2>2. WaitersOK' /\ ProgramOK'
    BY <1>0, <1>3 DEF PutsBack, Goes, TypeOK, WaitersOK, ProgramOK
  <2>3. HoldersOK'
    BY <1>3, PoolAssumption DEF PutsBack, Goes, TypeOK, HoldersOK, Holding, Members
  <2> QED
    BY <2>1, <2>2, <2>3
<1>4. CASE Drops(t)
  <2>1. TypeOK'
    BY <1>0, <1>4 DEF Drops, Goes, TypeOK, Pcs, history
  <2>2. WaitersOK' /\ ProgramOK'
    BY <1>0, <1>4 DEF Drops, Goes, TypeOK, WaitersOK, ProgramOK
  <2>3. HoldersOK'
    BY <1>0, <1>4 DEF Drops, Goes, TypeOK, HoldersOK, Holding
  <2> QED
    BY <2>1, <2>2, <2>3
<1>5. CASE CheckRaises(t)
  <2>1. TypeOK'
    BY <1>5 DEF CheckRaises, Goes, TypeOK, Pcs, history
  <2>2. WaitersOK' /\ ProgramOK'
    BY <1>0, <1>5 DEF CheckRaises, Goes, TypeOK, WaitersOK, ProgramOK
  <2>3. HoldersOK'
    BY <1>5, PoolAssumption DEF CheckRaises, Goes, TypeOK, HoldersOK, Holding, Members
  <2> QED
    BY <2>1, <2>2, <2>3
<1> QED
  BY <1>1, <1>2, <1>3, <1>4, <1>5, UseDoneCases

(* The member of t is disposed of: what becomes of t and of the count.     *)
Disposes(t, where, n) ==
    /\ pc[t] \in {"drop_invalid", "drop_failed", "drop_used"}
    /\ Goes(t, where, NoMember)
    /\ disposed' = disposed \cup {member[t]}
    /\ count' = count + n
    /\ UNCHANGED <<list, task, cleared, clearing, created, history>>

LEMMA DisposeDoneCases ==
    ASSUME TypeOK, NEW t \in Threads, dispose_done(t)
    PROVE  \/ Disposes(t, "create", 0) /\ UNCHANGED <<waiters, creating>>
           \/ Disposes(t, "idle", -1) /\ UNCHANGED <<waiters, creating>>
           \/ /\ Disposes(t, "idle", -1) /\ pc[t] = "drop_failed" /\ waiters # <<>>
              /\ creating' = creating \cup {Head(waiters)} /\ waiters' = Tail(waiters)
<1>1. count + 0 = count /\ count + (-1) = count - 1
  BY DEF TypeOK
<1> QED
  BY <1>1 DEF dispose_done, replace_disposed, Disposes

LEMMA DisposeDoneStep ==
    ASSUME PoolInv, NEW t \in Threads, dispose_done(t), UNCHANGED orphaned, UNCHANGED program
    PROVE  PoolInv'
<1> USE DEF PoolInv
<1>1. PICK where \in {"create", "idle"}, n \in {0, -1} : Disposes(t, where, n)
  BY DisposeDoneCases
<1>2. /\ pc[t] \in {"drop_invalid", "drop_failed", "drop_used"} /\ task[t] = "none"
      /\ member[t] \in Members
  BY <1>1 DEF Disposes, WaitersOK, HoldersOK, Holding
<1>3. /\ waiters' \in Seq(Threads) /\ Distinct(waiters') /\ creating' \subseteq Threads
      /\ \A x : In(waiters', x) => In(waiters, x) /\ (x \in creating' => x \in creating)
      /\ \A x \in creating' : x \in creating \/ task[x] \in {"Pending", "Canceled"}
  <2>1. CASE UNCHANGED <<waiters, creating>>
    BY <2>1 DEF TypeOK, WaitersOK
  <2>2. CASE /\ waiters # <<>> /\ creating' = creating \cup {Head(waiters)}
             /\ waiters' = Tail(waiters)
    BY <2>2, FirstWaiter DEF TypeOK
  <2> QED
    BY <2>1, <2>2, DisposeDoneCases
<1>4. TypeOK'
  <2>1. count' \in Int
    BY <1>1 DEF Disposes, TypeOK
  <2> QED
    BY <1>1, <1>2, <1>3, <2>1 DEF Disposes, Goes, TypeOK, Pcs, history
<1>5. WaitersOK'
  BY <1>1, <1>2, <1>3 DEF Disposes, Goes, TypeOK, WaitersOK
<1>6. HoldersOK'
  BY <1>1, PoolAssumption DEF Disposes, Goes, TypeOK, HoldersOK, Holding, Members
<1>7. ProgramOK'
  BY <1>1, <1>2, DisposeDoneCases DEF Disposes, Goes, TypeOK, ProgramOK
<1> QED
  BY <1>4, <1>5, <1>6, <1>7

LEMMA DisposeFailStep ==
    ASSUME PoolInv, NEW t \in Threads, dispose_fail(t), UNCHANGED orphaned, UNCHANGED program
    PROVE  PoolInv'
<1> USE DEF PoolInv
<1>1. TypeOK'
  <2>1. member[t] \in Members
    BY DEF dispose_fail, HoldersOK, Holding
  <2> QED
    BY <2>1 DEF dispose_fail, Goes, TypeOK, Pcs, history
<1>2. WaitersOK'
  BY DEF dispose_fail, Goes, TypeOK, WaitersOK, In, Distinct
<1>3. HoldersOK'
  BY PoolAssumption DEF dispose_fail, Goes, TypeOK, WaitersOK, HoldersOK, Holding, Members
<1>4. ProgramOK'
  BY DEF dispose_fail, Goes, TypeOK, ProgramOK
<1> QED
  BY <1>1, <1>2, <1>3, <1>4

LEMMA ReplacementDoneStep ==
    ASSUME PoolInv, NEW w \in Threads, replacement_done(w), UNCHANGED orphaned, UNCHANGED program
    PROVE  PoolInv'
<1> USE DEF PoolInv
<1>1. TypeOK'
  <2>1. created' \in 0..MaxMembers /\ (created' # created => created + 1 \in Members)
    BY PoolAssumption DEF replacement_done, TypeOK, Members
  <2>2. task' \in [Threads -> Tasks]
    BY DEF replacement_done, GiveTo, TypeOK, Tasks
  <2>3. \/ member' = member
        \/ created + 1 \in Members /\ member' = [member EXCEPT ![w] = created + 1]
    BY PoolAssumption DEF replacement_done, GiveTo, TypeOK, Members
  <2>4. member' \in [Threads -> Members \cup {NoMember}]
    BY <2>3 DEF TypeOK
  <2> QED
    BY <2>1, <2>2, <2>4 DEF replacement_done, TypeOK, history
<1>2. WaitersOK'
  BY DEF replacement_done, GiveTo, Goes, TypeOK, WaitersOK, In, Distinct
<1>3. HoldersOK'
  BY PoolAssumption DEF replacement_done, GiveTo, Goes, TypeOK, WaitersOK, HoldersOK, Holding, Members
<1>4. ProgramOK'
  BY DEF replacement_done, GiveTo, Goes, TypeOK, ProgramOK
<1> QED
  BY <1>1, <1>2, <1>3, <1>4

LEMMA ReplacementOrphanedStep ==
    ASSUME PoolInv, replacement_orphaned, UNCHANGED program
    PROVE  PoolInv'
<1> USE DEF PoolInv
<1>1. TypeOK'
  BY PoolAssumption DEF replacement_orphaned, Goes, TypeOK, Pcs, Tasks, Members, history
<1>2. WaitersOK'
  BY DEF replacement_orphaned, Goes, TypeOK, WaitersOK, In, Distinct
<1>3. HoldersOK'
  BY PoolAssumption DEF replacement_orphaned, Goes, TypeOK, WaitersOK, HoldersOK, Holding, Members
<1>4. ProgramOK'
  BY DEF replacement_orphaned, Goes, TypeOK, ProgramOK
<1> QED
  BY <1>1, <1>2, <1>3, <1>4

LEMMA ClearStep ==
    ASSUME PoolInv, clear, UNCHANGED orphaned, UNCHANGED program
    PROVE  PoolInv'
<1> USE DEF PoolInv
<1>1. TypeOK'
  <2>1. InValidation \ {NoMember} \subseteq Members
    BY DEF InValidation, TypeOK
  <2>2. clearing' \subseteq Seq(Members) /\ list' \in Seq(Members)
    BY DEF clear, Clear, TypeOK
  <2>3. cleared' \in [Threads -> BOOLEAN]
    BY DEF clear
  <2> QED
    BY <2>1, <2>2, <2>3 DEF clear, Clear, TypeOK
<1>2. WaitersOK'
  BY DEF clear, Clear, InValidation, Goes, TypeOK, WaitersOK, In, Distinct
<1>3. HoldersOK'
  BY PoolAssumption DEF clear, Clear, InValidation, Goes, TypeOK, WaitersOK, HoldersOK, Holding, Members
<1>4. ProgramOK'
  BY DEF clear, Clear, InValidation, Goes, TypeOK, ProgramOK
<1> QED
  BY <1>1, <1>2, <1>3, <1>4

LEMMA ClearNextStep ==
    ASSUME PoolInv, Apart, clear_next, UNCHANGED orphaned, UNCHANGED program
    PROVE  PoolInv'
<1> USE DEF PoolInv
<1>1. TypeOK'
  <2>1. PICK ms \in clearing :
           /\ disposed' = disposed \cup {ms[Len(ms)]}
           /\ count' \in {count - 1, count}
           /\ clearing' \in {clearing \ {ms}, (clearing \ {ms}) \cup {SubSeq(ms, 1, Len(ms) - 1)}}
           /\ UNCHANGED <<list, waiters, task, pc, member, cleared, creating, created, history>>
    BY DEF clear_next
  <2>2. ms \in Seq(Members) /\ ms # <<>>
    BY DEF TypeOK, Apart, ClearsApart
  <2>3. ms[Len(ms)] \in Members /\ SubSeq(ms, 1, Len(ms) - 1) \in Seq(Members)
    BY <2>2
  <2>4. disposed' \subseteq Members /\ clearing' \subseteq Seq(Members)
    BY <2>1, <2>3 DEF TypeOK
  <2>5. count' \in Int
    BY <2>1 DEF TypeOK
  <2> QED
    BY <2>1, <2>4, <2>5 DEF TypeOK, history
<1>2. WaitersOK'
  BY DEF clear_next, Goes, TypeOK, WaitersOK, In, Distinct
<1>3. HoldersOK'
  BY PoolAssumption DEF clear_next, Goes, TypeOK, WaitersOK, HoldersOK, Holding, Members
<1>4. ProgramOK'
  BY DEF clear_next, Goes, TypeOK, ProgramOK
<1> QED
  BY <1>1, <1>2, <1>3, <1>4

LEMMA CancelStep ==
    ASSUME PoolInv, NEW t \in Threads, cancel(t), UNCHANGED orphaned, UNCHANGED program
    PROVE  PoolInv'
<1> USE DEF PoolInv
<1>0. /\ waiters' \in Seq(Threads) /\ Distinct(waiters') /\ \A x : In(waiters', x) => In(waiters, x)
      /\ waiters' = Without(waiters, t) => ~In(waiters', t)
  BY WithoutNode DEF cancel, RemoveNode, TypeOK, WaitersOK
<1>1. TypeOK'
  <2>1. creating' \subseteq Threads /\ orphaned' \in Nat
    BY DEF cancel, TypeOK
  <2> QED
    BY <1>0, <2>1 DEF cancel, TypeOK, Tasks, Pcs, history
<1>2. WaitersOK'
  BY <1>0 DEF cancel, RemoveNode, TypeOK, WaitersOK
<1>3. HoldersOK'
  BY PoolAssumption DEF cancel, RemoveNode, Goes, TypeOK, WaitersOK, HoldersOK, Holding, Members
<1>4. ProgramOK'
  BY DEF cancel, RemoveNode, Goes, TypeOK, ProgramOK
<1> QED
  BY <1>1, <1>2, <1>3, <1>4

LEMMA CancelCallbacksStep ==
    ASSUME PoolInv, NEW t \in Threads, cancel_callbacks(t), UNCHANGED program
    PROVE  PoolInv'
<1> USE DEF PoolInv
<1>0. /\ waiters' \in Seq(Threads) /\ Distinct(waiters') /\ \A x : In(waiters', x) => In(waiters, x)
      /\ waiters' = Without(waiters, t) => ~In(waiters', t)
  BY WithoutNode DEF cancel_callbacks, RemoveNode, TypeOK, WaitersOK
<1>1. TypeOK'
  <2>1. creating' \subseteq Threads /\ orphaned' \in Nat
    <3>1. Cardinality(creating \cap {t}) \in Nat
      BY FS_Singleton, FS_Subset, FS_CardinalityType
    <3> QED
      BY <3>1 DEF cancel_callbacks, TypeOK
  <2> QED
    BY <1>0, <2>1 DEF cancel_callbacks, TypeOK, Tasks, Pcs, history
<1>2. WaitersOK'
  BY <1>0 DEF cancel_callbacks, RemoveNode, TypeOK, WaitersOK
<1>3. HoldersOK'
  BY PoolAssumption DEF cancel_callbacks, RemoveNode, Goes, TypeOK, WaitersOK, HoldersOK, Holding, Members
<1>4. ProgramOK'
  <2>1. creating = {} => Cardinality(creating \cap {t}) = 0
    <3>1. creating = {} => creating \cap {t} = {}
      OBVIOUS
    <3> QED
      BY <3>1, FS_EmptySet
  <2> QED
    BY <2>1 DEF cancel_callbacks, TypeOK, ProgramOK
<1> QED
  BY <1>1, <1>2, <1>3, <1>4
-----------------------------------------------------------------------------
(* What a step does to the places of members.                              *)
Moved(lst, hld, clr) ==
    \A m \in Members : (Listed(m)' <=> m \in lst) /\ (Held(m)' <=> m \in hld) /\ (Cleared(m)' <=> m \in clr)

AllListed == {m \in Members : Listed(m)}
AllHeld == {m \in Members : Held(m)}
AllCleared == {m \in Members : Cleared(m)}

PlacesApart(lst, hld, clr) ==
    \A m \in Members : /\ m \in lst => m \notin hld /\ m \notin clr
                       /\ m \in hld => m \notin clr

(* The members of Apart and Kept, as sets.                                 *)
LEMMA MovedApart ==
    ASSUME NEW lst, NEW hld, NEW clr, Moved(lst, hld, clr),
           (Distinct(list) /\ OneHolder /\ ClearsApart)',
           PlacesApart(lst, hld, clr),
           \A m \in Members : m \in lst \/ m \in hld \/ m \in clr => m \in Live',
           \A m \in disposed' : m <= created'
    PROVE  Apart'
  BY DEF Moved, PlacesApart, Apart

LEMMA MovedKept ==
    ASSUME NEW lst, NEW hld, NEW clr, Moved(lst, hld, clr), TypeOK',
           NothingLoses' => \A m \in Members : m \in Live' => m \in lst \/ m \in hld \/ m \in clr
    PROVE  Kept'
<1>1. \A m \in Live' : m \in Members
  BY PoolAssumption DEF TypeOK, Live, Members
<1> QED
  BY <1>1 DEF Moved, Kept

LEMMA Unmoved ==
    ASSUME PlaceInv, UNCHANGED <<list, member, clearing, created, disposed, program>>
    PROVE  PlaceInv'
  BY DEF PlaceInv, Apart, Kept, Listed, Held, Cleared, OneHolder, ClearsApart, Live, NothingLoses

LEMMA Types ==
    ASSUME PoolInv
    PROVE  /\ created \in Nat /\ created \in Int /\ NoMember \notin Members
           /\ \A m \in Members : m \in Nat
           /\ \A t \in Threads : member[t] \in Members \/ member[t] = NoMember
           /\ \A t \in Threads : ~Holding(t) => member[t] = NoMember
  BY PoolAssumption DEF PoolInv, TypeOK, HoldersOK, Members

(* The thread t, which has none, gets the member m.                        *)
LEMMA Gets ==
    ASSUME PoolInv, Apart, NEW t \in Threads, NEW m \in Members, member[t] = NoMember, ~Held(m),
           member' = [member EXCEPT ![t] = m]
    PROVE  OneHolder' /\ \A n \in Members : Held(n)' <=> Held(n) \/ n = m
<1>1. /\ member'[t] = m /\ \A u \in Threads : u # t => member'[u] = member[u]
  BY DEF PoolInv, TypeOK
<1> QED
  BY <1>1, Types DEF Apart, OneHolder, Held

(* The thread t gives its member away.                                     *)
LEMMA Loses ==
    ASSUME PoolInv, Apart, NEW t \in Threads, member[t] \in Members,
           member' = [member EXCEPT ![t] = NoMember]
    PROVE  OneHolder' /\ \A n \in Members : Held(n)' <=> Held(n) /\ n # member[t]
<1>1. /\ member'[t] = NoMember /\ \A u \in Threads : u # t => member'[u] = member[u]
  BY DEF PoolInv, TypeOK
<1> QED
  BY <1>1, Types DEF Apart, OneHolder, Held

(* A member is created.                                                    *)
LEMMA Born ==
    ASSUME PoolInv, PlaceInv, TypeOK', created < MaxMembers, created' = created + 1,
           NEW t \in Threads, member[t] = NoMember, member' = [member EXCEPT ![t] = created + 1],
           UNCHANGED <<list, clearing, disposed, program>>
    PROVE  PlaceInv'
<1> DEFINE m == created + 1
<1>0. m \in Members /\ m \notin Live /\ m \notin disposed
  BY PoolAssumption, Types DEF PoolInv, PlaceInv, Apart, TypeOK, Live, Members
<1>1. ~Listed(m) /\ ~Held(m) /\ ~Cleared(m)
  BY <1>0 DEF PlaceInv, Apart
<1>2. Live' = Live \cup {m}
  BY <1>0, Types DEF Live
<1> HIDE DEF m
<1>3. OneHolder' /\ \A n \in Members : Held(n)' <=> Held(n) \/ n = m
  BY <1>0, <1>1, Gets DEF PlaceInv, m
<1>4. Moved(AllListed, AllHeld \cup {m}, AllCleared)
  BY <1>0, <1>3 DEF Moved, Listed, Cleared, AllListed, AllHeld, AllCleared
<1>5. \A n \in disposed' : n <= created'
  BY Types DEF PlaceInv, Apart, PoolInv, TypeOK, Members
<1>6. PlacesApart(AllListed, AllHeld \cup {m}, AllCleared)
  BY <1>1 DEF PlaceInv, Apart, PlacesApart, AllListed, AllHeld, AllCleared
<1>7. Distinct(list)' /\ ClearsApart'
  BY DEF PlaceInv, Apart, ClearsApart
<1>8. Apart'
  BY <1>2, <1>3, <1>4, <1>5, <1>6, <1>7, MovedApart DEF PlaceInv, Apart, AllListed, AllHeld, AllCleared
<1>9. Kept'
  BY <1>0, <1>2, <1>4, MovedKept DEF PlaceInv, Kept, NothingLoses, AllListed, AllHeld, AllCleared
<1> QED
  BY <1>8, <1>9 DEF PlaceInv

(* The first free member is taken.                                         *)
LEMMA TakesPlaces ==
    ASSUME PoolInv, PlaceInv, TypeOK', UNCHANGED program, NEW t \in Threads, UseTakes(t)
    PROVE  PlaceInv'
<1> DEFINE m == Head(list)
<1>a. /\ pc[t] = "idle" /\ list # <<>> /\ list' = Tail(list)
      /\ member' = [member EXCEPT ![t] = m]
      /\ UNCHANGED <<clearing, created, disposed>>
  BY DEF UseTakes, Goes
<1>0. /\ m \in Members /\ In(list, m) /\ Distinct(Tail(list))
      /\ \A x : In(Tail(list), x) <=> In(list, x) /\ x # m
  BY <1>a, TakeFirst DEF PlaceInv, Apart, PoolInv, TypeOK
<1>b. member[t] = NoMember
  BY <1>a, Types DEF Holding
<1> HIDE DEF m
<1>1. Listed(m) /\ ~Held(m) /\ ~Cleared(m)
  BY <1>0 DEF PlaceInv, Apart, Listed
<1>3. OneHolder' /\ \A n \in Members : Held(n)' <=> Held(n) \/ n = m
  BY <1>a, <1>b, <1>0, <1>1, Gets DEF PlaceInv
<1>4. Moved(AllListed \ {m}, AllHeld \cup {m}, AllCleared)
  BY <1>a, <1>0, <1>3 DEF Moved, Listed, Cleared, AllListed, AllHeld, AllCleared
<1>6. PlacesApart(AllListed \ {m}, AllHeld \cup {m}, AllCleared)
  BY <1>1 DEF PlaceInv, Apart, PlacesApart, AllListed, AllHeld, AllCleared
<1>7. Distinct(list)' /\ ClearsApart' /\ Live' = Live /\ NothingLoses' = NothingLoses
  BY <1>a, <1>0 DEF PlaceInv, Apart, ClearsApart, Live, NothingLoses
<1>8. \A n \in Members : n \in AllListed \ {m} \/ n \in AllHeld \cup {m} \/ n \in AllCleared
                           <=> Listed(n) \/ Held(n) \/ Cleared(n)
  BY <1>1 DEF AllListed, AllHeld, AllCleared
<1>9. Apart'
  BY <1>a, <1>3, <1>4, <1>6, <1>7, <1>8, MovedApart DEF PlaceInv, Apart
<1>10. Kept'
  BY <1>4, <1>7, <1>8, MovedKept DEF PlaceInv, Kept
<1> QED
  BY <1>9, <1>10 DEF PlaceInv

(* The member of t goes to the first waiter.                               *)
LEMMA HandsOverPlaces ==
    ASSUME PoolInv, PlaceInv, TypeOK', UNCHANGED program, NEW t \in Threads, HandsOver(t)
    PROVE  PlaceInv'
<1> DEFINE w == Head(waiters)
<1>a. /\ pc[t] = "use" /\ waiters # <<>> /\ task[w] = "Pending"
      /\ member' = [member EXCEPT ![t] = NoMember, ![w] = member[t]]
      /\ UNCHANGED <<list, clearing, created, disposed>>
  BY DEF HandsOver
<1>b. w \in Threads /\ pc[w] = "wait"
  BY <1>a, FirstWaiter
<1> HIDE DEF w
<1>c. member[w] = NoMember /\ member[t] \in Members
  BY <1>a, <1>b, Types DEF Holding, PoolInv, HoldersOK
<1>d. /\ w # t /\ member'[t] = NoMember /\ member'[w] = member[t]
      /\ \A u \in Threads : u # t /\ u # w => member'[u] = member[u]
  BY <1>a, <1>b DEF PoolInv, TypeOK
<1>1. OneHolder'
  BY <1>c, <1>d, Types DEF PlaceInv, Apart, OneHolder
<1>2. \A n \in Members : Held(n)' <=> Held(n)
  BY <1>b, <1>c, <1>d, Types DEF Held
<1>3. /\ Distinct(list)' /\ ClearsApart' /\ Live' = Live /\ NothingLoses' = NothingLoses
      /\ disposed' = disposed /\ created' = created
  BY <1>a DEF PlaceInv, Apart, ClearsApart, Live, NothingLoses
<1>4. \A n \in Members : (Listed(n)' <=> Listed(n)) /\ (Cleared(n)' <=> Cleared(n))
  BY <1>a DEF Listed, Cleared
<1>5. \A n \in Live : n \in Members
  BY PoolAssumption DEF PoolInv, TypeOK, Live, Members
<1>6. Apart'
  BY <1>1, <1>2, <1>3, <1>4 DEF PlaceInv, Apart
<1>7. Kept'
  BY <1>2, <1>3, <1>4, <1>5 DEF PlaceInv, Kept
<1> QED
  BY <1>6, <1>7 DEF PlaceInv

LEMMA LostPlaces ==
    ASSUME PoolInv, PlaceInv, TypeOK', UNCHANGED program, NEW t \in Threads,
           HandsToNobody(t) \/ CheckRaises(t)
    PROVE  PlaceInv'
<1>a. /\ member' = [member EXCEPT ![t] = NoMember] /\ pc[t] = "use"
      /\ UNCHANGED <<list, clearing, created, disposed>>
  BY DEF HandsToNobody, CheckRaises, Goes
<1>b. ~NothingLoses
  BY FirstWaiter DEF HandsToNobody, CheckRaises, NothingLoses
<1>c. member[t] \in Members
  BY <1>a DEF PoolInv, HoldersOK, Holding
<1>1. OneHolder' /\ \A n \in Members : Held(n)' => Held(n)
  BY <1>a, <1>c, Loses DEF PlaceInv
<1>2. Apart'
  BY <1>a, <1>1 DEF PlaceInv, Apart, Listed, Cleared, ClearsApart, Live
<1>3. Kept'
  BY <1>b DEF Kept, NothingLoses
<1> QED
  BY <1>2, <1>3 DEF PlaceInv

LEMMA PutsBackPlaces ==
    ASSUME PoolInv, PlaceInv, TypeOK', UNCHANGED program, NEW t \in Threads, PutsBack(t)
    PROVE  PlaceInv'
<1> DEFINE m == member[t]
<1>a. /\ pc[t] = "use" /\ list' = Append(list, m)
      /\ member' = [member EXCEPT ![t] = NoMember]
      /\ UNCHANGED <<clearing, created, disposed>>
  BY DEF PutsBack, Goes
<1>b. m \in Members /\ Held(m)
  BY <1>a DEF PoolInv, HoldersOK, Holding, Held
<1>1. OneHolder' /\ \A n \in Members : Held(n)' <=> Held(n) /\ n # m
  BY <1>a, <1>b, Loses DEF PlaceInv
<1> HIDE DEF m
<1>2. ~Listed(m) /\ ~Cleared(m)
  BY <1>b DEF PlaceInv, Apart
<1>3. Distinct(list)' /\ \A x : In(list', x) <=> In(list, x) \/ x = m
  BY <1>a, <1>b, <1>2, AddLast DEF PoolInv, TypeOK, PlaceInv, Apart, Listed
<1>4. Moved(AllListed \cup {m}, AllHeld \ {m}, AllCleared)
  BY <1>a, <1>b, <1>1, <1>3 DEF Moved, Listed, Cleared, AllListed, AllHeld, AllCleared
<1>6. PlacesApart(AllListed \cup {m}, AllHeld \ {m}, AllCleared)
  BY <1>2 DEF PlaceInv, Apart, PlacesApart, AllListed, AllHeld, AllCleared
<1>7. ClearsApart' /\ Live' = Live /\ NothingLoses' = NothingLoses
  BY <1>a DEF PlaceInv, Apart, ClearsApart, Live, NothingLoses
<1>8. \A n \in Members : n \in AllListed \cup {m} \/ n \in AllHeld \ {m} \/ n \in AllCleared
                           <=> Listed(n) \/ Held(n) \/ Cleared(n)
  BY <1>b DEF AllListed, AllHeld, AllCleared
<1>9. Apart'
  BY <1>a, <1>1, <1>3, <1>4, <1>6, <1>7, <1>8, MovedApart DEF PlaceInv, Apart
<1>10. Kept'
  BY <1>4, <1>7, <1>8, MovedKept DEF PlaceInv, Kept
<1> QED
  BY <1>9, <1>10 DEF PlaceInv

(* The member of t is disposed of.                                         *)
LEMMA DisposesPlaces ==
    ASSUME PoolInv, PlaceInv, TypeOK', UNCHANGED program, NEW t \in Threads, Holding(t),
           member' = [member EXCEPT ![t] = NoMember], disposed' = disposed \cup {member[t]},
           UNCHANGED <<list, clearing, created>>
    PROVE  PlaceInv'
<1> DEFINE m == member[t]
<1>b. m \in Members /\ Held(m)
  BY DEF PoolInv, HoldersOK, Held
<1>1. OneHolder' /\ \A n \in Members : Held(n)' <=> Held(n) /\ n # m
  BY <1>b, Loses DEF PlaceInv
<1> HIDE DEF m
<1>2. ~Listed(m) /\ ~Cleared(m) /\ m \in Live
  BY <1>b DEF PlaceInv, Apart
<1>3. Live' = Live \ {m} /\ m <= created
  BY <1>2, Types DEF Live, m
<1>4. Moved(AllListed, AllHeld \ {m}, AllCleared)
  BY <1>b, <1>1 DEF Moved, Listed, Cleared, AllListed, AllHeld, AllCleared
<1>6. PlacesApart(AllListed, AllHeld \ {m}, AllCleared)
  BY DEF PlaceInv, Apart, PlacesApart, AllListed, AllHeld, AllCleared
<1>7. Distinct(list)' /\ ClearsApart' /\ NothingLoses' = NothingLoses
  BY DEF PlaceInv, Apart, ClearsApart, NothingLoses
<1>8. \A n \in Members : n \in AllListed \/ n \in AllHeld \ {m} \/ n \in AllCleared
                           <=> (Listed(n) \/ Held(n) \/ Cleared(n)) /\ n # m
  BY <1>2 DEF AllListed, AllHeld, AllCleared
<1>9. Apart'
  <2>1. \A n \in disposed' : n <= created'
    BY <1>3 DEF PlaceInv, Apart, m
  <2> QED
    BY <1>1, <1>3, <1>4, <1>6, <1>7, <1>8, <2>1, MovedApart DEF PlaceInv, Apart
<1>10. Kept'
  BY <1>3, <1>4, <1>7, <1>8, MovedKept DEF PlaceInv, Kept
<1> QED
  BY <1>9, <1>10 DEF PlaceInv

(* A member is created for nobody.                                         *)
LEMMA OrphanPlaces ==
    ASSUME PoolInv, PlaceInv, UNCHANGED <<list, member, clearing, disposed, program>>,
           created' = created + 1, "validate" \in program
    PROVE  PlaceInv'
<1>1. Live \subseteq Live' /\ \A m \in disposed' : m <= created'
  BY Types DEF Live, PlaceInv, Apart, PoolInv, TypeOK, Members
<1>2. ~NothingLoses'
  BY DEF NothingLoses
<1> QED
  BY <1>1, <1>2 DEF PlaceInv, Apart, Kept, Listed, Held, Cleared, OneHolder, ClearsApart
(* The free members go to a clear.                                         *)
LEMMA ClearPlaces ==
    ASSUME PoolInv, PlaceInv, TypeOK', UNCHANGED program, clear
    PROVE  PlaceInv'
<1>1. CASE list = <<>>
  <2>1. UNCHANGED <<list, member, clearing, created, disposed>>
    BY <1>1 DEF clear, Clear
  <2> QED
    BY <2>1, Unmoved
<1>2. CASE list # <<>>
  <2>1. /\ clearing' = clearing \cup {list} /\ list' = <<>>
        /\ UNCHANGED <<member, created, disposed>>
    BY <1>2 DEF clear, Clear
  <2>2. Distinct(list)' /\ \A x : ~In(list', x)
    BY <2>1 DEF Distinct, In
  <2>3. OneHolder' /\ Live' = Live /\ NothingLoses' = NothingLoses
    BY <2>1 DEF PlaceInv, Apart, OneHolder, Live, NothingLoses
  <2>4. \A m \in Members : (Held(m)' <=> Held(m)) /\ (Cleared(m)' <=> Cleared(m) \/ Listed(m))
    BY <2>1 DEF Held, Cleared, Listed
  <2>5. ClearsApart'
    <3>1. \A ms \in clearing : \A m \in Members : ~(In(ms, m) /\ In(list, m))
      BY DEF PlaceInv, Apart, Cleared, Listed
    <3> QED
      BY <1>2, <2>1, <3>1 DEF PlaceInv, Apart, ClearsApart
  <2>6. Moved({}, AllHeld, AllCleared \cup AllListed)
    BY <2>2, <2>4 DEF Moved, Listed, AllListed, AllHeld, AllCleared
  <2>7. PlacesApart({}, AllHeld, AllCleared \cup AllListed)
    BY DEF PlaceInv, Apart, PlacesApart, AllListed, AllHeld, AllCleared
  <2>8. \A n \in Members : n \in {} \/ n \in AllHeld \/ n \in AllCleared \cup AllListed
                             <=> Listed(n) \/ Held(n) \/ Cleared(n)
    BY DEF AllListed, AllHeld, AllCleared
  <2>9. Apart'
    BY <2>1, <2>2, <2>3, <2>5, <2>6, <2>7, <2>8, MovedApart DEF PlaceInv, Apart
  <2>10. Kept'
    BY <2>3, <2>6, <2>8, MovedKept DEF PlaceInv, Kept
  <2> QED
    BY <2>9, <2>10 DEF PlaceInv
<1> QED
  BY <1>1, <1>2

(* A clear disposes of its last member: it, and the rest of them.          *)
LEMMA ClearNextCases ==
    ASSUME PoolInv, PlaceInv, clear_next
    PROVE  \E m \in Members :
               /\ Cleared(m) /\ disposed' = disposed \cup {m}
               /\ \A n \in Members : Cleared(n)' => Cleared(n) /\ n # m
               /\ ClearsApart'
               /\ \/ /\ count' = count - 1
                     /\ \A n \in Members : Cleared(n) /\ n # m => Cleared(n)'
                  \/ "dispose" \in program
<1>1. PICK ms \in clearing :
         /\ disposed' = disposed \cup {ms[Len(ms)]}
         /\ \/ /\ count' = count - 1
               /\ clearing' = (clearing \ {ms})
                                 \cup (IF Len(ms) = 1 THEN {} ELSE {SubSeq(ms, 1, Len(ms) - 1)})
            \/ /\ "dispose" \in program
               /\ clearing' = clearing \ {ms}
  BY DEF clear_next
<1> DEFINE m == ms[Len(ms)]
           r == SubSeq(ms, 1, Len(ms) - 1)
<1>2. ms \in Seq(Members) /\ ms # <<>> /\ Distinct(ms)
  BY DEF PoolInv, TypeOK, PlaceInv, Apart, ClearsApart
<1>3. /\ m \in Members /\ In(ms, m) /\ Distinct(r)
      /\ \A x : In(r, x) <=> In(ms, x) /\ x # m
      /\ Len(ms) = 1 => \A x : In(ms, x) => x = m
      /\ Len(ms) # 1 => r # <<>>
  BY <1>2, RemoveLast
<1>4. \/ /\ count' = count - 1 /\ Len(ms) = 1 /\ clearing' = clearing \ {ms}
      \/ /\ count' = count - 1 /\ Len(ms) # 1 /\ clearing' = (clearing \ {ms}) \cup {r}
      \/ "dispose" \in program /\ clearing' = clearing \ {ms}
  BY <1>1
<1>5. disposed' = disposed \cup {m}
  BY <1>1
<1> HIDE DEF m, r
<1>6. Cleared(m)
  BY <1>3 DEF Cleared
<1>7. \A ns \in clearing \ {ms} : \A n \in Members : In(ns, n) => ~In(ms, n) /\ n # m
  BY <1>3 DEF PlaceInv, Apart, ClearsApart
<1>8. \A n \in Members : Cleared(n)' => Cleared(n) /\ n # m
  BY <1>3, <1>4, <1>7 DEF Cleared
<1>9. ClearsApart'
  <2>1. \A ns \in clearing \ {ms} : \A n \in Members : ~(In(ns, n) /\ In(r, n))
    BY <1>3, <1>7
  <2>2. CASE clearing' = clearing \ {ms}
    BY <2>2 DEF PlaceInv, Apart, ClearsApart
  <2>3. CASE r # <<>> /\ clearing' = (clearing \ {ms}) \cup {r}
    BY <1>3, <2>1, <2>3 DEF PlaceInv, Apart, ClearsApart
  <2> QED
    BY <1>3, <1>4, <2>2, <2>3
<1>10. ASSUME "dispose" \notin program, NEW n \in Members, Cleared(n), n # m PROVE Cleared(n)'
  <2>1. PICK ns \in clearing : In(ns, n)
    BY <1>10 DEF Cleared
  <2> QED
    BY <1>3, <1>4, <1>10, <2>1 DEF Cleared
<1> QED
  BY <1>3, <1>4, <1>5, <1>6, <1>8, <1>9, <1>10

LEMMA ClearNextPlaces ==
    ASSUME PoolInv, PlaceInv, TypeOK', UNCHANGED program, clear_next
    PROVE  PlaceInv'
<1>1. PICK m \in Members :
         /\ Cleared(m) /\ disposed' = disposed \cup {m}
         /\ \A n \in Members : Cleared(n)' => Cleared(n) /\ n # m
         /\ ClearsApart'
         /\ \/ /\ count' = count - 1
               /\ \A n \in Members : Cleared(n) /\ n # m => Cleared(n)'
            \/ "dispose" \in program
  BY ClearNextCases
<1>2. UNCHANGED <<list, member, created>>
  BY DEF clear_next
<1>3. Distinct(list)' /\ OneHolder' /\ NothingLoses' = NothingLoses
  BY <1>2 DEF PlaceInv, Apart, OneHolder, NothingLoses
<1>4. ~Listed(m) /\ ~Held(m) /\ m \in Live
  BY <1>1 DEF PlaceInv, Apart
<1>5. Live' = Live \ {m} /\ m <= created
  BY <1>1, <1>2, <1>4, Types DEF Live
<1>6. \A n \in Members : (Listed(n)' <=> Listed(n)) /\ (Held(n)' <=> Held(n))
  BY <1>2 DEF Listed, Held
<1>7. Apart'
  <2>1. \A n \in disposed' : n <= created'
    BY <1>1, <1>2, <1>5 DEF PlaceInv, Apart
  <2> QED
    BY <1>1, <1>3, <1>4, <1>5, <1>6, <2>1 DEF PlaceInv, Apart
<1>8. Kept'
  <2>1. clearing # {}
    BY <1>1 DEF Cleared
  <2>2. "clear" \in program
    BY <2>1 DEF PoolInv, ProgramOK
  <2>3. NothingLoses => \A n \in Members : Cleared(n) /\ n # m => Cleared(n)'
    BY <1>1, <2>2 DEF NothingLoses
  <2>4. \A n \in Live : n \in Members
    BY PoolAssumption DEF PoolInv, TypeOK, Live, Members
  <2> QED
    BY <1>3, <1>4, <1>5, <1>6, <2>3, <2>4 DEF PlaceInv, Kept
<1> QED
  BY <1>7, <1>8 DEF PlaceInv

(* A replacement is created, or is not.                                    *)
LEMMA ReplacementPlaces ==
    ASSUME PoolInv, PlaceInv, TypeOK', UNCHANGED program, NEW w \in Threads, replacement_done(w)
    PROVE  PlaceInv'
<1>1. "validate" \in program /\ UNCHANGED <<list, clearing, disposed>>
  BY DEF replacement_done, PoolInv, ProgramOK
<1>2. CASE created' = created + 1 /\ created < MaxMembers /\ task[w] = "Pending"
           /\ member' = [member EXCEPT ![w] = created + 1]
  <2>1. member[w] = NoMember
    BY <1>2, Types DEF Holding, PoolInv, WaitersOK
  <2> QED
    BY <1>1, <1>2, <2>1, Born
<1>3. CASE created' = created + 1 /\ UNCHANGED member
  BY <1>1, <1>3, OrphanPlaces
<1>4. CASE UNCHANGED <<created, member>>
  BY <1>1, <1>4, Unmoved
<1> QED
  BY <1>2, <1>3, <1>4 DEF replacement_done, GiveTo
LEMMA InitPlaces == Init => PlaceInv
<1> SUFFICES ASSUME Init PROVE PlaceInv
  OBVIOUS
<1>1. \A m \in Members : ~Listed(m) /\ ~Held(m) /\ ~Cleared(m)
  BY PoolAssumption DEF Init, Members, Listed, Held, Cleared, In
<1>2. Live = {} /\ disposed = {}
  BY DEF Init, Live
<1>3. Distinct(list) /\ OneHolder /\ ClearsApart
  BY PoolAssumption DEF Init, Members, Distinct, OneHolder, ClearsApart
<1> QED
  BY <1>1, <1>2, <1>3 DEF PlaceInv, Apart, Kept

(* Every step keeps the types, and the members apart.                      *)
LEMMA PoolInvStep ==
    ASSUME PoolInv, PlaceInv, [Next]_vars
    PROVE  PoolInv'
<1>1. Apart
  BY DEF PlaceInv
<1>2. CASE UNCHANGED vars
  BY <1>2, StutterStep
<1>3. CASE Next
  BY <1>1, <1>3, UseStep, CreateDoneStep, CreateFailStep, WaitDoneStep, ValidateTrueStep,
     ValidateFalseStep, UseDoneStep, DisposeDoneStep, DisposeFailStep, ReplacementDoneStep,
     ReplacementOrphanedStep, ClearStep, ClearNextStep, CancelStep, CancelCallbacksStep
     DEF Next, Progress
<1> QED
  BY <1>2, <1>3

(* Actions that move no member.                                            *)
LEMMA StaysPlaces ==
    ASSUME PoolInv, PlaceInv, UNCHANGED program, NEW t \in Threads,
           \/ UseCreates(t) \/ UseWaits(t) \/ create_fail(t) \/ wait_done(t) \/ validate_true(t)
           \/ validate_false(t) \/ Drops(t) \/ cancel(t) \/ cancel_callbacks(t)
    PROVE  PlaceInv'
<1>1. \/ member' = member
      \/ member' = [member EXCEPT ![t] = member[t]]
      \/ ~Holding(t) /\ member' = [member EXCEPT ![t] = NoMember]
  BY DEF UseCreates, UseWaits, create_fail, wait_done, validate_true, validate_false, Drops, cancel,
         cancel_callbacks, Goes, BeginUse, Holding
<1>2. member' = member
  BY <1>1, Types DEF PoolInv, TypeOK
<1>3. UNCHANGED <<list, clearing, created, disposed>>
  BY DEF UseCreates, UseWaits, create_fail, wait_done, validate_true, validate_false, Drops, cancel,
         cancel_callbacks
<1> QED
  BY <1>2, <1>3, Unmoved

LEMMA PlaceInvStep ==
    ASSUME PoolInv, PlaceInv, PoolInv', [Next]_vars
    PROVE  PlaceInv'
<1> USE DEF PoolInv
<1>1. CASE UNCHANGED vars
  BY <1>1, Unmoved DEF vars
<1>2. ASSUME UNCHANGED program, NEW t \in Threads, use(t) PROVE PlaceInv'
  BY <1>2, UseCases, StaysPlaces, TakesPlaces
<1>3. ASSUME UNCHANGED program, NEW t \in Threads, create_done(t) PROVE PlaceInv'
  <2>1. member[t] = NoMember
    BY <1>3, Types DEF create_done, Holding
  <2> QED
    BY <1>3, <2>1, Born DEF create_done, BeginUse, Goes
<1>4. ASSUME UNCHANGED program, NEW t \in Threads, use_done(t) PROVE PlaceInv'
  BY <1>4, UseDoneCases, HandsOverPlaces, LostPlaces, PutsBackPlaces, StaysPlaces
<1>5. ASSUME UNCHANGED program, NEW t \in Threads, dispose_done(t) \/ dispose_fail(t) PROVE PlaceInv'
  <2>1. /\ pc[t] \in {"drop_invalid", "drop_failed", "drop_used"}
        /\ member' = [member EXCEPT ![t] = NoMember] /\ disposed' = disposed \cup {member[t]}
        /\ UNCHANGED <<list, clearing, created>>
    BY <1>5 DEF dispose_done, dispose_fail, Goes
  <2> QED
    BY <1>5, <2>1, DisposesPlaces DEF Holding
<1>6. ASSUME UNCHANGED program, replacement_orphaned PROVE PlaceInv'
  <2>1. "validate" \in program
    BY <1>6 DEF replacement_orphaned, ProgramOK
  <2> QED
    BY <1>6, <2>1, OrphanPlaces, Unmoved DEF replacement_orphaned
<1>7. CASE Next
  BY <1>7, <1>2, <1>3, <1>4, <1>5, <1>6, StaysPlaces, ClearPlaces, ClearNextPlaces,
     ReplacementPlaces DEF Next, Progress
<1> QED
  BY <1>1, <1>7
-----------------------------------------------------------------------------
(* Members stay fresh until a clear.                                       *)
FreshInv == FreshOK /\ FreshOrSpared

LEMMA FreshTypes ==
    ASSUME PoolInv
    PROVE  /\ created \in Nat /\ lastClear \in Nat /\ \A t \in Threads : since[t] \in Nat
           /\ \A m \in Members : m \in Nat
           /\ \A t \in Threads : Holding(t) => member[t] \in Members
  BY PoolAssumption DEF PoolInv, TypeOK, HoldersOK, Members

(* A step that is not a clear: what it may give to the list and to threads.*)
LEMMA StaysFresh ==
    ASSUME PoolInv, PoolInv', FreshInv, UNCHANGED <<lastClear, spared>>, created' >= created,
           \A t \in Threads : since'[t] \in {since[t], lastClear},
           \A m \in Members : Listed(m)' => Fresh(m),
           \A t \in Threads :
               \/ /\ pc'[t] \in {"wait", "validate", "use"} /\ Holding(t)'
                  /\ Fresh(member'[t])
               \/ ~Holding(t)' \/ pc'[t] \notin {"wait", "validate", "use"}
               \/ /\ pc[t] = "use" /\ pc'[t] = "use" /\ since'[t] = since[t]
                  /\ member'[t] = member[t] /\ cleared'[t] = cleared[t]
    PROVE  FreshInv'
<1>1. \A m \in Members : Fresh(m)' <=> Fresh(m)
  BY DEF Fresh
<1>2. lastClear' <= created' /\ \A t \in Threads : since'[t] <= lastClear' /\ since'[t] \in Nat
  <2>1. created' \in Nat
    BY PoolAssumption DEF PoolInv, TypeOK
  <2>2. ASSUME NEW t \in Threads PROVE since'[t] <= lastClear /\ since'[t] \in Nat
    <3>1. lastClear <= lastClear
      BY FreshTypes
    <3> QED
      BY <3>1, FreshTypes DEF FreshInv, FreshOK
  <2>3. lastClear <= created'
    BY <2>1, FreshTypes DEF FreshInv, FreshOK
  <2> QED
    BY <2>2, <2>3
<1>3. \A t \in Threads : Holding(t)' => member'[t] \in Members
  BY DEF PoolInv, HoldersOK
<1>4. \A t \in Threads : pc'[t] = "use" => Holding(t)'
  BY DEF Holding
<1>5. FreshOK'
  <2>1. ASSUME NEW t \in Threads
        PROVE  /\ pc'[t] \in {"wait", "validate"} /\ Holding(t)' => Fresh(member'[t])
               /\ pc'[t] = "use" /\ ~cleared'[t] => Fresh(member'[t])
    BY <1>4, <2>1 DEF FreshInv, FreshOK
  <2> QED
    BY <1>1, <1>2, <1>3, <1>4, <2>1 DEF FreshOK
<1>6. FreshOrSpared'
  <2> SUFFICES ASSUME NEW t \in Threads, pc'[t] = "use"
               PROVE  member'[t] > since'[t] \/ member'[t] \in spared'
    BY DEF FreshOrSpared
  <2>1. CASE Fresh(member'[t])
    BY <1>2, <1>3, <1>4, <2>1, FreshTypes DEF Fresh
  <2>2. CASE pc[t] = "use" /\ since'[t] = since[t] /\ member'[t] = member[t]
    BY <2>2 DEF FreshInv, FreshOrSpared
  <2> QED
    BY <1>4, <2>1, <2>2
<1> QED
  BY <1>5, <1>6 DEF FreshInv
(* A step of one thread.                                                   *)
Only(t) ==
    \A u \in Threads \ {t} :
        /\ since'[u] = since[u] /\ cleared'[u] = cleared[u]
        /\ pc'[u] = pc[u] /\ member'[u] = member[u] /\ task'[u] = task[u]

LEMMA OnlyFresh ==
    ASSUME PoolInv, PoolInv', FreshInv, UNCHANGED <<lastClear, spared>>, created' \in {created, created + 1},
           \A m \in Members : Listed(m)' => Fresh(m),
           NEW t \in Threads, Only(t), since'[t] \in {since[t], lastClear},
           pc'[t] \in {"wait", "validate", "use"} /\ Holding(t)' => Fresh(member'[t])
    PROVE  FreshInv'
<1>1. \A u \in Threads \ {t} :
         /\ pc[u] \in {"wait", "validate"} /\ Holding(u) => Fresh(member[u])
         /\ pc[u] = "use" => Holding(u) /\ (cleared[u] \/ Fresh(member[u]))
  BY DEF FreshInv, FreshOK, Holding
<1>2. created' >= created
  BY FreshTypes
<1>3. \A u \in Threads \ {t} : Holding(u)' <=> Holding(u)
  BY DEF Only, Holding
<1> QED
  BY <1>1, <1>2, <1>3, StaysFresh DEF Only

(* What the members of threads and of the list are.                        *)
LEMMA FreshMembers ==
    ASSUME PoolInv, FreshInv
    PROVE  /\ \A m \in Members : Listed(m) => Fresh(m)
           /\ \A t \in Threads :
                  /\ pc[t] = "validate" \/ (pc[t] = "wait" /\ task[t] = "Fulfilled") => Fresh(member[t])
                  /\ pc[t] = "use" /\ ~cleared[t] => Fresh(member[t])
           /\ created < MaxMembers => Fresh(created + 1)
           /\ task \in [Threads -> Tasks] /\ pc \in [Threads -> Pcs]
           /\ member \in [Threads -> Members \cup {NoMember}]
           /\ cleared \in [Threads -> BOOLEAN] /\ since \in [Threads -> 0..MaxMembers]
<1>1. created < MaxMembers => Fresh(created + 1)
  BY FreshTypes DEF FreshInv, FreshOK, Fresh
<1>2. \A t \in Threads :
         /\ pc[t] = "validate" \/ (pc[t] = "wait" /\ task[t] = "Fulfilled") => Fresh(member[t])
         /\ pc[t] = "use" /\ ~cleared[t] => Fresh(member[t])
  BY DEF FreshInv, FreshOK, Holding
<1> QED
  BY <1>1, <1>2 DEF FreshInv, FreshOK, PoolInv, TypeOK

LEMMA UseFresh ==
    ASSUME PoolInv, PoolInv', PlaceInv, FreshInv, NEW t \in Threads, use(t)
    PROVE  FreshInv'
<1>1. CASE UseCreates(t) \/ UseWaits(t)
  <2>1. Only(t) /\ since'[t] = lastClear /\ UNCHANGED <<lastClear, spared, list, created>>
    BY <1>1, FreshMembers DEF UseCreates, UseWaits, Goes, Only
  <2>2. ~Holding(t)'
    BY <1>1, FreshMembers DEF UseCreates, UseWaits, Goes, Holding
  <2>3. \A m \in Members : Listed(m)' => Fresh(m)
    BY <2>1, FreshMembers DEF Listed
  <2> QED
    BY <2>1, <2>2, <2>3, OnlyFresh
<1>2. CASE UseTakes(t)
  <2>1. Only(t) /\ since'[t] = lastClear /\ UNCHANGED <<lastClear, spared, created>>
    BY <1>2, FreshMembers DEF UseTakes, Goes, Only
  <2>2. /\ Head(list) \in Members /\ In(list, Head(list))
        /\ \A x : In(Tail(list), x) => In(list, x)
    BY <1>2, TakeFirst DEF UseTakes, PoolInv, TypeOK, PlaceInv, Apart
  <2>3. \A m \in Members : Listed(m)' => Fresh(m)
    BY <1>2, <2>2, FreshMembers DEF UseTakes, Listed
  <2>4. Fresh(member'[t])
    <3>1. member'[t] = Head(list)
      BY <1>2, FreshMembers DEF UseTakes, Goes
    <3> QED
      BY <3>1, <2>2, FreshMembers DEF Listed
  <2> QED
    BY <2>1, <2>3, <2>4, OnlyFresh
<1> QED
  BY <1>1, <1>2, UseCases

(* A thread goes on with its member, or gets a new one.                    *)
LEMMA GoesOnFresh ==
    ASSUME PoolInv, PoolInv', FreshInv, NEW t \in Threads,
           create_done(t) \/ create_fail(t) \/ wait_done(t) \/ validate_true(t) \/ validate_false(t)
    PROVE  FreshInv'
<1>1. /\ Only(t) /\ since'[t] = since[t] /\ created' \in {created, created + 1}
      /\ UNCHANGED <<lastClear, spared, list>>
  BY FreshMembers DEF create_done, create_fail, wait_done, validate_true, validate_false, BeginUse,
                      Goes, Only, history
<1>2. pc'[t] \in {"wait", "validate", "use"} => Fresh(member'[t])
  BY FreshMembers DEF create_done, create_fail, wait_done, validate_true, validate_false, BeginUse, Goes
<1>3. \A m \in Members : Listed(m)' => Fresh(m)
  BY <1>1, FreshMembers DEF Listed
<1> QED
  BY <1>1, <1>2, <1>3, OnlyFresh

LEMMA UseDoneFresh ==
    ASSUME PoolInv, PoolInv', FreshInv, NEW t \in Threads, use_done(t)
    PROVE  FreshInv'
<1>1. UNCHANGED <<lastClear, spared, created, since, cleared>>
  BY DEF use_done, history
<1>2. CASE HandsToNobody(t) \/ Drops(t) \/ CheckRaises(t)
  <2>1. Only(t) /\ UNCHANGED list /\ pc'[t] \notin {"wait", "validate", "use"}
    BY <1>2, <1>1, FreshMembers DEF HandsToNobody, Drops, CheckRaises, Goes, Only
  <2>2. \A m \in Members : Listed(m)' => Fresh(m)
    BY <2>1, FreshMembers DEF Listed
  <2> QED
    BY <1>1, <2>1, <2>2, OnlyFresh
<1>3. CASE PutsBack(t)
  <2>1. Only(t) /\ pc'[t] = "idle" /\ Fresh(member[t]) /\ member[t] \in Members
    BY <1>3, <1>1, FreshMembers, FreshTypes DEF PutsBack, Goes, Only, Holding
  <2>2. \A x : In(list', x) => In(list, x) \/ x = member[t]
    BY <1>3, <2>1, AddLast DEF PutsBack, PoolInv, TypeOK
  <2>3. \A m \in Members : Listed(m)' => Fresh(m)
    BY <2>1, <2>2, FreshMembers DEF Listed
  <2> QED
    BY <1>1, <2>1, <2>3, OnlyFresh
<1>4. CASE HandsOver(t)
  <2>0. PICK w \in Threads : w = Head(waiters)
    BY <1>4, FirstWaiter DEF HandsOver
  <2>1. pc[w] = "wait" /\ w # t
    BY <1>4, <2>0, FirstWaiter DEF HandsOver
  <2>2. /\ pc' = [pc EXCEPT ![t] = "idle"] /\ task' = [task EXCEPT ![w] = "Fulfilled"]
        /\ member' = [member EXCEPT ![t] = NoMember, ![w] = member[t]]
        /\ UNCHANGED list /\ Fresh(member[t])
    BY <1>4, <2>0, FreshMembers DEF HandsOver
  <2>3. /\ pc'[t] = "idle" /\ member'[w] = member[t] /\ pc'[w] = "wait" /\ task'[w] = "Fulfilled"
        /\ \A u \in Threads \ {t, w} : pc'[u] = pc[u] /\ member'[u] = member[u] /\ task'[u] = task[u]
    BY <2>1, <2>2, FreshMembers
  <2>4. \A m \in Members : Listed(m)' => Fresh(m)
    BY <2>2, FreshMembers DEF Listed
  <2>5. \A u \in Threads \ {t, w} :
           /\ Holding(u)' <=> Holding(u)
           /\ pc[u] \in {"wait", "validate"} /\ Holding(u) => Fresh(member[u])
           /\ pc[u] = "use" => Holding(u) /\ (cleared[u] \/ Fresh(member[u]))
    BY <2>3 DEF FreshInv, FreshOK, Holding
  <2>6. Holding(w)'
    BY <2>3 DEF Holding
  <2>7. created' >= created
    BY <1>1, FreshTypes
  <2> QED
    BY <1>1, <2>1, <2>2, <2>3, <2>4, <2>5, <2>6, <2>7, StaysFresh
<1> QED
  BY <1>2, <1>3, <1>4, UseDoneCases

(* Disposals, replacements and cancellations.                              *)
LEMMA GivesUpFresh ==
    ASSUME PoolInv, PoolInv', FreshInv, NEW t \in Threads,
           \/ dispose_done(t) \/ dispose_fail(t) \/ replacement_done(t)
           \/ cancel(t) \/ cancel_callbacks(t)
    PROVE  FreshInv'
<1>1. /\ Only(t) /\ since'[t] = since[t] /\ created' \in {created, created + 1}
      /\ UNCHANGED <<lastClear, spared, list>>
  BY FreshMembers DEF dispose_done, dispose_fail, replacement_done, GiveTo, cancel, cancel_callbacks,
                      Goes, Only, history
<1>2. pc'[t] \in {"wait", "validate", "use"} /\ Holding(t)' => Fresh(member'[t])
  <2>1. CASE dispose_done(t) \/ dispose_fail(t)
    BY <2>1, FreshMembers DEF dispose_done, dispose_fail, Goes
  <2>2. CASE replacement_done(t)
    <3>1. pc[t] = "wait" /\ task[t] \in {"Pending", "Canceled"} /\ pc' = pc
      BY <2>2 DEF replacement_done, PoolInv, WaitersOK
    <3> QED
      BY <2>2, <3>1, FreshMembers DEF replacement_done, GiveTo, Holding
  <2>3. CASE cancel(t)
    <3>1. pc[t] = "wait" /\ pc' = pc /\ task'[t] = "Canceled"
      BY <2>3, FreshMembers DEF cancel, PoolInv, WaitersOK
    <3> QED
      BY <3>1 DEF Holding
  <2>4. CASE cancel_callbacks(t)
    BY <2>4, FreshMembers DEF cancel_callbacks
  <2> QED
    BY <2>1, <2>2, <2>3, <2>4
<1>3. \A m \in Members : Listed(m)' => Fresh(m)
  BY <1>1, FreshMembers DEF Listed
<1> QED
  BY <1>1, <1>2, <1>3, OnlyFresh

(* The clear itself: what is in validation is spared, what is in use is    *)
(* told, and nothing is free.                                              *)
LEMMA ClearFresh ==
    ASSUME PoolInv, PoolInv', FreshInv, clear
    PROVE  FreshInv'
<1>1. /\ UNCHANGED <<pc, member, task, since, created>> /\ lastClear' = created /\ list' = <<>>
      /\ spared' = spared \cup (InValidation \ {NoMember})
      /\ \A t \in Threads : cleared'[t]
  BY DEF clear, Clear
<1>2. \A m \in Members : ~Listed(m)'
  BY <1>1 DEF Listed, In
<1>3. lastClear' <= created' /\ \A t \in Threads : since'[t] <= lastClear'
  BY <1>1, FreshTypes DEF FreshInv, FreshOK
<1>4. ASSUME NEW t \in Threads, pc[t] \in {"wait", "validate"}, Holding(t)
      PROVE  member[t] \in spared'
  BY <1>1, <1>4, Types, FreshTypes DEF InValidation
<1>5. FreshOK'
  <2>1. ASSUME NEW t \in Threads, pc'[t] \in {"wait", "validate"}, Holding(t)'
        PROVE  Fresh(member[t])'
    <3>1. Holding(t)
      BY <1>1, <2>1 DEF Holding
    <3> QED
      BY <1>1, <1>4, <2>1, <3>1 DEF Fresh
  <2> QED
    BY <1>1, <1>2, <1>3, <2>1 DEF FreshOK
<1>6. FreshOrSpared'
  BY <1>1 DEF FreshInv, FreshOrSpared
<1> QED
  BY <1>5, <1>6 DEF FreshInv

LEMMA FreshStep ==
    ASSUME PoolInv, PoolInv', PlaceInv, FreshInv, [Next]_vars
    PROVE  FreshInv'
<1>1. CASE UNCHANGED vars \/ clear_next \/ replacement_orphaned
  <2>1. /\ UNCHANGED <<list, task, pc, member, cleared, history>>
        /\ created' \in {created, created + 1}
    BY <1>1 DEF vars, clear_next, replacement_orphaned, history
  <2>2. lastClear <= created'
    BY <2>1, FreshTypes DEF FreshInv, FreshOK
  <2> QED
    BY <2>1, <2>2 DEF FreshInv, FreshOK, FreshOrSpared, Listed, Fresh, Holding, history
<1>2. CASE Next
  BY <1>1, <1>2, UseFresh, GoesOnFresh, UseDoneFresh, GivesUpFresh, ClearFresh DEF Next, Progress
<1> QED
  BY <1>1, <1>2
-----------------------------------------------------------------------------
(* The threads that create a member.                                       *)
Creators == {t \in Threads : pc[t] = "create"}
Counted == count = Cardinality(Live) + Cardinality(Creators)
NoExceptions == program \cap {"validate", "dispose"} = {}

LEMMA CountedExact == PoolInv => (CountExact <=> (NoExceptions => Counted))
<1> SUFFICES ASSUME PoolInv PROVE CountExact <=> (NoExceptions => Counted)
  OBVIOUS
<1>1. NoExceptions => creating = {} /\ orphaned = 0
  BY DEF NoExceptions, PoolInv, ProgramOK
<1>2. IsFiniteSet(Creators) /\ IsFiniteSet(Live)
  <2>1. Creators \in SUBSET Threads /\ Live \in SUBSET (1..created)
    BY DEF Creators, Live
  <2>2. IsFiniteSet(Threads) /\ IsFiniteSet(1..created)
    BY PoolAssumption, Types, FS_Interval
  <2> QED
    BY <2>1, <2>2, FS_Subset
<1>3. Cardinality(Creators) \in Nat /\ Cardinality(Live) \in Nat /\ Cardinality({}) = 0
  BY <1>2, FS_CardinalityType, FS_EmptySet
<1>4. NoExceptions => Creations = Cardinality(Creators)
  BY <1>1, <1>3 DEF Creations, Creators
<1> QED
  BY <1>4 DEF CountExact, Counted, NoExceptions
(* What a step adds to, and takes from, what is counted.                   *)
Adjusts(n, creators, live) ==
    count' = count + n /\ Creators' = creators /\ Live' = live

Starts == \E t \in Threads \ Creators : Adjusts(1, Creators \cup {t}, Live)
Fails == \E t \in Creators : Adjusts(-1, Creators \ {t}, Live)
Creates == \E t \in Creators, m \in Nat \ Live : Adjusts(0, Creators \ {t}, Live \cup {m})
Replaces == \E t \in Threads \ Creators, m \in Live : Adjusts(0, Creators \cup {t}, Live \ {m})
Removes == \E m \in Live : Adjusts(-1, Creators, Live \ {m})

LEMMA CountedStep ==
    ASSUME PoolInv, Counted,
           Adjusts(0, Creators, Live) \/ Starts \/ Fails \/ Creates \/ Replaces \/ Removes
    PROVE  Counted'
<1>1. IsFiniteSet(Creators) /\ IsFiniteSet(Live)
  <2>1. Creators \in SUBSET Threads /\ Live \in SUBSET (1..created)
    BY DEF Creators, Live
  <2>2. IsFiniteSet(Threads) /\ IsFiniteSet(1..created)
    BY PoolAssumption, Types, FS_Interval
  <2> QED
    BY <2>1, <2>2, FS_Subset
<1> DEFINE c == Cardinality(Creators)
           l == Cardinality(Live)
<1>2. /\ \A t : Cardinality(Creators \cup {t}) = IF t \in Creators THEN c ELSE c + 1
      /\ \A t : Cardinality(Creators \ {t}) = IF t \in Creators THEN c - 1 ELSE c
      /\ \A m : Cardinality(Live \cup {m}) = IF m \in Live THEN l ELSE l + 1
      /\ \A m : Cardinality(Live \ {m}) = IF m \in Live THEN l - 1 ELSE l
  BY <1>1, FS_AddElement, FS_RemoveElement
<1>3. c \in Nat /\ l \in Nat /\ count = l + c
  BY <1>1, FS_CardinalityType DEF Counted
<1>4. ASSUME NEW n, NEW creators, NEW live, Adjusts(n, creators, live),
             count + n = Cardinality(live) + Cardinality(creators)
      PROVE  Counted'
  BY <1>4 DEF Adjusts, Counted
<1> HIDE DEF c, l
<1>5. CASE Adjusts(0, Creators, Live)
  BY <1>3, <1>4, <1>5 DEF c, l
<1>6. CASE Starts
  <2>1. PICK t \in Threads \ Creators : Adjusts(1, Creators \cup {t}, Live)
    BY <1>6 DEF Starts
  <2>2. Cardinality(Creators \cup {t}) = c + 1 /\ Cardinality(Live) = l
    BY <1>2, <2>1 DEF l
  <2>3. count + 1 = Cardinality(Live) + Cardinality(Creators \cup {t})
    BY <1>3, <2>2
  <2> QED
    BY <1>4, <2>1, <2>3
<1>7. CASE Fails
  <2>1. PICK t \in Creators : Adjusts(-1, Creators \ {t}, Live)
    BY <1>7 DEF Fails
  <2>2. Cardinality(Creators \ {t}) = c - 1 /\ Cardinality(Live) = l
    BY <1>2, <2>1 DEF l
  <2>3. count + (-1) = Cardinality(Live) + Cardinality(Creators \ {t})
    BY <1>3, <2>2
  <2> QED
    BY <1>4, <2>1, <2>3
<1>8. CASE Creates
  <2>1. PICK t \in Creators, m \in Nat \ Live : Adjusts(0, Creators \ {t}, Live \cup {m})
    BY <1>8 DEF Creates
  <2>2. Cardinality(Creators \ {t}) = c - 1 /\ Cardinality(Live \cup {m}) = l + 1
    BY <1>2, <2>1
  <2>3. count + 0 = Cardinality(Live \cup {m}) + Cardinality(Creators \ {t})
    BY <1>3, <2>2
  <2> QED
    BY <1>4, <2>1, <2>3
<1>9. CASE Replaces
  <2>1. PICK t \in Threads \ Creators, m \in Live : Adjusts(0, Creators \cup {t}, Live \ {m})
    BY <1>9 DEF Replaces
  <2>2. Cardinality(Creators \cup {t}) = c + 1 /\ Cardinality(Live \ {m}) = l - 1
    BY <1>2, <2>1
  <2>3. count + 0 = Cardinality(Live \ {m}) + Cardinality(Creators \cup {t})
    BY <1>3, <2>2
  <2> QED
    BY <1>4, <2>1, <2>3
<1>10. CASE Removes
  <2>1. PICK m \in Live : Adjusts(-1, Creators, Live \ {m})
    BY <1>10 DEF Removes
  <2>2. Cardinality(Creators) = c /\ Cardinality(Live \ {m}) = l - 1
    BY <1>2, <2>1 DEF c
  <2>3. count + (-1) = Cardinality(Live \ {m}) + Cardinality(Creators)
    BY <1>3, <2>2
  <2> QED
    BY <1>4, <2>1, <2>3
<1> QED
  BY <1>5, <1>6, <1>7, <1>8, <1>9, <1>10

LEMMA CountTypes ==
    ASSUME PoolInv
    PROVE  /\ pc \in [Threads -> Pcs] /\ count \in Int /\ created \in Nat
           /\ count + 0 = count /\ count + (-1) = count - 1
  BY PoolAssumption DEF PoolInv, TypeOK

LEMMA CountsThreads ==
    ASSUME PoolInv, PlaceInv, NEW t \in Threads,
           use(t) \/ create_done(t) \/ create_fail(t)
    PROVE  Adjusts(0, Creators, Live) \/ Starts \/ Fails \/ Creates
<1> USE CountTypes
<1>1. CASE UseCreates(t)
  <2>1. count' = count + 1 /\ Live' = Live
    BY <1>1 DEF UseCreates, Live
  <2>2. t \in Threads \ Creators /\ Creators' = Creators \cup {t}
    BY <1>1 DEF UseCreates, Goes, Creators
  <2> QED
    BY <2>1, <2>2 DEF Adjusts, Starts
<1>2. CASE UseWaits(t) \/ UseTakes(t)
  <2>1. count' = count + 0 /\ Live' = Live
    BY <1>2 DEF UseWaits, UseTakes, Live
  <2>2. Creators' = Creators
    BY <1>2 DEF UseWaits, UseTakes, Goes, Creators
  <2> QED
    BY <2>1, <2>2 DEF Adjusts
<1>3. CASE create_done(t)
  <2>1. count' = count + 0 /\ created' = created + 1 /\ disposed' = disposed
    BY <1>3 DEF create_done
  <2>2. created + 1 \in Nat \ Live /\ Live' = Live \cup {created + 1}
    BY <2>1 DEF PlaceInv, Apart, Live
  <2>3. t \in Creators /\ Creators' = Creators \ {t}
    BY <1>3 DEF create_done, BeginUse, Goes, Creators
  <2> QED
    BY <2>1, <2>2, <2>3 DEF Adjusts, Creates
<1>4. CASE create_fail(t)
  <2>1. count' = count + (-1) /\ Live' = Live
    BY <1>4 DEF create_fail, Live
  <2>2. t \in Creators /\ Creators' = Creators \ {t}
    BY <1>4 DEF create_fail, Goes, Creators
  <2> QED
    BY <2>1, <2>2 DEF Adjusts, Fails
<1> QED
  BY <1>1, <1>2, <1>3, <1>4, UseCases

(* The member of a thread, or one of a clear, is disposed of.              *)
LEMMA CountsDisposals ==
    ASSUME PoolInv, PlaceInv, NoExceptions, clear_next \/ \E t \in Threads : dispose_done(t)
    PROVE  Replaces \/ Removes
<1> USE CountTypes
<1>1. CASE clear_next
  <2>1. PICK m \in Members : Cleared(m) /\ disposed' = disposed \cup {m} /\ count' = count - 1
    BY <1>1, ClearNextCases DEF NoExceptions
  <2>2. m \in Live /\ UNCHANGED <<created, pc>>
    BY <1>1, <2>1 DEF PlaceInv, Apart, clear_next
  <2>3. Live' = Live \ {m} /\ Creators' = Creators
    BY <2>1, <2>2 DEF Live, Creators
  <2> QED
    BY <2>1, <2>2, <2>3 DEF Adjusts, Removes
<1>2. ASSUME NEW t \in Threads, dispose_done(t) PROVE Replaces \/ Removes
  <2>1. PICK where \in {"create", "idle"}, n \in {0, -1} :
            /\ Disposes(t, where, n)
            /\ (where = "create" /\ n = 0) \/ (where = "idle" /\ n = -1)
    BY <1>2, DisposeDoneCases DEF PoolInv
  <2>2. /\ pc[t] \in {"drop_invalid", "drop_failed", "drop_used"}
        /\ pc' = [pc EXCEPT ![t] = where] /\ count' = count + n
        /\ disposed' = disposed \cup {member[t]} /\ created' = created
    BY <2>1 DEF Disposes, Goes
  <2>3. member[t] \in Members /\ Held(member[t])
    BY <2>2 DEF PoolInv, HoldersOK, Holding, Held
  <2>4. member[t] \in Live /\ Live' = Live \ {member[t]}
    BY <2>2, <2>3 DEF PlaceInv, Apart, Live
  <2>5. t \in Threads \ Creators
    BY <2>2 DEF Creators
  <2>6. /\ where = "create" => Creators' = Creators \cup {t}
        /\ where = "idle" => Creators' = Creators
    BY <2>2 DEF Creators
  <2> QED
    BY <2>1, <2>2, <2>4, <2>5, <2>6 DEF Adjusts, Replaces, Removes
<1> QED
  BY <1>1, <1>2

(* The other steps: nothing is counted.                                    *)
LEMMA CountsNothing ==
    ASSUME PoolInv,
           \/ UNCHANGED vars \/ clear
           \/ \E t \in Threads : \/ wait_done(t) \/ validate_true(t) \/ validate_false(t)
                                 \/ use_done(t) \/ cancel(t) \/ cancel_callbacks(t)
    PROVE  Adjusts(0, Creators, Live)
<1> USE CountTypes
<1>1. UNCHANGED <<count, created, disposed>>
  BY DEF vars, clear, Clear, wait_done, validate_true, validate_false, use_done, cancel,
         cancel_callbacks
<1>2. CASE UNCHANGED pc
  BY <1>1, <1>2 DEF Adjusts, Creators, Live
<1>3. CASE \E t \in Threads, p \in Pcs \ {"create"} :
             pc[t] # "create" /\ pc' = [pc EXCEPT ![t] = p]
  <2>1. Creators' = Creators
    BY <1>3 DEF Creators
  <2> QED
    BY <1>1, <2>1 DEF Adjusts, Live
<1>4. ASSUME NEW t \in Threads,
             \/ wait_done(t) \/ validate_true(t) \/ validate_false(t)
             \/ use_done(t) \/ cancel_callbacks(t)
      PROVE  \E p \in Pcs \ {"create"} : pc[t] # "create" /\ pc' = [pc EXCEPT ![t] = p]
  <2>1. pc[t] # "create"
    BY <1>4 DEF wait_done, validate_true, validate_false, use_done, cancel_callbacks, PoolInv, WaitersOK
  <2> QED
    BY <1>4, <2>1 DEF wait_done, validate_true, validate_false, use_done, release, cancel_callbacks,
                      BeginUse, Goes, Pcs
<1> QED
  BY <1>2, <1>3, <1>4 DEF vars, clear, Clear, cancel

LEMMA CountStep ==
    ASSUME PoolInv, PoolInv', PlaceInv, CountExact, [Next]_vars
    PROVE  CountExact'
<1>1. PoolInv' => (CountExact' <=> (NoExceptions' => Counted'))
  BY CountedExact, PTL
<1>2. SUFFICES ASSUME NoExceptions' PROVE Counted'
  BY <1>1
<1>3. NoExceptions
  BY <1>2 DEF Next, vars, NoExceptions
<1>4. Counted
  BY <1>3, CountedExact
<1>5. ~replacement_orphaned /\ \A t \in Threads : ~replacement_done(t) /\ ~dispose_fail(t)
  BY <1>3 DEF NoExceptions, replacement_orphaned, replacement_done, dispose_fail, PoolInv, ProgramOK
<1>6. Adjusts(0, Creators, Live) \/ Starts \/ Fails \/ Creates \/ Replaces \/ Removes
  BY <1>3, <1>5, CountsThreads, CountsDisposals, CountsNothing DEF Next, Progress
<1> QED
  BY <1>4, <1>6, CountedStep
-----------------------------------------------------------------------------
LEMMA InitIInv == Init => IInv
<1> SUFFICES ASSUME Init PROVE IInv
  OBVIOUS
<1>1. PoolInv /\ PlaceInv
  BY InitPoolInv, InitPlaces
<1>2. FreshOK /\ FreshOrSpared
  BY <1>1, PoolAssumption DEF Init, NoTasks, FreshOK, FreshOrSpared, Holding, Listed, In
<1>3. CountExact
  <2>1. Live = {} /\ Creators = {} /\ count = 0
    BY DEF Init, NoTasks, Live, Creators
  <2>2. Counted
    BY <2>1, FS_EmptySet DEF Counted
  <2> QED
    BY <1>1, <2>2, CountedExact
<1> QED
  BY <1>1, <1>2, <1>3 DEF IInv

LEMMA NextIInv == IInv /\ [Next]_vars => IInv'
<1> SUFFICES ASSUME IInv, [Next]_vars PROVE IInv'
  OBVIOUS
<1>1. PoolInv'
  BY PoolInvStep DEF IInv
<1>2. PlaceInv'
  BY <1>1, PlaceInvStep DEF IInv
<1>3. FreshOK' /\ FreshOrSpared'
  BY <1>1, FreshStep DEF IInv, FreshInv
<1>4. CountExact'
  BY <1>1, CountStep DEF IInv
<1> QED
  BY <1>1, <1>2, <1>3, <1>4 DEF IInv

LEMMA InvariantHolds == Spec => []IInv
  BY InitIInv, NextIInv, PTL DEF Spec

(* The places of a member as a set with at most one element.               *)
LEMMA PlacesOne == PoolInv /\ PlaceInv => OnePlace
<1> SUFFICES ASSUME PoolInv, PlaceInv, NEW m \in Members
             PROVE  /\ Cardinality(Places(m)) <= (IF m \in Live THEN 1 ELSE 0)
                    /\ NothingLoses => (m \in Live => Places(m) # {})
  BY DEF OnePlace
<1> DEFINE L == {<<"list", i>> : i \in {i \in DOMAIN list : list[i] = m}}
           H == {<<"thread", t>> : t \in {t \in Threads : member[t] = m}}
           C == {<<"clear", ms>> : ms \in {ms \in clearing : \E i \in DOMAIN ms : ms[i] = m}}
<1>1. Places(m) = L \cup H \cup C
  BY DEF Places
<1>2. /\ Listed(m) <=> L # {}
      /\ Held(m) <=> H # {}
      /\ Cleared(m) <=> C # {}
  BY DEF Listed, Held, Cleared, In
<1>3. /\ \A x, y \in L : x = y
      /\ \A x, y \in H : x = y
      /\ \A x, y \in C : x = y
  BY DEF PlaceInv, Apart, Distinct, OneHolder, ClearsApart, In
<1>4. /\ Listed(m) => ~Held(m) /\ ~Cleared(m)
      /\ Held(m) => ~Cleared(m)
      /\ Listed(m) \/ Held(m) \/ Cleared(m) => m \in Live
      /\ NothingLoses /\ m \in Live => Listed(m) \/ Held(m) \/ Cleared(m)
  BY DEF PlaceInv, Apart, Kept
<1> HIDE DEF L, H, C
<1>5. \A x, y \in Places(m) : x = y
  BY <1>1, <1>2, <1>3, <1>4
<1>6. CASE Places(m) = {}
  <2>1. Cardinality(Places(m)) = 0
    BY <1>6, FS_EmptySet
  <2> QED
    BY <1>1, <1>2, <1>4, <1>6, <2>1
<1>7. CASE Places(m) # {}
  <2>1. PICK x : Places(m) = {x}
    BY <1>5, <1>7
  <2>2. Cardinality(Places(m)) = 1
    BY <2>1, FS_Singleton
  <2>3. m \in Live
    BY <1>1, <1>2, <1>4, <1>7
  <2> QED
    BY <1>7, <2>2, <2>3
<1> QED
  BY <1>6, <1>7

(* count is the number of the members that exist or are being created,     *)
(* whatever creations, disposals and clears are under way, if neither      *)
(* validate nor dispose raise exceptions (lwt_pool.ml:35).                 *)
THEOREM PoolCountsItsMembers == Spec => []CountExact
<1>1. IInv => CountExact
  BY DEF IInv
<1> QED
  BY <1>1, InvariantHolds, PTL

(* lwt_pool.mli:79: no two threads use one member, none uses a free or a   *)
(* disposed one, and, where nothing is lost to an exception or to a split  *)
(* cancellation, every live member is in the pool or with a thread.        *)
THEOREM PoolMembersInOnePlace == Spec => []OnePlace
<1>1. IInv => OnePlace
  BY PlacesOne DEF IInv
<1> QED
  BY <1>1, InvariantHolds, PTL

(* lwt_pool.mli:90: a thread that calls use after a clear gets a member    *)
(* created after it, or one that the clear found in validation.            *)
THEOREM PoolClearsAreSeen == Spec => []FreshOrSpared
<1>1. IInv => FreshOrSpared
  BY DEF IInv
<1> QED
  BY <1>1, InvariantHolds, PTL
=============================================================================
