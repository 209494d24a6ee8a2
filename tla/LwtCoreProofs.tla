---------------------------- MODULE LwtCoreProofs ----------------------------
(***************************************************************************)
(* lwt.ml for any number of promises, any lists, storages and programs:    *)
(* every step does one of a few things to the promises and to the calls in *)
(* progress, and user code finds after a call the storage it had before.   *)
(***************************************************************************)
EXTENDS LwtCore, Integers, FiniteSetTheorems, SequenceTheorems, TLAPS

In(q, x) == \E i \in DOMAIN q : q[i] = x
Once(q, x) == \A i, j \in DOMAIN q : q[i] = x /\ q[j] = x => i = j
Push(f, s) == <<f>> \o s

(* The members of q that are in S.                                         *)
Meets(q, S) == \E i \in DOMAIN q : q[i] \in S
Single(q, S) == \A i, j \in DOMAIN q : q[i] \in S /\ q[j] \in S => i = j
-----------------------------------------------------------------------------
(* Sequences of callbacks.                                                 *)
LEMMA EmptyList == \A x : ~In(<<>>, x) /\ Once(<<>>, x)
  BY DEF In, Once

LEMMA ConcatMeets ==
    ASSUME NEW U, NEW q \in Seq(U), NEW r \in Seq(U), NEW S
    PROVE  /\ q \o r \in Seq(U)
           /\ Meets(q \o r, S) <=> Meets(q, S) \/ Meets(r, S)
           /\ Single(q \o r, S) <=> Single(q, S) /\ Single(r, S) /\ ~(Meets(q, S) /\ Meets(r, S))
<1> DEFINE n == Len(q)
           m == Len(r)
           z == q \o r
<1>1. /\ n \in Nat /\ m \in Nat /\ DOMAIN q = 1..n /\ DOMAIN r = 1..m
      /\ z \in Seq(U) /\ DOMAIN z = 1..(n + m)
  OBVIOUS
<1>2. \A i \in 1..(n + m) : z[i] = IF i <= n THEN q[i] ELSE r[i - n]
  BY ConcatProperties
<1> HIDE DEF n, m, z
<1> DEFINE A == 1..n
           B == 1..m
           C == 1..(n + m)
           up(j) == j + n
<1>3. \A i \in A : i \in C /\ z[i] = q[i]
  BY <1>1, <1>2
<1>4. \A j \in B : up(j) \in C /\ z[up(j)] = r[j]
  BY <1>1, <1>2
<1>5. ASSUME NEW i \in C PROVE i \in A \/ \E j \in B : i = up(j)
  <2>1. i \notin A => i - n \in B /\ i = up(i - n)
    BY <1>1
  <2> QED
    BY <2>1
<1>6. \A i \in A, j \in B : i # up(j)
  BY <1>1
<1>7. \A i, j \in B : up(i) = up(j) => i = j
  BY <1>1
<1>8. DOMAIN z = C /\ DOMAIN q = A /\ DOMAIN r = B
  BY <1>1
<1> HIDE DEF A, B, C, up
<1>9. Meets(z, S) <=> Meets(q, S) \/ Meets(r, S)
  BY <1>3, <1>4, <1>5, <1>8 DEF Meets
<1>10. Single(z, S) => Single(q, S) /\ Single(r, S) /\ ~(Meets(q, S) /\ Meets(r, S))
  BY <1>3, <1>4, <1>6, <1>7, <1>8 DEF Meets, Single
<1>11. Single(q, S) /\ Single(r, S) /\ ~(Meets(q, S) /\ Meets(r, S)) => Single(z, S)
  BY <1>3, <1>4, <1>5, <1>8 DEF Meets, Single
<1> QED
  BY <1>1, <1>9, <1>10, <1>11 DEF z

LEMMA ConcatList ==
    ASSUME NEW S, NEW q \in Seq(S), NEW r \in Seq(S), NEW x
    PROVE  /\ q \o r \in Seq(S)
           /\ In(q \o r, x) <=> In(q, x) \/ In(r, x)
           /\ Once(q \o r, x) <=> Once(q, x) /\ Once(r, x) /\ ~(In(q, x) /\ In(r, x))
<1>1. \A z : (In(z, x) <=> Meets(z, {x})) /\ (Once(z, x) <=> Single(z, {x}))
  BY DEF In, Once, Meets, Single
<1> QED
  BY <1>1, ConcatMeets

LEMMA FirstOfList ==
    ASSUME NEW S, NEW q \in Seq(S), q # <<>>
    PROVE  /\ Head(q) \in S /\ Tail(q) \in Seq(S) /\ q = Push(Head(q), Tail(q))
           /\ \A x : In(q, x) <=> x = Head(q) \/ In(Tail(q), x)
           /\ \A x : Once(q, x) => Once(Tail(q), x)
           /\ Once(q, Head(q)) => ~In(Tail(q), Head(q))
<1> DEFINE h == <<Head(q)>>
           t == Tail(q)
<1>1. Head(q) \in S /\ t \in Seq(S) /\ h \in Seq(S) /\ q = h \o t
  OBVIOUS
<1>2. \A x : (In(h, x) <=> x = Head(q)) /\ Once(h, x)
  BY DEF In, Once
<1> HIDE DEF h, t
<1>3. \A x : /\ In(h \o t, x) <=> In(h, x) \/ In(t, x)
             /\ Once(h \o t, x) => Once(t, x) /\ ~(In(h, x) /\ In(t, x))
  BY <1>1, ConcatList
<1>4. \A x : /\ In(q, x) <=> x = Head(q) \/ In(t, x)
             /\ Once(q, x) => Once(t, x) /\ ~(x = Head(q) /\ In(t, x))
  BY <1>1, <1>2, <1>3
<1> QED
  BY <1>1, <1>4 DEF Push, h, t

LEMMA PushList ==
    ASSUME NEW S, NEW q \in Seq(S), NEW y \in S
    PROVE  /\ Push(y, q) \in Seq(S) /\ Push(y, q) # <<>>
           /\ Head(Push(y, q)) = y /\ Tail(Push(y, q)) = q
           /\ \A x : In(Push(y, q), x) <=> x = y \/ In(q, x)
           /\ \A x : Once(q, x) /\ (x = y => ~In(q, x)) => Once(Push(y, q), x)
<1>1. <<y>> \in Seq(S) /\ Push(y, q) \in Seq(S)
  BY DEF Push
<1>2. \A x : (In(<<y>>, x) <=> x = y) /\ Once(<<y>>, x)
  BY DEF In, Once
<1>3. \A x : /\ In(Push(y, q), x) <=> In(<<y>>, x) \/ In(q, x)
             /\ Once(Push(y, q), x) <=> Once(<<y>>, x) /\ Once(q, x) /\ ~(In(<<y>>, x) /\ In(q, x))
  BY <1>1, ConcatList DEF Push
<1>4. Push(y, q) # <<>> /\ Head(Push(y, q)) = y /\ Tail(Push(y, q)) = q
  BY DEF Push
<1> QED
  BY <1>1, <1>2, <1>3, <1>4

LEMMA PushMeets ==
    ASSUME NEW U, NEW q \in Seq(U), NEW y \in U, NEW S
    PROVE  /\ Meets(Push(y, q), S) <=> y \in S \/ Meets(q, S)
           /\ Single(Push(y, q), S) <=> Single(q, S) /\ ~(y \in S /\ Meets(q, S))
<1>1. <<y>> \in Seq(U) /\ (Meets(<<y>>, S) <=> y \in S) /\ Single(<<y>>, S)
  BY DEF Meets, Single
<1> QED
  BY <1>1, ConcatMeets DEF Push

LEMMA AppendMeets ==
    ASSUME NEW U, NEW q \in Seq(U), NEW y \in U, NEW S
    PROVE  /\ Append(q, y) \in Seq(U)
           /\ Meets(Append(q, y), S) <=> y \in S \/ Meets(q, S)
           /\ Single(Append(q, y), S) <=> Single(q, S) /\ ~(y \in S /\ Meets(q, S))
<1>1. <<y>> \in Seq(U) /\ (Meets(<<y>>, S) <=> y \in S) /\ Single(<<y>>, S)
  BY DEF Meets, Single
<1>2. Append(q, y) = q \o <<y>> /\ Append(q, y) \in Seq(U)
  BY AppendIsConcat, AppendProperties
<1> QED
  BY <1>1, <1>2, ConcatMeets DEF Meets, Single

LEMMA SuffixMeets ==
    ASSUME NEW U, NEW q \in Seq(U), NEW n \in DOMAIN q, NEW S
    PROVE  /\ SubSeq(q, n, Len(q)) \in Seq(U)
           /\ Meets(SubSeq(q, n, Len(q)), S) => Meets(q, S)
           /\ Single(q, S) => Single(SubSeq(q, n, Len(q)), S)
<1> DEFINE m == Len(q)
           r == SubSeq(q, n, m)
<1>1. m \in Nat /\ DOMAIN q = 1..m /\ n \in Nat /\ \A i \in 1..m : q[i] \in U
  OBVIOUS
<1>2. \A i \in n..m : q[i] \in U
  BY <1>1
<1>3. r \in Seq(U) /\ Len(r) = m - n + 1 /\ \A i \in 1..(m - n + 1) : r[i] = q[n + i - 1]
  BY <1>1, <1>2, SubSeqProperties
<1>4. DOMAIN r = 1..(m - n + 1)
  BY <1>3
<1> HIDE DEF r, m
<1> DEFINE at(i) == n + i - 1
<1>5. \A i \in DOMAIN r : at(i) \in DOMAIN q /\ r[i] = q[at(i)]
  BY <1>1, <1>3, <1>4
<1>6. \A i, j \in DOMAIN r : at(i) = at(j) => i = j
  BY <1>1, <1>4
<1> HIDE DEF at
<1>7. Meets(r, S) => Meets(q, S)
  BY <1>5 DEF Meets
<1>8. Single(q, S) => Single(r, S)
  BY <1>5, <1>6 DEF Single
<1> QED
  BY <1>3, <1>7, <1>8 DEF r, m

LEMMA Numbering ==
    ASSUME NEW n \in Nat, NEW K \in SUBSET (1..n)
    PROVE  /\ Cardinality(K) \in Nat
           /\ \A j \in 1..Cardinality(K) : \E i \in K : Cardinality({h \in K : h <= i}) = j
           /\ \A i \in K : Cardinality({h \in K : h <= i}) \in 1..Cardinality(K)
           /\ \A i, j \in K : Cardinality({h \in K : h <= i}) = Cardinality({h \in K : h <= j}) => i = j
<1> DEFINE below(i) == {h \in K : h <= i}
           place(i) == Cardinality(below(i))
           c == Cardinality(K)
           f == [i \in K |-> place(i)]
<1>1. IsFiniteSet(K) /\ c \in Nat
  <2>1. IsFiniteSet(1..n)
    BY FS_Interval
  <2> QED
    BY <2>1, FS_Subset, FS_CardinalityType
<1>2. \A i : below(i) \in SUBSET K /\ IsFiniteSet(below(i)) /\ place(i) \in Nat /\ place(i) <= c
  BY <1>1, FS_Subset, FS_CardinalityType
<1>3. ASSUME NEW i \in K PROVE place(i) \in 1..c
  <2>1. i \in below(i)
    OBVIOUS
  <2>2. place(i) # 0
    BY <1>2, <2>1, FS_EmptySet
  <2> QED
    BY <1>1, <1>2, <2>2
<1>4. ASSUME NEW i \in K, NEW j \in K, place(i) = place(j), i < j PROVE FALSE
  <2>0. \A h \in K : h \in Int
    OBVIOUS
  <2>a. ASSUME NEW h \in K, h <= i PROVE h <= j
    BY <1>4, <2>0, <2>a
  <2>b. j <= j /\ ~(j <= i)
    BY <1>4, <2>0
  <2>1. below(i) \in SUBSET below(j) /\ j \in below(j) /\ j \notin below(i)
    BY <2>a, <2>b
  <2>2. below(i) = below(j)
    BY <1>2, <1>4, <2>1, FS_Subset
  <2> QED
    BY <2>1, <2>2
<1>5. \A i, j \in K : place(i) = place(j) => i = j
  <2>1. \A i, j \in K : i < j \/ j < i \/ i = j
    OBVIOUS
  <2> QED
    BY <1>4, <2>1
<1>6. f \in Injection(K, 1..c)
  BY <1>3, <1>5 DEF Injection, IsInjective
<1>7. IsFiniteSet(1..c) /\ Cardinality(1..c) = c
  BY <1>1, FS_Interval
<1>8. f \in Surjection(K, 1..c)
  BY <1>6, <1>7, FS_Injection
<1>9. \A j \in 1..c : \E i \in K : place(i) = j
  BY <1>8 DEF Surjection
<1> QED
  BY <1>1, <1>3, <1>5, <1>9

LEMMA Smallest ==
    ASSUME NEW n \in Nat, NEW K \in SUBSET (1..n), K # {}
    PROVE  (CHOOSE i \in K : \A j \in K : i <= j) \in K
<1> DEFINE below(i) == {h \in K : h <= i}
<1>1. IsFiniteSet(K) /\ Cardinality(K) # 0
  <2>1. IsFiniteSet(1..n)
    BY FS_Interval
  <2>2. IsFiniteSet(K)
    BY <2>1, FS_Subset
  <2> QED
    BY <2>2, FS_EmptySet
<1>2. PICK i \in K : Cardinality(below(i)) = 1
  <2>1. Cardinality(K) \in Nat
    BY Numbering
  <2>2. 1 \in 1..Cardinality(K)
    BY <1>1, <2>1
  <2>3. \A j \in 1..Cardinality(K) : \E i \in K : Cardinality(below(i)) = j
    BY Numbering
  <2> QED
    BY <2>2, <2>3
<1>3. IsFiniteSet(below(i))
  BY <1>1, FS_Subset
<1>4. i \in below(i)
  OBVIOUS
<1>5. ASSUME NEW j \in K PROVE i <= j
  <2>1. SUFFICES ASSUME j <= i PROVE j = i
    OBVIOUS
  <2>2. j \in below(i)
    BY <2>1
  <2> HIDE DEF below
  <2>3. PICK x : below(i) = {x}
    BY <1>2, <1>3, FS_Singleton
  <2> QED
    BY <1>4, <2>2, <2>3
<1> QED
  BY <1>5

LEMMA CleanList ==
    ASSUME NEW q \in Seq(Id)
    PROVE  /\ clean_up_callback_cells(q) \in Seq(Id)
           /\ \A x : In(clean_up_callback_cells(q), x)
                         <=> In(q, x) /\ (kind[x] \in Removable => cell[x])
           /\ \A x : Once(q, x) => Once(clean_up_callback_cells(q), x)
<1> DEFINE K == {i \in DOMAIN q : kind[q[i]] \in Removable => cell[q[i]]}
           place(i) == Cardinality({h \in K : h <= i})
           c == Cardinality(K)
           at(j) == CHOOSE i \in K : place(i) = j
           r == [j \in 1..c |-> q[at(j)]]
<1>1. clean_up_callback_cells(q) = r
  BY DEF clean_up_callback_cells
<1>2. /\ K \in SUBSET (1..Len(q)) /\ Len(q) \in Nat /\ DOMAIN q = 1..Len(q)
      /\ \A i \in DOMAIN q : q[i] \in Id
  OBVIOUS
<1>3. \A i \in K : i \in DOMAIN q /\ (kind[q[i]] \in Removable => cell[q[i]])
  OBVIOUS
<1>4. \A i \in DOMAIN q : (kind[q[i]] \in Removable => cell[q[i]]) => i \in K
  OBVIOUS
<1> HIDE DEF K
<1>5. /\ c \in Nat
      /\ \A j \in 1..c : \E i \in K : place(i) = j
      /\ \A i \in K : place(i) \in 1..c
      /\ \A i, j \in K : place(i) = place(j) => i = j
  BY <1>2, Numbering
<1> HIDE DEF place, c
<1>6. \A j \in 1..c : at(j) \in K /\ place(at(j)) = j
  BY <1>5
<1> HIDE DEF at
<1>7. r \in Seq(Id)
  <2>1. \A j \in 1..c : q[at(j)] \in Id
    BY <1>2, <1>3, <1>6
  <2> QED
    BY <1>5, <2>1
<1>8. DOMAIN r = 1..c /\ \A j \in 1..c : r[j] = q[at(j)]
  OBVIOUS
<1> HIDE DEF r
<1>9. \A x : In(r, x) => In(q, x) /\ (kind[x] \in Removable => cell[x])
  BY <1>3, <1>6, <1>8 DEF In
<1>10. ASSUME NEW x, In(q, x), kind[x] \in Removable => cell[x] PROVE In(r, x)
  <2>1. PICK i \in DOMAIN q : q[i] = x
    BY <1>10 DEF In
  <2>2. i \in K
    BY <1>4, <1>10, <2>1
  <2>3. place(i) \in 1..c /\ at(place(i)) = i
    BY <1>5, <1>6, <2>2
  <2> QED
    BY <1>8, <2>1, <2>3 DEF In
<1>11. \A x : Once(q, x) => Once(r, x)
  BY <1>3, <1>6, <1>8 DEF Once
<1> QED
  BY <1>1, <1>7, <1>9, <1>10, <1>11
-----------------------------------------------------------------------------
(* The types of the model; the counts of joins are not bounded here.       *)
CoreType ==
    /\ next \in 1..(N + 1)
    /\ kind \in [Id -> Kinds]
    /\ args \in [Id -> Seq(Id)]
    /\ saved \in [Id -> Storages]
    /\ state \in [Id -> States]
    /\ rep \in [Id -> Id]
    /\ how \in [Id -> Cancelability]
    /\ regular \in [Id -> Seq(Id)]
    /\ cancels \in [Id -> Seq(Id)]
    /\ joinRes \in [Id -> Results]
    /\ storage \in Storages
    /\ depth \in Int
    /\ deferred \in Seq(Batch)
    /\ stack \in Seq(Frames)
    /\ runs \in [Id -> Nat]

(* The parts of a frame, by its kind.                                      *)
LEMMA FrameParts ==
    ASSUME NEW f \in Frames
    PROVE  /\ f.k = "user" => f.c \in Id /\ f.st \in Storages
           /\ f.k = "with" => f.old \in Storages /\ f.st \in Storages
           /\ f.k = "run" => f.cans \in Seq(Id) /\ f.regs \in Seq(Id) /\ f.res \in Results
           /\ f.k = "leave" => f.st \in Storages
           /\ f.k = "resolve" => f.c \in Id /\ f.res \in Results
           /\ f.k = "clear" => f.c \in Id /\ f.todo \in Seq(Id)
           /\ f.k = "traverse" => f.root \in Id /\ f.todo \in Seq(Id) /\ f.acc \in Seq(Batch)
           /\ f.k = "phase2" => f.todo \in Seq(Batch)
           /\ f.k = "cancels" => f.todo \in Seq(Id)
           /\ f.k = "walk" => f.todo \in Seq(Id) /\ f.n \in 0..MaxArgs
           /\ f.k \in {"user", "with", "run", "leave", "resolve", "clear", "traverse", "phase2",
                        "cancels", "walk"}
  BY DEF Frames

User(c, st) == [k |-> "user", c |-> c, st |-> st]
With(old, st) == [k |-> "with", old |-> old, st |-> st]
Run(cans, regs, res) == [k |-> "run", cans |-> cans, regs |-> regs, res |-> res]
Leave(st) == [k |-> "leave", st |-> st]
Resolve(c, res) == [k |-> "resolve", c |-> c, res |-> res]
Clear(c, todo) == [k |-> "clear", c |-> c, todo |-> todo]
Traverse(root, todo, acc) == [k |-> "traverse", root |-> root, todo |-> todo, acc |-> acc]
Phase2(todo) == [k |-> "phase2", todo |-> todo]
Cancels(todo) == [k |-> "cancels", todo |-> todo]
Walk(todo, n) == [k |-> "walk", todo |-> todo, n |-> n]

LEMMA FrameTypes ==
    /\ \A c \in Id, st \in Storages : User(c, st) \in Frames
    /\ \A old, st \in Storages : With(old, st) \in Frames
    /\ \A cans, regs \in Seq(Id), res \in Results : Run(cans, regs, res) \in Frames
    /\ \A st \in Storages : Leave(st) \in Frames
    /\ \A c \in Id, res \in Results : Resolve(c, res) \in Frames
    /\ \A c \in Id, todo \in Seq(Id) : Clear(c, todo) \in Frames
    /\ \A root \in Id, todo \in Seq(Id), acc \in Seq(Batch) : Traverse(root, todo, acc) \in Frames
    /\ \A todo \in Seq(Batch) : Phase2(todo) \in Frames
    /\ \A todo \in Seq(Id) : Cancels(todo) \in Frames
    /\ \A todo \in Seq(Id), n \in 0..MaxArgs : Walk(todo, n) \in Frames
  BY DEF Frames, User, With, Run, Leave, Resolve, Clear, Traverse, Phase2, Cancels, Walk

(* What the model writes with EXCEPT.                                      *)
LEMMA FrameUpdates ==
    ASSUME NEW f \in Frames, NEW x
    PROVE  /\ f.k = "run" => /\ [f EXCEPT !.cans = x] = Run(x, f.regs, f.res)
                             /\ [f EXCEPT !.regs = x] = Run(f.cans, x, f.res)
           /\ f.k = "clear" => [f EXCEPT !.todo = x] = Clear(f.c, x)
           /\ f.k = "traverse" => [f EXCEPT !.todo = x] = Traverse(f.root, x, f.acc)
           /\ f.k = "phase2" => [f EXCEPT !.todo = x] = Phase2(x)
           /\ f.k = "cancels" => [f EXCEPT !.todo = x] = Cancels(x)
           /\ f.k = "walk" => [f EXCEPT !.todo = x] = Walk(x, f.n)
  BY DEF Frames, Run, Clear, Traverse, Phase2, Cancels, Walk

LEMMA TraverseUpdate ==
    ASSUME NEW f \in Frames, f.k = "traverse", NEW x, NEW y
    PROVE  [f EXCEPT !.todo = x, !.acc = y] = Traverse(f.root, x, y)
<1>1. [f EXCEPT !.todo = x] = Traverse(f.root, x, f.acc)
  BY FrameUpdates
<1>2. [Traverse(f.root, x, f.acc) EXCEPT !.acc = y] = Traverse(f.root, x, y)
  BY DEF Traverse
<1>3. [[f EXCEPT !.todo = x] EXCEPT !.acc = y] = [f EXCEPT !.todo = x, !.acc = y]
  OBVIOUS
<1> QED
  BY <1>1, <1>2, <1>3

LEMMA WalkUpdate ==
    ASSUME NEW x, NEW m, NEW n
    PROVE  [Walk(x, m) EXCEPT !.n = n] = Walk(x, n) /\ Walk(x, m).n = m /\ Walk(x, m).todo = x
  BY DEF Walk
-----------------------------------------------------------------------------
(* Frames are pushed one after the other.                                  *)
LEMMA Pair ==
    ASSUME NEW S, NEW a \in S, NEW b \in S
    PROVE  <<a>> \o <<b>> = <<a, b>> /\ <<a, b>> \in Seq(S)
<1>1. <<a>> \in Seq(S) /\ <<b>> \in Seq(S)
  OBVIOUS
<1>2. <<a, b>> \in Seq(S)
  OBVIOUS
<1>3. <<a>> \o <<b>> = <<a, b>>
  <2> DEFINE u == <<a>> \o <<b>>
             v == <<a, b>>
  <2>1. u \in Seq(S) /\ Len(u) = 2
    BY <1>1, <1>2
  <2>2. u[1] = a /\ u[2] = b
    BY <1>1, <1>2
  <2>3. v \in Seq(S) /\ Len(v) = 2
    OBVIOUS
  <2>4. v[1] = a /\ v[2] = b
    OBVIOUS
  <2>5. \A i \in 1..2 : i = 1 \/ i = 2
    OBVIOUS
  <2> HIDE DEF u, v
  <2>6. \A i \in 1..Len(u) : u[i] = v[i]
    BY <2>1, <2>2, <2>4, <2>5
  <2> QED
    BY <2>1, <2>3, <2>6, SeqEqual DEF u, v
<1> QED
  BY <1>2, <1>3

LEMMA PushTwo ==
    ASSUME NEW S, NEW s \in Seq(S), NEW a \in S, NEW b \in S
    PROVE  <<a, b>> \o s = Push(a, Push(b, s))
<1> DEFINE A == <<a>>
           B == <<b>>
<1>1. A \o B = <<a, b>>
  BY Pair
<1>2. A \in Seq(S) /\ B \in Seq(S)
  OBVIOUS
<1> HIDE DEF A, B
<1>3. (A \o B) \o s = A \o (B \o s)
  BY <1>2, ConcatAssociative
<1> QED
  BY <1>1, <1>3 DEF Push, A, B

LEMMA ThenPush ==
    ASSUME NEW S, NEW s \in Seq(S), NEW q \in Seq(S), NEW a \in S
    PROVE  (q \o <<a>>) \o s = q \o Push(a, s)
<1> DEFINE A == <<a>>
<1>1. A \in Seq(S)
  OBVIOUS
<1> HIDE DEF A
<1>2. (q \o A) \o s = q \o (A \o s)
  BY <1>1, ConcatAssociative
<1> QED
  BY <1>2 DEF Push, A

LEMMA TopFrame ==
    ASSUME CoreType, NEW k, Frame(k)
    PROVE  stack # <<>> /\ Top \in Frames /\ Top.k = k /\ Tail(stack) \in Seq(Frames)
  BY DEF CoreType, Frame, Top

(* The results, callbacks and batches that frames are made of.             *)
LEMMA BatchTypes ==
    ASSUME CoreType
    PROVE  /\ \A p \in Id, r \in Results : CallbacksOf(p, r) \in Batch
           /\ \A b \in Batch : /\ b.cans \in Seq(Id) /\ b.regs \in Seq(Id) /\ b.res \in Results
                               /\ RunFrame(b) = Run(b.cans, b.regs, b.res) /\ RunFrame(b) \in Frames
<1>1. \A b \in Batch : b.cans \in Seq(Id) /\ b.regs \in Seq(Id) /\ b.res \in Results
  BY DEF Batch
<1>2. \A b \in Batch : RunFrame(b) = Run(b.cans, b.regs, b.res)
  BY DEF RunFrame, Run
<1>3. \A p \in Id, r \in Results : CallbacksOf(p, r) \in Batch
  BY DEF CallbacksOf, Batch, CoreType
<1> QED
  BY <1>1, <1>2, <1>3, FrameTypes
-----------------------------------------------------------------------------
(* What the steps do to the calls in progress.  Most of them replace the   *)
(* innermost call by a few that hold no callbacks; a cancellation that     *)
(* begins is the innermost one, a call of resolve the outermost.           *)

(* The innermost call ends in a call of resolve for c.                     *)
Answers(c) ==
    \/ Frame("user") /\ Top.c = c /\ kind[c] \in Sequential
    \/ /\ Frame("run") /\ Top.cans = <<>> /\ Top.regs # <<>> /\ c = Head(Top.regs)
       /\ \/ kind[c] \in Sequential \cup {"no_cancel"}
          \/ kind[c] = "join" /\ count[c] = 1
          \/ kind[c] \in Removable /\ cell[c]

Resolved(ps) == {i \in DOMAIN ps : StateOf(ps[i]) \in Results}

(* The list f.todo has more than f.n resolved promises, or it is what the  *)
(* walk in progress leaves to be looked at.                                *)
Onward(f) ==
    \/ Cardinality(Resolved(f.todo)) > f.n
    \/ /\ Frame("walk") /\ Top.todo # <<>> /\ f.todo = Tail(Top.todo)
       /\ \/ Pending(Head(Top.todo)) /\ f.n = Top.n
          \/ Top.n > 0 /\ f.n = Top.n - 1

Plain == {f \in Frames : \/ f.k \in {"cancels", "clear"}
                         \/ f.k = "resolve" /\ Answers(f.c)
                         \/ f.k = "walk" /\ Onward(f)
                         \/ f.k = "traverse" /\ f.acc = <<>> /\ f.todo = <<f.root>>}
Inert == {f \in Plain : f.k # "traverse"}
Silent == {f \in Plain : f.k # "resolve"}

Grown(t, s) ==
    \/ t = s
    \/ \E f \in Plain : t = Push(f, s)
    \/ \E f \in Silent, g \in Inert : t = Push(f, Push(g, s))
    \/ \E f \in Silent, g \in Silent \cap Inert, h \in Inert : t = Push(f, Push(g, Push(h, s)))

(* A frame that has no callbacks to run any more, or none at all.          *)
Finished ==
    {f \in Frames : \/ f.k \in {"user", "cancels", "walk", "clear", "resolve"}
                    \/ f.k = "phase2" /\ f.todo = <<>>
                    \/ f.k = "run" /\ f.cans = <<>> /\ f.regs = <<>>}

Calling ==
    /\ Grown(stack', stack)
    /\ stack' = stack \/ \E f \in Silent : stack' = Push(f, stack)
    /\ UNCHANGED <<storage, depth, deferred, runs>>

Returning ==
    /\ stack # <<>> /\ Top \in Finished /\ Grown(stack', Tail(stack))
    /\ UNCHANGED <<storage, depth, deferred, runs>>

(* The resolution loop is entered for the callbacks b.                     *)
Entering(b) ==
    /\ \/ stack' = Push(RunFrame(b), Push(Leave(storage), stack))
       \/ /\ Frame("resolve")
          /\ stack' = Push(RunFrame(b), Push(Leave(storage), Tail(stack)))
    /\ depth' = depth + 1
    /\ UNCHANGED <<storage, deferred, runs>>

Deferring(b) ==
    /\ depth >= 1
    /\ deferred' = Append(deferred, b)
    /\ UNCHANGED <<storage, depth, stack, runs>>

Collecting(b) ==
    /\ Frame("traverse")
    /\ \E todo \in Seq(Id) : stack' = Push(Traverse(Top.root, todo, Push(b, Top.acc)), Tail(stack))
    /\ UNCHANGED <<storage, depth, deferred, runs>>

Traversing ==
    /\ Frame("traverse")
    /\ \/ \E todo \in Seq(Id) : stack' = Push(Traverse(Top.root, todo, Top.acc), Tail(stack))
       \/ stack' = Push(Phase2(Top.acc), Tail(stack))
    /\ UNCHANGED <<storage, depth, deferred, runs>>

Continuing ==
    /\ Frame("phase2") /\ Top.todo # <<>>
    /\ stack' = Push(RunFrame(Head(Top.todo)),
                     Push(Leave(storage), Push(Phase2(Tail(Top.todo)), Tail(stack))))
    /\ depth' = depth + 1
    /\ UNCHANGED <<storage, deferred, runs>>

(* The next callback of a run frame and what remains then.                 *)
Current == IF Top.cans # <<>> THEN Head(Top.cans) ELSE Head(Top.regs)
Remaining == IF Top.cans # <<>> THEN Run(Tail(Top.cans), Top.regs, Top.res)
                                ELSE Run(<<>>, Tail(Top.regs), Top.res)
Busy == Frame("run") /\ (Top.cans # <<>> \/ Top.regs # <<>>)

(* It runs no user code: it has none, or none for this result.             *)
Passing ==
    /\ Busy
    /\ \/ kind[Current] \notin Sequential \cup Observers
       \/ Top.cans = <<>> /\ Top.res \notin Triggers(kind[Current])
    /\ Grown(stack', Push(Remaining, Tail(stack)))
    /\ storage' \in {storage, saved[Current]}
    /\ UNCHANGED <<depth, deferred, runs>>

Visiting ==
    /\ Busy
    /\ IF Top.cans = <<>> THEN Top.res \in Triggers(kind[Current])
                          ELSE kind[Current] = "on_cancel"
    /\ stack' = Push(User(Current, storage'), Push(Remaining, Tail(stack)))
    /\ storage' \in {storage, saved[Current]}
    /\ runs' = [runs EXCEPT ![Current] = @ + 1]
    /\ UNCHANGED <<depth, deferred>>

Leaving ==
    /\ Frame("leave")
    /\ ~(depth = 1 /\ deferred # <<>>)
    /\ stack' = Tail(stack)
    /\ depth' = depth - 1
    /\ storage' = Top.st
    /\ UNCHANGED <<deferred, runs>>

Draining ==
    /\ Frame("leave")
    /\ depth = 1 /\ deferred # <<>>
    /\ stack' = Push(RunFrame(Head(deferred)), stack)
    /\ deferred' = Tail(deferred)
    /\ UNCHANGED <<storage, depth, runs>>

WithEntering(v) ==
    /\ stack' = Push(With(storage, v), stack)
    /\ storage' = v
    /\ UNCHANGED <<depth, deferred, runs>>

WithReturning ==
    /\ Frame("with")
    /\ stack' = Tail(stack)
    /\ storage' = Top.old
    /\ UNCHANGED <<depth, deferred, runs>>

Abandoning ==
    /\ "abandon_wakeups" \in program
    /\ stack' = Push(Leave(0), <<>>)
    /\ UNCHANGED <<storage, depth, deferred, runs>>

Raising ==
    /\ "raise" \in program
    /\ stack' = <<>> \/ \E i \in DOMAIN stack : stack' = SubSeq(stack, i, Len(stack))
    /\ UNCHANGED <<storage, depth, deferred, runs>>

KeepHeap ==
    /\ UNCHANGED <<next, kind, args, saved, state, rep, how, regular, cancels>>
    /\ joinRes' \in [Id -> Results]

(* What a pending promise is resolved with, and its callbacks.             *)
Resolving(p, r) ==
    /\ p \in Id /\ r \in Results /\ state[p] = "Pending"
    /\ state' = [state EXCEPT ![p] = r]
    /\ how' = [how EXCEPT ![p] = NotCancelable]
    /\ regular' = [regular EXCEPT ![p] = <<>>]
    /\ cancels' = [cancels EXCEPT ![p] = <<>>]
    /\ UNCHANGED <<next, kind, args, saved, rep, joinRes>>

(* Who resolves p: user code that holds a resolver, a cancellation, or the *)
(* callback that makes p, by the call of resolve that is the innermost.    *)
Owned(p) ==
    \/ \E x \in Promises : kind[x] \in Initial /\ rep[x] = p
    \/ how[p].kind = "This"
    \/ /\ Frame("resolve") /\ p = rep[Top.c]
       /\ \E b \in Batch : stack' = Push(RunFrame(b), Push(Leave(storage), Tail(stack)))

(* The callbacks that user code attaches, each to one promise.             *)
WithUserCode == Sequential \cup Observers
Tracked == WithUserCode \cup {"no_cancel"}

(* The name next is given to a promise or callback of kind k.              *)
Creating(k, ps) ==
    /\ next \in Id /\ next' = next + 1
    /\ k \in Kinds \ {"free"} /\ ps \in Seq(Id)
    /\ kind' = [kind EXCEPT ![next] = k]
    /\ args' = [args EXCEPT ![next] = ps]
    /\ saved' = [saved EXCEPT ![next] = storage]
    /\ state' \in {state, [state EXCEPT ![next] = "Pending"]}
    /\ how' \in [Id -> Cancelability] /\ joinRes' \in [Id -> Results]
    /\ regular' = regular \/ add_callback(ps)
    /\ \/ cancels' = cancels
       \/ \E q \in Id : cancels' = [cancels EXCEPT ![q] = Push(next, cancels[q])]
       \/ cancels' = [cancels EXCEPT ![next] = <<next>>]
    /\ k \in Tracked =>
           \E p \in Promises :
               /\ ps = <<p>> /\ Pending(p)
               /\ IF k = "on_cancel"
                  THEN /\ cancels' = [cancels EXCEPT ![rep[p]] = Push(next, cancels[rep[p]])]
                       /\ UNCHANGED regular
                  ELSE add_callback(ps) /\ UNCHANGED cancels
    /\ UNCHANGED <<rep, storage, depth, deferred, stack, runs>>

(* Cells are cleared: only callbacks that are removable go.                *)
Clearing ==
    /\ \/ UNCHANGED regular
       \/ \E q \in Id : OnlyRemovable(q) /\ regular' = [regular EXCEPT ![q] = <<>>]
       \/ \E q \in Id : regular' = [regular EXCEPT ![q] = clean_up_callback_cells(regular[q])]
    /\ UNCHANGED <<next, kind, args, saved, state, rep, how, cancels, joinRes>>

(* The pending promise p becomes a proxy of the pending promise q.         *)
Merging(p, q) ==
    /\ p \in Id /\ q \in Id /\ p # q /\ state[p] = "Pending" /\ state[q] = "Pending"
    /\ \E all \in {regular[q] \o regular[p], clean_up_callback_cells(regular[q] \o regular[p])} :
           regular' = [regular EXCEPT ![q] = all, ![p] = <<>>]
    /\ cancels' = [cancels EXCEPT ![q] = cancels[q] \o cancels[p], ![p] = <<>>]
    /\ how' = [how EXCEPT ![q] = how[p], ![p] = NotCancelable]
    /\ state' = [state EXCEPT ![p] = "Proxy"]
    /\ rep' = [x \in Id |-> IF rep[x] = p THEN q ELSE rep[x]]
    /\ UNCHANGED <<next, kind, args, saved, joinRes>>

(* The function of Top.c, which makes q, has returned the promise p.       *)
Proxying(p, q) ==
    /\ Frame("user") /\ kind[Top.c] \in Sequential /\ q = rep[Top.c]
    /\ \E x \in Promises : p = rep[x]
    /\ stack' = Tail(stack)

(* How the promise is to be canceled that is created.                      *)
HowMade(k, ps) ==
    CASE k \in {"wait", "no_cancel"} -> NotCancelable
      [] k \in {"task", "protected"} -> CancelThis
      [] k \in Sequential -> PropagateTo(<<rep[ps[1]]>>)
      [] OTHER -> PropagateTo(ps)

Making ==
    LET k == kind'[next]
    IN  /\ k \in program
        /\ IF k \in Observers
           THEN UNCHANGED <<state, how>>
           ELSE /\ state' = [state EXCEPT ![next] = "Pending"]
                /\ how' = [how EXCEPT ![next] = HowMade(k, args'[next])]
                /\ k \in Initial => args'[next] = <<>>

LEMMA PlainTypes ==
    /\ \A c \in Id, res \in Results : Answers(c) => Resolve(c, res) \in Inert
    /\ \A c \in Id, todo \in Seq(Id) : Clear(c, todo) \in Inert \cap Silent
    /\ \A root \in Id : Traverse(root, <<root>>, <<>>) \in Silent
    /\ \A todo \in Seq(Id) : Cancels(todo) \in Inert \cap Silent
    /\ \A todo \in Seq(Id), n \in 0..MaxArgs : Onward(Walk(todo, n)) => Walk(todo, n) \in Inert \cap Silent
    /\ Inert \subseteq Plain /\ Silent \subseteq Plain /\ Plain \subseteq Frames
<1>1. <<>> \in Seq(Batch) /\ \A root \in Id : <<root>> \in Seq(Id)
  OBVIOUS
<1>2. /\ \A c, res : Resolve(c, res).k = "resolve" /\ Resolve(c, res).c = c
      /\ \A c, todo : Clear(c, todo).k = "clear"
      /\ \A todo : Cancels(todo).k = "cancels"
      /\ \A todo, n : Walk(todo, n).k = "walk"
  BY DEF Resolve, Clear, Traverse, Cancels, Walk
<1>3. /\ \A f \in Frames : f.k \in {"cancels", "clear"} => f \in Inert \cap Silent
      /\ \A f \in Frames : f.k = "resolve" /\ Answers(f.c) => f \in Inert
      /\ \A f \in Frames : f.k = "walk" /\ Onward(f) => f \in Inert \cap Silent
      /\ \A f \in Frames : f.k = "traverse" /\ f.acc = <<>> /\ f.todo = <<f.root>> => f \in Silent
      /\ Inert \subseteq Plain /\ Silent \subseteq Plain /\ Plain \subseteq Frames
  BY DEF Plain, Inert, Silent
<1>4. /\ \A c \in Id, res \in Results : Answers(c) => Resolve(c, res) \in Inert
      /\ \A c \in Id, todo \in Seq(Id) : Clear(c, todo) \in Inert \cap Silent
  BY <1>2, <1>3, FrameTypes
<1>5. ASSUME NEW root \in Id PROVE Traverse(root, <<root>>, <<>>) \in Silent
  <2> DEFINE f == Traverse(root, <<root>>, <<>>)
  <2>1. f \in Frames
    BY <1>1, FrameTypes
  <2>2. f.k = "traverse" /\ f.acc = <<>> /\ f.todo = <<f.root>>
    BY DEF Traverse
  <2> HIDE DEF f
  <2> QED
    BY <1>3, <2>1, <2>2 DEF f
<1>6. /\ \A todo \in Seq(Id) : Cancels(todo) \in Inert \cap Silent
      /\ \A todo \in Seq(Id), n \in 0..MaxArgs : Onward(Walk(todo, n)) => Walk(todo, n) \in Inert \cap Silent
  BY <1>2, <1>3, FrameTypes
<1> QED
  BY <1>3, <1>4, <1>5, <1>6

LEMMA GrownPushes ==
    ASSUME NEW s \in Seq(Frames)
    PROVE  /\ Grown(s, s)
           /\ \A f \in Plain : Grown(Push(f, s), s)
           /\ \A f \in Silent, g \in Inert : Grown(Push(f, Push(g, s)), s)
           /\ \A f \in Silent, g \in Silent \cap Inert, h \in Inert :
                  Grown(Push(f, Push(g, Push(h, s))), s)
           /\ \A t : Grown(t, s) => t \in Seq(Frames)
<1>1. \A f \in Frames, t \in Seq(Frames) : Push(f, t) \in Seq(Frames)
  BY PushList
<1> QED
  BY <1>1, PlainTypes DEF Grown
LEMMA ConstantTypes ==
    /\ MaxArgs \in Nat /\ 0 \in Storages /\ N \in Nat /\ UserRes \subseteq Results
    /\ <<>> \in Seq(Id) /\ <<>> \in Seq(Batch) /\ Promises \subseteq Id
  BY ConstantsAssumption DEF Results, Promises

LEMMA ListTypes ==
    ASSUME CoreType, NEW ps \in Lists
    PROVE  /\ ps \in Seq(Id) /\ DOMAIN ps = 1..MaxArgs
           /\ \A i \in DOMAIN ps : ps[i] \in Promises
           /\ Cardinality(Fulfillments(ps)) \in 0..MaxArgs
<1>1. ps \in Seq(Id) /\ DOMAIN ps = 1..MaxArgs /\ \A i \in DOMAIN ps : ps[i] \in Promises
  BY ConstantTypes DEF Lists
<1>2. IsFiniteSet(1..MaxArgs) /\ Cardinality(1..MaxArgs) = MaxArgs
  BY ConstantTypes, FS_Interval
<1>3. Fulfillments(ps) \subseteq 1..MaxArgs
  BY <1>1 DEF Fulfillments
<1>4. Cardinality(Fulfillments(ps)) \in Nat /\ Cardinality(Fulfillments(ps)) <= MaxArgs
  BY <1>2, <1>3, FS_Subset, FS_CardinalityType
<1>5. Cardinality(Fulfillments(ps)) \in 0..MaxArgs
  BY <1>4, ConstantTypes
<1> QED
  BY <1>1, <1>5

LEMMA RejectionTypes ==
    ASSUME CoreType, NEW ps \in Seq(Id)
    PROVE  FirstRejection(ps) \in Results
<1> DEFINE R == Rejections(ps)
           i == CHOOSE i \in R : \A j \in R : i <= j
<1>1. CASE R = {}
  BY <1>1 DEF FirstRejection, Results
<1>2. CASE R # {}
  <2>1. Len(ps) \in Nat /\ R \in SUBSET (1..Len(ps))
    BY DEF Rejections
  <2>2. i \in R
    BY <1>2, <2>1, Smallest
  <2>3. FirstRejection(ps) = StateOf(ps[i])
    BY <1>2 DEF FirstRejection
  <2> HIDE DEF i
  <2>4. StateOf(ps[i]) \in Results
    BY <2>2 DEF Rejections, Results
  <2> QED
    BY <2>3, <2>4
<1> QED
  BY <1>1, <1>2

-----------------------------------------------------------------------------
(* The steps of user code.                                                 *)
LEMMA PickSteps ==
    ASSUME CoreType, NEW ps \in Lists, pick_now(ps) \/ npick_now(ps)
    PROVE  KeepHeap /\ Calling
<1>1. KeepHeap /\ UNCHANGED <<storage, depth, deferred, runs>>
  BY DEF pick_now, npick_now, KeepHeap, static, heap, CoreType
<1>2. ps \in Seq(Id) /\ Cardinality(Fulfillments(ps)) \in 0..MaxArgs /\ MaxArgs \in Nat
  BY ListTypes, ConstantTypes
<1>5. stack \in Seq(Frames)
  BY DEF CoreType
<1>3. \/ stack' = Push(Cancels(ps), stack)
      \/ \E n \in 0..MaxArgs : stack' = Push(Walk(ps, n), stack) /\ Onward(Walk(ps, n))
  <2>1. \/ stack' = Push(Cancels(ps), stack)
        \/ \E n \in 1..Cardinality(Fulfillments(ps)) : stack' = Push(Walk(ps, n - 1), stack)
    BY DEF pick_now, npick_now, Call, Push, Cancels, Walk
  <2>2. \A n \in 1..Cardinality(Fulfillments(ps)) : n - 1 \in 0..MaxArgs
    BY <1>2
  <2>3. IsFiniteSet(Resolved(ps)) /\ Fulfillments(ps) \subseteq Resolved(ps)
    <3>1. IsFiniteSet(1..Len(ps)) /\ DOMAIN ps = 1..Len(ps)
      BY <1>2, FS_Interval
    <3>2. Resolved(ps) \subseteq DOMAIN ps /\ Fulfillments(ps) \subseteq Resolved(ps)
      BY DEF Resolved, Fulfillments, Results
    <3> QED
      BY <3>1, <3>2, FS_Subset
  <2>4. Cardinality(Fulfillments(ps)) <= Cardinality(Resolved(ps)) /\ Cardinality(Resolved(ps)) \in Nat
    BY <2>3, FS_Subset, FS_CardinalityType
  <2>5. \A n \in 1..Cardinality(Fulfillments(ps)) : Cardinality(Resolved(ps)) > n - 1
    BY <1>2, <2>4
  <2>6. \A n : Walk(ps, n).todo = ps /\ Walk(ps, n).n = n
    BY DEF Walk
  <2> QED
    BY <2>1, <2>2, <2>5, <2>6 DEF Onward
<1>4. Grown(stack', stack)
  BY <1>2, <1>3, <1>5, PlainTypes, GrownPushes
<1>6. \E f \in Silent : stack' = Push(f, stack)
  BY <1>2, <1>3, PlainTypes
<1> QED
  BY <1>1, <1>4, <1>6 DEF Calling

LEMMA CancelStep ==
    ASSUME CoreType, NEW p \in Id, cancel(p)
    PROVE  KeepHeap /\ Calling
<1>1. KeepHeap /\ UNCHANGED <<storage, depth, deferred, runs>>
  BY DEF cancel, KeepHeap, static, heap, CoreType
<1>2. <<p>> \in Seq(Id) /\ stack \in Seq(Frames)
  BY DEF CoreType
<1>3. stack' = Push(Traverse(p, <<p>>, <<>>), stack)
  BY DEF cancel, Call, Push, Traversal, Traverse
<1> QED
  BY <1>1, <1>2, <1>3, PlainTypes, GrownPushes DEF Calling

LEMMA SetState ==
    ASSUME CoreType, NEW p \in Id, NEW r \in Results, state[p] = "Pending", set_promise_state(p, r),
           UNCHANGED <<next, kind, args, saved, rep, joinRes>>
    PROVE  Resolving(p, r) /\ CallbacksOf(p, r) \in Batch
  BY BatchTypes DEF set_promise_state, Resolving

LEMMA Loop ==
    ASSUME CoreType, NEW b \in Batch, NEW s \in Seq(Frames)
    PROVE  /\ EnterLoop(b) \o s = Push(RunFrame(b), Push(Leave(storage), s))
           /\ EnterLoop(b) \in Seq(Frames)
           /\ RunFrame(b) \in Frames /\ Leave(storage) \in Frames
<1>1. RunFrame(b) \in Frames /\ Leave(storage) \in Frames
  BY BatchTypes, FrameTypes DEF CoreType
<1>2. EnterLoop(b) = <<RunFrame(b), Leave(storage)>>
  BY DEF EnterLoop, Leave
<1> DEFINE f == RunFrame(b)
           g == Leave(storage)
<1>3. f \in Frames /\ g \in Frames
  BY <1>1
<1> HIDE DEF f, g
<1>4. <<f, g>> \o s = Push(f, Push(g, s)) /\ <<f, g>> \in Seq(Frames)
  BY <1>3, PushTwo, Pair
<1> QED
  BY <1>1, <1>2, <1>4 DEF f, g

LEMMA WakeupStep ==
    ASSUME CoreType, NEW p \in Id, NEW r \in UserRes, wakeup(p, r) \/ wakeup_later(p, r)
    PROVE  \E q \in Id, t \in Results :
               /\ Resolving(q, t) /\ Owned(q)
               /\ Entering(CallbacksOf(q, t)) \/ Deferring(CallbacksOf(q, t))
<1> DEFINE q == rep[p]
           b == CallbacksOf(q, r)
<1>1. q \in Id /\ r \in Results /\ stack \in Seq(Frames)
  BY ConstantTypes DEF CoreType
<1>2. state[q] = "Pending" /\ set_promise_state(q, r) /\ UNCHANGED <<next, kind, args, saved, rep, joinRes>>
  BY DEF wakeup, wakeup_later, Resolvable, Pending, StateOf, static
<1>3. Resolving(q, r) /\ b \in Batch
  BY <1>1, <1>2, SetState
<1>4. EnterLoop(b) \o stack = Push(RunFrame(b), Push(Leave(storage), stack))
  BY <1>1, <1>3, Loop
<1>5. \/ /\ stack' = EnterLoop(b) \o stack /\ depth' = depth + 1
         /\ UNCHANGED <<storage, deferred, runs>>
      \/ Deferring(b)
  BY DEF wakeup, wakeup_later, Call, Deferring
<1>6. Entering(b) \/ Deferring(b)
  BY <1>4, <1>5 DEF Entering
<1>7. Owned(q)
  BY DEF wakeup, wakeup_later, Resolvable, Owned
<1> QED
  BY <1>1, <1>3, <1>6, <1>7

LEMMA WithSteps ==
    ASSUME CoreType
    PROVE  /\ \A v \in Storages : with_value(v) => KeepHeap /\ WithEntering(v)
           /\ with_value_return => KeepHeap /\ WithReturning
<1>1. ASSUME NEW v \in Storages, with_value(v) PROVE KeepHeap /\ WithEntering(v)
  BY <1>1 DEF with_value, Call, KeepHeap, static, heap, CoreType, WithEntering, Push, With
<1>2. ASSUME with_value_return PROVE KeepHeap /\ WithReturning
  <2>1. Frame("with") /\ stack' = <<>> \o Tail(stack)
    BY <1>2 DEF with_value_return, Become
  <2>2. stack' = Tail(stack)
    BY <2>1, TopFrame, ConcatEmptySeq
  <2> QED
    BY <1>2, <2>1, <2>2 DEF with_value_return, KeepHeap, static, heap, CoreType, WithReturning
<1> QED
  BY <1>1, <1>2

LEMMA CutSteps ==
    ASSUME CoreType
    PROVE  /\ abandon_wakeups => KeepHeap /\ Abandoning
           /\ hook_raises => KeepHeap /\ Raising
<1>1. ASSUME abandon_wakeups PROVE KeepHeap /\ Abandoning
  <2>1. stack' = <<Leave(0)>>
    BY <1>1 DEF abandon_wakeups, Leave
  <2>2. <<Leave(0)>> = Push(Leave(0), <<>>)
    BY DEF Push
  <2> QED
    BY <1>1, <2>1, <2>2 DEF abandon_wakeups, UserOp, KeepHeap, static, heap, CoreType, Abandoning
<1>2. ASSUME hook_raises PROVE KeepHeap /\ Raising
  <2> DEFINE K == UserFrames \ {1}
             i == CHOOSE i \in K : \A j \in K : i <= j
  <2>1. "raise" \in program /\ KeepHeap /\ UNCHANGED <<storage, depth, deferred, runs>>
    BY <1>2 DEF hook_raises, UserOp, KeepHeap, static, heap, CoreType
  <2>2. stack' = IF K = {} THEN <<>> ELSE SubSeq(stack, i, Len(stack))
    BY <1>2 DEF hook_raises
  <2>3. Len(stack) \in Nat /\ K \in SUBSET (1..Len(stack)) /\ DOMAIN stack = 1..Len(stack)
    BY DEF CoreType, UserFrames
  <2>4. K # {} => i \in DOMAIN stack
    <3>1. K # {} => i \in K
      BY <2>3, Smallest
    <3> HIDE DEF i, K
    <3> QED
      BY <2>3, <3>1
  <2> HIDE DEF i, K
  <2>5. stack' = <<>> \/ \E n \in DOMAIN stack : stack' = SubSeq(stack, n, Len(stack))
    BY <2>2, <2>4
  <2> QED
    BY <2>1, <2>5 DEF Raising
<1> QED
  BY <1>1, <1>2
LEMMA FinishedFrames ==
    ASSUME NEW f \in Frames
    PROVE  /\ f.k \in {"user", "cancels", "walk", "clear", "resolve"} => f \in Finished
           /\ f.k = "phase2" /\ f.todo = <<>> => f \in Finished
           /\ f.k = "run" /\ f.cans = <<>> /\ f.regs = <<>> => f \in Finished
  BY DEF Finished, Plain

LEMMA BecomeNothing ==
    ASSUME CoreType, NEW k, Frame(k), Become(<<>>)
    PROVE  stack' = Tail(stack) /\ Grown(stack', Tail(stack))
<1>1. Tail(stack) \in Seq(Frames)
  BY TopFrame
<1>2. stack' = <<>> \o Tail(stack)
  BY DEF Become
<1>3. stack' = Tail(stack)
  BY <1>1, <1>2, ConcatEmptySeq
<1> QED
  BY <1>1, <1>3, GrownPushes

LEMMA BecomePlain ==
    ASSUME CoreType, NEW k, Frame(k), NEW f \in Plain, Become(<<f>>)
    PROVE  Grown(stack', Tail(stack))
<1>1. Tail(stack) \in Seq(Frames)
  BY TopFrame
<1>2. stack' = Push(f, Tail(stack))
  BY DEF Become, Push
<1> QED
  BY <1>1, <1>2, GrownPushes

LEMMA BecomePlainTwo ==
    ASSUME CoreType, NEW k, Frame(k), NEW f \in Silent, NEW g \in Inert, Become(<<f, g>>)
    PROVE  Grown(stack', Tail(stack))
<1>1. Tail(stack) \in Seq(Frames) /\ f \in Frames /\ g \in Frames
  BY TopFrame, PlainTypes
<1>2. <<f, g>> \o Tail(stack) = Push(f, Push(g, Tail(stack)))
  BY <1>1, PushTwo
<1>3. stack' = Push(f, Push(g, Tail(stack)))
  BY <1>2 DEF Become
<1> QED
  BY <1>1, <1>3, GrownPushes

LEMMA ReturnSteps ==
    ASSUME CoreType
    PROVE  /\ return_unit => KeepHeap /\ Returning
           /\ \A r \in UserRes : return_result(r) => KeepHeap /\ Returning
<1>1. ASSUME return_unit PROVE KeepHeap /\ Returning
  <2>1. Frame("user") /\ Become(<<>>)
    BY <1>1 DEF return_unit, InUserOf
  <2>2. stack # <<>> /\ Top \in Finished
    BY <2>1, TopFrame, FinishedFrames
  <2>3. KeepHeap /\ UNCHANGED <<storage, depth, deferred, runs>>
    BY <1>1 DEF return_unit, KeepHeap, static, heap, CoreType
  <2>4. Grown(stack', Tail(stack))
    BY <2>1, BecomeNothing
  <2> QED
    BY <2>2, <2>3, <2>4 DEF Returning
<1>2. ASSUME NEW r \in UserRes, return_result(r) PROVE KeepHeap /\ Returning
  <2>1. Frame("user") /\ Become(<<Resolve(Top.c, r)>>)
    BY <1>2 DEF return_result, InUserOf, Resolve
  <2>2. stack # <<>> /\ Top \in Finished /\ Top.c \in Id /\ r \in Results
    BY <2>1, TopFrame, FinishedFrames, FrameParts, ConstantTypes
  <2>3. KeepHeap /\ UNCHANGED <<storage, depth, deferred, runs>>
    BY <1>2 DEF return_result, KeepHeap, static, heap, CoreType
  <2>4. Answers(Top.c)
    BY <1>2, <2>1 DEF return_result, InUserOf, Answers
  <2>5. Grown(stack', Tail(stack))
    BY <2>1, <2>2, <2>4, BecomePlain, PlainTypes
  <2> QED
    BY <2>2, <2>3, <2>5 DEF Returning
<1> QED
  BY <1>1, <1>2

LEMMA ProxyStep ==
    ASSUME CoreType, NEW x \in Id, return_promise(x)
    PROVE  Returning /\ (KeepHeap \/ \E p, q \in Id : Merging(p, q) /\ Proxying(p, q))
<1> DEFINE p == rep[x]
           q == rep[Top.c]
<1>1. Frame("user") /\ Become(<<>>) /\ UNCHANGED <<storage, depth, deferred, runs>>
  BY DEF return_promise, InUserOf
<1>2. stack # <<>> /\ Top \in Finished /\ Top.c \in Id
  BY <1>1, TopFrame, FinishedFrames, FrameParts
<1>3. Returning
  BY <1>1, <1>2, BecomeNothing DEF Returning
<1>4. CASE Pending(Top.c)
  <2>1. p \in Id /\ q \in Id
    BY <1>2 DEF CoreType
  <2>2. state[p] = "Pending" /\ state[q] = "Pending" /\ Merge(p, q) /\ UNCHANGED <<next, kind, args, saved, joinRes>>
    BY <1>4 DEF return_promise, Pending, StateOf, static
  <2>3. ~DependsOn(p, q)
    BY DEF return_promise
  <2>4. p # q
    BY <2>3 DEF DependsOn
  <2> HIDE DEF p, q
  <2>5. Merging(p, q)
    BY <2>1, <2>2, <2>4 DEF Merge, Merging
  <2>6. kind[Top.c] \in Sequential /\ x \in Promises
    BY DEF return_promise, InUserOf
  <2>7. stack' = Tail(stack)
    BY <1>1, BecomeNothing
  <2>8. Proxying(p, q)
    BY <1>1, <2>6, <2>7 DEF Proxying, p, q
  <2> QED
    BY <1>3, <2>1, <2>5, <2>8
<1>5. CASE ~Pending(Top.c)
  BY <1>3, <1>5 DEF return_promise, KeepHeap, static, CoreType
<1> QED
  BY <1>4, <1>5
-----------------------------------------------------------------------------
(* The steps of Lwt's own code that run no callbacks.                      *)
LEMMA RunDone ==
    ASSUME CoreType, run_done
    PROVE  KeepHeap /\ Returning
<1>1. Frame("run") /\ Top.cans = <<>> /\ Top.regs = <<>> /\ Become(<<>>)
  BY DEF run_done
<1>2. stack # <<>> /\ Top \in Finished
  BY <1>1, TopFrame, FinishedFrames
<1>3. KeepHeap /\ UNCHANGED <<storage, depth, deferred, runs>>
  BY DEF run_done, KeepHeap, static, heap, CoreType
<1> QED
  BY <1>1, <1>2, <1>3, BecomeNothing DEF Returning

LEMMA ClearStep ==
    ASSUME CoreType, clear_step
    PROVE  Clearing /\ Returning
<1>1. Frame("clear") /\ UNCHANGED <<storage, depth, deferred, runs>>
  BY DEF clear_step
<1>2. /\ stack # <<>> /\ Top \in Frames /\ Top.k = "clear" /\ Top \in Finished
      /\ Top.c \in Id /\ Top.todo \in Seq(Id)
  BY <1>1, TopFrame, FinishedFrames, FrameParts
<1>3. CASE Top.todo = <<>>
  <2>1. Become(<<>>)
    BY <1>3 DEF clear_step
  <2>2. Clearing
    BY <1>3 DEF clear_step, Clearing, static
  <2> QED
    BY <1>1, <1>2, <2>1, <2>2, BecomeNothing DEF Returning
<1>4. CASE Top.todo # <<>>
  <2>1. Become(<<[Top EXCEPT !.todo = Tail(Top.todo)]>>)
    BY <1>4 DEF clear_step
  <2>2. [Top EXCEPT !.todo = Tail(Top.todo)] = Clear(Top.c, Tail(Top.todo))
    BY <1>2, FrameUpdates
  <2>a. Tail(Top.todo) \in Seq(Id) /\ Head(Top.todo) \in Id
    BY <1>2, <1>4
  <2>3. Clear(Top.c, Tail(Top.todo)) \in Plain /\ Head(Top.todo) \in Id
    BY <1>2, <2>a, PlainTypes
  <2>4. Become(<<Clear(Top.c, Tail(Top.todo))>>)
    BY <2>1, <2>2
  <2>5. Returning
    BY <1>1, <1>2, <2>3, <2>4, BecomePlain DEF Returning
  <2>6. UNCHANGED <<next, kind, args, saved, state, rep, how, cancels, joinRes>>
    BY DEF clear_step, static
  <2> DEFINE q == rep[Head(Top.todo)]
  <2>7. q \in Id
    BY <2>3 DEF CoreType
  <2>8. ClearOn(q) \/ UNCHANGED regular
    BY <1>4 DEF clear_step
  <2> HIDE DEF q
  <2>9. Clearing
    BY <2>6, <2>7, <2>8 DEF ClearOn, Clearing
  <2> QED
    BY <2>5, <2>9
<1> QED
  BY <1>3, <1>4

LEMMA ResolveStep ==
    ASSUME CoreType, resolve_step
    PROVE  \/ KeepHeap /\ Calling
           \/ \E q \in Id, t \in Results : Resolving(q, t) /\ Owned(q) /\ Entering(CallbacksOf(q, t))
<1> DEFINE q == rep[Top.c]
           r == Top.res
           b == CallbacksOf(q, r)
<1>1. Frame("resolve")
  BY DEF resolve_step
<1>2. stack # <<>> /\ Tail(stack) \in Seq(Frames) /\ stack \in Seq(Frames) /\ Top.c \in Id /\ r \in Results
  BY <1>1, TopFrame, FrameParts DEF CoreType
<1>3. q \in Id
  BY <1>2 DEF CoreType
<1>4. CASE state[q] = "Pending"
  <2>1. set_promise_state(q, r) /\ UNCHANGED <<next, kind, args, saved, rep, joinRes>>
    BY <1>4 DEF resolve_step, static
  <2>2. Resolving(q, r) /\ b \in Batch
    BY <1>2, <1>3, <1>4, <2>1, SetState
  <2>3. /\ stack' = EnterLoop(b) \o Tail(stack) /\ depth' = depth + 1
        /\ UNCHANGED <<storage, deferred, runs>>
    BY <1>4 DEF resolve_step, Become
  <2>4. EnterLoop(b) \o Tail(stack) = Push(RunFrame(b), Push(Leave(storage), Tail(stack)))
    BY <1>2, <2>2, Loop
  <2>5. Entering(b)
    BY <1>1, <2>3, <2>4 DEF Entering
  <2>6. Owned(q)
    BY <1>1, <2>2, <2>3, <2>4 DEF Owned
  <2> QED
    BY <1>2, <1>3, <2>2, <2>5, <2>6
<1>5. CASE state[q] # "Pending"
  <2>1. KeepHeap /\ UNCHANGED <<storage, depth, deferred, runs, stack>>
    BY <1>5 DEF resolve_step, KeepHeap, static, CoreType
  <2> QED
    BY <1>2, <2>1, GrownPushes DEF Calling
<1> QED
  BY <1>4, <1>5

LEMMA LeaveStep ==
    ASSUME CoreType, leave_step
    PROVE  KeepHeap /\ (Leaving \/ Draining)
<1>1. Frame("leave") /\ KeepHeap /\ UNCHANGED runs
  BY DEF leave_step, KeepHeap, static, heap, CoreType
<1>2. CASE depth = 1 /\ deferred # <<>>
  BY <1>1, <1>2 DEF leave_step, Call, Push, Draining
<1>3. CASE ~(depth = 1 /\ deferred # <<>>)
  <2>1. Become(<<>>) /\ depth' = depth - 1 /\ storage' = Top.st /\ UNCHANGED deferred
    BY <1>3 DEF leave_step
  <2>2. stack' = Tail(stack)
    BY <1>1, <2>1, BecomeNothing
  <2> QED
    BY <1>1, <1>3, <2>1, <2>2 DEF Leaving
<1> QED
  BY <1>2, <1>3

LEMMA TraverseStep ==
    ASSUME CoreType, traverse_step
    PROVE  \/ KeepHeap /\ Traversing
           \/ \E q \in Id, t \in Results : Resolving(q, t) /\ Owned(q) /\ Collecting(CallbacksOf(q, t))
<1> DEFINE q == rep[Head(Top.todo)]
           b == CallbacksOf(q, "Canceled")
           rest == Tail(Top.todo)
<1>1. Frame("traverse") /\ Top.todo # <<>> /\ UNCHANGED <<storage, depth, deferred, runs>>
  BY DEF traverse_step
<1>2. /\ Top \in Frames /\ Top.k = "traverse" /\ Top.root \in Id /\ Top.todo \in Seq(Id)
      /\ Top.acc \in Seq(Batch) /\ Tail(stack) \in Seq(Frames)
  BY <1>1, TopFrame, FrameParts
<1>3. rest \in Seq(Id) /\ Head(Top.todo) \in Id
  BY <1>1, <1>2
<1>4. q \in Id
  BY <1>3 DEF CoreType
<1>5. CASE state[q] = "Pending" /\ how[q].kind = "This"
  <2>1. set_promise_state(q, "Canceled") /\ UNCHANGED <<next, kind, args, saved, rep, joinRes>>
    BY <1>5 DEF traverse_step, static
  <2>2. "Canceled" \in Results
    BY DEF Results
  <2>3. Resolving(q, "Canceled")
    BY <1>4, <1>5, <2>1, <2>2, SetState
  <2>4. stack' = <<[Top EXCEPT !.todo = rest, !.acc = <<b>> \o Top.acc]>> \o Tail(stack)
    BY <1>5 DEF traverse_step, Become
  <2>5. [Top EXCEPT !.todo = rest, !.acc = <<b>> \o Top.acc] = Traverse(Top.root, rest, Push(b, Top.acc))
    BY <1>2, TraverseUpdate DEF Push
  <2>6. stack' = Push(Traverse(Top.root, rest, Push(b, Top.acc)), Tail(stack))
    BY <2>4, <2>5 DEF Push
  <2>7. Collecting(b)
    BY <1>1, <1>3, <2>6 DEF Collecting
  <2>8. Owned(q)
    BY <1>5 DEF Owned
  <2> QED
    BY <1>4, <2>2, <2>3, <2>7, <2>8
<1>6. CASE ~(state[q] = "Pending" /\ how[q].kind = "This")
  <2>1. KeepHeap
    BY <1>6 DEF traverse_step, KeepHeap, static, CoreType
  <2>2. how[q].to \in Seq(Id) /\ how[q].to \o rest \in Seq(Id)
    BY <1>3, <1>4 DEF CoreType, Cancelability
  <2>3. PICK todo \in {rest, how[q].to \o rest} : Become(<<[Top EXCEPT !.todo = todo]>>)
    BY <1>6 DEF traverse_step
  <2>4. [Top EXCEPT !.todo = todo] = Traverse(Top.root, todo, Top.acc) /\ todo \in Seq(Id)
    BY <1>2, <1>3, <2>2, FrameUpdates
  <2>5. stack' = Push(Traverse(Top.root, todo, Top.acc), Tail(stack))
    BY <2>3, <2>4 DEF Become, Push
  <2> QED
    BY <1>1, <2>1, <2>4, <2>5 DEF Traversing
<1> QED
  BY <1>5, <1>6

LEMMA PhaseSteps ==
    ASSUME CoreType
    PROVE  /\ traverse_done => KeepHeap /\ Traversing
           /\ phase2_step => KeepHeap /\ (Returning \/ Continuing)
<1>1. ASSUME traverse_done PROVE KeepHeap /\ Traversing
  <2>1. KeepHeap /\ Frame("traverse") /\ UNCHANGED <<storage, depth, deferred, runs>>
    BY <1>1 DEF traverse_done, KeepHeap, static, heap, CoreType
  <2>2. stack' = Push(Phase2(Top.acc), Tail(stack))
    BY <1>1 DEF traverse_done, Become, Push, Phase2
  <2> QED
    BY <2>1, <2>2 DEF Traversing
<1>2. ASSUME phase2_step PROVE KeepHeap /\ (Returning \/ Continuing)
  <2>1. KeepHeap /\ Frame("phase2") /\ UNCHANGED <<storage, deferred, runs>>
    BY <1>2 DEF phase2_step, KeepHeap, static, heap, CoreType
  <2>2. stack # <<>> /\ Top \in Frames /\ Top.k = "phase2" /\ Top.todo \in Seq(Batch) /\ Tail(stack) \in Seq(Frames)
    BY <2>1, TopFrame, FrameParts
  <2>3. CASE Top.todo = <<>>
    <3>1. Become(<<>>) /\ UNCHANGED depth
      BY <1>2, <2>3 DEF phase2_step
    <3>2. Top \in Finished
      BY <2>2, <2>3, FinishedFrames
    <3> QED
      BY <2>1, <2>2, <3>1, <3>2, BecomeNothing DEF Returning
  <2>4. CASE Top.todo # <<>>
    <3> DEFINE b == Head(Top.todo)
               f == Phase2(Tail(Top.todo))
               s == Tail(stack)
    <3>1. b \in Batch /\ Tail(Top.todo) \in Seq(Batch) /\ s \in Seq(Frames)
      BY <2>2, <2>4
    <3>2. f \in Frames
      BY <3>1, FrameTypes
    <3>3. [Top EXCEPT !.todo = Tail(Top.todo)] = f
      BY <2>2, FrameUpdates
    <3>4. stack' = (EnterLoop(b) \o <<f>>) \o s /\ depth' = depth + 1
      BY <1>2, <2>4, <3>3 DEF phase2_step, Become
    <3> HIDE DEF b, f, s
    <3>5. EnterLoop(b) \in Seq(Frames)
      BY <3>1, Loop
    <3>6. (EnterLoop(b) \o <<f>>) \o s = EnterLoop(b) \o Push(f, s)
      BY <3>1, <3>2, <3>5, ThenPush
    <3>7. Push(f, s) \in Seq(Frames)
      BY <3>1, <3>2, PushList
    <3>8. EnterLoop(b) \o Push(f, s) = Push(RunFrame(b), Push(Leave(storage), Push(f, s)))
      BY <3>1, <3>7, Loop
    <3>9. stack' = Push(RunFrame(b), Push(Leave(storage), Push(f, s)))
      BY <3>4, <3>6, <3>8
    <3> QED
      BY <2>1, <2>4, <3>4, <3>9 DEF Continuing, b, f, s
  <2> QED
    BY <2>3, <2>4
<1> QED
  BY <1>1, <1>2

LEMMA CancelsStep ==
    ASSUME CoreType, cancels_step
    PROVE  KeepHeap /\ Returning
<1>1. KeepHeap /\ Frame("cancels") /\ UNCHANGED <<storage, depth, deferred, runs>>
  BY DEF cancels_step, KeepHeap, static, heap, CoreType
<1>2. /\ stack # <<>> /\ Top \in Frames /\ Top.k = "cancels" /\ Top \in Finished
      /\ Top.todo \in Seq(Id)
  BY <1>1, TopFrame, FinishedFrames, FrameParts
<1>3. CASE Top.todo = <<>>
  <2>1. Become(<<>>)
    BY <1>3 DEF cancels_step
  <2> QED
    BY <1>1, <1>2, <2>1, BecomeNothing DEF Returning
<1>4. CASE Top.todo # <<>>
  <2> DEFINE x == Head(Top.todo)
             f == Traverse(x, <<x>>, <<>>)
             g == Cancels(Tail(Top.todo))
  <2>1. x \in Id /\ <<x>> \in Seq(Id) /\ Tail(Top.todo) \in Seq(Id)
    BY <1>2, <1>4
  <2>2. f \in Silent /\ g \in Inert
    BY <2>1, PlainTypes
  <2>3. [Top EXCEPT !.todo = Tail(Top.todo)] = g /\ Traversal(x) = f
    BY <1>2, FrameUpdates DEF Traversal, Traverse
  <2>4. Become(<<f, g>>)
    BY <1>4, <2>3 DEF cancels_step
  <2> HIDE DEF f, g
  <2> QED
    BY <1>1, <1>2, <2>2, <2>4, BecomePlainTwo DEF Returning
<1> QED
  BY <1>3, <1>4

LEMMA WalkStep ==
    ASSUME CoreType, walk_step
    PROVE  KeepHeap /\ (Calling \/ Returning)
<1>1. KeepHeap /\ Frame("walk") /\ UNCHANGED <<storage, depth, deferred, runs>>
  BY DEF walk_step, KeepHeap, static, heap, CoreType
<1>2. /\ stack # <<>> /\ Top \in Frames /\ Top.k = "walk" /\ Top \in Finished
      /\ Top.todo \in Seq(Id) /\ Top.n \in 0..MaxArgs
  BY <1>1, TopFrame, FinishedFrames, FrameParts
<1>3. CASE Top.todo = <<>>
  <2>1. stack' = stack /\ stack \in Seq(Frames)
    BY <1>3 DEF walk_step, CoreType
  <2> QED
    BY <1>1, <2>1, GrownPushes DEF Calling
<1>4. CASE Top.todo # <<>>
  <2> DEFINE x == Head(Top.todo)
             f == Traverse(x, <<x>>, <<>>)
             todo == Tail(Top.todo)
             g == Walk(todo, Top.n)
  <2>1. x \in Id /\ <<x>> \in Seq(Id) /\ todo \in Seq(Id)
    BY <1>2, <1>4
  <2>2. f \in Silent /\ Cancels(todo) \in Plain
    BY <1>2, <2>1, PlainTypes
  <2>a. \A n : Walk(todo, n).todo = todo /\ Walk(todo, n).n = n
    BY DEF Walk
  <2>b. Pending(x) => g \in Inert
    <3>1. Pending(x) => Onward(g)
      BY <1>1, <1>4, <2>a DEF Onward
    <3> QED
      BY <1>2, <2>1, <3>1, PlainTypes
  <2>3. Top.n > 0 => Top.n - 1 \in 0..MaxArgs
    BY <1>2, ConstantTypes
  <2>4. Top.n > 0 => Walk(todo, Top.n - 1) \in Plain
    <3>1. Top.n > 0 => Onward(Walk(todo, Top.n - 1))
      BY <1>1, <1>4, <2>a DEF Onward
    <3> QED
      BY <2>1, <2>3, <3>1, PlainTypes
  <2>5. [Top EXCEPT !.todo = todo] = g /\ Traversal(x) = f
    BY <1>2, FrameUpdates DEF Traversal, Traverse
  <2>6. [g EXCEPT !.n = g.n - 1] = Walk(todo, Top.n - 1) /\ g.todo = todo
    BY WalkUpdate
  <2>7. \/ Pending(x) /\ Become(<<f, g>>)
        \/ Become(<<Cancels(todo)>>)
        \/ Top.n > 0 /\ Become(<<Walk(todo, Top.n - 1)>>)
    <3> HIDE DEF f, g
    <3> QED
      BY <1>4, <2>5, <2>6 DEF walk_step, Cancels
  <2> HIDE DEF f, g
  <2>8. Grown(stack', Tail(stack))
    BY <1>1, <2>2, <2>b, <2>4, <2>7, BecomePlain, BecomePlainTwo
  <2> QED
    BY <1>1, <1>2, <2>8 DEF Returning
<1> QED
  BY <1>3, <1>4
-----------------------------------------------------------------------------
(* The steps of run_callbacks.                                             *)
LEMMA RunParts ==
    ASSUME CoreType, Frame("run")
    PROVE  /\ stack # <<>> /\ Top \in Frames /\ Top.k = "run" /\ Tail(stack) \in Seq(Frames)
           /\ Top.regs \in Seq(Id) /\ Top.cans \in Seq(Id) /\ Top.res \in Results
           /\ Top.cans # <<>> => /\ Current = Head(Top.cans) /\ Current \in Id /\ Remaining \in Frames
                                 /\ Remaining = [Top EXCEPT !.cans = Tail(Top.cans)]
           /\ Top.cans = <<>> /\ Top.regs # <<>> =>
                 /\ Current = NextCallback /\ Current \in Id /\ Remaining \in Frames
                 /\ Remaining = RestOfRun
<1>1. /\ stack # <<>> /\ Top \in Frames /\ Top.k = "run" /\ Tail(stack) \in Seq(Frames)
      /\ Top.regs \in Seq(Id) /\ Top.cans \in Seq(Id) /\ Top.res \in Results
  BY TopFrame, FrameParts
<1>2. ASSUME Top.cans # <<>>
      PROVE  /\ Current = Head(Top.cans) /\ Current \in Id /\ Remaining \in Frames
             /\ Remaining = [Top EXCEPT !.cans = Tail(Top.cans)]
  <2>1. Current = Head(Top.cans) /\ Remaining = Run(Tail(Top.cans), Top.regs, Top.res)
    BY <1>2 DEF Current, Remaining
  <2>2. Head(Top.cans) \in Id /\ Tail(Top.cans) \in Seq(Id)
    BY <1>1, <1>2
  <2>3. Run(Tail(Top.cans), Top.regs, Top.res) \in Frames
    BY <1>1, <2>2, FrameTypes
  <2>4. [Top EXCEPT !.cans = Tail(Top.cans)] = Run(Tail(Top.cans), Top.regs, Top.res)
    BY <1>1, FrameUpdates
  <2> QED
    BY <2>1, <2>2, <2>3, <2>4
<1>3. ASSUME Top.cans = <<>>, Top.regs # <<>>
      PROVE  /\ Current = NextCallback /\ Current \in Id /\ Remaining \in Frames
             /\ Remaining = RestOfRun
  <2>1. Current = NextCallback /\ Remaining = Run(Top.cans, Tail(Top.regs), Top.res)
    BY <1>3 DEF Current, Remaining, NextCallback
  <2>2. Head(Top.regs) \in Id /\ Tail(Top.regs) \in Seq(Id)
    BY <1>1, <1>3
  <2>3. Run(Top.cans, Tail(Top.regs), Top.res) \in Frames
    BY <1>1, <2>2, FrameTypes
  <2>4. RestOfRun = Run(Top.cans, Tail(Top.regs), Top.res)
    BY <1>1, FrameUpdates DEF RestOfRun
  <2> QED
    BY <2>1, <2>2, <2>3, <2>4 DEF NextCallback
<1> QED
  BY <1>1, <1>2, <1>3

LEMMA RunUserStep ==
    ASSUME CoreType, Frame("run"), NEW c \in Id, NEW v \in Storages, NEW rest \in Frames, RunUser(c, v, rest)
    PROVE  /\ storage' = v
           /\ stack' = Push(User(c, storage'), Push(rest, Tail(stack)))
           /\ runs' = [runs EXCEPT ![c] = @ + 1]
<1>1. storage' = v /\ stack' = <<User(c, v), rest>> \o Tail(stack) /\ runs' = [runs EXCEPT ![c] = @ + 1]
  BY DEF RunUser, User
<1>2. Tail(stack) \in Seq(Frames) /\ User(c, v) \in Frames
  BY TopFrame, FrameTypes
<1>3. <<User(c, v), rest>> \o Tail(stack) = Push(User(c, v), Push(rest, Tail(stack)))
  BY <1>2, PushTwo
<1> QED
  BY <1>1, <1>3

LEMMA UserSteps ==
    ASSUME CoreType, run_user_callback
    PROVE  KeepHeap /\ Visiting
<1> DEFINE v == IF kind[Current] = "async" THEN storage ELSE saved[Current]
<1>1. Frame("run") /\ Top.cans = <<>> /\ Top.regs # <<>> /\ Top.res \in Triggers(kind[NextCallback])
  BY DEF run_user_callback, Running
<1>2. Current = NextCallback /\ Current \in Id /\ Remaining \in Frames /\ Remaining = RestOfRun
  BY <1>1, RunParts
<1>3. v \in Storages /\ v \in {storage, saved[Current]}
  BY <1>2 DEF CoreType
<1>4. RunUser(Current, v, Remaining)
  BY <1>2 DEF run_user_callback
<1> HIDE DEF v
<1>5. /\ storage' = v
      /\ stack' = Push(User(Current, storage'), Push(Remaining, Tail(stack)))
      /\ runs' = [runs EXCEPT ![Current] = @ + 1]
  BY <1>1, <1>2, <1>3, <1>4, RunUserStep
<1>6. KeepHeap /\ UNCHANGED <<depth, deferred>>
  BY DEF run_user_callback, KeepHeap, static, heap, CoreType
<1> QED
  BY <1>1, <1>2, <1>3, <1>5, <1>6 DEF Visiting, Busy

LEMMA CancelCallbacks ==
    ASSUME CoreType, run_cancel_callback
    PROVE  KeepHeap /\ (Visiting \/ Passing)
<1>1. Frame("run") /\ Top.cans # <<>>
  BY DEF run_cancel_callback
<1>2. /\ Current = Head(Top.cans) /\ Current \in Id /\ Remaining \in Frames
      /\ Remaining = [Top EXCEPT !.cans = Tail(Top.cans)] /\ Tail(stack) \in Seq(Frames)
  BY <1>1, RunParts
<1>3. KeepHeap /\ UNCHANGED <<depth, deferred>>
  BY DEF run_cancel_callback, KeepHeap, static, CoreType
<1>4. saved[Current] \in Storages /\ args[Current] \in Seq(Id)
  BY <1>2 DEF CoreType
<1>5. CASE kind[Current] = "on_cancel" /\ RunUser(Current, saved[Current], Remaining)
  <2>1. /\ storage' = saved[Current]
        /\ stack' = Push(User(Current, storage'), Push(Remaining, Tail(stack)))
        /\ runs' = [runs EXCEPT ![Current] = @ + 1]
    BY <1>1, <1>2, <1>4, <1>5, RunUserStep
  <2> QED
    BY <1>1, <1>3, <1>5, <2>1 DEF Visiting, Busy
<1>6. CASE /\ kind[Current] = "protected" /\ storage' = saved[Current] /\ UNCHANGED runs
           /\ Become(<<Clear(Current, args[Current]), Remaining>>)
  <2> DEFINE f == Clear(Current, args[Current])
  <2>1. f \in Plain /\ f \in Frames
    BY <1>2, <1>4, PlainTypes
  <2>2. <<f, Remaining>> \o Tail(stack) = Push(f, Push(Remaining, Tail(stack)))
    <3> HIDE DEF f
    <3> QED
      BY <1>2, <2>1, PushTwo
  <2>3. stack' = Push(f, Push(Remaining, Tail(stack)))
    BY <1>6, <2>2 DEF Become
  <2>4. Push(Remaining, Tail(stack)) \in Seq(Frames)
    BY <1>2, PushList
  <2> HIDE DEF f
  <2>5. Grown(stack', Push(Remaining, Tail(stack)))
    BY <2>1, <2>3, <2>4, GrownPushes
  <2>6. kind[Current] \notin Sequential \cup Observers
    BY <1>6 DEF Sequential, Observers
  <2> QED
    BY <1>1, <1>3, <1>6, <2>5, <2>6 DEF Passing, Busy
<1> QED
  BY <1>2, <1>5, <1>6 DEF run_cancel_callback, Clear

LEMMA PassSteps ==
    ASSUME CoreType, run_passing_callback \/ run_join_callback
    PROVE  KeepHeap /\ Passing
<1>1. Frame("run") /\ Top.cans = <<>> /\ Top.regs # <<>>
  BY DEF run_passing_callback, run_join_callback, Running
<1>2. /\ Current = NextCallback /\ Current \in Id /\ Remaining \in Frames /\ Remaining = RestOfRun
      /\ Tail(stack) \in Seq(Frames) /\ Top.res \in Results
  BY <1>1, RunParts
<1> DEFINE res == IF joinRes[Current] = "Fulfilled" THEN Top.res ELSE joinRes[Current]
<1>3. res \in Results /\ joinRes \in [Id -> Results]
  BY <1>2 DEF CoreType
<1>4. KeepHeap /\ UNCHANGED <<storage, depth, deferred, runs>>
  <2>1. CASE run_passing_callback
    BY <1>3, <2>1 DEF run_passing_callback, KeepHeap, static, heap
  <2>2. CASE run_join_callback
    <3>1. joinRes' = [joinRes EXCEPT ![Current] = res]
      BY <1>2, <2>2 DEF run_join_callback
    <3>2. joinRes' \in [Id -> Results]
      BY <1>2, <1>3, <3>1
    <3> QED
      BY <2>2, <3>2 DEF run_join_callback, KeepHeap, static
  <2> QED
    BY <2>1, <2>2
<1>5. \/ kind[Current] \notin Sequential \cup Observers
      \/ Top.res \notin Triggers(kind[Current])
  BY <1>2 DEF run_passing_callback, run_join_callback, Running, Sequential, Observers
<1>6. PICK r \in Results :
          \/ Become(<<>> \o <<Remaining>>)
          \/ Become(<<Resolve(Current, r)>> \o <<Remaining>>) /\ Answers(Current)
  <2>1. CASE run_passing_callback
    <3>1. kind[Current] \in Observers \/ Answers(Current)
      BY <1>1, <1>2, <2>1 DEF run_passing_callback, Running, Answers, NextCallback
    <3> QED
      BY <1>2, <2>1, <3>1 DEF run_passing_callback, Resolve
  <2>2. CASE run_join_callback
    <3>1. count[Current] = 1 => Answers(Current)
      BY <1>1, <1>2, <2>2 DEF run_join_callback, Running, Answers, NextCallback
    <3> QED
      BY <1>2, <1>3, <2>2, <3>1 DEF run_join_callback, Resolve
  <2> QED
    BY <2>1, <2>2
<1> DEFINE f == Resolve(Current, r)
           s == Push(Remaining, Tail(stack))
<1>7. f \in Frames /\ s \in Seq(Frames) /\ (Answers(Current) => f \in Plain)
  BY <1>2, FrameTypes, PlainTypes, PushList
<1>8. (<<f>> \o <<Remaining>>) \o Tail(stack) = <<f>> \o s
  <2>1. <<f>> \in Seq(Frames)
    BY <1>7
  <2> DEFINE F == <<f>>
  <2> HIDE DEF F
  <2>2. F \in Seq(Frames)
    BY <2>1 DEF F
  <2>3. (F \o <<Remaining>>) \o Tail(stack) = F \o s
    BY <1>2, <2>2, ThenPush
  <2> QED
    BY <2>3 DEF F
<1>9. (<<>> \o <<Remaining>>) \o Tail(stack) = s
  <2>1. <<>> \o <<Remaining>> = <<Remaining>>
    BY <1>2, ConcatEmptySeq
  <2> QED
    BY <2>1 DEF Push
<1>10. stack' = s \/ (stack' = Push(f, s) /\ Answers(Current))
  <2>1. stack' = s \/ stack' = Push(f, s)
    BY <1>6, <1>8, <1>9 DEF Become, Push
  <2>2. stack' = s \/ Answers(Current)
    BY <1>6, <1>9 DEF Become
  <2> QED
    BY <2>1, <2>2
<1> HIDE DEF f, s
<1>11. Grown(stack', s)
  BY <1>7, <1>10, GrownPushes
<1> QED
  BY <1>1, <1>4, <1>5, <1>11 DEF Passing, Busy, s

LEMMA RemovableStep ==
    ASSUME CoreType, run_removable_callback
    PROVE  KeepHeap /\ Passing
<1>1. Frame("run") /\ Top.cans = <<>> /\ Top.regs # <<>>
  BY DEF run_removable_callback, Running
<1>2. /\ Current = NextCallback /\ Current \in Id /\ Remaining \in Frames /\ Remaining = RestOfRun
      /\ Tail(stack) \in Seq(Frames) /\ Top.res \in Results
  BY <1>1, RunParts
<1>3. args[Current] \in Seq(Id)
  BY <1>2 DEF CoreType
<1> DEFINE res == IF kind[Current] \in {"nchoose", "npick"} THEN FirstRejection(args[Current]) ELSE Top.res
<1>4. res \in Results
  BY <1>2, <1>3, RejectionTypes
<1>5. KeepHeap /\ UNCHANGED <<storage, depth, deferred, runs>>
  BY DEF run_removable_callback, KeepHeap, static, CoreType
<1>6. kind[Current] \notin Sequential \cup Observers
  BY <1>2 DEF run_removable_callback, Running, Removable, Sequential, Observers
<1> DEFINE f == Clear(Current, args[Current])
           g == Cancels(args[Current])
           h == Resolve(Current, res)
           s == Push(Remaining, Tail(stack))
           F == <<f>>
           X == IF kind[Current] \in {"pick", "npick"} THEN <<g>> ELSE <<>>
<1>7. f \in Silent /\ g \in Silent \cap Inert /\ (Answers(Current) => h \in Inert) /\ h \in Frames /\ s \in Seq(Frames)
  BY <1>2, <1>3, <1>4, FrameTypes, PlainTypes, PushList
<1>8. Become(<<Remaining>>) \/ (Become((F \o X) \o <<h, Remaining>>) /\ Answers(Current))
  <2>1. cell[Current] => Answers(Current)
    BY <1>1, <1>2 DEF run_removable_callback, Running, Answers, NextCallback
  <2> DEFINE A == (F \o X) \o <<h, Remaining>>
             B == <<Remaining>>
  <2>2. Become(IF cell[Current] THEN A ELSE B)
    BY <1>2 DEF run_removable_callback, Clear, Cancels, Resolve
  <2> HIDE DEF A, B
  <2>3. (cell[Current] /\ Become(A)) \/ Become(B)
    BY <2>2 DEF Become
  <2> QED
    BY <2>1, <2>3 DEF A, B
<1> HIDE DEF f, g, h, s
<1>9. f \in Frames /\ g \in Frames /\ h \in Frames
  BY <1>7, PlainTypes
<1>10. F \in Seq(Frames) /\ X \in Seq(Frames) /\ (X = <<g>> \/ X = <<>>)
  BY <1>9
<1>11. Push(h, s) \in Seq(Frames)
  BY <1>7, <1>9, PushList
<1>12. X \o Push(h, s) = Push(h, s) \/ X \o Push(h, s) = Push(g, Push(h, s))
  BY <1>10, <1>11, ConcatEmptySeq DEF Push
<1>13. F \o Push(h, s) = Push(f, Push(h, s)) /\ F \o Push(g, Push(h, s)) = Push(f, Push(g, Push(h, s)))
  BY DEF Push
<1> HIDE DEF F, X, res
<1>14. F \o X \in Seq(Frames)
  BY <1>10, ConcatProperties
<1> DEFINE Z == F \o X
<1>15. (Z \o <<h, Remaining>>) \o Tail(stack) = Z \o Push(h, s)
  <2> HIDE DEF Z
  <2>1. Z \in Seq(Frames)
    BY <1>14 DEF Z
  <2> DEFINE a == Remaining
             t == Tail(stack)
  <2>2. a \in Frames /\ t \in Seq(Frames)
    BY <1>2
  <2> HIDE DEF a, t
  <2>a. h \in Frames
    BY <1>9
  <2> DEFINE W == <<h, a>>
  <2>b. W \o t = Push(h, Push(a, t))
    BY <2>2, <2>a, PushTwo
  <2>c. W \in Seq(Frames)
    BY <2>2, <2>a, Pair
  <2>3. (Z \o W) \o t = Z \o (W \o t)
    <3> HIDE DEF W
    <3> QED
      BY <2>1, <2>2, <2>c, ConcatAssociative
  <2> QED
    BY <2>3, <2>b DEF s, a, t
<1>16. Z \o Push(h, s) = F \o (X \o Push(h, s))
  BY <1>10, <1>11, ConcatAssociative
<1>17. \/ stack' = s
       \/ Answers(Current) /\ (stack' = Push(f, Push(h, s)) \/ stack' = Push(f, Push(g, Push(h, s))))
  <2>1. CASE Become(<<Remaining>>)
    BY <2>1 DEF Become, s, Push
  <2>2. CASE Become(Z \o <<h, Remaining>>) /\ Answers(Current)
    BY <1>12, <1>13, <1>15, <1>16, <2>2 DEF Become
  <2> QED
    BY <1>8, <2>1, <2>2
<1>18. Grown(stack', s)
  BY <1>7, <1>17, GrownPushes
<1> QED
  BY <1>1, <1>5, <1>6, <1>18 DEF Passing, Busy, s
-----------------------------------------------------------------------------
(* The operations that create promises and attach callbacks.               *)
LEMMA CancelabilityTypes ==
    /\ NotCancelable \in Cancelability /\ CancelThis \in Cancelability
    /\ \A ps \in Seq(Id) : PropagateTo(ps) \in Cancelability
<1>1. <<>> \in Seq(Id)
  OBVIOUS
<1> QED
  BY <1>1 DEF NotCancelable, CancelThis, PropagateTo, Cancelability

LEMMA NewTypes ==
    ASSUME CoreType, NEW k, NEW ps, New(k, ps)
    PROVE  /\ next \in Id /\ next' = next + 1
           /\ \A h \in Cancelability : new_pending(h) =>
                  /\ state' = [state EXCEPT ![next] = "Pending"] /\ how' \in [Id -> Cancelability]
<1>1. next \in 1..(N + 1) /\ next <= N /\ next' = next + 1
  BY DEF New, CoreType
<1>2. next \in Id
  BY <1>1, ConstantTypes DEF Id
<1>3. how \in [Id -> Cancelability]
  BY DEF CoreType
<1> QED
  BY <1>1, <1>2, <1>3 DEF new_pending

LEMMA CreateSimple ==
    ASSUME CoreType
    PROVE  /\ \A k \in Initial, h \in {NotCancelable, CancelThis} :
                  new_initial(k, h) => Creating(k, <<>>)
           /\ \A k \in Sequential, p \in Id : sequential(k, p) => Creating(k, <<p>>)
           /\ \A k \in Observers \ {"on_cancel"}, p \in Id : observe(k, p) => Creating(k, <<p>>)
<1>0. <<>> \in Seq(Id) /\ \A p \in Id : <<p>> \in Seq(Id)
  OBVIOUS
<1>1. ASSUME NEW k \in Initial, NEW h \in {NotCancelable, CancelThis}, new_initial(k, h)
      PROVE  Creating(k, <<>>)
  <2>1. New(k, <<>>) /\ new_pending(h) /\ h \in Cancelability
    BY <1>1, CancelabilityTypes DEF new_initial
  <2>2. k \in Kinds \ {"free"} /\ k \notin Tracked
    BY <1>1 DEF Initial, Kinds, Tracked, WithUserCode, Sequential, Observers
  <2> QED
    BY <1>0, <1>1, <2>1, <2>2, NewTypes DEF new_initial, New, Creating, loop, CoreType
<1>2. ASSUME NEW k \in Sequential, NEW p \in Id, sequential(k, p)
      PROVE  Creating(k, <<p>>)
  <2>0. rep[p] \in Id
    BY DEF CoreType
  <2>1. New(k, <<p>>) /\ new_pending(PropagateTo(<<rep[p]>>)) /\ PropagateTo(<<rep[p]>>) \in Cancelability
    BY <1>0, <1>2, <2>0, CancelabilityTypes DEF sequential
  <2>2. k \in Kinds \ {"free"} /\ k # "on_cancel"
    BY <1>2 DEF Kinds, Sequential
  <2>3. p \in Promises /\ Pending(p) /\ add_callback(<<p>>) /\ UNCHANGED <<rep, cancels, joinRes, storage, depth, deferred, stack, runs>>
    BY <1>2 DEF sequential, loop
  <2>4. joinRes' \in [Id -> Results]
    BY <2>3 DEF CoreType
  <2>5. /\ next \in Id /\ next' = next + 1
        /\ state' = [state EXCEPT ![next] = "Pending"] /\ how' \in [Id -> Cancelability]
    BY <2>1, NewTypes
  <2>6. kind' = [kind EXCEPT ![next] = k] /\ args' = [args EXCEPT ![next] = <<p>>] /\ saved' = [saved EXCEPT ![next] = storage]
    BY <2>1 DEF New
  <2> QED
    BY <1>0, <2>2, <2>3, <2>4, <2>5, <2>6 DEF Creating
<1>3. ASSUME NEW k \in Observers \ {"on_cancel"}, NEW p \in Id, observe(k, p)
      PROVE  Creating(k, <<p>>)
  <2>1. New(k, <<p>>)
    BY <1>3 DEF observe
  <2>2. k \in Kinds \ {"free"} /\ k # "on_cancel"
    BY <1>3 DEF Kinds, Observers
  <2>3. p \in Promises /\ Pending(p) /\ add_callback(<<p>>) /\ UNCHANGED <<state, rep, how, cancels, joinRes, storage, depth, deferred, stack, runs>>
    BY <1>3 DEF observe, loop
  <2>4. joinRes' \in [Id -> Results] /\ how' \in [Id -> Cancelability]
    BY <2>3 DEF CoreType
  <2>5. next \in Id /\ next' = next + 1
    BY <2>1, NewTypes
  <2>6. kind' = [kind EXCEPT ![next] = k] /\ args' = [args EXCEPT ![next] = <<p>>] /\ saved' = [saved EXCEPT ![next] = storage]
    BY <2>1 DEF New
  <2> QED
    BY <1>0, <2>2, <2>3, <2>4, <2>5, <2>6 DEF Creating
<1> QED
  BY <1>1, <1>2, <1>3

LEMMA CreateCancel ==
    ASSUME CoreType, NEW p \in Id
    PROVE  /\ on_cancel(p) => Creating("on_cancel", <<p>>)
           /\ no_cancel(p) => Creating("no_cancel", <<p>>)
           /\ protected(p) => Creating("protected", <<p>>)
<1>0. <<p>> \in Seq(Id) /\ rep[p] \in Id
  BY DEF CoreType
<1>1. ASSUME on_cancel(p) PROVE Creating("on_cancel", <<p>>)
  <2>1. New("on_cancel", <<p>>)
    BY <1>1 DEF on_cancel
  <2>2. "on_cancel" \in Kinds \ {"free"}
    BY DEF Kinds, Observers
  <2>3. /\ p \in Promises /\ Pending(p) /\ cancels' = [cancels EXCEPT ![rep[p]] = Push(next, cancels[rep[p]])]
        /\ UNCHANGED <<state, rep, how, regular, joinRes, storage, depth, deferred, stack, runs>>
    BY <1>1 DEF on_cancel, loop, Push
  <2>4. joinRes' \in [Id -> Results] /\ how' \in [Id -> Cancelability]
    BY <2>3 DEF CoreType
  <2>5. next \in Id /\ next' = next + 1
    BY <2>1, NewTypes
  <2>6. kind' = [kind EXCEPT ![next] = "on_cancel"] /\ args' = [args EXCEPT ![next] = <<p>>] /\ saved' = [saved EXCEPT ![next] = storage]
    BY <2>1 DEF New
  <2> QED
    BY <1>0, <2>2, <2>3, <2>4, <2>5, <2>6 DEF Creating
<1>2. ASSUME no_cancel(p) PROVE Creating("no_cancel", <<p>>)
  <2>1. New("no_cancel", <<p>>) /\ new_pending(NotCancelable)
    BY <1>2 DEF no_cancel
  <2>2. "no_cancel" \in Kinds \ {"free"}
    BY DEF Kinds
  <2>3. p \in Promises /\ Pending(p) /\ add_callback(<<p>>) /\ UNCHANGED <<rep, cancels, joinRes, storage, depth, deferred, stack, runs>>
    BY <1>2 DEF no_cancel, loop
  <2>4. joinRes' \in [Id -> Results]
    BY <2>3 DEF CoreType
  <2>5. /\ next \in Id /\ next' = next + 1
        /\ state' = [state EXCEPT ![next] = "Pending"] /\ how' \in [Id -> Cancelability]
    BY <2>1, NewTypes, CancelabilityTypes
  <2>6. kind' = [kind EXCEPT ![next] = "no_cancel"] /\ args' = [args EXCEPT ![next] = <<p>>] /\ saved' = [saved EXCEPT ![next] = storage]
    BY <2>1 DEF New
  <2> QED
    BY <1>0, <2>2, <2>3, <2>4, <2>5, <2>6 DEF Creating
<1>3. ASSUME protected(p) PROVE Creating("protected", <<p>>)
  <2>1. New("protected", <<p>>) /\ new_pending(CancelThis)
    BY <1>3 DEF protected
  <2>2. "protected" \in Kinds \ {"free"} /\ "protected" \notin Tracked
    BY DEF Kinds, Removable, Tracked, WithUserCode, Sequential, Observers
  <2>3. /\ add_callback(<<p>>) /\ cancels' = [cancels EXCEPT ![next] = <<next>>]
        /\ UNCHANGED <<rep, joinRes, storage, depth, deferred, stack, runs>>
    BY <1>3 DEF protected, loop
  <2>4. joinRes' \in [Id -> Results]
    BY <2>3 DEF CoreType
  <2>5. /\ next \in Id /\ next' = next + 1
        /\ state' = [state EXCEPT ![next] = "Pending"] /\ how' \in [Id -> Cancelability]
    BY <2>1, NewTypes, CancelabilityTypes
  <2>6. kind' = [kind EXCEPT ![next] = "protected"] /\ args' = [args EXCEPT ![next] = <<p>>] /\ saved' = [saved EXCEPT ![next] = storage]
    BY <2>1 DEF New
  <2> QED
    BY <1>0, <2>2, <2>3, <2>4, <2>5, <2>6 DEF Creating
<1> QED
  BY <1>1, <1>2, <1>3

LEMMA CreateFromLists ==
    ASSUME CoreType, NEW ps \in Lists
    PROVE  /\ join(ps) => Creating("join", ps)
           /\ \A k \in {"choose", "pick", "nchoose", "npick"} : race(k, ps) => Creating(k, ps)
<1>0. ps \in Seq(Id)
  BY ListTypes
<1>1. ASSUME join(ps) PROVE Creating("join", ps)
  <2>1. New("join", ps) /\ new_pending(PropagateTo(ps)) /\ PropagateTo(ps) \in Cancelability
    BY <1>0, <1>1, CancelabilityTypes DEF join
  <2>2. "join" \in Kinds \ {"free"} /\ "join" \notin Tracked
    BY DEF Kinds, Tracked, WithUserCode, Sequential, Observers
  <2>3. /\ add_callback(ps) /\ joinRes' = [joinRes EXCEPT ![next] = FirstRejection(ps)]
        /\ UNCHANGED <<rep, cancels, storage, depth, deferred, stack, runs>>
    BY <1>1 DEF join, loop
  <2>4. joinRes' \in [Id -> Results]
    BY <1>0, <2>3, RejectionTypes DEF CoreType
  <2>5. /\ next \in Id /\ next' = next + 1
        /\ state' = [state EXCEPT ![next] = "Pending"] /\ how' \in [Id -> Cancelability]
    BY <2>1, NewTypes
  <2>6. kind' = [kind EXCEPT ![next] = "join"] /\ args' = [args EXCEPT ![next] = ps] /\ saved' = [saved EXCEPT ![next] = storage]
    BY <2>1 DEF New
  <2> QED
    BY <1>0, <2>2, <2>3, <2>4, <2>5, <2>6 DEF Creating
<1>2. ASSUME NEW k \in {"choose", "pick", "nchoose", "npick"}, race(k, ps) PROVE Creating(k, ps)
  <2>1. New(k, ps) /\ new_pending(PropagateTo(ps)) /\ PropagateTo(ps) \in Cancelability
    BY <1>0, <1>2, CancelabilityTypes DEF race
  <2>2. k \in Kinds \ {"free"} /\ k \notin Tracked
    BY <1>2 DEF Kinds, Removable, Tracked, WithUserCode, Sequential, Observers
  <2>3. add_callback(ps) /\ UNCHANGED <<rep, cancels, joinRes, storage, depth, deferred, stack, runs>>
    BY <1>2 DEF race, loop
  <2>4. joinRes' \in [Id -> Results]
    BY <2>3 DEF CoreType
  <2>5. /\ next \in Id /\ next' = next + 1
        /\ state' = [state EXCEPT ![next] = "Pending"] /\ how' \in [Id -> Cancelability]
    BY <2>1, NewTypes
  <2>6. kind' = [kind EXCEPT ![next] = k] /\ args' = [args EXCEPT ![next] = ps] /\ saved' = [saved EXCEPT ![next] = storage]
    BY <2>1 DEF New
  <2> QED
    BY <1>0, <2>2, <2>3, <2>4, <2>5, <2>6 DEF Creating
<1> QED
  BY <1>1, <1>2

LEMMA CreateSteps ==
    ASSUME CoreType, Create
    PROVE  \E k \in Kinds, ps \in Seq(Id) : Creating(k, ps)
<1>0. \A k, ps : Creating(k, ps) => k \in Kinds /\ ps \in Seq(Id)
  BY DEF Creating
<1>1. ASSUME wait \/ task PROVE \E k, ps : Creating(k, ps)
  BY <1>1, CreateSimple DEF wait, task, Initial
<1>2. ASSUME NEW p \in Id, bind(p) \/ map(p) \/ catch(p) \/ try_bind(p) PROVE \E k, ps : Creating(k, ps)
  <2>1. \E k \in Sequential : sequential(k, p)
    BY <1>2 DEF bind, map, catch, try_bind, Sequential
  <2> QED
    BY <2>1, CreateSimple
<1>3. ASSUME NEW p \in Id, on_success(p) \/ on_failure(p) \/ on_any(p) \/ async(p) PROVE \E k, ps : Creating(k, ps)
  <2>1. \E k \in Observers \ {"on_cancel"} : observe(k, p)
    BY <1>3 DEF on_success, on_failure, on_any, async, Observers
  <2> QED
    BY <2>1, CreateSimple
<1>4. ASSUME NEW p \in Id, on_cancel(p) \/ no_cancel(p) \/ protected(p) PROVE \E k, ps : Creating(k, ps)
  BY <1>4, CreateCancel
<1>5. ASSUME NEW ps \in Lists, join(ps) PROVE \E k, qs : Creating(k, qs)
  BY <1>5, CreateFromLists
<1>6. ASSUME NEW ps \in Lists, choose(ps) \/ pick(ps) \/ nchoose(ps) \/ npick(ps) PROVE \E k, qs : Creating(k, qs)
  <2>1. \E k \in {"choose", "pick", "nchoose", "npick"} : race(k, ps)
    BY <1>6 DEF choose, pick, nchoose, npick
  <2> QED
    BY <2>1, CreateFromLists
<1>7. \E k, ps : Creating(k, ps)
  BY <1>1, <1>2, <1>3, <1>4, <1>5, <1>6 DEF Create
<1> QED
  BY <1>0, <1>7

LEMMA CreateMakes ==
    ASSUME CoreType, Create
    PROVE  Making
<1>0. ASSUME NEW k, NEW ps, New(k, ps) PROVE kind'[next] = k /\ args'[next] = ps
  <2>1. next \in Id /\ kind \in [Id -> Kinds] /\ args \in [Id -> Seq(Id)]
    BY <1>0, NewTypes DEF CoreType
  <2> QED
    BY <1>0, <2>1 DEF New
<1>a. ASSUME NEW k \in program, NEW ps, New(k, ps), k \notin Observers, new_pending(HowMade(k, ps)),
             k \in Initial => ps = <<>>
      PROVE  Making
  BY <1>0, <1>a DEF Making, new_pending
<1>b. ASSUME NEW k \in Observers, k \in program, NEW ps, New(k, ps), UNCHANGED <<state, how>> PROVE Making
  BY <1>0, <1>b DEF Making
<1>1. ASSUME wait \/ task PROVE Making
  <2>1. \/ New("wait", <<>>) /\ new_pending(NotCancelable) /\ "wait" \in program
        \/ New("task", <<>>) /\ new_pending(CancelThis) /\ "task" \in program
    BY <1>1 DEF wait, task, new_initial, UserOp
  <2>2. "wait" \notin Observers /\ "task" \notin Observers
    BY DEF Observers
  <2>3. HowMade("wait", <<>>) = NotCancelable /\ HowMade("task", <<>>) = CancelThis
    BY DEF HowMade, Sequential
  <2> QED
    BY <1>a, <2>1, <2>2, <2>3
<1>2. ASSUME NEW p \in Id, bind(p) \/ map(p) \/ catch(p) \/ try_bind(p) PROVE Making
  <2>1. PICK k \in Sequential : New(k, <<p>>) /\ new_pending(PropagateTo(<<rep[p]>>)) /\ k \in program
    BY <1>2 DEF bind, map, catch, try_bind, sequential, Sequential, UserOp
  <2>2. k \notin Observers /\ k \notin Initial /\ k \notin {"wait", "no_cancel", "task", "protected"}
    BY DEF Sequential, Observers, Initial
  <2>3. HowMade(k, <<p>>) = PropagateTo(<<rep[p]>>)
    BY <2>2 DEF HowMade
  <2> QED
    BY <1>a, <2>1, <2>2, <2>3
<1>3. ASSUME NEW p \in Id, on_success(p) \/ on_failure(p) \/ on_any(p) \/ async(p) \/ on_cancel(p) PROVE Making
  <2>1. \E k \in Observers : New(k, <<p>>) /\ UNCHANGED <<state, how>> /\ k \in program
    BY <1>3 DEF on_success, on_failure, on_any, async, observe, on_cancel, Observers, UserOp
  <2> QED
    BY <1>b, <2>1
<1>4. ASSUME NEW p \in Id, no_cancel(p) \/ protected(p) PROVE Making
  <2>1. \/ New("no_cancel", <<p>>) /\ new_pending(NotCancelable) /\ "no_cancel" \in program
        \/ New("protected", <<p>>) /\ new_pending(CancelThis) /\ "protected" \in program
    BY <1>4 DEF no_cancel, protected, UserOp
  <2>2. "no_cancel" \notin Observers \cup Initial /\ "protected" \notin Observers \cup Initial
    BY DEF Observers, Initial
  <2>3. HowMade("no_cancel", <<p>>) = NotCancelable /\ HowMade("protected", <<p>>) = CancelThis
    BY DEF HowMade, Sequential
  <2> QED
    BY <1>a, <2>1, <2>2, <2>3
<1>5. ASSUME NEW ps \in Lists, join(ps) \/ choose(ps) \/ pick(ps) \/ nchoose(ps) \/ npick(ps) PROVE Making
  <2>1. PICK k \in {"join", "choose", "pick", "nchoose", "npick"} :
            New(k, ps) /\ new_pending(PropagateTo(ps)) /\ k \in program
    BY <1>5 DEF join, choose, pick, nchoose, npick, race, UserOp
  <2>2. /\ k \notin Observers /\ k \notin Initial /\ k \notin Sequential
        /\ k \notin {"wait", "no_cancel", "task", "protected"}
    BY DEF Sequential, Observers, Initial
  <2>3. HowMade(k, ps) = PropagateTo(ps)
    BY <2>2 DEF HowMade
  <2> QED
    BY <1>a, <2>1, <2>2, <2>3
<1> QED
  BY <1>1, <1>2, <1>3, <1>4, <1>5 DEF Create
-----------------------------------------------------------------------------
(* The types are preserved, by the effects of the steps.                   *)
HeapType ==
    /\ next \in 1..(N + 1)
    /\ kind \in [Id -> Kinds]
    /\ args \in [Id -> Seq(Id)]
    /\ saved \in [Id -> Storages]
    /\ state \in [Id -> States]
    /\ rep \in [Id -> Id]
    /\ how \in [Id -> Cancelability]
    /\ regular \in [Id -> Seq(Id)]
    /\ cancels \in [Id -> Seq(Id)]
    /\ joinRes \in [Id -> Results]

LoopType ==
    /\ storage \in Storages
    /\ depth \in Int
    /\ deferred \in Seq(Batch)
    /\ stack \in Seq(Frames)
    /\ runs \in [Id -> Nat]

LEMMA CoreTypeParts == CoreType <=> HeapType /\ LoopType
  BY DEF CoreType, HeapType, LoopType

LEMMA Updates ==
    ASSUME NEW S, NEW f \in [Id -> S], NEW p \in Id, NEW v \in S
    PROVE  /\ [f EXCEPT ![p] = v] \in [Id -> S]
           /\ [f EXCEPT ![p] = v][p] = v
           /\ \A x \in Id : x # p => [f EXCEPT ![p] = v][x] = f[x]
  OBVIOUS

LEMMA TwoUpdates ==
    ASSUME NEW S, NEW f \in [Id -> S], NEW p \in Id, NEW q \in Id, p # q, NEW v \in S, NEW w \in S
    PROVE  /\ [f EXCEPT ![q] = v, ![p] = w] \in [Id -> S]
           /\ [f EXCEPT ![q] = v, ![p] = w][q] = v
           /\ [f EXCEPT ![q] = v, ![p] = w][p] = w
           /\ \A x \in Id : x # p /\ x # q => [f EXCEPT ![q] = v, ![p] = w][x] = f[x]
  OBVIOUS

LEMMA HeapTypes ==
    ASSUME CoreType,
           \/ KeepHeap \/ Clearing
           \/ \E k \in Kinds, ps \in Seq(Id) : Creating(k, ps)
           \/ \E p \in Id, r \in Results : Resolving(p, r)
           \/ \E p, q \in Id : Merging(p, q)
    PROVE  HeapType'
<1>0. HeapType /\ <<>> \in Seq(Id) /\ storage \in Storages
  BY CoreTypeParts DEF LoopType
<1>1. CASE KeepHeap
  BY <1>0, <1>1 DEF HeapType, KeepHeap
<1>2. CASE Clearing
  <2>1. \A q \in Id : clean_up_callback_cells(regular[q]) \in Seq(Id)
    BY <1>0, CleanList DEF HeapType
  <2>0. regular \in [Id -> Seq(Id)]
    BY <1>0 DEF HeapType
  <2>2. regular' \in [Id -> Seq(Id)]
    <3>1. CASE UNCHANGED regular
      BY <2>0, <3>1
    <3>2. ASSUME NEW q \in Id, regular' = [regular EXCEPT ![q] = <<>>] PROVE regular' \in [Id -> Seq(Id)]
      BY <1>0, <2>0, <3>2, Updates
    <3>3. ASSUME NEW q \in Id, regular' = [regular EXCEPT ![q] = clean_up_callback_cells(regular[q])]
          PROVE  regular' \in [Id -> Seq(Id)]
      <4>1. PICK z \in Seq(Id) : z = clean_up_callback_cells(regular[q])
        BY <2>1
      <4> QED
        BY <2>0, <3>3, <4>1, Updates
    <3> QED
      BY <1>2, <3>1, <3>2, <3>3 DEF Clearing
  <2> QED
    BY <1>0, <1>2, <2>2 DEF HeapType, Clearing
<1>3. ASSUME NEW k \in Kinds, NEW ps \in Seq(Id), Creating(k, ps) PROVE HeapType'
  <2>1. next \in Id /\ next' = next + 1 /\ <<next>> \in Seq(Id)
    BY <1>3 DEF Creating
  <2>2. next' \in 1..(N + 1)
    BY <2>1, ConstantTypes DEF Id
  <2>3. kind' \in [Id -> Kinds] /\ args' \in [Id -> Seq(Id)] /\ saved' \in [Id -> Storages]
    BY <1>0, <1>3, <2>1 DEF Creating, HeapType
  <2>4. state' \in [Id -> States] /\ rep' \in [Id -> Id] /\ how' \in [Id -> Cancelability] /\ joinRes' \in [Id -> Results]
    BY <1>0, <1>3, <2>1 DEF Creating, HeapType, States
  <2>5. regular' \in [Id -> Seq(Id)]
    <3>1. CASE regular' = regular
      BY <1>0, <3>1 DEF HeapType
    <3>2. CASE add_callback(ps)
      <4>1. ASSUME NEW q \in Id PROVE [i \in 1..Occurrences(ps, q) |-> next] \o regular[q] \in Seq(Id)
        <5>1. Occurrences(ps, q) \in Nat
          <6>1. IsFiniteSet(1..Len(ps))
            BY FS_Interval
          <6>2. {i \in DOMAIN ps : rep[ps[i]] = q /\ state[q] = "Pending"} \subseteq 1..Len(ps)
            OBVIOUS
          <6> QED
            BY <6>1, <6>2, FS_Subset, FS_CardinalityType DEF Occurrences
        <5>2. [i \in 1..Occurrences(ps, q) |-> next] \in Seq(Id)
          BY <2>1, <5>1
        <5> QED
          BY <1>0, <5>2 DEF HeapType
      <4> QED
        BY <3>2, <4>1 DEF add_callback
    <3> QED
      BY <1>3, <3>1, <3>2 DEF Creating
  <2>6. cancels' \in [Id -> Seq(Id)]
    <3>1. \A q \in Id : Push(next, cancels[q]) \in Seq(Id)
      BY <1>0, <2>1, PushList DEF HeapType
    <3>0. cancels \in [Id -> Seq(Id)]
      BY <1>0 DEF HeapType
    <3>2. ASSUME NEW q \in Id, cancels' = [cancels EXCEPT ![q] = Push(next, cancels[q])]
          PROVE  cancels' \in [Id -> Seq(Id)]
      BY <3>0, <3>1, <3>2, Updates
    <3>3. ASSUME cancels' = [cancels EXCEPT ![next] = <<next>>]
          PROVE  cancels' \in [Id -> Seq(Id)]
      BY <2>1, <3>0, <3>3, Updates
    <3> QED
      BY <1>3, <3>0, <3>2, <3>3 DEF Creating
  <2> QED
    BY <2>2, <2>3, <2>4, <2>5, <2>6 DEF HeapType
<1>4. ASSUME NEW p \in Id, NEW r \in Results, Resolving(p, r) PROVE HeapType'
  BY <1>0, <1>4, CancelabilityTypes DEF HeapType, Resolving, States
<1>5. ASSUME NEW p \in Id, NEW q \in Id, Merging(p, q) PROVE HeapType'
  <2>1. regular[q] \o regular[p] \in Seq(Id) /\ cancels[q] \o cancels[p] \in Seq(Id)
    BY <1>0 DEF HeapType
  <2>0. regular \in [Id -> Seq(Id)] /\ cancels \in [Id -> Seq(Id)] /\ p # q
    BY <1>0, <1>5 DEF HeapType, Merging
  <2>2. \A z \in Seq(Id) : clean_up_callback_cells(z) \in Seq(Id)
    BY CleanList
  <2>a. PICK all \in {regular[q] \o regular[p], clean_up_callback_cells(regular[q] \o regular[p])} :
            regular' = [regular EXCEPT ![q] = all, ![p] = <<>>]
    BY <1>5 DEF Merging
  <2>b. all \in Seq(Id)
    BY <2>1, <2>2
  <2>c. regular' \in [Id -> Seq(Id)]
    BY <1>0, <2>0, <2>a, <2>b, TwoUpdates
  <2>d. PICK z \in Seq(Id) : cancels' = [cancels EXCEPT ![q] = z, ![p] = <<>>]
    BY <1>5, <2>1 DEF Merging
  <2>3. regular' \in [Id -> Seq(Id)] /\ cancels' \in [Id -> Seq(Id)]
    BY <1>0, <2>0, <2>c, <2>d, TwoUpdates
  <2>e. how' \in [Id -> Cancelability]
    <3>1. how \in [Id -> Cancelability] /\ how[p] \in Cancelability
      BY <1>0 DEF HeapType
    <3>2. how' = [how EXCEPT ![q] = how[p], ![p] = NotCancelable]
      BY <1>5 DEF Merging
    <3> QED
      BY <2>0, <3>1, <3>2, CancelabilityTypes, TwoUpdates
  <2>f. state' \in [Id -> States]
    BY <1>0, <1>5 DEF HeapType, Merging, States
  <2>g. rep' \in [Id -> Id]
    BY <1>0, <1>5 DEF HeapType, Merging
  <2>4. how' \in [Id -> Cancelability] /\ state' \in [Id -> States] /\ rep' \in [Id -> Id]
    BY <2>e, <2>f, <2>g
  <2> QED
    BY <1>0, <1>5, <2>3, <2>4 DEF HeapType, Merging
<1> QED
  BY <1>1, <1>2, <1>3, <1>4, <1>5
(* What the steps do to the resolution loop: QuietSteps change no promise, *)
(* or only remove callbacks or make a proxy.                               *)
QuietSteps ==
    \/ Calling \/ Returning \/ Traversing \/ Continuing \/ Passing \/ Visiting
    \/ Leaving \/ Draining \/ WithReturning \/ Abandoning \/ Raising
    \/ \E v \in Storages : "with_value" \in program /\ WithEntering(v)

BatchSteps(b) == Entering(b) \/ Deferring(b) \/ Collecting(b)

LoopSteps == QuietSteps \/ \E b \in Batch : BatchSteps(b)

LEMMA BusyParts ==
    ASSUME CoreType, Busy
    PROVE  /\ Current \in Id /\ Remaining \in Frames /\ Tail(stack) \in Seq(Frames)
           /\ saved[Current] \in Storages
           /\ Top \in Frames /\ Top.k = "run" /\ Top.res \in Results
           /\ Remaining.k = "run" /\ Remaining.res = Top.res
<1>1. Current \in Id /\ Remaining \in Frames /\ Tail(stack) \in Seq(Frames) /\ Top \in Frames /\ Top.k = "run" /\ Top.res \in Results
  BY RunParts DEF Busy
<1>2. Remaining.k = "run" /\ Remaining.res = Top.res
  BY DEF Remaining, Run
<1> QED
  BY <1>1, <1>2 DEF CoreType

LEMMA LoopTypes ==
    ASSUME CoreType, LoopSteps
    PROVE  LoopType'
<1>0. /\ storage \in Storages /\ depth \in Int /\ deferred \in Seq(Batch) /\ stack \in Seq(Frames)
      /\ runs \in [Id -> Nat]
  BY DEF CoreType
<1>a. \A f \in Frames, s \in Seq(Frames) : Push(f, s) \in Seq(Frames)
  BY PushList
<1>b. \A k : Frame(k) => Tail(stack) \in Seq(Frames) /\ Top \in Frames /\ Top.k = k /\ stack # <<>>
  BY TopFrame
<1>c. Leave(storage) \in Frames /\ \A b \in Batch : RunFrame(b) \in Frames
  BY <1>0, FrameTypes, BatchTypes
<1>1. CASE Calling
  BY <1>0, <1>1, GrownPushes DEF Calling, LoopType
<1>2. CASE Returning
  <2>1. Tail(stack) \in Seq(Frames)
    BY <1>0, <1>2 DEF Returning
  <2> QED
    BY <1>0, <1>2, <2>1, GrownPushes DEF Returning, LoopType
<1>3. CASE Traversing
  <2>1. Top.root \in Id /\ Top.acc \in Seq(Batch) /\ Tail(stack) \in Seq(Frames)
    BY <1>3, <1>b, FrameParts DEF Traversing
  <2>2. Phase2(Top.acc) \in Frames /\ \A todo \in Seq(Id) : Traverse(Top.root, todo, Top.acc) \in Frames
    BY <2>1, FrameTypes
  <2>3. stack' \in Seq(Frames)
    BY <1>3, <1>a, <2>1, <2>2 DEF Traversing
  <2> QED
    BY <1>0, <1>3, <2>3 DEF Traversing, LoopType
<1>4. CASE Continuing
  <2>1. Top.todo \in Seq(Batch) /\ Tail(stack) \in Seq(Frames)
    BY <1>4, <1>b, FrameParts DEF Continuing
  <2>2. Head(Top.todo) \in Batch /\ Tail(Top.todo) \in Seq(Batch)
    BY <1>4, <2>1 DEF Continuing
  <2>3. Phase2(Tail(Top.todo)) \in Frames
    BY <2>2, FrameTypes
  <2>4. stack' \in Seq(Frames)
    BY <1>4, <1>a, <1>c, <2>1, <2>2, <2>3 DEF Continuing
  <2> QED
    BY <1>0, <1>4, <2>4 DEF Continuing, LoopType
<1>5. CASE Passing
  <2>1. Remaining \in Frames /\ Tail(stack) \in Seq(Frames) /\ saved[Current] \in Storages
    BY <1>5, BusyParts DEF Passing
  <2>2. Push(Remaining, Tail(stack)) \in Seq(Frames)
    BY <1>a, <2>1
  <2>3. stack' \in Seq(Frames)
    BY <1>5, <2>2, GrownPushes DEF Passing
  <2> QED
    BY <1>0, <1>5, <2>1, <2>3 DEF Passing, LoopType
<1>6. CASE Visiting
  <2>1. Remaining \in Frames /\ Tail(stack) \in Seq(Frames) /\ saved[Current] \in Storages /\ Current \in Id
    BY <1>6, BusyParts DEF Visiting
  <2>2. storage' \in Storages
    BY <1>0, <1>6, <2>1 DEF Visiting
  <2>3. User(Current, storage') \in Frames
    BY <2>1, <2>2, FrameTypes
  <2>4. stack' \in Seq(Frames)
    BY <1>6, <1>a, <2>1, <2>3 DEF Visiting
  <2>5. runs' \in [Id -> Nat]
    BY <1>0, <1>6, <2>1 DEF Visiting
  <2> QED
    BY <1>0, <1>6, <2>2, <2>4, <2>5 DEF Visiting, LoopType
<1>7. CASE Leaving
  <2>1. Tail(stack) \in Seq(Frames) /\ Top.st \in Storages
    BY <1>7, <1>b, FrameParts DEF Leaving
  <2> QED
    BY <1>0, <1>7, <2>1 DEF Leaving, LoopType
<1>8. CASE Draining
  <2>1. Head(deferred) \in Batch /\ Tail(deferred) \in Seq(Batch)
    BY <1>0, <1>8 DEF Draining
  <2>2. stack' \in Seq(Frames)
    BY <1>0, <1>8, <1>a, <1>c, <2>1 DEF Draining
  <2> QED
    BY <1>0, <1>8, <2>1, <2>2 DEF Draining, LoopType
<1>9. CASE WithReturning
  <2>1. Tail(stack) \in Seq(Frames) /\ Top.old \in Storages
    BY <1>9, <1>b, FrameParts DEF WithReturning
  <2> QED
    BY <1>0, <1>9, <2>1 DEF WithReturning, LoopType
<1>10. CASE Abandoning
  <2>1. Leave(0) \in Frames /\ <<>> \in Seq(Frames)
    BY ConstantTypes, FrameTypes
  <2>2. stack' \in Seq(Frames)
    BY <1>10, <1>a, <2>1 DEF Abandoning
  <2> QED
    BY <1>0, <1>10, <2>2 DEF Abandoning, LoopType
<1>11. CASE Raising
  <2>1. \A i \in DOMAIN stack : SubSeq(stack, i, Len(stack)) \in Seq(Frames)
    BY <1>0, SuffixMeets
  <2>a. <<>> \in Seq(Frames)
    OBVIOUS
  <2>b. ASSUME stack' = <<>> PROVE stack' \in Seq(Frames)
    BY <2>a, <2>b
  <2>c. ASSUME NEW i \in DOMAIN stack, stack' = SubSeq(stack, i, Len(stack)) PROVE stack' \in Seq(Frames)
    BY <2>1, <2>c
  <2>2. stack' \in Seq(Frames)
    BY <1>11, <2>b, <2>c DEF Raising
  <2> QED
    BY <1>0, <1>11, <2>2 DEF Raising, LoopType
<1>12. ASSUME NEW v \in Storages, WithEntering(v) PROVE LoopType'
  <2>1. With(storage, v) \in Frames
    BY <1>0, FrameTypes
  <2>2. stack' \in Seq(Frames)
    BY <1>0, <1>12, <1>a, <2>1 DEF WithEntering
  <2> QED
    BY <1>0, <1>12, <2>2 DEF WithEntering, LoopType
<1>13. ASSUME NEW b \in Batch, Entering(b) PROVE LoopType'
  <2>1. stack' \in Seq(Frames)
    BY <1>0, <1>13, <1>a, <1>b, <1>c DEF Entering
  <2> QED
    BY <1>0, <1>13, <2>1 DEF Entering, LoopType
<1>14. ASSUME NEW b \in Batch, Deferring(b) PROVE LoopType'
  <2>1. Append(deferred, b) \in Seq(Batch)
    BY <1>0
  <2> QED
    BY <1>0, <1>14, <2>1 DEF Deferring, LoopType
<1>15. ASSUME NEW b \in Batch, Collecting(b) PROVE LoopType'
  <2>1. Top.root \in Id /\ Top.acc \in Seq(Batch) /\ Tail(stack) \in Seq(Frames)
    BY <1>15, <1>b, FrameParts DEF Collecting
  <2>2. Push(b, Top.acc) \in Seq(Batch)
    BY <2>1, PushList
  <2>3. \A todo \in Seq(Id) : Traverse(Top.root, todo, Push(b, Top.acc)) \in Frames
    BY <2>1, <2>2, FrameTypes
  <2>4. stack' \in Seq(Frames)
    BY <1>15, <1>a, <2>1, <2>3 DEF Collecting
  <2> QED
    BY <1>0, <1>15, <2>4 DEF Collecting, LoopType
<1> QED
  BY <1>1, <1>2, <1>3, <1>4, <1>5, <1>6, <1>7, <1>8, <1>9, <1>10, <1>11, <1>12, <1>13, <1>14, <1>15
     DEF LoopSteps, QuietSteps, BatchSteps
(* Every step of the model is one of these.                                *)
CoreSteps ==
    \/ KeepHeap /\ QuietSteps
    \/ Clearing /\ Returning
    \/ \E p, q \in Id : Merging(p, q) /\ Proxying(p, q) /\ Returning
    \/ \E k \in Kinds, ps \in Seq(Id) : Creating(k, ps) /\ Making
    \/ \E p \in Id, r \in Results : Resolving(p, r) /\ Owned(p) /\ BatchSteps(CallbacksOf(p, r))

LEMMA EveryStep ==
    ASSUME CoreType, Next
    PROVE  CoreSteps /\ program' = program
<1>0. program' = program
  BY DEF Next
<1>1. CASE Create
  BY <1>0, <1>1, CreateSteps, CreateMakes DEF CoreSteps
<1>2. CASE Act
  <2>1. ASSUME NEW ps \in Lists, pick_now(ps) \/ npick_now(ps) PROVE CoreSteps
    BY <2>1, PickSteps DEF CoreSteps, QuietSteps
  <2>2. ASSUME NEW p \in Id, NEW r \in UserRes, wakeup(p, r) \/ wakeup_later(p, r) PROVE CoreSteps
    BY <2>2, WakeupStep DEF CoreSteps, BatchSteps
  <2>3. ASSUME NEW p \in Id, cancel(p) PROVE CoreSteps
    BY <2>3, CancelStep DEF CoreSteps, QuietSteps
  <2>4. ASSUME NEW v \in Storages, with_value(v) PROVE CoreSteps
    <3>1. "with_value" \in program
      BY <2>4 DEF with_value, UserOp
    <3> QED
      BY <2>4, <3>1, WithSteps DEF CoreSteps, QuietSteps
  <2>5. ASSUME abandon_wakeups PROVE CoreSteps
    BY <2>5, CutSteps DEF CoreSteps, QuietSteps
  <2> QED
    BY <1>0, <1>2, <2>1, <2>2, <2>3, <2>4, <2>5 DEF Act
<1>3. CASE Return
  <2>1. ASSUME with_value_return PROVE CoreSteps
    BY <2>1, WithSteps DEF CoreSteps, QuietSteps
  <2>2. ASSUME return_unit \/ \E r \in UserRes : return_result(r) PROVE CoreSteps
    BY <2>2, ReturnSteps DEF CoreSteps, QuietSteps
  <2>3. ASSUME hook_raises PROVE CoreSteps
    BY <2>3, CutSteps DEF CoreSteps, QuietSteps
  <2>4. ASSUME NEW p \in Id, return_promise(p) PROVE CoreSteps
    BY <2>4, ProxyStep DEF CoreSteps, QuietSteps
  <2> QED
    BY <1>0, <1>3, <2>1, <2>2, <2>3, <2>4 DEF Return
<1>4. CASE LwtStep
  <2>1. ASSUME run_cancel_callback PROVE CoreSteps
    BY <2>1, CancelCallbacks DEF CoreSteps, QuietSteps
  <2>2. ASSUME run_user_callback PROVE CoreSteps
    BY <2>2, UserSteps DEF CoreSteps, QuietSteps
  <2>3. ASSUME run_passing_callback \/ run_join_callback PROVE CoreSteps
    BY <2>3, PassSteps DEF CoreSteps, QuietSteps
  <2>4. ASSUME run_removable_callback PROVE CoreSteps
    BY <2>4, RemovableStep DEF CoreSteps, QuietSteps
  <2>5. ASSUME run_done PROVE CoreSteps
    BY <2>5, RunDone DEF CoreSteps, QuietSteps
  <2>6. ASSUME clear_step PROVE CoreSteps
    BY <2>6, ClearStep DEF CoreSteps
  <2>7. ASSUME resolve_step PROVE CoreSteps
    BY <2>7, ResolveStep DEF CoreSteps, QuietSteps, BatchSteps
  <2>8. ASSUME leave_step PROVE CoreSteps
    BY <2>8, LeaveStep DEF CoreSteps, QuietSteps
  <2>9. ASSUME traverse_step PROVE CoreSteps
    BY <2>9, TraverseStep DEF CoreSteps, QuietSteps, BatchSteps
  <2>10. ASSUME traverse_done \/ phase2_step PROVE CoreSteps
    BY <2>10, PhaseSteps DEF CoreSteps, QuietSteps
  <2>11. ASSUME cancels_step PROVE CoreSteps
    BY <2>11, CancelsStep DEF CoreSteps, QuietSteps
  <2>12. ASSUME walk_step PROVE CoreSteps
    BY <2>12, WalkStep DEF CoreSteps, QuietSteps
  <2> QED
    BY <1>0, <1>4, <2>1, <2>2, <2>3, <2>4, <2>5, <2>6, <2>7, <2>8, <2>9, <2>10, <2>11, <2>12 DEF LwtStep
<1> QED
  BY <1>1, <1>2, <1>3, <1>4 DEF Next

LEMMA TypesKept ==
    ASSUME CoreType, CoreSteps
    PROVE  CoreType'
<1>1. HeapType'
  BY HeapTypes DEF CoreSteps
<1>2. LoopType'
  <2>1. \A p \in Id, r \in Results : CallbacksOf(p, r) \in Batch
    BY BatchTypes
  <2>2. ASSUME NEW k, NEW ps, Creating(k, ps) PROVE LoopType'
    BY <2>2, CoreTypeParts DEF Creating, LoopType
  <2>3. LoopSteps \/ \E k, ps : Creating(k, ps)
    BY <2>1 DEF CoreSteps, LoopSteps, QuietSteps
  <2> QED
    BY <2>2, <2>3, LoopTypes
<1> QED
  BY <1>1, <1>2 DEF CoreType, HeapType, LoopType
-----------------------------------------------------------------------------
(* The storage that user code finds.  Fits(s, v): with v as the current    *)
(* storage, every user code of the calls s will find its own.  It is the   *)
(* least relation such that 0 fits no call at all, and v fits a frame f on *)
(* top of s if f runs with v and all that f may leave behind fits s.       *)
Here(f, v) == f.k \in {"user", "with"} => v = f.st

Behind(f, v) == CASE f.k \in {"user", "run"} -> Storages
                  [] f.k = "with" -> {f.old}
                  [] f.k = "leave" -> {f.st}
                  [] OTHER -> {v}

FitsClosed(R) ==
    /\ <<<<>>, 0>> \in R
    /\ \A s \in Seq(Frames), f \in Frames, v \in Storages :
           Here(f, v) /\ (\A w \in Behind(f, v) : <<s, w>> \in R) => <<Push(f, s), v>> \in R

Fits(s, v) == \A R \in SUBSET (Seq(Frames) \X Storages) : FitsClosed(R) => <<s, v>> \in R

LEMMA BehindTypes ==
    ASSUME NEW f \in Frames, NEW v \in Storages
    PROVE  Behind(f, v) \subseteq Storages
  BY FrameParts DEF Behind

LEMMA FitsPush ==
    ASSUME NEW s \in Seq(Frames), NEW f \in Frames, NEW v \in Storages,
           Here(f, v), \A w \in Behind(f, v) : Fits(s, w)
    PROVE  Fits(Push(f, s), v)
  BY DEF Fits, FitsClosed

LEMMA FitsNothing == Fits(<<>>, 0)
  BY DEF Fits, FitsClosed

LEMMA FitsPop ==
    ASSUME NEW s \in Seq(Frames), NEW v \in Storages, Fits(s, v)
    PROVE  /\ s = <<>> => v = 0
           /\ s # <<>> => Here(Head(s), v) /\ \A w \in Behind(Head(s), v) : Fits(Tail(s), w)
<1> DEFINE Good(t, w) == /\ Fits(t, w)
                         /\ t = <<>> => w = 0
                         /\ t # <<>> => Here(Head(t), w) /\ \A x \in Behind(Head(t), w) : Fits(Tail(t), x)
           R == {z \in Seq(Frames) \X Storages : Good(z[1], z[2])}
<1>1. \A t \in Seq(Frames), w \in Storages : <<t, w>> \in R <=> Good(t, w)
  OBVIOUS
<1>2. Good(<<>>, 0)
  BY FitsNothing
<1>3. <<>> \in Seq(Frames) /\ 0 \in Storages
  BY ConstantTypes
<1>4. ASSUME NEW t \in Seq(Frames), NEW f \in Frames, NEW w \in Storages,
             Here(f, w), \A x \in Behind(f, w) : <<t, x>> \in R
      PROVE  <<Push(f, t), w>> \in R
  <2>1. Push(f, t) \in Seq(Frames) /\ Push(f, t) # <<>> /\ Head(Push(f, t)) = f /\ Tail(Push(f, t)) = t
    BY PushList
  <2>2. \A x \in Behind(f, w) : Fits(t, x)
    <3>1. \A x \in Behind(f, w) : x \in Storages
      BY BehindTypes
    <3>2. \A x \in Behind(f, w) : Good(t, x)
      BY <1>1, <1>4, <3>1
    <3> QED
      BY <3>2
  <2>3. Fits(Push(f, t), w)
    BY <1>4, <2>2, FitsPush
  <2>4. Good(Push(f, t), w)
    BY <1>4, <2>1, <2>2, <2>3
  <2> QED
    BY <1>1, <2>1, <2>4
<1>5. <<<<>>, 0>> \in R
  BY <1>1, <1>2, <1>3
<1>6. R \in SUBSET (Seq(Frames) \X Storages)
  OBVIOUS
<1> HIDE DEF R
<1>7. FitsClosed(R)
  BY <1>4, <1>5 DEF FitsClosed
<1>8. <<s, v>> \in R
  BY <1>6, <1>7 DEF Fits
<1>9. Good(s, v)
  BY <1>1, <1>8
<1> QED
  BY <1>9
LEMMA FitsFrames ==
    /\ \A f, v : f.k \in {"cancels", "walk", "clear", "resolve", "traverse", "phase2"} =>
                      Here(f, v) /\ Behind(f, v) = {v}
    /\ \A f, v : f.k = "run" => Here(f, v) /\ Behind(f, v) = Storages
    /\ \A f, v : f.k = "user" => Behind(f, v) = Storages /\ (Here(f, v) <=> v = f.st)
    /\ \A f, v : f.k = "leave" => Here(f, v) /\ Behind(f, v) = {f.st}
    /\ \A f, v : f.k = "with" => Behind(f, v) = {f.old} /\ (Here(f, v) <=> v = f.st)
  BY DEF Here, Behind

LEMMA FitsGrown ==
    ASSUME NEW s \in Seq(Frames), NEW v \in Storages, Fits(s, v), NEW t, Grown(t, s)
    PROVE  Fits(t, v)
<1>1. ASSUME NEW f \in Plain, NEW z \in Seq(Frames), Fits(z, v)
      PROVE  Push(f, z) \in Seq(Frames) /\ Fits(Push(f, z), v)
  <2>1. f \in Frames /\ f.k \in {"cancels", "walk", "clear", "resolve", "traverse", "phase2"}
    BY DEF Plain
  <2>2. Here(f, v) /\ Behind(f, v) = {v}
    BY <2>1, FitsFrames
  <2>3. \A w \in Behind(f, v) : Fits(z, w)
    BY <1>1, <2>2
  <2> QED
    BY <1>1, <2>1, <2>2, <2>3, FitsPush, PushList
<1> QED
  BY <1>1 DEF Grown, Inert, Silent

LEMMA FitsLoop ==
    ASSUME NEW s \in Seq(Frames), NEW v \in Storages, Fits(s, v), NEW b \in Batch, NEW w \in Storages
    PROVE  Fits(Push(RunFrame(b), Push(Leave(v), s)), w)
<1> DEFINE f == RunFrame(b)
           g == Leave(v)
<1>1. f \in Frames /\ g \in Frames /\ f.k = "run" /\ g.k = "leave" /\ g.st = v
  BY FrameTypes DEF Batch, RunFrame, Leave, Run
<1> HIDE DEF f, g
<1>2. Push(g, s) \in Seq(Frames)
  BY <1>1, PushList
<1>3. ASSUME NEW x \in Storages PROVE Fits(Push(g, s), x)
  <2>1. Here(g, x) /\ Behind(g, x) = {v}
    BY <1>1, FitsFrames
  <2>2. \A y \in Behind(g, x) : Fits(s, y)
    BY <2>1
  <2> QED
    BY <1>1, <2>1, <2>2, FitsPush
<1>4. Here(f, w) /\ Behind(f, w) = Storages
  BY <1>1, FitsFrames
<1>5. \A y \in Behind(f, w) : Fits(Push(g, s), y)
  BY <1>3, <1>4
<1>6. Fits(Push(f, Push(g, s)), w)
  BY <1>1, <1>2, <1>4, <1>5, FitsPush
<1> QED
  BY <1>6 DEF f, g

(* What fits below the innermost call.                                     *)
LEMMA FitsBelow ==
    ASSUME CoreType, Fits(stack, storage), stack # <<>>
    PROVE  /\ Top \in Frames /\ Tail(stack) \in Seq(Frames) /\ stack \in Seq(Frames) /\ storage \in Storages
           /\ Top.k \in {"cancels", "walk", "clear", "resolve", "traverse", "phase2"} => Fits(Tail(stack), storage)
           /\ Top.k \in {"user", "run"} => \A w \in Storages : Fits(Tail(stack), w)
           /\ Top.k = "leave" => Fits(Tail(stack), Top.st)
           /\ Top.k = "with" => Fits(Tail(stack), Top.old)
           /\ Top.k \in {"user", "with"} => storage = Top.st
<1>1. Top \in Frames /\ Tail(stack) \in Seq(Frames) /\ stack \in Seq(Frames) /\ storage \in Storages
  BY DEF CoreType, Top
<1>2. Here(Top, storage) /\ \A w \in Behind(Top, storage) : Fits(Tail(stack), w)
  BY <1>1, FitsPop DEF Top
<1> QED
  BY <1>1, <1>2, FitsFrames

LEMMA FitsKept ==
    ASSUME CoreType, CoreType', CoreSteps, "raise" \notin program, Fits(stack, storage)
    PROVE  Fits(stack', storage')
<1>0. storage \in Storages /\ stack \in Seq(Frames) /\ storage' \in Storages /\ stack' \in Seq(Frames)
  BY DEF CoreType
<1>1. CASE Calling
  BY <1>0, <1>1, FitsGrown DEF Calling
<1>2. CASE Returning
  <2>1. Top.k \in {"cancels", "walk", "clear", "resolve", "traverse", "phase2", "user", "run"}
    BY <1>2 DEF Returning, Finished, Plain
  <2>2. Fits(Tail(stack), storage) /\ Tail(stack) \in Seq(Frames)
    BY <1>0, <1>2, <2>1, FitsBelow DEF Returning
  <2> QED
    BY <1>0, <1>2, <2>2, FitsGrown DEF Returning
<1>3. CASE Traversing \/ \E b \in Batch : Collecting(b)
  <2>1. stack # <<>> /\ Top.k = "traverse" /\ UNCHANGED storage
    BY <1>3 DEF Traversing, Collecting, Frame, Top
  <2>2. Fits(Tail(stack), storage) /\ Tail(stack) \in Seq(Frames)
    BY <2>1, FitsBelow
  <2>3. \E f : f.k \in {"traverse", "phase2"} /\ stack' = Push(f, Tail(stack))
    <3>1. \A x, y, z : Traverse(x, y, z).k = "traverse" /\ Phase2(x).k = "phase2"
      BY DEF Traverse, Phase2
    <3> QED
      BY <1>3, <3>1 DEF Traversing, Collecting
  <2>4. PICK f : f.k \in {"traverse", "phase2"} /\ stack' = Push(f, Tail(stack))
    BY <2>3
  <2>5. f \in Frames
    BY <1>0, <2>2, <2>4 DEF Push
  <2>6. Here(f, storage) /\ Behind(f, storage) = {storage}
    BY <2>4, FitsFrames
  <2>7. \A w \in Behind(f, storage) : Fits(Tail(stack), w)
    BY <2>2, <2>6
  <2> QED
    BY <1>0, <2>1, <2>2, <2>4, <2>5, <2>6, <2>7, FitsPush
<1>4. CASE Continuing
  <2>1. stack # <<>> /\ Top.k = "phase2" /\ UNCHANGED storage /\ Top.todo # <<>>
    BY <1>4 DEF Continuing, Frame, Top
  <2>2. Fits(Tail(stack), storage) /\ Tail(stack) \in Seq(Frames) /\ Top \in Frames
    BY <2>1, FitsBelow
  <2>3. Top.todo \in Seq(Batch)
    BY <2>1, <2>2, FrameParts
  <2>4. Head(Top.todo) \in Batch /\ Tail(Top.todo) \in Seq(Batch)
    BY <2>1, <2>3
  <2> DEFINE f == Phase2(Tail(Top.todo))
  <2>5. f \in Frames /\ f.k = "phase2"
    BY <2>4, FrameTypes DEF Phase2
  <2>6. Here(f, storage) /\ Behind(f, storage) = {storage}
    BY <2>5, FitsFrames
  <2>7. \A w \in Behind(f, storage) : Fits(Tail(stack), w)
    BY <2>2, <2>6
  <2> HIDE DEF f
  <2>8. Fits(Push(f, Tail(stack)), storage) /\ Push(f, Tail(stack)) \in Seq(Frames)
    BY <1>0, <2>2, <2>5, <2>6, <2>7, FitsPush, PushList
  <2>9. stack' = Push(RunFrame(Head(Top.todo)), Push(Leave(storage), Push(f, Tail(stack))))
    BY <1>4 DEF Continuing, f
  <2> QED
    BY <1>0, <2>1, <2>4, <2>8, <2>9, FitsLoop
<1>5. ASSUME Passing \/ Visiting
      PROVE  /\ stack # <<>> /\ Tail(stack) \in Seq(Frames) /\ Push(Remaining, Tail(stack)) \in Seq(Frames)
             /\ \A w \in Storages : Fits(Push(Remaining, Tail(stack)), w)
  <2>1. Busy /\ stack # <<>> /\ Top.k = "run"
    BY <1>5 DEF Passing, Visiting, Busy, Frame, Top
  <2>2. /\ Remaining \in Frames /\ Tail(stack) \in Seq(Frames)
        /\ Remaining.k = "run"
    BY <2>1, BusyParts
  <2>3. \A w \in Storages : Fits(Tail(stack), w)
    BY <2>1, FitsBelow
  <2>4. \A w : Here(Remaining, w) /\ Behind(Remaining, w) = Storages
    BY <2>2, FitsFrames
  <2>5. ASSUME NEW w \in Storages PROVE Fits(Push(Remaining, Tail(stack)), w)
    <3>1. Here(Remaining, w) /\ \A x \in Behind(Remaining, w) : Fits(Tail(stack), x)
      BY <2>3, <2>4
    <3> QED
      BY <2>2, <3>1, FitsPush
  <2>6. Push(Remaining, Tail(stack)) \in Seq(Frames)
    BY <2>2, PushList
  <2> QED
    BY <2>1, <2>2, <2>5, <2>6
<1>6. CASE Passing
  <2>1. Fits(Push(Remaining, Tail(stack)), storage') /\ Push(Remaining, Tail(stack)) \in Seq(Frames)
    BY <1>0, <1>5, <1>6
  <2> QED
    BY <1>0, <1>6, <2>1, FitsGrown DEF Passing
<1>7. CASE Visiting
  <2> DEFINE f == User(Current, storage')
             s == Push(Remaining, Tail(stack))
  <2>1. s \in Seq(Frames) /\ \A w \in Storages : Fits(s, w)
    BY <1>5, <1>7
  <2>2. Current \in Id
    BY <1>7, BusyParts DEF Visiting
  <2>3. f \in Frames /\ f.k = "user" /\ f.st = storage'
    BY <1>0, <2>2, FrameTypes DEF User
  <2>4. stack' = Push(f, s)
    BY <1>7 DEF Visiting
  <2> HIDE DEF f, s
  <2>5. Here(f, storage') /\ Behind(f, storage') = Storages
    BY <2>3, FitsFrames
  <2>6. \A w \in Behind(f, storage') : Fits(s, w)
    BY <2>1, <2>5
  <2>7. Fits(Push(f, s), storage')
    BY <1>0, <2>1, <2>3, <2>5, <2>6, FitsPush
  <2> QED
    BY <2>4, <2>7
<1>8. CASE Leaving
  <2>1. stack # <<>> /\ Top.k = "leave"
    BY <1>8 DEF Leaving, Frame, Top
  <2> QED
    BY <1>8, <2>1, FitsBelow DEF Leaving
<1>9. CASE Draining
  <2>1. stack # <<>> /\ Top.k = "leave" /\ Head(deferred) \in Batch
    BY <1>9 DEF Draining, Frame, Top, CoreType
  <2>2. Fits(Tail(stack), Top.st) /\ Top \in Frames /\ Tail(stack) \in Seq(Frames)
    BY <2>1, FitsBelow
  <2>3. Top.st \in Storages /\ Top = Leave(Top.st)
    BY <2>1, <2>2, FrameParts DEF Frames, Leave
  <2>4. stack = Push(Top, Tail(stack))
    BY <1>0, <2>1, FirstOfList DEF Top
  <2>5. Fits(Push(RunFrame(Head(deferred)), Push(Leave(Top.st), Tail(stack))), storage)
    BY <1>0, <2>1, <2>2, <2>3, FitsLoop
  <2> QED
    BY <1>9, <2>3, <2>4, <2>5 DEF Draining
<1>10. CASE WithReturning
  <2>1. stack # <<>> /\ Top.k = "with"
    BY <1>10 DEF WithReturning, Frame, Top
  <2> QED
    BY <1>10, <2>1, FitsBelow DEF WithReturning
<1>11. ASSUME NEW v \in Storages, WithEntering(v) PROVE Fits(stack', storage')
  <2> DEFINE f == With(storage, v)
  <2>1. f \in Frames /\ f.k = "with" /\ f.st = v /\ f.old = storage
    BY <1>0, FrameTypes DEF With
  <2>2. stack' = Push(f, stack) /\ storage' = v
    BY <1>11 DEF WithEntering
  <2> HIDE DEF f
  <2>3. Here(f, v) /\ Behind(f, v) = {storage}
    BY <2>1, FitsFrames
  <2>4. \A w \in Behind(f, v) : Fits(stack, w)
    BY <2>3
  <2> QED
    BY <1>0, <2>1, <2>2, <2>3, <2>4, FitsPush
<1>12. CASE Abandoning
  <2> DEFINE f == Leave(0)
  <2>1. f \in Frames /\ f.k = "leave" /\ f.st = 0 /\ <<>> \in Seq(Frames)
    BY FrameTypes, ConstantTypes DEF Leave
  <2>2. stack' = Push(f, <<>>)
    BY <1>12 DEF Abandoning
  <2> HIDE DEF f
  <2>3. Here(f, storage') /\ Behind(f, storage') = {0}
    BY <2>1, FitsFrames
  <2>4. \A w \in Behind(f, storage') : Fits(<<>>, w)
    BY <2>3, FitsNothing
  <2> QED
    BY <1>0, <2>1, <2>2, <2>3, <2>4, FitsPush
<1>13. ASSUME NEW b \in Batch, Entering(b) PROVE Fits(stack', storage')
  <2>1. CASE stack' = Push(RunFrame(b), Push(Leave(storage), stack))
    BY <1>0, <1>13, <2>1, FitsLoop DEF Entering
  <2>2. CASE Frame("resolve") /\ stack' = Push(RunFrame(b), Push(Leave(storage), Tail(stack)))
    <3>1. stack # <<>> /\ Top.k = "resolve"
      BY <2>2 DEF Frame, Top
    <3>2. Fits(Tail(stack), storage) /\ Tail(stack) \in Seq(Frames)
      BY <3>1, FitsBelow
    <3> QED
      BY <1>0, <1>13, <2>2, <3>2, FitsLoop DEF Entering
  <2> QED
    BY <1>13, <2>1, <2>2 DEF Entering
<1>14. ASSUME NEW b \in Batch, Deferring(b) PROVE Fits(stack', storage')
  BY <1>14 DEF Deferring
<1>15. ASSUME NEW k, NEW ps, Creating(k, ps) PROVE Fits(stack', storage')
  BY <1>15 DEF Creating
<1>16. ~Raising
  BY DEF Raising
<1>17. \A p \in Id, r \in Results : CallbacksOf(p, r) \in Batch
  BY BatchTypes
<1> QED
  BY <1>1, <1>2, <1>3, <1>4, <1>6, <1>7, <1>8, <1>9, <1>10, <1>11, <1>12, <1>13, <1>14, <1>15, <1>16, <1>17
     DEF CoreSteps, QuietSteps, BatchSteps
(* Without with_value there is only the empty storage.                     *)
Still(f) == f.k # "with" /\ (f.k \in {"user", "leave"} => f.st = 0)
AllStill(s) == \A f : In(s, f) => Still(f)
Flat == storage = 0 /\ (\A c \in Id : saved[c] = 0) /\ AllStill(stack)

LEMMA StillPush ==
    ASSUME NEW s \in Seq(Frames), AllStill(s)
    PROVE  /\ \A f \in Frames : Still(f) => Push(f, s) \in Seq(Frames) /\ AllStill(Push(f, s))
           /\ \A t : Grown(t, s) => AllStill(t)
           /\ s # <<>> => AllStill(Tail(s)) /\ Tail(s) \in Seq(Frames) /\ Head(s) \in Frames /\ Still(Head(s))
<1>1. ASSUME NEW f \in Frames, Still(f), NEW z \in Seq(Frames), AllStill(z)
      PROVE  Push(f, z) \in Seq(Frames) /\ AllStill(Push(f, z))
  BY <1>1, PushList DEF AllStill
<1>2. \A f \in Plain : f \in Frames /\ Still(f)
  BY DEF Plain, Still
<1>3. \A f \in Plain, z \in Seq(Frames) : AllStill(z) => Push(f, z) \in Seq(Frames) /\ AllStill(Push(f, z))
  BY <1>1, <1>2
<1>4. \A t : Grown(t, s) => AllStill(t)
  BY <1>3 DEF Grown, Inert, Silent
<1>5. s # <<>> => AllStill(Tail(s)) /\ Tail(s) \in Seq(Frames) /\ Head(s) \in Frames /\ Still(Head(s))
  BY FirstOfList DEF AllStill
<1> QED
  BY <1>1, <1>4, <1>5

LEMMA FlatKept ==
    ASSUME CoreType, CoreSteps, "with_value" \notin program, Flat
    PROVE  Flat'
<1>0. /\ stack \in Seq(Frames) /\ storage = 0 /\ AllStill(stack) /\ 0 \in Storages
      /\ stack # <<>> => /\ AllStill(Tail(stack)) /\ Tail(stack) \in Seq(Frames)
                         /\ Top \in Frames /\ Still(Top)
  BY StillPush, ConstantTypes DEF CoreType, Flat, Top
<1>a. \A k : Frame(k) => stack # <<>> /\ Top.k = k
  BY DEF Frame, Top
<1>b. \A s \in Seq(Frames), f \in Frames : AllStill(s) /\ Still(f) => Push(f, s) \in Seq(Frames) /\ AllStill(Push(f, s))
  BY StillPush
<1>c. \A s \in Seq(Frames) : \A t : AllStill(s) /\ Grown(t, s) => AllStill(t)
  BY StillPush
<1>d. /\ \A b \in Batch : RunFrame(b) \in Frames /\ Still(RunFrame(b))
      /\ Leave(storage) \in Frames /\ Still(Leave(storage)) /\ Leave(0) \in Frames
  <2>1. \A b \in Batch : RunFrame(b) \in Frames
    BY BatchTypes
  <2>2. \A b : Still(RunFrame(b))
    BY DEF RunFrame, Still
  <2>3. Leave(storage) \in Frames /\ Leave(0) \in Frames
    BY <1>0, FrameTypes
  <2>4. Still(Leave(0))
    BY DEF Still, Leave
  <2> QED
    BY <1>0, <2>1, <2>2, <2>3, <2>4
<1>e. \A s \in Seq(Frames), b \in Batch : AllStill(s) => AllStill(Push(RunFrame(b), Push(Leave(storage), s)))
  BY <1>b, <1>d
<1>1. ASSUME Calling PROVE storage' = 0 /\ AllStill(stack')
  BY <1>0, <1>1, <1>c DEF Calling
<1>2. ASSUME Returning PROVE storage' = 0 /\ AllStill(stack')
  BY <1>0, <1>2, <1>c DEF Returning
<1>3. ASSUME Traversing \/ \E b \in Batch : Collecting(b) PROVE storage' = 0 /\ AllStill(stack')
  <2>1. Frame("traverse") /\ UNCHANGED storage
    BY <1>3 DEF Traversing, Collecting
  <2>2. stack # <<>> /\ Top \in Frames /\ Top.root \in Id /\ Top.acc \in Seq(Batch) /\ Tail(stack) \in Seq(Frames)
    BY <1>0, <1>a, <2>1, FrameParts
  <2>3. \A x, y, z : Still(Traverse(x, y, z)) /\ Still(Phase2(x))
    BY DEF Still, Traverse, Phase2
  <2>4. \A b \in Batch : Push(b, Top.acc) \in Seq(Batch)
    BY <2>2, PushList
  <2>5. PICK f \in Frames : Still(f) /\ stack' = Push(f, Tail(stack))
    BY <1>3, <2>2, <2>3, <2>4, FrameTypes DEF Traversing, Collecting
  <2> QED
    BY <1>0, <1>b, <2>1, <2>2, <2>5
<1>4. ASSUME Continuing PROVE storage' = 0 /\ AllStill(stack')
  <2>1. stack # <<>> /\ Top.k = "phase2" /\ UNCHANGED storage /\ Top.todo # <<>>
    BY <1>4 DEF Continuing, Frame, Top
  <2>2. Top.todo \in Seq(Batch)
    BY <1>0, <2>1, FrameParts
  <2>3. Head(Top.todo) \in Batch /\ Tail(Top.todo) \in Seq(Batch)
    BY <2>1, <2>2
  <2>4. Phase2(Tail(Top.todo)) \in Frames /\ Still(Phase2(Tail(Top.todo)))
    BY <2>3, FrameTypes DEF Still, Phase2
  <2>5. Push(Phase2(Tail(Top.todo)), Tail(stack)) \in Seq(Frames) /\ AllStill(Push(Phase2(Tail(Top.todo)), Tail(stack)))
    BY <1>0, <1>b, <2>1, <2>4
  <2> QED
    BY <1>0, <1>4, <1>e, <2>1, <2>3, <2>5 DEF Continuing
<1>5. ASSUME Passing \/ Visiting
      PROVE  /\ storage' = 0 /\ Push(Remaining, Tail(stack)) \in Seq(Frames)
             /\ AllStill(Push(Remaining, Tail(stack))) /\ Current \in Id
  <2>1. Busy /\ stack # <<>>
    BY <1>5, <1>a DEF Passing, Visiting, Busy
  <2>2. Current \in Id /\ Remaining \in Frames /\ Remaining.k = "run"
    BY <2>1, BusyParts
  <2>3. saved[Current] = 0
    BY <2>2 DEF Flat
  <2>4. storage' = 0
    BY <1>0, <1>5, <2>3 DEF Passing, Visiting
  <2>5. Still(Remaining)
    BY <2>2 DEF Still
  <2> QED
    BY <1>0, <1>b, <2>1, <2>2, <2>4, <2>5
<1>6. ASSUME Passing PROVE storage' = 0 /\ AllStill(stack')
  BY <1>5, <1>6, <1>c DEF Passing
<1>7. ASSUME Visiting PROVE storage' = 0 /\ AllStill(stack')
  <2>1. User(Current, 0) \in Frames /\ Still(User(Current, 0))
    BY <1>0, <1>5, <1>7, FrameTypes DEF Still, User
  <2>2. stack' = Push(User(Current, storage'), Push(Remaining, Tail(stack)))
    BY <1>7 DEF Visiting
  <2> QED
    BY <1>5, <1>7, <1>b, <2>1, <2>2
<1>8. ASSUME Leaving PROVE storage' = 0 /\ AllStill(stack')
  <2>1. stack # <<>> /\ Top.k = "leave"
    BY <1>8, <1>a DEF Leaving
  <2>2. Top.st = 0
    BY <1>0, <2>1 DEF Still
  <2> QED
    BY <1>0, <1>8, <2>1, <2>2 DEF Leaving
<1>9. ASSUME Draining PROVE storage' = 0 /\ AllStill(stack')
  <2>1. Head(deferred) \in Batch
    BY <1>9 DEF Draining, CoreType
  <2> QED
    BY <1>0, <1>9, <1>b, <1>d, <2>1 DEF Draining
<1>10. ~WithReturning
  <2>1. WithReturning => stack # <<>> /\ Top.k = "with"
    BY <1>a DEF WithReturning
  <2> QED
    BY <1>0, <2>1 DEF Still
<1>12. ASSUME Abandoning PROVE storage' = 0 /\ AllStill(stack')
  <2>1. <<>> \in Seq(Frames) /\ AllStill(<<>>)
    BY EmptyList DEF AllStill
  <2> QED
    BY <1>0, <1>12, <1>b, <1>d, <2>1 DEF Abandoning
<1>13. ASSUME Raising PROVE storage' = 0 /\ AllStill(stack')
  <2>1. ASSUME NEW i \in DOMAIN stack PROVE AllStill(SubSeq(stack, i, Len(stack)))
    <3>1. \A s, f : In(s, f) <=> Meets(s, {f})
      BY DEF In, Meets
    <3>2. \A f : In(SubSeq(stack, i, Len(stack)), f) => In(stack, f)
      BY <1>0, <3>1, SuffixMeets
    <3> QED
      BY <1>0, <3>2 DEF AllStill
  <2>2. AllStill(<<>>)
    BY EmptyList DEF AllStill
  <2>3. AllStill(stack')
    BY <1>13, <2>1, <2>2 DEF Raising
  <2> QED
    BY <1>0, <1>13, <2>3 DEF Raising
<1>14. ASSUME NEW b \in Batch, Entering(b) PROVE storage' = 0 /\ AllStill(stack')
  BY <1>0, <1>14, <1>a, <1>e DEF Entering
<1>15. ASSUME NEW b \in Batch, Deferring(b) PROVE storage' = 0 /\ AllStill(stack')
  BY <1>0, <1>15 DEF Deferring
<1>16. ASSUME NEW k, NEW ps, Creating(k, ps) PROVE storage' = 0 /\ AllStill(stack')
  BY <1>0, <1>16 DEF Creating
<1>17. \A p \in Id, r \in Results : CallbacksOf(p, r) \in Batch
  BY BatchTypes
<1>18. storage' = 0 /\ AllStill(stack')
  BY <1>1, <1>2, <1>3, <1>4, <1>6, <1>7, <1>8, <1>9, <1>10, <1>12, <1>13, <1>14, <1>15, <1>16, <1>17
     DEF CoreSteps, QuietSteps, BatchSteps
<1>19. \A c \in Id : saved'[c] = 0
  <2>1. ASSUME NEW k, NEW ps, Creating(k, ps) PROVE \A c \in Id : saved'[c] = 0
    <3>1. saved' = [saved EXCEPT ![next] = 0] /\ saved \in [Id -> Storages]
      BY <1>0, <2>1 DEF Creating, CoreType
    <3> QED
      BY <3>1 DEF Flat
  <2>2. UNCHANGED saved \/ \E k, ps : Creating(k, ps)
    BY DEF CoreSteps, KeepHeap, Clearing, Merging, Resolving
  <2> QED
    BY <2>1, <2>2 DEF Flat
<1> QED
  BY <1>18, <1>19 DEF Flat

StorageInv ==
    /\ "raise" \notin program => Fits(stack, storage)
    /\ "with_value" \notin program => Flat

LEMMA StorageInvRestores == CoreType /\ StorageInv => StorageRestored
<1> SUFFICES ASSUME CoreType, StorageInv, ~({"raise", "with_value"} \subseteq program), UserTurn
             PROVE  storage = IF stack = <<>> THEN 0 ELSE Top.st
  BY DEF StorageRestored
<1>1. stack # <<>> => Top.k \in {"user", "with"}
  BY DEF UserTurn, Frame, Top
<1>2. stack \in Seq(Frames) /\ storage \in Storages
  BY DEF CoreType
<1>3. CASE "raise" \notin program
  <2>1. Fits(stack, storage)
    BY <1>3 DEF StorageInv
  <2>2. stack = <<>> => storage = 0
    BY <1>2, <2>1, FitsPop
  <2>3. stack # <<>> => storage = Top.st
    BY <1>1, <2>1, FitsBelow
  <2> QED
    BY <2>2, <2>3
<1>4. CASE "with_value" \notin program
  <2>1. Flat
    BY <1>4 DEF StorageInv
  <2>2. stack # <<>> => Still(Top)
    BY <1>2, <2>1, StillPush DEF Flat, Top
  <2> QED
    BY <1>1, <2>1, <2>2 DEF Flat, Still
<1> QED
  BY <1>3, <1>4

LEMMA CoreStart == Init => CoreType /\ StorageInv
<1> SUFFICES ASSUME Init PROVE CoreType /\ StorageInv
  OBVIOUS
<1>1. CoreType
  <2>1. 1 \in 1..(N + 1)
    BY ConstantTypes
  <2>2. <<>> \in Seq(Id) /\ <<>> \in Seq(Batch) /\ <<>> \in Seq(Frames)
    OBVIOUS
  <2>3. /\ "free" \in Kinds /\ "none" \in States /\ "Fulfilled" \in Results
        /\ NotCancelable \in Cancelability /\ 0 \in Storages
    BY ConstantTypes, CancelabilityTypes DEF Kinds, States, Results
  <2> QED
    BY <2>1, <2>2, <2>3 DEF Init, CoreType
<1>2. Fits(stack, storage)
  BY FitsNothing DEF Init
<1>3. Flat
  BY EmptyList DEF Init, Flat, AllStill
<1> QED
  BY <1>1, <1>2, <1>3 DEF StorageInv

LEMMA CoreStutter == CoreType /\ StorageInv /\ UNCHANGED vars => CoreType' /\ StorageInv'
  BY DEF CoreType, StorageInv, Flat, Fits, AllStill, In, vars, static, heap, loop

(* Whatever number of callbacks a call of Lwt runs, and whatever they do,  *)
(* user code finds after it the storage it had before.                     *)
THEOREM CallsRestoreStorage == Spec => []StorageRestored
<1>1. Init => CoreType /\ StorageInv
  BY CoreStart
<1>2. CoreType /\ StorageInv /\ [Next]_vars => CoreType' /\ StorageInv'
  <2> SUFFICES ASSUME CoreType, StorageInv, Next PROVE CoreType' /\ StorageInv'
    BY CoreStutter
  <2>1. CoreSteps /\ program' = program
    BY EveryStep
  <2>2. CoreType'
    BY <2>1, TypesKept
  <2>3. StorageInv'
    BY <2>1, <2>2, FitsKept, FlatKept DEF StorageInv
  <2> QED
    BY <2>2, <2>3
<1>3. CoreType /\ StorageInv => StorageRestored
  BY StorageInvRestores
<1> QED
  BY <1>1, <1>2, <1>3, PTL DEF Spec
=============================================================================
