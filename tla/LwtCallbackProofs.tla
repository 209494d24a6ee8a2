------------------------- MODULE LwtCallbackProofs -------------------------
(***************************************************************************)
(* lwt.ml for any number of promises, any lists, storages and programs:    *)
(* user code attached to a promise runs once, in the end, if and only if   *)
(* the promise gets a result it was attached for; a cancellation reaches   *)
(* the promises it is meant to reach and no others; no promise is resolved *)
(* twice; and in a program that only chains promises none is left behind   *)
(* when what it waits for has a result.                                    *)
(*                                                                         *)
(* A callback c that user code attached is in one place: in a list of the  *)
(* promise it was attached to, while this is pending; then in one batch,   *)
(* of a call in progress or deferred, until it runs or is passed over.     *)
(*                                                                         *)
(* Of the promises behind the same proxies, one is canceled for all of     *)
(* them; the others made it their proxy when their function returned, so   *)
(* that what they waited for is resolved.                                  *)
(***************************************************************************)
EXTENDS LwtCoreProofs

(* Has(b, c): c is in the batch (or in the frame of run_callbacks) b.      *)
Has(b, c) == In(b.cans, c) \/ In(b.regs, c)

(* It is there once, for the result r; among the cancel callbacks only for *)
(* a cancellation.                                                         *)
Proper(b, c, r) ==
    /\ Once(b.cans, c) /\ Once(b.regs, c) /\ ~(In(b.cans, c) /\ In(b.regs, c))
    /\ b.res = r
    /\ In(b.cans, c) => r = "Canceled"

BatchesWith(c) == {b \in Batch : Has(b, c)}
BadBatches(c, r) == {b \in BatchesWith(c) : ~Proper(b, c, r)}

(* A sequence that has c at most once, in the elements W, and as it should *)
(* be: not in B.                                                           *)
Fine(q, W, B) == Single(q, W) /\ ~Meets(q, B)

(* The batches of a frame.                                                 *)
FramesWith(c) ==
    {f \in Frames : \/ f.k = "run" /\ Has(f, c)
                    \/ f.k = "traverse" /\ Meets(f.acc, BatchesWith(c))
                    \/ f.k = "phase2" /\ Meets(f.todo, BatchesWith(c))}

BadFrames(c, r) ==
    {f \in FramesWith(c) :
        \/ f.k = "run" /\ ~Proper(f, c, r)
        \/ f.k = "traverse" /\ ~Fine(f.acc, BatchesWith(c), BadBatches(c, r))
        \/ f.k = "phase2" /\ ~Fine(f.todo, BatchesWith(c), BadBatches(c, r))}

(* c is to be run, or passed over, by the resolution loop.                 *)
Stacked(c) == Meets(stack, FramesWith(c))
Deferred(c) == Meets(deferred, BatchesWith(c))
Held(c) == Stacked(c) \/ Deferred(c)

HeldOnce(c, r) ==
    /\ Fine(stack, FramesWith(c), BadFrames(c, r))
    /\ Fine(deferred, BatchesWith(c), BadBatches(c, r))
    /\ ~(Stacked(c) /\ Deferred(c))

(* c is attached to the promise p.                                         *)
Attached(c, p) == In(regular[p], c) \/ In(cancels[p], c)

(* The promise that c was attached to, and its state.                      *)
Source(c) == rep[args[c][1]]
Outcome(c) == state[Source(c)]

AttachedOnce(c) ==
    /\ \A p \in Id : Attached(c, p) => p = Source(c) /\ Outcome(c) = "Pending"
    /\ \A p \in Id : /\ Once(regular[p], c) /\ Once(cancels[p], c)
                     /\ ~(In(regular[p], c) /\ In(cancels[p], c))
                     /\ In(cancels[p], c) => kind[c] = "on_cancel"

RunsOnce(c) ==
    /\ Outcome(c) = "Pending" => Attached(c, Source(c)) /\ ~Held(c) /\ runs[c] = 0
    /\ Held(c) => runs[c] = 0
    /\ runs[c] \in {0, 1}
    /\ runs[c] = 1 => Outcome(c) \in Triggers(kind[c])
    /\ Uncut /\ kind[c] \in WithUserCode /\ Outcome(c) \in Triggers(kind[c]) /\ ~Held(c) =>
           runs[c] = 1

TrackedOK(c) ==
    /\ args[c][1] \in Promises
    /\ HeldOnce(c, Outcome(c))
    /\ AttachedOnce(c)
    /\ RunsOnce(c)

(* A name that is not in use yet is nowhere.                               *)
FreeOK(c) ==
    /\ kind[c] = "free" /\ state[c] = "none" /\ rep[c] = c /\ runs[c] = 0
    /\ ~Held(c) /\ \A p \in Id : ~Attached(c, p)

(* Behind the proxies there is a promise.                                  *)
RepOK == \A p \in Promises : rep[p] \in Promises

CallbackInv ==
    /\ RepOK
    /\ \A c \in Id : c >= next => FreeOK(c)
    /\ \A c \in Id : kind[c] \in Tracked => TrackedOK(c)
-----------------------------------------------------------------------------
(* Sequences that have c once.                                             *)
LEMMA FinePush ==
    ASSUME NEW U, NEW q \in Seq(U), NEW y \in U, NEW W, NEW B
    PROVE  /\ Push(y, q) \in Seq(U)
           /\ Meets(Push(y, q), W) <=> y \in W \/ Meets(q, W)
           /\ Fine(Push(y, q), W, B) <=> Fine(q, W, B) /\ y \notin B /\ ~(y \in W /\ Meets(q, W))
  BY PushList, PushMeets DEF Fine

LEMMA FineAppend ==
    ASSUME NEW U, NEW q \in Seq(U), NEW y \in U, NEW W, NEW B
    PROVE  /\ Append(q, y) \in Seq(U)
           /\ Meets(Append(q, y), W) <=> y \in W \/ Meets(q, W)
           /\ Fine(Append(q, y), W, B) <=> Fine(q, W, B) /\ y \notin B /\ ~(y \in W /\ Meets(q, W))
  BY AppendMeets DEF Fine

LEMMA FineFirst ==
    ASSUME NEW U, NEW q \in Seq(U), q # <<>>, NEW W, NEW B
    PROVE  /\ Head(q) \in U /\ Tail(q) \in Seq(U)
           /\ Meets(q, W) <=> Head(q) \in W \/ Meets(Tail(q), W)
           /\ Fine(q, W, B) <=> /\ Fine(Tail(q), W, B) /\ Head(q) \notin B
                                /\ ~(Head(q) \in W /\ Meets(Tail(q), W))
<1>1. Head(q) \in U /\ Tail(q) \in Seq(U) /\ q = Push(Head(q), Tail(q))
  BY FirstOfList
<1> DEFINE h == Head(q)
           t == Tail(q)
<1> HIDE DEF h, t
<1>2. /\ Meets(Push(h, t), W) <=> h \in W \/ Meets(t, W)
      /\ Fine(Push(h, t), W, B) <=> Fine(t, W, B) /\ h \notin B /\ ~(h \in W /\ Meets(t, W))
  BY <1>1, FinePush DEF h, t
<1> QED
  BY <1>1, <1>2 DEF h, t

LEMMA FineNothing == \A W, B : Fine(<<>>, W, B) /\ ~Meets(<<>>, W)
  BY DEF Fine, Meets, Single

LEMMA FineWithout ==
    ASSUME NEW q, NEW W, NEW B, B \subseteq W, ~Meets(q, W)
    PROVE  Fine(q, W, B)
  BY DEF Fine, Meets, Single

(* Which frames have c, and which have it badly.                           *)
LEMMA BadOnes ==
    ASSUME NEW c, NEW r
    PROVE  BadBatches(c, r) \subseteq BatchesWith(c) /\ BadFrames(c, r) \subseteq FramesWith(c)
  BY DEF BadBatches, BadFrames

LEMMA FramesWithout ==
    ASSUME NEW c
    PROVE  /\ \A f \in Finished : f \notin FramesWith(c)
           /\ \A f \in Plain : f \notin FramesWith(c)
           /\ \A f : f.k \in {"user", "with", "leave"} => f \notin FramesWith(c)
<1>1. \A f \in Plain : f \notin FramesWith(c)
  BY FineNothing DEF Plain, FramesWith
<1>2. \A f : f.k \in {"user", "with", "leave"} => f \notin FramesWith(c)
  BY DEF FramesWith
<1>3. \A f \in Frames : f.k = "phase2" /\ f.todo = <<>> => f \notin FramesWith(c)
  BY FineNothing DEF FramesWith
<1>4. \A f \in Frames : f.k = "run" /\ f.cans = <<>> /\ f.regs = <<>> => f \notin FramesWith(c)
  BY EmptyList DEF FramesWith, Has
<1>5. \A f : f.k \in {"cancels", "walk", "clear", "resolve"} => f \notin FramesWith(c)
  BY DEF FramesWith
<1> QED
  BY <1>1, <1>2, <1>3, <1>4, <1>5 DEF Finished

LEMMA FrameHas ==
    ASSUME NEW f \in Frames, NEW c, NEW r
    PROVE  /\ f.k = "run" => /\ f \in FramesWith(c) <=> Has(f, c)
                             /\ f \in BadFrames(c, r) <=> Has(f, c) /\ ~Proper(f, c, r)
           /\ f.k = "traverse" => /\ f \in FramesWith(c) <=> Meets(f.acc, BatchesWith(c))
                                  /\ f \in BadFrames(c, r) <=> ~Fine(f.acc, BatchesWith(c), BadBatches(c, r))
           /\ f.k = "phase2" => /\ f \in FramesWith(c) <=> Meets(f.todo, BatchesWith(c))
                                /\ f \in BadFrames(c, r) <=> ~Fine(f.todo, BatchesWith(c), BadBatches(c, r))
<1>1. \A q : ~Meets(q, BatchesWith(c)) => Fine(q, BatchesWith(c), BadBatches(c, r))
  BY BadOnes, FineWithout
<1>2. CASE f.k = "run"
  BY <1>2 DEF FramesWith, BadFrames
<1>3. CASE f.k = "traverse"
  BY <1>1, <1>3 DEF FramesWith, BadFrames
<1>4. CASE f.k = "phase2"
  BY <1>1, <1>4 DEF FramesWith, BadFrames
<1> QED
  BY <1>2, <1>3, <1>4

LEMMA RunFrameHas ==
    ASSUME NEW b \in Batch, NEW c, NEW r
    PROVE  /\ RunFrame(b) \in Frames
           /\ RunFrame(b) \in FramesWith(c) <=> b \in BatchesWith(c)
           /\ RunFrame(b) \in BadFrames(c, r) <=> b \in BadBatches(c, r)
<1> DEFINE f == RunFrame(b)
<1>1. f.k = "run" /\ f.cans = b.cans /\ f.regs = b.regs /\ f.res = b.res
  BY DEF RunFrame
<1>2. f \in Frames
  BY FrameTypes DEF Batch, RunFrame, Run
<1> HIDE DEF f
<1>3. (Has(f, c) <=> Has(b, c)) /\ (Proper(f, c, r) <=> Proper(b, c, r))
  BY <1>1 DEF Has, Proper
<1> QED
  BY <1>1, <1>2, <1>3, FrameHas DEF BatchesWith, BadBatches, f

(* The calls t have c as the calls s do.                                   *)
Same(t, s, c, r) ==
    /\ Meets(t, FramesWith(c)) <=> Meets(s, FramesWith(c))
    /\ Fine(s, FramesWith(c), BadFrames(c, r)) => Fine(t, FramesWith(c), BadFrames(c, r))

LEMMA SamePush ==
    ASSUME NEW s \in Seq(Frames), NEW f \in Frames, NEW c, NEW r
    PROVE  /\ f \notin FramesWith(c) => Same(Push(f, s), s, c, r)
           /\ \A g \in Frames : /\ f \in FramesWith(c) <=> g \in FramesWith(c)
                                /\ f \in BadFrames(c, r) => g \in BadFrames(c, r)
                              => Same(Push(f, s), Push(g, s), c, r)
<1> DEFINE W == FramesWith(c)
           B == BadFrames(c, r)
<1>0. B \subseteq W
  BY BadOnes
<1> HIDE DEF W, B
<1>1. \A g \in Frames :
          /\ Meets(Push(g, s), W) <=> g \in W \/ Meets(s, W)
          /\ Fine(Push(g, s), W, B) <=> Fine(s, W, B) /\ g \notin B /\ ~(g \in W /\ Meets(s, W))
  BY FinePush
<1>2. /\ f \notin W => (Meets(Push(f, s), W) <=> Meets(s, W)) /\ (Fine(s, W, B) => Fine(Push(f, s), W, B))
      /\ \A g \in Frames :
            (f \in W <=> g \in W) /\ (f \in B => g \in B) =>
                /\ Meets(Push(f, s), W) <=> Meets(Push(g, s), W)
                /\ Fine(Push(g, s), W, B) => Fine(Push(f, s), W, B)
  BY <1>0, <1>1
<1> QED
  BY <1>2 DEF Same, W, B

LEMMA SameGrown ==
    ASSUME NEW s \in Seq(Frames), NEW t, Grown(t, s), NEW c, NEW r
    PROVE  Same(t, s, c, r)
<1>1. \A f \in Plain, z \in Seq(Frames) : Push(f, z) \in Seq(Frames) /\ Same(Push(f, z), z, c, r)
  BY SamePush, FramesWithout, PlainTypes, PushList
<1>2. \A x, y, z : Same(x, y, c, r) /\ Same(y, z, c, r) => Same(x, z, c, r)
  BY DEF Same
<1>3. Same(s, s, c, r)
  BY DEF Same
<1> QED
  BY <1>1, <1>2, <1>3 DEF Grown, Inert, Silent

(* What is below the innermost call, if this does not have c.              *)
LEMMA SameBelow ==
    ASSUME NEW s \in Seq(Frames), s # <<>>, NEW c, NEW r, Head(s) \notin FramesWith(c)
    PROVE  Tail(s) \in Seq(Frames) /\ Same(Tail(s), s, c, r)
  BY FineFirst DEF Same
-----------------------------------------------------------------------------
(* A step of the loop keeps c once, or takes it out, which is the turn of  *)
(* c: then its user code runs, if and only if the result is one of its     *)
(* triggers.                                                               *)
Progress(c, r) ==
    /\ HeldOnce(c, r)'
    /\ Held(c)' => Held(c)
    /\ \/ runs'[c] = runs[c]
       \/ /\ runs'[c] = runs[c] + 1
          /\ Held(c) /\ ~Held(c)' /\ r \in Triggers(kind[c])
    /\ Uncut /\ kind[c] \in WithUserCode /\ r \in Triggers(kind[c]) /\ Held(c) /\ ~Held(c)' =>
           runs'[c] = runs[c] + 1
    /\ Uncut /\ Held(c) /\ ~Held(c)' => Busy /\ c = Current /\ Top.res = r

LEMMA SameProgress ==
    ASSUME NEW c, NEW r, HeldOnce(c, r), Same(stack', stack, c, r), UNCHANGED <<deferred, runs>>
    PROVE  Progress(c, r)
  BY DEF Progress, HeldOnce, Held, Stacked, Deferred, Same

(* The callbacks of a run frame, the next one and the others.              *)
LEMMA CurrentFirst ==
    ASSUME CoreType, Busy, NEW c
    PROVE  /\ Has(Top, c) <=> c = Current \/ Has(Remaining, c)
           /\ \A r : Proper(Top, c, r) => Proper(Remaining, c, r)
           /\ \A r : Proper(Top, c, r) /\ c = Current => ~Has(Remaining, c)
           /\ c = Current /\ Top.cans # <<>> => In(Top.cans, c)
<1>0. Top.cans \in Seq(Id) /\ Top.regs \in Seq(Id)
  BY RunParts DEF Busy
<1>1. CASE Top.cans # <<>>
  <2> DEFINE h == Head(Top.cans)
             t == Tail(Top.cans)
  <2>1. /\ \A x : In(Top.cans, x) <=> x = h \/ In(t, x)
        /\ \A x : Once(Top.cans, x) => Once(t, x)
        /\ Once(Top.cans, h) => ~In(t, h)
    BY <1>0, <1>1, FirstOfList
  <2>2. Current = h /\ Remaining.cans = t /\ Remaining.regs = Top.regs /\ Remaining.res = Top.res
    BY <1>1 DEF Current, Remaining, Run
  <2> HIDE DEF h, t
  <2> QED
    BY <2>1, <2>2 DEF Has, Proper
<1>2. CASE Top.cans = <<>>
  <2> DEFINE h == Head(Top.regs)
             t == Tail(Top.regs)
  <2>0. Top.regs # <<>>
    BY <1>2 DEF Busy
  <2>1. /\ \A x : In(Top.regs, x) <=> x = h \/ In(t, x)
        /\ \A x : Once(Top.regs, x) => Once(t, x)
        /\ Once(Top.regs, h) => ~In(t, h)
    BY <1>0, <2>0, FirstOfList
  <2>2. Current = h /\ Remaining.cans = <<>> /\ Remaining.regs = t /\ Remaining.res = Top.res
    BY <1>2 DEF Current, Remaining, Run
  <2>3. \A x : ~In(Top.cans, x) /\ ~In(Remaining.cans, x) /\ Once(Remaining.cans, x)
    BY <1>2, <2>2, EmptyList
  <2> HIDE DEF h, t
  <2> QED
    BY <1>2, <2>1, <2>2, <2>3 DEF Has, Proper
<1> QED
  BY <1>1, <1>2

(* The innermost call is replaced by what remains of it.                   *)
LEMMA RemainingSame ==
    ASSUME CoreType, Busy, NEW c, NEW r
    PROVE  /\ Push(Remaining, Tail(stack)) \in Seq(Frames)
           /\ c # Current => Same(Push(Remaining, Tail(stack)), stack, c, r)
           /\ c = Current => Stacked(c)
           /\ c = Current /\ Fine(stack, FramesWith(c), BadFrames(c, r)) =>
                 /\ Proper(Top, c, r)
                 /\ ~Meets(Push(Remaining, Tail(stack)), FramesWith(c))
                 /\ Fine(Push(Remaining, Tail(stack)), FramesWith(c), BadFrames(c, r))
<1> DEFINE s == Tail(stack)
           W == FramesWith(c)
           B == BadFrames(c, r)
<1>1. /\ Top \in Frames /\ Remaining \in Frames /\ s \in Seq(Frames) /\ Top.k = "run" /\ Remaining.k = "run"
      /\ stack \in Seq(Frames) /\ stack # <<>> /\ Top = Head(stack)
  BY BusyParts DEF CoreType, Busy, Frame, Top
<1>2. /\ Top \in W <=> Has(Top, c)
      /\ Top \in B <=> Has(Top, c) /\ ~Proper(Top, c, r)
      /\ Remaining \in W <=> Has(Remaining, c)
      /\ Remaining \in B <=> Has(Remaining, c) /\ ~Proper(Remaining, c, r)
  BY <1>1, FrameHas
<1>3. B \subseteq W
  BY BadOnes
<1> HIDE DEF s, W, B
<1>4. /\ Push(Remaining, s) \in Seq(Frames)
      /\ Meets(Push(Remaining, s), W) <=> Remaining \in W \/ Meets(s, W)
      /\ Fine(Push(Remaining, s), W, B) <=> Fine(s, W, B) /\ Remaining \notin B /\ ~(Remaining \in W /\ Meets(s, W))
  BY <1>1, FinePush
<1>5. /\ Meets(stack, W) <=> Top \in W \/ Meets(s, W)
      /\ Fine(stack, W, B) <=> Fine(s, W, B) /\ Top \notin B /\ ~(Top \in W /\ Meets(s, W))
  BY <1>1, FineFirst DEF s
<1>6. /\ Has(Top, c) <=> c = Current \/ Has(Remaining, c)
      /\ Proper(Top, c, r) => Proper(Remaining, c, r)
      /\ Proper(Top, c, r) /\ c = Current => ~Has(Remaining, c)
  BY CurrentFirst
<1>7. c # Current => /\ Meets(Push(Remaining, s), W) <=> Meets(stack, W)
                     /\ Fine(stack, W, B) => Fine(Push(Remaining, s), W, B)
  BY <1>2, <1>3, <1>4, <1>5, <1>6
<1>8. c = Current => Meets(stack, W)
  BY <1>2, <1>5, <1>6
<1>9. c = Current /\ Fine(stack, W, B) => /\ Proper(Top, c, r)
                                         /\ ~Meets(Push(Remaining, s), W)
                                         /\ Fine(Push(Remaining, s), W, B)
  BY <1>2, <1>3, <1>4, <1>5, <1>6
<1> QED
  BY <1>4, <1>7, <1>8, <1>9 DEF Same, Stacked, s, W, B

LEMMA RunProgress ==
    ASSUME CoreType, Passing \/ Visiting, NEW c \in Id, NEW r, HeldOnce(c, r)
    PROVE  Progress(c, r)
<1> DEFINE s == Push(Remaining, Tail(stack))
<1>0. Busy /\ runs \in [Id -> Nat] /\ Current \in Id /\ UNCHANGED deferred
  BY BusyParts DEF CoreType, Passing, Visiting
<1>1. s \in Seq(Frames)
  BY <1>0, RemainingSame
<1>2. Same(stack', s, c, r)
  <2>1. CASE Passing
    BY <1>1, <2>1, SameGrown DEF Passing
  <2>2. CASE Visiting
    <3>1. storage' \in Storages
      BY <1>0, <2>2, BusyParts DEF Visiting, CoreType
    <3>2. User(Current, storage') \in Frames /\ User(Current, storage').k = "user"
      BY <1>0, <3>1, FrameTypes DEF User
    <3>3. User(Current, storage') \notin FramesWith(c)
      BY <3>2, FramesWithout
    <3> QED
      BY <1>1, <2>2, <3>2, <3>3, SamePush DEF Visiting
  <2> QED
    BY <2>1, <2>2
<1>3. ASSUME c # Current PROVE Progress(c, r)
  <2>1. Same(s, stack, c, r)
    BY <1>0, <1>3, RemainingSame
  <2>2. Same(stack', stack, c, r)
    BY <1>2, <2>1 DEF Same
  <2>3. runs'[c] = runs[c]
    BY <1>0, <1>3 DEF Passing, Visiting
  <2> QED
    BY <1>0, <2>2, <2>3 DEF Progress, HeldOnce, Held, Stacked, Deferred, Same
<1>4. ASSUME c = Current PROVE Progress(c, r)
  <2>1. Fine(stack, FramesWith(c), BadFrames(c, r))
    BY DEF HeldOnce
  <2>2. /\ Stacked(c) /\ Proper(Top, c, r)
        /\ ~Meets(s, FramesWith(c)) /\ Fine(s, FramesWith(c), BadFrames(c, r))
    BY <1>0, <1>4, <2>1, RemainingSame
  <2>3. ~Meets(stack', FramesWith(c)) /\ Fine(stack', FramesWith(c), BadFrames(c, r))
    BY <1>2, <2>2 DEF Same
  <2>4. Held(c) /\ ~Held(c)' /\ HeldOnce(c, r)'
    BY <1>0, <2>2, <2>3 DEF Held, HeldOnce, Stacked, Deferred
  <2>5. Top.res = r /\ (In(Top.cans, c) => r = "Canceled") /\ (Top.cans # <<>> => In(Top.cans, c))
    BY <1>0, <1>4, <2>2, CurrentFirst DEF Proper
  <2>6. CASE Passing
    <3>1. kind[c] \notin WithUserCode \/ r \notin Triggers(kind[c])
      BY <1>4, <2>5, <2>6 DEF Passing, WithUserCode
    <3>2. runs'[c] = runs[c]
      BY <2>6 DEF Passing
    <3> QED
      BY <1>0, <1>4, <2>4, <2>5, <3>1, <3>2 DEF Progress
  <2>7. CASE Visiting
    <3>1. r \in Triggers(kind[c])
      <4>1. CASE Top.cans = <<>>
        BY <1>4, <2>5, <2>7, <4>1 DEF Visiting
      <4>2. CASE Top.cans # <<>>
        <5>1. kind[c] = "on_cancel" /\ r = "Canceled"
          BY <1>4, <2>5, <2>7, <4>2 DEF Visiting
        <5> QED
          BY <5>1 DEF Triggers
      <4> QED
        BY <4>1, <4>2
    <3>2. runs'[c] = runs[c] + 1
      BY <1>0, <1>4, <2>7 DEF Visiting
    <3> QED
      BY <1>0, <1>4, <2>4, <2>5, <3>1, <3>2 DEF Progress
  <2> QED
    BY <2>6, <2>7
<1> QED
  BY <1>3, <1>4
(* Progress when the innermost call, which does not have c, ends, or when  *)
(* another is made that does not have c.                                   *)
LEMMA SimpleProgress ==
    ASSUME CoreType, NEW c, NEW r, HeldOnce(c, r),
           \/ Calling \/ Returning \/ Leaving \/ WithReturning \/ \E v \in Storages : WithEntering(v)
    PROVE  Progress(c, r)
<1>0. stack \in Seq(Frames) /\ storage \in Storages
  BY DEF CoreType
<1>1. CASE Calling
  BY <1>0, <1>1, SameGrown, SameProgress DEF Calling
<1>2. CASE Returning
  <2>1. Tail(stack) \in Seq(Frames) /\ Same(Tail(stack), stack, c, r)
    BY <1>0, <1>2, FramesWithout, SameBelow DEF Returning, Top
  <2>2. Same(stack', Tail(stack), c, r)
    BY <1>2, <2>1, SameGrown DEF Returning
  <2>3. Same(stack', stack, c, r)
    BY <2>1, <2>2 DEF Same
  <2> QED
    BY <1>2, <2>3, SameProgress DEF Returning
<1>3. CASE Leaving \/ WithReturning
  <2>1. stack # <<>> /\ Head(stack) \notin FramesWith(c)
    BY <1>3, FramesWithout DEF Leaving, WithReturning, Frame
  <2>2. Same(stack', stack, c, r)
    BY <1>0, <1>3, <2>1, SameBelow DEF Leaving, WithReturning
  <2> QED
    BY <1>3, <2>2, SameProgress DEF Leaving, WithReturning
<1>4. ASSUME NEW v \in Storages, WithEntering(v) PROVE Progress(c, r)
  <2>1. With(storage, v) \in Frames /\ With(storage, v).k = "with"
    BY <1>0, FrameTypes DEF With
  <2>2. With(storage, v) \notin FramesWith(c)
    BY <2>1, FramesWithout
  <2>3. Same(stack', stack, c, r)
    BY <1>0, <1>4, <2>1, <2>2, SamePush DEF WithEntering
  <2> QED
    BY <1>4, <2>3, SameProgress DEF WithEntering
<1> QED
  BY <1>1, <1>2, <1>3, <1>4

LEMMA CancelProgress ==
    ASSUME CoreType, NEW c, NEW r, HeldOnce(c, r), Traversing \/ Continuing
    PROVE  Progress(c, r)
<1> DEFINE s == Tail(stack)
           W == BatchesWith(c)
           B == BadBatches(c, r)
<1>0. /\ stack \in Seq(Frames) /\ storage \in Storages /\ stack # <<>> /\ Top = Head(stack)
      /\ Top \in Frames /\ s \in Seq(Frames) /\ Top.k \in {"traverse", "phase2"}
  BY DEF CoreType, Traversing, Continuing, Frame, Top
<1>1. stack = Push(Top, s)
  BY <1>0, FirstOfList
<1>2. CASE Traversing
  <2>1. Top.k = "traverse" /\ Top.root \in Id /\ Top.acc \in Seq(Batch)
    BY <1>0, <1>2, FrameParts DEF Traversing, Frame, Top
  <2>2. ASSUME NEW f \in Frames, stack' = Push(f, s),
               (f.k = "traverse" /\ f.acc = Top.acc) \/ (f.k = "phase2" /\ f.todo = Top.acc)
        PROVE  Same(stack', stack, c, r)
    <3>1. /\ f \in FramesWith(c) <=> Meets(Top.acc, W)
          /\ f \in BadFrames(c, r) <=> ~Fine(Top.acc, W, B)
      BY <2>2, FrameHas
    <3>2. /\ Top \in FramesWith(c) <=> Meets(Top.acc, W)
          /\ Top \in BadFrames(c, r) <=> ~Fine(Top.acc, W, B)
      BY <1>0, <2>1, FrameHas
    <3>3. Same(Push(f, s), Push(Top, s), c, r)
      BY <1>0, <3>1, <3>2, SamePush
    <3> QED
      BY <1>1, <2>2, <3>3
  <2>3. ASSUME NEW todo \in Seq(Id), stack' = Push(Traverse(Top.root, todo, Top.acc), s)
        PROVE  Same(stack', stack, c, r)
    <3>1. PICK f : f = Traverse(Top.root, todo, Top.acc)
      OBVIOUS
    <3>2. f \in Frames
      BY <2>1, <3>1, FrameTypes
    <3>3. f.k = "traverse" /\ f.acc = Top.acc
      BY <3>1 DEF Traverse
    <3>4. stack' = Push(f, s)
      BY <2>3, <3>1
    <3> HIDE DEF s
    <3> QED
      BY <2>2, <3>2, <3>3, <3>4
  <2>4. ASSUME stack' = Push(Phase2(Top.acc), s)
        PROVE  Same(stack', stack, c, r)
    <3> DEFINE f == Phase2(Top.acc)
    <3>1. f \in Frames /\ f.k = "phase2" /\ f.todo = Top.acc
      BY <2>1, FrameTypes DEF Phase2
    <3> HIDE DEF f
    <3> QED
      BY <2>2, <2>4, <3>1 DEF f
  <2>5. Same(stack', stack, c, r)
    BY <1>2, <2>3, <2>4 DEF Traversing
  <2> QED
    BY <1>2, <2>5, SameProgress DEF Traversing
<1>3. CASE Continuing
  <2> DEFINE b == Head(Top.todo)
             rest == Tail(Top.todo)
             f == Phase2(rest)
             g == RunFrame(b)
             h == Leave(storage)
             s1 == Push(f, s)
             s2 == Push(h, s1)
             V == FramesWith(c)
             A == BadFrames(c, r)
  <2>1. Top.k = "phase2" /\ Top.todo \in Seq(Batch) /\ Top.todo # <<>>
    BY <1>0, <1>3, FrameParts DEF Continuing, Frame, Top
  <2>2. /\ b \in Batch /\ rest \in Seq(Batch)
        /\ Meets(Top.todo, W) <=> b \in W \/ Meets(rest, W)
        /\ Fine(Top.todo, W, B) <=> Fine(rest, W, B) /\ b \notin B /\ ~(b \in W /\ Meets(rest, W))
    BY <2>1, FineFirst
  <2>3. /\ Top \in V <=> Meets(Top.todo, W)
        /\ Top \in A <=> ~Fine(Top.todo, W, B)
    BY <1>0, <2>1, FrameHas
  <2>4. f \in Frames /\ f.k = "phase2" /\ f.todo = rest
    BY <2>2, FrameTypes DEF Phase2
  <2>5. (f \in V <=> Meets(rest, W)) /\ (f \in A <=> ~Fine(rest, W, B))
    <3> HIDE DEF f, rest
    <3> QED
      BY <2>4, FrameHas
  <2>6. g \in Frames /\ (g \in V <=> b \in W) /\ (g \in A <=> b \in B)
    BY <2>2, RunFrameHas
  <2>7. h \in Frames /\ h.k = "leave"
    BY <1>0, FrameTypes DEF Leave
  <2>8. h \notin V
    BY <2>7, FramesWithout
  <2>9. stack' = Push(g, s2)
    BY <1>3 DEF Continuing
  <2>10. A \subseteq V
    BY BadOnes
  <2> HIDE DEF b, rest, f, g, h, V, A, W, B, s
  <2>11. /\ s1 \in Seq(Frames)
         /\ Meets(s1, V) <=> f \in V \/ Meets(s, V)
         /\ Fine(s1, V, A) <=> Fine(s, V, A) /\ f \notin A /\ ~(f \in V /\ Meets(s, V))
    BY <1>0, <2>4, FinePush
  <2> HIDE DEF s1
  <2>12. /\ s2 \in Seq(Frames)
         /\ Meets(s2, V) <=> h \in V \/ Meets(s1, V)
         /\ Fine(s2, V, A) <=> Fine(s1, V, A) /\ h \notin A /\ ~(h \in V /\ Meets(s1, V))
    BY <2>7, <2>11, FinePush
  <2> HIDE DEF s2
  <2>13. /\ Meets(stack', V) <=> g \in V \/ Meets(s2, V)
         /\ Fine(stack', V, A) <=> Fine(s2, V, A) /\ g \notin A /\ ~(g \in V /\ Meets(s2, V))
    BY <2>6, <2>9, <2>12, FinePush
  <2>14. /\ Meets(stack, V) <=> Top \in V \/ Meets(s, V)
         /\ Fine(stack, V, A) <=> Fine(s, V, A) /\ Top \notin A /\ ~(Top \in V /\ Meets(s, V))
    BY <1>0, <1>1, FinePush
  <2>15. Meets(stack', V) <=> Meets(stack, V)
    BY <2>2, <2>3, <2>5, <2>6, <2>8, <2>11, <2>12, <2>13, <2>14
  <2>16. Fine(stack, V, A) => Fine(stack', V, A)
    BY <2>2, <2>3, <2>5, <2>6, <2>8, <2>10, <2>11, <2>12, <2>13, <2>14
  <2>17. Same(stack', stack, c, r)
    BY <2>15, <2>16 DEF Same, V, A
  <2> QED
    BY <1>3, <2>17, SameProgress DEF Continuing
<1> QED
  BY <1>2, <1>3

LEMMA DrainProgress ==
    ASSUME CoreType, NEW c, NEW r, HeldOnce(c, r), Draining
    PROVE  Progress(c, r)
<1> DEFINE b == Head(deferred)
           f == RunFrame(b)
           V == FramesWith(c)
           A == BadFrames(c, r)
           W == BatchesWith(c)
           B == BadBatches(c, r)
<1>1. stack \in Seq(Frames) /\ deferred \in Seq(Batch) /\ deferred # <<>>
  BY DEF CoreType, Draining
<1>2. /\ b \in Batch
      /\ Meets(deferred, W) <=> b \in W \/ Meets(Tail(deferred), W)
      /\ Fine(deferred, W, B) <=> Fine(Tail(deferred), W, B) /\ b \notin B /\ ~(b \in W /\ Meets(Tail(deferred), W))
  BY <1>1, FineFirst
<1>3. f \in Frames /\ (f \in V <=> b \in W) /\ (f \in A <=> b \in B)
  BY <1>2, RunFrameHas
<1>4. stack' = Push(f, stack) /\ deferred' = Tail(deferred) /\ runs' = runs
  BY DEF Draining
<1>5. /\ Fine(stack, V, A) /\ Fine(deferred, W, B) /\ ~(Meets(stack, V) /\ Meets(deferred, W))
      /\ Held(c) <=> Meets(stack, V) \/ Meets(deferred, W)
  BY DEF HeldOnce, Held, Stacked, Deferred
<1> HIDE DEF f, b, V, A, W, B
<1>6. /\ Meets(stack', V) <=> f \in V \/ Meets(stack, V)
      /\ Fine(stack', V, A) <=> Fine(stack, V, A) /\ f \notin A /\ ~(f \in V /\ Meets(stack, V))
  BY <1>1, <1>3, <1>4, FinePush
<1>7. /\ Fine(stack', V, A) /\ Fine(deferred', W, B) /\ ~(Meets(stack', V) /\ Meets(deferred', W))
      /\ Meets(stack', V) \/ Meets(deferred', W) <=> Meets(stack, V) \/ Meets(deferred, W)
  BY <1>2, <1>3, <1>4, <1>5, <1>6
<1>8. HeldOnce(c, r)' /\ (Held(c)' <=> Held(c))
  BY <1>5, <1>7 DEF HeldOnce, Held, Stacked, Deferred, V, A, W, B
<1> QED
  BY <1>4, <1>8 DEF Progress

(* An exception or the end of the program cuts calls off: what was to run  *)
(* in them does not.                                                       *)
LEMMA CutProgress ==
    ASSUME CoreType, NEW c, NEW r, HeldOnce(c, r), Abandoning \/ Raising
    PROVE  Progress(c, r)
<1> DEFINE V == FramesWith(c)
           A == BadFrames(c, r)
<1>0. stack \in Seq(Frames) /\ UNCHANGED <<deferred, runs>> /\ ~Uncut
  BY DEF CoreType, Abandoning, Raising, Uncut
<1>1. (Meets(stack', V) => Meets(stack, V)) /\ (Fine(stack, V, A) => Fine(stack', V, A))
  <2> HIDE DEF V, A
  <2>1. CASE stack' = <<>>
    BY <2>1, FineNothing
  <2>2. ASSUME NEW i \in DOMAIN stack, stack' = SubSeq(stack, i, Len(stack))
        PROVE  (Meets(stack', V) => Meets(stack, V)) /\ (Fine(stack, V, A) => Fine(stack', V, A))
    BY <1>0, <2>2, SuffixMeets DEF Fine
  <2>3. CASE Abandoning
    <3>1. Leave(0) \in Frames /\ Leave(0).k = "leave" /\ <<>> \in Seq(Frames)
      BY FrameTypes, ConstantTypes DEF Leave
    <3>2. Leave(0) \notin V /\ A \subseteq V
      BY <3>1, FramesWithout, BadOnes DEF V, A
    <3>3. stack' = Push(Leave(0), <<>>)
      BY <2>3 DEF Abandoning
    <3> QED
      BY <3>1, <3>2, <3>3, FinePush, FineNothing
  <2> QED
    BY <2>1, <2>2, <2>3 DEF Raising
<1> QED
  BY <1>0, <1>1 DEF Progress, HeldOnce, Held, Stacked, Deferred

LEMMA QuietProgress ==
    ASSUME CoreType, QuietSteps, NEW c \in Id, NEW r, HeldOnce(c, r)
    PROVE  Progress(c, r)
<1>1. CASE Calling \/ Returning \/ Leaving \/ WithReturning \/ \E v \in Storages : WithEntering(v)
  BY <1>1, SimpleProgress
<1>2. CASE Traversing \/ Continuing
  BY <1>2, CancelProgress
<1>3. CASE Passing \/ Visiting
  BY <1>3, RunProgress
<1>4. CASE Draining
  BY <1>4, DrainProgress
<1>5. CASE Abandoning \/ Raising
  BY <1>5, CutProgress
<1> QED
  BY <1>1, <1>2, <1>3, <1>4, <1>5 DEF QuietSteps

(* The callbacks of a promise that gets its result enter the loop.         *)
LEMMA BatchProgress ==
    ASSUME CoreType, NEW b \in Batch, BatchSteps(b), NEW c \in Id, NEW r, HeldOnce(c, r),
           b \notin BadBatches(c, r), ~(b \in BatchesWith(c) /\ Held(c))
    PROVE  /\ HeldOnce(c, r)'
           /\ Held(c)' <=> Held(c) \/ b \in BatchesWith(c)
           /\ runs' = runs
<1> DEFINE V == FramesWith(c)
           A == BadFrames(c, r)
           W == BatchesWith(c)
           B == BadBatches(c, r)
<1>0. /\ stack \in Seq(Frames) /\ deferred \in Seq(Batch) /\ storage \in Storages
      /\ runs' = runs
  BY DEF CoreType, BatchSteps, Entering, Deferring, Collecting
<1>1. /\ Fine(stack, V, A) /\ Fine(deferred, W, B) /\ ~(Meets(stack, V) /\ Meets(deferred, W))
      /\ b \notin B /\ ~(b \in W /\ (Meets(stack, V) \/ Meets(deferred, W)))
  BY DEF HeldOnce, Held, Stacked, Deferred
<1>2. SUFFICES /\ Fine(stack', V, A) /\ Fine(deferred', W, B) /\ ~(Meets(stack', V) /\ Meets(deferred', W))
               /\ Meets(stack', V) \/ Meets(deferred', W) <=> Meets(stack, V) \/ Meets(deferred, W) \/ b \in W
  BY <1>0 DEF HeldOnce, Held, Stacked, Deferred
<1>3. RunFrame(b) \in Frames /\ (RunFrame(b) \in V <=> b \in W) /\ (RunFrame(b) \in A <=> b \in B)
  BY RunFrameHas
<1>4. Leave(storage) \in Frames /\ Leave(storage).k = "leave"
  BY <1>0, FrameTypes DEF Leave
<1>5. Leave(storage) \notin V /\ A \subseteq V
  BY <1>4, FramesWithout, BadOnes
<1>6. CASE Deferring(b)
  <2>1. deferred' = Append(deferred, b) /\ stack' = stack
    BY <1>6 DEF Deferring
  <2>2. /\ Meets(deferred', W) <=> b \in W \/ Meets(deferred, W)
        /\ Fine(deferred', W, B) <=> Fine(deferred, W, B) /\ b \notin B /\ ~(b \in W /\ Meets(deferred, W))
    <3> HIDE DEF W, B
    <3> QED
      BY <1>0, <2>1, FineAppend
  <2> HIDE DEF V, A, W, B
  <2> QED
    BY <1>1, <2>1, <2>2
<1>7. CASE Entering(b)
  <2>1. PICK s \in {stack, Tail(stack)} : /\ stack' = Push(RunFrame(b), Push(Leave(storage), s))
                                          /\ s # stack => Frame("resolve")
    BY <1>7 DEF Entering
  <2>2. s \in Seq(Frames) /\ (Meets(s, V) <=> Meets(stack, V)) /\ Fine(s, V, A)
    <3>1. CASE s = stack
      BY <1>0, <1>1, <3>1
    <3>2. CASE s # stack
      <4>1. s = Tail(stack) /\ stack # <<>> /\ Head(stack).k = "resolve" /\ Head(stack) \in Frames
        BY <1>0, <2>1, <3>2 DEF Frame
      <4>2. Head(stack) \notin V
        BY <4>1 DEF FramesWith
      <4> QED
        BY <1>0, <1>1, <4>1, <4>2, SameBelow DEF Same
    <3> QED
      BY <3>1, <3>2
  <2>3. deferred' = deferred
    BY <1>7 DEF Entering
  <2> DEFINE f == RunFrame(b)
             h == Leave(storage)
             s1 == Push(h, s)
  <2> HIDE DEF f, h, V, A, W, B
  <2>4. /\ s1 \in Seq(Frames)
        /\ Meets(s1, V) <=> h \in V \/ Meets(s, V)
        /\ Fine(s1, V, A) <=> Fine(s, V, A) /\ h \notin A /\ ~(h \in V /\ Meets(s, V))
    BY <1>4, <2>2, FinePush DEF h
  <2>5. stack' = Push(f, s1)
    BY <2>1 DEF f, h
  <2> HIDE DEF s1
  <2>6. /\ Meets(stack', V) <=> f \in V \/ Meets(s1, V)
        /\ Fine(stack', V, A) <=> Fine(s1, V, A) /\ f \notin A /\ ~(f \in V /\ Meets(s1, V))
    BY <1>3, <2>4, <2>5, FinePush DEF f
  <2> QED
    BY <1>1, <1>3, <1>5, <2>2, <2>3, <2>4, <2>6 DEF f, h
<1>8. CASE Collecting(b)
  <2> DEFINE s == Tail(stack)
  <2>1. PICK todo \in Seq(Id) : stack' = Push(Traverse(Top.root, todo, Push(b, Top.acc)), s)
    BY <1>8 DEF Collecting
  <2>2. Top \in Frames /\ Top.k = "traverse" /\ s \in Seq(Frames) /\ stack # <<>> /\ Top = Head(stack)
    BY <1>0, <1>8 DEF Collecting, Frame, Top
  <2>3. Top.root \in Id /\ Top.acc \in Seq(Batch)
    BY <2>2, FrameParts
  <2>4. /\ Push(b, Top.acc) \in Seq(Batch)
        /\ Meets(Push(b, Top.acc), W) <=> b \in W \/ Meets(Top.acc, W)
        /\ Fine(Push(b, Top.acc), W, B) <=> Fine(Top.acc, W, B) /\ b \notin B /\ ~(b \in W /\ Meets(Top.acc, W))
    <3>1. PICK acc \in Seq(Batch) : acc = Top.acc
      BY <2>3
    <3> HIDE DEF W, B
    <3>2. /\ Push(b, acc) \in Seq(Batch)
          /\ Meets(Push(b, acc), W) <=> b \in W \/ Meets(acc, W)
          /\ Fine(Push(b, acc), W, B) <=> Fine(acc, W, B) /\ b \notin B /\ ~(b \in W /\ Meets(acc, W))
      BY FinePush
    <3> QED
      BY <3>1, <3>2
  <2> DEFINE f == Traverse(Top.root, todo, Push(b, Top.acc))
  <2>5. f \in Frames /\ f.k = "traverse" /\ f.acc = Push(b, Top.acc)
    BY <2>3, <2>4, FrameTypes DEF Traverse
  <2> HIDE DEF f
  <2>6. (f \in V <=> Meets(Push(b, Top.acc), W)) /\ (f \in A <=> ~Fine(Push(b, Top.acc), W, B))
    BY <2>5, FrameHas
  <2>7. (Top \in V <=> Meets(Top.acc, W)) /\ (Top \in A <=> ~Fine(Top.acc, W, B))
    BY <2>2, FrameHas
  <2>8. stack' = Push(f, s) /\ deferred' = deferred
    BY <1>8, <2>1 DEF Collecting, f
  <2> HIDE DEF V, A, W, B, s
  <2>9. /\ Meets(stack', V) <=> f \in V \/ Meets(s, V)
        /\ Fine(stack', V, A) <=> Fine(s, V, A) /\ f \notin A /\ ~(f \in V /\ Meets(s, V))
    BY <2>2, <2>5, <2>8, FinePush
  <2>10. /\ Meets(stack, V) <=> Top \in V \/ Meets(s, V)
         /\ Fine(stack, V, A) <=> Fine(s, V, A) /\ Top \notin A /\ ~(Top \in V /\ Meets(s, V))
    BY <1>0, <2>2, FineFirst DEF s
  <2> QED
    BY <1>1, <2>4, <2>6, <2>7, <2>8, <2>9, <2>10
<1> QED
  BY <1>6, <1>7, <1>8 DEF BatchSteps
-----------------------------------------------------------------------------
(* The lists of the promises, and what the steps do to them.               *)
LEMMA NotHeld ==
    ASSUME NEW c, ~Held(c)
    PROVE  \A r : HeldOnce(c, r)
  BY BadOnes, FineWithout DEF Held, HeldOnce, Stacked, Deferred

LEMMA TrackedKinds ==
    /\ \A k \in Tracked : k \notin Removable /\ k # "free"
    /\ \A k : Triggers(k) \subseteq Results
    /\ Triggers("on_cancel") = {"Canceled"}
    /\ "Pending" \notin Results /\ "none" \notin Results
  BY DEF Tracked, WithUserCode, Sequential, Observers, Removable, Triggers, Results

(* What Progress says of a callback whose promise stays as it is.          *)
LEMMA RunsKept ==
    ASSUME NEW c \in Id, kind[c] \in Tracked, kind'[c] = kind[c], runs \in [Id -> Nat], program' = program,
           NEW r, r = Outcome(c), r = Outcome(c)', Progress(c, r), RunsOnce(c),
           r = "Pending" => Attached(c, Source(c))'
    PROVE  RunsOnce(c)' /\ HeldOnce(c, Outcome(c))'
<1>1. HeldOnce(c, Outcome(c))'
  BY DEF Progress
<1>2. runs[c] \in {0, 1} /\ (Uncut' <=> Uncut)
  BY DEF RunsOnce, Uncut
<1>3. RunsOnce(c)'
  BY <1>2 DEF RunsOnce, Progress
<1> QED
  BY <1>1, <1>3

LEMMA ClearingLists ==
    ASSUME CoreType, Clearing, NEW p \in Id
    PROVE  /\ \A x : kind[x] \notin Removable => (In(regular'[p], x) <=> In(regular[p], x))
           /\ \A x : In(regular'[p], x) => In(regular[p], x)
           /\ \A x : Once(regular[p], x) => Once(regular'[p], x)
<1>0. regular \in [Id -> Seq(Id)] /\ regular[p] \in Seq(Id) /\ <<>> \in Seq(Id)
  BY DEF CoreType
<1>1. CASE UNCHANGED regular
  BY <1>1
<1>2. ASSUME NEW q \in Id, OnlyRemovable(q), regular' = [regular EXCEPT ![q] = <<>>]
      PROVE  /\ \A x : kind[x] \notin Removable => (In(regular'[p], x) <=> In(regular[p], x))
             /\ \A x : In(regular'[p], x) => In(regular[p], x)
             /\ \A x : Once(regular[p], x) => Once(regular'[p], x)
  <2>1. CASE p # q
    BY <1>0, <1>2, <2>1
  <2>2. CASE p = q
    <3>1. regular'[p] = <<>>
      BY <1>0, <1>2, <2>2
    <3>2. \A i \in DOMAIN regular[p] : regular[p][i] = Head(regular[p])
      BY <1>0, <1>2, <2>2 DEF OnlyRemovable
    <3>3. \A x : In(regular[p], x) => kind[x] \in Removable
      BY <1>2, <2>2, <3>2 DEF OnlyRemovable, In
    <3> QED
      BY <3>1, <3>3, EmptyList
  <2> QED
    BY <2>1, <2>2
<1>3. ASSUME NEW q \in Id, regular' = [regular EXCEPT ![q] = clean_up_callback_cells(regular[q])]
      PROVE  /\ \A x : kind[x] \notin Removable => (In(regular'[p], x) <=> In(regular[p], x))
             /\ \A x : In(regular'[p], x) => In(regular[p], x)
             /\ \A x : Once(regular[p], x) => Once(regular'[p], x)
  <2>1. CASE p # q
    BY <1>0, <1>3, <2>1
  <2>2. CASE p = q
    <3>1. regular'[p] = clean_up_callback_cells(regular[p])
      BY <1>0, <1>3, <2>2
    <3> QED
      BY <1>0, <3>1, CleanList
  <2> QED
    BY <2>1, <2>2
<1> QED
  BY <1>1, <1>2, <1>3 DEF Clearing

LEMMA MergingLists ==
    ASSUME CoreType, NEW p \in Id, NEW q \in Id, Merging(p, q)
    PROVE  /\ \A x : ~In(regular'[p], x) /\ ~In(cancels'[p], x) /\ Once(regular'[p], x) /\ Once(cancels'[p], x)
           /\ \A z \in Id : z # p /\ z # q => regular'[z] = regular[z] /\ cancels'[z] = cancels[z]
           /\ \A x : In(cancels'[q], x) <=> In(cancels[q], x) \/ In(cancels[p], x)
           /\ \A x : In(regular'[q], x) => In(regular[q], x) \/ In(regular[p], x)
           /\ \A x : kind[x] \notin Removable /\ (In(regular[q], x) \/ In(regular[p], x)) => In(regular'[q], x)
           /\ \A x : Once(regular[q], x) /\ Once(regular[p], x) /\ ~(In(regular[q], x) /\ In(regular[p], x))
                        => Once(regular'[q], x)
           /\ \A x : Once(cancels[q], x) /\ Once(cancels[p], x) /\ ~(In(cancels[q], x) /\ In(cancels[p], x))
                        => Once(cancels'[q], x)
<1> DEFINE R == regular[q] \o regular[p]
           C == cancels[q] \o cancels[p]
<1>a. p # q
  BY DEF Merging
<1>b. regular \in [Id -> Seq(Id)] /\ cancels \in [Id -> Seq(Id)]
  BY DEF CoreType
<1>0. /\ regular \in [Id -> Seq(Id)] /\ cancels \in [Id -> Seq(Id)] /\ <<>> \in Seq(Id) /\ p # q
      /\ regular[q] \in Seq(Id) /\ regular[p] \in Seq(Id) /\ cancels[q] \in Seq(Id) /\ cancels[p] \in Seq(Id)
  BY <1>a, <1>b
<1>1. /\ R \in Seq(Id)
      /\ \A x : In(R, x) <=> In(regular[q], x) \/ In(regular[p], x)
      /\ \A x : Once(R, x) <=> Once(regular[q], x) /\ Once(regular[p], x) /\ ~(In(regular[q], x) /\ In(regular[p], x))
  BY <1>0, ConcatList
<1>2. /\ C \in Seq(Id)
      /\ \A x : In(C, x) <=> In(cancels[q], x) \/ In(cancels[p], x)
      /\ \A x : Once(C, x) <=> Once(cancels[q], x) /\ Once(cancels[p], x) /\ ~(In(cancels[q], x) /\ In(cancels[p], x))
  BY <1>0, ConcatList
<1>3. PICK all \in {R, clean_up_callback_cells(R)} : regular' = [regular EXCEPT ![q] = all, ![p] = <<>>]
  BY DEF Merging
<1>4. cancels' = [cancels EXCEPT ![q] = C, ![p] = <<>>]
  BY DEF Merging
<1> HIDE DEF R, C
<1>5. /\ all \in Seq(Id)
      /\ \A x : In(all, x) => In(R, x)
      /\ \A x : kind[x] \notin Removable /\ In(R, x) => In(all, x)
      /\ \A x : Once(R, x) => Once(all, x)
  BY <1>1, <1>3, CleanList
<1>6. /\ regular'[q] = all /\ regular'[p] = <<>>
      /\ \A z \in Id : z # p /\ z # q => regular'[z] = regular[z]
  BY <1>0, <1>3, <1>5, TwoUpdates
<1>7. /\ cancels'[q] = C /\ cancels'[p] = <<>>
      /\ \A z \in Id : z # p /\ z # q => cancels'[z] = cancels[z]
  BY <1>0, <1>2, <1>4, TwoUpdates
<1>8. /\ \A x : ~In(regular'[p], x) /\ ~In(cancels'[p], x) /\ Once(regular'[p], x) /\ Once(cancels'[p], x)
      /\ \A z \in Id : z # p /\ z # q => regular'[z] = regular[z] /\ cancels'[z] = cancels[z]
  BY <1>6, <1>7, EmptyList
<1> QED
  BY <1>1, <1>2, <1>5, <1>6, <1>7, <1>8

LEMMA AddedLists ==
    ASSUME CoreType, NEW ps \in Seq(Id), next \in Id, add_callback(ps), NEW z \in Id
    PROVE  /\ \A x : x # next => (In(regular'[z], x) <=> In(regular[z], x))
           /\ \A x : x # next /\ Once(regular[z], x) => Once(regular'[z], x)
           /\ Occurrences(ps, z) = 0 => regular'[z] = regular[z]
           /\ Occurrences(ps, z) = 1 => regular'[z] = Push(next, regular[z])
<1> DEFINE n == Occurrences(ps, z)
           A == [i \in 1..n |-> next]
<1>1. n \in Nat
  <2>1. IsFiniteSet(1..Len(ps))
    BY FS_Interval
  <2>2. {i \in DOMAIN ps : rep[ps[i]] = z /\ state[z] = "Pending"} \subseteq 1..Len(ps)
    OBVIOUS
  <2> QED
    BY <2>1, <2>2, FS_Subset, FS_CardinalityType DEF Occurrences
<1>2. regular'[z] = A \o regular[z] /\ regular[z] \in Seq(Id)
  BY DEF add_callback, CoreType
<1> HIDE DEF n
<1>3. A \in Seq(Id)
  BY <1>1
<1>4. \A x : x # next => ~In(A, x) /\ Once(A, x)
  BY DEF In, Once
<1>5. n = 0 => A = <<>>
  BY <1>1
<1>6. n = 1 => A = <<next>>
  BY <1>1
<1> HIDE DEF A
<1>7. \A x : /\ In(A \o regular[z], x) <=> In(A, x) \/ In(regular[z], x)
             /\ Once(A \o regular[z], x) <=> /\ Once(A, x) /\ Once(regular[z], x)
                                             /\ ~(In(A, x) /\ In(regular[z], x))
  BY <1>2, <1>3, ConcatList
<1>8. n = 0 => regular'[z] = regular[z]
  BY <1>2, <1>5
<1>9. n = 1 => regular'[z] = Push(next, regular[z])
  BY <1>2, <1>6 DEF Push
<1> QED
  BY <1>2, <1>4, <1>7, <1>8, <1>9 DEF n

(* The new callback is put in the list of one promise.                     *)
LEMMA AddedOne ==
    ASSUME CoreType, next \in Id, NEW p \in Id, Pending(p), add_callback(<<p>>),
           \A z \in Id : ~In(regular[z], next)
    PROVE  \A z \in Id : /\ In(regular'[z], next) <=> z = rep[p]
                         /\ Once(regular'[z], next)
<1> SUFFICES ASSUME NEW z \in Id PROVE (In(regular'[z], next) <=> z = rep[p]) /\ Once(regular'[z], next)
  OBVIOUS
<1> DEFINE ps == <<p>>
           K == {i \in DOMAIN ps : rep[ps[i]] = z /\ state[z] = "Pending"}
<1>1. ps \in Seq(Id) /\ DOMAIN ps = {1} /\ ps[1] = p
  OBVIOUS
<1>2. regular[z] \in Seq(Id) /\ \A x : ~In(regular[z], x) => Once(regular[z], x)
  BY DEF CoreType, In, Once
<1>3. CASE z = rep[p]
  <2>1. K = {1}
    BY <1>1, <1>3 DEF Pending, StateOf
  <2>2. Occurrences(ps, z) = 1
    BY <2>1, FS_Singleton DEF Occurrences
  <2>3. regular'[z] = Push(next, regular[z])
    BY <1>1, <2>2, AddedLists
  <2>4. /\ \A x : In(Push(next, regular[z]), x) <=> x = next \/ In(regular[z], x)
        /\ \A x : Once(regular[z], x) /\ (x = next => ~In(regular[z], x)) => Once(Push(next, regular[z]), x)
    BY <1>2, PushList
  <2> QED
    BY <1>2, <1>3, <2>3, <2>4
<1>4. CASE z # rep[p]
  <2>1. K = {}
    BY <1>1, <1>4
  <2>2. Occurrences(ps, z) = 0
    BY <2>1, FS_EmptySet DEF Occurrences
  <2>3. regular'[z] = regular[z]
    BY <1>1, <2>2, AddedLists
  <2> QED
    BY <1>2, <1>4, <2>3
<1> QED
  BY <1>3, <1>4
-----------------------------------------------------------------------------
(* Every step keeps every callback in one place.                           *)

(* Steps that change no promise, or only remove cells.                     *)
LEMMA QuietKept ==
    ASSUME CoreType, CallbackInv, program' = program,
           (KeepHeap /\ QuietSteps) \/ (Clearing /\ Returning)
    PROVE  CallbackInv'
<1>0. QuietSteps /\ runs \in [Id -> Nat] /\ UNCHANGED <<next, kind, args, state, rep, cancels>>
  BY DEF CoreType, QuietSteps, KeepHeap, Clearing
<1>1. \A p \in Id : /\ \A x : kind[x] \notin Removable => (In(regular'[p], x) <=> In(regular[p], x))
                    /\ \A x : In(regular'[p], x) => In(regular[p], x)
                    /\ \A x : Once(regular[p], x) => Once(regular'[p], x)
  BY ClearingLists DEF KeepHeap
<1>2. ASSUME NEW c \in Id, NEW r, HeldOnce(c, r) PROVE Progress(c, r)
  BY <1>0, <1>2, QuietProgress
<1>3. RepOK'
  BY <1>0 DEF CallbackInv, RepOK, Promises
<1>4. ASSUME NEW c \in Id, c >= next' PROVE FreeOK(c)'
  <2>1. FreeOK(c)
    BY <1>0, <1>4 DEF CallbackInv
  <2>2. Progress(c, "none")
    BY <1>2, <2>1, NotHeld DEF FreeOK
  <2>3. ~Held(c)' /\ runs'[c] = runs[c]
    BY <2>1, <2>2 DEF Progress, FreeOK
  <2>4. \A p \in Id : ~Attached(c, p)'
    BY <1>0, <1>1, <2>1 DEF FreeOK, Attached
  <2> QED
    BY <1>0, <2>1, <2>3, <2>4 DEF FreeOK
<1>5. ASSUME NEW c \in Id, kind'[c] \in Tracked PROVE TrackedOK(c)'
  <2>1. kind[c] \in Tracked /\ TrackedOK(c) /\ kind[c] \notin Removable /\ kind'[c] = kind[c]
    BY <1>0, <1>5, TrackedKinds DEF CallbackInv
  <2>2. PICK r : r = Outcome(c)
    OBVIOUS
  <2>3. r = Outcome(c)' /\ Source(c)' = Source(c)
    BY <1>0, <2>2 DEF Outcome, Source
  <2>4. Progress(c, r)
    BY <1>2, <2>1, <2>2 DEF TrackedOK
  <2>5. \A p \in Id : Attached(c, p)' <=> Attached(c, p)
    BY <1>0, <1>1, <2>1 DEF Attached
  <2>6. args'[c][1] \in Promises' /\ Source(c) \in Id
    BY <1>0, <2>1 DEF TrackedOK, Promises, Source, CoreType
  <2>7. AttachedOnce(c)
    BY <2>1 DEF TrackedOK
  <2>8. AttachedOnce(c)'
    BY <1>0, <1>1, <2>1, <2>2, <2>3, <2>5, <2>7 DEF AttachedOnce
  <2>9. r = "Pending" => Attached(c, Source(c))'
    BY <2>1, <2>2, <2>3, <2>5, <2>6 DEF TrackedOK, RunsOnce
  <2>10. RunsOnce(c)' /\ HeldOnce(c, Outcome(c))'
    BY <1>0, <2>1, <2>2, <2>3, <2>4, <2>9, RunsKept DEF TrackedOK
  <2> QED
    BY <2>6, <2>8, <2>10 DEF TrackedOK
<1> QED
  BY <1>3, <1>4, <1>5 DEF CallbackInv

LEMMA MergingKept ==
    ASSUME CoreType, CallbackInv, program' = program, NEW p \in Id, NEW q \in Id, Merging(p, q), Returning
    PROVE  CallbackInv'
<1>0. /\ QuietSteps /\ runs \in [Id -> Nat] /\ UNCHANGED <<next, kind, args>>
      /\ p # q /\ state[p] = "Pending" /\ state[q] = "Pending"
  BY DEF CoreType, QuietSteps, Merging
<1>a. /\ state \in [Id -> States] /\ rep \in [Id -> Id]
      /\ state'[p] = "Proxy" /\ \A x \in Id : x # p => state'[x] = state[x]
      /\ \A x \in Id : rep'[x] = IF rep[x] = p THEN q ELSE rep[x]
  BY DEF CoreType, Merging
<1>1. ASSUME NEW c \in Id, NEW r, HeldOnce(c, r) PROVE Progress(c, r)
  BY <1>0, <1>1, QuietProgress
<1>2. Promises' = Promises /\ p \in Promises /\ q \in Promises
  BY <1>0, <1>a DEF Promises
<1>3. RepOK'
  BY <1>2, <1>a DEF CallbackInv, RepOK, Promises
<1>4. ASSUME NEW c \in Id, c >= next' PROVE FreeOK(c)'
  <2>1. FreeOK(c)
    BY <1>0, <1>4 DEF CallbackInv
  <2>2. Progress(c, "none")
    BY <1>1, <2>1, NotHeld DEF FreeOK
  <2>3. ~Held(c)' /\ runs'[c] = runs[c]
    BY <2>1, <2>2 DEF Progress, FreeOK
  <2>4. ASSUME NEW z \in Id PROVE ~Attached(c, z)'
    BY <2>1, MergingLists DEF FreeOK, Attached
  <2>5. c # p /\ rep'[c] = c /\ state'[c] = "none"
    BY <1>0, <1>a, <2>1 DEF FreeOK
  <2> QED
    BY <1>0, <2>1, <2>3, <2>4, <2>5 DEF FreeOK
<1>5. ASSUME NEW c \in Id, kind'[c] \in Tracked PROVE TrackedOK(c)'
  <2>1. kind[c] \in Tracked /\ TrackedOK(c) /\ kind[c] \notin Removable /\ kind'[c] = kind[c]
    BY <1>0, <1>5, TrackedKinds DEF CallbackInv
  <2> DEFINE s == Source(c)
  <2>2. PICK r : r = Outcome(c)
    OBVIOUS
  <2>3. args'[c][1] \in Promises' /\ args[c][1] \in Id /\ s \in Id
    BY <1>0, <1>2, <1>a, <2>1 DEF TrackedOK, Promises, Source
  <2>4. Source(c)' = IF s = p THEN q ELSE s
    BY <1>0, <1>a, <2>3 DEF Source
  <2>5. r = Outcome(c)'
    BY <1>0, <1>a, <2>2, <2>3, <2>4 DEF Outcome
  <2>6. Progress(c, r)
    BY <1>1, <2>1, <2>2 DEF TrackedOK
  <2>7. \A z \in Id : Attached(c, z) => z = s /\ r = "Pending"
    BY <2>1, <2>2 DEF TrackedOK, AttachedOnce
  <2>f. \A z \in Id : Once(regular[z], c) /\ Once(cancels[z], c)
    BY <2>1 DEF TrackedOK, AttachedOnce
  <2>g. \A z \in Id : ~(In(regular[z], c) /\ In(cancels[z], c))
    BY <2>1 DEF TrackedOK, AttachedOnce
  <2>h. \A z \in Id : In(cancels[z], c) => kind[c] = "on_cancel"
    BY <2>1 DEF TrackedOK, AttachedOnce
  <2> HIDE DEF s
  <2>8. ~(Attached(c, p) /\ Attached(c, q))
    BY <1>0, <2>7
  <2>a. /\ ~In(regular'[p], c) /\ ~In(cancels'[p], c) /\ Once(regular'[p], c) /\ Once(cancels'[p], c)
        /\ In(cancels'[q], c) <=> In(cancels[q], c) \/ In(cancels[p], c)
        /\ In(regular'[q], c) <=> In(regular[q], c) \/ In(regular[p], c)
    BY <2>1, MergingLists
  <2>b. \A z \in Id : z # p /\ z # q => regular'[z] = regular[z] /\ cancels'[z] = cancels[z]
    BY MergingLists
  <2>c. ~(In(regular[q], c) /\ In(regular[p], c)) /\ ~(In(cancels[q], c) /\ In(cancels[p], c))
    BY <2>8 DEF Attached
  <2>d. Once(regular'[q], c)
    BY <2>c, <2>f, MergingLists
  <2>e. Once(cancels'[q], c)
    BY <2>c, <2>f, MergingLists
  <2>9. /\ ~Attached(c, p)'
        /\ Attached(c, q)' <=> Attached(c, p) \/ Attached(c, q)
        /\ \A z \in Id : z # p /\ z # q => (Attached(c, z)' <=> Attached(c, z))
    BY <2>a, <2>b DEF Attached
  <2>10. \A z \in Id : Attached(c, z)' => z = Source(c)' /\ r = "Pending"
    BY <1>0, <2>4, <2>7, <2>9
  <2>11. ASSUME NEW z \in Id
         PROVE  /\ Once(regular'[z], c) /\ Once(cancels'[z], c)
                /\ ~(In(regular'[z], c) /\ In(cancels'[z], c))
                /\ In(cancels'[z], c) => kind[c] = "on_cancel"
    <3>1. CASE z = p
      BY <2>a, <3>1
    <3>2. CASE z = q
      <4>1. ~(In(regular'[q], c) /\ In(cancels'[q], c))
        BY <2>8, <2>a, <2>g DEF Attached
      <4>2. In(cancels'[q], c) => kind[c] = "on_cancel"
        BY <2>a, <2>h
      <4> QED
        BY <2>d, <2>e, <3>2, <4>1, <4>2
    <3>3. CASE z # p /\ z # q
      BY <2>b, <2>f, <2>g, <2>h, <3>3
    <3> QED
      BY <3>1, <3>2, <3>3
  <2>12. AttachedOnce(c)'
    BY <2>1, <2>5, <2>10, <2>11 DEF AttachedOnce
  <2>13. r = "Pending" => Attached(c, Source(c))'
    <3>1. r = "Pending" => Attached(c, s)
      BY <2>1, <2>2 DEF TrackedOK, RunsOnce, s
    <3>2. r = "Pending" => \E z \in Id : z = Source(c)' /\ Attached(c, z)'
      BY <2>3, <2>4, <2>9, <3>1
    <3> QED
      BY <3>2 DEF Attached
  <2>14. RunsOnce(c)' /\ HeldOnce(c, Outcome(c))'
    BY <1>0, <2>1, <2>2, <2>5, <2>6, <2>13, RunsKept DEF TrackedOK
  <2> QED
    BY <2>3, <2>12, <2>14 DEF TrackedOK
<1> QED
  BY <1>3, <1>4, <1>5 DEF CallbackInv
(* The callbacks that a promise hands to the loop with its result.         *)
LEMMA HandedOver ==
    ASSUME CoreType, NEW p \in Id, NEW r \in Results, NEW c
    PROVE  /\ CallbacksOf(p, r) \in Batch
           /\ CallbacksOf(p, r) \in BatchesWith(c)
                  <=> In(regular[p], c) \/ (r = "Canceled" /\ In(cancels[p], c))
           /\ /\ Once(regular[p], c) /\ Once(cancels[p], c)
              /\ ~(In(regular[p], c) /\ In(cancels[p], c))
              => CallbacksOf(p, r) \notin BadBatches(c, r)
<1> DEFINE b == CallbacksOf(p, r)
<1>1. b \in Batch
  BY BatchTypes
<1>2. /\ b.regs = regular[p] /\ b.res = r
      /\ b.cans = IF r = "Canceled" THEN cancels[p] ELSE <<>>
  BY DEF CallbacksOf
<1>3. \A x : ~In(<<>>, x) /\ Once(<<>>, x)
  BY EmptyList
<1> HIDE DEF b
<1>4. /\ In(b.cans, c) <=> r = "Canceled" /\ In(cancels[p], c)
      /\ Once(cancels[p], c) => Once(b.cans, c)
  BY <1>2, <1>3
<1>5. b \in BatchesWith(c) <=> In(regular[p], c) \/ (r = "Canceled" /\ In(cancels[p], c))
  BY <1>1, <1>2, <1>4 DEF BatchesWith, Has
<1>6. /\ Once(regular[p], c) /\ Once(cancels[p], c)
      /\ ~(In(regular[p], c) /\ In(cancels[p], c))
      => b \notin BadBatches(c, r)
  BY <1>2, <1>4 DEF BadBatches, Proper
<1> QED
  BY <1>1, <1>5, <1>6 DEF b

LEMMA ResolvingKept ==
    ASSUME CoreType, CallbackInv, program' = program, NEW p \in Id, NEW r \in Results,
           Resolving(p, r), BatchSteps(CallbacksOf(p, r))
    PROVE  CallbackInv'
<1> DEFINE b == CallbacksOf(p, r)
<1>0. runs \in [Id -> Nat] /\ UNCHANGED <<next, kind, args, rep>> /\ state[p] = "Pending" /\ b \in Batch /\ BatchSteps(b)
  BY BatchTypes DEF CoreType, Resolving
<1>a. /\ state \in [Id -> States] /\ rep \in [Id -> Id]
      /\ state'[p] = r /\ \A x \in Id : x # p => state'[x] = state[x]
  BY DEF CoreType, Resolving
<1>b. regular'[p] = <<>> /\ \A x \in Id : x # p => regular'[x] = regular[x]
  BY DEF CoreType, Resolving
<1>c. cancels'[p] = <<>> /\ \A x \in Id : x # p => cancels'[x] = cancels[x]
  BY DEF CoreType, Resolving
<1>d. r # "Pending" /\ r # "none"
  BY TrackedKinds
<1>e. \A c : ~Attached(c, p)' /\ \A z \in Id : z # p => (Attached(c, z)' <=> Attached(c, z))
  BY <1>b, <1>c, EmptyList DEF Attached
<1>f. \A c : ~Attached(c, p) => b \notin BatchesWith(c)
  BY HandedOver DEF Attached
<1>g. \A c, x : BadBatches(c, x) \subseteq BatchesWith(c)
  BY BadOnes
<1> HIDE DEF b
<1>1. ASSUME NEW c \in Id, NEW x, HeldOnce(c, x), ~Attached(c, p) PROVE Progress(c, x) /\ (Held(c)' <=> Held(c)) /\ runs' = runs
  <2>1. b \notin BatchesWith(c) /\ b \notin BadBatches(c, x)
    BY <1>1, <1>f, <1>g
  <2>2. HeldOnce(c, x)' /\ (Held(c)' <=> Held(c)) /\ runs' = runs
    BY <1>0, <1>1, <2>1, BatchProgress
  <2> QED
    BY <2>2 DEF Progress
<1>2. Promises' = Promises
  BY <1>0, <1>a, <1>d DEF Promises
<1>3. RepOK'
  BY <1>0, <1>2 DEF CallbackInv, RepOK
<1>4. ASSUME NEW c \in Id, c >= next' PROVE FreeOK(c)'
  <2>1. FreeOK(c) /\ ~Attached(c, p)
    BY <1>0, <1>4 DEF CallbackInv, FreeOK
  <2>2. HeldOnce(c, "none")
    BY <2>1, NotHeld DEF FreeOK
  <2>3. ~Held(c)' /\ runs' = runs
    BY <1>1, <2>1, <2>2 DEF FreeOK
  <2>4. \A z \in Id : ~Attached(c, z)'
    BY <1>e, <2>1 DEF FreeOK
  <2>5. c # p
    BY <1>0, <2>1 DEF FreeOK
  <2> QED
    BY <1>0, <1>a, <2>1, <2>3, <2>4, <2>5 DEF FreeOK
<1>5. ASSUME NEW c \in Id, kind'[c] \in Tracked PROVE TrackedOK(c)'
  <2>1. kind[c] \in Tracked /\ TrackedOK(c) /\ kind'[c] = kind[c]
    BY <1>0, <1>5 DEF CallbackInv
  <2>2. /\ \A z \in Id : Attached(c, z) => z = Source(c) /\ Outcome(c) = "Pending"
        /\ \A z \in Id : Once(regular[z], c) /\ Once(cancels[z], c)
    BY <2>1 DEF TrackedOK, AttachedOnce
  <2>3. \A z \in Id : ~(In(regular[z], c) /\ In(cancels[z], c))
    BY <2>1 DEF TrackedOK, AttachedOnce
  <2>4. \A z \in Id : In(cancels[z], c) => kind[c] = "on_cancel"
    BY <2>1 DEF TrackedOK, AttachedOnce
  <2>5. /\ args'[c][1] \in Promises' /\ Source(c)' = Source(c) /\ Source(c) \in Id
    BY <1>0, <1>2, <1>a, <2>1 DEF TrackedOK, Source, Promises
  <2>6. ASSUME NEW z \in Id
        PROVE  /\ Once(regular'[z], c) /\ Once(cancels'[z], c)
               /\ ~(In(regular'[z], c) /\ In(cancels'[z], c))
               /\ In(cancels'[z], c) => kind[c] = "on_cancel"
    <3>1. CASE z = p
      BY <1>b, <1>c, <3>1, EmptyList
    <3>2. CASE z # p
      BY <1>b, <1>c, <2>2, <2>3, <2>4, <3>2
    <3> QED
      BY <3>1, <3>2
  <2>7. CASE Source(c) = p
    <3>1. Outcome(c) = "Pending" /\ Outcome(c)' = r
      BY <1>0, <1>a, <2>5, <2>7 DEF Outcome
    <3>2. Attached(c, p) /\ ~Held(c) /\ runs[c] = 0
      BY <2>1, <2>7, <3>1 DEF TrackedOK, RunsOnce
    <3>3. \A z \in Id : ~Attached(c, z)'
      BY <1>e, <2>2, <2>7
    <3>4. AttachedOnce(c)'
      BY <2>1, <2>6, <3>3 DEF AttachedOnce
    <3>5. b \notin BadBatches(c, r)
      BY <2>2, <2>3, HandedOver DEF b
    <3>6. HeldOnce(c, r)' /\ (Held(c)' <=> b \in BatchesWith(c)) /\ runs' = runs
      BY <1>0, <3>2, <3>5, NotHeld, BatchProgress
    <3>7. r \in Triggers(kind[c]) => b \in BatchesWith(c)
      <4>1. b \in BatchesWith(c) <=> In(regular[p], c) \/ (r = "Canceled" /\ In(cancels[p], c))
        BY HandedOver DEF b
      <4>2. In(cancels[p], c) /\ r \in Triggers(kind[c]) => r = "Canceled"
        BY <2>4, TrackedKinds
      <4> QED
        BY <3>2, <4>1, <4>2 DEF Attached
    <3>8. RunsOnce(c)'
      BY <1>d, <2>1, <3>1, <3>2, <3>6, <3>7 DEF RunsOnce
    <3>9. HeldOnce(c, Outcome(c))'
      BY <3>1, <3>6
    <3> QED
      BY <2>5, <3>4, <3>8, <3>9 DEF TrackedOK
  <2>8. CASE Source(c) # p
    <3>1. PICK x : x = Outcome(c)
      OBVIOUS
    <3>2. x = Outcome(c)'
      BY <1>a, <2>5, <2>8, <3>1 DEF Outcome
    <3>3. ~Attached(c, p)
      BY <2>2, <2>8
    <3>4. Progress(c, x)
      BY <1>1, <2>1, <3>1, <3>3 DEF TrackedOK
    <3>5. \A z \in Id : Attached(c, z)' => z = Source(c)' /\ x = "Pending"
      BY <1>e, <2>2, <2>5, <3>1
    <3>6. AttachedOnce(c)'
      BY <2>1, <2>6, <3>2, <3>5 DEF AttachedOnce
    <3>7. x = "Pending" => Attached(c, Source(c))'
      <4>1. x = "Pending" => Attached(c, Source(c))
        BY <2>1, <3>1 DEF TrackedOK, RunsOnce
      <4>2. PICK z \in Id : z = Source(c)
        BY <2>5
      <4>3. x = "Pending" => Attached(c, z)'
        BY <1>e, <2>8, <4>1, <4>2
      <4> QED
        BY <2>5, <4>2, <4>3 DEF Attached
    <3>8. RunsOnce(c)' /\ HeldOnce(c, Outcome(c))'
      BY <1>0, <2>1, <3>1, <3>2, <3>4, <3>7, RunsKept DEF TrackedOK
    <3> QED
      BY <2>5, <3>6, <3>8 DEF TrackedOK
  <2> QED
    BY <2>7, <2>8
<1> QED
  BY <1>3, <1>4, <1>5 DEF CallbackInv

(* A new name changes the places of no other callback.                     *)
LEMMA OthersAttached ==
    ASSUME CoreType, NEW k, NEW ps, Creating(k, ps), NEW c \in Id, c # next, ~In(cancels[next], c), NEW z \in Id
    PROVE  /\ In(regular'[z], c) <=> In(regular[z], c)
           /\ Once(regular[z], c) => Once(regular'[z], c)
           /\ In(cancels'[z], c) <=> In(cancels[z], c)
           /\ Once(cancels[z], c) => Once(cancels'[z], c)
<1>0. /\ next \in Id /\ ps \in Seq(Id) /\ cancels \in [Id -> Seq(Id)]
      /\ regular' = regular \/ add_callback(ps)
  BY DEF CoreType, Creating
<1>1. (In(regular'[z], c) <=> In(regular[z], c)) /\ (Once(regular[z], c) => Once(regular'[z], c))
  <2>1. CASE regular' = regular
    BY <2>1
  <2>2. CASE add_callback(ps)
    BY <1>0, <2>2, AddedLists
  <2> QED
    BY <1>0, <2>1, <2>2
<1>2. \A q \in Id : /\ Push(next, cancels[q]) \in Seq(Id)
                    /\ In(Push(next, cancels[q]), c) <=> In(cancels[q], c)
                    /\ Once(cancels[q], c) => Once(Push(next, cancels[q]), c)
  BY <1>0, PushList
<1>3. ASSUME NEW q \in Id, cancels' = [cancels EXCEPT ![q] = Push(next, cancels[q])]
      PROVE  (In(cancels'[z], c) <=> In(cancels[z], c)) /\ (Once(cancels[z], c) => Once(cancels'[z], c))
  <2>1. cancels'[z] = IF z = q THEN Push(next, cancels[q]) ELSE cancels[z]
    BY <1>0, <1>3
  <2> QED
    BY <1>2, <2>1
<1>4. ASSUME cancels' = [cancels EXCEPT ![next] = <<next>>]
      PROVE  (In(cancels'[z], c) <=> In(cancels[z], c)) /\ (Once(cancels[z], c) => Once(cancels'[z], c))
  <2>1. cancels'[z] = IF z = next THEN <<next>> ELSE cancels[z]
    BY <1>0, <1>4
  <2>2. ~In(<<next>>, c) /\ Once(<<next>>, c)
    BY DEF In, Once
  <2> QED
    BY <2>1, <2>2
<1>5. (In(cancels'[z], c) <=> In(cancels[z], c)) /\ (Once(cancels[z], c) => Once(cancels'[z], c))
  BY <1>3, <1>4 DEF Creating
<1> QED
  BY <1>1, <1>5

(* The new callback is attached to its promise, once.                      *)
LEMMA NewAttached ==
    ASSUME CoreType, NEW k \in Tracked, NEW ps, Creating(k, ps), NEW c \in Id, c = next, FreeOK(c)
    PROVE  \E p \in Promises :
               /\ ps = <<p>> /\ Pending(p)
               /\ \A z \in Id : Attached(c, z)' <=> z = rep[p]
               /\ \A z \in Id : Once(regular'[z], c) /\ Once(cancels'[z], c)
               /\ \A z \in Id : ~(In(regular'[z], c) /\ In(cancels'[z], c))
               /\ \A z \in Id : In(cancels'[z], c) => k = "on_cancel"
<1>1. PICK p \in Promises :
          /\ ps = <<p>> /\ Pending(p)
          /\ IF k = "on_cancel"
             THEN /\ cancels' = [cancels EXCEPT ![rep[p]] = Push(next, cancels[rep[p]])]
                  /\ UNCHANGED regular
             ELSE add_callback(ps) /\ UNCHANGED cancels
  BY DEF Creating
<1>2. p \in Id /\ rep[p] \in Id /\ cancels \in [Id -> Seq(Id)]
  BY DEF Promises, CoreType
<1>3. \A z \in Id : ~In(regular[z], c) /\ ~In(cancels[z], c)
  BY DEF FreeOK, Attached
<1>4. \A q : ~In(q, c) => Once(q, c)
  BY DEF In, Once
<1>5. ASSUME NEW z \in Id
      PROVE  /\ In(regular'[z], c) \/ In(cancels'[z], c) <=> z = rep[p]
             /\ Once(regular'[z], c) /\ Once(cancels'[z], c)
             /\ ~(In(regular'[z], c) /\ In(cancels'[z], c))
             /\ In(cancels'[z], c) => k = "on_cancel"
  <2>1. CASE k = "on_cancel"
    <3>1. PICK q \in Seq(Id) : q = cancels[rep[p]]
      BY <1>2
    <3>2. ~In(q, c) /\ Once(q, c)
      BY <1>2, <1>3, <1>4, <3>1
    <3>3. \A x : In(Push(c, q), x) <=> x = c \/ In(q, x)
      BY PushList
    <3>4. \A x : Once(q, x) /\ (x = c => ~In(q, x)) => Once(Push(c, q), x)
      BY PushList
    <3>5. In(Push(c, q), c) /\ Once(Push(c, q), c)
      BY <3>2, <3>3, <3>4
    <3>6. cancels'[z] = IF z = rep[p] THEN Push(c, q) ELSE cancels[z]
      BY <1>1, <1>2, <2>1, <3>1
    <3>7. ~In(regular'[z], c) /\ Once(regular'[z], c)
      BY <1>1, <1>3, <1>4, <2>1
    <3>8. (In(cancels'[z], c) <=> z = rep[p]) /\ Once(cancels'[z], c)
      BY <1>3, <1>4, <3>5, <3>6
    <3> QED
      BY <2>1, <3>7, <3>8
  <2>2. CASE k # "on_cancel"
    <3>1. add_callback(<<p>>) /\ cancels' = cancels
      BY <1>1, <2>2
    <3>2. (In(regular'[z], c) <=> z = rep[p]) /\ Once(regular'[z], c)
      BY <1>1, <1>2, <1>3, <3>1, AddedOne
    <3>3. ~In(cancels'[z], c) /\ Once(cancels'[z], c)
      BY <1>3, <1>4, <3>1
    <3> QED
      BY <3>2, <3>3
  <2> QED
    BY <2>1, <2>2
<1>6. \A z \in Id : Attached(c, z)' <=> z = rep[p]
  BY <1>5 DEF Attached
<1> QED
  BY <1>1, <1>5, <1>6

LEMMA CreatingKept ==
    ASSUME CoreType, CallbackInv, program' = program, NEW k, NEW ps, Creating(k, ps)
    PROVE  CallbackInv'
<1>0. /\ next \in Id /\ next' = next + 1 /\ UNCHANGED <<rep, stack, deferred, runs>>
      /\ kind'[next] = k /\ args'[next] = ps
      /\ \A x \in Id : x # next => kind'[x] = kind[x] /\ args'[x] = args[x] /\ state'[x] = state[x]
      /\ state'[next] \in {state[next], "Pending"}
  BY DEF CoreType, Creating
<1>1. FreeOK(next)
  BY <1>0 DEF CallbackInv, Id
<1>2. \A c : Held(c)' <=> Held(c)
  BY <1>0 DEF Held, Stacked, Deferred
<1>3. \A c, r : HeldOnce(c, r)' <=> HeldOnce(c, r)
  BY <1>0 DEF HeldOnce, Stacked, Deferred
<1>4. Promises \subseteq Promises' /\ Promises' \subseteq Promises \cup {next} /\ next \notin Promises /\ rep[next] = next
  BY <1>0, <1>1 DEF Promises, FreeOK
<1>5. RepOK'
  BY <1>0, <1>4 DEF CallbackInv, RepOK
<1>6. ASSUME NEW c \in Id, c >= next' PROVE FreeOK(c)'
  <2>1. FreeOK(c) /\ c # next
    BY <1>0, <1>6 DEF CallbackInv, Id
  <2>2. ~In(cancels[next], c)
    BY <1>0, <2>1 DEF FreeOK, Attached
  <2>3. \A z \in Id : ~Attached(c, z)'
    BY <2>1, <2>2, OthersAttached DEF FreeOK, Attached
  <2> QED
    BY <1>0, <1>2, <2>1, <2>3 DEF FreeOK
<1>7. ASSUME NEW c \in Id, kind'[c] \in Tracked, c # next PROVE TrackedOK(c)'
  <2>1. kind[c] \in Tracked /\ TrackedOK(c) /\ kind'[c] = kind[c] /\ args'[c] = args[c]
    BY <1>0, <1>7 DEF CallbackInv
  <2>2. args[c][1] \in Promises /\ Source(c) \in Promises /\ Source(c)' = Source(c)
    BY <1>0, <2>1 DEF TrackedOK, CallbackInv, RepOK, Source
  <2>3. PICK r : r = Outcome(c)
    OBVIOUS
  <2>4. r = Outcome(c)' /\ Source(c) # next /\ Source(c) \in Id
    BY <1>0, <1>4, <2>2, <2>3 DEF Outcome, Promises
  <2>5. \A z \in Id : Attached(c, z) => z = Source(c) /\ r = "Pending"
    BY <2>1, <2>3 DEF TrackedOK, AttachedOnce
  <2>6. \A z \in Id : Once(regular[z], c) /\ Once(cancels[z], c)
    BY <2>1 DEF TrackedOK, AttachedOnce
  <2>7. \A z \in Id : ~(In(regular[z], c) /\ In(cancels[z], c))
    BY <2>1 DEF TrackedOK, AttachedOnce
  <2>8. \A z \in Id : In(cancels[z], c) => kind[c] = "on_cancel"
    BY <2>1 DEF TrackedOK, AttachedOnce
  <2>9. ~In(cancels[next], c)
    BY <1>0, <2>4, <2>5 DEF Attached
  <2>10. \A z \in Id : /\ In(regular'[z], c) <=> In(regular[z], c)
                       /\ Once(regular[z], c) => Once(regular'[z], c)
                       /\ In(cancels'[z], c) <=> In(cancels[z], c)
                       /\ Once(cancels[z], c) => Once(cancels'[z], c)
    BY <1>7, <2>9, OthersAttached
  <2>11. \A z \in Id : Attached(c, z)' <=> Attached(c, z)
    BY <2>10 DEF Attached
  <2>12. AttachedOnce(c)'
    <3>1. \A z \in Id : Attached(c, z)' => z = Source(c)' /\ Outcome(c)' = "Pending"
      BY <2>2, <2>4, <2>5, <2>11
    <3>2. ASSUME NEW z \in Id
          PROVE  /\ Once(regular'[z], c) /\ Once(cancels'[z], c)
                 /\ ~(In(regular'[z], c) /\ In(cancels'[z], c))
                 /\ In(cancels'[z], c) => kind'[c] = "on_cancel"
      BY <2>1, <2>6, <2>7, <2>8, <2>10
    <3> QED
      BY <3>1, <3>2 DEF AttachedOnce
  <2>13. r = "Pending" => Attached(c, Source(c))'
    <3>1. r = "Pending" => Attached(c, Source(c))
      BY <2>1, <2>3 DEF TrackedOK, RunsOnce
    <3>2. PICK z \in Id : z = Source(c)
      BY <2>4
    <3>3. r = "Pending" => Attached(c, z)'
      BY <2>11, <3>1, <3>2
    <3> QED
      BY <2>2, <3>2, <3>3 DEF Attached
  <2>14. HeldOnce(c, r) /\ RunsOnce(c)
    BY <2>1, <2>3 DEF TrackedOK
  <2>15. Progress(c, r)
    BY <1>0, <1>2, <1>3, <2>14 DEF Progress
  <2>16. RunsOnce(c)' /\ HeldOnce(c, Outcome(c))'
    <3>1. runs \in [Id -> Nat]
      BY DEF CoreType
    <3> QED
      BY <2>1, <2>3, <2>4, <2>13, <2>14, <2>15, <3>1, RunsKept
  <2>17. args'[c][1] \in Promises'
    BY <1>4, <2>1, <2>2
  <2> QED
    BY <2>12, <2>16, <2>17 DEF TrackedOK
<1>8. ASSUME NEW c \in Id, kind'[c] \in Tracked, c = next PROVE TrackedOK(c)'
  <2>1. k \in Tracked /\ FreeOK(c)
    BY <1>0, <1>1, <1>8
  <2>2. PICK p \in Promises :
            /\ ps = <<p>> /\ Pending(p)
            /\ \A z \in Id : Attached(c, z)' <=> z = rep[p]
            /\ \A z \in Id : Once(regular'[z], c) /\ Once(cancels'[z], c)
            /\ \A z \in Id : ~(In(regular'[z], c) /\ In(cancels'[z], c))
            /\ \A z \in Id : In(cancels'[z], c) => k = "on_cancel"
    BY <1>8, <2>1, NewAttached
  <2>3. args'[c][1] = p /\ p \in Promises' /\ rep[p] \in Promises /\ rep[p] \in Id
    BY <1>0, <1>4, <1>8, <2>2 DEF CallbackInv, RepOK, Promises
  <2>4. Source(c)' = rep[p]
    BY <1>0, <2>3 DEF Source
  <2>5. Outcome(c)' = "Pending"
    BY <1>0, <1>4, <2>2, <2>3, <2>4 DEF Outcome, Pending, StateOf
  <2>6. ~Held(c)' /\ runs'[c] = 0
    BY <1>0, <1>2, <2>1 DEF FreeOK
  <2>7. \A r : HeldOnce(c, r)'
    BY <1>3, <2>1, NotHeld DEF FreeOK
  <2>8. HeldOnce(c, Outcome(c))'
    BY <2>5, <2>7
  <2>9. AttachedOnce(c)'
    <3>1. \A z \in Id : Attached(c, z)' => z = Source(c)' /\ Outcome(c)' = "Pending"
      BY <2>2, <2>4, <2>5
    <3>2. ASSUME NEW z \in Id
          PROVE  /\ Once(regular'[z], c) /\ Once(cancels'[z], c)
                 /\ ~(In(regular'[z], c) /\ In(cancels'[z], c))
                 /\ In(cancels'[z], c) => kind'[c] = "on_cancel"
      BY <1>0, <1>8, <2>2
    <3> QED
      BY <3>1, <3>2 DEF AttachedOnce
  <2>10. Attached(c, Source(c))'
    <3>1. PICK z \in Id : z = rep[p]
      BY <2>3
    <3>2. Attached(c, z)'
      BY <2>2, <3>1
    <3> QED
      BY <2>4, <3>1, <3>2 DEF Attached
  <2>11. \A x : Outcome(c)' \notin Triggers(x)
    BY <2>5, TrackedKinds
  <2>12. RunsOnce(c)'
    BY <2>5, <2>6, <2>10, <2>11 DEF RunsOnce
  <2> QED
    BY <2>3, <2>8, <2>9, <2>12 DEF TrackedOK
<1> QED
  BY <1>5, <1>6, <1>7, <1>8 DEF CallbackInv
-----------------------------------------------------------------------------
(* The nesting depth is the number of resolution loops in progress, as     *)
(* long as nothing cuts them short: Levels(s, n) is the least relation in  *)
(* which no call has depth 0 and every frame of a loop adds 1.             *)
Level(f) == IF f.k = "leave" THEN 1 ELSE 0

LevelsClosed(R) ==
    /\ <<<<>>, 0>> \in R
    /\ \A s \in Seq(Frames), f \in Frames, n \in Int :
           <<s, n>> \in R => <<Push(f, s), n + Level(f)>> \in R

Levels(s, n) == \A R \in SUBSET (Seq(Frames) \X Int) : LevelsClosed(R) => <<s, n>> \in R

(* Callbacks are deferred only within a loop.                              *)
DepthInv == Uncut => Levels(stack, depth) /\ (deferred # <<>> => depth >= 1)

LEMMA LevelsPush ==
    ASSUME NEW s \in Seq(Frames), NEW f \in Frames, NEW n \in Int, Levels(s, n)
    PROVE  Levels(Push(f, s), n + Level(f))
  BY DEF Levels, LevelsClosed

LEMMA LevelsNothing == Levels(<<>>, 0)
  BY DEF Levels, LevelsClosed

LEMMA LevelTypes == \A f : Level(f) \in Int
  BY DEF Level

LEMMA LevelsPop ==
    ASSUME NEW s \in Seq(Frames), NEW n \in Int, Levels(s, n)
    PROVE  /\ s = <<>> => n = 0
           /\ s # <<>> => Levels(Tail(s), n - Level(Head(s)))
<1> DEFINE Good(t, m) == /\ Levels(t, m)
                         /\ t = <<>> => m = 0
                         /\ t # <<>> => Levels(Tail(t), m - Level(Head(t)))
           R == {z \in Seq(Frames) \X Int : Good(z[1], z[2])}
<1>1. \A t \in Seq(Frames), m \in Int : <<t, m>> \in R <=> Good(t, m)
  OBVIOUS
<1>2. Good(<<>>, 0)
  BY LevelsNothing
<1>3. <<>> \in Seq(Frames) /\ 0 \in Int
  OBVIOUS
<1>4. ASSUME NEW t \in Seq(Frames), NEW f \in Frames, NEW m \in Int, <<t, m>> \in R
      PROVE  <<Push(f, t), m + Level(f)>> \in R
  <2>1. Push(f, t) \in Seq(Frames) /\ Push(f, t) # <<>> /\ Head(Push(f, t)) = f /\ Tail(Push(f, t)) = t
    BY PushList
  <2>2. Levels(t, m)
    BY <1>1, <1>4
  <2>3. Levels(Push(f, t), m + Level(f))
    BY <2>2, LevelsPush
  <2>4. m + Level(f) \in Int /\ (m + Level(f)) - Level(f) = m
    BY LevelTypes
  <2>5. Good(Push(f, t), m + Level(f))
    BY <2>1, <2>2, <2>3, <2>4
  <2> QED
    BY <1>1, <2>1, <2>4, <2>5
<1>5. <<<<>>, 0>> \in R
  BY <1>1, <1>2, <1>3
<1>6. R \in SUBSET (Seq(Frames) \X Int)
  OBVIOUS
<1> HIDE DEF R
<1>7. LevelsClosed(R)
  BY <1>4, <1>5 DEF LevelsClosed
<1>8. <<s, n>> \in R
  BY <1>6, <1>7 DEF Levels
<1>9. Good(s, n)
  BY <1>1, <1>8
<1> QED
  BY <1>9

(* Only the frames of loops count.                                         *)
LEMMA LevelsSame ==
    ASSUME NEW s \in Seq(Frames), NEW n \in Int, NEW f \in Frames, f.k # "leave"
    PROVE  Levels(s, n) => Levels(Push(f, s), n)
<1>1. n + Level(f) = n
  BY DEF Level
<1> QED
  BY <1>1, LevelsPush

LEMMA LevelsGrown ==
    ASSUME NEW s \in Seq(Frames), NEW n \in Int, Levels(s, n), NEW t, Grown(t, s)
    PROVE  Levels(t, n)
<1>1. ASSUME NEW f \in Plain, NEW z \in Seq(Frames), Levels(z, n)
      PROVE  Push(f, z) \in Seq(Frames) /\ Levels(Push(f, z), n)
  <2>1. f \in Frames /\ f.k # "leave"
    BY DEF Plain
  <2> QED
    BY <1>1, <2>1, LevelsSame, PushList
<1> QED
  BY <1>1 DEF Grown, Inert, Silent

(* Entering a loop.                                                        *)
LEMMA LevelsLoop ==
    ASSUME NEW s \in Seq(Frames), NEW n \in Int, Levels(s, n), NEW b \in Batch, NEW v \in Storages
    PROVE  Levels(Push(RunFrame(b), Push(Leave(v), s)), n + 1)
<1> DEFINE f == RunFrame(b)
           g == Leave(v)
<1>1. f \in Frames /\ g \in Frames /\ f.k = "run" /\ g.k = "leave"
  BY FrameTypes DEF Batch, RunFrame, Leave, Run
<1> HIDE DEF f, g
<1>2. Push(g, s) \in Seq(Frames) /\ Level(g) = 1 /\ n + 1 \in Int
  BY <1>1, PushList DEF Level
<1>3. Levels(Push(g, s), n + 1)
  BY <1>1, <1>2, LevelsPush
<1>4. Levels(Push(f, Push(g, s)), n + 1)
  BY <1>1, <1>2, <1>3, LevelsSame
<1> QED
  BY <1>4 DEF f, g

LEMMA LevelsBelow ==
    ASSUME CoreType, Levels(stack, depth), stack # <<>>
    PROVE  /\ Top \in Frames /\ Tail(stack) \in Seq(Frames)
           /\ Top.k # "leave" => Levels(Tail(stack), depth)
           /\ Top.k = "leave" => Levels(Tail(stack), depth - 1)
<1>1. Top \in Frames /\ Tail(stack) \in Seq(Frames) /\ stack \in Seq(Frames) /\ depth \in Int
  BY DEF CoreType, Top
<1>2. Levels(Tail(stack), depth - Level(Top))
  BY <1>1, LevelsPop DEF Top
<1>3. (Top.k # "leave" => depth - Level(Top) = depth) /\ (Top.k = "leave" => depth - Level(Top) = depth - 1)
  BY <1>1 DEF Level
<1> QED
  BY <1>1, <1>2, <1>3
LEMMA LevelsKept ==
    ASSUME CoreType, CoreType', CoreSteps, Uncut, Levels(stack, depth)
    PROVE  Levels(stack', depth')
<1>0. depth \in Int /\ stack \in Seq(Frames) /\ stack' \in Seq(Frames) /\ storage \in Storages
  BY DEF CoreType
<1>1. CASE Calling
  BY <1>0, <1>1, LevelsGrown DEF Calling
<1>2. CASE Returning
  <2>1. Top.k # "leave"
    BY <1>2 DEF Returning, Finished, Plain
  <2>2. Levels(Tail(stack), depth) /\ Tail(stack) \in Seq(Frames)
    BY <1>2, <2>1, LevelsBelow DEF Returning
  <2> QED
    BY <1>0, <1>2, <2>2, LevelsGrown DEF Returning
<1>3. CASE Traversing \/ \E b \in Batch : Collecting(b)
  <2>1. stack # <<>> /\ Top.k = "traverse" /\ UNCHANGED depth
    BY <1>3 DEF Traversing, Collecting, Frame, Top
  <2>2. Levels(Tail(stack), depth) /\ Tail(stack) \in Seq(Frames)
    BY <2>1, LevelsBelow
  <2>3. \E f : f.k \in {"traverse", "phase2"} /\ stack' = Push(f, Tail(stack))
    <3>1. \A x, y, z : Traverse(x, y, z).k = "traverse" /\ Phase2(x).k = "phase2"
      BY DEF Traverse, Phase2
    <3> QED
      BY <1>3, <3>1 DEF Traversing, Collecting
  <2>4. PICK f : f.k \in {"traverse", "phase2"} /\ stack' = Push(f, Tail(stack))
    BY <2>3
  <2>5. f \in Frames /\ f.k # "leave"
    BY <1>0, <2>2, <2>4 DEF Push
  <2> QED
    BY <1>0, <2>1, <2>2, <2>4, <2>5, LevelsSame
<1>4. CASE Continuing
  <2>1. stack # <<>> /\ Top.k = "phase2" /\ depth' = depth + 1 /\ Top.todo # <<>>
    BY <1>4 DEF Continuing, Frame, Top
  <2>2. Levels(Tail(stack), depth) /\ Tail(stack) \in Seq(Frames) /\ Top \in Frames
    BY <2>1, LevelsBelow
  <2>3. Top.todo \in Seq(Batch)
    BY <2>1, <2>2, FrameParts
  <2>4. Head(Top.todo) \in Batch /\ Tail(Top.todo) \in Seq(Batch)
    BY <2>1, <2>3
  <2> DEFINE f == Phase2(Tail(Top.todo))
  <2>5. f \in Frames /\ f.k # "leave"
    BY <2>4, FrameTypes DEF Phase2
  <2> HIDE DEF f
  <2>6. Levels(Push(f, Tail(stack)), depth) /\ Push(f, Tail(stack)) \in Seq(Frames)
    BY <1>0, <2>2, <2>5, LevelsSame, PushList
  <2>7. stack' = Push(RunFrame(Head(Top.todo)), Push(Leave(storage), Push(f, Tail(stack))))
    BY <1>4 DEF Continuing, f
  <2> QED
    BY <1>0, <2>1, <2>4, <2>6, <2>7, LevelsLoop
<1>5. ASSUME Passing \/ Visiting
      PROVE  Push(Remaining, Tail(stack)) \in Seq(Frames) /\ Levels(Push(Remaining, Tail(stack)), depth)
  <2>1. Busy /\ stack # <<>> /\ Top.k = "run"
    BY <1>5 DEF Passing, Visiting, Busy, Frame, Top
  <2>2. Remaining \in Frames /\ Tail(stack) \in Seq(Frames) /\ Remaining.k = "run"
    BY <2>1, BusyParts
  <2>3. Levels(Tail(stack), depth)
    BY <2>1, LevelsBelow
  <2> QED
    BY <1>0, <2>2, <2>3, LevelsSame, PushList
<1>6. CASE Passing
  BY <1>0, <1>5, <1>6, LevelsGrown DEF Passing
<1>7. CASE Visiting
  <2> DEFINE f == User(Current, storage')
  <2>1. Current \in Id /\ storage' \in Storages
    BY <1>7, BusyParts DEF Visiting, CoreType
  <2>2. f \in Frames /\ f.k # "leave"
    BY <2>1, FrameTypes DEF User
  <2>3. stack' = Push(f, Push(Remaining, Tail(stack))) /\ depth' = depth
    BY <1>7 DEF Visiting
  <2> HIDE DEF f
  <2> QED
    BY <1>0, <1>5, <1>7, <2>2, <2>3, LevelsSame
<1>8. CASE Leaving
  <2>1. stack # <<>> /\ Top.k = "leave"
    BY <1>8 DEF Leaving, Frame, Top
  <2> QED
    BY <1>8, <2>1, LevelsBelow DEF Leaving
<1>9. CASE Draining
  <2> DEFINE f == RunFrame(Head(deferred))
  <2>1. Head(deferred) \in Batch
    BY <1>9 DEF Draining, CoreType
  <2>2. f \in Frames /\ f.k # "leave"
    BY <2>1, FrameTypes DEF Batch, RunFrame, Run
  <2>3. stack' = Push(f, stack) /\ depth' = depth
    BY <1>9 DEF Draining
  <2> HIDE DEF f
  <2> QED
    BY <1>0, <2>2, <2>3, LevelsSame
<1>10. CASE WithReturning
  <2>1. stack # <<>> /\ Top.k = "with"
    BY <1>10 DEF WithReturning, Frame, Top
  <2> QED
    BY <1>10, <2>1, LevelsBelow DEF WithReturning
<1>11. ASSUME NEW v \in Storages, WithEntering(v) PROVE Levels(stack', depth')
  <2> DEFINE f == With(storage, v)
  <2>1. f \in Frames /\ f.k # "leave"
    BY <1>0, FrameTypes DEF With
  <2>2. stack' = Push(f, stack) /\ depth' = depth
    BY <1>11 DEF WithEntering
  <2> HIDE DEF f
  <2> QED
    BY <1>0, <2>1, <2>2, LevelsSame
<1>12. ~Abandoning /\ ~Raising
  BY DEF Abandoning, Raising, Uncut
<1>13. ASSUME NEW b \in Batch, Entering(b) PROVE Levels(stack', depth')
  <2>1. CASE stack' = Push(RunFrame(b), Push(Leave(storage), stack))
    BY <1>0, <1>13, <2>1, LevelsLoop DEF Entering
  <2>2. CASE Frame("resolve") /\ stack' = Push(RunFrame(b), Push(Leave(storage), Tail(stack)))
    <3>1. stack # <<>> /\ Top.k = "resolve"
      BY <2>2 DEF Frame, Top
    <3>2. Levels(Tail(stack), depth) /\ Tail(stack) \in Seq(Frames)
      BY <3>1, LevelsBelow
    <3> QED
      BY <1>0, <1>13, <2>2, <3>2, LevelsLoop DEF Entering
  <2> QED
    BY <1>13, <2>1, <2>2 DEF Entering
<1>14. ASSUME NEW b \in Batch, Deferring(b) PROVE Levels(stack', depth')
  BY <1>14 DEF Deferring
<1>15. ASSUME NEW k, NEW ps, Creating(k, ps) PROVE Levels(stack', depth')
  BY <1>15 DEF Creating
<1>16. \A p \in Id, r \in Results : CallbacksOf(p, r) \in Batch
  BY BatchTypes
<1> QED
  BY <1>1, <1>2, <1>3, <1>4, <1>6, <1>7, <1>8, <1>9, <1>10, <1>11, <1>12, <1>13, <1>14, <1>15, <1>16
     DEF CoreSteps, QuietSteps, BatchSteps

LEMMA DepthKept ==
    ASSUME CoreType, CoreType', CoreSteps, program' = program, DepthInv
    PROVE  DepthInv'
<1> SUFFICES ASSUME Uncut PROVE Levels(stack, depth)' /\ (deferred' # <<>> => depth' >= 1)
  BY DEF DepthInv, Uncut
<1>0. depth \in Int /\ Levels(stack, depth) /\ (deferred # <<>> => depth >= 1)
  BY DEF DepthInv, CoreType
<1>1. Levels(stack', depth')
  BY <1>0, LevelsKept
<1>2. deferred' # <<>> => depth' >= 1
  <2>1. CASE UNCHANGED <<depth, deferred>>
    BY <1>0, <2>1
  <2>2. CASE depth' = depth + 1 /\ UNCHANGED deferred
    BY <1>0, <2>2
  <2>3. CASE Leaving
    BY <1>0, <2>3 DEF Leaving
  <2>4. CASE Draining
    BY <1>0, <2>4 DEF Draining
  <2>5. CASE \E b : Deferring(b)
    BY <1>0, <2>5 DEF Deferring
  <2>6. \/ UNCHANGED <<depth, deferred>>
        \/ depth' = depth + 1 /\ UNCHANGED deferred
        \/ Leaving
        \/ Draining
        \/ \E b : Deferring(b)
    BY DEF CoreSteps, QuietSteps, BatchSteps, Calling, Returning, Traversing, Continuing, Passing, Visiting,
           WithReturning, WithEntering, Abandoning, Raising, Entering, Collecting, Creating
  <2> QED
    BY <2>1, <2>2, <2>3, <2>4, <2>5, <2>6
<1> QED
  BY <1>1, <1>2 DEF Levels

LEMMA CallbackInvSuffices == CoreType /\ CallbackInv /\ DepthInv => CallbacksRunOnce
<1> SUFFICES ASSUME CoreType, CallbackInv, DepthInv, NEW c \in Id, kind[c] \in Sequential \cup Observers
             PROVE  /\ runs[c] <= 1
                    /\ Quiescent /\ Uncut => (runs[c] = 1 <=> StateOf(args[c][1]) \in Triggers(kind[c]))
  BY DEF CallbacksRunOnce
<1>1. RunsOnce(c)
  BY DEF CallbackInv, TrackedOK, Tracked, WithUserCode
<1>2. runs[c] <= 1
  BY <1>1 DEF RunsOnce
<1>3. StateOf(args[c][1]) = Outcome(c)
  BY DEF StateOf, Outcome, Source
<1>4. ASSUME Quiescent, Uncut PROVE runs[c] = 1 <=> Outcome(c) \in Triggers(kind[c])
  <2>1. stack = <<>> /\ stack \in Seq(Frames) /\ depth \in Int
    BY <1>4 DEF Quiescent, CoreType
  <2>2. depth = 0
    BY <1>4, <2>1, LevelsPop DEF DepthInv
  <2>3. deferred = <<>>
    BY <1>4, <2>2 DEF DepthInv
  <2>4. ~Held(c)
    BY <2>1, <2>3, FineNothing DEF Held, Stacked, Deferred
  <2> QED
    BY <1>1, <1>4, <2>4 DEF RunsOnce, WithUserCode
<1> QED
  BY <1>2, <1>3, <1>4

LEMMA CallbackStart == Init => CallbackInv /\ DepthInv
<1> SUFFICES ASSUME Init PROVE CallbackInv /\ DepthInv
  OBVIOUS
<1>1. Promises = {}
  BY DEF Init, Promises
<1>2. ASSUME NEW c \in Id PROVE FreeOK(c) /\ kind[c] \notin Tracked
  <2>1. ~Held(c)
    BY FineNothing DEF Init, Held, Stacked, Deferred
  <2>2. \A p \in Id : ~Attached(c, p)
    BY EmptyList DEF Init, Attached
  <2>3. kind[c] = "free" /\ state[c] = "none" /\ rep[c] = c /\ runs[c] = 0
    BY DEF Init
  <2> QED
    BY <2>1, <2>2, <2>3, TrackedKinds DEF FreeOK
<1>3. CallbackInv
  BY <1>1, <1>2 DEF CallbackInv, RepOK
<1>4. DepthInv
  BY LevelsNothing DEF Init, DepthInv
<1> QED
  BY <1>3, <1>4

LEMMA CallbackStutter == CallbackInv /\ DepthInv /\ UNCHANGED vars => CallbackInv' /\ DepthInv'
<1> SUFFICES ASSUME CallbackInv, DepthInv, UNCHANGED vars PROVE CallbackInv' /\ DepthInv'
  OBVIOUS
<1>1. /\ UNCHANGED <<program, next, kind, args, state, rep, regular, cancels>>
      /\ UNCHANGED <<depth, deferred, stack, runs>>
  BY DEF vars, static, heap, loop
<1>2. DepthInv'
  BY <1>1 DEF DepthInv, Levels, Uncut
<1>3. \A c : (Held(c)' <=> Held(c)) /\ (\A r : HeldOnce(c, r)' <=> HeldOnce(c, r))
  BY <1>1 DEF Held, HeldOnce, Stacked, Deferred
<1>4. Promises' = Promises /\ RepOK' /\ (Uncut' <=> Uncut)
  BY <1>1 DEF CallbackInv, RepOK, Promises, Uncut
<1>5. ASSUME NEW c \in Id, c >= next' PROVE FreeOK(c)'
  BY <1>1, <1>3, <1>5 DEF CallbackInv, FreeOK, Attached
<1>6. ASSUME NEW c \in Id, kind'[c] \in Tracked PROVE TrackedOK(c)'
  <2>1. TrackedOK(c)
    BY <1>1, <1>6 DEF CallbackInv
  <2>2. Source(c)' = Source(c) /\ Outcome(c)' = Outcome(c)
    BY <1>1 DEF Source, Outcome
  <2>3. HeldOnce(c, Outcome(c))'
    BY <1>1, <2>1, <2>2 DEF TrackedOK, HeldOnce, Stacked, Deferred
  <2>4. AttachedOnce(c)'
    BY <1>1, <2>1, <2>2 DEF TrackedOK, AttachedOnce, Attached
  <2>5. RunsOnce(c)'
    BY <1>1, <1>3, <1>4, <2>1, <2>2 DEF TrackedOK, RunsOnce, Attached
  <2> QED
    BY <1>1, <1>4, <2>1, <2>3, <2>4, <2>5 DEF TrackedOK
<1> QED
  BY <1>2, <1>4, <1>5, <1>6 DEF CallbackInv

LEMMA CallbacksKept ==
    ASSUME CoreType, CallbackInv, CoreSteps, program' = program
    PROVE  CallbackInv'
<1>1. ASSUME NEW p \in Id, NEW q \in Id, Merging(p, q), Returning PROVE CallbackInv'
  BY <1>1, MergingKept
<1>2. ASSUME NEW k, NEW ps, Creating(k, ps) PROVE CallbackInv'
  BY <1>2, CreatingKept
<1>3. ASSUME NEW p \in Id, NEW r \in Results, Resolving(p, r), BatchSteps(CallbacksOf(p, r)) PROVE CallbackInv'
  BY <1>3, ResolvingKept
<1>4. CASE (KeepHeap /\ QuietSteps) \/ (Clearing /\ Returning)
  BY <1>4, QuietKept
<1> QED
  BY <1>1, <1>2, <1>3, <1>4 DEF CoreSteps

(* User code that bind, map, catch, try_bind, on_success, on_failure,      *)
(* on_any, on_cancel or async attached never runs twice; and once Lwt has  *)
(* returned to the top level, with no loop cut short, it has run if and    *)
(* only if its promise, behind its proxies, has a result it is meant for.  *)
THEOREM UserCodeRunsOnce == Spec => []CallbacksRunOnce
<1> DEFINE Inv == CoreType /\ CallbackInv /\ DepthInv
<1>1. Init => Inv
  BY CoreStart, CallbackStart
<1>2. Inv /\ [Next]_vars => Inv'
  <2>1. ASSUME Inv, Next PROVE Inv'
    <3>1. CoreSteps /\ program' = program
      BY <2>1, EveryStep
    <3>2. CoreType'
      BY <2>1, <3>1, TypesKept
    <3> QED
      BY <2>1, <3>1, <3>2, CallbacksKept, DepthKept
  <2>2. ASSUME Inv, UNCHANGED vars PROVE Inv'
    <3>1. CoreType'
      BY <2>2 DEF CoreType, vars, static, heap, loop
    <3> QED
      BY <2>2, <3>1, CallbackStutter
  <2> QED
    BY <2>1, <2>2
<1>3. Inv => CallbacksRunOnce
  BY CallbackInvSuffices
<1> QED
  BY <1>1, <1>2, <1>3, PTL DEF Spec
-----------------------------------------------------------------------------
(* Cancellation.  The promises behind the same proxies are a class; their  *)
(* underlying promise is its name.                                         *)

(* The calls of user code for c.                                           *)
UsersOf(c) == {f \in Frames : f.k = "user" /\ f.c = c}

(* The calls of resolve to come for c.                                     *)
ResolvesOf(c) == {f \in Frames : f.k = "resolve" /\ f.c = c}

(* The callback that makes c is still to run, or runs.                     *)
Waits(c) ==
    \/ /\ kind[c] \in Sequential \cup {"no_cancel"}
       /\ Outcome(c) = "Pending" \/ Held(c) \/ Meets(stack, UsersOf(c))
    \/ kind[c] = "join" /\ count[c] >= 1
    \/ kind[c] \in Removable /\ cell[c]

Makers == Sequential \cup Removable \cup {"join", "no_cancel"}

(* A callback that is to resolve its promise has run to its end.           *)
OwedOK(c) ==
    Meets(stack, ResolvesOf(c)) => kind[c] \in Makers /\ Single(stack, ResolvesOf(c)) /\ ~Waits(c)

CellType == count \in [Id -> Int] /\ cell \in [Id -> BOOLEAN]

(* User code is called at most once for c.                                 *)
UserOK(c) ==
    /\ Meets(stack, UsersOf(c)) => runs[c] # 0
    /\ kind[c] \in Tracked => Single(stack, UsersOf(c))

(* The function of c was called and has returned a promise, that is now    *)
(* behind c, or what it returned is the result of c.                       *)
Past(c) ==
    /\ kind[c] \in Sequential /\ runs[c] = 1
    /\ ~Meets(stack, UsersOf(c)) /\ ~Meets(stack, ResolvesOf(c))

(* h is how a promise made as b was is to be canceled.                     *)
HowOf(b, h) ==
    /\ kind[b] \in {"wait", "no_cancel"} => h.kind = "Not"
    /\ kind[b] \in {"task", "protected"} => h.kind = "This"
    /\ kind[b] \notin {"wait", "no_cancel", "task", "protected"} =>
           /\ h.kind = "Propagate" /\ DOMAIN h.to = DOMAIN args[b]
           /\ \A i \in DOMAIN h.to : rep[h.to[i]] = rep[args[b][i]]
    /\ kind[b] \in Initial => args[b] = <<>>

(* A pending class is canceled as its base is: the one of its members that *)
(* did not make another promise its proxy.                                 *)
BaseOf(q, b) ==
    /\ b \in Promises /\ rep[b] = q
    /\ HowOf(b, how[q])
    /\ \A c \in Promises : rep[c] = q /\ c # b => Past(c)

ClassesOK ==
    /\ \A p \in Id : rep[rep[p]] = rep[p]
    /\ \A c \in Id : kind[c] \in Sequential => c \in Promises /\ DOMAIN args[c] = {1}
    /\ \A q \in Id : state[q] = "Pending" => \E b \in Id : BaseOf(q, b)

Underlying(ps) == {rep[ps[i]] : i \in DOMAIN ps}

(* The links that a cancellation follows do not lead out of S, or only to  *)
(* D.                                                                      *)
Closed(S, D) ==
    \A q \in S : state[q] = "Pending" /\ how[q].kind = "Propagate" => Underlying(how[q].to) \subseteq S \cup D

(* What is ahead of a traversal is to be reached.                          *)
Sound(f) ==
    \A S \in SUBSET Id : rep[f.root] \in S /\ Closed(S, {}) => Underlying(f.todo) \subseteq S

(* What is to be reached was visited or is ahead.                          *)
Complete(f) ==
    \E S \in SUBSET Id :
        /\ rep[f.root] \in S \cup Underlying(f.todo)
        /\ {q \in Id : state[q] # "Pending"} \subseteq S
        /\ Closed(S, Underlying(f.todo))
        /\ \A q \in S : state[q] = "Pending" => how[q].kind # "This"

Traversals == {f \in Frames : f.k = "traverse"}

(* A traversal is the innermost call: it runs no callback.                 *)
TraversalOK ==
    /\ stack # <<>> => ~Meets(Tail(stack), Traversals)
    /\ Frame("traverse") => Sound(Top) /\ Complete(Top)

CancelInv == CellType /\ (\A c \in Id : UserOK(c) /\ OwedOK(c)) /\ ClassesOK /\ TraversalOK

-----------------------------------------------------------------------------
(* What the steps leave of the calls of user code and of traversals.       *)
Less(t, s, W) == (Meets(t, W) => Meets(s, W)) /\ (Single(s, W) => Single(t, W))

Loud == {f \in Frames : f.k \in {"user", "traverse", "resolve", "walk"}}

Rest(s) == s \in Seq(Frames) /\ \A W \in SUBSET Loud : Less(s, stack, W)

LEMMA LessPush ==
    ASSUME NEW s \in Seq(Frames), NEW f \in Frames, Rest(s), f \notin Loud
    PROVE  Rest(Push(f, s))
<1>1. Push(f, s) \in Seq(Frames)
  BY PushList
<1>2. \A W \in SUBSET Loud : Less(Push(f, s), stack, W)
  BY PushMeets DEF Rest, Less
<1> QED
  BY <1>1, <1>2 DEF Rest

LEMMA LessBelow ==
    ASSUME CoreType
    PROVE  /\ Rest(stack) /\ Rest(<<>>)
           /\ stack # <<>> => Rest(Tail(stack))
           /\ \A i \in DOMAIN stack : Rest(SubSeq(stack, i, Len(stack)))
<1>0. stack \in Seq(Frames)
  BY DEF CoreType
<1>1. Rest(stack)
  BY <1>0 DEF Rest, Less
<1>2. Rest(<<>>)
  BY <1>0 DEF Rest, Less, Meets, Single
<1>3. ASSUME stack # <<>> PROVE Rest(Tail(stack))
  <2>1. Head(stack) \in Frames /\ Tail(stack) \in Seq(Frames) /\ stack = Push(Head(stack), Tail(stack))
    BY <1>0, <1>3, FirstOfList
  <2>2. PICK h, t : h \in Frames /\ t \in Seq(Frames) /\ stack = Push(h, t) /\ t = Tail(stack)
    BY <2>1
  <2>3. \A W : /\ Meets(Push(h, t), W) <=> h \in W \/ Meets(t, W)
               /\ Single(Push(h, t), W) => Single(t, W)
    BY <2>2, PushMeets
  <2>4. Rest(t)
    BY <2>2, <2>3 DEF Rest, Less
  <2> QED
    BY <2>2, <2>4
<1>4. ASSUME NEW i \in DOMAIN stack PROVE Rest(SubSeq(stack, i, Len(stack)))
  BY <1>0, SuffixMeets DEF Rest, Less
<1> QED
  BY <1>1, <1>2, <1>3, <1>4

LEMMA QuietFrames ==
    /\ \A f \in Frames : f.k \notin {"user", "traverse", "resolve", "walk"} => f \notin Loud
    /\ \A x \in Batch : RunFrame(x) \in Frames /\ RunFrame(x) \notin Loud
    /\ \A v \in Storages : Leave(v) \in Frames /\ Leave(v) \notin Loud
    /\ \A x \in Seq(Batch) : Phase2(x) \in Frames /\ Phase2(x) \notin Loud
    /\ \A u, v \in Storages : With(u, v) \in Frames /\ With(u, v) \notin Loud
<1>1. \A f \in Frames : f.k \notin {"user", "traverse", "resolve", "walk"} => f \notin Loud
  BY DEF Loud
<1>2. \A x \in Batch : RunFrame(x) \in Frames /\ RunFrame(x).k = "run"
  BY FrameTypes DEF Batch, RunFrame, Run
<1>3. \A v \in Storages : Leave(v) \in Frames /\ Leave(v).k = "leave"
  BY FrameTypes DEF Leave
<1>4. \A x \in Seq(Batch) : Phase2(x) \in Frames /\ Phase2(x).k = "phase2"
  BY FrameTypes DEF Phase2
<1>5. \A u, v \in Storages : With(u, v) \in Frames /\ With(u, v).k = "with"
  BY FrameTypes DEF With
<1> QED
  BY <1>1, <1>2, <1>3, <1>4, <1>5

(* The calls in progress after a step: a call of user code, a few plain    *)
(* calls or a traversal that goes on, on top of calls that were there.     *)
Shaped ==
    \E s \in Seq(Frames) :
        /\ Rest(s)
        /\ \/ /\ Grown(stack', s)
              /\ \/ Returning \/ Passing \/ stack' = s
                 \/ \E f \in Silent : stack' = Push(f, s)
           \/ Visiting /\ stack' = Push(User(Current, storage'), s)
           \/ /\ Frame("traverse")
              /\ \E f \in Frames : stack' = Push(f, s) /\ f.k \in {"traverse", "phase2"}

LEMMA StackShape ==
    ASSUME CoreType, CoreType', CoreSteps
    PROVE  Shaped
<1>0. /\ stack \in Seq(Frames) /\ stack' \in Seq(Frames) /\ storage \in Storages /\ deferred \in Seq(Batch)
      /\ 0 \in Storages
  BY ConstantTypes DEF CoreType
<1>a. ASSUME NEW s, Grown(stack', s), Rest(s),
             Returning \/ Passing \/ stack' = s \/ \E f \in Silent : stack' = Push(f, s)
      PROVE  Shaped
  BY <1>a DEF Shaped, Rest
<1>b. ASSUME Rest(stack') PROVE Shaped
  BY <1>0, <1>a, <1>b, GrownPushes
<1>c. stack # <<>> => Rest(Tail(stack))
  BY LessBelow
<1>1. CASE Calling
  BY <1>1, <1>a, LessBelow DEF Calling
<1>2. CASE Returning
  BY <1>2, <1>a, <1>c DEF Returning
<1>3. CASE Traversing \/ \E x \in Batch : Collecting(x)
  <2>1. Frame("traverse") /\ stack # <<>> /\ Rest(Tail(stack)) /\ Tail(stack) \in Seq(Frames)
    BY <1>3, <1>c DEF Traversing, Collecting, Frame, Rest
  <2>2. \E f : f.k \in {"traverse", "phase2"} /\ stack' = Push(f, Tail(stack))
    <3>1. \A x, y, z : Traverse(x, y, z).k = "traverse" /\ Phase2(x).k = "phase2"
      BY DEF Traverse, Phase2
    <3> QED
      BY <1>3, <3>1 DEF Traversing, Collecting
  <2>3. PICK f : f.k \in {"traverse", "phase2"} /\ stack' = Push(f, Tail(stack))
    BY <2>2
  <2>4. f \in Frames
    BY <1>0, <2>1, <2>3 DEF Push
  <2> QED
    BY <2>1, <2>3, <2>4 DEF Shaped
<1>4. CASE Continuing
  <2>1. stack # <<>> /\ Top.k = "phase2" /\ Top.todo # <<>> /\ Top \in Frames
    BY <1>4, TopFrame DEF Continuing
  <2>2. Top.todo \in Seq(Batch)
    BY <2>1, FrameParts
  <2>3. Head(Top.todo) \in Batch /\ Tail(Top.todo) \in Seq(Batch)
    BY <2>1, <2>2
  <2> DEFINE f == Phase2(Tail(Top.todo))
             g == Leave(storage)
             h == RunFrame(Head(Top.todo))
             s == Push(f, Tail(stack))
             t == Push(g, s)
  <2>4. f \in Frames /\ f \notin Loud /\ g \in Frames /\ g \notin Loud /\ h \in Frames /\ h \notin Loud
    BY <1>0, <2>3, QuietFrames
  <2>5. stack' = Push(h, t)
    BY <1>4 DEF Continuing
  <2> HIDE DEF f, g, h
  <2>6. Rest(s) /\ s \in Seq(Frames)
    BY <1>c, <2>1, <2>4, LessPush DEF Rest
  <2> HIDE DEF s
  <2>7. Rest(t) /\ t \in Seq(Frames)
    BY <2>4, <2>6, LessPush DEF Rest
  <2> HIDE DEF t
  <2>8. Rest(stack')
    BY <2>4, <2>5, <2>7, LessPush
  <2> QED
    BY <1>b, <2>8
<1>5. ASSUME Passing \/ Visiting PROVE Rest(Push(Remaining, Tail(stack)))
  <2>1. Busy /\ stack # <<>> /\ Top.k = "run"
    BY <1>5, TopFrame DEF Passing, Visiting, Busy
  <2>2. Remaining \in Frames /\ Remaining.k = "run"
    BY <2>1, BusyParts
  <2>3. Remaining \notin Loud
    BY <2>2, QuietFrames
  <2>4. Rest(Tail(stack)) /\ Tail(stack) \in Seq(Frames)
    BY <1>c, <2>1 DEF Rest
  <2> QED
    BY <2>2, <2>3, <2>4, LessPush
<1>6. CASE Passing
  BY <1>a, <1>5, <1>6 DEF Passing
<1>7. CASE Visiting
  <2>1. stack' = Push(User(Current, storage'), Push(Remaining, Tail(stack)))
    BY <1>7 DEF Visiting
  <2> QED
    BY <1>5, <1>7, <2>1 DEF Shaped, Rest
<1>8. CASE Leaving \/ WithReturning
  <2>1. stack # <<>> /\ stack' = Tail(stack)
    BY <1>8 DEF Leaving, WithReturning, Frame
  <2> QED
    BY <1>b, <1>c, <2>1
<1>9. CASE Draining
  <2>1. Head(deferred) \in Batch /\ stack' = Push(RunFrame(Head(deferred)), stack)
    BY <1>0, <1>9 DEF Draining
  <2>2. Rest(stack')
    BY <1>0, <2>1, LessPush, LessBelow, QuietFrames
  <2> QED
    BY <1>b, <2>2
<1>10. ASSUME NEW v \in Storages, WithEntering(v) PROVE Shaped
  <2>1. stack' = Push(With(storage, v), stack)
    BY <1>10 DEF WithEntering
  <2>2. Rest(stack')
    BY <1>0, <2>1, LessPush, LessBelow, QuietFrames
  <2> QED
    BY <1>b, <2>2
<1>11. CASE Abandoning
  <2> DEFINE e == <<>>
             g == Leave(0)
  <2>1. stack' = Push(g, e) /\ g \in Frames /\ g \notin Loud /\ Rest(e) /\ e \in Seq(Frames)
    BY <1>0, <1>11, QuietFrames, LessBelow DEF Abandoning
  <2> HIDE DEF e, g
  <2>2. Rest(stack')
    BY <2>1, LessPush
  <2> QED
    BY <1>b, <2>2
<1>12. CASE Raising
  BY <1>b, <1>12, LessBelow DEF Raising
<1>13. ASSUME NEW x \in Batch, Entering(x) PROVE Shaped
  <2> DEFINE h == RunFrame(x)
             g == Leave(storage)
  <2>0. g \in Frames /\ g \notin Loud /\ h \in Frames /\ h \notin Loud
    BY <1>0, QuietFrames
  <2>1. PICK s \in {stack, Tail(stack)} : stack' = Push(h, Push(g, s)) /\ (s = Tail(stack) => stack # <<>> \/ s = stack)
    BY <1>13 DEF Entering, Frame
  <2>2. Rest(s) /\ s \in Seq(Frames)
    BY <1>c, <2>1, LessBelow DEF Rest
  <2> HIDE DEF g, h
  <2>3. Rest(Push(g, s)) /\ Push(g, s) \in Seq(Frames)
    BY <2>0, <2>2, LessPush DEF Rest
  <2>4. Rest(stack')
    BY <2>0, <2>1, <2>3, LessPush
  <2> QED
    BY <1>b, <2>4
<1>14. CASE UNCHANGED stack
  BY <1>b, <1>14, LessBelow
<1>15. \A p \in Id, r \in Results : CallbacksOf(p, r) \in Batch
  BY BatchTypes
<1>16. /\ \A x : Deferring(x) => UNCHANGED stack
       /\ \A k, ps : Creating(k, ps) => UNCHANGED stack
  BY DEF Deferring, Creating
<1> QED
  BY <1>1, <1>2, <1>3, <1>4, <1>6, <1>7, <1>8, <1>9, <1>10, <1>11, <1>12, <1>13, <1>14, <1>15, <1>16
     DEF CoreSteps, QuietSteps, BatchSteps

(* What Shaped says of the calls of user code.                             *)
LEMMA GrownLess ==
    ASSUME NEW s \in Seq(Frames), NEW t, Grown(t, s), NEW c
    PROVE  t \in Seq(Frames) /\ Less(t, s, UsersOf(c))
<1>1. \A f \in Plain : f \in Frames /\ f \notin UsersOf(c)
  BY DEF Plain, UsersOf
<1>2. \A f \in Plain, z \in Seq(Frames) : Push(f, z) \in Seq(Frames) /\ Less(Push(f, z), z, UsersOf(c))
  BY <1>1, PushList, PushMeets DEF Less
<1>3. \A x, y, z : Less(x, y, UsersOf(c)) /\ Less(y, z, UsersOf(c)) => Less(x, z, UsersOf(c))
  BY DEF Less
<1>4. Less(s, s, UsersOf(c))
  BY DEF Less
<1> QED
  BY <1>2, <1>3, <1>4 DEF Grown, Inert, Silent

LEMMA UsersLess ==
    ASSUME CoreType, CoreType', CoreSteps, NEW c \in Id, ~(Visiting /\ c = Current)
    PROVE  runs'[c] = runs[c] /\ Less(stack', stack, UsersOf(c))
<1> DEFINE U == UsersOf(c)
<1>1. PICK s \in Seq(Frames) :
        /\ Rest(s)
        /\ \/ Grown(stack', s)
           \/ Visiting /\ stack' = Push(User(Current, storage'), s)
           \/ /\ Frame("traverse")
              /\ \E f \in Frames : stack' = Push(f, s) /\ f.k \in {"traverse", "phase2"}
  BY StackShape DEF Shaped
<1>2. Less(s, stack, U)
  <2>1. UsersOf(c) \in SUBSET Loud
    BY DEF UsersOf, Loud
  <2> QED
    BY <1>1, <2>1 DEF Rest
<1>3. runs \in [Id -> Nat] /\ storage' \in Storages
  BY DEF CoreType
<1>4. runs' = runs \/ Visiting
  BY DEF CoreSteps, QuietSteps, BatchSteps, Calling, Returning, Traversing, Continuing, Passing, Leaving, Draining,
         WithReturning, WithEntering, Abandoning, Raising, Entering, Deferring, Collecting, Creating
<1>5. runs'[c] = runs[c]
  BY <1>3, <1>4 DEF Visiting
<1>6. Less(stack', s, U)
  <2>1. CASE Grown(stack', s)
    BY <2>1, GrownLess
  <2>2. ASSUME NEW f \in Frames, stack' = Push(f, s), f \notin U PROVE Less(stack', s, U)
    BY <2>2, PushMeets DEF Less
  <2>3. CASE Visiting /\ stack' = Push(User(Current, storage'), s)
    <3>1. Current \in Id
      BY <2>3, BusyParts DEF Visiting
    <3>2. User(Current, storage') \in Frames /\ User(Current, storage').c = Current
      BY <1>3, <3>1, FrameTypes DEF User
    <3> QED
      BY <2>2, <2>3, <3>2 DEF UsersOf
  <2>4. ASSUME NEW f \in Frames, stack' = Push(f, s), f.k \in {"traverse", "phase2"} PROVE Less(stack', s, U)
    BY <2>2, <2>4 DEF UsersOf
  <2> QED
    BY <1>1, <2>1, <2>3, <2>4
<1> QED
  BY <1>2, <1>5, <1>6 DEF Less

(* What Shaped says of the calls of resolve.                               *)
LEMMA GrownResolves ==
    ASSUME NEW s \in Seq(Frames), NEW t, Grown(t, s), NEW c
    PROVE  /\ Meets(t, ResolvesOf(c)) => Meets(s, ResolvesOf(c)) \/ Answers(c)
           /\ ~Meets(s, ResolvesOf(c)) => Single(t, ResolvesOf(c))
           /\ ~Answers(c) => Less(t, s, ResolvesOf(c))
<1> DEFINE W == ResolvesOf(c)
           Good(x) == /\ x \in Seq(Frames)
                      /\ Meets(x, W) => Meets(s, W) \/ Answers(c)
                      /\ ~Meets(s, W) => Single(x, W)
                      /\ ~Answers(c) => Less(x, s, W)
<1>1. /\ \A f \in Silent : f \in Frames /\ f \notin W
      /\ \A f \in Plain : f \in Frames /\ (f \in W => Answers(c))
  BY DEF Silent, Plain, ResolvesOf
<1>2. Inert \subseteq Plain /\ Silent \subseteq Plain
  BY PlainTypes
<1>3. \A f \in Frames, z \in Seq(Frames) :
          /\ Push(f, z) \in Seq(Frames)
          /\ Meets(Push(f, z), W) <=> f \in W \/ Meets(z, W)
          /\ Single(Push(f, z), W) <=> Single(z, W) /\ ~(f \in W /\ Meets(z, W))
  BY PushList, PushMeets
<1>4. Good(s)
  BY DEF Less, Meets, Single
<1> HIDE DEF W
<1>5. \A f \in Plain : Good(Push(f, s))
  BY <1>1, <1>3, <1>4 DEF Less
<1>6. \A f \in Silent : \A z : Good(z) => Good(Push(f, z))
  BY <1>1, <1>3 DEF Less
<1> HIDE DEF Good
<1>7. Good(t)
  BY <1>2, <1>4, <1>5, <1>6 DEF Grown
<1> QED
  BY <1>7 DEF Good, W

LEMMA ResolvesPushed ==
    ASSUME CoreType, CoreType', CoreSteps, NEW c \in Id
    PROVE  /\ ~Answers(c) => Less(stack', stack, ResolvesOf(c))
           /\ Meets(stack', ResolvesOf(c)) /\ ~Meets(stack, ResolvesOf(c)) =>
                  Answers(c) /\ (Returning \/ Passing) /\ Single(stack', ResolvesOf(c))
<1> DEFINE W == ResolvesOf(c)
<1>1. PICK s \in Seq(Frames) :
        /\ Rest(s)
        /\ \/ /\ Grown(stack', s)
              /\ \/ Returning \/ Passing \/ stack' = s
                 \/ \E f \in Silent : stack' = Push(f, s)
           \/ Visiting /\ stack' = Push(User(Current, storage'), s)
           \/ /\ Frame("traverse")
              /\ \E f \in Frames : stack' = Push(f, s) /\ f.k \in {"traverse", "phase2"}
  BY StackShape DEF Shaped
<1>2. Less(s, stack, W)
  <2>1. ResolvesOf(c) \in SUBSET Loud
    BY DEF ResolvesOf, Loud
  <2> QED
    BY <1>1, <2>1 DEF Rest
<1>3. ASSUME NEW f \in Frames, stack' = Push(f, s), f.k # "resolve" PROVE Less(stack', s, W)
  <2>1. f \notin W
    BY <1>3 DEF ResolvesOf
  <2> QED
    BY <1>3, <2>1, PushMeets DEF Less
<1>4. ASSUME Less(stack', s, W) PROVE Less(stack', stack, W)
  BY <1>2, <1>4 DEF Less
<1>5. CASE \E f \in Frames : stack' = Push(f, s) /\ f.k # "resolve"
  BY <1>3, <1>4, <1>5 DEF Less
<1>6. CASE Visiting /\ stack' = Push(User(Current, storage'), s)
  <2>1. Current \in Id /\ storage' \in Storages
    BY <1>6, BusyParts DEF Visiting, CoreType
  <2>2. User(Current, storage') \in Frames /\ User(Current, storage').k = "user"
    BY <2>1, FrameTypes DEF User
  <2> QED
    BY <1>5, <1>6, <2>2
<1>7. CASE stack' = s
  BY <1>2, <1>7 DEF Less
<1>8. CASE Grown(stack', s) /\ (Returning \/ Passing)
  <2>1. /\ Meets(stack', W) => Meets(s, W) \/ Answers(c)
        /\ ~Meets(s, W) => Single(stack', W)
        /\ ~Answers(c) => Less(stack', s, W)
    BY <1>8, GrownResolves
  <2> HIDE DEF W
  <2> QED
    BY <1>2, <1>4, <1>8, <2>1 DEF Less, W
<1>9. \A f \in Silent : f \in Frames /\ f.k # "resolve"
  BY DEF Silent, Plain
<1> QED
  BY <1>1, <1>5, <1>6, <1>7, <1>8, <1>9

(* User code that has not run is not visited again.                        *)
LEMMA VisitsOnce ==
    ASSUME CoreType, CallbackInv, Visiting, NEW c \in Id, kind[c] \in Tracked, c = Current
    PROVE  runs[c] = 0
<1>1. Busy
  BY DEF Visiting
<1>2. Top \in Frames /\ Top.k = "run" /\ stack # <<>> /\ stack \in Seq(Frames)
  BY <1>1, TopFrame DEF Busy, CoreType
<1>3. Has(Top, c)
  <2>1. Top.cans \in Seq(Id) /\ Top.regs \in Seq(Id)
    BY <1>2, FrameParts
  <2>2. Top.cans # <<>> => In(Top.cans, Head(Top.cans))
    BY <2>1, FirstOfList
  <2>3. Top.regs # <<>> => In(Top.regs, Head(Top.regs))
    BY <2>1, FirstOfList
  <2> QED
    BY <1>1, <2>2, <2>3 DEF Has, Current, Busy
<1>4. Top \in FramesWith(c)
  BY <1>2, <1>3 DEF FramesWith
<1>5. Stacked(c)
  BY <1>2, <1>4 DEF Stacked, Meets, Top
<1> QED
  BY <1>5 DEF CallbackInv, TrackedOK, RunsOnce, Held

LEMMA NamesKept ==
    ASSUME CoreType, CallbackInv, CoreSteps, NEW c \in Id
    PROVE  \/ kind'[c] = kind[c] /\ args'[c] = args[c]
           \/ c = next /\ FreeOK(c)
<1>1. CASE UNCHANGED <<kind, args>>
  BY <1>1
<1>2. ASSUME NEW k, NEW ps, Creating(k, ps) PROVE (kind'[c] = kind[c] /\ args'[c] = args[c]) \/ c = next
  BY <1>2 DEF Creating, CoreType
<1>3. c = next => FreeOK(c)
  <2>1. next \in Int
    BY DEF CoreType
  <2> QED
    BY <2>1 DEF CallbackInv
<1>4. UNCHANGED <<kind, args>> \/ \E k, ps : Creating(k, ps)
  BY DEF CoreSteps, KeepHeap, Clearing, Merging, Resolving
<1> QED
  BY <1>1, <1>2, <1>3, <1>4

(* Only user code takes steps of its own.                                  *)
LEMMA LwtAlone ==
    ASSUME ~UserTurn, Next
    PROVE  LwtStep
<1>1. ~UserTurn /\ ~Frame("user") /\ ~Frame("with")
  BY DEF UserTurn
<1>2. ~Create
  <2>1. ~wait /\ ~task
    BY <1>1 DEF wait, task, new_initial, UserOp
  <2>2. \A p : ~bind(p) /\ ~map(p) /\ ~catch(p) /\ ~try_bind(p)
    BY <1>1 DEF bind, map, catch, try_bind, sequential, UserOp
  <2>3. \A p : ~on_success(p) /\ ~on_failure(p) /\ ~on_any(p) /\ ~async(p)
    BY <1>1 DEF on_success, on_failure, on_any, async, observe, UserOp
  <2>4. \A p : ~on_cancel(p) /\ ~no_cancel(p) /\ ~protected(p)
    BY <1>1 DEF on_cancel, no_cancel, protected, UserOp
  <2>5. \A ps : ~join(ps) /\ ~choose(ps) /\ ~pick(ps) /\ ~nchoose(ps) /\ ~npick(ps)
    BY <1>1 DEF join, choose, pick, nchoose, npick, race, UserOp
  <2> QED
    BY <2>1, <2>2, <2>3, <2>4, <2>5 DEF Create
<1>3. ~Act
  <2>1. \A ps : ~pick_now(ps) /\ ~npick_now(ps)
    BY <1>1 DEF pick_now, npick_now, UserOp
  <2>2. \A p, r : ~wakeup(p, r) /\ ~wakeup_later(p, r)
    BY <1>1 DEF wakeup, wakeup_later, UserOp
  <2>3. /\ \A p : ~cancel(p)
        /\ \A v : ~with_value(v)
        /\ ~abandon_wakeups
    BY <1>1 DEF cancel, with_value, abandon_wakeups, UserOp
  <2> QED
    BY <2>1, <2>2, <2>3 DEF Act
<1>4. ~Return
  BY <1>1 DEF Return, with_value_return, return_unit, hook_raises, return_result, return_promise, InUserOf, UserOp
<1> QED
  BY <1>2, <1>3, <1>4 DEF Next
-----------------------------------------------------------------------------
(* The calls of resolve.  The counts of joins and the cells only ebb, but  *)
(* for a promise that is made.                                             *)
CellSteps ==
    \/ UNCHANGED <<count, cell>>
    \/ \E n \in Nat : count' = [count EXCEPT ![next] = n] /\ UNCHANGED cell
    \/ cell' = [cell EXCEPT ![next] = TRUE] /\ UNCHANGED count
    \/ count' = [count EXCEPT ![NextCallback] = @ - 1] /\ UNCHANGED cell
    \/ \E c : cell' = [cell EXCEPT ![c] = FALSE] /\ UNCHANGED count

LEMMA CellsStep ==
    ASSUME CoreType, Next
    PROVE  CellSteps
<1>1. CASE Create
  <2>1. wait \/ task => CellSteps
    BY DEF wait, task, new_initial, CellSteps
  <2>2. \A p : bind(p) \/ map(p) \/ catch(p) \/ try_bind(p) => CellSteps
    BY DEF bind, map, catch, try_bind, sequential, CellSteps
  <2>3. \A p : on_success(p) \/ on_failure(p) \/ on_any(p) \/ async(p) => CellSteps
    BY DEF on_success, on_failure, on_any, async, observe, CellSteps
  <2>4. \A p : on_cancel(p) \/ no_cancel(p) \/ protected(p) => CellSteps
    BY DEF on_cancel, no_cancel, protected, CellSteps
  <2>5. \A ps : choose(ps) \/ pick(ps) \/ nchoose(ps) \/ npick(ps) => CellSteps
    BY DEF choose, pick, nchoose, npick, race, CellSteps
  <2>6. ASSUME NEW ps \in Lists, join(ps) PROVE CellSteps
    <3>1. ps \in Seq(Id)
      BY ListTypes
    <3>2. Len(ps) \in Nat /\ {i \in DOMAIN ps : Pending(ps[i])} \in SUBSET (1..Len(ps))
      BY <3>1
    <3>3. Cardinality({i \in DOMAIN ps : Pending(ps[i])}) \in Nat
      BY <3>2, Numbering
    <3> QED
      BY <2>6, <3>3 DEF join, CellSteps
  <2> QED
    BY <1>1, <2>1, <2>2, <2>3, <2>4, <2>5, <2>6 DEF Create
<1>2. CASE Act
  <2>1. \A ps : pick_now(ps) \/ npick_now(ps) => CellSteps
    BY DEF pick_now, npick_now, heap, CellSteps
  <2>2. \A p, r : wakeup(p, r) \/ wakeup_later(p, r) => CellSteps
    BY DEF wakeup, wakeup_later, CellSteps
  <2>3. /\ \A p : cancel(p) => CellSteps
        /\ \A v : with_value(v) => CellSteps
        /\ abandon_wakeups => CellSteps
    BY DEF cancel, with_value, abandon_wakeups, heap, CellSteps
  <2> QED
    BY <1>2, <2>1, <2>2, <2>3 DEF Act
<1>3. CASE Return
  BY <1>3 DEF Return, with_value_return, return_unit, hook_raises, return_result, return_promise, heap, CellSteps
<1>4. CASE LwtStep
  <2>1. run_cancel_callback => CellSteps
    BY DEF run_cancel_callback, CellSteps
  <2>2. run_user_callback \/ run_passing_callback \/ run_done => CellSteps
    BY DEF run_user_callback, run_passing_callback, run_done, heap, CellSteps
  <2>3. run_join_callback \/ run_removable_callback => CellSteps
    BY DEF run_join_callback, run_removable_callback, CellSteps
  <2>4. clear_step \/ resolve_step \/ leave_step => CellSteps
    BY DEF clear_step, resolve_step, leave_step, heap, CellSteps
  <2>5. traverse_step \/ traverse_done \/ phase2_step \/ cancels_step \/ walk_step => CellSteps
    BY DEF traverse_step, traverse_done, phase2_step, cancels_step, walk_step, heap, CellSteps
  <2> QED
    BY <1>4, <2>1, <2>2, <2>3, <2>4, <2>5 DEF LwtStep
<1> QED
  BY <1>1, <1>2, <1>3, <1>4 DEF Next

LEMMA CellsEbb ==
    ASSUME CoreType, CellType, Next
    PROVE  /\ CellType'
           /\ \A c \in Id : c # next => count'[c] <= count[c] /\ (cell'[c] => cell[c])
<1>0. count \in [Id -> Int] /\ cell \in [Id -> BOOLEAN]
  BY DEF CellType
<1>1. CellSteps
  BY CellsStep
<1>2. count' \in [Id -> Int] /\ cell' \in [Id -> BOOLEAN]
  <2>1. PICK d : d = NextCallback
    OBVIOUS
  <2>2. \/ count' = count
        \/ \E n \in Nat : count' = [count EXCEPT ![next] = n]
        \/ count' = [count EXCEPT ![d] = count[d] - 1]
    BY <1>1, <2>1 DEF CellSteps
  <2>3. d \in Id => count[d] - 1 \in Int
    BY <1>0
  <2>4. \A n : n \in Nat => n \in Int
    OBVIOUS
  <2>5. count' \in [Id -> Int]
    BY <1>0, <2>2, <2>3, <2>4
  <2>6. \/ cell' = cell \/ cell' = [cell EXCEPT ![next] = TRUE]
        \/ \E c : cell' = [cell EXCEPT ![c] = FALSE]
    BY <1>1 DEF CellSteps
  <2>7. cell' \in [Id -> BOOLEAN]
    BY <1>0, <2>6
  <2> QED
    BY <2>5, <2>7
<1>3. ASSUME NEW c \in Id, c # next PROVE count'[c] <= count[c]
  <2>1. count'[c] = count[c] \/ count'[c] = count[c] - 1
    BY <1>0, <1>1, <1>3 DEF CellSteps
  <2>2. count[c] \in Int
    BY <1>0
  <2> QED
    BY <2>1, <2>2
<1>4. ASSUME NEW c \in Id, c # next PROVE cell'[c] = cell[c] \/ cell'[c] = FALSE
  BY <1>0, <1>1, <1>4 DEF CellSteps
<1> QED
  BY <1>2, <1>3, <1>4 DEF CellType

(* The callback of c that runs counts for a join, or clears its cell.      *)
LEMMA CellsAnswer ==
    ASSUME CoreType, CellType, Next, NEW c \in Id, Frame("run"), Top.cans = <<>>, Top.regs # <<>>, c = Head(Top.regs)
    PROVE  /\ kind[c] = "join" => count'[c] = count[c] - 1
           /\ kind[c] \in Removable => ~cell'[c]
<1>1. \A k : Frame(k) => k = "run"
  BY DEF Frame
<1>2. ~UserTurn
  BY <1>1 DEF UserTurn, Frame
<1>3. c = NextCallback
  BY DEF NextCallback
<1>4. run_user_callback \/ run_passing_callback \/ run_join_callback \/ run_removable_callback
  <2>1. LwtStep
    BY <1>2, LwtAlone
  <2> QED
    BY <1>1, <2>1 DEF LwtStep, run_cancel_callback, run_done, clear_step, resolve_step, leave_step, traverse_step,
                      traverse_done, phase2_step, cancels_step, walk_step
<1>5. ASSUME kind[c] = "join" PROVE count'[c] = count[c] - 1
  <2>1. run_join_callback
    BY <1>3, <1>4, <1>5 DEF run_user_callback, run_passing_callback, run_removable_callback, Running,
                            Sequential, Observers, Removable
  <2>2. count' = [count EXCEPT ![c] = count[c] - 1]
    BY <1>3, <2>1 DEF run_join_callback
  <2> QED
    BY <2>2 DEF CellType
<1>6. ASSUME kind[c] \in Removable PROVE ~cell'[c]
  <2>1. run_removable_callback
    BY <1>3, <1>4, <1>6 DEF run_user_callback, run_passing_callback, run_join_callback, Running,
                            Sequential, Observers, Removable
  <2>2. cell' = [cell EXCEPT ![c] = FALSE]
    BY <1>3, <2>1 DEF run_removable_callback
  <2> QED
    BY <2>2 DEF CellType
<1> QED
  BY <1>5, <1>6

LEMMA AnswersWaits ==
    ASSUME CoreType, NEW c \in Id, Answers(c)
    PROVE  Waits(c) /\ kind[c] \in Makers
<1>1. CASE Frame("user") /\ Top.c = c /\ kind[c] \in Sequential
  <2>1. Top \in Frames /\ Top.k = "user" /\ stack # <<>> /\ stack \in Seq(Frames)
    BY <1>1, TopFrame DEF CoreType
  <2>2. Top \in UsersOf(c)
    BY <1>1, <2>1 DEF UsersOf
  <2>3. Meets(stack, UsersOf(c))
    BY <2>1, <2>2 DEF Meets, Top
  <2> QED
    BY <1>1, <2>3 DEF Waits, Makers
<1>2. CASE /\ Frame("run") /\ Top.cans = <<>> /\ Top.regs # <<>> /\ c = Head(Top.regs)
           /\ kind[c] \in Sequential \cup {"no_cancel"}
  <2>1. Busy /\ c = Current
    BY <1>2 DEF Busy, Current
  <2>2. Held(c)
    BY <2>1, RemainingSame DEF Held
  <2> QED
    BY <1>2, <2>2 DEF Waits, Makers
<1>3. CASE kind[c] = "join" /\ count[c] = 1
  BY <1>3 DEF Waits, Makers
<1>4. CASE kind[c] \in Removable /\ cell[c]
  BY <1>4 DEF Waits, Makers
<1> QED
  BY <1>1, <1>2, <1>3, <1>4 DEF Answers

(* A promise that is not pending is never pending again.                   *)
LEMMA PendingKept ==
    ASSUME CoreType, CallbackInv, CoreSteps, NEW x \in Promises, Pending(x)'
    PROVE  Pending(x)
<1>0. /\ rep \in [Id -> Id] /\ state \in [Id -> States] /\ x \in Id /\ rep[x] \in Promises /\ rep[x] \in Id
      /\ state'[rep'[x]] = "Pending"
  BY DEF CoreType, CallbackInv, RepOK, Promises, Pending, StateOf
<1>1. CASE UNCHANGED <<rep, state>>
  BY <1>0, <1>1 DEF Pending, StateOf
<1>2. ASSUME NEW p \in Id, NEW q \in Id, Merging(p, q) PROVE Pending(x)
  <2>1. /\ state[p] = "Pending" /\ rep'[x] = (IF rep[x] = p THEN q ELSE rep[x])
        /\ rep[x] # p => state'[rep[x]] = state[rep[x]]
    BY <1>0, <1>2 DEF Merging
  <2> QED
    BY <1>0, <2>1 DEF Pending, StateOf
<1>3. ASSUME NEW k, NEW ps, Creating(k, ps) PROVE Pending(x)
  <2>1. next \in Int /\ next \in Id
    BY <1>3 DEF CoreType, Creating
  <2>2. FreeOK(next)
    BY <2>1 DEF CallbackInv
  <2>3. rep[x] # next
    BY <1>0, <2>2 DEF FreeOK, Promises
  <2>4. rep' = rep /\ state'[rep[x]] = state[rep[x]]
    BY <1>0, <1>3, <2>3 DEF Creating
  <2> QED
    BY <1>0, <2>4 DEF Pending, StateOf
<1>4. ASSUME NEW p \in Id, NEW r \in Results, Resolving(p, r) PROVE Pending(x)
  <2>1. rep' = rep /\ state[p] = "Pending" /\ (rep[x] # p => state'[rep[x]] = state[rep[x]])
    BY <1>0, <1>4 DEF Resolving
  <2> QED
    BY <1>0, <2>1 DEF Pending, StateOf
<1> QED
  BY <1>1, <1>2, <1>3, <1>4 DEF CoreSteps, KeepHeap, Clearing

LEMMA OutcomeKept ==
    ASSUME CoreType, CallbackInv, CoreSteps, NEW c \in Id, kind[c] \in Tracked, args'[c] = args[c],
           Outcome(c)' = "Pending"
    PROVE  Outcome(c) = "Pending"
<1>1. args[c][1] \in Promises
  BY DEF CallbackInv, TrackedOK
<1>2. PICK x \in Promises : x = args[c][1]
  BY <1>1
<1>3. Pending(x)'
  BY <1>2 DEF Outcome, Source, Pending, StateOf
<1>4. Pending(x)
  BY <1>3, PendingKept
<1> QED
  BY <1>2, <1>4 DEF Outcome, Source, Pending, StateOf

LEMMA HeldKept ==
    ASSUME CoreType, CallbackInv, CoreSteps, NEW c \in Id, kind[c] \in Tracked, Held(c)'
    PROVE  Held(c) \/ Outcome(c) = "Pending"
<1>0. TrackedOK(c)
  BY DEF CallbackInv
<1>1. CASE QuietSteps
  <2>1. PICK r : r = Outcome(c)
    OBVIOUS
  <2>2. Progress(c, r)
    BY <1>0, <1>1, <2>1, QuietProgress DEF TrackedOK
  <2> QED
    BY <2>2 DEF Progress
<1>2. ASSUME NEW k, NEW ps, Creating(k, ps) PROVE Held(c)
  BY <1>2 DEF Creating, Held, Stacked, Deferred
<1>3. ASSUME NEW p \in Id, NEW r \in Results, Resolving(p, r), BatchSteps(CallbacksOf(p, r)),
             Outcome(c) # "Pending", ~Held(c)
      PROVE  FALSE
  <2> DEFINE b == CallbacksOf(p, r)
  <2>1. ~Attached(c, p)
    BY <1>0, <1>3 DEF TrackedOK, AttachedOnce
  <2>2. b \in Batch /\ b \notin BatchesWith(c)
    BY <2>1, HandedOver DEF Attached
  <2>3. b \notin BadBatches(c, r) /\ HeldOnce(c, r)
    BY <1>3, <2>2, BadOnes, NotHeld
  <2> HIDE DEF b
  <2>4. BatchSteps(b)
    BY <1>3 DEF b
  <2>5. Held(c)' <=> Held(c)
    BY <2>2, <2>3, <2>4, BatchProgress
  <2> QED
    BY <1>3, <2>5
<1> QED
  BY <1>1, <1>2, <1>3 DEF CoreSteps, QuietSteps

(* What has run to its end does not run again.                             *)
LEMMA WaitsKept ==
    ASSUME CoreType, CoreType', CallbackInv, CoreSteps, CellType, Next, NEW c \in Id,
           c # next, kind'[c] = kind[c], args'[c] = args[c], Waits(c)'
    PROVE  Waits(c)
<1>1. count'[c] <= count[c] /\ (cell'[c] => cell[c]) /\ count[c] \in Int /\ count'[c] \in Int
  BY CellsEbb DEF CellType
<1>2. CASE kind[c] = "join" /\ count'[c] >= 1
  BY <1>1, <1>2 DEF Waits
<1>3. CASE kind[c] \in Removable /\ cell'[c]
  BY <1>1, <1>3 DEF Waits
<1>4. ASSUME kind[c] \in Sequential \cup {"no_cancel"},
             Outcome(c)' = "Pending" \/ Held(c)' \/ Meets(stack', UsersOf(c))
      PROVE  Waits(c)
  <2>1. kind[c] \in Tracked
    BY <1>4 DEF Tracked, WithUserCode
  <2>2. Outcome(c)' = "Pending" => Outcome(c) = "Pending"
    BY <2>1, OutcomeKept
  <2>3. Held(c)' => Held(c) \/ Outcome(c) = "Pending"
    BY <2>1, HeldKept
  <2>4. ASSUME Meets(stack', UsersOf(c)) PROVE Meets(stack, UsersOf(c)) \/ Held(c)
    <3>1. CASE Visiting /\ c = Current
      BY <3>1, RemainingSame DEF Visiting, Held
    <3>2. CASE ~(Visiting /\ c = Current)
      BY <2>4, <3>2, UsersLess DEF Less
    <3> QED
      BY <3>1, <3>2
  <2> QED
    BY <1>4, <2>2, <2>3, <2>4 DEF Waits
<1> QED
  BY <1>2, <1>3, <1>4 DEF Waits, UsersOf

(* When c is to be resolved, its callback has run to its end.              *)
LEMMA AnsweredOnce ==
    ASSUME CoreType, CoreType', CallbackInv, CoreSteps, CellType, Next, NEW c \in Id, UserOK(c),
           Answers(c), Returning \/ Passing, kind'[c] = kind[c], args'[c] = args[c]
    PROVE  ~Waits(c)'
<1>0. /\ stack \in Seq(Frames) /\ runs \in [Id -> Nat] /\ UNCHANGED <<deferred, runs>>
      /\ \A x, y : Frame(x) /\ Frame(y) => x = y
  BY DEF CoreType, Returning, Passing, Frame
<1>1. ASSUME kind[c] \in Sequential \cup {"no_cancel"}, Outcome(c) # "Pending", ~Held(c)', ~Meets(stack', UsersOf(c))
      PROVE  ~Waits(c)'
  <2>1. kind[c] \notin Removable /\ kind[c] # "join" /\ kind[c] \in Tracked
    BY <1>1 DEF Sequential, Removable, Tracked, WithUserCode
  <2>2. Outcome(c)' # "Pending"
    BY <1>1, <2>1, OutcomeKept
  <2> QED
    BY <1>1, <2>1, <2>2 DEF Waits, UsersOf
<1>2. CASE Frame("user") /\ Top.c = c /\ kind[c] \in Sequential
  <2>1. Top \in Frames /\ Top.k = "user" /\ stack # <<>> /\ kind[c] \in Tracked
    BY <1>2, TopFrame DEF Tracked, WithUserCode
  <2>2. Grown(stack', Tail(stack)) /\ Top \in UsersOf(c)
    BY <1>0, <1>2, <2>1 DEF Returning, Passing, Busy, UsersOf
  <2>3. PICK f, t : f \in Frames /\ t \in Seq(Frames) /\ stack = Push(f, t) /\ f = Top /\ t = Tail(stack)
    BY <1>0, <2>1, FirstOfList DEF Top
  <2>4. /\ Meets(Push(f, t), UsersOf(c)) <=> f \in UsersOf(c) \/ Meets(t, UsersOf(c))
        /\ Single(Push(f, t), UsersOf(c)) => ~(f \in UsersOf(c) /\ Meets(t, UsersOf(c)))
    BY <2>3, PushMeets
  <2>5. Meets(stack, UsersOf(c)) /\ ~Meets(t, UsersOf(c))
    BY <2>1, <2>2, <2>3, <2>4 DEF UserOK
  <2>6. ~Meets(stack', UsersOf(c))
    BY <2>2, <2>3, <2>5, GrownLess DEF Less
  <2>7. runs[c] # 0 /\ RunsOnce(c)
    BY <2>1, <2>5 DEF UserOK, CallbackInv, TrackedOK
  <2>8. Outcome(c) # "Pending" /\ ~Held(c)
    BY <2>7 DEF RunsOnce
  <2>9. ~Held(c)'
    BY <2>1, <2>8, HeldKept
  <2> QED
    BY <1>1, <1>2, <2>6, <2>8, <2>9
<1>3. CASE Frame("run") /\ Top.cans = <<>> /\ Top.regs # <<>> /\ c = Head(Top.regs)
  <2>1. Passing /\ Busy /\ c = Current
    <3>1. Top.k = "run"
      BY <1>3 DEF Frame, Top
    <3>2. Top \notin Finished
      BY <1>3, <3>1 DEF Finished
    <3> QED
      BY <1>3, <3>2 DEF Returning, Passing, Current
  <2>2. ASSUME kind[c] \in Sequential \cup {"no_cancel"} PROVE ~Waits(c)'
    <3>1. kind[c] \in Tracked
      BY <2>2 DEF Tracked, WithUserCode
    <3>2. PICK r : r = Outcome(c)
      OBVIOUS
    <3>3. HeldOnce(c, r) /\ RunsOnce(c)
      BY <3>1, <3>2 DEF CallbackInv, TrackedOK
    <3> DEFINE s == Push(Remaining, Tail(stack))
    <3>4. Stacked(c) /\ s \in Seq(Frames) /\ ~Meets(s, FramesWith(c))
      BY <2>1, <3>3, RemainingSame DEF HeldOnce
    <3>5. Grown(stack', s)
      BY <2>1 DEF Passing
    <3> HIDE DEF s
    <3>6. ~Meets(stack', FramesWith(c))
      BY <3>4, <3>5, SameGrown DEF Same
    <3>7. ~Deferred(c)
      BY <3>3, <3>4 DEF HeldOnce
    <3>8. ~Held(c)'
      BY <1>0, <3>6, <3>7 DEF Held, Stacked, Deferred
    <3>9. Outcome(c) # "Pending" /\ runs[c] = 0
      BY <3>3, <3>4 DEF RunsOnce, Held
    <3>10. ~Visiting
      <4>1. runs'[c] = runs[c] /\ runs[c] + 1 # runs[c]
        BY <1>0, <3>9
      <4> QED
        BY <1>0, <2>1, <4>1 DEF Visiting
    <3>11. ~Meets(stack', UsersOf(c))
      BY <3>9, <3>10, UsersLess DEF Less, UserOK
    <3> QED
      BY <1>1, <2>2, <3>8, <3>9, <3>11
  <2>3. ASSUME kind[c] = "join", count[c] = 1 PROVE ~Waits(c)'
    <3>1. count'[c] = 0
      BY <1>3, <2>3, CellsAnswer
    <3>2. kind[c] \notin Removable /\ kind[c] \notin Sequential \cup {"no_cancel"}
      BY <2>3 DEF Removable, Sequential
    <3> QED
      BY <3>1, <3>2 DEF Waits
  <2>4. ASSUME kind[c] \in Removable PROVE ~Waits(c)'
    <3>1. ~cell'[c]
      BY <1>3, <2>4, CellsAnswer
    <3>2. kind[c] # "join" /\ kind[c] \notin Sequential \cup {"no_cancel"}
      BY <2>4 DEF Removable, Sequential
    <3> QED
      BY <3>1, <3>2 DEF Waits
  <2> QED
    BY <1>0, <1>3, <2>2, <2>3, <2>4 DEF Answers
<1> QED
  BY <1>2, <1>3 DEF Answers

LEMMA OwedKept ==
    ASSUME CoreType, CoreType', CallbackInv, CoreSteps, CellType, Next, NEW c \in Id, UserOK(c), OwedOK(c)
    PROVE  OwedOK(c)'
<1> DEFINE W == ResolvesOf(c)
<1>0. W' = W
  BY DEF ResolvesOf
<1>1. SUFFICES ASSUME Meets(stack', W) PROVE kind'[c] \in Makers /\ Single(stack', W) /\ ~Waits(c)'
  BY <1>0 DEF OwedOK
<1>2. Meets(stack, W) => kind[c] \in Makers /\ Single(stack, W) /\ ~Waits(c)
  BY DEF OwedOK
<1>3. Answers(c) => Waits(c) /\ kind[c] \in Makers
  BY AnswersWaits
<1>4. /\ ~Answers(c) => Less(stack', stack, W)
      /\ Meets(stack', W) /\ ~Meets(stack, W) => Answers(c) /\ (Returning \/ Passing) /\ Single(stack', W)
  BY ResolvesPushed
<1> HIDE DEF W
<1>5. kind[c] \in Makers
  BY <1>1, <1>2, <1>3, <1>4
<1>6. c # next /\ kind'[c] = kind[c] /\ args'[c] = args[c]
  <2>1. kind[c] # "free"
    BY <1>5 DEF Makers, Sequential, Removable
  <2>2. next \in Int
    BY DEF CoreType
  <2> QED
    BY <2>1, <2>2, NamesKept DEF FreeOK, CallbackInv
<1>7. CASE Meets(stack, W)
  <2>1. Less(stack', stack, W) /\ ~Waits(c)
    BY <1>2, <1>3, <1>4, <1>7
  <2>2. ~Waits(c)'
    BY <1>6, <2>1, WaitsKept
  <2> QED
    BY <1>2, <1>5, <1>6, <1>7, <2>1, <2>2 DEF Less
<1>8. CASE ~Meets(stack, W)
  <2>1. Answers(c) /\ (Returning \/ Passing) /\ Single(stack', W)
    BY <1>1, <1>4, <1>8
  <2>2. ~Waits(c)'
    BY <1>6, <2>1, AnsweredOnce
  <2> QED
    BY <1>5, <1>6, <2>1, <2>2
<1> QED
  BY <1>7, <1>8

LEMMA PastWaits ==
    ASSUME CallbackInv, NEW c \in Id, Past(c)
    PROVE  ~Waits(c)
<1>1. /\ kind[c] \in Sequential /\ kind[c] \in Tracked /\ kind[c] # "join" /\ kind[c] \notin Removable
      /\ runs[c] = 1 /\ ~Meets(stack, UsersOf(c))
  BY DEF Past, Sequential, Tracked, WithUserCode, Removable
<1>2. RunsOnce(c)
  BY <1>1 DEF CallbackInv, TrackedOK
<1> QED
  BY <1>1, <1>2 DEF RunsOnce, Waits

LEMMA UsersKept ==
    ASSUME CoreType, CoreType', CallbackInv, CoreSteps, NEW c \in Id, UserOK(c)
    PROVE  /\ UserOK(c)'
           /\ Past(c) => Past(c)'
<1> DEFINE U == UsersOf(c)
           Visited == Visiting /\ c = Current
<1>1. PICK s \in Seq(Frames) :
        /\ Rest(s)
        /\ \/ Grown(stack', s)
           \/ Visiting /\ stack' = Push(User(Current, storage'), s)
           \/ /\ Frame("traverse")
              /\ \E f \in Frames : stack' = Push(f, s) /\ f.k \in {"traverse", "phase2"}
  BY StackShape DEF Shaped
<1>2. Less(s, stack, U)
  <2>1. UsersOf(c) \in SUBSET Loud
    BY DEF UsersOf, Loud
  <2> QED
    BY <1>1, <2>1 DEF Rest
<1>3. runs \in [Id -> Nat] /\ storage' \in Storages
  BY DEF CoreType
<1>5. ~Visited => runs'[c] = runs[c] /\ Less(stack', stack, U)
  BY UsersLess
<1>6. kind[c] \in Tracked => ~(kind[c] = "free")
  BY TrackedKinds
<1>7. ASSUME ~Visited PROVE UserOK(c)'
  <2>1. Meets(stack', U) => runs'[c] # 0
    BY <1>5, <1>7 DEF Less, UserOK
  <2>2. ASSUME kind'[c] \in Tracked PROVE Single(stack', U)
    <3>1. CASE kind[c] \in Tracked
      BY <1>5, <1>7, <3>1 DEF Less, UserOK
    <3>2. CASE kind[c] \notin Tracked
      <4>1. runs[c] = 0
        BY <2>2, <3>2, NamesKept DEF FreeOK
      <4>2. ~Meets(stack', U)
        BY <1>5, <1>7, <2>1, <4>1
      <4> QED
        BY <4>2 DEF Meets, Single
    <3> QED
      BY <3>1, <3>2
  <2> QED
    BY <2>1, <2>2 DEF UserOK, UsersOf
<1>8. ASSUME Visited PROVE UserOK(c)' /\ ~Past(c)
  <2>1. runs'[c] # 0 /\ kind' = kind
    <3>1. runs'[c] = runs[c] + 1
      BY <1>3, <1>8 DEF Visiting
    <3>2. runs'[c] # 0 /\ runs' # runs
      BY <1>3, <3>1
    <3>3. kind' = kind
      BY <3>2 DEF CoreSteps, KeepHeap, Clearing, Merging, Resolving, Creating
    <3> QED
      BY <3>2, <3>3
  <2>2. ASSUME kind[c] \in Tracked PROVE Single(stack', U) /\ runs[c] = 0
    <3>1. runs[c] = 0
      BY <1>8, <2>2, VisitsOnce
    <3>2. ~Meets(s, U) /\ Single(s, U)
      BY <1>2, <3>1 DEF UserOK, Less, Meets, Single
    <3>3. CASE Grown(stack', s)
      BY <3>1, <3>2, <3>3, GrownLess DEF Less
    <3>4. ASSUME NEW f \in Frames, stack' = Push(f, s) PROVE Single(stack', U)
      BY <3>2, <3>4, PushMeets
    <3>5. User(Current, storage') \in Frames
      BY <1>3, <1>8, FrameTypes
    <3> QED
      BY <1>1, <3>1, <3>3, <3>4, <3>5
  <2>3. kind[c] \in Sequential => kind[c] \in Tracked
    BY DEF Tracked, WithUserCode
  <2> QED
    BY <2>1, <2>2, <2>3 DEF UserOK, Past, UsersOf
<1>9. ASSUME ~Visited, Past(c) PROVE Past(c)'
  <2>1. kind'[c] = kind[c]
    BY <1>9, NamesKept, <1>6 DEF Past, FreeOK, Tracked, WithUserCode
  <2>2. ~Answers(c)
    BY <1>9, PastWaits, AnswersWaits
  <2>3. Less(stack', stack, ResolvesOf(c))
    BY <2>2, ResolvesPushed
  <2> QED
    BY <1>5, <1>9, <2>1, <2>3 DEF Past, Less, UsersOf, ResolvesOf
<1> QED
  BY <1>7, <1>8, <1>9

-----------------------------------------------------------------------------
(* The classes.                                                            *)
HasBase(q) == \E b \in Id : BaseOf(q, b)

LEMMA ClassesQuiet ==
    ASSUME CoreType, ClassesOK, \A c \in Id : Past(c) => Past(c)',
           UNCHANGED <<kind, args, rep>>, Promises' = Promises,
           \A q \in Id : state'[q] = "Pending" => state[q] = "Pending" /\ how'[q] = how[q]
    PROVE  ClassesOK'
<1>1. ASSUME NEW q \in Id, state'[q] = "Pending" PROVE HasBase(q)'
  <2>1. PICK b \in Id : BaseOf(q, b)
    BY <1>1 DEF ClassesOK
  <2>2. HowOf(b, how[q])'
    BY <1>1, <2>1 DEF BaseOf, HowOf
  <2>3. Promises \subseteq Id
    BY DEF Promises
  <2>4. BaseOf(q, b)'
    BY <1>1, <2>1, <2>2, <2>3 DEF BaseOf
  <2> QED
    BY <2>4 DEF HasBase
<1> QED
  BY <1>1 DEF ClassesOK, HasBase

(* What is made from promises that get the same proxies stays alike.       *)
LEMMA HowMerged ==
    ASSUME CoreType, NEW p \in Id, NEW q \in Id, Merging(p, q), NEW b \in Id, NEW x \in Id, HowOf(b, how[x])
    PROVE  HowOf(b, how[x]) /\ kind'[b] = kind[b] /\ args'[b] = args[b]
           /\ (kind[b] \notin {"wait", "no_cancel", "task", "protected"} =>
                  \A i \in DOMAIN how[x].to : rep'[how[x].to[i]] = rep'[args[b][i]])
<1>1. \A y, z \in Id : rep[y] = rep[z] => rep'[y] = rep'[z]
  BY DEF Merging
<1>2. how[x].to \in Seq(Id) /\ args[b] \in Seq(Id)
  BY DEF CoreType, Cancelability
<1>3. kind'[b] = kind[b] /\ args'[b] = args[b]
  BY DEF Merging
<1>4. ASSUME kind[b] \notin {"wait", "no_cancel", "task", "protected"}, NEW i \in DOMAIN how[x].to
      PROVE  rep'[how[x].to[i]] = rep'[args[b][i]]
  <2>1. i \in DOMAIN args[b] /\ rep[how[x].to[i]] = rep[args[b][i]]
    BY <1>4 DEF HowOf
  <2>2. how[x].to[i] \in Id /\ args[b][i] \in Id
    BY <1>2, <1>4, <2>1
  <2> QED
    BY <1>1, <2>1, <2>2
<1> QED
  BY <1>3, <1>4

LEMMA ClassesMerged ==
    ASSUME CoreType, CallbackInv, CallbackInv', ClassesOK, \A c \in Id : UserOK(c) /\ OwedOK(c),
           \A c \in Id : Past(c) => Past(c)',
           NEW p \in Id, NEW q \in Id, Merging(p, q), Proxying(p, q), UNCHANGED runs
    PROVE  ClassesOK'
<1>0. /\ rep \in [Id -> Id] /\ state \in [Id -> States] /\ how \in [Id -> Cancelability]
      /\ kind \in [Id -> Kinds] /\ stack \in Seq(Frames)
  BY DEF CoreType
<1>1. /\ p # q /\ state[p] = "Pending" /\ state[q] = "Pending" /\ UNCHANGED <<kind, args>>
      /\ \A x \in Id : state'[x] = IF x = p THEN "Proxy" ELSE state[x]
      /\ \A x \in Id : x # p => how'[x] = IF x = q THEN how[p] ELSE how[x]
      /\ \A x \in Id : rep'[x] = IF rep[x] = p THEN q ELSE rep[x]
  BY <1>0 DEF Merging
<1>2. Promises' = Promises /\ Promises \subseteq Id
  BY <1>1 DEF Promises
<1>a. PICK d : d = Top.c
  OBVIOUS
<1>3. /\ stack # <<>> /\ Top \in UsersOf(d) /\ d \in Id /\ kind[d] \in Sequential /\ q = rep[d]
      /\ stack' = Tail(stack) /\ d \in Promises
  <2>1. Frame("user") /\ kind[d] \in Sequential /\ q = rep[d] /\ stack' = Tail(stack)
    BY <1>a DEF Proxying
  <2>2. Top \in Frames /\ Top.k = "user" /\ stack # <<>>
    BY <2>1, TopFrame
  <2>3. d \in Id
    BY <1>a, <2>2, FrameParts
  <2> QED
    BY <1>a, <2>1, <2>2, <2>3 DEF UsersOf, ClassesOK
<1>4. rep[p] = p /\ rep[q] = q
  <2>1. PICK x \in Id : p = rep[x]
    BY <1>2 DEF Proxying
  <2> QED
    BY <1>3, <2>1 DEF ClassesOK
<1>5. \A x \in Id : rep'[rep'[x]] = rep'[x]
  BY <1>0, <1>1, <1>4 DEF ClassesOK
<1>6. \A c \in Id : kind'[c] \in Sequential => c \in Promises' /\ DOMAIN args'[c] = {1}
  BY <1>1, <1>2 DEF ClassesOK
<1>7. Meets(stack, UsersOf(d)) /\ ~Meets(Tail(stack), UsersOf(d))
  <2>1. PICK f, t : f \in Frames /\ t \in Seq(Frames) /\ stack = Push(f, t) /\ f = Top /\ t = Tail(stack)
    BY <1>0, <1>3, FirstOfList DEF Top
  <2>2. kind[d] \in Tracked
    BY <1>3 DEF Tracked, WithUserCode
  <2>3. Single(stack, UsersOf(d))
    BY <1>3, <2>2 DEF UserOK
  <2>4. /\ Meets(Push(f, t), UsersOf(d)) <=> f \in UsersOf(d) \/ Meets(t, UsersOf(d))
        /\ Single(Push(f, t), UsersOf(d)) => ~(f \in UsersOf(d) /\ Meets(t, UsersOf(d)))
    BY <2>1, PushMeets
  <2> QED
    BY <1>3, <2>1, <2>3, <2>4
<1>8. Past(d)'
  <2>1. runs[d] = 1
    BY <1>3, <1>7 DEF UserOK, CallbackInv, TrackedOK, RunsOnce, Tracked, WithUserCode
  <2>2. ~Meets(stack', UsersOf(d))
    BY <1>3, <1>7
  <2>3. ~Meets(stack, ResolvesOf(d))
    BY <1>3, <1>7 DEF OwedOK, Waits
  <2>4. ~Meets(stack', ResolvesOf(d))
    <3>1. Rest(Tail(stack)) /\ ResolvesOf(d) \in SUBSET Loud
      BY <1>3, LessBelow DEF ResolvesOf, Loud
    <3> QED
      BY <1>3, <2>3, <3>1 DEF Rest, Less
  <2> QED
    BY <1>1, <1>3, <2>1, <2>2, <2>4 DEF Past, UsersOf, ResolvesOf
<1>9. \A c \in Promises : rep[c] = q => Past(c)'
  <2>1. PICK b \in Id : BaseOf(q, b)
    BY <1>1 DEF ClassesOK
  <2>2. d = b
    BY <1>3, <1>7, <2>1 DEF BaseOf, Past
  <2> QED
    BY <1>2, <1>8, <2>1, <2>2 DEF BaseOf
<1>10. ASSUME NEW x \in Id, NEW b \in Id, BaseOf(x, b), NEW y \in Id, x # q,
              y = (IF x = p THEN q ELSE x), state[x] = "Pending"
       PROVE  BaseOf(y, b)'
  <2>1. how'[y] = how[x] /\ y # p
    BY <1>1, <1>10
  <2>2. b \in Promises' /\ rep'[b] = y
    BY <1>1, <1>2, <1>10 DEF BaseOf
  <2>3. HowOf(b, how[y])'
    <3>1. /\ HowOf(b, how[x]) /\ kind'[b] = kind[b] /\ args'[b] = args[b]
          /\ (kind[b] \notin {"wait", "no_cancel", "task", "protected"} =>
                  \A i \in DOMAIN how[x].to : rep'[how[x].to[i]] = rep'[args[b][i]])
      BY <1>10, HowMerged DEF BaseOf
    <3> QED
      BY <2>1, <3>1 DEF HowOf
  <2>4. ASSUME NEW c \in Promises, rep'[c] = y, c # b PROVE Past(c)'
    <3>1. rep[c] = x \/ rep[c] = q
      BY <1>1, <1>2, <1>10, <2>4
    <3>2. rep[c] = x => Past(c)
      BY <1>10, <2>4 DEF BaseOf
    <3> QED
      BY <1>2, <1>9, <3>1, <3>2
  <2> QED
    BY <1>2, <2>2, <2>3, <2>4 DEF BaseOf
<1>11. ASSUME NEW y \in Id, state'[y] = "Pending" PROVE HasBase(y)'
  <2>1. y # p /\ state[y] = "Pending"
    BY <1>1, <1>11
  <2> DEFINE x == IF y = q THEN p ELSE y
  <2>2. x \in Id /\ x # q /\ y = (IF x = p THEN q ELSE x) /\ state[x] = "Pending"
    BY <1>1, <2>1
  <2>3. PICK b \in Id : BaseOf(x, b)
    BY <2>2 DEF ClassesOK
  <2> HIDE DEF x
  <2> QED
    BY <1>10, <2>2, <2>3 DEF HasBase
<1> QED
  BY <1>5, <1>6, <1>11 DEF ClassesOK, HasBase

LEMMA MadeLike ==
    ASSUME CoreType, NEW k \in Kinds \ (Observers \cup {"free"}), NEW ps \in Seq(Id), NEW h, h = HowMade(k, ps),
           k \in Sequential => \E p \in Id : ps = <<p>> /\ rep[rep[p]] = rep[p]
    PROVE  /\ k \in {"wait", "no_cancel"} => h.kind = "Not"
           /\ k \in {"task", "protected"} => h.kind = "This"
           /\ k \notin {"wait", "no_cancel", "task", "protected"} =>
                  /\ h.kind = "Propagate" /\ DOMAIN h.to = DOMAIN ps
                  /\ \A i \in DOMAIN h.to : rep[h.to[i]] = rep[ps[i]]
<1>1. CASE k \in {"wait", "no_cancel", "task", "protected"}
  BY <1>1 DEF HowMade, NotCancelable, CancelThis, Sequential
<1>2. CASE k \in Sequential
  <2>1. PICK p \in Id : ps = <<p>> /\ rep[rep[p]] = rep[p]
    BY <1>2
  <2>2. k \notin {"wait", "no_cancel", "task", "protected"}
    BY <1>2 DEF Sequential
  <2>3. h = PropagateTo(<<rep[p]>>)
    BY <1>2, <2>1, <2>2 DEF HowMade
  <2>4. h.kind = "Propagate" /\ h.to = <<rep[p]>>
    BY <2>3 DEF PropagateTo
  <2>5. \A i \in DOMAIN <<rep[p]>> : i = 1
    OBVIOUS
  <2>6. DOMAIN h.to = DOMAIN ps /\ \A i \in DOMAIN h.to : rep[h.to[i]] = rep[ps[i]]
    BY <2>1, <2>4, <2>5
  <2> QED
    BY <2>2, <2>4, <2>6
<1>3. CASE k \notin {"wait", "no_cancel", "task", "protected"} /\ k \notin Sequential
  BY <1>3 DEF HowMade, PropagateTo
<1> QED
  BY <1>1, <1>2, <1>3

LEMMA ClassesCreated ==
    ASSUME CoreType, CallbackInv, ClassesOK, \A c \in Id : Past(c) => Past(c)',
           NEW k, NEW ps, Creating(k, ps), Making
    PROVE  ClassesOK'
<1>0. /\ kind \in [Id -> Kinds] /\ args \in [Id -> Seq(Id)] /\ state \in [Id -> States]
      /\ how \in [Id -> Cancelability] /\ rep \in [Id -> Id]
  BY DEF CoreType
<1>a. PICK n : n = next
  OBVIOUS
<1>1. /\ n \in Id /\ k \in Kinds \ {"free"} /\ ps \in Seq(Id) /\ rep' = rep
      /\ \A c \in Id : kind'[c] = IF c = n THEN k ELSE kind[c]
      /\ \A c \in Id : args'[c] = IF c = n THEN ps ELSE args[c]
      /\ k \in Tracked => \E p \in Id : ps = <<p>>
  BY <1>0, <1>a DEF Creating, Promises
<1>2. FreeOK(n)
  <2>1. next \in Int
    BY DEF CoreType
  <2> QED
    BY <1>1, <1>a, <2>1 DEF CallbackInv
<1>3. /\ state[n] = "none" /\ rep[n] = n
      /\ \A c \in Promises : c # n /\ c \in Id /\ rep[c] # n
  BY <1>2 DEF FreeOK, CallbackInv, RepOK, Promises
<1>4. \A c \in Id : c # n => state'[c] = state[c] /\ how'[c] = how[c]
  BY <1>0, <1>1, <1>a DEF Making
<1>5. k \notin Observers => /\ state'[n] = "Pending" /\ how'[n] = HowMade(k, ps)
                            /\ (k \in Initial => ps = <<>>)
  BY <1>0, <1>1, <1>a DEF Making
<1>6. k \in Observers => state'[n] = "none"
  BY <1>1, <1>3, <1>a DEF Making
<1>7. /\ Promises \subseteq Promises' /\ Promises' \subseteq Promises \cup {n}
      /\ (k \notin Observers => n \in Promises')
  BY <1>1, <1>3, <1>4, <1>5 DEF Promises
<1>8. \A c \in Id : kind'[c] \in Sequential => c \in Promises' /\ DOMAIN args'[c] = {1}
  <2>1. k \in Sequential => k \notin Observers /\ DOMAIN ps = {1}
    <3>1. k \in Sequential => k \notin Observers /\ k \in Tracked
      BY DEF Sequential, Observers, Tracked, WithUserCode
    <3>2. \A p : DOMAIN <<p>> = {1}
      OBVIOUS
    <3> QED
      BY <1>1, <3>1, <3>2
  <2> QED
    BY <1>1, <1>7, <2>1 DEF ClassesOK
<1>9. ASSUME NEW q \in Id, q # n, state'[q] = "Pending" PROVE HasBase(q)'
  <2>1. PICK b \in Id : BaseOf(q, b)
    BY <1>4, <1>9 DEF ClassesOK
  <2>2. b # n /\ kind'[b] = kind[b] /\ args'[b] = args[b]
    BY <1>1, <1>3, <2>1 DEF BaseOf
  <2>3. HowOf(b, how[q])'
    BY <1>1, <1>4, <1>9, <2>1, <2>2 DEF BaseOf, HowOf
  <2>4. ASSUME NEW c \in Promises', rep'[c] = q, c # b PROVE Past(c)'
    <3>1. c \in Promises /\ c \in Id
      BY <1>1, <1>3, <1>7, <1>9, <2>4
    <3> QED
      BY <1>1, <2>1, <2>4, <3>1 DEF BaseOf
  <2>5. BaseOf(q, b)'
    BY <1>1, <1>7, <2>1, <2>3, <2>4 DEF BaseOf
  <2> QED
    BY <2>5 DEF HasBase
<1>10. ASSUME state'[n] = "Pending" PROVE HasBase(n)'
  <2>1. k \notin Observers
    BY <1>6, <1>10
  <2>2. k \in Sequential => \E p \in Id : ps = <<p>> /\ rep[rep[p]] = rep[p]
    BY <1>1 DEF ClassesOK, Tracked, WithUserCode
  <2>3. /\ k \in {"wait", "no_cancel"} => how'[n].kind = "Not"
        /\ k \in {"task", "protected"} => how'[n].kind = "This"
        /\ k \notin {"wait", "no_cancel", "task", "protected"} =>
                  /\ how'[n].kind = "Propagate" /\ DOMAIN how'[n].to = DOMAIN ps
                  /\ \A i \in DOMAIN how'[n].to : rep[how'[n].to[i]] = rep[ps[i]]
    BY <1>1, <1>5, <2>1, <2>2, MadeLike
  <2>4. HowOf(n, how[n])'
    BY <1>1, <1>5, <2>1, <2>3 DEF HowOf
  <2>5. \A c \in Promises' : rep'[c] = n => c = n
    BY <1>1, <1>3, <1>7
  <2>6. BaseOf(n, n)'
    BY <1>1, <1>3, <1>7, <2>1, <2>4, <2>5 DEF BaseOf
  <2> QED
    BY <1>1, <2>6 DEF HasBase
<1> QED
  BY <1>1, <1>8, <1>9, <1>10 DEF ClassesOK, HasBase

LEMMA ClassesKept ==
    ASSUME CoreType, CallbackInv, CallbackInv', CoreSteps, ClassesOK, \A c \in Id : UserOK(c) /\ OwedOK(c),
           \A c \in Id : Past(c) => Past(c)'
    PROVE  ClassesOK'
<1>1. CASE KeepHeap \/ Clearing
  <2>1. UNCHANGED <<kind, args, rep, state, how>>
    BY <1>1 DEF KeepHeap, Clearing
  <2>2. Promises' = Promises
    BY <2>1 DEF Promises
  <2> QED
    BY <2>1, <2>2, ClassesQuiet
<1>2. ASSUME NEW p \in Id, NEW q \in Id, Merging(p, q), Proxying(p, q), Returning PROVE ClassesOK'
  BY <1>2, ClassesMerged DEF Returning
<1>3. ASSUME NEW k, NEW ps, Creating(k, ps), Making PROVE ClassesOK'
  BY <1>3, ClassesCreated
<1>4. ASSUME NEW p \in Id, NEW r \in Results, Resolving(p, r) PROVE ClassesOK'
  <2>1. /\ UNCHANGED <<kind, args, rep>> /\ state[p] = "Pending"
        /\ \A q \in Id : state'[q] = (IF q = p THEN r ELSE state[q]) /\ (q # p => how'[q] = how[q])
    BY <1>4 DEF Resolving, CoreType
  <2>2. r # "Pending" /\ r # "none"
    BY DEF Results
  <2>3. Promises' = Promises
    BY <2>1, <2>2 DEF Promises
  <2>4. \A q \in Id : state'[q] = "Pending" => state[q] = "Pending" /\ how'[q] = how[q]
    BY <2>1, <2>2
  <2> QED
    BY <2>1, <2>3, <2>4, ClassesQuiet
<1> QED
  BY <1>1, <1>2, <1>3, <1>4 DEF CoreSteps

-----------------------------------------------------------------------------
(* The traversal.                                                          *)
LEMMA UnderlyingLists ==
    ASSUME CoreType, NEW a \in Seq(Id), NEW b \in Seq(Id)
    PROVE  /\ Underlying(a \o b) = Underlying(a) \cup Underlying(b)
           /\ a # <<>> => Underlying(a) = {rep[Head(a)]} \cup Underlying(Tail(a))
           /\ Underlying(a) \subseteq Id
<1>1. \A c, x : x \in Underlying(c) <=> \E y : In(c, y) /\ x = rep[y]
  BY DEF Underlying, In
<1>2. Underlying(a \o b) = Underlying(a) \cup Underlying(b)
  <2>1. \A y : In(a \o b, y) <=> In(a, y) \/ In(b, y)
    BY ConcatList
  <2> QED
    BY <1>1, <2>1
<1>3. ASSUME a # <<>> PROVE Underlying(a) = {rep[Head(a)]} \cup Underlying(Tail(a))
  <2>1. \A y : In(a, y) <=> y = Head(a) \/ In(Tail(a), y)
    BY <1>3, FirstOfList
  <2> QED
    BY <1>1, <2>1
<1>4. Underlying(a) \subseteq Id
  <2>1. \A i \in DOMAIN a : a[i] \in Id
    OBVIOUS
  <2> QED
    BY <2>1 DEF Underlying, CoreType
<1> QED
  BY <1>2, <1>3, <1>4

(* Nothing else happens during a traversal.                                *)
LEMMA TraverseAlone ==
    ASSUME Frame("traverse"), Next
    PROVE  traverse_step \/ traverse_done
<1>1. ~UserTurn /\ \A k : Frame(k) => k = "traverse"
  BY DEF UserTurn, Frame
<1>2. LwtStep
  BY <1>1, LwtAlone
<1> QED
  BY <1>1, <1>2 DEF LwtStep, run_cancel_callback, run_user_callback, run_passing_callback, run_join_callback,
                    run_removable_callback, run_done, clear_step, resolve_step, leave_step, phase2_step,
                    cancels_step, walk_step, Running

(* A traversal that begins.                                                *)
LEMMA FreshTraversal ==
    ASSUME CoreType', NEW f \in Plain, f.k = "traverse"
    PROVE  Sound(f)' /\ Complete(f)'
<1>1. f.todo = <<f.root>> /\ f.root \in Id
  BY FrameParts DEF Plain
<1>2. Underlying(f.todo)' = {rep'[f.root]}
  BY <1>1 DEF Underlying
<1>3. Sound(f)'
  BY <1>2 DEF Sound
<1>4. PICK S \in SUBSET Id : S = {q \in Id : state'[q] # "Pending"}
  OBVIOUS
<1>5. Closed(S, Underlying(f.todo))'
  BY <1>4 DEF Closed
<1>6. Complete(f)'
  BY <1>2, <1>4, <1>5 DEF Complete
<1> QED
  BY <1>3, <1>6

(* The step that visits x and puts what it propagates to ahead.            *)
Visits(f, x, todo) ==
    /\ x = rep[Head(f.todo)]
    /\ x \in Id /\ todo \in Seq(Id)
    /\ \A y \in Id : y # x => state'[y] = state[y] /\ how'[y] = how[y]
    /\ state'[x] = "Pending" => state[x] = "Pending" /\ how'[x] = how[x] /\ how[x].kind # "This"
    /\ state[x] = "Pending" /\ how[x].kind = "Propagate" => state'[x] = "Pending"
    /\ Underlying(todo) = Underlying(Tail(f.todo))
                            \cup (IF state[x] = "Pending" /\ how[x].kind = "Propagate"
                                  THEN Underlying(how[x].to) ELSE {})
    /\ UNCHANGED rep

LEMMA TraverseVisits ==
    ASSUME CoreType, traverse_step
    PROVE  \E x \in Id, todo \in Seq(Id), acc \in Seq(Batch) :
              /\ Visits(Top, x, todo)
              /\ stack' = Push(Traverse(Top.root, todo, acc), Tail(stack))
<1> DEFINE q == rep[Head(Top.todo)]
           b == CallbacksOf(q, "Canceled")
           rest == Tail(Top.todo)
<1>1. Frame("traverse") /\ Top.todo # <<>> /\ UNCHANGED rep
  BY DEF traverse_step
<1>2. /\ Top \in Frames /\ Top.k = "traverse" /\ Top.root \in Id /\ Top.todo \in Seq(Id)
      /\ Top.acc \in Seq(Batch) /\ Tail(stack) \in Seq(Frames)
  BY <1>1, TopFrame, FrameParts
<1>3. rest \in Seq(Id) /\ Head(Top.todo) \in Id
  BY <1>1, <1>2
<1>4. q \in Id /\ how \in [Id -> Cancelability] /\ state \in [Id -> States]
  BY <1>3 DEF CoreType
<1>5. CASE state[q] = "Pending" /\ how[q].kind = "This"
  <2>1. set_promise_state(q, "Canceled")
    BY <1>5 DEF traverse_step
  <2>2. /\ \A y \in Id : y # q => state'[y] = state[y] /\ how'[y] = how[y]
        /\ state'[q] # "Pending"
    BY <1>4, <2>1 DEF set_promise_state
  <2>3. stack' = <<[Top EXCEPT !.todo = rest, !.acc = <<b>> \o Top.acc]>> \o Tail(stack)
    BY <1>5 DEF traverse_step, Become
  <2>4. [Top EXCEPT !.todo = rest, !.acc = <<b>> \o Top.acc] = Traverse(Top.root, rest, Push(b, Top.acc))
    BY <1>2, TraverseUpdate DEF Push
  <2>5. stack' = Push(Traverse(Top.root, rest, Push(b, Top.acc)), Tail(stack))
    BY <2>3, <2>4 DEF Push
  <2>6. b \in Batch /\ Push(b, Top.acc) \in Seq(Batch)
    <3>1. b \in Batch
      BY <1>4, BatchTypes DEF Results
    <3>2. \A y \in Batch : Push(y, Top.acc) \in Seq(Batch)
      BY <1>2, PushList
    <3> QED
      BY <3>1, <3>2
  <2>7. Visits(Top, q, rest)
    BY <1>1, <1>3, <1>4, <1>5, <2>2 DEF Visits
  <2> QED
    BY <1>3, <1>4, <2>5, <2>6, <2>7
<1>6. CASE ~(state[q] = "Pending" /\ how[q].kind = "This")
  <2>1. UNCHANGED <<state, how>>
    BY <1>6 DEF traverse_step
  <2>2. how[q].to \in Seq(Id) /\ how[q].to \o rest \in Seq(Id) /\ how[q].kind \in {"Not", "This", "Propagate"}
    BY <1>3, <1>4 DEF Cancelability
  <2>3. PICK todo : /\ todo = IF state[q] = "Pending" /\ how[q].kind = "Propagate" THEN how[q].to \o rest ELSE rest
                    /\ Become(<<[Top EXCEPT !.todo = todo]>>)
    BY <1>6, <2>2 DEF traverse_step
  <2>4. [Top EXCEPT !.todo = todo] = Traverse(Top.root, todo, Top.acc) /\ todo \in Seq(Id)
    BY <1>2, <1>3, <2>2, <2>3, FrameUpdates
  <2>5. stack' = Push(Traverse(Top.root, todo, Top.acc), Tail(stack))
    BY <2>3, <2>4 DEF Become, Push
  <2>6. Underlying(how[q].to \o rest) = Underlying(how[q].to) \cup Underlying(rest)
    BY <1>3, <2>2, UnderlyingLists
  <2>7. Visits(Top, q, todo)
    BY <1>1, <1>4, <1>6, <2>1, <2>3, <2>4, <2>6 DEF Visits
  <2> QED
    BY <1>2, <1>4, <2>4, <2>5, <2>7
<1> QED
  BY <1>5, <1>6

LEMMA TraversalGoesOn ==
    ASSUME CoreType, NEW f \in Frames, f.k = "traverse", f.todo # <<>>, Sound(f), Complete(f),
           NEW x, NEW todo, Visits(f, x, todo), NEW g, g.root = f.root, g.todo = todo
    PROVE  Sound(g)' /\ Complete(g)'
<1>1. f.todo \in Seq(Id) /\ f.root \in Id /\ rep[f.root] \in Id
  BY FrameParts DEF CoreType
<1>2. Underlying(f.todo) = {x} \cup Underlying(Tail(f.todo)) /\ x \in Id
  BY <1>1, UnderlyingLists DEF Visits
<1>3. \A ps : Underlying(ps)' = Underlying(ps)
  BY DEF Underlying, Visits
<1>a. PICK A : A = Underlying(f.todo)
  OBVIOUS
<1>b. PICK B : B = Underlying(todo)
  OBVIOUS
<1>c. PICK r : r = rep[f.root]
  OBVIOUS
<1>d. /\ Underlying(g.todo)' = B /\ rep'[g.root] = r /\ rep[f.root] = r
      /\ A = {x} \cup Underlying(Tail(f.todo))
      /\ B = Underlying(Tail(f.todo)) \cup (IF state[x] = "Pending" /\ how[x].kind = "Propagate"
                                  THEN Underlying(how[x].to) ELSE {})
  BY <1>2, <1>3, <1>a, <1>b, <1>c DEF Visits
<1>4. ASSUME NEW S \in SUBSET Id, r \in S, Closed(S, {})' PROVE B \subseteq S
  <2>1. Closed(S, {})
    BY <1>3, <1>4 DEF Closed, Visits
  <2>2. A \subseteq S
    BY <1>4, <1>a, <1>c, <2>1 DEF Sound
  <2> QED
    BY <1>d, <2>1, <2>2 DEF Closed
<1>5. Sound(g)'
  BY <1>4, <1>d DEF Sound
<1>6. PICK S \in SUBSET Id : /\ r \in S \cup A
                             /\ {q \in Id : state[q] # "Pending"} \subseteq S
                             /\ Closed(S, A)
                             /\ \A q \in S : state[q] = "Pending" => how[q].kind # "This"
  BY <1>a, <1>c DEF Complete
<1>7. PICK T \in SUBSET Id : T = S \cup {x}
  BY <1>2
<1>8. r \in T \cup B
  BY <1>6, <1>7, <1>d
<1>9. {q \in Id : state'[q] # "Pending"} \subseteq T
  BY <1>6, <1>7 DEF Visits
<1>10. \A q \in T : state'[q] = "Pending" => how'[q].kind # "This"
  BY <1>2, <1>6, <1>7 DEF Visits
<1>11. ASSUME NEW q \in T, state'[q] = "Pending", how'[q].kind = "Propagate"
       PROVE  Underlying(how'[q].to) \subseteq T \cup B
  <2>1. state[q] = "Pending" /\ how[q].kind = "Propagate" /\ how'[q] = how[q]
    BY <1>2, <1>7, <1>11 DEF Visits
  <2>2. CASE q = x
    BY <1>d, <2>1, <2>2
  <2>3. CASE q # x
    BY <1>6, <1>7, <1>d, <1>11, <2>1, <2>3 DEF Closed
  <2> QED
    BY <2>2, <2>3
<1>12. Closed(T, B)'
  BY <1>3, <1>11 DEF Closed
<1>13. Complete(g)'
  BY <1>7, <1>8, <1>9, <1>10, <1>12, <1>d DEF Complete
<1> QED
  BY <1>5, <1>13

LEMMA TraverseDoing ==
    ASSUME CoreType, CoreType', TraversalOK, Frame("traverse"), Next
    PROVE  TraversalOK'
<1>1. /\ Top \in Frames /\ Top.k = "traverse" /\ Top.root \in Id /\ Top.todo \in Seq(Id)
      /\ Top.acc \in Seq(Batch) /\ Tail(stack) \in Seq(Frames) /\ stack # <<>>
  BY TopFrame, FrameParts
<1>2. ~Meets(Tail(stack), Traversals) /\ Sound(Top) /\ Complete(Top)
  BY <1>1 DEF TraversalOK
<1>3. ASSUME NEW f \in Frames, stack' = Push(f, Tail(stack)), f.k = "traverse" => Sound(f)' /\ Complete(f)'
      PROVE  TraversalOK'
  <2>1. Tail(stack') = Tail(stack) /\ Head(stack') = f
    BY <1>1, <1>3, PushList
  <2>2. ~Meets(Tail(stack'), Traversals)
    BY <1>2, <2>1
  <2>3. Frame("traverse")' => f.k = "traverse"
    BY <2>1 DEF Frame
  <2>4. PICK g : g = Top'
    OBVIOUS
  <2>5. g = f
    BY <2>1, <2>4 DEF Top
  <2>6. Frame("traverse")' => Sound(Top)' /\ Complete(Top)'
    BY <1>3, <2>3, <2>4, <2>5 DEF Sound, Complete
  <2> QED
    BY <2>2, <2>6 DEF TraversalOK, Traversals
<1>4. CASE traverse_done
  <2>1. stack' = Push(Phase2(Top.acc), Tail(stack))
    BY <1>4 DEF traverse_done, Become, Push, Phase2
  <2>2. Phase2(Top.acc) \in Frames /\ Phase2(Top.acc).k = "phase2"
    BY <1>1, FrameTypes DEF Phase2
  <2> QED
    BY <1>3, <2>1, <2>2
<1>5. CASE traverse_step
  <2>1. PICK x \in Id, todo \in Seq(Id), acc \in Seq(Batch) :
              /\ Visits(Top, x, todo)
              /\ stack' = Push(Traverse(Top.root, todo, acc), Tail(stack))
    BY <1>5, TraverseVisits
  <2>2. PICK g : g = Traverse(Top.root, todo, acc)
    OBVIOUS
  <2>3. g \in Frames /\ g.root = Top.root /\ g.todo = todo
    BY <1>1, <2>2, FrameTypes DEF Traverse
  <2>4. Top.todo # <<>>
    BY <1>5 DEF traverse_step
  <2>5. Sound(g)' /\ Complete(g)'
    BY <1>1, <1>2, <2>1, <2>3, <2>4, TraversalGoesOn
  <2> QED
    BY <1>3, <2>1, <2>2, <2>3, <2>5
<1> QED
  BY <1>4, <1>5, TraverseAlone

LEMMA TraverseStarting ==
    ASSUME CoreType, CoreType', CoreSteps, TraversalOK, ~Frame("traverse")
    PROVE  TraversalOK'
<1>0. stack \in Seq(Frames) /\ stack' \in Seq(Frames) /\ storage' \in Storages
  BY DEF CoreType
<1>1. ~Meets(stack, Traversals)
  <2>1. CASE stack = <<>>
    BY <2>1 DEF Meets
  <2>2. CASE stack # <<>>
    <3>1. PICK f, t : f \in Frames /\ t \in Seq(Frames) /\ stack = Push(f, t) /\ f = Head(stack) /\ t = Tail(stack)
      BY <1>0, <2>2, FirstOfList
    <3>2. f.k # "traverse" /\ ~Meets(t, Traversals)
      BY <2>2, <3>1 DEF Frame, TraversalOK
    <3>3. Meets(Push(f, t), Traversals) <=> f \in Traversals \/ Meets(t, Traversals)
      BY <3>1, PushMeets
    <3> QED
      BY <3>1, <3>2, <3>3 DEF Traversals
  <2> QED
    BY <2>1, <2>2
<1>2. PICK s \in Seq(Frames) :
        /\ Rest(s)
        /\ \/ Grown(stack', s)
           \/ Visiting /\ stack' = Push(User(Current, storage'), s)
  BY StackShape DEF Shaped
<1>3. ~Meets(s, Traversals)
  <2>1. Traversals \in SUBSET Loud
    BY DEF Traversals, Loud
  <2> QED
    BY <1>1, <1>2, <2>1 DEF Rest, Less
<1>4. ASSUME NEW t \in Seq(Frames), ~Meets(t, Traversals), NEW f \in Frames, stack' = Push(f, t),
             f.k = "traverse" => f \in Plain
      PROVE  TraversalOK'
  <2>1. Tail(stack') = t /\ Head(stack') = f
    BY <1>4, PushList
  <2>2. ~Meets(Tail(stack'), Traversals)
    BY <1>4, <2>1
  <2>3. Frame("traverse")' => f \in Plain /\ f.k = "traverse"
    BY <1>4, <2>1 DEF Frame
  <2>4. PICK g : g = Top'
    OBVIOUS
  <2>5. g = f
    BY <2>1, <2>4 DEF Top
  <2>6. Frame("traverse")' => Sound(f)' /\ Complete(f)'
    BY <2>3, FreshTraversal
  <2>7. Frame("traverse")' => Sound(Top)' /\ Complete(Top)'
    BY <2>4, <2>5, <2>6 DEF Sound, Complete
  <2> QED
    BY <2>2, <2>7 DEF TraversalOK, Traversals
<1>5. ASSUME ~Meets(stack', Traversals) PROVE TraversalOK'
  <2>1. CASE stack' = <<>>
    BY <2>1 DEF TraversalOK, Frame
  <2>2. CASE stack' # <<>>
    <3>1. PICK f, t : f \in Frames /\ t \in Seq(Frames) /\ stack' = Push(f, t)
      BY <1>0, <2>2, FirstOfList
    <3>2. Meets(Push(f, t), Traversals) <=> f \in Traversals \/ Meets(t, Traversals)
      BY <3>1, PushMeets
    <3>3. f.k # "traverse" /\ ~Meets(t, Traversals)
      BY <1>5, <3>1, <3>2 DEF Traversals
    <3> QED
      BY <1>4, <3>1, <3>3
  <2> QED
    BY <2>1, <2>2
<1>6. CASE Visiting /\ stack' = Push(User(Current, storage'), s)
  <2>1. Current \in Id
    BY <1>6, BusyParts DEF Visiting
  <2>2. User(Current, storage') \in Frames /\ User(Current, storage').k = "user"
    BY <1>0, <2>1, FrameTypes DEF User
  <2> QED
    BY <1>3, <1>4, <1>6, <2>2
<1>7. CASE Grown(stack', s)
  <2>1. \A g \in Inert, t \in Seq(Frames) :
           ~Meets(t, Traversals) => Push(g, t) \in Seq(Frames) /\ ~Meets(Push(g, t), Traversals)
    <3>1. \A g \in Inert : g \in Frames /\ g \notin Traversals
      BY DEF Inert, Plain, Traversals
    <3> QED
      BY <3>1, PushList, PushMeets
  <2>2. ASSUME NEW t \in Seq(Frames), ~Meets(t, Traversals), NEW f \in Plain, stack' = Push(f, t)
        PROVE  TraversalOK'
    BY <1>4, <2>2 DEF Plain
  <2>3. CASE stack' = s
    BY <1>3, <1>5, <2>3
  <2>4. ASSUME NEW f \in Plain, stack' = Push(f, s) PROVE TraversalOK'
    BY <1>3, <2>2, <2>4
  <2>5. ASSUME NEW f \in Plain, NEW g \in Inert, stack' = Push(f, Push(g, s)) PROVE TraversalOK'
    BY <1>3, <2>1, <2>2, <2>5
  <2>6. ASSUME NEW f \in Plain, NEW g \in Inert, NEW h \in Inert, stack' = Push(f, Push(g, Push(h, s)))
        PROVE  TraversalOK'
    <3>1. Push(h, s) \in Seq(Frames) /\ ~Meets(Push(h, s), Traversals)
      BY <1>3, <2>1
    <3>2. Push(g, Push(h, s)) \in Seq(Frames) /\ ~Meets(Push(g, Push(h, s)), Traversals)
      BY <2>1, <3>1
    <3> QED
      BY <2>2, <2>6, <3>2
  <2> QED
    BY <1>7, <2>3, <2>4, <2>5, <2>6, PlainTypes DEF Grown
<1> QED
  BY <1>2, <1>6, <1>7

LEMMA CancelStart == Init => CancelInv
<1> SUFFICES ASSUME Init PROVE CancelInv
  OBVIOUS
<1>1. CellType /\ \A c \in Id : UserOK(c) /\ OwedOK(c)
  <2>1. \A c \in Id : kind[c] \notin Tracked
    BY TrackedKinds DEF Init
  <2> QED
    BY <2>1 DEF Init, UserOK, OwedOK, CellType, Meets
<1>2. ClassesOK
  BY DEF Init, ClassesOK, Sequential
<1>3. TraversalOK
  BY DEF Init, TraversalOK, Frame
<1> QED
  BY <1>1, <1>2, <1>3 DEF CancelInv

LEMMA CancelStutter ==
    ASSUME CancelInv, UNCHANGED vars
    PROVE  CancelInv'
<1>1. UNCHANGED <<kind, args, rep, state, how, stack, runs, count, cell, deferred>>
  BY DEF vars, static, heap, loop
<1>2. \A c \in Id : UserOK(c)' /\ (Past(c)' <=> Past(c))
  BY <1>1 DEF CancelInv, UserOK, Past, UsersOf, ResolvesOf
<1>5. CellType' /\ \A c \in Id : OwedOK(c)'
  <2>1. \A c : Held(c)' <=> Held(c)
    BY <1>1 DEF Held, Stacked, Deferred
  <2>2. \A c : Waits(c)' <=> Waits(c)
    BY <1>1, <2>1 DEF Waits, Outcome, Source, UsersOf
  <2> QED
    BY <1>1, <2>2 DEF CancelInv, OwedOK, CellType, ResolvesOf
<1>3. ClassesOK'
  <2>1. Promises' = Promises /\ Promises \subseteq Id
    BY <1>1 DEF Promises
  <2>2. \A b, h : HowOf(b, h)' <=> HowOf(b, h)
    BY <1>1 DEF HowOf
  <2>3. \A q, b \in Id : BaseOf(q, b) => BaseOf(q, b)'
    BY <1>1, <1>2, <2>1 DEF BaseOf, HowOf
  <2> QED
    BY <1>1, <2>1, <2>3 DEF CancelInv, ClassesOK
<1>4. TraversalOK'
  <2>1. \A S, D : Closed(S, D)' <=> Closed(S, D)
    BY <1>1 DEF Closed, Underlying
  <2>2. \A f : (Sound(f)' <=> Sound(f)) /\ (Complete(f)' <=> Complete(f))
    BY <1>1, <2>1 DEF Sound, Complete, Underlying
  <2>3. PICK g : g = Top /\ g = Top'
    BY <1>1 DEF Top
  <2>4. Frame("traverse")' => Sound(g)' /\ Complete(g)'
    BY <1>1, <2>2, <2>3 DEF CancelInv, TraversalOK, Frame
  <2>5. Frame("traverse")' => Sound(Top)' /\ Complete(Top)'
    BY <2>3, <2>4 DEF Sound, Complete
  <2> QED
    BY <1>1, <2>5 DEF CancelInv, TraversalOK, Traversals
<1> QED
  BY <1>2, <1>3, <1>4, <1>5 DEF CancelInv

LEMMA CancelKept ==
    ASSUME CoreType, CoreType', CallbackInv, CallbackInv', CancelInv, CoreSteps, Next
    PROVE  CancelInv'
<1>1. \A c \in Id : UserOK(c)' /\ (Past(c) => Past(c)')
  BY UsersKept DEF CancelInv
<1>4. CellType' /\ \A c \in Id : OwedOK(c)'
  BY CellsEbb, OwedKept DEF CancelInv
<1>2. ClassesOK'
  BY <1>1, ClassesKept DEF CancelInv
<1>3. TraversalOK'
  BY TraverseDoing, TraverseStarting DEF CancelInv
<1> QED
  BY <1>1, <1>2, <1>3, <1>4 DEF CancelInv

(* A set that the traversal closed has no pending task and no way out.     *)
LEMMA CancelsAll ==
    ASSUME CoreType, CallbackInv, CancelInv, traverse_done
    PROVE  \E S \in SUBSET Id :
                /\ Reaches(Top.root, S)
                /\ \A c \in Promises :
                       rep[c] \in S /\ Pending(c) => kind[c] \notin {"task", "protected"}
<1>1. Frame("traverse") /\ Top.todo = <<>>
  BY DEF traverse_done
<1>2. Underlying(Top.todo) = {}
  BY <1>1 DEF Underlying
<1>3. PICK S \in SUBSET Id : /\ rep[Top.root] \in S
                             /\ {q \in Id : state[q] # "Pending"} \subseteq S
                             /\ Closed(S, {})
                             /\ \A q \in S : state[q] = "Pending" => how[q].kind # "This"
  <2>1. Complete(Top)
    BY <1>1 DEF CancelInv, TraversalOK
  <2> QED
    BY <1>2, <2>1 DEF Complete
<1>4. ASSUME NEW c \in Promises, rep[c] \in S, state[rep[c]] = "Pending"
      PROVE  /\ kind[c] \notin {"task", "protected"}
             /\ kind[c] # "no_cancel" => \A i \in DOMAIN args[c] : rep[args[c][i]] \in S
  <2>1. PICK q \in Id : q = rep[c] /\ q \in S /\ state[q] = "Pending"
    BY <1>4
  <2>2. PICK b \in Id : BaseOf(q, b)
    BY <2>1 DEF CancelInv, ClassesOK
  <2>3. CASE c = b
    <3>1. HowOf(b, how[q]) /\ how[q].kind # "This"
      BY <1>3, <2>1, <2>2 DEF BaseOf
    <3>2. kind[b] \notin {"task", "protected"}
      BY <3>1 DEF HowOf
    <3>3. CASE kind[b] = "wait"
      <4>1. args[b] = <<>>
        BY <3>1, <3>3 DEF HowOf, Initial
      <4> QED
        BY <2>3, <3>2, <4>1
    <3>4. CASE kind[b] \notin {"wait", "no_cancel"}
      <4>1. /\ how[q].kind = "Propagate" /\ DOMAIN how[q].to = DOMAIN args[b]
            /\ \A i \in DOMAIN how[q].to : rep[how[q].to[i]] = rep[args[b][i]]
        BY <3>1, <3>2, <3>4 DEF HowOf
      <4>2. Underlying(how[q].to) \subseteq S
        BY <1>3, <2>1, <4>1 DEF Closed
      <4> QED
        BY <2>3, <3>2, <4>1, <4>2 DEF Underlying
    <3> QED
      BY <2>3, <3>2, <3>3, <3>4
  <2>4. CASE c # b
    <3>1. Past(c) /\ c \in Id
      BY <2>1, <2>2, <2>4 DEF BaseOf, Promises
    <3>2. kind[c] \in Sequential /\ kind[c] \in Tracked /\ runs[c] = 1 /\ DOMAIN args[c] = {1}
      BY <3>1 DEF Past, Tracked, WithUserCode, CancelInv, ClassesOK
    <3>3. TrackedOK(c)
      BY <3>1, <3>2 DEF CallbackInv
    <3>4. Outcome(c) \in Results
      BY <3>2, <3>3 DEF TrackedOK, RunsOnce, Triggers, Sequential, Results
    <3>5. rep[args[c][1]] \in Id
      BY <3>3 DEF TrackedOK, Promises, CoreType
    <3>6. rep[args[c][1]] \in S
      BY <1>3, <3>4, <3>5 DEF Outcome, Source, Results
    <3> QED
      BY <3>2, <3>6 DEF Sequential
  <2> QED
    BY <2>3, <2>4
<1>5. Reaches(Top.root, S)
  BY <1>3, <1>4 DEF Reaches, MadeFrom
<1> QED
  BY <1>4, <1>5 DEF Pending, StateOf

(* What is visited is in every set that must be reached.                   *)
LEMMA CancelsOnly ==
    ASSUME CoreType, CancelInv, traverse_step, NEW S \in SUBSET Id, Reaches(Top.root, S), NEW p \in Id \ S
    PROVE  state'[p] = state[p]
<1>1. Frame("traverse") /\ Top.todo # <<>>
  BY DEF traverse_step
<1>2. Top \in Frames /\ Top.k = "traverse" /\ Top.todo \in Seq(Id)
  BY <1>1, TopFrame, FrameParts
<1>3. ASSUME NEW q \in S, state[q] = "Pending", how[q].kind = "Propagate" PROVE Underlying(how[q].to) \subseteq S
  <2>1. PICK b \in Id : BaseOf(q, b)
    BY <1>3 DEF CancelInv, ClassesOK
  <2>2. HowOf(b, how[q]) /\ b \in Promises /\ rep[b] = q
    BY <2>1 DEF BaseOf
  <2>3. /\ kind[b] \notin {"no_cancel", "protected"} /\ DOMAIN how[q].to = DOMAIN args[b]
        /\ \A i \in DOMAIN how[q].to : rep[how[q].to[i]] = rep[args[b][i]]
    BY <1>3, <2>2 DEF HowOf
  <2>4. {rep[args[b][i]] : i \in DOMAIN args[b]} \subseteq MadeFrom(q)
    BY <2>2, <2>3 DEF MadeFrom
  <2>5. MadeFrom(q) \subseteq S
    BY <1>3 DEF Reaches
  <2> QED
    BY <2>3, <2>4, <2>5 DEF Underlying
<1>4. Underlying(Top.todo) \subseteq S
  <2>1. Closed(S, {})
    BY <1>3 DEF Closed
  <2>2. Sound(Top)
    BY <1>1 DEF CancelInv, TraversalOK
  <2> QED
    BY <2>1, <2>2 DEF Sound, Reaches
<1>5. rep[Head(Top.todo)] \in S
  BY <1>1, <1>2, <1>4, UnderlyingLists
<1> QED
  BY <1>5, TraverseVisits DEF Visits

(* The first phase of Lwt.cancel (cancel_and_collect_callbacks) cancels    *)
(* the pending tasks and protected promises from which the canceled        *)
(* promise was made, through any number of intermediate and of proxy       *)
(* promises, all of them before any callback runs, and no others.          *)
THEOREM CancelsAreExact == Spec => CancelExact
<1> DEFINE Inv == CoreType /\ CallbackInv /\ DepthInv /\ CancelInv
           Exact == /\ traverse_done =>
                        \E S \in SUBSET Id :
                            /\ Reaches(Top.root, S)
                            /\ \A c \in Promises :
                                 rep[c] \in S /\ Pending(c) => kind[c] \notin {"task", "protected"}
                    /\ traverse_step =>
                        \A S \in SUBSET Id : Reaches(Top.root, S) =>
                            \A p \in Id \ S : state'[p] = state[p]
<1>1. Init => Inv
  BY CoreStart, CallbackStart, CancelStart
<1>2. Inv /\ [Next]_vars => Inv'
  <2>1. ASSUME Inv, Next PROVE Inv'
    <3>1. CoreSteps /\ program' = program
      BY <2>1, EveryStep
    <3>2. CoreType'
      BY <2>1, <3>1, TypesKept
    <3>3. CallbackInv' /\ DepthInv'
      BY <2>1, <3>1, <3>2, CallbacksKept, DepthKept
    <3> QED
      BY <2>1, <3>1, <3>2, <3>3, CancelKept
  <2>2. ASSUME Inv, UNCHANGED vars PROVE Inv'
    <3>1. CoreType'
      BY <2>2 DEF CoreType, vars, static, heap, loop
    <3>2. CallbackInv' /\ DepthInv'
      BY <2>2, CallbackStutter
    <3> QED
      BY <2>2, <3>1, <3>2, CancelStutter
  <2> QED
    BY <2>1, <2>2
<1>3. Inv => Exact
  BY CancelsAll, CancelsOnly
<1> HIDE DEF Inv
<1> QED
  BY <1>1, <1>2, <1>3, PTL DEF Spec, CancelExact
-----------------------------------------------------------------------------
(* A promise is resolved once.  The callback that makes it is the only one *)
(* to resolve it, apart from cancellation, which ends with the promises    *)
(* that user code holds resolvers of; and the promises that are behind it  *)
(* have nothing left to do.                                                *)
KindOK ==
    \A c \in Id : /\ kind[c] \in Makers => c \in Promises
                  /\ kind[c] = "protected" => "protected" \in program

(* What makes a promise that is resolved has run to its end, and resolves  *)
(* nothing any more.                                                       *)
DoneOK(c) == c \in Promises /\ ~Pending(c) => ~Waits(c) /\ ~Meets(stack, ResolvesOf(c))

LEMMA PromisesKept ==
    ASSUME CoreType, CallbackInv, CoreSteps
    PROVE  /\ Promises \subseteq Promises'
           /\ \A c \in Promises' : c \notin Promises => Pending(c)'
           /\ \/ UNCHANGED kind
              \/ /\ Making /\ next \in Id /\ next \notin Promises
                 /\ \A c \in Id : c # next => kind'[c] = kind[c]
<1>0. state \in [Id -> States] /\ kind \in [Id -> Kinds] /\ next \in Int
  BY DEF CoreType
<1>1. CASE UNCHANGED <<state, kind>>
  BY <1>1 DEF Promises
<1>2. ASSUME NEW p \in Id, NEW s, s # "none", state[p] # "none", state' = [state EXCEPT ![p] = s], UNCHANGED kind
      PROVE  Promises = Promises'
  BY <1>0, <1>2 DEF Promises
<1>3. ASSUME NEW k, NEW ps, Creating(k, ps), Making
      PROVE  /\ Promises \subseteq Promises'
             /\ \A c \in Promises' : c \notin Promises => Pending(c)'
             /\ next \in Id /\ next \notin Promises
             /\ \A c \in Id : c # next => kind'[c] = kind[c]
  <2>1. PICK n \in Id : n = next
    BY <1>3 DEF Creating
  <2>2. state[n] = "none" /\ rep[n] = n
    BY <1>0, <2>1 DEF CallbackInv, FreeOK
  <2>3. /\ state' = state \/ state' = [state EXCEPT ![n] = "Pending"]
        /\ rep' = rep /\ \A c \in Id : c # n => kind'[c] = kind[c]
    BY <1>0, <1>3, <2>1 DEF Creating
  <2>4. Promises \subseteq Promises' /\ \A c \in Promises' : c \notin Promises => c = n /\ state'[n] = "Pending"
    BY <1>0, <2>2, <2>3 DEF Promises
  <2>5. \A c \in Promises' : c \notin Promises => Pending(c)'
    BY <2>2, <2>3, <2>4 DEF Pending, StateOf
  <2>6. n \notin Promises
    BY <2>2 DEF Promises
  <2> QED
    BY <2>1, <2>3, <2>4, <2>5, <2>6
<1>4. ASSUME NEW p \in Id, NEW q \in Id, Merging(p, q) PROVE Promises' = Promises /\ UNCHANGED kind
  BY <1>2, <1>4 DEF Merging
<1>5. ASSUME NEW p \in Id, NEW r \in Results, Resolving(p, r) PROVE Promises' = Promises /\ UNCHANGED kind
  BY <1>2, <1>5 DEF Resolving, Results
<1> QED
  BY <1>1, <1>3, <1>4, <1>5 DEF CoreSteps, KeepHeap, Clearing

LEMMA KindsKept ==
    ASSUME CoreType, CallbackInv, CoreSteps, program' = program, KindOK
    PROVE  KindOK'
<1>1. Promises \subseteq Promises'
  BY PromisesKept
<1>2. CASE UNCHANGED kind
  BY <1>1, <1>2 DEF KindOK
<1>3. CASE Making /\ next \in Id /\ next \notin Promises /\ \A c \in Id : c # next => kind'[c] = kind[c]
  <2>1. PICK n \in Id : n = next
    BY <1>3
  <2>2. kind'[n] \in program
    BY <1>3, <2>1 DEF Making
  <2>3. kind'[n] \in Makers => state' = [state EXCEPT ![n] = "Pending"]
    <3>1. kind'[n] \in Makers => kind'[n] \notin Observers
      BY DEF Makers, Sequential, Removable, Observers
    <3> QED
      BY <1>3, <2>1, <3>1 DEF Making
  <2>4. kind'[n] \in Makers => n \in Promises'
    BY <2>3 DEF CoreType, Promises
  <2> QED
    BY <1>1, <1>3, <2>1, <2>2, <2>4 DEF KindOK
<1> QED
  BY <1>2, <1>3, PromisesKept

(* A pending promise gets its result by the resolution of its class.       *)
LEMMA NewlyDone ==
    ASSUME CoreType, CallbackInv, CoreSteps, NEW c \in Promises, Pending(c), ~Pending(c)'
    PROVE  \E p \in Id, r \in Results :
               rep[c] = p /\ Resolving(p, r) /\ Owned(p) /\ BatchSteps(CallbacksOf(p, r))
<1>0. /\ rep \in [Id -> Id] /\ state \in [Id -> States] /\ c \in Id /\ rep[c] \in Promises /\ rep[c] \in Id
      /\ state[rep[c]] = "Pending" /\ state'[rep'[c]] # "Pending"
  BY DEF CoreType, CallbackInv, RepOK, Promises, Pending, StateOf
<1>1. ~UNCHANGED <<rep, state>>
  BY <1>0
<1>2. ASSUME NEW p \in Id, NEW q \in Id, Merging(p, q) PROVE FALSE
  <2>1. /\ p # q /\ state[q] = "Pending" /\ rep'[c] = (IF rep[c] = p THEN q ELSE rep[c])
        /\ \A x \in Id : x # p => state'[x] = state[x]
    BY <1>0, <1>2 DEF Merging
  <2> QED
    BY <1>0, <2>1
<1>3. ASSUME NEW k, NEW ps, Creating(k, ps) PROVE FALSE
  <2>1. next \in Int /\ next \in Id
    BY <1>3 DEF CoreType, Creating
  <2>2. FreeOK(next)
    BY <2>1 DEF CallbackInv
  <2>3. rep[c] # next
    BY <1>0, <2>2 DEF FreeOK, Promises
  <2>4. rep' = rep /\ state'[rep[c]] = state[rep[c]]
    BY <1>0, <1>3, <2>3 DEF Creating
  <2> QED
    BY <1>0, <2>4
<1>4. ASSUME NEW p \in Id, NEW r \in Results, Resolving(p, r) PROVE rep[c] = p
  <2>1. rep' = rep /\ (rep[c] # p => state'[rep[c]] = state[rep[c]])
    BY <1>0, <1>4 DEF Resolving
  <2> QED
    BY <1>0, <2>1
<1> QED
  BY <1>1, <1>2, <1>3, <1>4 DEF CoreSteps, KeepHeap, Clearing

(* The call of resolve for c is over when the loop is entered.             *)
LEMMA ResolveEnds ==
    ASSUME CoreType, NEW c \in Id, Frame("resolve"), c = Top.c, OwedOK(c),
           NEW b \in Batch, stack' = Push(RunFrame(b), Push(Leave(storage), Tail(stack)))
    PROVE  ~Waits(c) /\ kind[c] \in Makers /\ ~Meets(stack', ResolvesOf(c))
<1> DEFINE W == ResolvesOf(c)
<1>0. stack \in Seq(Frames) /\ storage \in Storages
  BY DEF CoreType
<1>1. Top \in Frames /\ Top.k = "resolve" /\ stack # <<>>
  BY TopFrame
<1>2. Top \in W
  BY <1>1 DEF ResolvesOf
<1>3. PICK f, t : f \in Frames /\ t \in Seq(Frames) /\ stack = Push(f, t) /\ f = Top /\ t = Tail(stack)
  BY <1>0, <1>1, FirstOfList DEF Top
<1>4. /\ Meets(Push(f, t), W) <=> f \in W \/ Meets(t, W)
      /\ Single(Push(f, t), W) => ~(f \in W /\ Meets(t, W))
  BY <1>3, PushMeets
<1>5. Meets(stack, W)
  BY <1>2, <1>3, <1>4
<1>6. ~Waits(c) /\ kind[c] \in Makers /\ ~Meets(t, W)
  BY <1>2, <1>3, <1>4, <1>5 DEF OwedOK
<1>7. PICK g, h : g = Leave(storage) /\ h = RunFrame(b)
  OBVIOUS
<1>8. g \in Frames /\ h \in Frames /\ g \notin Loud /\ h \notin Loud /\ W \subseteq Loud
  BY <1>0, <1>7, QuietFrames DEF ResolvesOf, Loud
<1> HIDE DEF W
<1>9. Push(g, t) \in Seq(Frames) /\ ~Meets(Push(g, t), W)
  BY <1>3, <1>6, <1>8, PushList, PushMeets
<1>10. ~Meets(Push(h, Push(g, t)), W)
  BY <1>8, <1>9, PushMeets
<1> QED
  BY <1>3, <1>6, <1>7, <1>10 DEF W

(* Who may resolve a class is its base, and is done then.                  *)
LEMMA BaseDone ==
    ASSUME CoreType, CancelInv, KindOK, "protected" \notin program,
           NEW p \in Id, NEW b \in Id, BaseOf(p, b), Owned(p)
    PROVE  \/ kind[b] \in Initial
           \/ ~Waits(b) /\ kind[b] \in Makers /\ ~Meets(stack', ResolvesOf(b))
<1>0. HowOf(b, how[p]) /\ \A x \in Promises : rep[x] = p /\ x # b => Past(x)
  BY DEF BaseOf
<1>1. ASSUME NEW x \in Promises, kind[x] \in Initial, rep[x] = p PROVE kind[b] \in Initial
  BY <1>0, <1>1 DEF Past, Initial, Sequential
<1>2. ASSUME how[p].kind = "This" PROVE kind[b] \in Initial
  <2>1. kind[b] \in {"task", "protected"}
    BY <1>0, <1>2 DEF HowOf
  <2> QED
    BY <2>1 DEF KindOK, Initial
<1>3. ASSUME Frame("resolve"), p = rep[Top.c],
             NEW x \in Batch, stack' = Push(RunFrame(x), Push(Leave(storage), Tail(stack)))
      PROVE  ~Waits(b) /\ kind[b] \in Makers /\ ~Meets(stack', ResolvesOf(b))
  <2>1. stack # <<>> /\ Top \in Frames /\ Top.k = "resolve"
    BY <1>3, TopFrame
  <2>2. PICK d \in Id : d = Top.c
    BY <2>1, FrameParts
  <2>3. ~Waits(d) /\ kind[d] \in Makers /\ ~Meets(stack', ResolvesOf(d))
    BY <1>3, <2>2, ResolveEnds DEF CancelInv
  <2>4. d \in Promises /\ rep[d] = p
    BY <1>3, <2>2, <2>3 DEF KindOK
  <2>5. Top \in ResolvesOf(d) /\ stack \in Seq(Frames)
    BY <2>1, <2>2 DEF ResolvesOf, CoreType
  <2>6. Meets(stack, ResolvesOf(d))
    BY <2>1, <2>5 DEF Meets, Top
  <2>7. d = b
    BY <1>0, <2>4, <2>6 DEF Past
  <2> QED
    BY <2>3, <2>7
<1> QED
  BY <1>1, <1>2, <1>3 DEF Owned

LEMMA DoneKept ==
    ASSUME CoreType, CoreType', CallbackInv, CancelInv, CancelInv', CoreSteps, Next, KindOK,
           "protected" \notin program, NEW c \in Id, DoneOK(c)
    PROVE  DoneOK(c)'
<1>0. SUFFICES ASSUME c \in Promises', ~Pending(c)'
               PROVE  ~Waits(c)' /\ ~Meets(stack', ResolvesOf(c))
  BY DEF DoneOK, ResolvesOf
<1>1. c \in Promises
  BY <1>0, PromisesKept
<1>2. c # next /\ kind'[c] = kind[c] /\ args'[c] = args[c]
  <2>1. ~FreeOK(c)
    BY <1>1 DEF FreeOK, Promises
  <2>2. next \in Int
    BY DEF CoreType
  <2> QED
    BY <2>1, <2>2, NamesKept DEF CallbackInv
<1>3. ~Waits(c) => ~Waits(c)'
  BY <1>2, WaitsKept DEF CancelInv
<1>4. CASE ~Pending(c)
  <2>1. ~Waits(c) /\ ~Meets(stack, ResolvesOf(c))
    BY <1>1, <1>4 DEF DoneOK
  <2>2. ~Answers(c)
    BY <2>1, AnswersWaits
  <2>3. Less(stack', stack, ResolvesOf(c))
    BY <2>2, ResolvesPushed
  <2> QED
    BY <1>3, <2>1, <2>3 DEF Less
<1>5. CASE Pending(c)
  <2>1. PICK p \in Id : state[p] = "Pending" /\ rep[c] = p /\ Owned(p)
    BY <1>0, <1>1, <1>5, NewlyDone DEF Resolving
  <2>2. PICK b \in Id : BaseOf(p, b)
    BY <2>1 DEF CancelInv, ClassesOK
  <2>3. CASE c = b
    <3>1. CASE kind[c] \in Initial
      <4>1. kind'[c] \notin Makers
        BY <1>2, <3>1 DEF Initial, Makers, Sequential, Removable
      <4>2. ~Waits(c)'
        BY <4>1 DEF Waits, Makers
      <4>3. OwedOK(c)'
        BY DEF CancelInv
      <4> QED
        BY <4>1, <4>2, <4>3 DEF OwedOK, ResolvesOf
    <3>2. CASE ~Waits(c) /\ ~Meets(stack', ResolvesOf(c))
      BY <1>3, <3>2
    <3> QED
      BY <2>1, <2>2, <2>3, <3>1, <3>2, BaseDone
  <2>4. CASE c # b
    <3>1. Past(c)
      BY <1>1, <2>1, <2>2, <2>4 DEF BaseOf
    <3>2. Past(c)'
      BY <3>1, UsersKept DEF CancelInv
    <3>3. ~Waits(c)
      BY <3>1, PastWaits
    <3> QED
      BY <1>3, <3>2, <3>3 DEF Past, ResolvesOf
  <2> QED
    BY <2>3, <2>4
<1> QED
  BY <1>4, <1>5
-----------------------------------------------------------------------------
(* The walk of pick.  A list that was found to have more than n resolved   *)
(* promises has no fewer later, whatever user code the walk runs.          *)
Lost == {f \in Frames : f.k = "walk" /\ ~(Cardinality(Resolved(f.todo)) > f.n)}

WalkOK == ~Meets(stack, Lost)

LEMMA ResolvedTypes ==
    ASSUME NEW ps \in Seq(Id)
    PROVE  IsFiniteSet(Resolved(ps)) /\ Cardinality(Resolved(ps)) \in Nat
<1>1. IsFiniteSet(1..Len(ps)) /\ DOMAIN ps = 1..Len(ps)
  BY FS_Interval
<1>2. Resolved(ps) \subseteq DOMAIN ps
  BY DEF Resolved
<1> QED
  BY <1>1, <1>2, FS_Subset, FS_CardinalityType

LEMMA ResolvedTail ==
    ASSUME NEW ps \in Seq(Id), ps # <<>>
    PROVE  /\ Cardinality(Resolved(ps)) <= Cardinality(Resolved(Tail(ps))) + 1
           /\ Pending(Head(ps)) => Cardinality(Resolved(ps)) <= Cardinality(Resolved(Tail(ps)))
<1> DEFINE S == Resolved(ps)
           t == Tail(ps)
           T == Resolved(t)
           f == [i \in S \ {1} |-> i - 1]
<1>1. /\ t \in Seq(Id) /\ Len(ps) \in Nat /\ Len(ps) >= 1 /\ Len(t) = Len(ps) - 1
      /\ DOMAIN ps = 1..Len(ps) /\ DOMAIN t = 1..Len(t)
      /\ \A i \in DOMAIN t : t[i] = ps[i + 1]
  OBVIOUS
<1>2. IsFiniteSet(S) /\ Cardinality(S) \in Nat /\ IsFiniteSet(T) /\ Cardinality(T) \in Nat
  BY <1>1, ResolvedTypes
<1>3. ASSUME NEW i \in S \ {1} PROVE i \in Int /\ i - 1 \in T
  <2>1. i \in DOMAIN ps /\ i # 1 /\ StateOf(ps[i]) \in Results
    BY <1>3 DEF Resolved
  <2>2. i \in Int /\ i - 1 \in DOMAIN t /\ (i - 1) + 1 = i
    BY <1>1, <2>1
  <2>3. t[i - 1] = ps[i]
    BY <1>1, <2>2
  <2> QED
    BY <2>1, <2>2, <2>3 DEF Resolved
<1> HIDE DEF S, T
<1>4. f \in [S \ {1} -> T] /\ \A i, j \in S \ {1} : f[i] = f[j] => i = j
  BY <1>3
<1>5. f \in Injection(S \ {1}, T)
  BY <1>4 DEF Injection, IsInjective
<1> HIDE DEF f
<1>6. Cardinality(S \ {1}) <= Cardinality(T)
  BY <1>2, <1>5, FS_Injection
<1>7. Cardinality(S \ {1}) = IF 1 \in S THEN Cardinality(S) - 1 ELSE Cardinality(S)
  BY <1>2, FS_RemoveElement
<1>8. Pending(Head(ps)) => 1 \notin S
  <2>1. Head(ps) = ps[1]
    OBVIOUS
  <2> QED
    BY <2>1 DEF S, Resolved, Pending, Results
<1> QED
  BY <1>2, <1>6, <1>7, <1>8 DEF S, T, t

(* A promise keeps its result.                                             *)
LEMMA ResultKept ==
    ASSUME CoreType, CallbackInv, CoreSteps, NEW x \in Id, StateOf(x) \in Results
    PROVE  StateOf(x)' = StateOf(x)
<1>0. /\ rep \in [Id -> Id] /\ state \in [Id -> States] /\ next \in Int
      /\ rep[x] \in Id /\ state[rep[x]] \in Results /\ "Pending" \notin Results /\ "none" \notin Results
  BY DEF CoreType, StateOf, Results
<1>1. CASE UNCHANGED <<rep, state>>
  BY <1>1 DEF StateOf
<1>2. ASSUME NEW p \in Id, NEW q \in Id, Merging(p, q) PROVE StateOf(x)' = StateOf(x)
  <2>1. /\ state[p] = "Pending" /\ rep'[x] = (IF rep[x] = p THEN q ELSE rep[x])
        /\ rep[x] # p => state'[rep[x]] = state[rep[x]]
    BY <1>0, <1>2 DEF Merging
  <2> QED
    BY <1>0, <2>1 DEF StateOf
<1>3. ASSUME NEW k, NEW ps, Creating(k, ps) PROVE StateOf(x)' = StateOf(x)
  <2>1. next \in Id
    BY <1>3 DEF Creating
  <2>2. state[next] = "none"
    BY <1>0, <2>1 DEF CallbackInv, FreeOK
  <2>3. rep' = rep /\ state'[rep[x]] = state[rep[x]]
    BY <1>0, <1>3, <2>2 DEF Creating
  <2> QED
    BY <2>3 DEF StateOf
<1>4. ASSUME NEW p \in Id, NEW r \in Results, Resolving(p, r) PROVE StateOf(x)' = StateOf(x)
  <2>1. rep' = rep /\ state[p] = "Pending" /\ (rep[x] # p => state'[rep[x]] = state[rep[x]])
    BY <1>0, <1>4 DEF Resolving
  <2> QED
    BY <1>0, <2>1 DEF StateOf
<1> QED
  BY <1>1, <1>2, <1>3, <1>4 DEF CoreSteps, KeepHeap, Clearing

LEMMA ResolvedGrows ==
    ASSUME CoreType, CallbackInv, CoreSteps, NEW ps \in Seq(Id)
    PROVE  Cardinality(Resolved(ps)) <= Cardinality(Resolved(ps))'
<1>1. ASSUME NEW x \in Id, StateOf(x) \in Results PROVE StateOf(x)' \in Results
  BY <1>1, ResultKept
<1>2. \A i \in DOMAIN ps : ps[i] \in Id
  OBVIOUS
<1>3. PICK S, T : S = Resolved(ps) /\ T = Resolved(ps)'
  OBVIOUS
<1>4. S \subseteq T /\ T \subseteq DOMAIN ps
  <2>1. \A i \in DOMAIN ps : StateOf(ps[i]) \in Results => StateOf(ps[i])' \in Results
    BY <1>1, <1>2
  <2>2. /\ \A i : i \in S <=> i \in DOMAIN ps /\ StateOf(ps[i]) \in Results
        /\ \A i : i \in T <=> i \in DOMAIN ps /\ StateOf(ps[i])' \in Results
    BY <1>3 DEF Resolved
  <2> QED
    BY <2>1, <2>2, Zenon
<1>5. IsFiniteSet(T)
  <2>1. IsFiniteSet(1..Len(ps)) /\ DOMAIN ps = 1..Len(ps)
    BY FS_Interval
  <2> QED
    BY <1>4, <2>1, FS_Subset
<1>6. Cardinality(S) <= Cardinality(T)
  BY <1>4, <1>5, FS_Subset
<1> QED
  BY <1>3, <1>6

LEMMA WalksKept ==
    ASSUME CoreType, CoreType', CallbackInv, CoreSteps, WalkOK
    PROVE  WalkOK'
<1>0. stack \in Seq(Frames) /\ MaxArgs \in Nat
  BY ConstantTypes DEF CoreType
<1>a. \A f \in Frames : f.k = "walk" => f.todo \in Seq(Id) /\ f.n \in Int /\ f.n >= 0
  BY <1>0, FrameParts
<1>1. Lost' \subseteq Lost
  <2>1. ASSUME NEW f \in Frames, f.k = "walk", ~(Cardinality(Resolved(f.todo))' > f.n)
        PROVE  ~(Cardinality(Resolved(f.todo)) > f.n)
    <3>1. PICK ps \in Seq(Id) : ps = f.todo
      BY <1>a, <2>1
    <3>2. Cardinality(Resolved(ps)) <= Cardinality(Resolved(ps))' /\ Cardinality(Resolved(ps)) \in Nat
      BY ResolvedGrows, ResolvedTypes
    <3>3. Cardinality(Resolved(ps))' \in Nat
      <4>1. IsFiniteSet(1..Len(ps)) /\ DOMAIN ps = 1..Len(ps)
        BY FS_Interval
      <4>2. PICK T : T = Resolved(ps)'
        OBVIOUS
      <4>3. T \subseteq DOMAIN ps
        BY <4>2 DEF Resolved
      <4>4. Cardinality(T) \in Nat
        BY <4>1, <4>3, FS_Subset, FS_CardinalityType
      <4> QED
        BY <4>2, <4>4
    <3>4. PICK m, n : m = Cardinality(Resolved(ps)) /\ n = Cardinality(Resolved(ps))'
      OBVIOUS
    <3>5. m \in Nat /\ n \in Nat /\ m <= n /\ ~(n > f.n) /\ f.n \in Int
      BY <1>a, <2>1, <3>1, <3>2, <3>3, <3>4
    <3>6. ~(m > f.n)
      BY <3>5
    <3> QED
      BY <3>1, <3>4, <3>6
  <2> QED
    BY <2>1 DEF Lost
<1>2. ASSUME NEW f \in Plain PROVE f \in Frames /\ f \notin Lost
  <2>1. f \in Frames
    BY <1>2 DEF Plain
  <2>2. ASSUME f.k = "walk", Frame("walk"), Top.todo # <<>>, f.todo = Tail(Top.todo),
               \/ Pending(Head(Top.todo)) /\ f.n = Top.n
               \/ Top.n > 0 /\ f.n = Top.n - 1
        PROVE  Cardinality(Resolved(f.todo)) > f.n
    <3>1. stack # <<>> /\ Top \in Frames /\ Top.k = "walk"
      BY <2>2, TopFrame
    <3>2. Cardinality(Resolved(Top.todo)) > Top.n
      BY <1>0, <3>1 DEF WalkOK, Meets, Lost, Top
    <3>3. PICK ps \in Seq(Id) : ps = Top.todo
      BY <1>a, <3>1
    <3>4. PICK m, n : m = Cardinality(Resolved(ps)) /\ n = Cardinality(Resolved(Tail(ps)))
      OBVIOUS
    <3>5. m \in Nat /\ n \in Nat
      <4>1. Tail(ps) \in Seq(Id)
        BY <2>2, <3>3
      <4> QED
        BY <3>4, <4>1, ResolvedTypes
    <3>6. m <= n + 1 /\ (Pending(Head(ps)) => m <= n)
      BY <2>2, <3>3, <3>4, ResolvedTail
    <3>7. Top.n \in Int /\ m > Top.n
      BY <1>a, <3>1, <3>2, <3>3, <3>4
    <3>8. n > f.n
      BY <2>2, <3>3, <3>5, <3>6, <3>7
    <3> QED
      BY <2>2, <3>3, <3>4, <3>8
  <2>3. f.k = "walk" => Onward(f)
    BY <1>2 DEF Plain
  <2>4. f.k = "walk" => Cardinality(Resolved(f.todo)) > f.n
    BY <2>2, <2>3 DEF Onward
  <2> QED
    BY <2>1, <2>4 DEF Lost
<1>3. PICK s \in Seq(Frames) :
        /\ Rest(s)
        /\ \/ Grown(stack', s)
           \/ Visiting /\ stack' = Push(User(Current, storage'), s)
           \/ /\ Frame("traverse")
              /\ \E f \in Frames : stack' = Push(f, s) /\ f.k \in {"traverse", "phase2"}
  BY StackShape DEF Shaped
<1>4. ~Meets(s, Lost)
  <2>1. Lost \in SUBSET Loud
    BY DEF Lost, Loud
  <2> QED
    BY <1>3, <2>1 DEF Rest, Less, WalkOK
<1>5. \A f \in Frames, z \in Seq(Frames) :
          f \notin Lost /\ ~Meets(z, Lost) => Push(f, z) \in Seq(Frames) /\ ~Meets(Push(f, z), Lost)
  BY PushList, PushMeets
<1>6. \A f \in Frames : f.k # "walk" => f \notin Lost
  BY DEF Lost
<1>7. ~Meets(stack', Lost)
  <2>1. CASE Grown(stack', s)
    <3>1. \A f \in Plain, z \in Seq(Frames) :
              ~Meets(z, Lost) => Push(f, z) \in Seq(Frames) /\ ~Meets(Push(f, z), Lost)
      BY <1>2, <1>5
    <3> QED
      BY <1>4, <2>1, <3>1, PlainTypes DEF Grown
  <2>2. CASE Visiting /\ stack' = Push(User(Current, storage'), s)
    <3>1. Current \in Id /\ storage' \in Storages
      BY <2>2, BusyParts DEF Visiting, CoreType
    <3>2. User(Current, storage') \in Frames /\ User(Current, storage').k = "user"
      BY <3>1, FrameTypes DEF User
    <3> QED
      BY <1>4, <1>5, <1>6, <2>2, <3>2
  <2>3. CASE \E f \in Frames : stack' = Push(f, s) /\ f.k \in {"traverse", "phase2"}
    BY <1>4, <1>5, <1>6, <2>3
  <2> QED
    BY <1>3, <2>1, <2>2, <2>3
<1> QED
  BY <1>1, <1>7 DEF WalkOK, Meets
-----------------------------------------------------------------------------
ResolveInv ==
    /\ KindOK /\ WalkOK
    /\ "protected" \notin program => ~confused /\ \A c \in Id : DoneOK(c)

(* What would take a resolved promise for a pending one.                   *)
Mistake ==
    \/ Frame("user") /\ kind[Top.c] \in Sequential /\ ~Pending(Top.c)
    \/ Frame("resolve") /\ ~Pending(Top.c)
    \/ Frame("walk") /\ Top.todo = <<>>

LEMMA MistakesOnly ==
    ASSUME Next
    PROVE  confused' = confused \/ Mistake
<1>1. CASE Create
  BY <1>1 DEF Create, wait, task, new_initial, bind, map, catch, try_bind, sequential, on_success, on_failure,
              on_any, async, observe, on_cancel, no_cancel, protected, join, choose, pick, nchoose, npick, race
<1>2. CASE Act
  BY <1>2 DEF Act, pick_now, npick_now, wakeup, wakeup_later, cancel, with_value, abandon_wakeups
<1>3. CASE Return
  BY <1>3 DEF Return, with_value_return, return_unit, hook_raises, return_result, return_promise, InUserOf, Mistake
<1>4. CASE LwtStep
  <2>1. run_cancel_callback \/ run_user_callback \/ run_passing_callback \/ run_join_callback
           \/ run_removable_callback \/ run_done \/ clear_step \/ leave_step => confused' = confused
    BY DEF run_cancel_callback, run_user_callback, run_passing_callback, run_join_callback,
           run_removable_callback, run_done, clear_step, leave_step
  <2>2. traverse_step \/ traverse_done \/ phase2_step \/ cancels_step => confused' = confused
    BY DEF traverse_step, traverse_done, phase2_step, cancels_step
  <2>3. resolve_step => confused' = confused \/ Mistake
    BY DEF resolve_step, Mistake, Pending, StateOf
  <2>4. walk_step => confused' = confused \/ Mistake
    BY DEF walk_step, Mistake
  <2> QED
    BY <1>4, <2>1, <2>2, <2>3, <2>4 DEF LwtStep
<1> QED
  BY <1>1, <1>2, <1>3, <1>4 DEF Next

LEMMA NoMistake ==
    ASSUME CoreType, CancelInv, ResolveInv, "protected" \notin program
    PROVE  ~Mistake
<1>0. stack \in Seq(Frames) /\ \A c \in Id : DoneOK(c) /\ UserOK(c) /\ OwedOK(c)
  BY DEF CoreType, CancelInv, ResolveInv
<1>1. ASSUME Frame("user"), kind[Top.c] \in Sequential, ~Pending(Top.c) PROVE FALSE
  <2>1. stack # <<>> /\ Top \in Frames /\ Top.k = "user"
    BY <1>1, TopFrame
  <2>2. PICK d \in Id : d = Top.c
    BY <2>1, FrameParts
  <2>3. Top \in UsersOf(d)
    BY <2>1, <2>2 DEF UsersOf
  <2>4. Meets(stack, UsersOf(d))
    BY <1>0, <2>1, <2>3 DEF Meets, Top
  <2>5. Waits(d) /\ d \in Promises
    BY <1>1, <2>2, <2>4 DEF Waits, CancelInv, ClassesOK
  <2> QED
    BY <1>0, <1>1, <2>2, <2>5 DEF DoneOK
<1>2. ASSUME Frame("resolve"), ~Pending(Top.c) PROVE FALSE
  <2>1. stack # <<>> /\ Top \in Frames /\ Top.k = "resolve"
    BY <1>2, TopFrame
  <2>2. PICK d \in Id : d = Top.c
    BY <2>1, FrameParts
  <2>3. Top \in ResolvesOf(d)
    BY <2>1, <2>2 DEF ResolvesOf
  <2>4. Meets(stack, ResolvesOf(d))
    BY <1>0, <2>1, <2>3 DEF Meets, Top
  <2>5. d \in Promises
    BY <1>0, <2>4 DEF OwedOK, ResolveInv, KindOK
  <2> QED
    BY <1>0, <1>2, <2>2, <2>4, <2>5 DEF DoneOK
<1>3. ASSUME Frame("walk"), Top.todo = <<>> PROVE FALSE
  <2>1. stack # <<>> /\ Top \in Frames /\ Top.k = "walk"
    BY <1>3, TopFrame
  <2>2. Cardinality(Resolved(Top.todo)) > Top.n
    BY <1>0, <2>1 DEF ResolveInv, WalkOK, Meets, Lost, Top
  <2>3. Resolved(Top.todo) = {}
    BY <1>3 DEF Resolved
  <2>4. Cardinality(Resolved(Top.todo)) = 0
    BY <2>3, FS_EmptySet
  <2>5. Top.n \in 0..MaxArgs /\ MaxArgs \in Nat
    BY <2>1, FrameParts, ConstantTypes
  <2> QED
    BY <2>2, <2>4, <2>5
<1> QED
  BY <1>1, <1>2, <1>3 DEF Mistake

LEMMA ResolveStart == Init => ResolveInv
<1> SUFFICES ASSUME Init PROVE ResolveInv
  OBVIOUS
<1>1. KindOK
  BY DEF Init, KindOK, Makers, Sequential, Removable
<1>2. WalkOK /\ ~confused
  BY DEF Init, WalkOK, Meets
<1>3. \A c \in Id : DoneOK(c)
  BY DEF Init, DoneOK, Promises
<1> QED
  BY <1>1, <1>2, <1>3 DEF ResolveInv

LEMMA ResolveStutter ==
    ASSUME ResolveInv, UNCHANGED vars
    PROVE  ResolveInv'
<1>1. UNCHANGED <<program, kind, args, rep, state, stack, count, cell, deferred, confused>>
  BY DEF vars, static, heap, loop
<1>2. Promises' = Promises /\ \A x : StateOf(x)' = StateOf(x)
  BY <1>1 DEF Promises, StateOf
<1>3. \A c : Waits(c)' <=> Waits(c)
  <2>1. \A c : Held(c)' <=> Held(c)
    BY <1>1 DEF Held, Stacked, Deferred
  <2> QED
    BY <1>1, <2>1 DEF Waits, Outcome, Source, UsersOf
<1>4. \A c : DoneOK(c)' <=> DoneOK(c)
  BY <1>1, <1>2, <1>3 DEF DoneOK, Pending, ResolvesOf
<1>5. Lost' = Lost
  BY <1>1 DEF Lost, Resolved, StateOf
<1> QED
  BY <1>1, <1>2, <1>4, <1>5 DEF ResolveInv, KindOK, WalkOK

LEMMA ResolveKept ==
    ASSUME CoreType, CoreType', CallbackInv, CancelInv, CancelInv', CoreSteps, Next, ResolveInv
    PROVE  ResolveInv'
<1>0. program' = program /\ KindOK /\ WalkOK
  BY DEF Next, ResolveInv
<1>1. KindOK' /\ WalkOK'
  BY <1>0, KindsKept, WalksKept
<1>2. ASSUME "protected" \notin program PROVE ~confused' /\ \A c \in Id : DoneOK(c)'
  <2>1. ~confused /\ \A c \in Id : DoneOK(c)
    BY <1>2 DEF ResolveInv
  <2>2. ~Mistake
    BY <1>2, NoMistake
  <2>3. confused' = confused
    BY <2>2, MistakesOnly
  <2>4. \A c \in Id : DoneOK(c)'
    BY <1>0, <1>2, <2>1, DoneKept
  <2> QED
    BY <2>1, <2>3, <2>4
<1> QED
  BY <1>0, <1>1, <1>2 DEF ResolveInv

(* A promise is resolved once (lwt.ml:666, may_now_be_proxy): when a       *)
(* callback of bind, catch, join, choose, pick... resolves its promise, or *)
(* makes another one a proxy of it, that promise is still pending, and     *)
(* nth_resolved_and_cancel_pending never comes to the end of its list.     *)
(* So it is in every program that does not use Lwt.protected, whatever     *)
(* user code does within callbacks; with it, it is not (lwt.ml:1613).      *)
THEOREM PromisesResolveOnce == Spec => []("protected" \notin program => NoTypeConfusion)
<1> DEFINE Inv == CoreType /\ CallbackInv /\ DepthInv /\ CancelInv /\ ResolveInv
<1>1. Init => Inv
  BY CoreStart, CallbackStart, CancelStart, ResolveStart
<1>2. Inv /\ [Next]_vars => Inv'
  <2>1. ASSUME Inv, Next PROVE Inv'
    <3>1. CoreSteps /\ program' = program
      BY <2>1, EveryStep
    <3>2. CoreType'
      BY <2>1, <3>1, TypesKept
    <3>3. CallbackInv' /\ DepthInv'
      BY <2>1, <3>1, <3>2, CallbacksKept, DepthKept
    <3>4. CancelInv'
      BY <2>1, <3>1, <3>2, <3>3, CancelKept
    <3> QED
      BY <2>1, <3>1, <3>2, <3>3, <3>4, ResolveKept
  <2>2. ASSUME Inv, UNCHANGED vars PROVE Inv'
    <3>1. CoreType'
      BY <2>2 DEF CoreType, vars, static, heap, loop
    <3>2. CallbackInv' /\ DepthInv'
      BY <2>2, CallbackStutter
    <3> QED
      BY <2>2, <3>1, <3>2, CancelStutter, ResolveStutter
  <2> QED
    BY <2>1, <2>2
<1>3. Inv => ("protected" \notin program => NoTypeConfusion)
  BY DEF ResolveInv, NoTypeConfusion
<1> HIDE DEF Inv
<1> QED
  BY <1>1, <1>2, <1>3, PTL DEF Spec

-----------------------------------------------------------------------------
(* Chains of promises.  A pending class has a member that user code can    *)
(* resolve, or whose callback is still to run, runs, or is about to        *)
(* resolve it.  Of the counts of joins and of the cells of races nothing   *)
(* is said.                                                                *)
Chained == Sequential \cup {"no_cancel"}
Lasting == Initial \cup Removable \cup {"join"}

Alive(c) == kind[c] \in Lasting \/ Waits(c) \/ Meets(stack, ResolvesOf(c))

LiveOK == \A q \in Id : state[q] = "Pending" => \E x \in Promises : rep[x] = q /\ Alive(x)

(* The result of its promise is passed on by the callback of c.            *)
Passes(c) ==
    /\ kind[c] \in Chained /\ Outcome(c) \in Results /\ ~Held(c)
    /\ kind[c] = "no_cancel" \/ Outcome(c) \notin Triggers(kind[c])

PassedOK(c) ==
    Passes(c) => StateOf(c) = Outcome(c) \/ Meets(stack, {Resolve(c, Outcome(c))})

(* A proxy is not an underlying promise, and the operations are those of   *)
(* the program.                                                            *)
NamesOK ==
    /\ \A z \in Id : state[z] = "Proxy" => rep[z] # z
    /\ \A c \in Id : kind[c] \in program \cup {"free"}
    /\ \A c \in Id : kind[c] = "no_cancel" => DOMAIN args[c] = {1}

ChainInv ==
    /\ NamesOK
    /\ "protected" \notin program /\ Uncut => LiveOK /\ \A c \in Id : PassedOK(c)

LEMMA PushKeeps ==
    ASSUME NEW s \in Seq(Frames), NEW f \in Frames, NEW W, Meets(s, W)
    PROVE  Push(f, s) \in Seq(Frames) /\ Meets(Push(f, s), W)
  BY PushList, PushMeets

LEMMA GrownKeeps ==
    ASSUME NEW s \in Seq(Frames), NEW t, Grown(t, s), NEW W, Meets(s, W)
    PROVE  Meets(t, W)
<1>1. \A f \in Plain : f \in Frames
  BY DEF Plain
<1>2. \A f \in Plain, z \in Seq(Frames) : Meets(z, W) => Push(f, z) \in Seq(Frames) /\ Meets(Push(f, z), W)
  BY <1>1, PushKeeps
<1> QED
  BY <1>2 DEF Grown, Inert, Silent

(* The calls below the innermost one go on, if nothing cuts them short.    *)
LEMMA TailKept ==
    ASSUME CoreType, CoreType', CoreSteps, Uncut, stack # <<>>, NEW W, Meets(Tail(stack), W)
    PROVE  Meets(stack', W)
<1>0. /\ stack \in Seq(Frames) /\ storage \in Storages /\ deferred \in Seq(Batch)
      /\ Tail(stack) \in Seq(Frames) /\ Head(stack) \in Frames /\ stack' \in Seq(Frames) /\ storage' \in Storages
  BY DEF CoreType
<1>a. PICK s, f : s = Tail(stack) /\ f = Head(stack) /\ s \in Seq(Frames) /\ f \in Frames /\ stack = Push(f, s)
  BY <1>0, FirstOfList
<1>b. Meets(s, W) /\ Meets(stack, W)
  BY <1>a, PushKeeps
<1>c. ASSUME NEW t, Grown(stack', t), t \in Seq(Frames), Meets(t, W) PROVE Meets(stack', W)
  BY <1>c, GrownKeeps
<1>d. ASSUME NEW g, NEW t, stack' = Push(g, t), t \in Seq(Frames), Meets(t, W) PROVE Meets(stack', W)
  <2>1. g \in Frames
    BY <1>0, <1>d DEF Push
  <2> QED
    BY <1>d, <2>1, PushKeeps
<1>e. ASSUME NEW g \in Frames, NEW h, NEW t, stack' = Push(h, Push(g, t)), t \in Seq(Frames), Meets(t, W)
      PROVE  Meets(stack', W)
  BY <1>d, <1>e, PushKeeps
<1>1. CASE Calling
  BY <1>0, <1>1, <1>b, <1>c DEF Calling
<1>2. CASE Returning
  BY <1>2, <1>a, <1>b, <1>c DEF Returning
<1>3. CASE Traversing \/ \E x \in Batch : Collecting(x)
  BY <1>3, <1>a, <1>b, <1>d DEF Traversing, Collecting
<1>4. CASE Continuing
  <2>1. Top.k = "phase2" /\ Top.todo # <<>> /\ Top \in Frames
    BY <1>4, TopFrame DEF Continuing
  <2>2. Top.todo \in Seq(Batch)
    BY <2>1, FrameParts
  <2>3. Tail(Top.todo) \in Seq(Batch)
    BY <2>1, <2>2
  <2>4. Phase2(Tail(Top.todo)) \in Frames /\ Leave(storage) \in Frames
    BY <1>0, <2>3, QuietFrames
  <2>5. PICK g, h, x : /\ g = Phase2(Tail(Top.todo)) /\ h = Leave(storage) /\ x = RunFrame(Head(Top.todo))
                       /\ stack' = Push(x, Push(h, Push(g, s)))
    BY <1>4, <1>a DEF Continuing
  <2>6. Push(g, s) \in Seq(Frames) /\ Meets(Push(g, s), W)
    BY <1>a, <1>b, <2>4, <2>5, PushKeeps
  <2> QED
    BY <1>e, <2>4, <2>5, <2>6
<1>5. ASSUME Passing \/ Visiting
      PROVE  Push(Remaining, Tail(stack)) \in Seq(Frames) /\ Meets(Push(Remaining, Tail(stack)), W)
  <2>1. Remaining \in Frames
    BY <1>5, BusyParts DEF Passing, Visiting
  <2> QED
    BY <1>0, <2>1, PushKeeps
<1>6. CASE Passing
  BY <1>5, <1>6, <1>c DEF Passing
<1>7. CASE Visiting
  BY <1>5, <1>7, <1>d DEF Visiting
<1>8. CASE Leaving \/ WithReturning
  BY <1>8 DEF Leaving, WithReturning
<1>9. CASE Draining \/ \E v \in Storages : WithEntering(v)
  BY <1>0, <1>9, <1>b, <1>d DEF Draining, WithEntering
<1>10. ~Abandoning /\ ~Raising
  BY DEF Uncut, Abandoning, Raising
<1>11. ASSUME NEW x \in Batch, Entering(x) PROVE Meets(stack', W)
  <2>1. Leave(storage) \in Frames
    BY <1>0, QuietFrames
  <2> QED
    BY <1>0, <1>11, <1>b, <1>e, <2>1 DEF Entering
<1>12. CASE UNCHANGED stack
  BY <1>12, <1>b
<1>13. \A p \in Id, r \in Results : CallbacksOf(p, r) \in Batch
  BY BatchTypes
<1>14. /\ \A x : Deferring(x) => UNCHANGED stack
       /\ \A k, ps : Creating(k, ps) => UNCHANGED stack
  BY DEF Deferring, Creating
<1> QED
  BY <1>1, <1>2, <1>3, <1>4, <1>6, <1>7, <1>8, <1>9, <1>10, <1>11, <1>12, <1>13, <1>14
     DEF CoreSteps, QuietSteps, BatchSteps

(* A callback leaves the loop when its turn has come.                      *)
LEMMA HeldMoves ==
    ASSUME CoreType, CallbackInv, CoreSteps, Uncut, NEW c \in Id, kind[c] \in Tracked, Held(c)
    PROVE  Held(c)' \/ (Busy /\ c = Current /\ Top.res = Outcome(c))
<1>0. TrackedOK(c)
  BY DEF CallbackInv
<1>1. PICK r : r = Outcome(c)
  OBVIOUS
<1>2. HeldOnce(c, r) /\ r # "Pending"
  BY <1>0, <1>1 DEF TrackedOK, RunsOnce
<1>3. CASE QuietSteps
  <2>1. Progress(c, r)
    BY <1>2, <1>3, QuietProgress
  <2> QED
    BY <1>1, <2>1 DEF Progress
<1>4. ASSUME NEW k, NEW ps, Creating(k, ps) PROVE Held(c)'
  BY <1>4 DEF Creating, Held, Stacked, Deferred
<1>5. ASSUME NEW p \in Id, NEW t \in Results, BatchSteps(CallbacksOf(p, t)) PROVE Held(c)'
  <2> DEFINE b == CallbacksOf(p, t)
  <2>1. ~Attached(c, p)
    BY <1>0, <1>1, <1>2 DEF TrackedOK, AttachedOnce
  <2>2. b \in Batch /\ b \notin BatchesWith(c)
    BY <2>1, HandedOver DEF Attached
  <2>3. b \notin BadBatches(c, r)
    BY <2>2, BadOnes
  <2> HIDE DEF b
  <2>4. BatchSteps(b)
    BY <1>5 DEF b
  <2>5. Held(c)' <=> Held(c)
    BY <1>2, <2>2, <2>3, <2>4, BatchProgress
  <2> QED
    BY <2>5
<1> QED
  BY <1>3, <1>4, <1>5 DEF CoreSteps, QuietSteps

(* The callback of a chain is handed to the loop with the result of its    *)
(* promise.                                                                *)
LEMMA HandedOn ==
    ASSUME CoreType, CallbackInv, CoreSteps, NEW c \in Id, kind[c] \in Chained, args'[c] = args[c],
           Outcome(c) = "Pending"
    PROVE  Outcome(c)' = "Pending" \/ Held(c)'
<1>0. kind[c] \in Tracked /\ kind[c] # "on_cancel"
  BY DEF Chained, Tracked, WithUserCode, Sequential
<1>1. TrackedOK(c)
  BY <1>0 DEF CallbackInv
<1>2. PICK x \in Promises : x = args[c][1]
  BY <1>1 DEF TrackedOK
<1>3. Pending(x) /\ (Pending(x)' => Outcome(c)' = "Pending")
  BY <1>2 DEF Outcome, Source, Pending, StateOf
<1>4. ASSUME ~Pending(x)' PROVE Held(c)'
  <2>1. PICK p \in Id, r \in Results : rep[x] = p /\ Resolving(p, r) /\ BatchSteps(CallbacksOf(p, r))
    BY <1>3, <1>4, NewlyDone
  <2>2. p = Source(c)
    BY <1>2, <2>1 DEF Source
  <2> DEFINE b == CallbacksOf(p, r)
  <2>3. Attached(c, p) /\ ~Held(c)
    BY <1>1, <2>2 DEF TrackedOK, RunsOnce
  <2>4. /\ In(regular[p], c)
        /\ Once(regular[p], c) /\ Once(cancels[p], c) /\ ~(In(regular[p], c) /\ In(cancels[p], c))
    BY <1>0, <1>1, <2>3 DEF TrackedOK, AttachedOnce, Attached
  <2>5. b \in Batch /\ b \in BatchesWith(c) /\ b \notin BadBatches(c, r)
    BY <2>4, HandedOver
  <2> HIDE DEF b
  <2>6. BatchSteps(b)
    BY <2>1 DEF b
  <2>7. HeldOnce(c, r)
    BY <2>3, NotHeld
  <2> QED
    BY <2>3, <2>5, <2>6, <2>7, BatchProgress
<1> QED
  BY <1>3, <1>4

(* When the turn of a chain's callback comes, it runs user code or passes  *)
(* the result on.                                                          *)
LEMMA ChainedSteps ==
    ASSUME CoreType, CoreType', Next, Busy, kind[Current] \in Chained
    PROVE  \/ /\ stack' = Push(User(Current, storage'), Push(Remaining, Tail(stack)))
              /\ kind[Current] # "no_cancel" /\ Top.res \in Triggers(kind[Current])
           \/ stack' = Push(Resolve(Current, Top.res), Push(Remaining, Tail(stack)))
<1>0. /\ Frame("run") /\ stack # <<>> /\ Top.k = "run" /\ (Top.cans # <<>> \/ Top.regs # <<>>)
      /\ \A k : Frame(k) => k = "run"
  BY DEF Busy, Frame, Top
<1>1. LwtStep
  <2>1. ~UserTurn
    BY <1>0 DEF UserTurn
  <2> QED
    BY <2>1, LwtAlone
<1>2. /\ kind[Current] \notin Observers /\ kind[Current] \notin Removable /\ kind[Current] # "join"
      /\ kind[Current] # "on_cancel" /\ kind[Current] # "protected"
  BY DEF Chained, Sequential, Observers, Removable
<1>3. ~run_cancel_callback
  BY <1>0, <1>2, RunParts DEF run_cancel_callback
<1>4. CASE run_user_callback
  <2>1. /\ Top.cans = <<>> /\ Top.regs # <<>> /\ kind[NextCallback] \in Sequential \cup Observers
        /\ Top.res \in Triggers(kind[NextCallback])
    BY <1>4 DEF run_user_callback, Running
  <2>2. Current = NextCallback /\ Current \in Id /\ Remaining \in Frames /\ Remaining = RestOfRun
    BY <1>0, <2>1, RunParts
  <2>3. PICK v \in Storages : RunUser(Current, v, Remaining)
    BY <1>4, <2>2 DEF run_user_callback, CoreType
  <2>4. stack' = Push(User(Current, storage'), Push(Remaining, Tail(stack)))
    BY <1>0, <2>2, <2>3, RunUserStep
  <2>5. kind[Current] # "no_cancel"
    BY <2>1, <2>2 DEF Sequential, Observers
  <2> QED
    BY <2>1, <2>2, <2>4, <2>5
<1>5. CASE run_passing_callback
  <2>1. Top.cans = <<>> /\ Top.regs # <<>>
    BY <1>5 DEF run_passing_callback, Running
  <2>2. /\ Current = NextCallback /\ Current \in Id /\ Remaining \in Frames /\ Remaining = RestOfRun
        /\ Tail(stack) \in Seq(Frames) /\ Top.res \in Results
    BY <1>0, <2>1, RunParts
  <2>3. Become(<<Resolve(Current, Top.res)>> \o <<Remaining>>)
    BY <1>2, <1>5, <2>2 DEF run_passing_callback, Resolve
  <2>4. Resolve(Current, Top.res) \in Frames
    BY <2>2, FrameTypes
  <2> DEFINE F == <<Resolve(Current, Top.res)>>
  <2>5. F \in Seq(Frames)
    BY <2>4
  <2> HIDE DEF F
  <2>6. (F \o <<Remaining>>) \o Tail(stack) = F \o Push(Remaining, Tail(stack))
    BY <2>2, <2>5, ThenPush
  <2> QED
    BY <2>3, <2>6 DEF Become, Push, F
<1>6. ~run_join_callback /\ ~run_removable_callback /\ ~run_done
  <2>1. ~run_done
    BY <1>0 DEF run_done
  <2>2. ASSUME run_join_callback \/ run_removable_callback PROVE FALSE
    <3>1. Top.cans = <<>> /\ Top.regs # <<>> /\ kind[NextCallback] \in Removable \cup {"join"}
      BY <2>2 DEF run_join_callback, run_removable_callback, Running
    <3>2. Current = NextCallback
      BY <1>0, <3>1, RunParts
    <3> QED
      BY <1>2, <3>1, <3>2
  <2> QED
    BY <2>1, <2>2
<1>7. ~clear_step /\ ~resolve_step /\ ~leave_step /\ ~traverse_step /\ ~traverse_done /\ ~phase2_step
      /\ ~cancels_step /\ ~walk_step
  BY <1>0 DEF clear_step, resolve_step, leave_step, traverse_step, traverse_done, phase2_step, cancels_step, walk_step
<1> QED
  BY <1>1, <1>3, <1>4, <1>5, <1>6, <1>7 DEF LwtStep

(* A call of resolve gives its promise the result.                         *)
LEMMA ResolveSteps ==
    ASSUME CoreType, Next, Frame("resolve"), Pending(Top.c)
    PROVE  Resolving(rep[Top.c], Top.res)
<1>0. \A k : Frame(k) => k = "resolve"
  BY DEF Frame
<1>1. LwtStep
  <2>1. ~UserTurn
    BY <1>0 DEF UserTurn, Frame
  <2> QED
    BY <2>1, LwtAlone
<1>2. resolve_step
  <2>1. ~clear_step /\ ~leave_step /\ ~traverse_step /\ ~traverse_done /\ ~phase2_step /\ ~cancels_step /\ ~walk_step
    BY <1>0 DEF clear_step, leave_step, traverse_step, traverse_done, phase2_step, cancels_step, walk_step
  <2>2. ~run_cancel_callback /\ ~run_user_callback /\ ~run_passing_callback /\ ~run_join_callback
        /\ ~run_removable_callback /\ ~run_done
    BY <1>0 DEF run_cancel_callback, run_user_callback, run_passing_callback, run_join_callback,
                run_removable_callback, run_done, Running
  <2> QED
    BY <1>1, <2>1, <2>2 DEF LwtStep
<1>3. Top \in Frames /\ Top.k = "resolve"
  BY TopFrame
<1>4. PICK d \in Id, r \in Results : d = Top.c /\ r = Top.res
  BY <1>3, FrameParts
<1>5. rep[d] \in Id /\ state[rep[d]] = "Pending"
  BY <1>4 DEF CoreType, Pending, StateOf
<1>6. set_promise_state(rep[d], r) /\ UNCHANGED <<next, kind, args, saved, rep, joinRes>>
  BY <1>2, <1>4, <1>5 DEF resolve_step, static
<1> QED
  BY <1>4, <1>5, <1>6, SetState

(* The function of a chain goes on, or ends in a call of resolve, unless   *)
(* it makes another promise a proxy.                                       *)
LEMMA FunctionSteps ==
    ASSUME CoreType, CoreType', Next, Uncut, Frame("user"), NEW c \in Id, c = Top.c, kind[c] \in Chained,
           rep' = rep, ~Mistake
    PROVE  Meets(stack', UsersOf(c)) \/ Meets(stack', ResolvesOf(c))
<1>0. /\ \A k : Frame(k) => k = "user"
      /\ stack \in Seq(Frames) /\ stack # <<>> /\ Top \in Frames /\ Top.k = "user" /\ storage \in Storages
      /\ stack' \in Seq(Frames) /\ Tail(stack) \in Seq(Frames)
      /\ kind[c] \notin Observers
  BY TopFrame DEF Frame, CoreType, Chained, Sequential, Observers
<1>1. Meets(stack, UsersOf(c))
  BY <1>0 DEF Meets, UsersOf, Top
<1>a. ASSUME NEW g, NEW s \in Seq(Frames), stack' = Push(g, s), Meets(s, UsersOf(c)) PROVE Meets(stack', UsersOf(c))
  <2>1. g \in Frames
    BY <1>0, <1>a DEF Push
  <2> QED
    BY <1>a, <2>1, PushKeeps
<1>2. CASE Create
  <2>1. stack' = stack
    BY <1>2, CreateSteps DEF Creating
  <2> QED
    BY <1>1, <2>1
<1>3. ASSUME Calling PROVE Meets(stack', UsersOf(c))
  BY <1>0, <1>1, <1>3, <1>a DEF Calling
<1>4. CASE Act
  <2>1. ASSUME NEW p \in Id, NEW r \in UserRes, wakeup(p, r) \/ wakeup_later(p, r) PROVE Meets(stack', UsersOf(c))
    <3>1. PICK b : Entering(b) \/ Deferring(b)
      BY <2>1, WakeupStep
    <3>2. CASE Entering(b)
      <4>1. stack' = Push(RunFrame(b), Push(Leave(storage), stack))
        BY <1>0, <3>2 DEF Entering
      <4>2. Leave(storage) \in Frames
        BY <1>0, QuietFrames
      <4>3. Push(Leave(storage), stack) \in Seq(Frames) /\ Meets(Push(Leave(storage), stack), UsersOf(c))
        BY <1>0, <1>1, <4>2, PushKeeps
      <4> QED
        BY <1>a, <4>1, <4>3
    <3>3. CASE Deferring(b)
      BY <1>1, <3>3 DEF Deferring
    <3> QED
      BY <3>1, <3>2, <3>3
  <2>2. ASSUME NEW v \in Storages, with_value(v) PROVE Meets(stack', UsersOf(c))
    <3>1. stack' = Push(With(storage, v), stack)
      BY <2>2, WithSteps DEF WithEntering
    <3> QED
      BY <1>0, <1>1, <1>a, <3>1
  <2>3. ~abandon_wakeups
    BY DEF abandon_wakeups, UserOp, Uncut
  <2> QED
    BY <1>3, <1>4, <2>1, <2>2, <2>3, PickSteps, CancelStep DEF Act
<1>5. CASE Return
  <2>1. ~with_value_return /\ ~return_unit /\ ~hook_raises
    BY <1>0 DEF with_value_return, return_unit, hook_raises, InUserOf, UserOp, Uncut
  <2>2. ASSUME NEW r \in UserRes, return_result(r) PROVE Meets(stack', ResolvesOf(c))
    <3>1. stack' = Push(Resolve(c, r), Tail(stack))
      BY <2>2 DEF return_result, Become, Push, Resolve
    <3>2. Resolve(c, r) \in Frames /\ Resolve(c, r) \in ResolvesOf(c)
      BY ConstantTypes, FrameTypes DEF ResolvesOf, Resolve
    <3> QED
      BY <1>0, <3>1, <3>2, PushMeets
  <2>3. ASSUME NEW p \in Id, return_promise(p) PROVE FALSE
    <3>1. Pending(c) /\ Pending(p) /\ p \in Promises
      BY <1>0, <2>3 DEF return_promise, InUserOf, Mistake
    <3>2. rep[p] # rep[c]
      BY <2>3 DEF return_promise, DependsOn
    <3>3. rep' = [q \in Id |-> IF rep[q] = rep[p] THEN rep[c] ELSE rep[q]]
      BY <2>3, <3>1 DEF return_promise, Merge
    <3> QED
      BY <3>2, <3>3
  <2> QED
    BY <1>5, <2>1, <2>2, <2>3 DEF Return
<1>6. ~LwtStep
  <2>1. ~clear_step /\ ~resolve_step /\ ~leave_step /\ ~traverse_step /\ ~traverse_done /\ ~phase2_step
        /\ ~cancels_step /\ ~walk_step
    BY <1>0 DEF clear_step, resolve_step, leave_step, traverse_step, traverse_done, phase2_step, cancels_step, walk_step
  <2>2. ~run_cancel_callback /\ ~run_user_callback /\ ~run_passing_callback /\ ~run_join_callback
        /\ ~run_removable_callback /\ ~run_done
    BY <1>0 DEF run_cancel_callback, run_user_callback, run_passing_callback, run_join_callback,
                run_removable_callback, run_done, Running
  <2> QED
    BY <2>1, <2>2 DEF LwtStep
<1> QED
  BY <1>2, <1>4, <1>5, <1>6 DEF Next

(* What keeps a class alive does so, or another part of it does.           *)
LEMMA AliveKept ==
    ASSUME CoreType, CoreType', CallbackInv, CoreSteps, Next, Uncut, ~Mistake,
           NEW c \in Promises, Alive(c), Pending(c)', rep' = rep \/ ~(Frame("user") /\ Top.c = c)
    PROVE  Alive(c)'
<1>0. c \in Id /\ kind'[c] = kind[c] /\ args'[c] = args[c] /\ stack \in Seq(Frames) /\ storage' \in Storages
  <2>1. ~FreeOK(c) /\ c \in Id
    BY DEF FreeOK, Promises
  <2> QED
    BY <2>1, NamesKept DEF CoreType
<1>a. UsersOf(c)' = UsersOf(c) /\ ResolvesOf(c)' = ResolvesOf(c)
  BY DEF UsersOf, ResolvesOf
<1>1. CASE kind[c] \in Lasting
  BY <1>0, <1>1 DEF Alive
<1>2. ASSUME kind[c] \in Chained,
             Outcome(c)' = "Pending" \/ Held(c)' \/ Meets(stack', UsersOf(c)) \/ Meets(stack', ResolvesOf(c))
      PROVE  Alive(c)'
  BY <1>0, <1>2, <1>a DEF Alive, Waits, Chained
<1>3. ASSUME NEW W, Meets(stack, W), ~Meets(stack', W) PROVE stack # <<>> /\ Top \in W
  <2>1. stack # <<>>
    BY <1>3 DEF Meets
  <2>2. Top \in W \/ Meets(Tail(stack), W)
    BY <1>0, <1>3, <2>1, FineFirst DEF Top
  <2> QED
    BY <1>3, <2>1, <2>2, TailKept
<1>4. CASE kind[c] \in Chained /\ Outcome(c) = "Pending"
  BY <1>0, <1>2, <1>4, HandedOn
<1>5. CASE kind[c] \in Chained /\ Held(c)
  <2>1. kind[c] \in Tracked
    BY <1>5 DEF Chained, Tracked, WithUserCode
  <2>2. ASSUME Busy, c = Current PROVE Meets(stack', UsersOf(c)) \/ Meets(stack', ResolvesOf(c))
    <3>1. /\ Remaining \in Frames /\ Tail(stack) \in Seq(Frames) /\ Top.res \in Results
          /\ Push(Remaining, Tail(stack)) \in Seq(Frames)
      BY <2>2, BusyParts, PushList
    <3>2. User(c, storage') \in Frames /\ User(c, storage') \in UsersOf(c)
      BY <1>0, FrameTypes DEF UsersOf, User
    <3>3. Resolve(c, Top.res) \in Frames /\ Resolve(c, Top.res) \in ResolvesOf(c)
      BY <1>0, <3>1, FrameTypes DEF ResolvesOf, Resolve
    <3>4. stack' \in {Push(User(c, storage'), Push(Remaining, Tail(stack))),
                      Push(Resolve(c, Top.res), Push(Remaining, Tail(stack)))}
      BY <1>5, <2>2, ChainedSteps
    <3> QED
      BY <3>1, <3>2, <3>3, <3>4, PushMeets
  <2> QED
    BY <1>2, <1>5, <2>1, <2>2, <1>0, HeldMoves
<1>6. CASE kind[c] \in Chained /\ Meets(stack, UsersOf(c))
  <2>1. ASSUME ~Meets(stack', UsersOf(c)) PROVE Meets(stack', ResolvesOf(c))
    <3>1. Frame("user") /\ Top.c = c
      BY <1>3, <1>6, <2>1 DEF UsersOf, Frame, Top
    <3> QED
      BY <1>0, <1>6, <2>1, <3>1, FunctionSteps
  <2> QED
    BY <1>2, <1>6, <2>1
<1>7. CASE Meets(stack, ResolvesOf(c))
  <2>1. ASSUME ~Meets(stack', ResolvesOf(c)) PROVE FALSE
    <3>1. Frame("resolve") /\ Top.c = c /\ Top \in Frames
      BY <1>3, <1>7, <2>1 DEF ResolvesOf, Frame, Top
    <3>2. Pending(Top.c)
      BY <3>1 DEF Mistake
    <3>3. Resolving(rep[c], Top.res) /\ Top.res \in Results
      BY <3>1, <3>2, ResolveSteps, FrameParts DEF Frame, Top
    <3>4. StateOf(c)' = Top.res
      BY <1>0, <3>3 DEF Resolving, StateOf, CoreType
    <3> QED
      BY <3>3, <3>4, TrackedKinds DEF Pending
  <2> QED
    BY <1>a, <2>1 DEF Alive
<1> QED
  BY <1>1, <1>4, <1>5, <1>6, <1>7 DEF Alive, Waits, Chained, Lasting

(* Behind the proxies a promise is pending or has a result.                *)
LEMMA Settled ==
    ASSUME CoreType, CallbackInv, ClassesOK, NamesOK, NEW x \in Promises
    PROVE  StateOf(x) \in Results \cup {"Pending"}
<1>1. x \in Id /\ rep[x] \in Id /\ rep[x] \in Promises /\ rep[rep[x]] = rep[x]
  BY DEF CoreType, CallbackInv, RepOK, ClassesOK, Promises
<1>2. state[rep[x]] \in States /\ state[rep[x]] # "none" /\ state[rep[x]] # "Proxy"
  BY <1>1 DEF CoreType, Promises, NamesOK
<1> QED
  BY <1>2 DEF StateOf, States

(* What is made from a pending promise waits for it.                       *)
LEMMA FreshWaits ==
    ASSUME CoreType, CallbackInv, NEW k \in Chained, NEW ps, Creating(k, ps), NEW n \in Id, n = next
    PROVE  kind'[n] = k /\ DOMAIN args'[n] = {1} /\ Outcome(n)' = "Pending"
<1>1. k \in Tracked /\ next \in Int /\ FreeOK(n)
  BY DEF Chained, Tracked, WithUserCode, CoreType, CallbackInv
<1>2. PICK p \in Promises : ps = <<p>> /\ Pending(p)
  BY <1>1 DEF Creating
<1>3. kind'[n] = k /\ args'[n] = <<p>> /\ rep' = rep /\ state' \in {state, [state EXCEPT ![n] = "Pending"]}
  BY <1>2 DEF Creating, CoreType
<1>4. p \in Id /\ rep[p] \in Promises /\ rep[p] \in Id
  BY DEF CoreType, CallbackInv, RepOK, Promises
<1>5. state'[rep[p]] = "Pending"
  BY <1>2, <1>3, <1>4 DEF Pending, StateOf, CoreType
<1> QED
  BY <1>3, <1>5 DEF Outcome, Source

LEMMA NamedKept ==
    ASSUME CoreType, CallbackInv, CoreSteps, program' = program, NamesOK
    PROVE  NamesOK'
<1>0. rep \in [Id -> Id] /\ state \in [Id -> States] /\ kind \in [Id -> Kinds] /\ next \in Int
  BY DEF CoreType
<1>1. ASSUME UNCHANGED <<kind, args, rep>>, \A z \in Id : state'[z] = "Proxy" => state[z] = "Proxy"
      PROVE  NamesOK'
  BY <1>1 DEF NamesOK
<1>2. ASSUME NEW p \in Id, NEW q \in Id, Merging(p, q) PROVE NamesOK'
  <2>1. /\ p # q /\ state[q] = "Pending" /\ UNCHANGED <<kind, args>>
        /\ \A z \in Id : /\ rep'[z] = IF rep[z] = p THEN q ELSE rep[z]
                         /\ z # p => state'[z] = state[z]
    BY <1>0, <1>2 DEF Merging
  <2>2. ASSUME NEW z \in Id, state'[z] = "Proxy" PROVE rep'[z] # z
    BY <2>1, <2>2 DEF NamesOK
  <2> QED
    BY <2>1, <2>2 DEF NamesOK
<1>3. ASSUME NEW k, NEW ps, Creating(k, ps), Making PROVE NamesOK'
  <2>1. PICK n \in Id : n = next
    BY <1>3 DEF Creating
  <2>2. /\ rep' = rep /\ state' \in {state, [state EXCEPT ![n] = "Pending"]} /\ kind'[n] = k
        /\ \A c \in Id : c # n => kind'[c] = kind[c] /\ args'[c] = args[c]
    BY <1>0, <1>3, <2>1 DEF Creating, CoreType
  <2>3. k \in program
    BY <1>3, <2>1, <2>2 DEF Making
  <2>4. k = "no_cancel" => DOMAIN args'[n] = {1}
    BY <1>3, <2>1, FreshWaits DEF Chained
  <2>5. \A z \in Id : state'[z] = "Proxy" => state[z] = "Proxy"
    BY <1>0, <2>2
  <2> QED
    BY <2>2, <2>3, <2>4, <2>5 DEF NamesOK
<1>4. ASSUME NEW p \in Id, NEW r \in Results, Resolving(p, r) PROVE NamesOK'
  <2>1. UNCHANGED <<kind, args, rep>> /\ state' = [state EXCEPT ![p] = r] /\ r # "Proxy"
    BY <1>4 DEF Resolving, Results
  <2> QED
    BY <1>0, <1>1, <2>1
<1> QED
  BY <1>1, <1>2, <1>3, <1>4 DEF CoreSteps, KeepHeap, Clearing

LEMMA LiveKept ==
    ASSUME CoreType, CoreType', CallbackInv, CoreSteps, Next, Uncut, ~Mistake, LiveOK
    PROVE  LiveOK'
<1>0. rep \in [Id -> Id] /\ state \in [Id -> States] /\ next \in Int /\ Promises \subseteq Id
  BY DEF CoreType, Promises
<1>a. Promises \subseteq Promises'
  BY PromisesKept
<1>1. ASSUME NEW q \in Id, state[q] = "Pending", state'[q] = "Pending", rep' = rep
      PROVE  \E x \in Promises' : rep'[x] = q /\ Alive(x)'
  <2>1. PICK x \in Promises : rep[x] = q /\ Alive(x)
    BY <1>1 DEF LiveOK
  <2>2. Pending(x)'
    BY <1>1, <2>1 DEF Pending, StateOf
  <2>3. Alive(x)'
    BY <1>1, <2>1, <2>2, AliveKept
  <2> QED
    BY <1>1, <1>a, <2>1, <2>3
<1>2. ASSUME NEW p \in Id, NEW q0 \in Id, Merging(p, q0), Proxying(p, q0), NEW q \in Id, state'[q] = "Pending"
      PROVE  \E x \in Promises' : rep'[x] = q /\ Alive(x)'
  <2>1. /\ p # q0 /\ state[p] = "Pending" /\ state[q0] = "Pending" /\ q # p /\ state[q] = "Pending"
        /\ \A z \in Id : rep'[z] = IF rep[z] = p THEN q0 ELSE rep[z]
        /\ rep[Top.c] = q0
    BY <1>0, <1>2 DEF Merging, Proxying
  <2>2. ASSUME NEW x \in Promises, Alive(x), rep[x] # q0, rep'[x] = q
        PROVE  \E y \in Promises' : rep'[y] = q /\ Alive(y)'
    <3>1. Pending(x)'
      BY <1>2, <2>2 DEF Pending, StateOf
    <3>2. Top.c # x
      BY <2>1, <2>2
    <3>3. Alive(x)'
      BY <2>2, <3>1, <3>2, AliveKept
    <3> QED
      BY <1>a, <2>2, <3>3
  <2>3. CASE q = q0
    <3>1. PICK x \in Promises : rep[x] = p /\ Alive(x)
      BY <2>1 DEF LiveOK
    <3> QED
      BY <1>0, <2>1, <2>2, <2>3, <3>1
  <2>4. CASE q # q0
    <3>1. PICK x \in Promises : rep[x] = q /\ Alive(x)
      BY <2>1 DEF LiveOK
    <3> QED
      BY <1>0, <2>1, <2>2, <2>4, <3>1
  <2> QED
    BY <2>3, <2>4
<1>3. ASSUME NEW k, NEW ps, Creating(k, ps), Making, NEW q \in Id, state'[q] = "Pending"
      PROVE  \E x \in Promises' : rep'[x] = q /\ Alive(x)'
  <2>1. PICK n \in Id : n = next
    BY <1>3 DEF Creating
  <2>2. FreeOK(n)
    BY <1>0, <2>1 DEF CallbackInv
  <2>3. /\ rep' = rep /\ k \in Kinds \ {"free"} /\ kind'[n] = k
        /\ \A z \in Id : z # n => state'[z] = state[z]
    BY <1>0, <1>3, <2>1 DEF Creating, CoreType
  <2>4. CASE q # n
    BY <1>1, <1>3, <2>3, <2>4
  <2>5. CASE q = n
    <3>1. k \notin Observers
      BY <1>3, <2>1, <2>2, <2>3, <2>5 DEF Making, FreeOK
    <3>2. k \in Lasting \cup Chained
      BY <2>3, <3>1 DEF Kinds, Lasting, Chained
    <3>3. n \in Promises' /\ rep'[n] = n
      BY <1>3, <2>2, <2>3, <2>5 DEF Promises, FreeOK
    <3>4. k \in Chained => Outcome(n)' = "Pending"
      BY <1>3, <2>1, FreshWaits
    <3>5. Alive(n)'
      BY <2>3, <3>2, <3>4 DEF Alive, Waits, Chained
    <3> QED
      BY <2>5, <3>3, <3>5
  <2> QED
    BY <2>4, <2>5
<1>4. ASSUME NEW p \in Id, NEW r \in Results, Resolving(p, r), NEW q \in Id, state'[q] = "Pending"
      PROVE  rep' = rep /\ state[q] = "Pending"
  BY <1>0, <1>4, TrackedKinds DEF Resolving
<1>5. ASSUME NEW q \in Id, state'[q] = "Pending"
      PROVE  \E x \in Promises' : rep'[x] = q /\ Alive(x)'
  <2>1. CASE UNCHANGED <<rep, state>>
    BY <1>1, <1>5, <2>1
  <2> QED
    BY <1>1, <1>2, <1>3, <1>4, <1>5, <2>1 DEF CoreSteps, KeepHeap, Clearing
<1> QED
  BY <1>5 DEF LiveOK

LEMMA PassedKept ==
    ASSUME CoreType, CoreType', CallbackInv, ClassesOK, CoreSteps, Next, Uncut, ~Mistake, NamesOK,
           NEW c \in Id, PassedOK(c)
    PROVE  PassedOK(c)'
<1>1. SUFFICES ASSUME Passes(c)'
               PROVE  StateOf(c)' = Outcome(c)' \/ Meets(stack', {Resolve(c, Outcome(c)')})
  BY DEF PassedOK, Resolve
<1>2. /\ kind'[c] \in Chained /\ Outcome(c)' \in Results /\ ~Held(c)'
      /\ kind'[c] = "no_cancel" \/ Outcome(c)' \notin Triggers(kind'[c])
  BY <1>1 DEF Passes, Triggers
<1>3. kind'[c] = kind[c] /\ args'[c] = args[c]
  <2>1. SUFFICES ASSUME c = next, FreeOK(c) PROVE kind'[c] = kind[c] /\ args'[c] = args[c]
    BY NamesKept
  <2>2. ASSUME NEW k, NEW ps, Creating(k, ps) PROVE FALSE
    <3>1. kind'[c] = k
      BY <2>1, <2>2 DEF Creating, CoreType
    <3> QED
      BY <1>2, <2>1, <2>2, <3>1, FreshWaits, TrackedKinds
  <2>3. UNCHANGED <<kind, args>> \/ \E k, ps : Creating(k, ps)
    BY DEF CoreSteps, KeepHeap, Clearing, Merging, Resolving
  <2> QED
    BY <2>2, <2>3
<1>4. kind[c] \in Chained /\ kind[c] \in Tracked
  BY <1>2, <1>3 DEF Chained, Tracked, WithUserCode
<1>5. PICK x \in Promises : x = args[c][1]
  BY <1>4 DEF CallbackInv, TrackedOK
<1>6. x \in Id /\ Outcome(c) = StateOf(x) /\ Outcome(c)' = StateOf(x)'
  BY <1>3, <1>5 DEF Outcome, Source, StateOf, Promises
<1>7. Outcome(c) # "Pending"
  BY <1>2, <1>3, <1>4, HandedOn, TrackedKinds
<1>8. PICK o \in Results : o = Outcome(c) /\ o = Outcome(c)'
  BY <1>6, <1>7, Settled, ResultKept
<1>9. SUFFICES StateOf(c)' = o \/ Meets(stack', {Resolve(c, o)})
  BY <1>8
<1>a. stack \in Seq(Frames) /\ Resolve(c, o) \in Frames
  BY FrameTypes DEF CoreType
<1>10. CASE Held(c)
  <2>1. Busy /\ c = Current /\ Top.res = o
    BY <1>2, <1>4, <1>8, <1>10, HeldMoves
  <2>2. Push(Remaining, Tail(stack)) \in Seq(Frames)
    BY <2>1, BusyParts, PushList
  <2>3. stack' = Push(Resolve(c, o), Push(Remaining, Tail(stack)))
    BY <1>2, <1>3, <1>4, <1>8, <2>1, ChainedSteps
  <2> QED
    BY <1>a, <2>2, <2>3, PushMeets
<1>11. CASE ~Held(c)
  <2>1. StateOf(c) = o \/ Meets(stack, {Resolve(c, o)})
    BY <1>2, <1>3, <1>4, <1>8, <1>11 DEF PassedOK, Passes
  <2>2. CASE StateOf(c) = o
    BY <2>2, ResultKept
  <2>3. CASE Meets(stack, {Resolve(c, o)})
    <3>1. stack # <<>>
      BY <2>3 DEF Meets
    <3>2. Top = Resolve(c, o) \/ Meets(Tail(stack), {Resolve(c, o)})
      BY <1>a, <2>3, <3>1, FineFirst DEF Top
    <3>3. CASE Meets(Tail(stack), {Resolve(c, o)})
      BY <3>1, <3>3, TailKept
    <3>4. CASE Top = Resolve(c, o)
      <4>1. Frame("resolve") /\ Top.c = c /\ Top.res = o
        BY <3>1, <3>4 DEF Frame, Top, Resolve
      <4>2. Pending(Top.c)
        BY <4>1 DEF Mistake
      <4>3. Resolving(rep[c], o)
        BY <4>1, <4>2, ResolveSteps
      <4> QED
        BY <4>3 DEF Resolving, StateOf, CoreType
    <3> QED
      BY <3>2, <3>3, <3>4
  <2> QED
    BY <2>1, <2>2, <2>3
<1> QED
  BY <1>10, <1>11

LEMMA ChainStart == Init => ChainInv
<1> SUFFICES ASSUME Init PROVE ChainInv
  OBVIOUS
<1>1. NamesOK
  BY DEF Init, NamesOK
<1>2. LiveOK
  BY DEF Init, LiveOK
<1>3. \A c \in Id : PassedOK(c)
  BY DEF Init, PassedOK, Passes, Chained, Sequential
<1> QED
  BY <1>1, <1>2, <1>3 DEF ChainInv

LEMMA ChainStutter ==
    ASSUME ChainInv, UNCHANGED vars
    PROVE  ChainInv'
<1>1. UNCHANGED <<program, kind, args, rep, state, stack, count, cell, deferred>>
  BY DEF vars, static, heap, loop
<1>2. Promises' = Promises /\ \A x : StateOf(x)' = StateOf(x)
  BY <1>1 DEF Promises, StateOf
<1>3. \A c : (Held(c)' <=> Held(c)) /\ Outcome(c)' = Outcome(c)
  BY <1>1 DEF Held, Stacked, Deferred, Outcome, Source
<1>4. \A c : Alive(c)' <=> Alive(c)
  BY <1>1, <1>3 DEF Alive, Waits, UsersOf, ResolvesOf
<1>5. \A c : PassedOK(c)' <=> PassedOK(c)
  BY <1>1, <1>2, <1>3 DEF PassedOK, Passes, Triggers, Resolve
<1> QED
  BY <1>1, <1>2, <1>4, <1>5 DEF ChainInv, NamesOK, LiveOK, Uncut

LEMMA ChainKept ==
    ASSUME CoreType, CoreType', CallbackInv, CancelInv, ResolveInv, CoreSteps, Next, ChainInv
    PROVE  ChainInv'
<1>0. program' = program /\ ClassesOK /\ NamesOK
  BY DEF Next, CancelInv, ChainInv
<1>1. NamesOK'
  BY <1>0, NamedKept
<1>2. ASSUME "protected" \notin program, Uncut PROVE LiveOK' /\ \A c \in Id : PassedOK(c)'
  <2>1. LiveOK /\ \A c \in Id : PassedOK(c)
    BY <1>2 DEF ChainInv
  <2>2. ~Mistake
    BY <1>2, NoMistake
  <2> QED
    BY <1>0, <1>2, <2>1, <2>2, LiveKept, PassedKept
<1> QED
  BY <1>0, <1>1, <1>2 DEF ChainInv, Uncut

(* The operations of the program make chains only.                         *)
OnlyChains == program \cap (Removable \cup {"join"}) = {}

(* At the top level nothing is held, so that what keeps a pending class    *)
(* alive is a resolver or a pending promise.                               *)
LEMMA ChainSuffices ==
    ASSUME CoreType, CallbackInv, DepthInv, CancelInv, ResolveInv, ChainInv, OnlyChains
    PROVE  NoLostCallback /\ CombinatorsAgree
<1>0. SUFFICES ASSUME Quiescent, Uncut PROVE NoLostCallback /\ CombinatorsAgree
  BY DEF NoLostCallback, CombinatorsAgree
<1>1. deferred = <<>> /\ stack = <<>>
  <2>1. stack = <<>> /\ Levels(stack, depth) /\ (deferred # <<>> => depth >= 1)
    BY <1>0 DEF DepthInv, Quiescent
  <2>2. depth \in Int /\ stack \in Seq(Frames)
    BY DEF CoreType
  <2>3. depth = 0
    BY <2>1, <2>2, LevelsPop
  <2> QED
    BY <2>1, <2>3
<1>2. /\ \A c : ~Held(c)
      /\ \A W : ~Meets(stack, W)
  BY <1>1, FineNothing DEF Held, Stacked, Deferred
<1>3. /\ NamesOK /\ LiveOK /\ (\A c \in Id : PassedOK(c)) /\ (\A c \in Id : DoneOK(c)) /\ KindOK /\ ClassesOK
  BY <1>0 DEF OnlyChains, Removable, ChainInv, ResolveInv, CancelInv
<1>4. \A c \in Id : kind[c] \notin Removable \cup {"join"}
  <2>1. "free" \notin Removable \cup {"join"}
    BY DEF Removable
  <2> QED
    BY <1>3, <2>1 DEF NamesOK, OnlyChains
<1>5. ASSUME NEW c \in Id, kind[c] \in Chained
      PROVE  /\ c \in Promises /\ DOMAIN args[c] = {1} /\ args[c][1] \in Promises
             /\ Outcome(c) = StateOf(args[c][1])
             /\ Outcome(c) = "Pending" => Pending(c) /\ AttachedTo(c, args[c][1])
             /\ Outcome(c) \in Results \cup {"Pending"}
             /\ /\ Outcome(c) \in Results
                /\ kind[c] = "no_cancel" \/ Outcome(c) \notin Triggers(kind[c])
                => StateOf(c) = Outcome(c)
  <2>1. kind[c] \in Tracked /\ kind[c] # "on_cancel" /\ kind[c] \in Makers
    BY <1>5 DEF Chained, Tracked, WithUserCode, Sequential, Makers
  <2>2. TrackedOK(c) /\ c \in Promises
    BY <1>3, <2>1 DEF CallbackInv, KindOK
  <2>3. DOMAIN args[c] = {1}
    BY <1>3, <1>5 DEF Chained, NamesOK, ClassesOK
  <2>4. args[c][1] \in Promises /\ Outcome(c) = StateOf(args[c][1])
    BY <2>2 DEF TrackedOK, Outcome, Source, StateOf
  <2>5. ASSUME Outcome(c) = "Pending" PROVE Pending(c) /\ AttachedTo(c, args[c][1])
    <3>1. Waits(c)
      BY <1>5, <2>5 DEF Waits, Chained
    <3>2. Pending(c)
      BY <1>3, <2>2, <3>1 DEF DoneOK
    <3>3. Source(c) \in Id /\ Attached(c, Source(c))
      BY <2>2, <2>4, <2>5 DEF TrackedOK, RunsOnce, CoreType, Source, Promises
    <3>4. In(regular[Source(c)], c)
      BY <2>1, <2>2, <3>3 DEF TrackedOK, AttachedOnce, Attached
    <3> QED
      BY <3>2, <3>4 DEF AttachedTo, In, Source
  <2>6. Outcome(c) \in Results \cup {"Pending"}
    BY <1>3, <2>4, Settled
  <2>7. ASSUME Outcome(c) \in Results, kind[c] = "no_cancel" \/ Outcome(c) \notin Triggers(kind[c])
        PROVE  StateOf(c) = Outcome(c)
    BY <1>2, <1>3, <1>5, <2>7 DEF PassedOK, Passes
  <2> QED
    BY <2>2, <2>3, <2>4, <2>5, <2>6, <2>7
<1>6. NoLostCallback
  <2>1. SUFFICES ASSUME NEW q \in Id, state[q] = "Pending"
                 PROVE  \E c \in Promises :
                           /\ rep[c] = q
                           /\ \/ kind[c] \in Initial
                              \/ /\ \E i \in DOMAIN args[c] : Pending(args[c][i])
                                 /\ \A i \in DOMAIN args[c] : Pending(args[c][i]) => AttachedTo(c, args[c][i])
                                 /\ kind[c] \in Removable => cell[c]
    BY DEF NoLostCallback
  <2>2. PICK c \in Promises : rep[c] = q /\ Alive(c)
    BY <1>3, <2>1 DEF LiveOK
  <2>3. c \in Id /\ kind[c] \notin Removable /\ kind[c] # "join"
    BY <1>4 DEF Promises
  <2>4. kind[c] \in Initial \/ (kind[c] \in Chained /\ Outcome(c) = "Pending")
    BY <1>2, <2>2, <2>3 DEF Alive, Waits, Lasting, Chained
  <2>5. ASSUME kind[c] \in Chained, Outcome(c) = "Pending"
        PROVE  DOMAIN args[c] = {1} /\ Pending(args[c][1]) /\ AttachedTo(c, args[c][1])
    BY <1>5, <2>3, <2>5 DEF Pending
  <2> QED
    BY <2>2, <2>3, <2>4, <2>5
<1>7. CombinatorsAgree
  <2>1. ASSUME NEW c \in Promises, kind[c] = "no_cancel" PROVE StateOf(c) = StateOf(args[c][1])
    BY <1>5, <2>1 DEF Promises, Chained, Pending
  <2>2. ASSUME NEW c \in Promises, kind[c] \in Sequential
        PROVE  /\ StateOf(args[c][1]) = "Pending" => Pending(c)
               /\ StateOf(args[c][1]) \in Results \ Triggers(kind[c]) => StateOf(c) = StateOf(args[c][1])
    BY <1>5, <2>2 DEF Promises, Chained
  <2>3. \A c \in Promises : kind[c] \notin {"join", "choose", "pick", "nchoose", "npick", "protected"}
    BY <1>4 DEF Promises, Removable
  <2> QED
    BY <2>1, <2>2, <2>3 DEF CombinatorsAgree
<1> QED
  BY <1>6, <1>7

(* The invariant of chains with those it rests on.                         *)
ChainsInv ==
    CoreType /\ CallbackInv /\ DepthInv /\ CancelInv /\ ResolveInv /\ ChainInv

LEMMA ChainsHold == Spec => []ChainsInv
<1>1. Init => ChainsInv
  BY CoreStart, CallbackStart, CancelStart, ResolveStart, ChainStart DEF ChainsInv
<1>2. ChainsInv /\ [Next]_vars => ChainsInv'
  <2>1. ASSUME ChainsInv, Next PROVE ChainsInv'
    <3>1. CoreSteps /\ program' = program
      BY <2>1, EveryStep DEF ChainsInv
    <3>2. CoreType'
      BY <2>1, <3>1, TypesKept DEF ChainsInv
    <3>3. CallbackInv' /\ DepthInv'
      BY <2>1, <3>1, <3>2, CallbacksKept, DepthKept DEF ChainsInv
    <3>4. CancelInv'
      BY <2>1, <3>1, <3>2, <3>3, CancelKept DEF ChainsInv
    <3>5. ResolveInv' /\ ChainInv'
      BY <2>1, <3>1, <3>2, <3>4, ResolveKept, ChainKept DEF ChainsInv
    <3> QED
      BY <3>2, <3>3, <3>4, <3>5 DEF ChainsInv
  <2>2. ASSUME ChainsInv, UNCHANGED vars PROVE ChainsInv'
    <3>1. CoreType'
      BY <2>2 DEF CoreType, vars, static, heap, loop, ChainsInv
    <3>2. CallbackInv' /\ DepthInv'
      BY <2>2, CallbackStutter DEF ChainsInv
    <3> QED
      BY <2>2, <3>1, <3>2, CancelStutter, ResolveStutter, ChainStutter DEF ChainsInv
  <2> QED
    BY <2>1, <2>2
<1> QED
  BY <1>1, <1>2, PTL DEF Spec

(* Between two calls of Lwt, every pending promise of a program that only  *)
(* chains (bind, map, catch, try_bind, no_cancel, observers) is one that   *)
(* user code can resolve, or has its callback in the list of the pending   *)
(* promise it waits for: through proxies, cancellations and nested or      *)
(* deferred resolutions, none is left behind.                              *)
THEOREM ChainsAreNotLost == Spec => [](OnlyChains => NoLostCallback)
<1>1. ChainsInv => (OnlyChains => NoLostCallback)
  BY ChainSuffices DEF ChainsInv
<1> QED
  BY <1>1, ChainsHold, PTL

(* Between two calls of Lwt, in such a program, a promise made by bind,    *)
(* map, catch or try_bind is pending while its argument is, and has the    *)
(* result of it if the function is not meant for this result; that of      *)
(* no_cancel has the state of its argument.                                *)
THEOREM ChainsAgree == Spec => [](OnlyChains => CombinatorsAgree)
<1>1. ChainsInv => (OnlyChains => CombinatorsAgree)
  BY ChainSuffices DEF ChainsInv
<1> QED
  BY <1>1, ChainsHold, PTL

=============================================================================
