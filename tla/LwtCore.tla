------------------------------ MODULE LwtCore ------------------------------
(***************************************************************************)
(* src/core/lwt.ml: promises, their callbacks, the resolution loop and     *)
(* cancellation.                                                           *)
(*                                                                         *)
(* The module is a machine with an explicit call stack.  Lwt is single     *)
(* threaded; what makes it hard is reentrancy: user code runs in the       *)
(* middle of Lwt's own functions (while callbacks are run, while a         *)
(* cancellation is propagated, while a list of promises is being canceled) *)
(* and may call Lwt again.  Every place where user code runs is a state of *)
(* this machine in which all the operations of the interface are possible, *)
(* and every stretch of lwt.ml between two such places is one or a few     *)
(* deterministic steps.                                                    *)
(*                                                                         *)
(* A promise that is resolved when it is created is only its result here:  *)
(* the interface applied to it runs the function at once or returns a      *)
(* result, and changes nothing (run_immediately_and_ensure_tail_call).     *)
(***************************************************************************)
EXTENDS Naturals, FiniteSets, Sequences

CONSTANTS N,          \* the number of promises and callbacks user code creates
          MaxArgs,    \* the length of the lists given to join, choose, pick...
          Throttle,   \* cleanup_throttle: 42 in the code
          Storages,   \* the values of sequence-associated storage; 0 is empty
          UserRes,    \* the results user code resolves promises with
          Programs    \* each one the operations that a program uses

ASSUME ConstantsAssumption ==
    /\ N \in Nat \ {0}
    /\ MaxArgs \in Nat
    /\ Throttle \in Nat
    /\ 0 \in Storages
    /\ UserRes \subseteq {"Fulfilled", "Rejected", "Canceled"}

Id == 1..N

(* Rejected stands for every exception but Canceled.                       *)
Results == {"Fulfilled", "Rejected", "Canceled"}

(* The kinds of promises and of callbacks.  A callback that resolves a     *)
(* promise has the name of this promise.                                   *)
Initial == {"wait", "task"}
Sequential == {"bind", "map", "catch", "try_bind"}
Observers == {"on_success", "on_failure", "on_any", "on_cancel", "async"}
Removable == {"choose", "pick", "nchoose", "npick", "protected"}
Kinds == Initial \cup Sequential \cup Observers \cup Removable
             \cup {"free", "join", "no_cancel"}

VARIABLES
    program,     \* the operations user code may use
    next,        \* the next free name
    kind,        \* kind[c]: what made c
    args,        \* args[c]: the promises c was given
    saved,       \* saved[c]: current_storage when c was made
    state,       \* state[p]: "none" for what is not a promise
    rep,         \* rep[p]: underlying p
    how,         \* how[p]: how_to_cancel of a pending promise
    regular,     \* regular[p]: its regular callbacks, first to run first
    cancels,     \* cancels[p]: its cancel callbacks
    cleanups,    \* cleanups[p]: cleanups_deferred
    cell,        \* cell[c]: does the cell of a removable callback hold it?
    count,       \* count[c]: number_pending_in_ps of a join
    joinRes,     \* joinRes[c]: join_result
    storage,     \* current_storage
    depth,       \* current_callback_nesting_depth
    deferred,    \* deferred_callbacks
    stack,       \* the calls in progress, innermost first
    runs,        \* history: how often user code ran for c
    confused     \* a resolved promise was taken for a pending one

static == <<kind, args, saved>>
heap == <<state, rep, how, regular, cancels, cleanups, cell, count, joinRes>>
loop == <<storage, depth, deferred, stack>>
vars == <<program, next, static, heap, loop, runs, confused>>

States == {"none", "Pending", "Proxy"} \cup Results

Cancelability == [kind : {"Not", "This", "Propagate"}, to : Seq(Id)]

(* The callbacks of a promise and the result it got.                       *)
Batch == [cans : Seq(Id), regs : Seq(Id), res : Results]

(* The calls in progress.  user: user code; with: with_value; run, leave:  *)
(* run_callbacks and the rest of run_in_resolution_loop; resolve: a call   *)
(* of resolve to come; clear: clear_explicitly_removable_callback_cell;    *)
(* traverse, phase2: the two phases of cancel; cancels: List.iter cancel;  *)
(* walk: nth_resolved_and_cancel_pending.                                  *)
Frames ==
    [k : {"user"}, c : Id, st : Storages]
    \cup [k : {"with"}, old : Storages, st : Storages]
    \cup [k : {"run"}, cans : Seq(Id), regs : Seq(Id), res : Results]
    \cup [k : {"leave"}, st : Storages]
    \cup [k : {"resolve"}, c : Id, res : Results]
    \cup [k : {"clear"}, c : Id, todo : Seq(Id)]
    \cup [k : {"traverse"}, root : Id, todo : Seq(Id), acc : Seq(Batch)]
    \cup [k : {"phase2"}, todo : Seq(Batch)]
    \cup [k : {"cancels"}, todo : Seq(Id)]
    \cup [k : {"walk"}, todo : Seq(Id), n : 0..MaxArgs]

TypeOK ==
    /\ next \in 1..(N + 1)
    /\ kind \in [Id -> Kinds]
    /\ args \in [Id -> Seq(Id)]
    /\ saved \in [Id -> Storages]
    /\ state \in [Id -> States]
    /\ rep \in [Id -> Id]
    /\ how \in [Id -> Cancelability]
    /\ regular \in [Id -> Seq(Id)]
    /\ cancels \in [Id -> Seq(Id)]
    /\ cleanups \in [Id -> Nat]
    /\ cell \in [Id -> BOOLEAN]
    /\ count \in [Id -> Nat]
    /\ joinRes \in [Id -> Results]
    /\ storage \in Storages
    /\ depth \in Nat
    /\ deferred \in Seq(Batch)
    /\ stack \in Seq(Frames)
    /\ runs \in [Id -> Nat]
    /\ confused \in BOOLEAN

NotCancelable == [kind |-> "Not", to |-> <<>>]
CancelThis == [kind |-> "This", to |-> <<>>]
PropagateTo(ps) == [kind |-> "Propagate", to |-> ps]

Init ==
    /\ program \in Programs
    /\ next = 1
    /\ kind = [c \in Id |-> "free"]
    /\ args = [c \in Id |-> <<>>]
    /\ saved = [c \in Id |-> 0]
    /\ state = [c \in Id |-> "none"]
    /\ rep = [c \in Id |-> c]
    /\ how = [c \in Id |-> NotCancelable]
    /\ regular = [c \in Id |-> <<>>]
    /\ cancels = [c \in Id |-> <<>>]
    /\ cleanups = [c \in Id |-> 0]
    /\ cell = [c \in Id |-> FALSE]
    /\ count = [c \in Id |-> 0]
    /\ joinRes = [c \in Id |-> "Fulfilled"]
    /\ storage = 0
    /\ depth = 0
    /\ deferred = <<>>
    /\ stack = <<>>
    /\ runs = [c \in Id |-> 0]
    /\ confused = FALSE
-----------------------------------------------------------------------------
(* Reading promises                                                        *)

Promises == {p \in Id : state[p] # "none"}

(* The state seen through the interface.                                   *)
StateOf(p) == state[rep[p]]
Pending(p) == StateOf(p) = "Pending"

Rejections(ps) == {i \in DOMAIN ps : StateOf(ps[i]) \in {"Rejected", "Canceled"}}

(* The result of a list of promises: its first rejection, if any.          *)
FirstRejection(ps) ==
    IF Rejections(ps) = {}
    THEN "Fulfilled"
    ELSE StateOf(ps[CHOOSE i \in Rejections(ps) : \A j \in Rejections(ps) : i <= j])

(* The results for which a callback runs user code.                        *)
Triggers(k) ==
    CASE k \in {"bind", "map", "on_success"} -> {"Fulfilled"}
      [] k \in {"catch", "on_failure", "async"} -> {"Rejected", "Canceled"}
      [] k = "on_cancel" -> {"Canceled"}
      [] OTHER -> Results

(* clean_up_callback_cells drops the cells that have been cleared: the     *)
(* j-th of the others becomes the j-th of all.                             *)
clean_up_callback_cells(cs) ==
    LET kept == {i \in DOMAIN cs : kind[cs[i]] \in Removable => cell[cs[i]]}
        place(i) == Cardinality({h \in kept : h <= i})
    IN  [j \in 1..Cardinality(kept) |-> cs[CHOOSE i \in kept : place(i) = j]]

Frame(k) == stack # <<>> /\ Head(stack).k = k
Top == Head(stack)
Call(fs) == stack' = fs \o stack
Become(fs) == stack' = fs \o Tail(stack)

(* User code is running: at top level, in a callback, or in with_value.    *)
UserTurn == stack = <<>> \/ Frame("user") \/ Frame("with")
-----------------------------------------------------------------------------
(* Creating promises and attaching callbacks                               *)

UserOp(op) == op \in program /\ UserTurn

New(k, ps) ==
    /\ next <= N
    /\ next' = next + 1
    /\ kind' = [kind EXCEPT ![next] = k]
    /\ args' = [args EXCEPT ![next] = ps]
    /\ saved' = [saved EXCEPT ![next] = storage]

new_pending(h) ==
    /\ state' = [state EXCEPT ![next] = "Pending"]
    /\ how' = [how EXCEPT ![next] = h]

(* How many of the promises ps are, behind their proxies, the pending q.   *)
Occurrences(ps, q) ==
    Cardinality({i \in DOMAIN ps : rep[ps[i]] = q /\ state[q] = "Pending"})

(* The new callback is put in front of the callbacks of each of ps.        *)
add_callback(ps) ==
    regular' = [q \in Id |-> [i \in 1..Occurrences(ps, q) |-> next] \o regular[q]]

new_initial(k, h) ==
    /\ UserOp(k)
    /\ New(k, <<>>)
    /\ new_pending(h)
    /\ UNCHANGED <<rep, regular, cancels, cleanups, cell, count, joinRes,
                   loop, runs, confused>>

wait == new_initial("wait", NotCancelable)
task == new_initial("task", CancelThis)

(* bind, map, catch and try_bind on a pending promise.                     *)
sequential(k, p) ==
    /\ UserOp(k)
    /\ p \in Promises /\ Pending(p)
    /\ New(k, <<p>>)
    /\ new_pending(PropagateTo(<<rep[p]>>))
    /\ add_callback(<<p>>)
    /\ UNCHANGED <<rep, cancels, cleanups, cell, count, joinRes,
                   loop, runs, confused>>

bind(p) == sequential("bind", p)
map(p) == sequential("map", p)
catch(p) == sequential("catch", p)
try_bind(p) == sequential("try_bind", p)

(* A callback that resolves no promise.                                    *)
observe(k, p) ==
    /\ UserOp(k)
    /\ p \in Promises /\ Pending(p)
    /\ New(k, <<p>>)
    /\ add_callback(<<p>>)
    /\ UNCHANGED <<state, rep, how, cancels, cleanups, cell, count, joinRes,
                   loop, runs, confused>>

on_success(p) == observe("on_success", p)
on_failure(p) == observe("on_failure", p)
on_any(p) == observe("on_any", p)     \* and on_termination

(* async, dont_wait and ignore_result: the function is the exception hook. *)
async(p) == observe("async", p)

on_cancel(p) ==
    /\ UserOp("on_cancel")
    /\ p \in Promises /\ Pending(p)
    /\ New("on_cancel", <<p>>)
    /\ cancels' = [cancels EXCEPT ![rep[p]] = <<next>> \o @]
    /\ UNCHANGED <<state, rep, how, regular, cleanups, cell, count, joinRes,
                   loop, runs, confused>>

no_cancel(p) ==
    /\ UserOp("no_cancel")
    /\ p \in Promises /\ Pending(p)
    /\ New("no_cancel", <<p>>)
    /\ new_pending(NotCancelable)
    /\ add_callback(<<p>>)
    /\ UNCHANGED <<rep, cancels, cleanups, cell, count, joinRes,
                   loop, runs, confused>>

\* Mutant: cancellation goes through to p.
protected_propagate(p) ==
    /\ UserOp("protected")
    /\ p \in Promises /\ Pending(p)
    /\ New("protected", <<p>>)
    /\ new_pending(PropagateTo(<<p>>))
    /\ add_callback(<<p>>)
    /\ cell' = [cell EXCEPT ![next] = TRUE]
    /\ cancels' = [cancels EXCEPT ![next] = <<next>>]
    /\ UNCHANGED <<rep, cleanups, count, joinRes, loop, runs, confused>>

(* The cancel callback of a protected promise clears its cell on p.        *)
protected(p) ==
    /\ UserOp("protected")
    /\ p \in Promises /\ Pending(p)
    /\ New("protected", <<p>>)
    /\ new_pending(CancelThis)
    /\ add_callback(<<p>>)
    /\ cell' = [cell EXCEPT ![next] = TRUE]
    /\ cancels' = [cancels EXCEPT ![next] = <<next>>]
    /\ UNCHANGED <<rep, cleanups, count, joinRes, loop, runs, confused>>

\* Mutant: the promises that are already resolved are counted as well.
join_count_all(ps) ==
    /\ UserOp("join")
    /\ \E i \in DOMAIN ps : Pending(ps[i])
    /\ New("join", ps)
    /\ new_pending(PropagateTo(ps))
    /\ add_callback(ps)
    /\ count' = [count EXCEPT ![next] = Len(ps)]
    /\ joinRes' = [joinRes EXCEPT ![next] = FirstRejection(ps)]
    /\ UNCHANGED <<rep, cancels, cleanups, cell, loop, runs, confused>>

join(ps) ==
    /\ UserOp("join")
    /\ \E i \in DOMAIN ps : Pending(ps[i])
    /\ New("join", ps)
    /\ new_pending(PropagateTo(ps))
    /\ add_callback(ps)
    /\ count' = [count EXCEPT
                    ![next] = Cardinality({i \in DOMAIN ps : Pending(ps[i])})]
    /\ joinRes' = [joinRes EXCEPT ![next] = FirstRejection(ps)]
    /\ UNCHANGED <<rep, cancels, cleanups, cell, loop, runs, confused>>

(* A race between promises that are all pending.                           *)
race(k, ps) ==
    /\ UserOp(k)
    /\ \A i \in DOMAIN ps : Pending(ps[i])
    /\ New(k, ps)
    /\ new_pending(PropagateTo(ps))
    /\ add_callback(ps)
    /\ cell' = [cell EXCEPT ![next] = TRUE]
    /\ UNCHANGED <<rep, cancels, cleanups, count, joinRes, loop, runs, confused>>

choose(ps) == race("choose", ps)
pick(ps) == race("pick", ps)
nchoose(ps) == race("nchoose", ps)    \* and nchoose_split
npick(ps) == race("npick", ps)
-----------------------------------------------------------------------------
(* Calls that resolve or cancel                                            *)

Fulfillments(ps) == {i \in DOMAIN ps : StateOf(ps[i]) = "Fulfilled"}

(* pick finds some of ps already resolved: it cancels the others, all at   *)
(* once if one is rejected, or else on the way to the n-th resolved one.   *)
pick_now(ps) ==
    /\ UserOp("pick")
    /\ \E i \in DOMAIN ps : ~Pending(ps[i])
    /\ IF Rejections(ps) # {}
       THEN Call(<<[k |-> "cancels", todo |-> ps]>>)
       ELSE \E n \in 1..Cardinality(Fulfillments(ps)) :
                Call(<<[k |-> "walk", todo |-> ps, n |-> n - 1]>>)
    /\ UNCHANGED <<next, static, heap, storage, depth, deferred, runs, confused>>

npick_now(ps) ==
    /\ UserOp("npick")
    /\ \E i \in DOMAIN ps : ~Pending(ps[i])
    /\ Call(<<[k |-> "cancels", todo |-> ps]>>)
    /\ UNCHANGED <<next, static, heap, storage, depth, deferred, runs, confused>>

CallbacksOf(p, r) ==
    [cans |-> IF r = "Canceled" THEN cancels[p] ELSE <<>>,
     regs |-> regular[p], res |-> r]

(* p gets its result; its record of callbacks is reachable only from the   *)
(* caller from now on.                                                     *)
set_promise_state(p, r) ==
    /\ state' = [state EXCEPT ![p] = r]
    /\ how' = [how EXCEPT ![p] = NotCancelable]
    /\ regular' = [regular EXCEPT ![p] = <<>>]
    /\ cancels' = [cancels EXCEPT ![p] = <<>>]
    /\ cleanups' = [cleanups EXCEPT ![p] = 0]

RunFrame(b) == [k |-> "run", cans |-> b.cans, regs |-> b.regs, res |-> b.res]

(* run_in_resolution_loop: what is called, and what remains of it.         *)
EnterLoop(b) == <<RunFrame(b), [k |-> "leave", st |-> storage]>>

(* A resolver of p is used.  On a promise that is not pending any more it  *)
(* does nothing or raises Invalid_argument.                                *)
Resolvable(p) == p \in Promises /\ kind[p] \in Initial /\ Pending(p)

wakeup(p, r) ==
    /\ UserOp("wakeup")
    /\ Resolvable(p)
    /\ set_promise_state(rep[p], r)
    /\ depth' = depth + 1
    /\ Call(EnterLoop(CallbacksOf(rep[p], r)))
    /\ UNCHANGED <<next, static, rep, cell, count, joinRes, storage, deferred,
                   runs, confused>>

(* From within a callback, the callbacks of p are deferred.                *)
wakeup_later(p, r) ==
    /\ UserOp("wakeup_later")
    /\ Resolvable(p)
    /\ set_promise_state(rep[p], r)
    /\ IF depth >= 1
       THEN /\ deferred' = Append(deferred, CallbacksOf(rep[p], r))
            /\ UNCHANGED <<depth, stack>>
       ELSE /\ depth' = depth + 1
            /\ Call(EnterLoop(CallbacksOf(rep[p], r)))
            /\ UNCHANGED deferred
    /\ UNCHANGED <<next, static, rep, cell, count, joinRes, storage, runs,
                   confused>>

Traversal(p) == [k |-> "traverse", root |-> p, todo |-> <<p>>, acc |-> <<>>]

cancel(p) ==
    /\ UserOp("cancel")
    /\ p \in Promises /\ Pending(p)
    /\ Call(<<Traversal(p)>>)
    /\ UNCHANGED <<next, static, heap, storage, depth, deferred, runs, confused>>

(* with_value: f runs with another storage.  (One with_value directly in   *)
(* another is left out: it would make the stack unbounded.)                *)
with_value(v) ==
    /\ UserOp("with_value")
    /\ ~Frame("with")
    /\ v # storage
    /\ Call(<<[k |-> "with", old |-> storage, st |-> v]>>)
    /\ storage' = v
    /\ UNCHANGED <<next, static, heap, depth, deferred, runs, confused>>

with_value_return ==
    /\ Frame("with")
    /\ storage' = Top.old
    /\ Become(<<>>)
    /\ UNCHANGED <<next, static, heap, depth, deferred, runs, confused>>

(* At exit, in the middle of callbacks: they never resume.                 *)
abandon_wakeups ==
    /\ UserOp("abandon_wakeups")
    /\ depth # 0
    /\ stack' = <<[k |-> "leave", st |-> 0]>>
    /\ UNCHANGED <<next, static, heap, storage, depth, deferred, runs, confused>>
-----------------------------------------------------------------------------
(* User code returns from a callback                                       *)

InUserOf(ks) == Frame("user") /\ kind[Top.c] \in ks

(* on_any and the like, and the exception hook.                            *)
return_unit ==
    /\ InUserOf(Observers)
    /\ Become(<<>>)
    /\ UNCHANGED <<next, static, heap, storage, depth, deferred, runs, confused>>

(* The exception hook, called directly or for an exception of an observer, *)
(* raises: the exception passes through Lwt's own code up to the user code *)
(* that called it.                                                         *)
UserFrames == {i \in DOMAIN stack : stack[i].k \in {"user", "with"}}

hook_raises ==
    /\ UserOp("raise")
    /\ InUserOf(Observers)
    /\ LET outer == UserFrames \ {1}
       IN  stack' = IF outer = {} THEN <<>>
                    ELSE LET i == CHOOSE i \in outer : \A j \in outer : i <= j
                         IN  SubSeq(stack, i, Len(stack))
    /\ UNCHANGED <<next, static, heap, storage, depth, deferred, runs, confused>>

(* The function given to bind, map, ... raises (Rejected), or returns a    *)
(* value or a resolved promise.                                            *)
return_result(r) ==
    /\ InUserOf(Sequential)
    /\ Become(<<[k |-> "resolve", c |-> Top.c, res |-> r]>>)
    /\ UNCHANGED <<next, static, heap, storage, depth, deferred, runs, confused>>

(* p waits for q: a program in which a promise waits for itself is wrong,  *)
(* and canceling such a promise would not end.                             *)
WaitsFor(q) == UNION {{rep[args[c][i]] : i \in DOMAIN args[c]} :
                          c \in {c \in Promises : rep[c] = q}}
DependsOn(p, q) ==
    \A S \in SUBSET Id :
        (p \in S /\ \A x \in S : WaitsFor(x) \subseteq S) => q \in S

\* Mutant: the callbacks of the promise that becomes a proxy are lost.
Merge_drop(p, outer) ==
    /\ regular' = [regular EXCEPT ![p] = <<>>]
    /\ cancels' = [cancels EXCEPT ![outer] = @ \o cancels[p], ![p] = <<>>]
    /\ how' = [how EXCEPT ![outer] = how[p], ![p] = NotCancelable]
    /\ state' = [state EXCEPT ![p] = "Proxy"]
    /\ rep' = [q \in Id |-> IF rep[q] = p THEN outer ELSE rep[q]]
    /\ UNCHANGED cleanups

(* make_into_proxy on a pending promise.                                   *)
Merge(p, outer) ==
    LET all == regular[outer] \o regular[p]
        sum == cleanups[outer] + cleanups[p]
    IN  /\ regular' = [regular EXCEPT
               ![outer] = IF sum > Throttle THEN clean_up_callback_cells(all)
                                            ELSE all,
               ![p] = <<>>]
        /\ cleanups' = [cleanups EXCEPT
               ![outer] = IF sum > Throttle THEN 0 ELSE sum, ![p] = 0]
        /\ cancels' = [cancels EXCEPT ![outer] = @ \o cancels[p], ![p] = <<>>]
        /\ how' = [how EXCEPT ![outer] = how[p], ![p] = NotCancelable]
        /\ state' = [state EXCEPT ![p] = "Proxy"]
        /\ rep' = [q \in Id |-> IF rep[q] = p THEN outer ELSE rep[q]]

(* The function returns the pending promise p: it becomes a proxy of the   *)
(* result promise.                                                         *)
return_promise(p) ==
    /\ InUserOf(Sequential \ {"map"})
    /\ p \in Promises /\ Pending(p)
    /\ ~DependsOn(rep[p], rep[Top.c])
    /\ IF Pending(Top.c)
       THEN Merge(rep[p], rep[Top.c]) /\ UNCHANGED confused
       ELSE confused' = TRUE
            /\ UNCHANGED <<state, rep, how, regular, cancels, cleanups>>
    /\ Become(<<>>)
    /\ UNCHANGED <<next, static, cell, count, joinRes, storage, depth, deferred,
                   runs>>
-----------------------------------------------------------------------------
(* The steps of Lwt's own code                                             *)

RunUser(c, st, rest) ==
    /\ storage' = st
    /\ stack' = <<[k |-> "user", c |-> c, st |-> st], rest>> \o Tail(stack)
    /\ runs' = [runs EXCEPT ![c] = @ + 1]

(* run_cancel_callbacks: they restore their storage.                       *)
run_cancel_callback ==
    /\ Frame("run") /\ Top.cans # <<>>
    /\ LET c == Head(Top.cans)
           rest == [Top EXCEPT !.cans = Tail(@)]
       IN  \/ /\ kind[c] = "on_cancel"
              /\ RunUser(c, saved[c], rest)
              /\ UNCHANGED cell
           \/ /\ kind[c] = "protected"
              /\ storage' = saved[c]
              /\ cell' = [cell EXCEPT ![c] = FALSE]
              /\ Become(<<[k |-> "clear", c |-> c, todo |-> args[c]], rest>>)
              /\ UNCHANGED runs
    /\ UNCHANGED <<next, static, state, rep, how, regular, cancels, cleanups,
                   count, joinRes, depth, deferred, confused>>

NextCallback == Head(Top.regs)
RestOfRun == [Top EXCEPT !.regs = Tail(@)]
Running(ks) == /\ Frame("run") /\ Top.cans = <<>> /\ Top.regs # <<>>
               /\ kind[NextCallback] \in ks

(* A regular callback that is interested in the result runs user code; the *)
(* exception hook does not restore a storage.                              *)
run_user_callback ==
    /\ Running(Sequential \cup Observers)
    /\ Top.res \in Triggers(kind[NextCallback])
    /\ RunUser(NextCallback,
               IF kind[NextCallback] = "async" THEN storage ELSE saved[NextCallback],
               RestOfRun)
    /\ UNCHANGED <<next, static, heap, depth, deferred, confused>>

(* The others pass it on, or ignore it.                                    *)
run_passing_callback ==
    /\ Running(Sequential \cup Observers \cup {"no_cancel"})
    /\ kind[NextCallback] = "no_cancel" \/ Top.res \notin Triggers(kind[NextCallback])
    /\ Become((IF kind[NextCallback] \in Observers THEN <<>>
               ELSE <<[k |-> "resolve", c |-> NextCallback, res |-> Top.res]>>)
              \o <<RestOfRun>>)
    /\ UNCHANGED <<next, static, heap, storage, depth, deferred, runs, confused>>

\* Mutant: the last result wins.
run_join_callback_last ==
    /\ Running({"join"})
    /\ LET c == NextCallback
       IN  /\ joinRes' = [joinRes EXCEPT ![c] = Top.res]
           /\ count' = [count EXCEPT ![c] = @ - 1]
           /\ Become((IF count[c] = 1
                      THEN <<[k |-> "resolve", c |-> c, res |-> Top.res]>>
                      ELSE <<>>) \o <<RestOfRun>>)
    /\ UNCHANGED <<next, static, state, rep, how, regular, cancels, cleanups,
                   cell, storage, depth, deferred, runs, confused>>

run_join_callback ==
    /\ Running({"join"})
    /\ LET c == NextCallback
           res == IF joinRes[c] = "Fulfilled" THEN Top.res ELSE joinRes[c]
       IN  /\ joinRes' = [joinRes EXCEPT ![c] = res]
           /\ count' = [count EXCEPT ![c] = @ - 1]
           /\ Become((IF count[c] = 1
                      THEN <<[k |-> "resolve", c |-> c, res |-> res]>>
                      ELSE <<>>) \o <<RestOfRun>>)
    /\ UNCHANGED <<next, static, state, rep, how, regular, cancels, cleanups,
                   cell, storage, depth, deferred, runs, confused>>

\* Mutant: the callback does not remove itself from the other promises.
run_removable_callback_keep ==
    /\ Running(Removable)
    /\ LET c == NextCallback
       IN  Become((IF kind[c] \in {"pick", "npick"}
                   THEN <<[k |-> "cancels", todo |-> args[c]]>> ELSE <<>>)
                  \o <<[k |-> "resolve", c |-> c, res |-> Top.res], RestOfRun>>)
    /\ UNCHANGED <<next, static, heap, storage, depth, deferred, runs, confused>>

(* A removable callback: nothing if its cell is cleared; otherwise it      *)
(* clears the cell, and then cancels (pick, npick) and resolves.           *)
run_removable_callback ==
    /\ Running(Removable)
    /\ LET c == NextCallback
           res == IF kind[c] \in {"nchoose", "npick"}
                  THEN FirstRejection(args[c]) ELSE Top.res
           canceling == IF kind[c] \in {"pick", "npick"}
                        THEN <<[k |-> "cancels", todo |-> args[c]]>> ELSE <<>>
       IN  /\ Become(IF cell[c]
                     THEN <<[k |-> "clear", c |-> c, todo |-> args[c]]>>
                          \o canceling
                          \o <<[k |-> "resolve", c |-> c, res |-> res], RestOfRun>>
                     ELSE <<RestOfRun>>)
           /\ cell' = [cell EXCEPT ![c] = FALSE]
    /\ UNCHANGED <<next, static, state, rep, how, regular, cancels, cleanups,
                   count, joinRes, storage, depth, deferred, runs, confused>>

run_done ==
    /\ Frame("run") /\ Top.cans = <<>> /\ Top.regs = <<>>
    /\ Become(<<>>)
    /\ UNCHANGED <<next, static, heap, storage, depth, deferred, runs, confused>>

(* clear_explicitly_removable_callback_cell, for the next promise c was    *)
(* added to.                                                               *)
OnlyRemovable(q) == Len(regular[q]) = 1 /\ kind[Head(regular[q])] \in Removable

ClearOn(q) ==
    IF OnlyRemovable(q)
    THEN regular' = [regular EXCEPT ![q] = <<>>] /\ UNCHANGED cleanups
    ELSE IF cleanups[q] + 1 > Throttle
    THEN /\ cleanups' = [cleanups EXCEPT ![q] = 0]
         /\ regular' = [regular EXCEPT ![q] = clean_up_callback_cells(@)]
    ELSE cleanups' = [cleanups EXCEPT ![q] = @ + 1] /\ UNCHANGED regular

clear_step ==
    /\ Frame("clear")
    /\ IF Top.todo # <<>> /\ Pending(Head(Top.todo))
       THEN ClearOn(rep[Head(Top.todo)])
       ELSE UNCHANGED <<regular, cleanups>>
    /\ Become(IF Top.todo = <<>> THEN <<>> ELSE <<[Top EXCEPT !.todo = Tail(@)]>>)
    /\ UNCHANGED <<next, static, state, rep, how, cancels, cell, count, joinRes,
                   storage, depth, deferred, runs, confused>>

(* resolve ~allow_deferring:false; `let Pending callbacks = p.state' is    *)
(* checked by nothing.                                                     *)
resolve_step ==
    /\ Frame("resolve")
    /\ LET p == rep[Top.c]
       IN  IF state[p] = "Pending"
           THEN /\ set_promise_state(p, Top.res)
                /\ depth' = depth + 1
                /\ Become(EnterLoop(CallbacksOf(p, Top.res)))
                /\ UNCHANGED confused
           ELSE /\ confused' = TRUE
                /\ UNCHANGED <<state, how, regular, cancels, cleanups, depth, stack>>
    /\ UNCHANGED <<next, static, rep, cell, count, joinRes, storage, deferred,
                   runs>>

\* Mutant: the storage is not restored.
leave_step_keep_storage ==
    /\ Frame("leave")
    /\ IF depth = 1 /\ deferred # <<>>
       THEN /\ Call(<<RunFrame(Head(deferred))>>)
            /\ deferred' = Tail(deferred)
            /\ UNCHANGED depth
       ELSE /\ Become(<<>>)
            /\ depth' = depth - 1
            /\ UNCHANGED deferred
    /\ UNCHANGED <<next, static, heap, storage, runs, confused>>

(* leave_resolution_loop: the outermost one runs the deferred callbacks.   *)
leave_step ==
    /\ Frame("leave")
    /\ IF depth = 1 /\ deferred # <<>>
       THEN /\ Call(<<RunFrame(Head(deferred))>>)
            /\ deferred' = Tail(deferred)
            /\ UNCHANGED <<depth, storage>>
       ELSE /\ Become(<<>>)
            /\ depth' = depth - 1
            /\ storage' = Top.st
            /\ UNCHANGED deferred
    /\ UNCHANGED <<next, static, heap, runs, confused>>

(* cancel_and_collect_callbacks on the next promise.                       *)
traverse_step ==
    /\ Frame("traverse") /\ Top.todo # <<>>
    /\ LET p == rep[Head(Top.todo)]
           rest == Tail(Top.todo)
       IN  IF state[p] # "Pending" \/ how[p].kind = "Not"
           THEN /\ Become(<<[Top EXCEPT !.todo = rest]>>)
                /\ UNCHANGED <<state, how, regular, cancels, cleanups>>
           ELSE IF how[p].kind = "This"
           THEN /\ set_promise_state(p, "Canceled")
                /\ Become(<<[Top EXCEPT !.todo = rest,
                             !.acc = <<CallbacksOf(p, "Canceled")>> \o @]>>)
           ELSE /\ Become(<<[Top EXCEPT !.todo = how[p].to \o rest]>>)
                /\ UNCHANGED <<state, how, regular, cancels, cleanups>>
    /\ UNCHANGED <<next, static, rep, cell, count, joinRes, storage, depth,
                   deferred, runs, confused>>

(* Then the callbacks of the promises found run, last found first.         *)
traverse_done ==
    /\ Frame("traverse") /\ Top.todo = <<>>
    /\ Become(<<[k |-> "phase2", todo |-> Top.acc]>>)
    /\ UNCHANGED <<next, static, heap, storage, depth, deferred, runs, confused>>

phase2_step ==
    /\ Frame("phase2")
    /\ IF Top.todo = <<>>
       THEN Become(<<>>) /\ UNCHANGED depth
       ELSE /\ depth' = depth + 1
            /\ Become(EnterLoop(Head(Top.todo))
                      \o <<[Top EXCEPT !.todo = Tail(@)]>>)
    /\ UNCHANGED <<next, static, heap, storage, deferred, runs, confused>>

(* List.iter cancel ps                                                     *)
cancels_step ==
    /\ Frame("cancels")
    /\ Become(IF Top.todo = <<>> THEN <<>>
              ELSE <<Traversal(Head(Top.todo)), [Top EXCEPT !.todo = Tail(@)]>>)
    /\ UNCHANGED <<next, static, heap, storage, depth, deferred, runs, confused>>

(* nth_resolved_and_cancel_pending; at the end of the list: assert false.  *)
WalkAhead == Frame("walk") /\ Top.todo # <<>>
WalkFinds == WalkAhead /\ ~Pending(Head(Top.todo)) /\ Top.n = 0

walk_step ==
    /\ Frame("walk")
    /\ IF Top.todo = <<>>
       THEN confused' = TRUE /\ UNCHANGED stack
       ELSE /\ LET rest == [Top EXCEPT !.todo = Tail(@)]
               IN  \/ /\ Pending(Head(Top.todo))
                      /\ Become(<<Traversal(Head(Top.todo)), rest>>)
                  \/ /\ WalkFinds
                      /\ Become(<<[k |-> "cancels", todo |-> rest.todo]>>)
                  \/ /\ ~Pending(Head(Top.todo)) /\ Top.n > 0
                      /\ Become(<<[rest EXCEPT !.n = @ - 1]>>)
            /\ UNCHANGED confused
    /\ UNCHANGED <<next, static, heap, storage, depth, deferred, runs>>
-----------------------------------------------------------------------------
(* Lists of one length.  One that names a promise twice stands for shorter *)
(* ones as well, though clear_explicitly_removable_callback_cell goes over *)
(* such a promise twice (SoleCellIsCleared).                               *)
Lists == [1..MaxArgs -> Promises]

Create ==
    \/ wait \/ task
    \/ \E p \in Id :
           \/ bind(p) \/ map(p) \/ catch(p) \/ try_bind(p)
           \/ on_success(p) \/ on_failure(p) \/ on_any(p) \/ async(p)
           \/ on_cancel(p) \/ no_cancel(p) \/ protected(p)
    \/ \E ps \in Lists :
           \/ join(ps) \/ choose(ps) \/ pick(ps) \/ nchoose(ps) \/ npick(ps)

Act ==
    \/ \E ps \in Lists : pick_now(ps) \/ npick_now(ps)
    \/ \E p \in Id, r \in UserRes : wakeup(p, r) \/ wakeup_later(p, r)
    \/ \E p \in Id : cancel(p)
    \/ \E v \in Storages : with_value(v)
    \/ abandon_wakeups

Return ==
    \/ with_value_return
    \/ return_unit
    \/ hook_raises
    \/ \E r \in UserRes : return_result(r)
    \/ \E p \in Id : return_promise(p)

LwtStep ==
    \/ run_cancel_callback \/ run_user_callback \/ run_passing_callback
    \/ run_join_callback \/ run_removable_callback \/ run_done
    \/ clear_step \/ resolve_step \/ leave_step
    \/ traverse_step \/ traverse_done \/ phase2_step
    \/ cancels_step \/ walk_step

Next ==
    /\ ~confused
    /\ Create \/ Act \/ Return \/ LwtStep
    /\ UNCHANGED program

(* Lwt's own code is sequential and does not stop by itself.  Nothing is   *)
(* assumed of user code.                                                   *)
Spec == Init /\ [][Next]_vars /\ WF_vars(~confused /\ LwtStep /\ UNCHANGED program)
-----------------------------------------------------------------------------
(* What must hold                                                          *)

Quiescent == stack = <<>>

(* No exception of a hook and no exit cuts resolution loops short.         *)
Uncut == program \cap {"raise", "abandon_wakeups"} = {}

(* The argument at may_now_be_proxy (lwt.ml:666): when a callback resolves *)
(* its promise, or makes another one a proxy of it, that promise is still  *)
(* pending; and the walk of pick always finds a resolved promise.          *)
NoTypeConfusion == ~confused

(* Whatever callbacks a call runs, user code finds after it the storage    *)
(* that it had before, unless the exception hook raises in a callback that *)
(* was attached within a with_value.                                       *)
StorageRestored ==
    ~({"raise", "with_value"} \subseteq program) /\ UserTurn =>
        storage = IF stack = <<>> THEN 0 ELSE Top.st

(* User code attached to a promise runs once, in the end, if and only if   *)
(* the promise is resolved with a result it was attached for.              *)
CallbacksRunOnce ==
    \A c \in Id : kind[c] \in Sequential \cup Observers =>
        /\ runs[c] <= 1
        /\ Quiescent /\ Uncut =>
               (runs[c] = 1 <=> StateOf(args[c][1]) \in Triggers(kind[c]))

AttachedTo(c, p) == \E i \in DOMAIN regular[rep[p]] : regular[rep[p]][i] = c

(* Between two calls of Lwt, every pending promise is one that user code   *)
(* can resolve, or waits for pending promises that will run its callback.  *)
NoLostCallback ==
    Quiescent /\ Uncut =>
        \A q \in Id : state[q] = "Pending" =>
            \E c \in Promises :
                /\ rep[c] = q
                /\ \/ kind[c] \in Initial
                   \/ /\ \E i \in DOMAIN args[c] : Pending(args[c][i])
                      /\ \A i \in DOMAIN args[c] :
                             Pending(args[c][i]) => AttachedTo(c, args[c][i])
                      /\ kind[c] \in Removable => cell[c]

(* Between two calls of Lwt, the promises made from others have the state  *)
(* that the interface promises.                                            *)
CombinatorsAgree ==
    Quiescent /\ Uncut =>
        \A c \in Promises :
            LET ps == args[c]
                Some(t) == \E i \in DOMAIN ps : StateOf(ps[i]) = t
                Only(t) == \A i \in DOMAIN ps : StateOf(ps[i]) = t
            IN  /\ kind[c] = "join" =>
                       /\ Pending(c) <=> Some("Pending")
                       /\ StateOf(c) = "Fulfilled" <=> Only("Fulfilled")
                /\ kind[c] \in {"choose", "pick", "nchoose", "npick"} =>
                       /\ Pending(c) <=> Only("Pending")
                       /\ StateOf(c) = "Rejected" => Some("Rejected")
                       /\ StateOf(c) = "Canceled" => Some("Canceled")
                       /\ StateOf(c) = "Fulfilled" => Some("Fulfilled")
                /\ kind[c] = "no_cancel" => StateOf(c) = StateOf(ps[1])
                /\ kind[c] = "protected" => StateOf(c) \in {StateOf(ps[1]), "Canceled"}
                /\ kind[c] \in Sequential =>
                       /\ StateOf(ps[1]) = "Pending" => Pending(c)
                       /\ StateOf(ps[1]) \in Results \ Triggers(kind[c]) =>
                              StateOf(c) = StateOf(ps[1])

(* The promises that those of class q were made from and that Lwt.cancel   *)
(* on q is to reach, and a set that contains everything to be reached.     *)
MadeFrom(q) ==
    UNION {{rep[args[c][i]] : i \in DOMAIN args[c]} :
               c \in {c \in Promises : /\ rep[c] = q
                                     /\ kind[c] \notin {"no_cancel", "protected"}}}
Reaches(p, S) ==
    /\ rep[p] \in S
    /\ \A q \in S : state[q] = "Pending" => MadeFrom(q) \subseteq S

(* The first phase of Lwt.cancel cancels the pending tasks and protected   *)
(* promises from which the canceled promise was made, through any number   *)
(* of intermediate and of proxy promises, all of them before any callback  *)
(* runs, and no others.                                                    *)
CancelExact ==
    [][/\ traverse_done =>
            \E S \in SUBSET Id :
                /\ Reaches(Top.root, S)
                /\ \A c \in Promises :
                       rep[c] \in S /\ Pending(c) => kind[c] \notin {"task", "protected"}
       /\ traverse_step =>
            \A S \in SUBSET Id : Reaches(Top.root, S) =>
                \A p \in Id \ S : state'[p] = state[p]]_vars

-----------------------------------------------------------------------------
(* What the comments and the interface say, and the code does not do       *)

(* lwt.ml:902: a removable callback that is alone on a promise "must have  *)
(* been the cell cleared in this function".                                *)
SoleCellIsCleared ==
    [][clear_step /\ Top.todo # <<>> /\ Pending(Head(Top.todo)) =>
         LET q == rep[Head(Top.todo)]
         IN  OnlyRemovable(q) => Head(regular[q]) = Top.c]_vars

(* lwt.ml:1266: abandon_wakeups "immediately exits all recursive entries   *)
(* of the resolution loop, goes to the top level, runs any deferred        *)
(* callbacks, and exits the top-level resolution loop".                    *)
AbandonedAllRun == Quiescent => depth = 0 /\ deferred = <<>>

(* lwt.mli:1023: "If the first promise in [ps] to become resolved is       *)
(* fulfilled, the result promise [p] is also fulfilled".  The walk begins  *)
(* only if no promise of the list is rejected.                             *)
PickReturnsFulfilled ==
    [][walk_step /\ WalkFinds => StateOf(Head(Top.todo)) = "Fulfilled"]_vars
=============================================================================
