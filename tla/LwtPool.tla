------------------------------- MODULE LwtPool -------------------------------
(***************************************************************************)
(* src/core/lwt_pool.ml: a pool of at most Max members.  Threads call use; *)
(* create, validate, check and dispose are given by the program, take time *)
(* and fail.  Every wait for a promise is a state of the thread in which   *)
(* the other threads go on.                                                *)
(***************************************************************************)
EXTENDS LwtTask, Integers, FiniteSets

CONSTANTS Max,             \* max
          MaxMembers,      \* the number of members ever created
          NoMember,
          Programs         \* each one what may happen besides success:
                           \*   "create", "validate", "check" and "dispose"
                           \*   fail, "invalid" members, "check_raises",
                           \*   "clear", "cancel"

ASSUME PoolAssumption ==
    /\ IsFiniteSet(Threads)
    /\ Max \in Nat \ {0}
    /\ MaxMembers \in Nat
    /\ NoMember \notin Nat

(* Members are numbered in the order of their creation.                    *)
Members == 1..MaxMembers

VARIABLES program,         \* the set of Programs that runs
          count, list, waiters,
          member,          \* member[t]: the one that t has
          cleared,         \* cleared[t]: the flag t captured when it began to use
          creating,        \* the waiters replace_disposed creates a member for
          orphaned,        \* how many more it creates for canceled waiters
          clearing,        \* what the clears under way have yet to dispose of
          created,         \* the number of members created so far
          disposed,        \* history: the members disposed of
          lastClear,       \* history: created when clear was last called
          since,           \* history: lastClear when t called use
          spared           \* history: the members in validation at a clear

vars == <<program, count, list, waiters, task, pc, member, cleared, creating, orphaned,
          clearing, created, disposed, lastClear, since, spared>>
history == <<lastClear, since, spared>>

Pcs == {"idle", "create", "wait", "validate", "use",
        "drop_invalid", "drop_failed", "drop_used"}

TypeOK ==
    /\ count \in Int
    /\ list \in Seq(Members)
    /\ waiters \in Seq(Threads)
    /\ task \in [Threads -> Tasks]
    /\ pc \in [Threads -> Pcs]
    /\ member \in [Threads -> Members \cup {NoMember}]
    /\ cleared \in [Threads -> BOOLEAN]
    /\ creating \subseteq Threads
    /\ orphaned \in Nat
    /\ clearing \subseteq Seq(Members)
    /\ created \in 0..MaxMembers
    /\ disposed \subseteq Members
    /\ lastClear \in 0..MaxMembers
    /\ since \in [Threads -> 0..MaxMembers]
    /\ spared \subseteq Members

Init ==
    /\ program \in Programs
    /\ count = 0 /\ list = <<>> /\ waiters = <<>>
    /\ NoTasks
    /\ member = [t \in Threads |-> NoMember]
    /\ cleared = [t \in Threads |-> FALSE]
    /\ creating = {}
    /\ orphaned = 0
    /\ clearing = {}
    /\ created = 0
    /\ disposed = {}
    /\ lastClear = 0
    /\ since = [t \in Threads |-> 0]
    /\ spared = {}

Goes(t, where, m) ==
    /\ pc' = [pc EXCEPT ![t] = where]
    /\ member' = [member EXCEPT ![t] = m]

(* No member is free: t waits for one.                                     *)
Wait(t) ==
    /\ waiters' = Append(waiters, t)
    /\ task' = [task EXCEPT ![t] = "Pending"]
    /\ Goes(t, "wait", NoMember)
    /\ UNCHANGED <<count, list>>

TakeFree(t) ==
    /\ list # <<>>
    /\ list' = Tail(list)
    /\ Goes(t, "validate", Head(list))
    /\ UNCHANGED <<count, waiters, task>>

(* A thread calls use: acquire, and create_member up to p.create ().       *)
acquire(t) ==
    \/ /\ list = <<>> /\ count < Max
       /\ count' = count + 1
       /\ Goes(t, "create", NoMember)
       /\ UNCHANGED <<list, waiters, task>>
    \/ list = <<>> /\ count >= Max /\ Wait(t)
    \/ TakeFree(t)

use(t) ==
    /\ pc[t] = "idle"
    /\ acquire(t)
    /\ since' = [since EXCEPT ![t] = lastClear]
    /\ UNCHANGED <<cleared, creating, clearing, created, disposed, lastClear, spared>>

(* The member is ready: the function is called with it.                    *)
BeginUse(t, m) ==
    /\ Goes(t, "use", m)
    /\ cleared' = [cleared EXCEPT ![t] = FALSE]

create_done(t) ==
    /\ pc[t] = "create"
    /\ created < MaxMembers
    /\ created' = created + 1
    /\ BeginUse(t, created + 1)
    /\ UNCHANGED <<count, list, waiters, task, creating, clearing, disposed, history>>

\* Mutant: the failed creation stays counted.
create_fail_counted(t) ==
    /\ "create" \in program
    /\ pc[t] = "create"
    /\ Goes(t, "idle", NoMember)
    /\ UNCHANGED <<count, list, waiters, task, cleared, creating, clearing, created,
                   disposed, history>>

create_fail(t) ==
    /\ "create" \in program
    /\ pc[t] = "create"
    /\ count' = count - 1
    /\ Goes(t, "idle", NoMember)
    /\ UNCHANGED <<list, waiters, task, cleared, creating, clearing, created,
                   disposed, history>>

(* A waiter got a member, or the exception of the member's creation.       *)
wait_done(t) ==
    /\ pc[t] = "wait"
    /\ \/ task[t] = "Fulfilled" /\ Goes(t, "validate", member[t])
       \/ task[t] = "Rejected" /\ Goes(t, "idle", NoMember)
    /\ task' = [task EXCEPT ![t] = "none"]
    /\ UNCHANGED <<count, list, waiters, cleared, creating, clearing, created,
                   disposed, history>>

validate_true(t) ==
    /\ pc[t] = "validate"
    /\ BeginUse(t, member[t])
    /\ UNCHANGED <<count, list, waiters, task, creating, clearing, created,
                   disposed, history>>

(* validate gives false, or raises: the member is disposed of.             *)
validate_false(t) ==
    /\ pc[t] = "validate"
    /\ \/ "invalid" \in program /\ Goes(t, "drop_invalid", member[t])
       \/ "validate" \in program /\ Goes(t, "drop_failed", member[t])
    /\ UNCHANGED <<count, list, waiters, task, cleared, creating, clearing, created,
                   disposed, history>>
-----------------------------------------------------------------------------
(* A waiter is woken with the member m; one that has been canceled is not. *)
GiveTo(w, m) ==
    IF task[w] = "Pending"
    THEN /\ task' = [task EXCEPT ![w] = "Fulfilled"]
         /\ member' = [member EXCEPT ![w] = m]
    ELSE UNCHANGED <<task, member>>

(* t gives back its member m.                                              *)
release(t, m) ==
    /\ pc' = [pc EXCEPT ![t] = "idle"]
    /\ \/ /\ waiters # <<>>
          /\ LET w == Head(waiters)
             IN  IF task[w] = "Pending"
                 THEN /\ task' = [task EXCEPT ![w] = "Fulfilled"]
                      /\ member' = [member EXCEPT ![t] = NoMember, ![w] = m]
                 ELSE /\ member' = [member EXCEPT ![t] = NoMember]
                      /\ UNCHANGED task
          /\ waiters' = Tail(waiters)
          /\ UNCHANGED list
       \/ /\ waiters = <<>>
          /\ list' = Append(list, m)
          /\ member' = [member EXCEPT ![t] = NoMember]
          /\ UNCHANGED <<waiters, task>>

(* The function of t is over.  A member is disposed of if the pool was     *)
(* cleared meanwhile, or if the function failed and so does check.  If     *)
(* check raises, nothing becomes of the member, which stays counted.       *)
use_done(t) ==
    /\ pc[t] = "use"
    /\ \/ /\ ~cleared[t]
          /\ release(t, member[t])
       \/ /\ cleared[t] \/ "check" \in program
          /\ Goes(t, "drop_used", member[t])
          /\ UNCHANGED <<list, waiters, task>>
       \/ /\ "check_raises" \in program
          /\ Goes(t, "idle", NoMember)
          /\ UNCHANGED <<list, waiters, task>>
    /\ UNCHANGED <<count, cleared, creating, clearing, created, disposed, history>>

(* replace_disposed creates a member for a waiter, without counting it.    *)
replace_disposed ==
    \/ /\ waiters # <<>>
       /\ creating' = creating \cup {Head(waiters)}
       /\ waiters' = Tail(waiters)
    \/ /\ waiters = <<>>
       /\ UNCHANGED <<creating, waiters>>

(* dispose is over: after an invalid member a new one is created; after a  *)
(* failed validation a waiter's is; after a use nothing is.                *)
dispose_done(t) ==
    /\ disposed' = disposed \cup {member[t]}
    /\ \/ /\ pc[t] = "drop_invalid"
          /\ Goes(t, "create", NoMember)
          /\ UNCHANGED <<count, waiters, creating>>
       \/ /\ pc[t] = "drop_failed"
          /\ count' = count - 1
          /\ replace_disposed
          /\ Goes(t, "idle", NoMember)
       \/ /\ pc[t] = "drop_used"
          /\ count' = count - 1
          /\ Goes(t, "idle", NoMember)
          /\ UNCHANGED <<waiters, creating>>
    /\ UNCHANGED <<list, task, cleared, clearing, created, history>>

(* An exception of dispose leaves the member counted.                      *)
dispose_fail(t) ==
    /\ "dispose" \in program
    /\ pc[t] \in {"drop_invalid", "drop_failed", "drop_used"}
    /\ Goes(t, "idle", NoMember)
    /\ disposed' = disposed \cup {member[t]}
    /\ UNCHANGED <<count, list, waiters, task, cleared, creating, clearing,
                   created, history>>

(* The member that replaces a disposed one is created, or is not.          *)
replacement_done(w) ==
    /\ w \in creating
    /\ creating' = creating \ {w}
    /\ \/ /\ created < MaxMembers
          /\ created' = created + 1
          /\ GiveTo(w, created + 1)
       \/ /\ "create" \in program
          /\ task' = IF task[w] = "Pending" THEN [task EXCEPT ![w] = "Rejected"] ELSE task
          /\ UNCHANGED <<created, member>>
    /\ UNCHANGED <<count, list, waiters, pc, cleared, clearing, disposed, history>>

(* A member is created, or is not, for a waiter that has gone.             *)
replacement_orphaned ==
    /\ orphaned > 0
    /\ orphaned' = orphaned - 1
    /\ \/ created < MaxMembers /\ created' = created + 1
       \/ "create" \in program /\ UNCHANGED created
    /\ UNCHANGED <<count, list, waiters, task, pc, member, cleared, creating,
                   clearing, disposed, history>>
-----------------------------------------------------------------------------
(* The members in the hands of threads that have not begun to use them.    *)
InValidation == {member[t] : t \in {u \in Threads : pc[u] \in {"wait", "validate"}}}

Clear ==
    /\ "clear" \in program
    /\ clearing' = IF list = <<>> THEN clearing ELSE clearing \cup {list}
    /\ list' = <<>>
    /\ lastClear' = created
    /\ spared' = spared \cup (InValidation \ {NoMember})
    /\ UNCHANGED <<count, waiters, task, pc, member, creating, created, disposed, since>>

\* Mutant: the members in use are not told.
clear_free_only == Clear /\ UNCHANGED cleared

(* clear: the members in use are marked through the flag they captured,    *)
(* the free ones are disposed of one after the other, the last one first.  *)
clear == Clear /\ cleared' = [t \in Threads |-> TRUE]

(* One member of a clear is disposed of; if that fails iter_s stops.       *)
clear_next ==
    \E ms \in clearing :
        /\ disposed' = disposed \cup {ms[Len(ms)]}
        /\ \/ /\ count' = count - 1
              /\ clearing' = (clearing \ {ms})
                                \cup (IF Len(ms) = 1 THEN {} ELSE {SubSeq(ms, 1, Len(ms) - 1)})
           \/ /\ "dispose" \in program
              /\ clearing' = clearing \ {ms}
              /\ UNCHANGED count
        /\ UNCHANGED <<list, waiters, task, pc, member, cleared, creating, created,
                       history>>

\* Mutant: the node stays in the queue.
RemoveNode_not(t) == UNCHANGED waiters

(* Lwt_sequence.remove, by the cancel callback of add_task_r.              *)
RemoveNode(t) == waiters' = Without(waiters, t)

(* The first phase of cancel, and the second one if nothing can come       *)
(* between (see LwtMutex).                                                 *)
cancel(t) ==
    /\ "cancel" \in program
    /\ task[t] = "Pending"
    /\ task' = [task EXCEPT ![t] = "Canceled"]
    /\ IF SplitCancel THEN UNCHANGED waiters ELSE RemoveNode(t)
    /\ UNCHANGED <<count, list, pc, member, cleared, creating, clearing, created,
                   disposed, history>>

(* A replacement that is being created for t will be nobody's.             *)
cancel_callbacks(t) ==
    /\ task[t] = "Canceled"
    /\ RemoveNode(t)
    /\ creating' = creating \ {t}
    /\ orphaned' = orphaned + Cardinality(creating \cap {t})
    /\ task' = [task EXCEPT ![t] = "none"]
    /\ pc' = [pc EXCEPT ![t] = "idle"]
    /\ UNCHANGED <<count, list, member, cleared, clearing, created, disposed, history>>

(* Creations, validations, uses and disposals end.                         *)
Progress(t) ==
    create_done(t) \/ create_fail(t) \/ wait_done(t) \/ validate_true(t)
        \/ validate_false(t) \/ use_done(t) \/ dispose_done(t) \/ dispose_fail(t)
        \/ replacement_done(t)

Next ==
    /\ \/ /\ \/ \E t \in Threads : use(t) \/ Progress(t) \/ cancel(t)
             \/ clear
             \/ clear_next
          /\ UNCHANGED orphaned
       \/ \E t \in Threads : cancel_callbacks(t)
       \/ replacement_orphaned
    /\ UNCHANGED program

Spec == Init /\ [][Next]_vars
-----------------------------------------------------------------------------
Live == (1..created) \ disposed

(* The members under creation.                                             *)
Creations == Cardinality({t \in Threads : pc[t] = "create"})
                 + Cardinality(creating) + orphaned

(* Where a member is: in the list, with a thread, or with a clear.         *)
Places(m) ==
    {<<"list", i>> : i \in {i \in DOMAIN list : list[i] = m}}
        \cup {<<"thread", t>> : t \in {t \in Threads : member[t] = m}}
        \cup {<<"clear", ms>> : ms \in {ms \in clearing : \E i \in DOMAIN ms : ms[i] = m}}

(* count is the number of members that exist or are being created, in      *)
(* every interleaving of creations, disposals and clears, unless validate  *)
(* or dispose raise exceptions.                                            *)
CountExact ==
    program \cap {"validate", "dispose"} = {} =>
        count = Cardinality(Live) + Creations

NothingLoses ==
    /\ "validate" \notin program
    /\ "check_raises" \notin program
    /\ ~({"clear", "dispose"} \subseteq program)
    /\ ~SplitCancel

(* A member is in one place: two threads do not use it at once, and none   *)
(* uses a free or a disposed one; and, lwt_pool.mli:79, "The element is    *)
(* put back into the pool after the promise created by [f] completes": no  *)
(* member is lost, unless one is created in place of one whose validation  *)
(* raised, for a waiter that gets canceled meanwhile, or a check raises    *)
(* after the function of use has failed, or a clear stops at a disposal    *)
(* that raises, or a waiter is woken while it is canceled.                 *)
OnePlace ==
    \A m \in Members :
        /\ Cardinality(Places(m)) <= (IF m \in Live THEN 1 ELSE 0)
        /\ NothingLoses => (m \in Live => Places(m) # {})

(* lwt_pool.mli:53: a pool has "at most [n] elements".                     *)
AtMostMax == Cardinality(Live) + Creations <= Max

(* lwt_pool.mli:90: "The next call to [use p] after [clear p] guarantees a *)
(* freshly created pool element".                                          *)
FreshAfterClear ==
    \A t \in Threads : pc[t] = "use" => member[t] > since[t]

(* The same, but for the members whose validation a clear came across: the *)
(* flag is captured when the use begins, and it has been renewed by then.  *)
FreshOrSpared ==
    \A t \in Threads : pc[t] = "use" => member[t] > since[t] \/ member[t] \in spared

(* lwt_pool.mli:82: "In the case that [p] is exhausted and the maximum     *)
(* number of elements is reached, [use] will wait until one becomes free". *)
(* So no thread waits while the pool is below its maximum, as long as no   *)
(* member is disposed of without being replaced.                           *)
WaitsIfExhausted ==
    program \cap {"check", "clear", "create", "validate"} = {} =>
        \A i \in DOMAIN waiters : task[waiters[i]] = "Pending" => count >= Max
=============================================================================
