# A TLA+ development for Lwt

Lwt is a library of promises for OCaml.  Its core (`src/core/`) is single
threaded: a promise is a cell that is resolved once, callbacks attached to it
run when it is resolved, and everything else (mutexes, mailboxes, pools,
streams) is built of promises and queues of promises.  Its Unix part
(`src/unix/`) adds the main loop, the engine that polls file descriptors and
timers, a pool of system threads that run blocking calls, signals, processes
and buffered channels.

This directory models those parts in TLA+, checks the models with TLC on small
instances and proves some of their properties with TLAPS for all instances.
`PROJECT.json` lists the components, the runs, which lines of the source every
definition stands for, one mutant for each property, the hazards, the findings
and the theorems.

Line numbers below are those of the files under `src/src/`.

## 1. The system and what is hard in it

| part | state | operations | what makes it hard |
|---|---|---|---|
| `core/lwt_sequence.ml` | circular doubly linked lists, a flag `node_active` per node | add, take, remove, transfer, iterate, fold, find, clear | the function an iteration is given changes the list being walked |
| `core/lwt.ml`, promises | state of each promise, its callback lists (regular, removable cells, cancel), `how_to_cancel`, proxies | `wait`, `task`, `bind`, `catch`, `try_bind`, `map`, `on_*`, `join`, `choose`, `pick`, `nchoose`, `npick`, `protected`, `no_cancel`, `wakeup`, `cancel` | user code runs in the middle of Lwt's functions and calls them again |
| `core/lwt.ml`, resolution loop | `current_callback_nesting_depth`, the deferred queue, `current_storage` | `wakeup`, `wakeup_later`, `abandon_wakeups`, `with_value` | nesting, exceptions that leave the loop, order of deferred callbacks |
| `core/lwt.ml`, pause | the sequence `paused`, `paused_count` | `pause`, `wakeup_paused`, `abandon_paused`, cancel | the count is kept beside the queue |
| `core/lwt_mutex.ml`, `lwt_condition.ml`, `lwt_mvar.ml`, `lwt_pool.ml` | a flag or a value and queues of tasks | lock and unlock, wait, signal and broadcast, put and take, use and clear | handing something over to a waiter that is canceled; failures of user functions |
| `core/lwt_switch.ml` | hooks | `add_hook`, `turn_off` | hooks use the switch while it is being turned off |
| `core/lwt_stream.ml` | a list of nodes shared by clones, sources, a bounded buffer with one pending push | `get`, `peek`, `nget`, `push`, `resize`, `close`, `clone`, ... | several readers of one node; pushes that block, are canceled or closed |
| `unix/lwt_unix_stubs.c`, notifications | a growing buffer under a mutex, an eventfd or a pipe | `lwt_unix_send_notification`, `lwt_unix_recv_notifications`, fork | senders in other threads and in signal handlers, the master lock |
| `unix/lwt_unix_stubs.c`, jobs | job states, the circular `pool_queue`, thread counts | `start_job`, workers, `check_job`, results, fork | a system thread and the main thread share a job; who frees it and when |
| `unix/unix_c/*.c`, `unix/windows_c/*.c`, `lwt_libev_stubs.c`, `lwt_process_stubs.c` and `lwt_unix.h`: the stubs | the job or the frame of one call: its memory, its `errno`, its buffers; static storage of the C library | make the job, the worker, the result; direct calls | the worker runs without the master lock while the collector moves values; every way out frees everything once; the error raised is that of the call |
| `unix_termios_conversion.c` | the words of `struct termios` | encode, decode | flags and enumerations packed in shared words |
| `unix/lwt_unix_stubs.c`, Windows condition variables | a list of waiters on the stacks of the threads | wait, signal, broadcast | nodes that vanish as soon as their event is set |
| `unix/lwt_unix.cppo.ml`, signals and children | the map of signals, sequences of handlers, `wait_children` | `on_signal`, `disable_signal_handler`, `waitpid` | handlers disable themselves; the walk over the children resolves promises |
| `unix/lwt_preemptive.ml` | workers, waiters, `threads_count`, cells | `detach`, `set_bounds`, `run_in_main` | worker threads decide without a lock to exit |
| `unix/lwt_main.ml`, `unix/lwt_engine.ml` | hooks, the flag of nested runs; maps of actions, a queue of sleepers | `run`, `iter`, `on_readable`, `on_timer`, `stop_event` | events stopped by actions of the same iteration |
| `unix/lwt_timeout.ml`, `lwt_throttle.ml` | a wheel of buckets; a table of counters | start, stop, change; wait | a loop that stops and is started again |
| `unix/lwt_unix.cppo.ml`, descriptors; `lwt_io.ml`; `lwt_process.cppo.ml` | states, hooks, event lists; buffers and channel locks | system calls with retries; reads, writes, flush, close | operations in flight on close or abort |

**How they interact.**  Everything waits through promises: a queue of waiters is
a `Lwt_sequence` of resolvers made by `Lwt.add_task_r`.  What another part
resolves is resolved with `wakeup` (callbacks run at once), `wakeup_later`
(callbacks may run after those under way) or by `cancel`.  System threads reach
the main thread by notifications only; the engine calls their handler when the
descriptor is readable; the handler resolves promises.  The main loop
alternates between the engine and `wakeup_paused`.

**Two-phase cancellation.**  `Lwt.cancel p` first walks from `p` to the pending
initial promises it depends on and rejects all of them, and only then runs their
callbacks, one promise after the other (`lwt.ml:1459`).  If `p` is the join of
two promises, callbacks of the first run while the second is already rejected
and the cancel callback that takes its node out of a queue has not run.  In
that window the queue of a mutex, a condition, a mailbox or a pool holds a
waiter that can no longer be woken.  The constant `SplitCancel` of the modules
says whether the window exists in a run; several findings come from it.

## 2. Modules

Every module names the file it models in its header.  A variable has the name of
the field or reference it stands for; an action has the name of the function, or
of the function and the place where it is suspended (`use_done`, `send_lock`).
History variables, which no guard reads, are marked as such.  Operators marked
*Mutant* are versions of a definition with a plausible mistake; nothing uses
them but the mutants of `PROJECT.json`.

| module | models | how state and actions correspond |
|---|---|---|
| `LwtSequence` | `lwt_sequence.ml` | `prev`, `next`, `active` are the fields of sentinels and nodes; one action per operation; one iteration, with the steps of `iter_l` and its relatives between which the user's function runs every operation |
| `LwtDeque` | `lwt_sequence.mli` | the abstract double-ended queues; `MCSequence` maps the pointers to them |
| `LwtCore`, `MCCore` | `lwt.ml` but for `pause` | a machine with an explicit call stack: the frames of `stack` are the activations of Lwt's functions, and whenever a frame calls user code every operation is possible again.  `regular`, `cancels`, `cell`, `cleanups`, `how`, `rep` are the parts of a pending promise; `depth` and `deferred` the resolution loop |
| `LwtPause` | `pause`, `wakeup_paused`, `abandon_paused` | extends `LwtSequence`, because the code depends on what becomes of nodes that were transferred or cleared away |
| `LwtTask` | the queues of waiters, `add_task_r`, `wakeup_later` and `cancel` as the modules below use them | `task[t]` is the promise the thread `t` waits for |
| `LwtMutex`, `LwtCondition` | `lwt_mutex.ml`, `lwt_condition.ml` | `LwtCondition` extends `LwtMutex`; threads are in `with_lock` and call `wait` in it |
| `LwtMvar` | `lwt_mvar.ml` | the values are numbered by the puts |
| `LwtSwitch` | `lwt_switch.ml` | hooks end when they like |
| `LwtPool`, `MCPool` | `lwt_pool.ml` | extends `LwtTask`; `create`, `validate`, `check` and `dispose` are the program's: each takes time and has every outcome, exceptions included |
| `LwtStream` | `lwt_stream.ml`: nodes, clones, the four sources, bounded pushes, the calls that read | the list is a sequence of elements, a node a position in it; a reader holds the node it has come to and is suspended where the code is |
| `LwtChannel` | what a stream promises | one list, cursors of the streams, readers that get what is at them, pushes blocked by the bound |
| `MCSync` | | the mutex with the condition, the mailbox, the switch or the stream: four kinds of programs in one run |
| `LwtNotification` | notifications of `lwt_unix_stubs.c` and `lwt_unix.cppo.ml` | steps of C code between two acquisitions of a mutex; the master lock of the runtime and the signals blocked by a thread are variables; a signal handler runs on top of the thread it interrupts |
| `LwtMailbox` | what a sender is promised | the identifiers pending and called |
| `LwtJobs`, `MCJobs` | jobs and the thread pool of `lwt_unix_stubs.c`, `run_job` | workers, the main thread in `start_job`, the circular queue; `thread_waiting_count` and the state of a job are read without a lock where the code does so |
| `LwtPreemptive` | `lwt_preemptive.ml` | worker threads, `workers`, `waiters`, the cells and `threads_count`; a worker reads the bounds without a lock |
| `LwtSteps`, `LwtStubs` | the macros of `lwt_unix.h` and what a stub does at each step | a stub is a sequence of steps; a step allocates, roots, enters a blocking section, makes a call with an outcome, reads `errno`, copies, frees, raises.  The collector moves and frees values between steps |
| `LwtUnixStubs`, `LwtWindowsStubs` | every file of `unix_c/` and `windows_c/`, `lwt_libev_stubs.c`, `lwt_process_stubs.c` | one definition per stub: the steps of it, in the order of the code |
| `LwtWinCondition`, `LwtCondVariable` | the condition variables of Windows; what a condition variable is | list, nodes, events and the two critical sections |
| `LwtTermios` | `unix_termios_conversion.c` | a word is a set of bits; `encode_terminal_status` and `decode_terminal_status` go through the same table of fields as the code |
| `MCUnix` | | the stubs, the condition variables, the conversion, or the detached computations |
| `LwtEngine`, `LwtEvents` | `lwt_engine.ml` (select and poll) under `Lwt_main.run`; what `on_readable`, `on_timer` and `stop_event` promise | maps of actions, sleepers and the iterations under way, with user code in the functions called |
| `LwtTimeout`, `LwtAlarms` | `lwt_timeout.ml`; a delay for each timeout | `buckets`, `curr`, `count`, `stopped`; actions call the module again |
| `LwtThrottle`, `LwtLimiter` | `lwt_throttle.ml`; a rate for each key | the table, the queue of each entry and the cleaner |
| `MCLoop` | | paused promises, events, timeouts or a throttle: what `Lwt_main.run` turns |
| `LwtSequenceProofs`, `LwtPauseProofs`, `LwtSyncProofs`, `LwtPoolProofs`, `LwtNotificationProofs`, `LwtJobsProofs`, `LwtCoreProofs`, `LwtCallbackProofs` | | the theorems of section 4: every one extends the modules it is about |

`Programs`.  Most modules have a constant `Programs`: a set of programs, each a
set of operations or of things that may go wrong.  The variable `program`, which
never changes, is the one that runs.  A run checks several programs one beside
the other, so that the state space is the sum of theirs and not the product.
Properties that do not hold when some function fails say so in terms of
`program`; section 5 says what happens then.

`Catalogue`.  `LwtStubs` runs the steps that `Catalogue` has for a name.  A
stub that differs from system to system is in it in its variants.  The outcomes
of a call are an argument of a program, so that a run says which ones it
leaves out (`Unhandled` of `MCUnix`): an address refused by `get_sockaddr`, a
failure of `mincore`, of `lockf` with `F_TEST`, and a short `readv`.  The code
does not handle these, and section 5 says what it does.

Left out everywhere: values carried by promises and members, backtraces,
wording of exceptions (an exception is `Rejected`, `Canceled` is kept apart),
types, and memory.

## 3. What is checked

Eight runs pass; four runs show findings (section 5).

| run | instance | shows |
|---|---|---|
| `sequence` | 2 sequences, 3 nodes, one iteration | `WellLinked`, `RefinesDeque`: the pointers are deques and each operation is the one of its name; `IterationExact`: an iteration visits the nodes that stayed, each once; `IterationEnds` |
| `core` | 6 programs, 4 promises and callbacks (`N`), lists of length 2 (`MaxArgs`), `Throttle` 1 instead of 42, 2 storage values | `CallbacksRunOnce`, `NoLostCallback`, `NoTypeConfusion` (the reasoning of `may_now_be_proxy`), `CombinatorsAgree`, `StorageRestored`, `CancelExact` |
| `sync` | 3 threads; 4 values (`MaxPuts`); 3 hooks; 2 streams that share a list, 2 readers, 3 elements, 5 kinds of programs | `MutualExclusion`, `LockedIffHeld`, `NotifiedResumes`; `NoValueLost`, `BlockedForAReason`; `TurnOffWaits`, `TurnOffEnds`; `RefinesChannel`: readers and producers of a stream see one list, each element once for each stream, and nobody waits in vain |
| `pool` | 3 threads, `Max` 2, 3 members ever created (`MaxMembers`), 4 programs | `CountExact`, `OnePlace` (a member is in one place: not shared, and not lost either but in the four ways that `NothingLoses` excludes, see section 5), `FreshOrSpared` |
| `loop` | 4 promises and 2 rounds of `wakeup_paused`; 2 descriptors' sides, 2 events, 2 timers in 4 programs; 2 timeouts with delays up to 3; 2 keys, 6 calls | `CountCoversPaused`: the main loop never blocks with a promise paused; `WokenExactly`: a round wakes those paused before it, all of them and no other; `RefinesEvents`: each event is called in time, though the loop blocks in `select` until a descriptor is ready or the timeout of `get_next_timeout` is over; `RefinesAlarms`, `RefinesLimiter` |
| `notification` | a C thread, an OCaml thread, the main thread, a signal handler on any; 4 sends (`MaxSends`), a buffer of 2 | `SignaledIffPending`: the descriptor is readable when something is pending and only then, so that the main thread neither sleeps nor blocks in `read`; `NoLockCycle`; `RefinesMailbox` |
| `jobs` | 3 jobs on 2 threads with aborts; 2 jobs on 2 threads with failing launches, spurious wakeups (`MaxWaiting` 4) and forks | `NoUseAfterFree`, `QueueServed` (the circular queue is in order and has a thread that will take from it), `JobResolves`: every promise is resolved; in the child of a fork too, unless its main thread is blocked in `check_job` on a mutex the parent's thread held (`Stuck`) or notifications of the parent's keep it from being signaled (`Unheard`) |
| `unix` | every stub alone, held or not until its result; pairs of calls on one directory and of lookups; 3 threads on a condition; 3 speeds; 3 detached calls on 2 threads | `NoDangling`, `Released`, `ErrorFromCall`, `BufferExact`, `OwnEntry`; `RefinesCondVariable`; `RecordIsStatus`; `DetachEnds` |

**Bounds.**  Three nodes are the fewest for which a removed node has two
neighbours that are nodes, and two sequences for which a transfer has a source
and a destination.  In the core, four names make a race of two promises with an
observer of it, a chain of two binds with a proxy, or a choice listed twice;
`Throttle` 1 makes a cleanup happen at the second removal.  Three threads on a
mutex or a mailbox make a holder, a waiter that is canceled, and one behind it.
A pool of two with three threads is exhausted and still has two members to mix
up.  The buffer of two is doubled by the third notification.  A queue of two
jobs needs two workers that wait; the second program of `jobs` starts with them.
Two readers of two streams are a pair that shares a node, or a stream and its
clone; three elements fill the bound of two with one pending, and a reader
takes at most two at a time (`MaxRead`).  A stub is sequential but for the
collector and the program, which owns its buffers: alone it meets all the
outcomes of its calls, with one retry of calls repeated with a larger buffer
(`MaxRetries`) and buffers of two cells, so that a short count differs from a
full one and from none; two at a time are needed only where storage of the C
library is shared.  Three threads on a condition are two that wait and one that
signals.  Three detached calls on two threads make one wait; the bounds change
from (0, 2), which stands for the default (0, 4), to one thread or to a
minimum of two.  Two events on a descriptor, or one on each of two, are what an
action can stop beside its own; `fake_io` nests twice (`MaxNesting`).  A delay
of three makes the wheel grow while another timeout is in it.  With a rate of
two, six calls on two keys use up two seconds of a key and leave some behind
(`MaxPending` 3).
`MaxSends`, `MaxPuts`, `MaxCalls`, `MaxMembers`, `MaxWaiting` only stop counters that grow
for ever.

**Fairness** is weak but for one case.  It is assumed of code that the single thread of
OCaml or the scheduler of the system runs when it can: the loop of an iteration;
callbacks of resolved promises; workers and the main loop.  Of user code it is
assumed only where the property is about someone who waits for it: functions
given to `with_lock` end or wait, hooks end, jobs return, what a producer of a
stream was asked for is made, detached functions end, time passes.  The
exception is user code in the engine: it may register and stop events for ever,
which disables its own end now and then; that it ends all the same
(`begin_iter`, `action_returns`) is strong fairness.  Nothing is assumed
of calls a program may make or not, nor of signals: a `select` that blocks need
not be interrupted (`select_interrupted`), and returns because a descriptor is
ready or bad, or because its timeout is over.  Where one run has several parts
(`MCSync`, `MCUnix`, `MCLoop`) each part's fairness is met in the behaviours of
the others; in `MCLoop` it is therefore asked for only where the part runs
(`In`), since user code of the engine could always begin an iteration.

**Deadlock** is not checked as such: a program may simply have nothing more to
do.  That nobody waits for ever is stated by `NoLostCallback`,
`BlockedForAReason`, `NoLockCycle` and the liveness properties.

**Refinement.**  Seven properties are refinements, checked by TLC.  `LwtSequence` implements `LwtDeque` under the mapping that follows `next`
from a sentinel, and `LwtNotification` implements `LwtMailbox`, liveness
included, under the mapping of the pending identifiers to
`result \o notifications`.  `LwtStream` implements `LwtChannel`: whichever
source fills the list and whichever reader extends it, the cursors advance over
one list of elements.  `LwtWinCondition` implements `LwtCondVariable`: the set
of threads that wait is what the list of nodes holds.  `LwtEngine` implements
`LwtEvents`, where each event has a state and a time and its function is called
only while it is registered; `LwtTimeout` implements `LwtAlarms`, where each
timeout counts its own delay down and there is no wheel; `LwtThrottle`
implements `LwtLimiter`, which counts the calls let through in a second.  All
but the first include liveness.

## 4. What is proved

The proofs hold for every value of the constants that satisfies the `ASSUME`s.
Each rests on an inductive invariant; its parts were checked with TLC, on the
run of the component, before they were proved.  A step that preserves it has a
lemma of its own, by the name of the action.

| theorem | property | assumed besides the `ASSUME`s |
|---|---|---|
| `SequencesWellLinked`, `LinkedNodesActive` | `WellLinked`, `LinkedActive` | no caller removes a node of a sequence that it cleared (`~RemoveCleared`) |
| `IterationsAreExact` | `IterationExact` | `~RemoveCleared` |
| `PausedAreCounted`, `PausedAreWoken` | `CountCoversPaused`, `WokenExactly` | no program both cancels and abandons paused promises |
| `MutexExcludes` | `MutualExclusion` | |
| `MutexLockedIffHeld` | `LockedIffHeld` | `~SplitCancel` |
| `MvarLosesNothing`, `MvarBlocksForAReason` | `NoValueLost`, `BlockedForAReason` | `~SplitCancel` |
| `SwitchWaitsForHooks` | `TurnOffWaits` | |
| `PoolCountsItsMembers`, `PoolMembersInOnePlace`, `PoolClearsAreSeen` | `CountExact`, `OnePlace`, `FreshOrSpared` | |
| `DescriptorSignalsBuffer`, `NotificationsDoNotDeadlock` | `SignaledIffPending`, `NoLockCycle` | |
| `NotificationsAreAMailbox` | the safety part of `RefinesMailbox` | |
| `TimeoutsAreAlarms` | the safety part of `RefinesAlarms` | |
| `JobsAreNotUsedAfterFree`, `PoolServesItsQueue` | `NoUseAfterFree`, `QueueServed` | |
| `WakeupsAreNotLost` | `NoWakeupLost`, in no run | |
| `CondVariablesRefined` | the safety part of `RefinesCondVariable` | |
| `CallsRestoreStorage` | `StorageRestored` | |
| `UserCodeRunsOnce` | `CallbacksRunOnce` | |
| `CancelsAreExact` | `CancelExact` | |
| `PromisesResolveOnce` | `NoTypeConfusion` | `"protected"` not in the program |
| `ChainsAreNotLost`, `ChainsAgree` | `NoLostCallback`, `CombinatorsAgree` | no `join`, `choose`, `pick`, `nchoose`, `npick`, `protected` in the program (`OnlyChains`) |

The assumptions of the third column are not for the sake of the proofs: each of
them excludes a row of section 5, where the property fails.  The last one is the
exception: two rows of section 5 call for a part of it (`lwt.ml:893`, `lwt.ml:1613`),
but it excludes joins and all races, for which TLC alone checks the two
properties.  The `ASSUME`s say
what the code takes for granted: names that stand for different things are
different, limits are positive, sets of threads are finite, and the pool of
system threads does not start with more of them than `pool_size`.

* **Sequences.**  `IInv` is the type invariant, that a sentinel belongs to its
  own sequence, that linked nodes are active, and `WellLinked` itself.  That the
  links stay inside a sequence is what makes the four assignments of `transfer`
  safe.  `take_l` and `take_r` go through the lemma of `remove`.
  For iterations the function may remove the node the loop stands on, and any
  node around it, and the loop then follows links that are in no sequence.
  `IterInv` therefore has two parts, for the links in either direction.
  `StayedOK`: a node that stays and was not visited is reached from the current
  cell (`Reaches`, as `Ahead` below); at the sentinel nothing is reached, hence
  nothing was missed.  `PassedOK`: there is a set `K`, the current cell, what
  comes after it and the other sequences, in which every link leads on: to the
  sentinel, or to another cell of `K`, never to the current one, and to a node
  from one cell of `K` only (`Path`).  The cells passed are no longer in it, and a removed
  node leads only to other removed nodes, to the sentinel or to nodes of the
  sequence: hence none is visited twice.  `K` is not determined by the links, it
  is carried from step to step: it grows by the node added and shrinks by the
  nodes taken out ahead of the loop.
* **Pause.**  Inverse links are not enough for `wakeup_paused`: a sequence could
  be well linked and have a second circle that its sentinel does not reach, and
  the promises on it would never be woken.  `AllReached` excludes this.
  Reachability is stated without induction: `Ahead(x, s, n)` says that `n` is in
  every set that has `x` and is closed under `next` within `s`, and each
  operation is shown to keep it by giving, for a closed set of the new links, a
  closed set of the old ones.  `BatchOK` then says that what this round has still
  to wake is in `tmp` and ahead of the iteration; when the iteration stands on
  the sentinel nothing is ahead.  `IterOK` says that the iteration stands on a
  node that is still linked, which is why it may read its link after the
  callbacks have returned: the promise just woken cannot be canceled.
* **Mutexes, mailboxes, switches.**  For a mutex: every node of the queue is of
  a thread waiting in `lock` whose promise is pending (or, inside a cancellation,
  canceled), no thread is queued twice, and only `lock` waits for promises;
  without this `unlock` could hand the mutex to a thread that does not wait for
  it.  For a mailbox: readers wait for an empty mailbox only and writers for a
  full one, accepted values and then the blocked ones are in the order of the
  puts, and what was accepted is what was given followed by the contents.  For a
  switch: a registered hook is in the list of the switch or in that of the
  `turn_off` under way, which calls all of them before its join can be resolved,
  and a switch that is off has no hooks.
* **Pool.**  `Apart` says that the list, the threads and the clears under way
  have no member in common, `WaitersOK` and `HoldersOK` relate a thread's place
  in the code to its promise and its member, `Kept` that every live member is
  somewhere if `NothingLoses` (no exception of `validate` or `check`, none of
  `dispose` in a clear, no `SplitCancel`), and `FreshOK` what is known of the age of a member at each place.
  The count is compared with cardinalities of these sets.  No bound on the count
  is assumed: it is an integer, and may become negative when `validate` raises.
* **Notifications.**  `EventOK` says that the descriptor is written once for each
  filling of the buffer and is read before the buffer is emptied; it needs
  `MutexOK` and `SendersOK`: who holds the mutex is in its critical section, a
  handler does not send on top of a thread that sends, and the main thread is not
  interrupted while it receives.  For the mailbox every step is mapped, with the
  pending identifiers as `result \o notifications`, to a step of `LwtMailbox` or
  to a stutter.
* **Timeouts.**  The refinement mapping takes a timeout to the number of turns of
  the wheel until its bucket is current, modulo the length of the wheel.  For this
  to be what `LwtAlarms` counts down, `WheelOK` says that a timeout is in one
  bucket, once, and `RoomOK` that the wheel is longer than every delay that was
  ever asked for: a delay as long as the wheel would fire at once.  Growing the wheel
  rotates it, and `size` is shown to move no timeout.
* **Jobs.**  `WorkersOK`, `MainOK`, `QueueOK`, `SentOK` say that a job is in the
  hands of one worker, or of the queue, or of `start_job`, and that its state
  tells how far it is; `FreedOK` that a freed job has no notifier, and `PausedOK`
  that one whose `check_job` is to come is paused once and has its notifier: so
  `check_job`, which frees a job it finds done, frees one that nobody has freed
  and that no worker will notify.  `LinkedOK`
  is the shape of the circular list, `CountsOK` relates the counts to the threads,
  and the jobs that are queued to the threads that were signaled for them.
* **Condition variables of Windows.**  `NodesOK` says that the nodes of the list are
  those of threads that wait, each once, and that outside a broadcast their
  events are not set; `HoldersOK` where the mutexes are held.  A broadcast
  sets events of nodes that are in the list still: `WokenOK` says that a thread
  without its event is in the list, and ahead of the broadcast if there is one,
  and `BroadcastOK` that what is ahead of it is in the list.
* **Core.**  `LwtCoreProofs` first classifies the steps by their effects
  (`CoreSteps`): to the stack of calls, to the resolution loop and to the
  promises.  What follows is proved of about twenty effects instead of all the
  actions.  *Storage.*  `Fits(s, v)` is the least relation that says that the
  calls `s` will find their own storage when the innermost one starts with `v`;
  steps push and pop frames along it.  A raising hook skips frames, among them
  those that restore storage: without `with_value` there is but one storage
  (`Flat`), and with both the property is false, and says so.  *Callbacks.*
  `CallbackInv` says of each callback that user code attached that it is in one
  place: in a list of the promise behind the proxies, once, while this is pending
  (`AttachedOnce`); or in one batch, of a call in progress or deferred, which has
  the result of that promise (`HeldOnce`); or it was run or passed over
  (`RunsOnce`).  For the end of a call one has to know that nothing is deferred
  then: `DepthInv` says that the depth is the number of loops on the stack
  (`Levels`, again a least relation) and that callbacks are deferred only within
  a loop, as long as no loop is cut short.  *Cancellation.*  `CancelExact` says
  from which promises a promise was made, `cancel` follows `how_to_cancel`, and
  when a promise becomes a proxy the other one takes over its `how_to_cancel`.
  `ClassesOK` relates the two: of the promises behind the same proxies one is the
  base (`BaseOf`), and the class is canceled as it was made to be; the others are
  `Past`, their function was called once and has returned (`UserOK`), so that the
  promise they waited for is resolved and nothing is missed by not following it.
  A traversal is the innermost call and nothing else happens during it.
  Reachability is again stated with closed sets: what is ahead of a traversal
  is in every set that has its root and is closed under the links (`Sound`), and
  there is a set, what was visited and what is resolved, whose links lead only to
  itself and to what is ahead, without a pending task (`Complete`).
  *Resolving once.*  `resolve` takes it for granted that its promise is pending.
  `OwedOK` says that a callback that is to resolve its promise will not run
  again: it is in no batch and its function has returned, or its count is zero,
  or its cell is cleared (`Waits`), and it has one call of `resolve` on the stack
  at most.  `DoneOK` says that the callback that makes a promise has nothing left to do once the promise
  is resolved.  This is where the classes are needed again: what is
  resolved is a class, by a resolver of user code, by a cancellation or by a
  callback, and each of the three belongs to the base, the others being `Past`
  (`BaseDone`).  Cancellation does not reach a base that has a callback, except a
  protected promise, whose callback stays where it is until its own cancel
  handler runs: this is the finding `protected_cancel`, and other user code
  may run before that handler just as well.  For the walk of `pick`, `WalkOK`
  says that the rest of the list has more resolved promises than the walk is
  to pass over; cancellation and user code can only add some.
  *Chains.*  `NoLostCallback` speaks of the moments between two calls of Lwt, and
  in between there are states in which a pending promise has no callback
  anywhere: its callback was taken out of its list and is running.  `ChainInv` says where it is at any
  time.  `LiveOK`: every pending class has a member that is `Alive`: user code has its
  resolver, or its callback is still to run or waits for its function (`Waits`),
  or a call of `resolve` for it is on the stack.  When a promise becomes a proxy
  its class joins another one, which is alive by its own member or because the function has
  just returned it.  `PassedOK`: a callback that is to pass a result on has done
  so, or has the call on the stack that will.  At the top level the stack and the deferred
  batches are empty (`DepthInv`), and what remains of the two is the
  properties.

Only model checked:

* liveness, and with it the liveness part of the refinements: the prover does not
  reason about fairness;
* `RefinesDeque`, whose mapping follows the links from the sentinel by
  recursion, `RefinesChannel`, `RefinesEvents`, and `RefinesLimiter`: a
  step of `LwtThrottle` concatenates its queues in any order, which is a fold;
* of the core `NoLostCallback` and `CombinatorsAgree` for programs with joins and
  races: they need for the counts of joins what `CallbackInv` is for callbacks of
  user code, a sum over all lists, and for races that a cell dropped is the
  combinator's own, which fails for lists that name a promise twice (`lwt.ml:893` in
  section 5);
* the stubs, whose `Catalogue` is finite data that TLC goes through completely,
  and `RecordIsStatus`, which folds over a table.

## 5. Where the code does not do what it says

Four runs expect a violation; each is the smallest example of its kind.

* `protected_cancel` (`lwt.ml:1613`).  `protected` relies on its own cancel
  handler to take its callback off the protected promise.  Cancel handlers run
  newest first, so a later one that resolves the protected promise finds the
  callback there, and it resolves a promise that is canceled already.
* `mutex_cancel` (`lwt_mutex.ml:33`).  In the window of a two-phase cancellation
  `unlock` hands the mutex to a canceled waiter: it stays locked for ever.
* `pool_max` (`lwt_pool.ml:84`).  The replacement made after a failed validation
  is not counted.
* `lockf_test` (`unix_lockf_job.c:59`).  For `F_TEST` the worker stores no error
  code when `fcntl` fails: the result raises with an uninitialised one.

The following were met with the same models, by changing a configuration as
described.  The definitions named are in the modules and in no run.

| where | what | how to see it |
|---|---|---|
| `lwt.ml:893` | a promise listed twice in one `choose`: the "sole" removable cell dropped may be another combinator's, contrary to the comment, and that one is then not resolved by it | `SoleCellIsCleared` as a property of `core`; `NoLostCallback` with `N` 5, `MaxArgs` 3, `Throttle` 0, program `{"task", "choose", "wakeup"}` |
| `lwt.ml:2513` | a raising exception hook leaves the nesting depth raised: later `wakeup_later`s are deferred and never run; and it leaves the storage of the callback behind, which user code after the call then finds | `CallbacksRunOnce` without `Uncut`, program `{"task", "async", "wakeup", "wakeup_later", "raise"}`; `StorageRestored` without its premise, with `"with_value"` |
| `lwt.ml:1271` | `abandon_wakeups` leaves one level only, and drains nothing unless it is the outermost | `AbandonedAllRun` |
| `lwt.ml:2724` | `pick` of a list with a fulfilled promise may return a promise that it has itself just canceled | `PickReturnsFulfilled` |
| `lwt.ml:3171` | `paused_count` counts canceled promises | `CountExact` of `LwtPause` |
| `lwt.ml:3188` | canceling an abandoned promise links its neighbours into the queue again, which revives them; what was paused in the meantime is cut off and stays pending, uncounted after the next round | `AbandonedStayPending`, `CountCoversPaused`, program `{"cancel", "abandon"}` |
| `lwt_condition.ml:51` | the lock at the end of `wait` can be canceled; the enclosing `with_lock` then unlocks a mutex it does not hold | `Exclusive` as an invariant of `sync` |
| `lwt_condition.ml:56`, `lwt_mvar.ml:68`, `lwt_pool.ml:65` | a signal, a value, a member is handed to a waiter in the cancellation window, and lost | `SplitCancel = TRUE` |
| `lwt_pool.ml:130` | a `check` that raises, after the function of `use` has failed: the member is neither released nor disposed of, and stays counted | `OnePlace` without `NothingLoses`, program `{"check", "check_raises"}` |
| `lwt_pool.ml:134` | a member whose check fails is not replaced: a thread waits though the pool has room | `WaitsIfExhausted` without its premise |
| `lwt_pool.ml:171` | a `dispose` that raises stops `clear`: the members not yet disposed of are in no place any more | `OnePlace` without `NothingLoses`, program `{"clear", "dispose"}` |
| `lwt_pool.ml:84` | a replacement for a waiter that is canceled meanwhile belongs to nobody | `OnePlace` without `NothingLoses` |
| `lwt_pool.ml:145` | a member under validation during `clear` is used as a fresh one | `FreshAfterClear` |
| `lwt_unix.cppo.ml:2217` | a notifier that raises drops those received with it | `RefinesMailbox` with `reliable` for every program |
| `lwt_unix_stubs.c:754` | after a fork with something in the buffer the child is never woken, and its own jobs may stay pending | `SignaledIffPending` without `~forked`; `JobResolves` without `Unheard` |
| `lwt_unix_stubs.c:1008` | a spurious wakeup counts a worker as waiting twice: a job may wait for a busy thread | last part of `QueueServed` without its premise |
| `lwt_unix_stubs.c:1152` | after a fork `check_job` may lock a mutex that a thread of the parent held: the main thread of the child blocks for ever, before the promises that `fork` abandons are failed | `JobResolves` without `Stuck` |
| `lwt_stream.ml:279` | in the cancellation window the handler of a canceled push drops the pending element of another push | `RefinesChannel` with `"split"` in the bounded program |
| `lwt_stream.ml:474` | concurrent `nget`s read the data of the first node and consume another: elements twice, or an early end | `RefinesChannel` with `"nget"` and without `"alone"` |
| `lwt_stream.ml:260` | a stream of size 0 that is resized queues the pending element without a signal to the reader that waits | `RefinesChannel` with 0 in `Sizes` |
| `lwt_preemptive.ml:160` | `set_bounds` before the first `detach` is undone by `simple_init`, though the interface tells to call it | `BoundsKept` as a property of `unix` |
| `lwt_preemptive.ml:105` | the maximum is lowered: all workers may exit, and who waits for one is served by nobody until the next `detach` | `DetachEnds` without its last disjunct |
| `unix_readv_job.c:52` | after a short read the whole temporary buffers are copied over the OCaml ones | `BufferExact` with `"short"` for `readv` |
| `unix_bind_job.c:43`, `unix_getnameinfo_job.c:61` | `get_sockaddr` raises after the job was allocated, which leaks | `Released` with `"error"` for `bind`, `getnameinfo` |
| `unix_mincore.c` | the result of `mincore` is not looked at: a failure reports what was in the vector | `ErrorFromCall` with `"error"` for `mincore` |

These were met while the code was read for the models, which leave them out:

* `lwt_unix_stubs.c:586`: a failed write in `send_notification` raises with the
  identifier in the buffer; later senders see it there and do not write.
* `lwt_unix_stubs.c:239`: on Windows a thread that was not created counts as one
  that was.  `lwt_unix_stubs.c:301` reads `next` of a node after its event was
  set; that its owner cannot leave before is due to the mutex the pool holds.
* `unix_readlink_job.c:36`, `unix_gethostname_job.c:43` read `errno` after
  `free`, which is assumed to preserve it.  `unix_send_msg.c:77` keeps a pointer
  to an address whose block has ended.  `unix_recv_msg.c` reads the first
  `SCM_RIGHTS` message only.
* Non-reentrant lookups are kept apart by a mutex of OCaml, which `abort_jobs`
  releases while the worker still runs.  A directory is not protected at all:
  its users must not overlap.
* A speed of a terminal that is not in the table is read as 9600.
* `lwt_preemptive.ml`: raising the maximum from 0 serves no waiter; an exception
  that `Exception_filter` lets through ends a worker that stays counted.
* `lwt_stream.ml:178`: `push None` wakes the promise of the end last; a push from
  a callback before it is accepted behind the end.
* `lwt_timeout.ml`: a handler of exceptions that raises leaves `stopped` false
  with no loop running: no timeout fires again.
* `lwt_throttle.ml`: canceled calls count against the rate and the limit; a
  sliding second may see twice the rate.
* `lwt_engine.ml:362`: an exception out of an action leaves `sleep_queue`
  unassigned: timers called already are called again.  A descriptor that is not
  open, if its event stays registered, hides the ready ones.
* `lwt_unix.cppo.ml:2318`: when an action of an iteration forks, the descriptor
  that the child makes may have the number of the one it closed.  If that one was
  among those found ready, the child reads a descriptor nobody has written.
* `Lwt_main.abandon_yielded_and_paused` also abandons the pauses of jobs, whose
  `check_job` then does not come: their promises stay pending.

## 6. Plan

Done, in this order: sequences, the core, pause, the synchronisation modules, the
pool, notifications, jobs; streams; signal handlers; the stubs, terminal
attributes and the condition variables of Windows; detached computations; the
engine under the main loop, timeouts and throttles.  Next:

1. Theorems, after those of section 4: `NoLostCallback` and `CombinatorsAgree` with
   joins, whose counts are sums over the lists, and races; the safety part of `RefinesChannel` and
   `RefinesEvents`.
2. `LwtIo`: channel locks, the buffer, auto flush, close and abort; the states of
   descriptors with the retries of blocked calls; `LwtProcess`; children.
3. `transfer` and `destroy` of engines, the hooks and the nesting of
   `Lwt_main.run`.
4. Pure algorithms against references: `lwt_pqueue`, `lwt_list`, `lwt_retry`.

## 7. Not modelled

`ppx_lwt` (a syntax extension without state), `discover.ml` (build time),
`Lwt_fmt`, `Lwt_sys`, `Lwt_config` (no protocol), `Lwt_gc` (decided by the garbage
collector), libev itself (external).  Of the stubs: the alternatives that only
raise "not available", constants (`get_page_size`, `somaxconn`, `iov_max`,
`is_socket`), the bytecode and 64-bit variants, which repeat their native
32-bit twins, and the copies and byte orders of `lwt_unix_stubs.c:106-160`, pure
accesses to memory.  Of streams: those derived of others (`map`, `filter`,
`choose`, ...), `is_empty`, `parse` and `iter_n`, which are written with the calls
modelled.  `Lwt_io`, descriptors, `Lwt_process` in OCaml and the pure algorithms
are planned; `Lwt_react` is left for last.  A cycle of promises in which a promise
is made to depend on itself is excluded from `LwtCore`: there `cancel` does not
end.
