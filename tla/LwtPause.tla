------------------------------ MODULE LwtPause ------------------------------
(***************************************************************************)
(* Lwt.pause and Lwt.wakeup_paused (src/core/lwt.ml), on the sequence that *)
(* holds the paused promises: LwtSequence, with its pointers, because the  *)
(* code relies on what happens to nodes that were transferred, cleared or  *)
(* canceled.  Node n holds the promise n.  wakeup_paused moves all the     *)
(* nodes to a new sequence and wakes them one by one; user code runs in    *)
(* each wakeup, and may pause, cancel and abandon.                         *)
(***************************************************************************)
EXTENDS LwtSequence

CONSTANTS paused,          \* the sequence of that name
          Programs         \* sets of "cancel" and "abandon": what each program
                           \*   does besides pausing

(* Every wakeup_paused that finds a promise creates a sequence tmp.        *)
Tmps == Seqs \ {paused}

ASSUME PauseAssumption ==
    /\ paused \in Seqs
    /\ Tmps # {}
    /\ RemoveCleared

VARIABLES program,         \* the set of Programs that runs
          paused_count,
          promise,         \* promise[n]: its state
          canceling,       \* canceled promises whose cancel callback is to run
          tmp,             \* the sequence being woken, paused if there is none
          tmps,            \* the sequences created so far
          batch,           \* history: the promises that wakeup_paused found
          abandoned        \* history: the promises abandoned

pauseVars == <<paused_count, promise, canceling, tmp, tmps, batch, abandoned>>
allVars == <<vars, pauseVars, program>>

PauseTypeOK ==
    /\ TypeOK
    /\ paused_count \in Nat
    /\ promise \in [Nodes -> {"none", "Pending", "Fulfilled", "Canceled"}]
    /\ canceling \subseteq Nodes
    /\ tmp \in Seqs
    /\ tmps \subseteq Tmps
    /\ batch \subseteq Nodes
    /\ abandoned \subseteq Nodes

PauseInit ==
    /\ Init
    /\ program \in Programs
    /\ paused_count = 0
    /\ promise = [n \in Nodes |-> "none"]
    /\ canceling = {}
    /\ tmp = paused
    /\ tmps = {}
    /\ batch = {}
    /\ abandoned = {}

(* User code runs: in the main loop, or in the callbacks of a wakeup.      *)
UserCode == Turn /\ (tmp = paused \/ iter.pc = "f")

(* pause, with add_task_r.                                                 *)
pause ==
    /\ UserCode
    /\ \E n \in Nodes : add_r(paused, n)
    /\ promise' = [n \in Nodes |-> IF n \in used' \ used THEN "Pending" ELSE promise[n]]
    /\ paused_count' = paused_count + 1
    /\ UNCHANGED <<canceling, tmp, tmps, batch, abandoned>>

\* Mutant: the sequence is woken where it is.
wakeup_paused_in_place ==
    /\ tmp = paused /\ iter.pc = "idle" /\ canceling = {}
    /\ ~is_empty(paused)
    /\ iter_begin(paused, "l")
    /\ paused_count' = 0
    /\ batch' = Members(paused)
    /\ UNCHANGED <<promise, canceling, tmp, tmps, abandoned>>

wakeup_paused ==
    /\ tmp = paused /\ iter.pc = "idle" /\ canceling = {}
    /\ paused_count' = 0
    /\ \/ /\ is_empty(paused)
          /\ UNCHANGED <<vars, tmp, tmps, batch>>
       \/ /\ ~is_empty(paused)
          /\ tmp' \in Tmps \ tmps
          /\ tmps' = tmps \cup {tmp'}
          /\ transfer_r(paused, tmp')
          /\ batch' = Members(paused)
    /\ UNCHANGED <<promise, canceling, abandoned>>

(* Lwt_sequence.iter_l on tmp.                                             *)
wakeup_begin ==
    /\ tmp # paused /\ iter.pc = "idle"
    /\ iter_begin(tmp, "l")
    /\ UNCHANGED pauseVars

\* Mutant: the count is reset when everything has been woken.
wakeup_end_reset ==
    /\ iter_end
    /\ tmp' = paused
    /\ paused_count' = 0
    /\ UNCHANGED <<promise, canceling, tmps, batch, abandoned>>

wakeup_end ==
    /\ iter_end
    /\ tmp' = paused
    /\ UNCHANGED <<paused_count, promise, canceling, tmps, batch, abandoned>>

(* wakeup r (), which ignores a canceled promise.                          *)
wakeup_one ==
    /\ iter_visit
    /\ promise' = [promise EXCEPT ![iter.curr] = IF @ = "Pending" THEN "Fulfilled" ELSE @]
    /\ UNCHANGED <<paused_count, canceling, tmp, tmps, batch, abandoned>>

(* The promise just woken cannot be canceled any more: its node is still   *)
(* active, and so is the one after it when the callbacks have returned.    *)
wakeup_return == canceling = {} /\ iter_return /\ UNCHANGED pauseVars

(* The two phases of cancel on a paused promise.                           *)
cancel(n) ==
    /\ "cancel" \in program
    /\ UserCode
    /\ promise[n] = "Pending"
    /\ promise' = [promise EXCEPT ![n] = "Canceled"]
    /\ canceling' = canceling \cup {n}
    /\ UNCHANGED <<vars, paused_count, tmp, tmps, batch, abandoned>>

cancel_callback(n) ==
    /\ n \in canceling
    /\ canceling' = canceling \ {n}
    /\ IF active[n] THEN remove(n) ELSE UNCHANGED vars
    /\ UNCHANGED <<paused_count, promise, tmp, tmps, batch, abandoned>>

abandon_paused ==
    /\ "abandon" \in program
    /\ UserCode
    /\ clear(paused)
    /\ paused_count' = 0
    /\ abandoned' = abandoned \cup Members(paused)
    /\ UNCHANGED <<promise, canceling, tmp, tmps, batch>>

PauseNext ==
    /\ \/ pause \/ wakeup_paused \/ wakeup_begin \/ wakeup_end
       \/ wakeup_one \/ wakeup_return \/ abandon_paused
       \/ \E n \in Nodes : cancel(n) \/ cancel_callback(n)
    /\ UNCHANGED program

PauseSpec == PauseInit /\ [][PauseNext]_allVars
-----------------------------------------------------------------------------
(* Lwt_main blocks on I/O if the count is zero: it is never zero while a   *)
(* promise waits to be woken (pause, wakeup_paused, abandon_paused).       *)
CountCoversPaused ==
    paused_count = 0 => \A n \in Members(paused) : promise[n] # "Pending"

(* lwt.mli:1878: wakeup_paused "fulfills all promises created with         *)
(* {!Lwt.pause} since the last time".  None of them is missed, whatever    *)
(* the callbacks it runs cancel, pause or abandon; and one paused by them  *)
(* waits for the next time, so that a loop that pauses lets the main loop  *)
(* go on.                                                                  *)
WokenExactly ==
    [][/\ wakeup_end => \A n \in batch : promise[n] # "Pending"
       /\ \A n \in Nodes : promise[n] # promise'[n] /\ promise'[n] = "Fulfilled"
                               => n \in batch]_allVars

(* lwt.mli:1902: abandon_paused "Causes promises created with              *)
(* {!Lwt.pause} to remain forever pending".                                *)
AbandonedStayPending ==
    \A n \in abandoned : promise[n] # "Fulfilled"

(* lwt.mli:1886: paused_count "Returns the number of promises that would   *)
(* be fulfilled by calling [Lwt.wakeup_paused] right now".                 *)
CountExact ==
    canceling = {} =>
        paused_count = Cardinality({n \in Members(paused) : promise[n] = "Pending"})
=============================================================================
