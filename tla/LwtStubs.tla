------------------------------ MODULE LwtStubs ------------------------------
(***************************************************************************)
(* The machine that runs the C stubs of src/unix/unix_c and                *)
(* src/unix/windows_c, which LwtUnixStubs and LwtWindowsStubs write down   *)
(* in the steps of LwtSteps.  A job has three functions: the stub, called  *)
(* by OCaml, the worker, run by a thread without the runtime lock, and the *)
(* result, called by OCaml again.  A direct stub, for a call that does not *)
(* block, has the first one only.                                          *)
(*                                                                         *)
(* While the stub and the result run, the main thread runs nothing else;   *)
(* at any other time the rest of the program runs: it writes to the        *)
(* buffers it has given, and the collector moves or frees them.  The       *)
(* collector also runs when a stub allocates.                              *)
(***************************************************************************)
EXTENDS Naturals, LwtSteps

CONSTANTS Calls,
          NoCall,
          Catalogue,      \* the jobs by name
          Mutexes,        \* of lwt_unix.cppo.ml and of the program
          Statics,        \* the storage shared by calls of the C library
          MaxRetries,     \* how often a call asks for a larger buffer
          Programs        \* each one says of each call which job it is, the
                          \* outcomes of system calls, whether the program
                          \* goes on using the buffer, and which calls it
                          \* does not make together

ASSUME StubsAssumption ==
    /\ MaxRetries \in Nat
    /\ NoCall \notin Calls
    /\ \A p \in Programs : \A c \in Calls :
           p[c] # NoCall => p[c].job \in DOMAIN Catalogue /\ p[c].locks \subseteq Mutexes

VARIABLES calls,          \* the one of Programs that runs
          phase, todo,    \* where a call is, the rest of the function
          live, freed,    \* what it holds, what it has released
          stored,         \* the fields of the job that are set
          status,         \* the outcome of the last system call
          retries,
          errno,          \* that of the thread that runs the call
          error_code,     \* the field of the job
          error,          \* the local variable
          why,            \* history: the outcome that decides
          outcome,        \* how the call ended
          buffer, temp,   \* the cells of the OCaml buffer, of the C one
          count, sent,    \* how many were transferred, what was written
          written,        \* the program wrote to the buffer during the call
          moved, stale,   \* the bytes were moved; C's pointer was not
          alive,          \* the kinds of buffers that are not collected
          static, entry,  \* whose entry is in a shared storage; whose entry
                          \* a call has stored
          dir,            \* the directory
          owner           \* of the mutexes

flowVars == <<calls, phase, todo>>
errorVars == <<status, retries, errno, error_code, error, why, outcome>>
memoryVars == <<live, freed, stored>>
dataVars == <<buffer, temp, count, sent, written>>
heapVars == <<moved, stale, alive>>
sharedVars == <<static, entry, dir, owner>>
stubVars == <<flowVars, errorVars, memoryVars, dataVars, heapVars, sharedVars>>

Active == {c \in Calls : calls[c] # NoCall}
JobOf(c) == Catalogue[calls[c].job]
Cells(c) == IF calls[c] = NoCall THEN <<>> ELSE JobOf(c).cells
MutexesOf(c) == JobOf(c).mutex \cup calls[c].locks

Op(c) == IF todo[c] = <<>> THEN "end" ELSE Head(todo[c])[1]
Operand(c) == Head(todo[c])[2]
At(c, op) == phase[c] \in {"stub", "worker", "result"} /\ Op(c) = op
Goto(c, steps) == todo' = [todo EXCEPT ![c] = steps]
Advance(c) == Goto(c, Tail(todo[c]))

Outcomes == {"ok", "error", "end", "empty", "small", "null", "invalid", "locked", "broken",
             "failure"}
Errors == {"stale", "zero", "E", "BROKEN_PIPE"}
Codes == Errors \cup {"uninitialised", "EACCES"}

StubTypeOK ==
    /\ phase \in [Calls -> {"idle", "stub", "queued", "worker", "done", "result", "over"}]
    /\ status \in [Calls -> Outcomes \cup {"none"}]
    /\ errno \in [Calls -> Errors]
    /\ error_code \in [Calls -> Codes]
    /\ outcome \in [Calls -> Codes \cup {"none", "returned", "Not_found", "End_of_file",
                                         "Invalid_argument", "Failure", "EBADF"}]
    /\ retries \in [Calls -> 0..MaxRetries]
    /\ alive \in [Calls -> SUBSET {"bytes", "big"}]
    /\ static \in [Statics -> Calls \cup {NoCall}]
    /\ entry \in [Calls -> Calls \cup {NoCall}]
    /\ dir \in {"open", "closed", "null"}
    /\ owner \in [Mutexes -> Calls \cup {NoCall}]

StubInit ==
    /\ calls \in Programs
    /\ phase = [c \in Calls |-> IF calls[c] = NoCall THEN "over" ELSE "idle"]
    /\ todo = [c \in Calls |-> <<>>]
    /\ live = [c \in Calls |-> {}]
    /\ freed = [c \in Calls |-> {}]
    /\ stored = [c \in Calls |-> {}]
    /\ status = [c \in Calls |-> "none"]
    /\ retries = [c \in Calls |-> 0]
    /\ errno = [c \in Calls |-> "stale"]
    /\ error_code = [c \in Calls |-> "uninitialised"]
    /\ error = [c \in Calls |-> "uninitialised"]
    /\ why = [c \in Calls |-> "ok"]
    /\ outcome = [c \in Calls |-> "none"]
    /\ buffer = [c \in Calls |-> [i \in DOMAIN Cells(c) |-> "old"]]
    /\ temp = [c \in Calls |-> [i \in DOMAIN Cells(c) |-> "junk"]]
    /\ count = [c \in Calls |-> 0]
    /\ sent = [c \in Calls |-> <<>>]
    /\ moved = [c \in Calls |-> FALSE]
    /\ stale = [c \in Calls |-> FALSE]
    /\ alive = [c \in Calls |-> {Cells(c)[i] : i \in DOMAIN Cells(c)}]
    /\ written = [c \in Calls |-> FALSE]
    /\ static = [s \in Statics |-> NoCall]
    /\ entry = [c \in Calls |-> NoCall]
    /\ dir = "open"
    /\ owner = [m \in Mutexes |-> NoCall]
-----------------------------------------------------------------------------
(* The call, from OCaml: the main thread runs one function at a time, and  *)
(* some calls are made with a mutex.                                       *)
MainIsFree == \A c \in Calls : phase[c] \notin {"stub", "result"}

begin(c) ==
    /\ phase[c] = "idle"
    /\ MainIsFree
    /\ \A m \in MutexesOf(c) : owner[m] = NoCall
    /\ owner' = [m \in Mutexes |-> IF m \in MutexesOf(c) THEN c ELSE owner[m]]
    /\ phase' = [phase EXCEPT ![c] = "stub"]
    /\ Goto(c, JobOf(c).stub)
    /\ UNCHANGED <<calls, errorVars, memoryVars, dataVars, heapVars, static, entry, dir>>

(* lwt_unix_alloc_job ends the stub: the job is handed to the pool.        *)
wrap(c) ==
    /\ At(c, "wrap")
    /\ phase' = [phase EXCEPT ![c] = "queued"]
    /\ Goto(c, <<>>)
    /\ UNCHANGED <<calls, errorVars, memoryVars, dataVars, heapVars, sharedVars>>

(* A worker thread has the errno of whatever it ran before.                *)
execute(c) ==
    /\ phase[c] = "queued"
    /\ phase' = [phase EXCEPT ![c] = "worker"]
    /\ Goto(c, JobOf(c).worker)
    /\ errno' = [errno EXCEPT ![c] = "stale"]
    /\ UNCHANGED <<calls, status, retries, error_code, error, why, outcome, memoryVars,
                   dataVars, heapVars, sharedVars>>

finish(c) ==
    /\ phase[c] = "worker"
    /\ Op(c) \in {"end", "exit"}
    /\ phase' = [phase EXCEPT ![c] = "done"]
    /\ Goto(c, <<>>)
    /\ UNCHANGED <<calls, errorVars, memoryVars, dataVars, heapVars, sharedVars>>

result(c) ==
    /\ phase[c] = "done"
    /\ MainIsFree
    /\ phase' = [phase EXCEPT ![c] = "result"]
    /\ Goto(c, JobOf(c).result)
    /\ errno' = [errno EXCEPT ![c] = "stale"]
    /\ UNCHANGED <<calls, status, retries, error_code, error, why, outcome, memoryVars,
                   dataVars, heapVars, sharedVars>>

(* The function returns to OCaml or raises, and the mutex is released.     *)
Over(c, how) ==
    /\ phase' = [phase EXCEPT ![c] = "over"]
    /\ Goto(c, <<>>)
    /\ outcome' = [outcome EXCEPT ![c] = how]
    /\ owner' = [m \in Mutexes |-> IF owner[m] = c THEN NoCall ELSE owner[m]]
    /\ UNCHANGED <<calls, status, retries, errno, error_code, error, why, memoryVars,
                   dataVars, heapVars, static, entry, dir>>

return(c) == At(c, "return") /\ Over(c, "returned")

(* The directory is not valid: the call fails before it has begun.         *)
valid_dir(c) ==
    /\ At(c, "validdir")
    /\ \/ dir = "null" /\ Over(c, "EBADF")
       \/ /\ dir # "null"
          /\ Advance(c)
          /\ UNCHANGED <<calls, phase, errorVars, memoryVars, dataVars, heapVars, sharedVars>>

raise(c) ==
    /\ At(c, "raise")
    /\ Over(c, CASE Operand(c) = "code" -> error[c]
                  [] Operand(c) = "errno" -> errno[c]
                  [] OTHER -> Operand(c))
-----------------------------------------------------------------------------
(* Blocks of memory, descriptors and roots.                                *)
alloc(c) ==
    /\ At(c, "alloc")
    /\ live' = [live EXCEPT ![c] = @ \cup {Operand(c)}]
    /\ freed' = [freed EXCEPT ![c] = @ \ {Operand(c)}]
    /\ Advance(c)
    /\ UNCHANGED <<calls, phase, stored, errorVars, dataVars, heapVars, sharedVars>>

(* free leaves errno as it was, as POSIX.1-2024 asks; close need not.      *)
free(c) ==
    /\ \/ /\ \/ At(c, "free") \/ At(c, "freeif")
             \/ At(c, "closeif") /\ Operand(c) \notin live[c]
          /\ UNCHANGED errno
       \/ /\ \/ At(c, "close")
             \/ At(c, "closeif") /\ Operand(c) \in live[c]
          /\ errno' \in {errno, [errno EXCEPT ![c] = "stale"]}
    /\ live' = [live EXCEPT ![c] = @ \ {Operand(c)}]
    /\ freed' = [freed EXCEPT ![c] = @ \cup (live[c] \cap {Operand(c)})]
    /\ Advance(c)
    /\ UNCHANGED <<calls, phase, stored, status, retries, error_code, error, why, outcome,
                   dataVars, heapVars, sharedVars>>

give(c) ==
    /\ At(c, "give")
    /\ live' = [live EXCEPT ![c] = @ \ {Operand(c)}]
    /\ Advance(c)
    /\ UNCHANGED <<calls, phase, freed, stored, errorVars, dataVars, heapVars, sharedVars>>

store(c) ==
    /\ At(c, "store")
    /\ stored' = [stored EXCEPT ![c] = @ \cup Operand(c)]
    /\ Advance(c)
    /\ UNCHANGED <<calls, phase, live, freed, errorVars, dataVars, heapVars, sharedVars>>

(* An OCaml value is made of what C holds.                                 *)
convert(c) ==
    /\ At(c, "arg") \/ At(c, "value")
    /\ Advance(c)
    /\ UNCHANGED <<calls, phase, errorVars, memoryVars, dataVars, heapVars, sharedVars>>
-----------------------------------------------------------------------------
(* A system call.  One that succeeds may leave anything in errno, one that *)
(* finds nothing leaves it as it was.                                      *)
ErrorOf(out) == CASE out = "error" -> "E" [] out = "broken" -> "BROKEN_PIPE"

Outcome(c, out) ==
    /\ status' = [status EXCEPT ![c] = out]
    /\ \/ out \in {"error", "broken"} /\ errno' = [errno EXCEPT ![c] = ErrorOf(out)]
       \/ out \notin {"error", "broken"} /\ UNCHANGED errno
       \/ out = "ok" /\ errno' = [errno EXCEPT ![c] = "stale"]
    /\ why' = [why EXCEPT ![c] = out]

call(c) ==
    /\ At(c, "call")
    /\ \E out \in Head(todo[c])[3] \cap ({"ok"} \cup calls[c].outs) :
          /\ out = "small" => retries[c] < MaxRetries
          /\ retries' = [retries EXCEPT ![c] = IF out = "small" THEN @ + 1 ELSE @]
          /\ Outcome(c, out)
          /\ static' = [s \in Statics |->
                           IF s = Head(todo[c])[4] /\ out = "ok" THEN c ELSE static[s]]
    /\ Advance(c)
    /\ UNCHANGED <<calls, phase, error_code, error, outcome, memoryVars, dataVars, heapVars,
                   entry, dir, owner>>

fetch(c) ==
    /\ At(c, "fetch")
    /\ entry' = [entry EXCEPT ![c] = static[Operand(c)]]
    /\ Advance(c)
    /\ UNCHANGED <<calls, phase, errorVars, memoryVars, dataVars, heapVars, static, dir, owner>>

Counts(c) == IF "short" \in calls[c].outs THEN 0..Len(Cells(c)) ELSE {Len(Cells(c))}
How(c, i) == Head(todo[c])[3][Cells(c)[i]]
Failures(c) == Head(todo[c])[4] \cap calls[c].outs

(* The first n cells are filled: in C memory, or in the buffer itself.  If *)
(* it fails, the number is -1, which is large as the length of a copy.     *)
read(c) ==
    /\ At(c, "read")
    /\ \/ /\ \E out \in Failures(c) : Outcome(c, out)
          /\ count' = [count EXCEPT ![c] = Len(Cells(c))]
          /\ UNCHANGED <<buffer, temp>>
       \/ /\ Outcome(c, "ok")
          /\ \E n \in Counts(c) :
                LET Filled(i, how) == i <= n /\ How(c, i) = how
                IN  /\ count' = [count EXCEPT ![c] = n]
                    /\ temp' = [temp EXCEPT ![c] = [i \in DOMAIN Cells(c) |->
                                  IF Filled(i, "copy") THEN "data" ELSE @[i]]]
                    /\ buffer' = [buffer EXCEPT ![c] = [i \in DOMAIN Cells(c) |->
                                  IF Filled(i, "direct") THEN "data" ELSE @[i]]]
    /\ Advance(c)
    /\ UNCHANGED <<calls, phase, retries, error_code, error, outcome, memoryVars, sent, written,
                   heapVars, sharedVars>>

write(c) ==
    /\ At(c, "write")
    /\ \/ /\ "error" \in calls[c].outs
          /\ Outcome(c, "error")
          /\ UNCHANGED <<sent, count>>
       \/ /\ Outcome(c, "ok")
          /\ \E n \in Counts(c) :
                /\ count' = [count EXCEPT ![c] = n]
                /\ sent' = [sent EXCEPT ![c] = [i \in 1..n |->
                              IF How(c, i) = "copy" THEN temp[c][i] ELSE buffer[c][i]]]
    /\ Advance(c)
    /\ UNCHANGED <<calls, phase, retries, error_code, error, outcome, memoryVars, buffer, temp,
                   written, heapVars, sharedVars>>

touch(c) ==
    /\ At(c, "touch")
    /\ Advance(c)
    /\ UNCHANGED <<calls, phase, errorVars, memoryVars, dataVars, heapVars, sharedVars>>

(* memcpy between the bytes and the C memory, and the count that the       *)
(* function returns.                                                       *)
copy(c) ==
    /\ \/ /\ At(c, "copyout")
          /\ temp' = [temp EXCEPT ![c] = [i \in DOMAIN Cells(c) |->
                        IF Cells(c)[i] = "bytes" THEN buffer[c][i] ELSE @[i]]]
          /\ UNCHANGED <<buffer, count>>
       \/ /\ At(c, "copyin")
          /\ buffer' = [buffer EXCEPT ![c] = [i \in DOMAIN Cells(c) |->
                          IF Cells(c)[i] = "bytes" /\ (Operand(c) = "all" \/ i <= count[c])
                          THEN temp[c][i] ELSE @[i]]]
          /\ UNCHANGED <<temp, count>>
       \/ /\ At(c, "zerocount")
          /\ count' = [count EXCEPT ![c] = 0]
          /\ UNCHANGED <<buffer, temp>>
    /\ Advance(c)
    /\ UNCHANGED <<calls, phase, errorVars, memoryVars, sent, written, heapVars, sharedVars>>

(* The directory of the program: its operations check that it is not NULL, *)
(* and the last one of closedir makes it NULL.                             *)
directory(c) ==
    /\ \/ At(c, "usedir") /\ UNCHANGED dir
       \/ At(c, "closedir") /\ dir' = "closed"
       \/ At(c, "invalidatedir") /\ dir' = "null"
    /\ Advance(c)
    /\ UNCHANGED <<calls, phase, errorVars, memoryVars, dataVars, heapVars, static, entry, owner>>
-----------------------------------------------------------------------------
(* errno, and the field and the variable it is kept in.                    *)
set_error(c) ==
    /\ \/ At(c, "errno") /\ errno' = [errno EXCEPT ![c] = "zero"]
                         /\ UNCHANGED <<error_code, error>>
       \/ At(c, "restore") /\ errno' = [errno EXCEPT ![c] = error[c]]
                           /\ UNCHANGED <<error_code, error>>
       \/ At(c, "save") /\ error_code' = [error_code EXCEPT ![c] = errno[c]]
                        /\ UNCHANGED <<errno, error>>
       \/ At(c, "set") /\ error_code' = [error_code EXCEPT ![c] = Operand(c)]
                       /\ UNCHANGED <<errno, error>>
       \/ At(c, "load") /\ error' = [error EXCEPT ![c] = error_code[c]]
                        /\ UNCHANGED <<errno, error_code>>
       \/ At(c, "savelocal") /\ error' = [error EXCEPT ![c] = errno[c]]
                             /\ UNCHANGED <<errno, error_code>>
    /\ Advance(c)
    /\ UNCHANGED <<calls, phase, status, retries, why, outcome, memoryVars, dataVars, heapVars,
                   sharedVars>>

(* A branch of the function.  A field that was never assigned is zero or   *)
(* not.                                                                    *)
branch(c) ==
    /\ \/ (At(c, "switch") \/ At(c, "test")) /\ Goto(c, Operand(c)[status[c]] \o Tail(todo[c]))
       \/ At(c, "loop") /\ Goto(c, Operand(c) \o todo[c])
       \/ /\ At(c, "iferror")
          /\ \/ error_code[c] \notin {"zero", "BROKEN_PIPE"}
                /\ Goto(c, Operand(c).yes \o Tail(todo[c]))
             \/ error_code[c] = "BROKEN_PIPE" /\ Goto(c, Operand(c).broken \o Tail(todo[c]))
             \/ error_code[c] \in {"zero", "uninitialised"}
                /\ Goto(c, Operand(c).no \o Tail(todo[c]))
    /\ UNCHANGED <<calls, phase, errorVars, memoryVars, dataVars, heapVars, sharedVars>>
-----------------------------------------------------------------------------
(* The program and the collector.                                          *)
Elsewhere(c) == phase[c] \in {"queued", "worker", "done"}

(* The values that a generational global root keeps, and the ones whose    *)
(* field in C it updates.                                                  *)
Keeps(kind) == {"ocaml_io_vectors"} \cup
                 (IF kind = "bytes" THEN {"string", "caml_buffer"} ELSE {"ocaml_buffer"})
Updates == {"string", "caml_buffer"}

write_buffer(c) ==
    /\ Elsewhere(c)
    /\ calls[c].held
    /\ Cells(c) # <<>> /\ ~written[c]
    /\ buffer' = [buffer EXCEPT ![c] = [i \in DOMAIN Cells(c) |-> "new"]]
    /\ written' = [written EXCEPT ![c] = TRUE]
    /\ UNCHANGED <<flowVars, errorVars, memoryVars, temp, count, sent, heapVars, sharedVars>>

collect(c) ==
    /\ Elsewhere(c) \/ At(c, "wrap") \/ At(c, "arg") \/ At(c, "value")
    /\ \/ /\ "bytes" \in alive[c] /\ ~moved[c]
          /\ moved' = [moved EXCEPT ![c] = TRUE]
          /\ stale' = [stale EXCEPT ![c] = live[c] \cap Updates = {}]
          /\ UNCHANGED alive
       \/ /\ ~calls[c].held
          /\ \E kind \in alive[c] :
                /\ live[c] \cap Keeps(kind) = {}
                /\ alive' = [alive EXCEPT ![c] = @ \ {kind}]
          /\ UNCHANGED <<moved, stale>>
    /\ UNCHANGED <<flowVars, errorVars, memoryVars, dataVars, sharedVars>>

StubStep(c) ==
    \/ begin(c) \/ wrap(c) \/ execute(c) \/ finish(c) \/ result(c) \/ return(c) \/ raise(c)
    \/ valid_dir(c) \/ alloc(c) \/ free(c) \/ give(c) \/ store(c) \/ convert(c) \/ call(c)
    \/ fetch(c) \/ read(c) \/ write(c) \/ touch(c) \/ copy(c) \/ directory(c)
    \/ set_error(c) \/ branch(c)

StubNext == \E c \in Active : StubStep(c) \/ write_buffer(c) \/ collect(c)

StubSpec == StubInit /\ [][StubNext]_stubVars
-----------------------------------------------------------------------------
(* What the next step of a function reads or writes is there: the job      *)
(* structure until it is freed, and the fields that the system call or the *)
(* error takes from it; what is freed or converted; the directory; and the *)
(* OCaml buffer, which the collector may have moved or freed.              *)
Direct(c) == {Cells(c)[i] : i \in {i \in DOMAIN Cells(c) : How(c, i) = "direct"}}

NeedsBuffer(c) ==
    CASE Op(c) \in {"read", "write"} -> Direct(c)
      [] Op(c) \in {"copyout", "copyin"} -> {"bytes"}
      [] Op(c) = "touch" -> {"big"}
      [] OTHER -> {}

NeedsFields(c) ==
    CASE Op(c) \in {"call", "read", "write"} -> Operand(c)
      [] Op(c) = "arg" -> {Operand(c)}
      [] OTHER -> {}

ReadsJob(c) ==
    \/ Op(c) \in {"store", "wrap", "switch", "iferror", "save", "set", "load", "usedir",
                  "copyout", "copyin", "zerocount", "fetch"}
    \/ NeedsFields(c) # {}

NoDangling ==
    \A c \in Active : phase[c] \in {"stub", "worker", "result"} =>
        /\ ReadsJob(c) => "job" \notin freed[c]
        /\ Op(c) \in {"free", "close", "give"} => Operand(c) \in live[c]
        /\ Op(c) \in {"freeif", "closeif"} => Operand(c) \notin freed[c]
        /\ Op(c) = "value" => Operand(c) \subseteq live[c]
        /\ NeedsFields(c) \subseteq stored[c]
        /\ Op(c) \in {"usedir", "closedir"} => dir = "open"
        /\ NeedsBuffer(c) \subseteq alive[c]
        /\ "bytes" \in NeedsBuffer(c) => ~stale[c]

(* When a call has returned or raised, everything it acquired has been     *)
(* released, on every path of success or failure; and nothing is acquired  *)
(* twice.                                                                  *)
Released ==
    \A c \in Active :
        /\ phase[c] = "over" => live[c] = {}
        /\ At(c, "alloc") => Operand(c) \notin live[c]

(* A call fails exactly if its system call did, with the error of that     *)
(* call and not one left in errno, or in the job, by something else.       *)
Answer(out) ==
    CASE out \in {"ok", "empty", "broken"} -> "returned"
      [] out = "end" -> "End_of_file"
      [] out = "null" -> "Not_found"
      [] out = "invalid" -> "Invalid_argument"
      [] out = "failure" -> "Failure"
      [] out = "error" -> "E"
      [] out = "locked" -> "EACCES"
      [] OTHER -> out

ErrorFromCall ==
    \A c \in Active : phase[c] = "over" => outcome[c] \in {Answer(why[c]), "EBADF"}

(* A read fills the first bytes of the buffer, as many as it says, and     *)
(* leaves the others to the program; a write of bytes sends what they were *)
(* when it was called, whatever the program and the collector do to them   *)
(* meanwhile.                                                              *)
BufferExact ==
    \A c \in Active : phase[c] = "over" /\ outcome[c] = "returned" =>
        /\ \A i \in DOMAIN buffer[c] :
               IF i <= count[c] /\ sent[c] = <<>>
               THEN buffer[c][i] = "data" \/ (Cells(c)[i] = "big" /\ written[c])
               ELSE buffer[c][i] = IF written[c] THEN "new" ELSE "old"
        /\ \A i \in DOMAIN sent[c] : Cells(c)[i] = "bytes" => sent[c][i] = "old"

(* The entry that a lookup returns is its own, although the C library      *)
(* leaves it in a place that the next lookup overwrites.                   *)
OwnEntry == \A c \in Active : entry[c] \in {NoCall, c}
=============================================================================
