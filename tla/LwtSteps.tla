------------------------------ MODULE LwtSteps ------------------------------
(***************************************************************************)
(* The vocabulary in which the C functions of src/unix are written down: a *)
(* function is the sequence of its steps that acquire or release           *)
(* something, call the system, move data or errors, branch, or end it.     *)
(* What the steps do is in LwtStubs; this module also has the macros of    *)
(* lwt_unix.h, which are sequences of them.                                *)
(***************************************************************************)
EXTENDS Sequences

(* What the function acquires: memory, a descriptor, a root.               *)
Alloc(b) == <<"alloc", b>>            \* lwt_unix_malloc: it aborts on NULL
Free(b) == <<"free", b>>
FreeIf(b) == <<"freeif", b>>          \* unless it is NULL
Close(b) == <<"close", b>>            \* a call of the system: errno changes
CloseIf(b) == <<"closeif", b>>        \* unless it is -1
Give(b) == <<"give", b>>              \* it now belongs to OCaml
Take(b) == <<"alloc", b>>             \* it did until now

(* Arguments and results.                                                  *)
Store(fields) == <<"store", fields>>  \* into the job structure
Arg(field) == <<"arg", field>>        \* caml_copy_string(job->field)
Value(bs) == <<"value", bs>>          \* an OCaml value, made of the blocks bs
CopyOut == <<"copyout">>              \* the bytes, into C memory
CopyIn(which) == <<"copyin", which>>  \* back: "count" cells of it, or "all"
ZeroCount == <<"zerocount">>

(* The system, with the fields it is given and the outcomes the code tells *)
(* apart; a library call may leave its result in storage that calls share. *)
(* The cells of a buffer of each kind are transferred through C memory     *)
(* ("copy") or in place ("direct").                                        *)
Call(fields, outs) == <<"call", fields, outs, "none">>
CallStatic(fields, outs, s) == <<"call", fields, outs, s>>
Fetch(s) == <<"fetch", s>>            \* a copy of what is in s
Read(fields, how) == <<"read", fields, how, {"error"}>>
ReadPipe(fields, how) == <<"read", fields, how, {"error", "broken"}>>
Write(fields, how) == <<"write", fields, how>>
Touch == <<"touch">>                  \* reads a cell of the buffer
Copied == [bytes |-> "copy", big |-> "direct"]
InPlace == [bytes |-> "direct", big |-> "direct"]

(* A directory, which is NULL when it is closed.                           *)
ValidDir == <<"validdir">>
UseDir == <<"usedir">>
CloseDir == <<"closedir">>
InvalidateDir == <<"invalidatedir">>

(* errno, the field of the job and a local variable.                       *)
ClearErrno == <<"errno">>             \* errno = 0
Save == <<"save">>                    \* job->error_code = errno
Set(e) == <<"set", e>>                \* job->error_code = e
Load == <<"load">>                    \* error = job->error_code
SaveLocal == <<"savelocal">>          \* error = errno
Restore == <<"restore">>              \* errno = error

(* Control.  A case is chosen by the last outcome, that is by job->result  *)
(* (Switch) or a local variable (Test); a Loop is left by Exit, which ends *)
(* a void function.                                                        *)
Wrap == <<"wrap">>
Switch(cases) == <<"switch", cases>>
Test(cases) == <<"test", cases>>
IfError(broken, yes, no) == <<"iferror", [broken |-> broken, yes |-> yes, no |-> no]>>
Loop(body) == <<"loop", body>>
Exit == <<"exit">>
Raise(e) == <<"raise", e>>            \* "code": the variable, or "errno"
Return == <<"return">>
-----------------------------------------------------------------------------
LWT_UNIX_INIT_JOB(fields) == <<Alloc("job"), Store(fields)>>

(* The strings are the last fields of the structure, in its own block.     *)
LWT_UNIX_INIT_JOB_STRING(field, fields) == <<Alloc("job"), Store({field} \cup fields)>>
LWT_UNIX_INIT_JOB_STRING2(field1, field2, fields) ==
    <<Alloc("job"), Store({field1, field2} \cup fields)>>

lwt_unix_alloc_job == <<Wrap>>
lwt_unix_free_job == <<Free("job")>>

(* What follows the test of the macros.                                    *)
LWT_UNIX_CHECK_JOB == <<Load>> \o lwt_unix_free_job \o <<Raise("code")>>
LWT_UNIX_CHECK_JOB_ARG(field) == <<Load, Arg(field)>> \o lwt_unix_free_job \o <<Raise("code")>>

(* malloc or strdup whose NULL makes the function free what undo says and  *)
(* return NULL.                                                            *)
TryAlloc(b, undo) ==
    <<Call({}, {"ok", "null"}), Test([ok |-> <<Alloc(b)>>, null |-> undo \o <<Exit>>])>>

Job(stub, worker, result) ==
    [stub |-> stub, worker |-> worker, result |-> result, cells |-> <<>>, mutex |-> {}]
Stub(steps) == Job(steps, <<>>, <<>>)
WithBuffer(job, cells) == [job EXCEPT !.cells = cells]
WithMutex(job, m) == [job EXCEPT !.mutex = {m}]
=============================================================================
