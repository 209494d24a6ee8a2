--------------------------- MODULE LwtWindowsStubs ---------------------------
(***************************************************************************)
(* The stubs of src/unix/windows_c, the processes of lwt_process_stubs.c   *)
(* and the pair of sockets of lwt_unix_stubs.c, in the steps of LwtSteps.  *)
(* Here errno stands for GetLastError and WSAGetLastError.  The jobs clear *)
(* their error code and a worker sets it only if its call failed; a broken *)
(* pipe is the end of the file for a read and an error for a write.        *)
(***************************************************************************)
EXTENDS LwtSteps

Transfer(step) == <<step, Switch([ok |-> <<>>, error |-> <<Save>>, broken |-> <<Save>>])>>
Raised(release) == release \o lwt_unix_free_job \o <<Raise("code")>>
Returned(release) == release \o lwt_unix_free_job \o <<Return>>

(* The kind of the descriptor is checked before anything is allocated.     *)
RequireHandle == <<Call({}, {"ok", "invalid"}),
                   Test([ok |-> <<>>, invalid |-> <<Raise("Invalid_argument")>>])>>
-----------------------------------------------------------------------------
(* The bytes are read into the job and copied by the result function.      *)
windows_read_job ==
    WithBuffer(Job(LWT_UNIX_INIT_JOB({"fd", "kind", "length", "string", "offset"})
                     \o <<Set("zero"), Alloc("string")>> \o lwt_unix_alloc_job,
                   Transfer(ReadPipe({"fd", "kind", "length"}, Copied)),
                   <<Load, IfError(<<ZeroCount>>, Raised(<<Free("string")>>), <<>>)>>
                     \o Returned(<<CopyIn("count"), Free("string")>>)),
               <<"bytes", "bytes">>)

windows_pread_job ==
    WithBuffer(Job(RequireHandle
                     \o LWT_UNIX_INIT_JOB({"handle", "length", "Offset", "string", "offset"})
                     \o <<Set("zero"), Alloc("string")>> \o lwt_unix_alloc_job,
                   Transfer(ReadPipe({"handle", "length", "Offset"}, Copied)),
                   <<Load, IfError(<<ZeroCount>>, Raised(<<Free("string")>>), <<>>)>>
                     \o Returned(<<CopyIn("count"), Free("string")>>)),
               <<"bytes", "bytes">>)

windows_bytes_read_job ==
    WithBuffer(Job(LWT_UNIX_INIT_JOB({"fd", "kind", "buffer", "length", "ocaml_buffer"})
                     \o <<Set("zero"), Alloc("ocaml_buffer")>> \o lwt_unix_alloc_job,
                   Transfer(ReadPipe({"fd", "kind", "buffer", "length"}, Copied)),
                   <<Load, Free("ocaml_buffer"),
                     IfError(<<ZeroCount>>, Raised(<<>>), <<>>)>> \o Returned(<<>>)),
               <<"big", "big">>)

windows_write_job ==
    WithBuffer(Job(LWT_UNIX_INIT_JOB({"fd", "kind", "length"})
                     \o <<CopyOut, Set("zero")>> \o lwt_unix_alloc_job,
                   Transfer(Write({"fd", "kind", "length"}, Copied)),
                   <<Load, IfError(Raised(<<>>), Raised(<<>>), <<>>)>> \o Returned(<<>>)),
               <<"bytes", "bytes">>)

windows_pwrite_job ==
    WithBuffer(Job(RequireHandle \o LWT_UNIX_INIT_JOB({"handle", "length", "Offset"})
                     \o <<CopyOut, Set("zero")>> \o lwt_unix_alloc_job,
                   Transfer(Write({"handle", "length", "Offset"}, Copied)),
                   <<Load, IfError(Raised(<<>>), Raised(<<>>), <<>>)>> \o Returned(<<>>)),
               <<"bytes", "bytes">>)

windows_bytes_write_job ==
    WithBuffer(Job(LWT_UNIX_INIT_JOB({"fd", "kind", "buffer", "length", "ocaml_buffer"})
                     \o <<Set("zero"), Alloc("ocaml_buffer")>> \o lwt_unix_alloc_job,
                   Transfer(Write({"fd", "kind", "buffer", "length"}, Copied)),
                   <<Load, Free("ocaml_buffer"),
                     IfError(Raised(<<>>), Raised(<<>>), <<>>)>> \o Returned(<<>>)),
               <<"big", "big">>)

windows_fsync_job ==
    Job(RequireHandle \o LWT_UNIX_INIT_JOB({"handle"}) \o <<Set("zero")>> \o lwt_unix_alloc_job,
        Transfer(Call({"handle"}, {"ok", "error"})),
        <<Load, IfError(Raised(<<>>), Raised(<<>>), <<>>)>> \o Returned(<<>>))
-----------------------------------------------------------------------------
(* Direct stubs; an empty buffer needs no call.                            *)
IfNotEmpty(steps) ==
    <<Call({}, {"ok", "empty"}), Test([empty |-> <<>>, ok |-> steps]), Return>>
ReadInPlace == <<ReadPipe({}, InPlace), Test([ok |-> <<>>, broken |-> <<ZeroCount>>,
                                          error |-> <<SaveLocal, Raise("code")>>])>>
WriteInPlace == <<Write({}, InPlace), Test([ok |-> <<>>,
                                            broken |-> <<SaveLocal, Raise("code")>>,
                                            error |-> <<SaveLocal, Raise("code")>>])>>

windows_read == WithBuffer(Stub(IfNotEmpty(ReadInPlace)), <<"bytes", "bytes">>)
windows_bytes_read == WithBuffer(Stub(IfNotEmpty(ReadInPlace)), <<"big", "big">>)
windows_pread == WithBuffer(Stub(IfNotEmpty(RequireHandle \o ReadInPlace)), <<"bytes", "bytes">>)
windows_write == WithBuffer(Stub(IfNotEmpty(WriteInPlace)), <<"bytes", "bytes">>)
windows_bytes_write == WithBuffer(Stub(IfNotEmpty(WriteInPlace)), <<"big", "big">>)
windows_pwrite == WithBuffer(Stub(IfNotEmpty(RequireHandle \o WriteInPlace)),
                             <<"bytes", "bytes">>)
-----------------------------------------------------------------------------
(* Processes.  A thread waits for the end of the process; the result       *)
(* closes its handle, after the job was freed or before.                   *)
windows_system_job ==
    Job(<<Alloc("cmdlines"), Call({}, {"ok", "error"}), Free("cmdlines"),
          Test([error |-> <<Raise("errno")>>, ok |-> <<Alloc("hProcess"), Alloc("hThread")>>])>>
          \o LWT_UNIX_INIT_JOB({}) \o <<Close("hThread"), Store({"handle"})>>
          \o lwt_unix_alloc_job,
        <<Call({"handle"}, {"ok"})>>,
        lwt_unix_free_job
          \o <<Call({}, {"ok", "error"}),
               Test([error |-> <<SaveLocal, Close("hProcess"), Raise("code")>>,
                     ok |-> <<Close("hProcess"), Return>>])>>)

(* The handle is the one that OCaml was given.                             *)
lwt_process_wait_job ==
    Job(LWT_UNIX_INIT_JOB({"handle"}) \o <<Take("hProcess")>> \o lwt_unix_alloc_job,
        <<Call({"handle"}, {"ok"})>>,
        <<Call({"handle"}, {"ok", "error"}),
          Test([error |-> <<SaveLocal, Close("hProcess")>> \o Raised(<<>>),
                ok |-> <<Close("hProcess")>> \o Returned(<<>>)])>>)

get_handle == <<Call({}, {"ok", "error"}), Test([ok |-> <<>>, error |-> <<Raise("E")>>])>>

(* A handle that the child cannot inherit is duplicated.                   *)
ensure_inheritable(to_close, ret) ==
    <<Call({}, {"ok", "empty", "error"}),
      Test([error |-> ret, empty |-> <<>>,
            ok |-> <<Call({}, {"ok", "error"}),
                     Test([error |-> ret, ok |-> <<Alloc(to_close)>>])>>])>>

lwt_process_create_process ==
    LET ret == <<CloseIf("to_close0"), CloseIf("to_close1"), CloseIf("to_close2")>>
        fail == <<SaveLocal>> \o ret \o <<Raise("code")>>
    IN  Stub(get_handle \o get_handle \o get_handle
               \o ensure_inheritable("to_close0", fail)
               \o ensure_inheritable("to_close1", fail)
               \o ensure_inheritable("to_close2", fail)
               \o <<Alloc("strings"), Call({}, {"ok", "error"}),
                    Test([error |-> <<SaveLocal>>,
                          ok |-> <<Alloc("hProcess"), Alloc("hThread")>>]),
                    Free("strings")>>
               \o ret
               \o <<Test([error |-> <<Raise("code")>>, ok |-> <<>>]),
                    Close("hThread"), Value({"hProcess"}), Give("hProcess"), Return>>)

lwt_process_terminate_process ==
    Stub(<<Call({}, {"ok", "error"}), Test([error |-> <<Raise("errno")>>, ok |-> <<Return>>])>>)
-----------------------------------------------------------------------------
(* A socket that the child does not inherit: older systems do not know the *)
(* flag and are asked again without it.  That win_set_inherit may fail is  *)
(* ignored.                                                                *)
win_set_inherit == <<Call({}, {"ok", "error"})>>
lwt_win_socket(s, failure) ==
    <<Call({}, {"ok", "invalid", "error"}),
      Test([ok |-> <<Alloc(s)>>, error |-> failure,
            invalid |-> <<Call({}, {"ok", "error"}),
                          Test([error |-> failure,
                                ok |-> <<Alloc(s)>> \o win_set_inherit])>>])>>

lwt_unix_socketpair ==
    LET failure == <<SaveLocal, CloseIf("listener"), CloseIf("socket0"), CloseIf("socket1"),
                     Raise("code")>>
        orFailure == <<Call({}, {"ok", "error"}), Test([ok |-> <<>>, error |-> failure])>>
    IN  get_handle                                           \* the domain
          \o lwt_win_socket("listener", failure)
          \o orFailure \o orFailure \o orFailure \o orFailure \* setsockopt .. listen
          \o lwt_win_socket("socket0", failure)
          \o orFailure                                       \* connect
          \o orFailure \o <<Alloc("socket1")>>               \* accept
          \o <<Close("listener")>>

lwt_unix_socketpair_stub ==
    Stub(lwt_unix_socketpair
           \o <<Value({"socket0"}), Give("socket0"), Value({"socket1"}), Give("socket1"), Return>>)
=============================================================================
