---------------------------- MODULE LwtUnixStubs ----------------------------
(***************************************************************************)
(* The stubs of src/unix/unix_c and of lwt_libev_stubs.c, in the steps of  *)
(* LwtSteps: for every file, what the functions of the job or the direct   *)
(* stub acquire, which fields they pass from one thread to the other,      *)
(* which outcomes of the system they tell apart, and how they end.         *)
(* Numbers, flags and their tables, and the layout of the values that are  *)
(* returned, are left out.                                                 *)
(***************************************************************************)
EXTENDS LwtSteps

OkOrError == {"ok", "error"}
CallAndSave(fields) == <<Call(fields, OkOrError), Save>>

(* The usual result function: it makes a value and frees the job.          *)
Finish(value) == value \o lwt_unix_free_job \o <<Return>>
Checked(value) == <<Switch([ok |-> Finish(value), error |-> LWT_UNIX_CHECK_JOB])>>
CheckedArg(field, value) ==
    <<Switch([ok |-> Finish(value), error |-> LWT_UNIX_CHECK_JOB_ARG(field)])>>
NotFound == lwt_unix_free_job \o <<Raise("Not_found")>>
-----------------------------------------------------------------------------
(* The generated jobs: the parameters are copied into the structure, the   *)
(* worker makes one call, and the first string, if there is one, is an     *)
(* argument of the exception.                                              *)
FieldsOf(strings) == {strings[i] : i \in DOMAIN strings}

GeneratedJob(strings, others) ==
    Job(<<Alloc("job"), Store(FieldsOf(strings) \cup others)>> \o lwt_unix_alloc_job,
        CallAndSave(FieldsOf(strings) \cup others),
        IF strings = <<>> THEN Checked(<<>>) ELSE CheckedArg(strings[1], <<>>))

access_job == GeneratedJob(<<"path">>, {"mode"})
chdir_job == GeneratedJob(<<"path">>, {})
chmod_job == GeneratedJob(<<"path">>, {"mode"})
chown_job == GeneratedJob(<<"path">>, {"ower", "group"})
chroot_job == GeneratedJob(<<"path">>, {})
close_job == GeneratedJob(<<>>, {"fd"})
fchmod_job == GeneratedJob(<<>>, {"fd", "mode"})
fchown_job == GeneratedJob(<<>>, {"fd", "ower", "group"})
fdatasync_job == GeneratedJob(<<>>, {"fd"})
fsync_job == GeneratedJob(<<>>, {"fd"})
ftruncate_job == GeneratedJob(<<>>, {"fd", "offset"})
link_job == GeneratedJob(<<"oldpath", "newpath">>, {})
lseek_job == GeneratedJob(<<>>, {"fd", "offset", "whence"})
mkdir_job == GeneratedJob(<<"path">>, {"mode"})
mkfifo_job == GeneratedJob(<<"path">>, {"mode"})
rename_job == GeneratedJob(<<"oldpath", "newpath">>, {})
rmdir_job == GeneratedJob(<<"path">>, {})
symlink_job == GeneratedJob(<<"oldpath", "newpath">>, {})
tcdrain_job == GeneratedJob(<<>>, {"fd"})
tcflow_job == GeneratedJob(<<>>, {"fd", "action"})
tcflush_job == GeneratedJob(<<>>, {"fd", "queue"})
tcsendbreak_job == GeneratedJob(<<>>, {"fd", "duration"})
truncate_job == GeneratedJob(<<"path">>, {"offset"})
unlink_job == GeneratedJob(<<"path">>, {})
-----------------------------------------------------------------------------
(* Other jobs that make one call.                                          *)
getcwd_job ==
    Job(LWT_UNIX_INIT_JOB({}) \o lwt_unix_alloc_job,
        CallAndSave({}),
        Checked(<<Value({"job"})>>))

getlogin_job ==
    Job(LWT_UNIX_INIT_JOB({}) \o lwt_unix_alloc_job,
        <<Call({}, OkOrError)>>,
        <<Switch([error |-> lwt_unix_free_job \o <<Raise("E")>>,
                  ok |-> Finish(<<Value({"job"})>>)])>>)

(* fstat only says whether the descriptor may block.                       *)
guess_blocking_job ==
    Job(LWT_UNIX_INIT_JOB({"fd"}) \o lwt_unix_alloc_job,
        <<Call({"fd"}, {"ok", "empty"})>>,
        Finish(<<>>))

isatty_job ==
    Job(LWT_UNIX_INIT_JOB({"fd"}) \o lwt_unix_alloc_job,
        <<Call({"fd"}, {"ok", "empty"})>>,
        Finish(<<>>))

copy_stat == <<Value({"job"})>>
worker_stat == CallAndSave({"name"})
result_stat == CheckedArg("name", copy_stat)
stat_job == Job(LWT_UNIX_INIT_JOB_STRING("name", {}) \o lwt_unix_alloc_job,
                worker_stat, result_stat)
worker_lstat == CallAndSave({"name"})
result_lstat == CheckedArg("name", copy_stat)
lstat_job == Job(LWT_UNIX_INIT_JOB_STRING("name", {}) \o lwt_unix_alloc_job,
                 worker_lstat, result_lstat)
worker_fstat == CallAndSave({"fd"})
result_fstat == Checked(copy_stat)
fstat_job == Job(LWT_UNIX_INIT_JOB({"fd"}) \o lwt_unix_alloc_job, worker_fstat, result_fstat)

utimes_job ==
    Job(LWT_UNIX_INIT_JOB_STRING("path", {"times_pointer"}) \o lwt_unix_alloc_job,
        CallAndSave({"path", "times_pointer"}),
        CheckedArg("path", <<>>))

tcgetattr_job ==
    Job(LWT_UNIX_INIT_JOB({"fd"}) \o lwt_unix_alloc_job,
        CallAndSave({"fd"}),
        Checked(<<Value({"job"})>>))

(* tcgetattr, decode_terminal_status and tcsetattr: each one may fail.     *)
tcsetattr_job ==
    Job(LWT_UNIX_INIT_JOB({"fd", "when", "termios"}) \o lwt_unix_alloc_job,
        <<Call({"fd"}, OkOrError),
          Switch([error |-> <<Save, Exit>>,
                  ok |-> <<Call({"termios"}, OkOrError),
                           Switch([error |-> <<>>,
                                   ok |-> <<Call({"fd", "when"}, OkOrError)>>]),
                           Save>>])>>,
        Checked(<<>>))

(* get_sockaddr, of the Unix library, raises if a path is too long.        *)
get_sockaddr == <<Call({}, OkOrError), Switch([ok |-> <<>>, error |-> <<Raise("E")>>])>>

bind_job ==
    Job(LWT_UNIX_INIT_JOB({"fd"}) \o get_sockaddr \o <<Store({"addr"})>> \o lwt_unix_alloc_job,
        CallAndSave({"fd", "addr"}),
        Checked(<<>>))

getnameinfo_job ==
    Job(LWT_UNIX_INIT_JOB({}) \o get_sockaddr \o <<Store({"addr", "opts"})>> \o lwt_unix_alloc_job,
        <<Call({"addr", "opts"}, {"ok", "null"})>>,
        <<Switch([null |-> NotFound, ok |-> Finish(<<Value({"job"})>>)])>>)

(* A lookup that fails returns the empty list.                             *)
convert_addrinfo == <<Value({"info"})>>
getaddrinfo_job ==
    Job(LWT_UNIX_INIT_JOB_STRING2("node", "service", {"hints"}) \o lwt_unix_alloc_job,
        <<Call({"node", "service", "hints"}, {"ok", "empty"}),
          Switch([ok |-> <<Alloc("info")>>, empty |-> <<>>])>>,
        <<Switch([ok |-> convert_addrinfo, empty |-> <<>>]), FreeIf("info")>> \o Finish(<<>>))

lockf_job(command) ==
    Job(LWT_UNIX_INIT_JOB({"fd", "command", "length"}) \o lwt_unix_alloc_job,
        IF command = "F_TEST"
        THEN <<Call({"fd", "length"}, {"ok", "error", "locked"}),
               Switch([ok |-> <<>>, error |-> <<>>, locked |-> <<Set("EACCES")>>])>>
        ELSE CallAndSave({"fd", "length"}),
        <<Switch([ok |-> Finish(<<>>), error |-> LWT_UNIX_CHECK_JOB,
                  locked |-> LWT_UNIX_CHECK_JOB])>>)
-----------------------------------------------------------------------------
(* A buffer is enlarged until the result fits.                             *)
readlink_job ==
    Job(LWT_UNIX_INIT_JOB_STRING("name", {}) \o lwt_unix_alloc_job,
        <<Loop(<<Alloc("buffer"), Call({"name"}, {"ok", "error", "small"}),
                 Switch([error |-> <<Free("buffer"), Save, Exit>>,
                         ok |-> <<Exit>>,
                         small |-> <<Free("buffer")>>])>>)>>,
        CheckedArg("name", <<Value({"buffer"}), Free("buffer")>>))

gethostname_job ==
    Job(LWT_UNIX_INIT_JOB({}) \o lwt_unix_alloc_job,
        <<Loop(<<Alloc("buffer"), Call({}, {"ok", "error", "small"}),
                 Switch([small |-> <<Free("buffer")>>,
                         error |-> <<Free("buffer"), Save, Exit>>,
                         ok |-> <<Exit>>])>>)>>,
        Checked(<<Value({"buffer"}), Free("buffer")>>))

(* getpwnam and the like: the last size is tried as any other, and its     *)
(* ERANGE is the error.                                                    *)
alloc_passwd_entry == <<Value({"job", "buffer"})>>
alloc_group_entry == <<Value({"job", "buffer"})>>

JOB_GET_ENTRY(init, arg, alloc_entry, fail_arg) ==
    Job(init \o lwt_unix_alloc_job,
        <<Loop(<<Alloc("buffer"), Call({arg}, {"ok", "null", "error", "small"}),
                 Switch([ok |-> <<Exit>>, null |-> <<Exit>>, error |-> <<Exit>>,
                         small |-> <<Free("buffer")>>])>>)>>,
        <<Switch([error |-> fail_arg \o <<Free("buffer")>> \o lwt_unix_free_job \o <<Raise("E")>>,
                  null |-> <<Free("buffer")>> \o NotFound,
                  ok |-> Finish(alloc_entry \o <<Free("buffer")>>)])>>)

getpwnam_job == JOB_GET_ENTRY(LWT_UNIX_INIT_JOB_STRING("name", {}), "name",
                              alloc_passwd_entry, <<Arg("name")>>)
getgrnam_job == JOB_GET_ENTRY(LWT_UNIX_INIT_JOB_STRING("name", {}), "name",
                              alloc_group_entry, <<Arg("name")>>)
getpwuid_job == JOB_GET_ENTRY(LWT_UNIX_INIT_JOB({"uid"}), "uid", alloc_passwd_entry, <<>>)
getgrgid_job == JOB_GET_ENTRY(LWT_UNIX_INIT_JOB({"gid"}), "gid", alloc_group_entry, <<>>)
-----------------------------------------------------------------------------
(* The lookups of netdb.  Where the system has no reentrant ones, they     *)
(* copy the entry out of the storage of the library, and OCaml makes them  *)
(* one at a time.  An array is the sequence of its block and its elements. *)
c_copy_string_array(a, undo) ==
    TryAlloc(a[1], undo) \o TryAlloc(a[2], <<Free(a[1])>> \o undo)
      \o TryAlloc(a[3], <<Free(a[2]), Free(a[1])>> \o undo)
c_copy_addr_array(a, undo) ==
    TryAlloc(a[1], undo) \o TryAlloc(a[2], <<Free(a[1])>> \o undo)
      \o TryAlloc(a[3], <<Free(a[2]), Free(a[1])>> \o undo)
c_free_string_array(a) == <<FreeIf(a[2]), FreeIf(a[3]), FreeIf(a[1])>>
s_strdup(s, undo) == TryAlloc(s, undo)

aliases == <<"aliases", "alias1", "alias2">>
addr_list == <<"addr_list", "addr1", "addr2">>

(* The array may be NULL in the entry.                                     *)
IfArray(copy) == <<Call({}, {"ok", "empty"}), Switch([empty |-> <<>>, ok |-> copy])>>

hostent_dup ==
    TryAlloc("hostent", <<>>)
      \o s_strdup("h_name", <<Free("hostent")>>)
      \o IfArray(c_copy_string_array(aliases, <<Free("h_name"), Free("hostent")>>))
      \o IfArray(c_copy_addr_array(addr_list,
                     c_free_string_array(aliases) \o <<Free("h_name"), Free("hostent")>>))
hostent_free ==
    c_free_string_array(addr_list) \o c_free_string_array(aliases)
      \o <<Free("h_name"), Free("hostent")>>
alloc_host_entry(blocks) == <<Value(blocks)>>

servent_dup ==
    TryAlloc("servent", <<>>)
      \o s_strdup("s_name", <<Free("servent")>>)
      \o s_strdup("s_proto", <<Free("s_name"), Free("servent")>>)
      \o IfArray(c_copy_string_array(aliases,
                     <<Free("s_proto"), Free("s_name"), Free("servent")>>))
servent_free ==
    <<Free("s_proto"), Free("s_name")>> \o c_free_string_array(aliases) \o <<Free("servent")>>
alloc_servent(blocks) == <<Value(blocks)>>

protoent_dup ==
    TryAlloc("protoent", <<>>)
      \o s_strdup("p_name", <<Free("protoent")>>)
      \o IfArray(c_copy_string_array(aliases, <<Free("p_name"), Free("protoent")>>))
protoent_free == <<Free("p_name")>> \o c_free_string_array(aliases) \o <<Free("protoent")>>
alloc_protoent(blocks) == <<Value(blocks)>>

LookupAndDup(fields, s, dup) ==
    <<CallStatic(fields, {"ok", "null"}, s),
      Switch([null |-> <<>>, ok |-> <<Fetch(s)>> \o dup])>>
LookupResult(found) ==
    <<Switch([null |-> NotFound, ok |-> Finish(found), empty |-> Finish(found)])>>

\* Mutant: the lookup is made without hostent_mutex.
gethostbyname_job_unlocked(reentrant) ==
    Job(LWT_UNIX_INIT_JOB_STRING("name", {}) \o lwt_unix_alloc_job,
        LookupAndDup({"name"}, "hostent", hostent_dup),
        LookupResult(alloc_host_entry({"job", "hostent", "h_name"}) \o hostent_free))

gethostbyname_job(reentrant) ==
    LET init == LWT_UNIX_INIT_JOB_STRING("name", {}) \o lwt_unix_alloc_job
    IN  IF reentrant
        THEN Job(init, <<Call({"name"}, {"ok", "null"})>>,
                 LookupResult(alloc_host_entry({"job"})))
        ELSE WithMutex(Job(init, LookupAndDup({"name"}, "hostent", hostent_dup),
                           LookupResult(alloc_host_entry({"job", "hostent", "h_name"})
                                          \o hostent_free)),
                       "hostent_mutex")

gethostbyaddr_job(reentrant) ==
    LET init == LWT_UNIX_INIT_JOB({"addr"}) \o lwt_unix_alloc_job
    IN  IF reentrant
        THEN Job(init, <<Call({"addr"}, {"ok", "null"})>>,
                 LookupResult(alloc_host_entry({"job"})))
        ELSE WithMutex(Job(init, LookupAndDup({"addr"}, "hostent", hostent_dup),
                           LookupResult(alloc_host_entry({"job", "hostent", "h_name"})
                                          \o hostent_free)),
                       "hostent_mutex")

(* The reentrant lookups leave the last buffer to the result function.     *)
JOB_GET_ENTRY2_reentrant(init, fields) ==
    Job(init \o lwt_unix_alloc_job,
        <<Loop(<<Alloc("buffer"), Call(fields, {"ok", "null", "small"}),
                 Switch([ok |-> <<Exit>>, null |-> <<Exit>>, small |-> <<Free("buffer")>>])>>)>>,
        <<Switch([null |-> <<Free("buffer")>> \o NotFound,
                  ok |-> Finish(<<Value({"job", "buffer"}), Free("buffer")>>)])>>)

(* OCaml uses one mutex for protocols and services.                        *)
JOB_GET_ENTRY2(init, fields, s, dup, value, free) ==
    WithMutex(Job(init \o lwt_unix_alloc_job, LookupAndDup(fields, s, dup),
                  LookupResult(value \o free)),
              "protoent_mutex")

getprotobyname_job(reentrant) ==
    LET init == LWT_UNIX_INIT_JOB_STRING("name", {})
    IN  IF reentrant THEN JOB_GET_ENTRY2_reentrant(init, {"name"})
        ELSE JOB_GET_ENTRY2(init, {"name"}, "protoent", protoent_dup,
                            alloc_protoent({"protoent", "p_name"}), protoent_free)
getprotobynumber_job(reentrant) ==
    LET init == LWT_UNIX_INIT_JOB({"num"})
    IN  IF reentrant THEN JOB_GET_ENTRY2_reentrant(init, {"num"})
        ELSE JOB_GET_ENTRY2(init, {"num"}, "protoent", protoent_dup,
                            alloc_protoent({"protoent", "p_name"}), protoent_free)
getservbyname_job(reentrant) ==
    LET init == LWT_UNIX_INIT_JOB_STRING2("name", "proto", {})
    IN  IF reentrant THEN JOB_GET_ENTRY2_reentrant(init, {"name", "proto"})
        ELSE JOB_GET_ENTRY2(init, {"name", "proto"}, "servent", servent_dup,
                            alloc_servent({"servent", "s_name", "s_proto"}), servent_free)
getservbyport_job(reentrant) ==
    LET init == LWT_UNIX_INIT_JOB_STRING("proto", {"port"})
    IN  IF reentrant THEN JOB_GET_ENTRY2_reentrant(init, {"port", "proto"})
        ELSE JOB_GET_ENTRY2(init, {"port", "proto"}, "servent", servent_dup,
                            alloc_servent({"servent", "s_name", "s_proto"}), servent_free)
-----------------------------------------------------------------------------
(* Files and directories.                                                  *)

\* Mutant: close may change errno before it is saved.
open_job_close_first(O_CLOEXEC) ==
    Job(LWT_UNIX_INIT_JOB_STRING("name", {"fd", "flags", "perms"}) \o lwt_unix_alloc_job,
        <<Call({"name", "fd", "flags", "perms"}, OkOrError),
          Switch([error |-> <<Save>>,
                  ok |-> <<Alloc("fd"), Call({}, OkOrError),
                           Switch([ok |-> <<Save>>, error |-> <<Close("fd"), Save, Exit>>])>>])>>,
        CheckedArg("name", <<Value({"job"}), Give("fd")>>))

(* The descriptor is OCaml's from here on.  Without O_CLOEXEC it is set    *)
(* after the file was opened, and the file is closed if that fails.        *)
open_job(O_CLOEXEC) ==
    LET fcntl == IF O_CLOEXEC THEN <<>>
                 ELSE <<Call({}, OkOrError),
                        Switch([ok |-> <<>>,
                                error |-> <<SaveLocal, Close("fd"), Restore, Save, Exit>>])>>
        opened == Finish(<<Value({"job"}), Give("fd")>>)
    IN  Job(LWT_UNIX_INIT_JOB_STRING("name", {"fd", "flags", "perms"}) \o lwt_unix_alloc_job,
            <<Call({"name", "fd", "flags", "perms"}, OkOrError),
              Switch([error |-> <<Save>>,
                      ok |-> <<Alloc("fd")>> \o fcntl \o <<Save, Call({}, {"ok", "empty"})>>])>>,
            <<Switch([ok |-> opened, empty |-> opened,
                      error |-> LWT_UNIX_CHECK_JOB_ARG("name")])>>)

opendir_job ==
    Job(LWT_UNIX_INIT_JOB_STRING("path", {}) \o lwt_unix_alloc_job,
        <<Call({"path"}, OkOrError), Save, Switch([error |-> <<>>, ok |-> <<Alloc("dir")>>])>>,
        CheckedArg("path", <<Value({"job"}), Give("dir")>>))

(* The operations on a directory are called through lwt_unix.cppo.ml,      *)
(* which checks it first and invalidates it when it is closed.             *)
lwt_unix_valid_dir == <<ValidDir>>
lwt_unix_invalidate_dir == <<InvalidateDir>>

(* The entry stays in the storage of the directory until the result.       *)
readdir_job ==
    Job(lwt_unix_valid_dir \o LWT_UNIX_INIT_JOB({"dir"}) \o lwt_unix_alloc_job,
        <<ClearErrno, UseDir, CallStatic({"dir"}, {"ok", "end", "error"}, "dirent"), Save>>,
        <<Switch([error |-> LWT_UNIX_CHECK_JOB,
                  end |-> lwt_unix_free_job \o <<Raise("End_of_file")>>,
                  ok |-> Finish(<<Fetch("dirent")>>)])>>)

(* Up to two names are copied; the end of the directory ends the array,    *)
(* and an error frees the names there are.                                 *)
ReadName(name) ==
    <<ClearErrno, UseDir, CallStatic({"dir", "count"}, {"ok", "empty", "error"}, "dirent"),
      Switch([error |-> <<Save, Exit>>,
              empty |-> <<Set("zero"), Exit>>,
              ok |-> <<Fetch("dirent"), Call({}, OkOrError),
                       Switch([error |-> <<Save, Exit>>, ok |-> <<Alloc(name)>>])>>])>>

\* Mutant: an error is raised without freeing the names that were read.
readdir_n_job_leak ==
    Job(lwt_unix_valid_dir \o LWT_UNIX_INIT_JOB({"dir", "count"}) \o lwt_unix_alloc_job,
        ReadName("entry1") \o ReadName("entry2") \o <<Set("zero")>>,
        <<Load, IfError(<<>>, lwt_unix_free_job \o <<Raise("code")>>,
                        Finish(<<Value({"job"}), FreeIf("entry1"), FreeIf("entry2")>>))>>)

readdir_n_job ==
    LET entries == <<FreeIf("entry1"), FreeIf("entry2")>>
    IN  Job(lwt_unix_valid_dir \o LWT_UNIX_INIT_JOB({"dir", "count"}) \o lwt_unix_alloc_job,
            ReadName("entry1") \o ReadName("entry2") \o <<Set("zero")>>,
            <<Load, IfError(<<>>, entries \o lwt_unix_free_job \o <<Raise("code")>>,
                            Finish(<<Value({"job"})>> \o entries))>>)

rewinddir_job ==
    Job(lwt_unix_valid_dir \o LWT_UNIX_INIT_JOB({"dir"}) \o lwt_unix_alloc_job,
        <<UseDir>>,
        Finish(<<>>))

closedir_job ==
    Job(lwt_unix_valid_dir \o LWT_UNIX_INIT_JOB({"dir"}) \o lwt_unix_alloc_job,
        <<UseDir, Call({"dir"}, OkOrError), Save,
          Switch([error |-> <<>>, ok |-> <<CloseDir>>])>>,
        <<Switch([error |-> LWT_UNIX_CHECK_JOB,
                  ok |-> lwt_unix_free_job \o lwt_unix_invalidate_dir \o <<Return>>])>>)
-----------------------------------------------------------------------------
(* Reads and writes of blocking descriptors.  The bytes are copied, since  *)
(* the collector moves them; a Bigarray stays where it is while a root     *)
(* keeps it.                                                               *)
TwoBytes == <<"bytes", "bytes">>
Big == <<"big", "big">>
IOVectors == <<"bytes", "big">>

\* Mutant: the whole of the C buffer is copied back, as in readv_job.
read_job_whole ==
    WithBuffer(Job(LWT_UNIX_INIT_JOB({"fd", "length", "string", "offset"})
                     \o <<Alloc("string")>> \o lwt_unix_alloc_job,
                   <<Read({"fd", "length"}, Copied), Save>>,
                   <<Switch([error |-> <<Load, Free("string")>> \o lwt_unix_free_job
                                         \o <<Raise("code")>>,
                             ok |-> Finish(<<CopyIn("all"), Free("string")>>)])>>),
               TwoBytes)

read_job ==
    WithBuffer(Job(LWT_UNIX_INIT_JOB({"fd", "length", "string", "offset"})
                     \o <<Alloc("string")>> \o lwt_unix_alloc_job,
                   <<Read({"fd", "length"}, Copied), Save>>,
                   <<Switch([error |-> <<Load, Free("string")>> \o lwt_unix_free_job
                                         \o <<Raise("code")>>,
                             ok |-> Finish(<<CopyIn("count"), Free("string")>>)])>>),
               TwoBytes)

pread_job ==
    WithBuffer(Job(LWT_UNIX_INIT_JOB({"fd", "length", "file_offset", "string", "offset"})
                     \o <<Alloc("string")>> \o lwt_unix_alloc_job,
                   <<Read({"fd", "length", "file_offset"}, Copied), Save>>,
                   <<Switch([error |-> <<Load, Free("string")>> \o lwt_unix_free_job
                                         \o <<Raise("code")>>,
                             ok |-> Finish(<<CopyIn("count"), Free("string")>>)])>>),
               TwoBytes)

write_job ==
    WithBuffer(Job(LWT_UNIX_INIT_JOB({"fd", "length"}) \o <<CopyOut>> \o lwt_unix_alloc_job,
                   <<Write({"fd", "length"}, Copied), Save>>,
                   Checked(<<>>)),
               TwoBytes)

pwrite_job ==
    WithBuffer(Job(LWT_UNIX_INIT_JOB({"fd", "length", "file_offset"}) \o <<CopyOut>>
                     \o lwt_unix_alloc_job,
                   <<Write({"fd", "length", "file_offset"}, Copied), Save>>,
                   Checked(<<>>)),
               TwoBytes)

\* Mutant: no root keeps the Bigarray while the thread reads into it.
bytes_read_job_unrooted ==
    WithBuffer(Job(LWT_UNIX_INIT_JOB({"fd", "buffer", "length"}) \o lwt_unix_alloc_job,
                   <<Read({"fd", "buffer", "length"}, Copied), Save>>,
                   Checked(<<>>)),
               Big)

bytes_read_job ==
    WithBuffer(Job(LWT_UNIX_INIT_JOB({"fd", "buffer", "length", "ocaml_buffer"})
                     \o <<Alloc("ocaml_buffer")>> \o lwt_unix_alloc_job,
                   <<Read({"fd", "buffer", "length"}, Copied), Save>>,
                   <<Free("ocaml_buffer")>> \o Checked(<<>>)),
               Big)

bytes_write_job ==
    WithBuffer(Job(LWT_UNIX_INIT_JOB({"fd", "buffer", "length", "ocaml_buffer"})
                     \o <<Alloc("ocaml_buffer")>> \o lwt_unix_alloc_job,
                   <<Write({"fd", "buffer", "length"}, Copied), Save>>,
                   <<Free("ocaml_buffer")>> \o Checked(<<>>)),
               Big)

wait_mincore_job ==
    WithBuffer(Job(LWT_UNIX_INIT_JOB({"ptr", "ocaml_buffer"})
                     \o <<Alloc("ocaml_buffer")>> \o lwt_unix_alloc_job,
                   <<Touch>>,
                   <<Free("ocaml_buffer")>> \o Finish(<<>>)),
               Big)

(* What flatten_io_vectors acquires for each bytes buffer.                 *)
flatten_io_vectors(purpose) ==
    CASE purpose = "writev_job" -> <<Alloc("buffer_copy"), CopyOut>>
      [] purpose = "readv_job" -> <<Alloc("temporary_buffer"), Alloc("caml_buffer")>>
      [] purpose = "direct" -> <<>>

(* The temporary buffers are copied back whole, however much was read.     *)
readv_job ==
    WithBuffer(Job(LWT_UNIX_INIT_JOB({"fd", "count"}) \o <<Alloc("iovecs")>>
                     \o flatten_io_vectors("readv_job") \o <<Store({"iovecs"})>>
                     \o <<Alloc("ocaml_io_vectors")>> \o lwt_unix_alloc_job,
                   <<Read({"fd", "iovecs", "count"}, Copied), Save>>,
                   <<Switch([ok |-> <<CopyIn("all")>>, error |-> <<>>]),
                     Free("temporary_buffer"), Free("caml_buffer"), Free("iovecs"),
                     Free("ocaml_io_vectors")>> \o Checked(<<>>)),
               IOVectors)

writev_job ==
    WithBuffer(Job(LWT_UNIX_INIT_JOB({"fd", "count"})
                     \o <<Alloc("iovecs"), Alloc("buffer_copies")>>
                     \o flatten_io_vectors("writev_job") \o <<Store({"iovecs"})>>
                     \o <<Alloc("ocaml_io_vectors")>> \o lwt_unix_alloc_job,
                   <<Write({"fd", "iovecs", "count"}, Copied), Save>>,
                   <<Free("buffer_copy"), Free("buffer_copies"), Free("iovecs"),
                     Free("ocaml_io_vectors")>> \o Checked(<<>>)),
               IOVectors)
-----------------------------------------------------------------------------
(* Direct stubs: the main thread calls the system, on a descriptor that    *)
(* does not block.                                                         *)
Uerror == <<Raise("errno")>>
OrUerror(value) == <<Switch([ok |-> value \o <<Return>>, error |-> Uerror])>>
CallStub(value) == Stub(<<Call({}, OkOrError)>> \o OrUerror(value))
ReadStub(cells) == WithBuffer(Stub(<<Read({}, InPlace)>> \o OrUerror(<<>>)), cells)
WriteStub(cells) == WithBuffer(Stub(<<Write({}, InPlace)>> \o OrUerror(<<>>)), cells)

lwt_unix_read == ReadStub(TwoBytes)
lwt_unix_pread == ReadStub(TwoBytes)
lwt_unix_recv == ReadStub(TwoBytes)
lwt_unix_bytes_read == ReadStub(Big)
lwt_unix_bytes_recv == ReadStub(Big)
lwt_unix_write == WriteStub(TwoBytes)
lwt_unix_pwrite == WriteStub(TwoBytes)
lwt_unix_send == WriteStub(TwoBytes)
lwt_unix_bytes_write == WriteStub(Big)
lwt_unix_bytes_send == WriteStub(Big)

(* The address of the peer is converted, or was, before the transfer.      *)
lwt_unix_recvfrom == WithBuffer(Stub(<<Read({}, InPlace)>> \o OrUerror(<<Value({})>>)), TwoBytes)
lwt_unix_bytes_recvfrom == WithBuffer(Stub(<<Read({}, InPlace)>> \o OrUerror(<<Value({})>>)), Big)
lwt_unix_sendto ==
    WithBuffer(Stub(get_sockaddr \o <<Write({}, InPlace)>> \o OrUerror(<<>>)), TwoBytes)
lwt_unix_bytes_sendto ==
    WithBuffer(Stub(get_sockaddr \o <<Write({}, InPlace)>> \o OrUerror(<<>>)), Big)

lwt_unix_readv ==
    WithBuffer(Stub(flatten_io_vectors("direct") \o <<Read({}, InPlace)>> \o OrUerror(<<>>)),
               IOVectors)
lwt_unix_writev ==
    WithBuffer(Stub(flatten_io_vectors("direct") \o <<Write({}, InPlace)>> \o OrUerror(<<>>)),
               IOVectors)

(* The descriptors of the message become the program's.                    *)
wrapper_recv_msg ==
    <<Read({}, InPlace)>>
      \o OrUerror(<<Alloc("fds"), Value({"fds"}), Give("fds"), Value({})>>)
lwt_unix_recv_msg ==
    WithBuffer(Stub(flatten_io_vectors("direct") \o wrapper_recv_msg), IOVectors)
wrapper_send_msg(dest) ==
    (IF dest THEN get_sockaddr ELSE <<>>) \o <<Write({}, InPlace)>> \o OrUerror(<<>>)
lwt_unix_send_msg(dest) ==
    WithBuffer(Stub(flatten_io_vectors("direct") \o wrapper_send_msg(dest)), IOVectors)

lwt_unix_accept4 ==
    CallStub(<<Alloc("fd"), Value({"fd"}), Give("fd")>>)
lwt_unix_get_credentials == CallStub(<<Value({})>>)
lwt_unix_get_affinity == CallStub(<<Value({})>>)
lwt_unix_set_affinity == CallStub(<<>>)
lwt_unix_get_cpu == CallStub(<<>>)
lwt_unix_readable == CallStub(<<>>)
lwt_unix_writable == CallStub(<<>>)

(* madvise and mincore are given the address of a Bigarray.                *)
lwt_unix_madvise ==
    WithBuffer(Stub(<<Touch, Call({}, OkOrError)>> \o OrUerror(<<>>)), Big)
lwt_unix_mincore ==
    WithBuffer(Stub(<<Touch, Call({}, OkOrError), Return>>), Big)

socket_domain ==
    <<Call({}, {"ok", "error", "invalid"}),
      Switch([error |-> Uerror, invalid |-> <<Raise("Invalid_argument")>>, ok |-> <<>>])>>

(* Only PF_INET has multicast here, and its addresses are four bytes long. *)
SetSockOpt ==
    <<Call({}, {"ok", "error", "invalid"}),
      Switch([invalid |-> <<Raise("Invalid_argument")>>, error |-> Uerror, ok |-> <<Return>>])>>
lwt_unix_mcast_set_loop == Stub(socket_domain \o SetSockOpt)
lwt_unix_mcast_set_ttl == Stub(socket_domain \o SetSockOpt)
lwt_unix_mcast_modify_membership == Stub(socket_domain \o SetSockOpt)

(* wait4 lets the other OCaml threads run during the call.                 *)
alloc_process_status == <<Value({})>>
lwt_unix_wait4 == CallStub(alloc_process_status \o <<Value({})>>)
-----------------------------------------------------------------------------
(* libev.  A watcher belongs to OCaml from its init to its stop, with the  *)
(* root of its callback, which is registered once the watcher is wrapped.  *)
lwt_libev_init ==
    Stub(<<Call({}, {"ok", "failure"}),
           Test([failure |-> <<Raise("Failure")>>,
                 ok |-> <<Alloc("loop"), Value({"loop"}), Give("loop"), Return>>])>>)
lwt_libev_stop == Stub(<<Take("loop"), Free("loop"), Return>>)

(* The callbacks run after the blocking section, in ev_invoke_pending.     *)
lwt_libev_loop == Stub(<<Call({}, {"ok"}), Value({}), Return>>)

lwt_libev_io_init ==
    Stub(<<Alloc("watcher"), Value({"watcher"}), Alloc("data"),
           Give("data"), Give("watcher"), Return>>)
lwt_libev_io_stop ==
    Stub(<<Take("watcher"), Take("data"), Free("data"), Free("watcher"), Return>>)
lwt_libev_timer_init ==
    Stub(<<Alloc("watcher"), Value({"watcher"}), Alloc("data"),
           Give("data"), Give("watcher"), Return>>)
lwt_libev_timer_stop ==
    Stub(<<Take("watcher"), Take("data"), Free("data"), Free("watcher"), Return>>)
=============================================================================
