------------------------------- MODULE MCUnix -------------------------------
(* Every stub of src/unix alone, with all the outcomes of its calls, and   *)
(* pairs of the ones that share storage of the C library; the condition    *)
(* variables of Windows; the conversion of terminal attributes; or the     *)
(* detached computations of Lwt_preemptive.                                *)
EXTENDS TLC, LwtStubs, LwtUnixStubs, LwtWindowsStubs, LwtWinCondition, LwtTermios, LwtPreemptive

CONSTANTS c1, c2

(* Where a stub differs from system to system, both variants.              *)
MCCatalogue == [
    access |-> access_job, chdir |-> chdir_job, chmod |-> chmod_job, chown |-> chown_job,
    chroot |-> chroot_job, close |-> close_job, fchmod |-> fchmod_job, fchown |-> fchown_job,
    fdatasync |-> fdatasync_job, fsync |-> fsync_job, ftruncate |-> ftruncate_job,
    link |-> link_job, lseek |-> lseek_job, mkdir |-> mkdir_job, mkfifo |-> mkfifo_job,
    rename |-> rename_job, rmdir |-> rmdir_job, symlink |-> symlink_job,
    tcdrain |-> tcdrain_job, tcflow |-> tcflow_job, tcflush |-> tcflush_job,
    tcsendbreak |-> tcsendbreak_job, truncate |-> truncate_job, unlink |-> unlink_job,
    getcwd |-> getcwd_job, getlogin |-> getlogin_job, guess_blocking |-> guess_blocking_job,
    isatty |-> isatty_job, stat |-> stat_job, lstat |-> lstat_job, fstat |-> fstat_job,
    utimes |-> utimes_job, tcgetattr |-> tcgetattr_job, tcsetattr |-> tcsetattr_job,
    bind |-> bind_job, getnameinfo |-> getnameinfo_job, getaddrinfo |-> getaddrinfo_job,
    lockf |-> lockf_job("F_LOCK"), lockf_test |-> lockf_job("F_TEST"),
    readlink |-> readlink_job, gethostname |-> gethostname_job, getpwnam |-> getpwnam_job,
    getgrnam |-> getgrnam_job, getpwuid |-> getpwuid_job, getgrgid |-> getgrgid_job,
    gethostbyname |-> gethostbyname_job(FALSE), gethostbyname_r |-> gethostbyname_job(TRUE),
    gethostbyaddr |-> gethostbyaddr_job(FALSE), gethostbyaddr_r |-> gethostbyaddr_job(TRUE),
    getprotobyname |-> getprotobyname_job(FALSE), getprotobyname_r |-> getprotobyname_job(TRUE),
    getprotobynumber |-> getprotobynumber_job(FALSE),
    getprotobynumber_r |-> getprotobynumber_job(TRUE),
    getservbyname |-> getservbyname_job(FALSE), getservbyname_r |-> getservbyname_job(TRUE),
    getservbyport |-> getservbyport_job(FALSE), getservbyport_r |-> getservbyport_job(TRUE),
    open |-> open_job(TRUE), open_fcntl |-> open_job(FALSE), opendir |-> opendir_job,
    readdir |-> readdir_job, readdir_n |-> readdir_n_job, rewinddir |-> rewinddir_job,
    closedir |-> closedir_job, read |-> read_job, pread |-> pread_job, write |-> write_job,
    pwrite |-> pwrite_job, bytes_read |-> bytes_read_job, bytes_write |-> bytes_write_job,
    wait_mincore |-> wait_mincore_job, readv |-> readv_job, writev |-> writev_job,
    direct_read |-> lwt_unix_read, direct_pread |-> lwt_unix_pread, recv |-> lwt_unix_recv,
    direct_bytes_read |-> lwt_unix_bytes_read, bytes_recv |-> lwt_unix_bytes_recv,
    direct_write |-> lwt_unix_write, direct_pwrite |-> lwt_unix_pwrite, send |-> lwt_unix_send,
    direct_bytes_write |-> lwt_unix_bytes_write, bytes_send |-> lwt_unix_bytes_send,
    recvfrom |-> lwt_unix_recvfrom, bytes_recvfrom |-> lwt_unix_bytes_recvfrom,
    sendto |-> lwt_unix_sendto, bytes_sendto |-> lwt_unix_bytes_sendto,
    direct_readv |-> lwt_unix_readv, direct_writev |-> lwt_unix_writev,
    recv_msg |-> lwt_unix_recv_msg, send_msg |-> lwt_unix_send_msg(FALSE),
    send_msgto |-> lwt_unix_send_msg(TRUE), accept4 |-> lwt_unix_accept4,
    get_credentials |-> lwt_unix_get_credentials, get_affinity |-> lwt_unix_get_affinity,
    set_affinity |-> lwt_unix_set_affinity, get_cpu |-> lwt_unix_get_cpu,
    readable |-> lwt_unix_readable, writable |-> lwt_unix_writable,
    madvise |-> lwt_unix_madvise, mincore |-> lwt_unix_mincore,
    mcast_set_loop |-> lwt_unix_mcast_set_loop, mcast_set_ttl |-> lwt_unix_mcast_set_ttl,
    mcast_modify_membership |-> lwt_unix_mcast_modify_membership, wait4 |-> lwt_unix_wait4,
    libev_init |-> lwt_libev_init, libev_stop |-> lwt_libev_stop, libev_loop |-> lwt_libev_loop,
    libev_io_init |-> lwt_libev_io_init, libev_io_stop |-> lwt_libev_io_stop,
    libev_timer_init |-> lwt_libev_timer_init, libev_timer_stop |-> lwt_libev_timer_stop,
    windows_read |-> windows_read_job, windows_pread |-> windows_pread_job,
    windows_bytes_read |-> windows_bytes_read_job, windows_write |-> windows_write_job,
    windows_pwrite |-> windows_pwrite_job, windows_bytes_write |-> windows_bytes_write_job,
    windows_fsync |-> windows_fsync_job, windows_system |-> windows_system_job,
    windows_direct_read |-> windows_read, windows_direct_bytes_read |-> windows_bytes_read,
    windows_direct_pread |-> windows_pread, windows_direct_write |-> windows_write,
    windows_direct_bytes_write |-> windows_bytes_write,
    windows_direct_pwrite |-> windows_pwrite, process_wait |-> lwt_process_wait_job,
    create_process |-> lwt_process_create_process,
    terminate_process |-> lwt_process_terminate_process,
    socketpair |-> lwt_unix_socketpair_stub]

MCMutexes == {"hostent_mutex", "protoent_mutex", "dir"}

(* The outcomes that the functions do not handle are left to the README    *)
(* and the run that shows them: an address that get_sockaddr refuses, a    *)
(* failure of mincore, of lockf with F_TEST, and a short readv.            *)
Unhandled(job) ==
    CASE job \in {"bind", "getnameinfo", "mincore", "lockf_test"} -> {"error"}
      [] job = "readv" -> {"short"}
      [] OTHER -> {}

(* A program does not use a directory twice at a time.                     *)
Directory == {"readdir", "readdir_n", "rewinddir", "closedir"}
MCCall(job, held) ==
    [job |-> job, held |-> held,
     outs |-> (Outcomes \cup {"short"}) \ Unhandled(job),
     locks |-> IF job \in Directory THEN {"dir"} ELSE {}]

Hosts == {"gethostbyname", "gethostbyaddr"}
Protocols == {"getprotobyname", "getservbyport"}
Succeeds(job) == [MCCall(job, TRUE) EXCEPT !.outs = {"null"}]

Idle == [c \in Calls |-> NoCall]

MCPrograms ==
    {Idle} \cup
    {(c1 :> MCCall(job, held) @@ c2 :> NoCall) :
        job \in DOMAIN MCCatalogue, held \in BOOLEAN}
    \cup {(c1 :> MCCall(job, TRUE) @@ c2 :> MCCall(next, TRUE)) :
             job \in Directory, next \in Directory}
    \cup {(c1 :> Succeeds(job) @@ c2 :> Succeeds(next)) : job \in Hosts, next \in Hosts}
    \cup {(c1 :> Succeeds(job) @@ c2 :> Succeeds(next)) : job \in Protocols, next \in Protocols}
(* lockf with F_TEST, when fcntl may fail.                                 *)
MCLockfTest ==
    {Idle, (c1 :> [MCCall("lockf_test", TRUE) EXCEPT !.outs = {"error", "locked"}]
              @@ c2 :> NoCall)}

MCBounds == {<<0, 1>>, <<2, 2>>}
MCDefaultBounds == <<0, 2>>
-----------------------------------------------------------------------------
VARIABLE part

Init ==
    /\ StubInit /\ ConditionInit /\ TermiosInit /\ PreemptiveInit
    /\ part \in {"stubs", "condition", "termios", "preemptive"}
    /\ part # "stubs" => calls = Idle
    /\ part # "termios" => terminal_status = EmptyStatus(FALSE, 9600)

Next ==
    /\ \/ /\ part = "stubs" /\ StubNext
          /\ UNCHANGED <<conditionVars, termiosVars, preemptiveVars>>
       \/ /\ part = "condition" /\ ConditionNext
          /\ UNCHANGED <<stubVars, termiosVars, preemptiveVars>>
       \/ /\ part = "termios" /\ TermiosNext
          /\ UNCHANGED <<stubVars, conditionVars, preemptiveVars>>
       \/ /\ part = "preemptive" /\ PreemptiveNext
          /\ UNCHANGED <<stubVars, conditionVars, termiosVars>>
    /\ UNCHANGED part

Spec ==
    /\ Init
    /\ [][Next]_<<stubVars, conditionVars, termiosVars, preemptiveVars, part>>
    /\ ConditionFairness
    /\ PreemptiveFairness
=============================================================================
