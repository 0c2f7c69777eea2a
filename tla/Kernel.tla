------------------------------- MODULE Kernel -------------------------------
(***************************************************************************)
(* The wrappers of sdk/src/syscall.c, and the ones like them in time.c and *)
(* signal.c: each passes its arguments to syscall(), which decodes what    *)
(* the kernel answers, and converts the result to the type it returns.     *)
(***************************************************************************)
EXTENDS Numbers

CONSTANT MaxErrno   \* 4095

ASSUME KernelAssumption == MaxErrno \in 1 .. (IntValues \div 2) - 1

-----------------------------------------------------------------------------
(* What the wrappers return, in the order of the file.                     *)

Of(type, calls) == [c \in calls |-> type]
Merged(types) ==
  [c \in UNION {DOMAIN f : f \in types} |-> (CHOOSE f \in types : c \in DOMAIN f)[c]]

FileCalls ==
  Merged({Of("long", {"write", "read"}),
          Of("int", {"open", "close", "mkdir", "unlink", "rmdir", "readdir", "chdir", "getcwd",
                     "fstat", "stat", "dup2", "pipe", "mount", "umount", "mkfifo"})})

ProcessCalls ==
  Merged({Of("long", {"driver_rescan", "sys_getpid", "sys_yield", "sys_fork", "sys_spawn_cmd",
                      "sys_waitpid", "sys_waitpid_nb"}),
          Of("int", {"execve", "sys_ps", "sys_getpwnam", "sys_reload_users"})})

IpcCalls ==
  Merged({Of("int", {"ipc_create"}),
          Of("long", {"ipc_send", "ipc_recv", "shm_create"}),
          Of("ulong", {"shm_attach"})})

BugSocketCalls ==
  Of("int", {"sock_create", "sock_bind", "sock_connect", "sock_listen", "sock_accept",
             "sock_send", "sock_recv", "sock_close", "dns_resolve", "ping"})

SocketCalls ==
  Merged({Of("int", {"sock_create", "sock_bind", "sock_connect", "sock_listen", "sock_accept",
                     "sock_close", "dns_resolve", "ping"}),
          Of("long", {"sock_send", "sock_recv"})})

UserCalls ==
  Merged({Of("unsigned", {"getuid", "geteuid", "getgid", "getegid"}),
          Of("int", {"getrole", "setuid", "setgid", "chmod", "chown", "sys_authenticate"})})

LaterCalls ==
  Merged({Of("long", {"fb_mmap", "kxtload", "kxtunload", "lseek", "pread", "pwrite"}),
          Of("int", {"uname"})})

TimeCalls == Merged({Of("long", {"time"}), Of("int", {"gettimeofday"})})

\* nanosleep with a request; without one it sets EFAULT and makes no call.
SleepCalls == Of("int", {"usleep", "nanosleep"})

SignalCalls == Of("int", {"sigaction", "kill"})

ReturnType ==
  Merged({FileCalls, ProcessCalls, IpcCalls, SocketCalls,
          UserCalls, LaterCalls, TimeCalls, SleepCalls, SignalCalls})

-----------------------------------------------------------------------------
(* An answer on its way up.                                                *)

Convert(type, r) ==
  CASE type = "int" -> ToInt(r)
    [] type = "long" -> r
    [] type = "unsigned" -> r % IntValues
    [] type = "ulong" -> ToULong(r)

IsError(raw) == raw < 0 /\ raw >= -MaxErrno

\* syscall(): its result, and errno after it.
SyscallResult(raw) == IF IsError(raw) THEN -1 ELSE raw
SyscallErrno(raw, errno) == IF IsError(raw) THEN -raw ELSE errno

Wrapper(call, raw) == Convert(ReturnType[call], SyscallResult(raw))

-----------------------------------------------------------------------------
(* The kernel's side: what it may answer.                                  *)

\* Calls whose answer counts bytes of a size_t or is an address or a time.
Wide == {"write", "read", "ipc_send", "ipc_recv", "shm_create", "shm_attach",
         "sock_send", "sock_recv", "fb_mmap", "lseek", "pread", "pwrite", "time"}
User == {"getuid", "geteuid", "getgid", "getegid"}

Answers(call) ==
  (-MaxErrno .. -1) \cup
  (0 .. CASE call \in Wide -> (LongValues \div 2) - 1
          [] call \in User -> IntValues - 2
          [] OTHER -> (IntValues \div 2) - 1)
=============================================================================
