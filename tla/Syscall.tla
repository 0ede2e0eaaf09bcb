------------------------------- MODULE Syscall -------------------------------
(***************************************************************************)
(* How the calls of uspace/anp_syscall.c report their outcome: all threads *)
(* share one anp_errno.  A call runs under kern_lock and may give it up in *)
(* tsleep().  anp_read(), anp_write() and anp_ioctl() set anp_errno under  *)
(* the lock and test it after MU_UNLOCK, but for two early returns of      *)
(* anp_ioctl(); the stubs of the socket calls test it before; anp_close()  *)
(* does not look.  A program asks anp_errno for the cause of a -1.         *)
(***************************************************************************)
EXTENDS Integers

CONSTANTS
  Threads, NULL,
  Kinds,     \* the calls made: see Calls
  Errors     \* what a kernel routine may return: 0 and some error numbers

(* read() and write(); ioctl(); socket() and accept(), which make a        *)
(* descriptor; close(); and the other calls on sockets.                    *)
Calls == {"rw", "ioctl", "alloc", "close", "socket"}

ASSUME SyscallAssumption ==
  /\ NULL \notin Threads \cup Calls
  /\ Kinds \subseteq Calls
  /\ 0 \in Errors /\ Errors \subseteq Nat

VARIABLES
  kern_lock,   \* the thread that holds it, or NULL
  anp_errno,
  pc,          \* "user", "kernel", "asleep", "test", "returned"
  kind,        \* the call the thread is in, or NULL
  error,       \* what the kernel routine of its last call returned
  ret,         \* what that call returned: -1, or 0 for any other value
  cause,       \* the anp_errno the program read after a -1 of that call
  full,        \* history: the table had no descriptor for the call
  late,        \* history: the call looks at anp_errno after its unlock
  foreign      \* history: another call has set anp_errno since that call did

callvars == <<kern_lock, anp_errno, pc, kind, error, ret, cause, full, late, foreign>>

CallInit ==
  /\ kern_lock = NULL
  /\ anp_errno = 0
  /\ pc = [t \in Threads |-> "user"]
  /\ kind = [t \in Threads |-> NULL]
  /\ error = [t \in Threads |-> 0]
  /\ ret = [t \in Threads |-> 0]
  /\ cause = [t \in Threads |-> 0]
  /\ full = [t \in Threads |-> FALSE]
  /\ late = [t \in Threads |-> FALSE]
  /\ foreign = [t \in Threads |-> FALSE]

Enter(t, k) ==
  /\ pc[t] = "user" /\ kern_lock = NULL
  /\ kern_lock' = t
  /\ pc' = [pc EXCEPT ![t] = "kernel"]
  /\ kind' = [kind EXCEPT ![t] = k]
  /\ error' = [error EXCEPT ![t] = 0]
  /\ ret' = [ret EXCEPT ![t] = 0]
  /\ cause' = [cause EXCEPT ![t] = 0]
  /\ UNCHANGED <<anp_errno, full, late, foreign>>

(* COND_WAIT gives up the lock and takes it back. *)
tsleep(t) ==
  /\ pc[t] = "kernel"
  /\ kern_lock' = NULL
  /\ pc' = [pc EXCEPT ![t] = "asleep"]
  /\ UNCHANGED <<anp_errno, kind, error, ret, cause, full, late, foreign>>

Wakeup(t) ==
  /\ pc[t] = "asleep" /\ kern_lock = NULL
  /\ kern_lock' = t
  /\ pc' = [pc EXCEPT ![t] = "kernel"]
  /\ UNCHANGED <<anp_errno, kind, error, ret, cause, full, late, foreign>>

Result(failed) == IF failed THEN -1 ELSE 0

(* Thread t sets anp_errno, which from then on is nobody else's. *)
SetErrno(t, e) ==
  /\ anp_errno' = e
  /\ foreign' = [u \in Threads |-> u # t]

(* MU_UNLOCK, with the kernel routine's error e. *)
Leave(t, e, next) ==
  /\ kern_lock' = NULL
  /\ error' = [error EXCEPT ![t] = e]
  /\ pc' = [pc EXCEPT ![t] = next]
  /\ UNCHANGED <<kind, cause>>

(* if (anp_errno=anp_sys_xxx()) { MU_UNLOCK; return -1; } MU_UNLOCK;       *)
(* return retval.  The value anp_fdalloc() gives socket() and accept() is  *)
(* -1 when its table is full; that is no error to them.                    *)
SocketCall(t, e, nofd) ==
  /\ pc[t] = "kernel" /\ kind[t] \in {"alloc", "socket"}
  /\ nofd => kind[t] = "alloc" /\ e = 0
  /\ SetErrno(t, e)
  /\ ret' = [ret EXCEPT ![t] = Result(e # 0 \/ nofd)]
  /\ full' = [full EXCEPT ![t] = nofd]
  /\ Leave(t, e, "returned") /\ UNCHANGED late

(* Mutant: anp_read() leaves anp_errno alone when it succeeds. *)
GenericCall_ErrorsOnly(t, e) ==
  /\ pc[t] = "kernel" /\ kind[t] \in {"rw", "ioctl"}
  /\ anp_errno' = IF e # 0 THEN e ELSE anp_errno
  /\ foreign' = [u \in Threads |-> u # t]
  /\ late' = [late EXCEPT ![t] = TRUE]
  /\ Leave(t, e, "test") /\ UNCHANGED <<ret, full>>

(* anp_errno=error; MU_UNLOCK; *)
GenericCall(t, e) ==
  /\ pc[t] = "kernel" /\ kind[t] \in {"rw", "ioctl"}
  /\ SetErrno(t, e)
  /\ late' = [late EXCEPT ![t] = TRUE]
  /\ Leave(t, e, "test") /\ UNCHANGED <<ret, full>>

(* if (anp_errno!=0) return -1; else return cnt; *)
GenericReturn(t) ==
  /\ pc[t] = "test"
  /\ ret' = [ret EXCEPT ![t] = Result(anp_errno # 0)]
  /\ pc' = [pc EXCEPT ![t] = "returned"]
  /\ UNCHANGED <<kern_lock, anp_errno, kind, error, cause, full, late, foreign>>

(* anp_ioctl() with an argument that is too long (ENOTTY), or that         *)
(* copyin() cannot get: anp_errno=error; MU_UNLOCK; return -1;             *)
IoctlRefused(t, e) ==
  /\ pc[t] = "kernel" /\ kind[t] = "ioctl" /\ e # 0
  /\ SetErrno(t, e)
  /\ ret' = [ret EXCEPT ![t] = -1]
  /\ Leave(t, e, "returned") /\ UNCHANGED <<full, late>>

(* anp_close() drops what soclose() returns. *)
CloseCall(t, e) ==
  /\ pc[t] = "kernel" /\ kind[t] = "close"
  /\ Leave(t, e, "returned")
  /\ UNCHANGED <<anp_errno, ret, full, late, foreign>>

(* The program looks at the result, and at anp_errno when it is -1         *)
(* (err_sys() of uspace/util.c, the tests of config.c).                    *)
Report(t) ==
  /\ pc[t] = "returned"
  /\ cause' = [cause EXCEPT ![t] = IF ret[t] = -1 THEN anp_errno ELSE 0]
  /\ pc' = [pc EXCEPT ![t] = "user"]
  /\ kind' = [kind EXCEPT ![t] = NULL]
  /\ full' = [full EXCEPT ![t] = FALSE]
  /\ late' = [late EXCEPT ![t] = FALSE]
  /\ UNCHANGED <<kern_lock, anp_errno, error, ret, foreign>>

CallNext ==
  \E t \in Threads :
    \/ \E k \in Kinds : Enter(t, k)
    \/ tsleep(t) \/ Wakeup(t)
    \/ \E e \in Errors :
         \/ GenericCall(t, e) \/ IoctlRefused(t, e) \/ CloseCall(t, e)
         \/ \E nofd \in BOOLEAN : SocketCall(t, e, nofd)
    \/ GenericReturn(t) \/ Report(t)

CallSpec == CallInit /\ [][CallNext]_callvars

-----------------------------------------------------------------------------
(* Properties                                                              *)

(* The variables have their types. *)
CallTypeOK ==
  /\ kern_lock \in Threads \cup {NULL}
  /\ anp_errno \in Errors
  /\ pc \in [Threads -> {"user", "kernel", "asleep", "test", "returned"}]
  /\ kind \in [Threads -> Kinds \cup {NULL}]
  /\ error \in [Threads -> Errors]
  /\ ret \in [Threads -> {-1, 0}]
  /\ cause \in [Threads -> Errors]
  /\ full \in [Threads -> BOOLEAN]
  /\ late \in [Threads -> BOOLEAN]
  /\ foreign \in [Threads -> BOOLEAN]

(* A call other than close() returns -1 exactly when its own kernel        *)
(* routine failed or, of socket() and accept(), no descriptor was free.    *)
(* close() returns 0, whatever soclose() says.  A call that looks at the   *)
(* shared variable after its unlock (anp_read(), anp_write(), most of      *)
(* anp_ioctl()) does so only while no other call has set anp_errno in      *)
(* between; the others do so whatever the other threads do.                *)
ResultOwn ==
  \A t \in Threads :
    pc[t] = "returned" /\ ~(late[t] /\ foreign[t]) =>
      ret[t] = Result(kind[t] # "close" /\ (error[t] # 0 \/ full[t]))

(* After a -1 the program finds in anp_errno, a "replacement for errno,    *)
(* for error reporting", what the kernel routine of its own call returned  *)
(* (0 when only the descriptor was missing), if no other call has set it   *)
(* between the unlock of the first and the look of the program: close()    *)
(* of another thread, which sets nothing, does no harm.                    *)
CauseOwn ==
  \A t \in Threads :
    pc[t] = "user" /\ ret[t] = -1 /\ ~foreign[t] => cause[t] = error[t]

(* A call of anp_syscall.c reports its own outcome and its own cause.      *)
OutcomeOwn == ResultOwn /\ CauseOwn
=============================================================================
