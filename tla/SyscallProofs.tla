---------------------------- MODULE SyscallProofs ----------------------------
(* Proofs about Syscall, for any number of threads, calls and errors.      *)
EXTENDS Syscall, TLAPS

(* Where a call stands.  Only anp_read(), anp_write() and anp_ioctl() test *)
(* anp_errno after the unlock, and they look for no descriptor; the        *)
(* histories of a call start afresh; close() returns 0.  Without this      *)
(* ResultOwn is not inductive: another call in the state of the late test  *)
(* would take its result from another thread's error.                      *)
CallState ==
  \A t \in Threads :
    /\ pc[t] = "test" => kind[t] # "close" /\ late[t]
    /\ pc[t] \in {"kernel", "asleep"} => ret[t] = 0 /\ ~late[t]
    /\ pc[t] \in {"kernel", "asleep", "test"} => ~full[t]
    /\ pc[t] = "user" => ~full[t] /\ ~late[t]
    /\ kind[t] = "close" => ret[t] = 0

(* Until another call sets anp_errno it holds the error of the call that   *)
(* did, from the unlock of that call until the program looks.  This is     *)
(* what carries the error from GenericCall to GenericReturn and Report.    *)
ErrnoIsMine ==
  \A t \in Threads :
    pc[t] \in {"test", "returned"} /\ kind[t] # "close" /\ ~foreign[t] =>
      anp_errno = error[t]

IInv == CallTypeOK /\ CallState /\ ErrnoIsMine /\ ResultOwn /\ CauseOwn

(* The initial states satisfy the invariant.                               *)
LEMMA InitIInv == CallInit => IInv
<1> SUFFICES ASSUME CallInit PROVE IInv
  OBVIOUS
<1> USE SyscallAssumption DEF CallInit
<1>1. CallTypeOK
  BY DEF CallTypeOK
<1>2. CallState /\ ErrnoIsMine /\ ResultOwn /\ CauseOwn
  BY DEF CallState, ErrnoIsMine, ResultOwn, CauseOwn, Calls
<1> QED
  BY <1>1, <1>2 DEF IInv

(* Every step of a call keeps the types.                                   *)
LEMMA NextCallTypeOK ==
  CallTypeOK /\ [CallNext]_callvars => CallTypeOK'
<1> SUFFICES ASSUME CallTypeOK, [CallNext]_callvars
             PROVE  CallTypeOK'
  OBVIOUS
<1> USE SyscallAssumption DEF CallTypeOK, Calls
<1>1. ASSUME NEW t \in Threads, NEW k \in Kinds, Enter(t, k)
      PROVE  CallTypeOK'
  BY <1>1 DEF Enter
<1>2. ASSUME NEW t \in Threads, tsleep(t) \/ Wakeup(t)
      PROVE  CallTypeOK'
  BY <1>2 DEF tsleep, Wakeup
<1>3. ASSUME NEW t \in Threads, NEW e \in Errors, NEW nofd \in BOOLEAN,
             SocketCall(t, e, nofd)
      PROVE  CallTypeOK'
  BY <1>3 DEF SocketCall, SetErrno, Leave, Result
<1>4. ASSUME NEW t \in Threads, NEW e \in Errors, GenericCall(t, e)
      PROVE  CallTypeOK'
  BY <1>4 DEF GenericCall, SetErrno, Leave
<1>5. ASSUME NEW t \in Threads, GenericReturn(t)
      PROVE  CallTypeOK'
  BY <1>5 DEF GenericReturn, Result
<1>6. ASSUME NEW t \in Threads, NEW e \in Errors, IoctlRefused(t, e)
      PROVE  CallTypeOK'
  BY <1>6 DEF IoctlRefused, SetErrno, Leave
<1>7. ASSUME NEW t \in Threads, NEW e \in Errors, CloseCall(t, e)
      PROVE  CallTypeOK'
  BY <1>7 DEF CloseCall, Leave
<1>8. ASSUME NEW t \in Threads, Report(t)
      PROVE  CallTypeOK'
  BY <1>8 DEF Report
<1>9. CASE UNCHANGED callvars
  BY <1>9 DEF callvars
<1> QED
  BY <1>1, <1>2, <1>3, <1>4, <1>5, <1>6, <1>7, <1>8, <1>9 DEF CallNext

(* A thread reaches the late test only from GenericCall, and its kind is   *)
(* set only by Enter.                                                      *)
LEMMA NextCallState ==
  CallTypeOK /\ CallState /\ [CallNext]_callvars => CallState'
<1> SUFFICES ASSUME CallTypeOK, CallState, [CallNext]_callvars
             PROVE  CallState'
  OBVIOUS
<1> USE SyscallAssumption DEF CallTypeOK, CallState, Calls
<1>1. ASSUME NEW t \in Threads, NEW k \in Kinds, Enter(t, k)
      PROVE  CallState'
  BY <1>1 DEF Enter
<1>2. ASSUME NEW t \in Threads, tsleep(t) \/ Wakeup(t)
      PROVE  CallState'
  BY <1>2 DEF tsleep, Wakeup
<1>3. ASSUME NEW t \in Threads, NEW e \in Errors, NEW nofd \in BOOLEAN,
             SocketCall(t, e, nofd)
      PROVE  CallState'
  BY <1>3 DEF SocketCall, SetErrno, Leave, Result
<1>4. ASSUME NEW t \in Threads, NEW e \in Errors, GenericCall(t, e)
      PROVE  CallState'
  BY <1>4 DEF GenericCall, SetErrno, Leave
<1>5. ASSUME NEW t \in Threads, GenericReturn(t)
      PROVE  CallState'
  BY <1>5 DEF GenericReturn, Result
<1>6. ASSUME NEW t \in Threads, NEW e \in Errors, IoctlRefused(t, e)
      PROVE  CallState'
  BY <1>6 DEF IoctlRefused, SetErrno, Leave
<1>7. ASSUME NEW t \in Threads, NEW e \in Errors, CloseCall(t, e)
      PROVE  CallState'
  BY <1>7 DEF CloseCall, Leave
<1>8. ASSUME NEW t \in Threads, Report(t)
      PROVE  CallState'
  BY <1>8 DEF Report
<1>9. CASE UNCHANGED callvars
  BY <1>9 DEF callvars
<1> QED
  BY <1>1, <1>2, <1>3, <1>4, <1>5, <1>6, <1>7, <1>8, <1>9 DEF CallNext

(* Whoever sets anp_errno makes it foreign to all others; a call that has  *)
(* not set it yet is still in the kernel or asleep.                        *)
LEMMA NextErrnoIsMine ==
  CallTypeOK /\ ErrnoIsMine /\ [CallNext]_callvars => ErrnoIsMine'
<1> SUFFICES ASSUME CallTypeOK, ErrnoIsMine, [CallNext]_callvars
             PROVE  ErrnoIsMine'
  OBVIOUS
<1> USE SyscallAssumption DEF CallTypeOK, ErrnoIsMine, Calls
<1>1. ASSUME NEW t \in Threads, NEW k \in Kinds, Enter(t, k)
      PROVE  ErrnoIsMine'
  BY <1>1 DEF Enter
<1>2. ASSUME NEW t \in Threads, tsleep(t) \/ Wakeup(t)
      PROVE  ErrnoIsMine'
  BY <1>2 DEF tsleep, Wakeup
<1>3. ASSUME NEW t \in Threads, NEW e \in Errors, NEW nofd \in BOOLEAN,
             SocketCall(t, e, nofd)
      PROVE  ErrnoIsMine'
  BY <1>3 DEF SocketCall, SetErrno, Leave, Result
<1>4. ASSUME NEW t \in Threads, NEW e \in Errors, GenericCall(t, e)
      PROVE  ErrnoIsMine'
  BY <1>4 DEF GenericCall, SetErrno, Leave
<1>5. ASSUME NEW t \in Threads, GenericReturn(t)
      PROVE  ErrnoIsMine'
  BY <1>5 DEF GenericReturn, Result
<1>6. ASSUME NEW t \in Threads, NEW e \in Errors, IoctlRefused(t, e)
      PROVE  ErrnoIsMine'
  BY <1>6 DEF IoctlRefused, SetErrno, Leave
<1>7. ASSUME NEW t \in Threads, NEW e \in Errors, CloseCall(t, e)
      PROVE  ErrnoIsMine'
  BY <1>7 DEF CloseCall, Leave
<1>8. ASSUME NEW t \in Threads, Report(t)
      PROVE  ErrnoIsMine'
  BY <1>8 DEF Report
<1>9. CASE UNCHANGED callvars
  BY <1>9 DEF callvars
<1> QED
  BY <1>1, <1>2, <1>3, <1>4, <1>5, <1>6, <1>7, <1>8, <1>9 DEF CallNext

(* A call decides under the lock, or from anp_errno, which ErrnoIsMine     *)
(* equates with its error.                                                 *)
LEMMA NextResultOwn ==
  CallTypeOK /\ CallState /\ ErrnoIsMine /\ ResultOwn /\ [CallNext]_callvars => ResultOwn'
<1> SUFFICES ASSUME CallTypeOK, CallState, ErrnoIsMine, ResultOwn, [CallNext]_callvars
             PROVE  ResultOwn'
  OBVIOUS
<1> USE SyscallAssumption DEF CallTypeOK, ResultOwn, Calls
<1>1. ASSUME NEW t \in Threads, NEW k \in Kinds, Enter(t, k)
      PROVE  ResultOwn'
  BY <1>1 DEF Enter
<1>2. ASSUME NEW t \in Threads, tsleep(t) \/ Wakeup(t)
      PROVE  ResultOwn'
  BY <1>2 DEF tsleep, Wakeup
<1>3. ASSUME NEW t \in Threads, NEW e \in Errors, NEW nofd \in BOOLEAN,
             SocketCall(t, e, nofd)
      PROVE  ResultOwn'
  <2>1. ~late[t] /\ kind[t] # "close"
    BY <1>3 DEF SocketCall, CallState
  <2> QED
    BY <1>3, <2>1 DEF SocketCall, SetErrno, Leave, Result
<1>4. ASSUME NEW t \in Threads, NEW e \in Errors, GenericCall(t, e)
      PROVE  ResultOwn'
  BY <1>4 DEF GenericCall, SetErrno, Leave
<1>5. ASSUME NEW t \in Threads, GenericReturn(t)
      PROVE  ResultOwn'
  <2>1. kind[t] # "close" /\ late[t] /\ ~full[t] /\ (~foreign[t] => anp_errno = error[t])
    BY <1>5 DEF GenericReturn, CallState, ErrnoIsMine
  <2> QED
    BY <1>5, <2>1 DEF GenericReturn, Result
<1>6. ASSUME NEW t \in Threads, NEW e \in Errors, IoctlRefused(t, e)
      PROVE  ResultOwn'
  BY <1>6 DEF IoctlRefused, SetErrno, Leave, Result
<1>7. ASSUME NEW t \in Threads, NEW e \in Errors, CloseCall(t, e)
      PROVE  ResultOwn'
  <2>1. ret[t] = 0
    BY <1>7 DEF CloseCall, CallState
  <2> QED
    BY <1>7, <2>1 DEF CloseCall, Leave, Result
<1>8. ASSUME NEW t \in Threads, Report(t)
      PROVE  ResultOwn'
  BY <1>8 DEF Report
<1>9. CASE UNCHANGED callvars
  BY <1>9 DEF callvars
<1> QED
  BY <1>1, <1>2, <1>3, <1>4, <1>5, <1>6, <1>7, <1>8, <1>9 DEF CallNext

(* Report copies anp_errno, which is then still the error of the call; a   *)
(* step of another thread that sets anp_errno makes the claim void.        *)
LEMMA NextCauseOwn ==
  CallTypeOK /\ CallState /\ ErrnoIsMine /\ CauseOwn /\ [CallNext]_callvars => CauseOwn'
<1> SUFFICES ASSUME CallTypeOK, CallState, ErrnoIsMine, CauseOwn, [CallNext]_callvars
             PROVE  CauseOwn'
  OBVIOUS
<1> USE SyscallAssumption DEF CallTypeOK, CauseOwn, Calls
<1>1. ASSUME NEW t \in Threads, NEW k \in Kinds, Enter(t, k)
      PROVE  CauseOwn'
  BY <1>1 DEF Enter
<1>2. ASSUME NEW t \in Threads, tsleep(t) \/ Wakeup(t)
      PROVE  CauseOwn'
  BY <1>2 DEF tsleep, Wakeup
<1>3. ASSUME NEW t \in Threads, NEW e \in Errors, NEW nofd \in BOOLEAN,
             SocketCall(t, e, nofd)
      PROVE  CauseOwn'
  BY <1>3 DEF SocketCall, SetErrno, Leave, Result
<1>4. ASSUME NEW t \in Threads, NEW e \in Errors, GenericCall(t, e)
      PROVE  CauseOwn'
  BY <1>4 DEF GenericCall, SetErrno, Leave
<1>5. ASSUME NEW t \in Threads, GenericReturn(t)
      PROVE  CauseOwn'
  BY <1>5 DEF GenericReturn, Result
<1>6. ASSUME NEW t \in Threads, NEW e \in Errors, IoctlRefused(t, e)
      PROVE  CauseOwn'
  BY <1>6 DEF IoctlRefused, SetErrno, Leave
<1>7. ASSUME NEW t \in Threads, NEW e \in Errors, CloseCall(t, e)
      PROVE  CauseOwn'
  BY <1>7 DEF CloseCall, Leave
<1>8. ASSUME NEW t \in Threads, Report(t)
      PROVE  CauseOwn'
  <2>1. ret[t] = -1 /\ ~foreign[t] => anp_errno = error[t]
    BY <1>8 DEF Report, ErrnoIsMine, CallState
  <2> QED
    BY <1>8, <2>1 DEF Report
<1>9. CASE UNCHANGED callvars
  BY <1>9 DEF callvars
<1> QED
  BY <1>1, <1>2, <1>3, <1>4, <1>5, <1>6, <1>7, <1>8, <1>9 DEF CallNext

(* The invariant holds in every state of every execution.                  *)
THEOREM Inductive == CallSpec => []IInv
<1>1. IInv /\ [CallNext]_callvars => IInv'
  BY NextCallTypeOK, NextCallState, NextErrnoIsMine, NextResultOwn, NextCauseOwn
     DEF IInv
<1> QED
  BY InitIInv, <1>1, PTL DEF CallSpec

(* The variables keep their types.                                         *)
THEOREM TypeCorrect == CallSpec => []CallTypeOK
<1>1. IInv => CallTypeOK
  BY DEF IInv
<1> QED
  BY Inductive, <1>1, PTL

(* A call other than close() returns -1 exactly when its own kernel        *)
(* routine failed or had no descriptor to give: one that decides under the *)
(* lock always, one that looks at anp_errno after the unlock unless        *)
(* another call has set it since; close() returns 0; and after a -1 the    *)
(* program finds its own call's error in anp_errno unless another call has *)
(* set it.  For any number of threads, calls and errors.                   *)
THEOREM OutcomesAreOwn == CallSpec => []OutcomeOwn
<1>1. IInv => OutcomeOwn
  BY DEF IInv, OutcomeOwn
<1> QED
  BY Inductive, <1>1, PTL
=============================================================================
