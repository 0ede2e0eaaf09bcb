----------------------------- MODULE KsyncProofs -----------------------------
(* Proofs about Ksync for any number of threads, channels and buckets.     *)
EXTENDS Ksync, TLAPS

(* The inductive invariant: a frame with a pending timer is in the middle  *)
(* of a tsleep() that asked for one, its timoarg names the bucket it       *)
(* sleeps on, and a timed sleeper still in COND_WAIT has its timer.        *)
(* FrameSafe alone is not inductive: that sleep_timefunc() wakes the right *)
(* sleeper depends on timoarg, which TimedSleeperHasTimer does not mention.*)
IInv == TypeOK /\ FrameSafe /\ TimedSleeperHasTimer

(* At boot nobody sleeps and no timer is pending. *)
LEMMA InitIInv == Init => IInv
  BY KsyncAssumption DEF Init, IInv, TypeOK, FrameSafe, TimedSleeperHasTimer, EWOULDBLOCK

(* tsleep() starts the timer it was asked for. *)
LEMMA TsleepIInv ==
  ASSUME IInv, NEW t \in Threads, NEW c \in Channels, NEW timed \in BOOLEAN,
         Tsleep(t, c, timed)
  PROVE  IInv'
<1> USE KsyncAssumption DEF IInv
<1>1. TypeOK'
  BY DEF Tsleep, TypeOK
<1>2. FrameSafe'
  BY DEF Tsleep, TypeOK, FrameSafe
<1>3. TimedSleeperHasTimer'
  BY DEF Tsleep, TypeOK, TimedSleeperHasTimer
<1>4. QED
  BY <1>1, <1>2, <1>3

(* tsleep() stops its timer before its frame goes. *)
LEMMA TsleepReturnIInv ==
  ASSUME IInv, NEW t \in Threads, TsleepReturn(t)
  PROVE  IInv'
<1> USE KsyncAssumption DEF IInv
<1>1. TypeOK'
  BY DEF TsleepReturn, TypeOK
<1>2. FrameSafe'
  BY DEF TsleepReturn, TypeOK, FrameSafe
<1>3. TimedSleeperHasTimer'
  BY DEF TsleepReturn, TypeOK, TimedSleeperHasTimer
<1>4. QED
  BY <1>1, <1>2, <1>3

(* sleep_timefunc() ends the sleep it belongs to. *)
LEMMA SleepTimefuncIInv ==
  ASSUME IInv, NEW t \in Threads, sleep_timefunc(t)
  PROVE  IInv'
<1> USE KsyncAssumption DEF IInv
<1>1. TypeOK'
  BY DEF sleep_timefunc, Bcast, TypeOK
<1>2. FrameSafe'
  BY DEF sleep_timefunc, Bcast, TypeOK, FrameSafe
<1>3. TimedSleeperHasTimer'
  <2>1. timoarg[t] = CHASH[chan[t]]
    BY DEF sleep_timefunc, FrameSafe
  <2>2. QED
    BY <2>1 DEF sleep_timefunc, Bcast, TypeOK, TimedSleeperHasTimer
<1>4. QED
  BY <1>1, <1>2, <1>3

(* wakeup() wakes the whole bucket. *)
LEMMA WakeupIInv ==
  ASSUME IInv, NEW c \in Channels, wakeup(c)
  PROVE  IInv'
<1> USE KsyncAssumption DEF IInv
<1>1. TypeOK'
  BY DEF wakeup, Bcast, TypeOK
<1>2. FrameSafe'
  BY DEF wakeup, Bcast, TypeOK, FrameSafe
<1>3. TimedSleeperHasTimer'
  BY DEF wakeup, Bcast, TypeOK, TimedSleeperHasTimer
<1>4. QED
  BY <1>1, <1>2, <1>3

(* Every reachable state of tsleep()/wakeup() satisfies the inductive      *)
(* invariant: one lemma per operation of ksync.c.                          *)
THEOREM Inductive == Spec => []IInv
<1>1. Init => IInv
  BY InitIInv
<1>2. IInv /\ [Next]_vars => IInv'
  <2> SUFFICES ASSUME IInv, [Next]_vars
               PROVE  IInv'
    OBVIOUS
  <2>1. ASSUME NEW t \in Threads, NEW c \in Channels, NEW timed \in BOOLEAN,
               Tsleep(t, c, timed)
        PROVE  IInv'
    BY <2>1, TsleepIInv
  <2>2. ASSUME NEW t \in Threads, TsleepReturn(t)
        PROVE  IInv'
    BY <2>2, TsleepReturnIInv
  <2>3. ASSUME NEW t \in Threads, sleep_timefunc(t)
        PROVE  IInv'
    BY <2>3, SleepTimefuncIInv
  <2>4. ASSUME NEW c \in Channels, wakeup(c)
        PROVE  IInv'
    BY <2>4, WakeupIInv
  <2>5. CASE UNCHANGED vars
    BY <2>5 DEF vars, IInv, TypeOK, FrameSafe, TimedSleeperHasTimer
  <2>6. QED
    BY <2>1, <2>2, <2>3, <2>4, <2>5 DEF Next
<1>3. QED
  BY <1>1, <1>2, PTL DEF Spec

(* The state of tsleep()/wakeup() is always well typed. *)
THEOREM TypeCorrect == Spec => []TypeOK
<1>1. IInv => TypeOK
  BY DEF IInv
<1>2. QED
  BY <1>1, Inductive, PTL

(* sleep_timefunc() never writes to the frame of a tsleep() that returned, *)
(* and broadcasts on the condition variable its own sleeper waits on; and  *)
(* no tsleep() with a timeout is left in COND_WAIT without its timer.      *)
THEOREM TimersMatch == Spec => []TimersMatchSleepers
<1>1. IInv => TimersMatchSleepers
  BY DEF IInv, TimersMatchSleepers
<1>2. QED
  BY <1>1, Inductive, PTL
=============================================================================
