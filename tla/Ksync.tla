-------------------------------- MODULE Ksync --------------------------------
(***************************************************************************)
(* tsleep() and wakeup() of uspace/ksync.c: sleep channels hashed onto a   *)
(* few condition variables, with a timer that points into the sleeper's    *)
(* stack frame.  Kernel code runs under kern_lock and gives it up only     *)
(* inside COND_WAIT, so a thread's kernel code is one step up to the wait  *)
(* and one step after it.  The timers are those of TimerService.           *)
(***************************************************************************)
EXTENDS Integers, FiniteSets

CONSTANTS
  Threads, Channels,
  Buckets,   \* the condition variables slpqueue[0 .. HTSIZE - 1]
  NULL

CONSTANT CHASH   \* the bucket of each channel

ASSUME KsyncAssumption ==
  /\ CHASH \in [Channels -> Buckets]
  /\ NULL \notin Buckets

EWOULDBLOCK == 35

VARIABLES
  pc,        \* "running"; "asleep" in COND_WAIT; "awake": back from the wait,
             \* queueing for kern_lock
  chan,      \* the channel of the current or last tsleep()
  timo,      \* whether that call asked for a timeout
  timoarg,   \* the variable timoarg of its frame
  callouts,  \* the frames a pending sleep_timefunc() points to
  ret        \* what the last tsleep() returned

vars == <<pc, chan, timo, timoarg, callouts, ret>>

Init ==
  /\ pc = [t \in Threads |-> "running"]
  /\ chan \in [Threads -> Channels]
  /\ timo = [t \in Threads |-> FALSE]
  /\ timoarg = [t \in Threads |-> NULL]
  /\ callouts = {}
  /\ ret = [t \in Threads |-> 0]

(* COND_BCAST: every thread in COND_WAIT on condition variable b wakes.    *)
Bcast(b) ==
  pc' = [t \in Threads |->
           IF pc[t] = "asleep" /\ CHASH[chan[t]] = b THEN "awake" ELSE pc[t]]

(* Mutant: timoarg is left as the last frame at this address left it. *)
Tsleep_NoTimoarg(t, c, timed) ==
  /\ pc[t] = "running"
  /\ chan' = [chan EXCEPT ![t] = c]
  /\ timo' = [timo EXCEPT ![t] = timed]
  /\ timoarg' = [timoarg EXCEPT ![t] = IF @ = NULL THEN "garbage" ELSE @]
  /\ callouts' = IF timed THEN callouts \cup {t} ELSE callouts
  /\ pc' = [pc EXCEPT ![t] = "asleep"]
  /\ UNCHANGED ret

(* tsleep(c, ..., timo) up to the wait. *)
Tsleep(t, c, timed) ==
  /\ pc[t] = "running"
  /\ chan' = [chan EXCEPT ![t] = c]
  /\ timo' = [timo EXCEPT ![t] = timed]
  /\ timoarg' = [timoarg EXCEPT ![t] = CHASH[c]]
  /\ callouts' = IF timed THEN callouts \cup {t} ELSE callouts
  /\ pc' = [pc EXCEPT ![t] = "asleep"]
  /\ UNCHANGED ret

(* Mutant: a sleeper that was woken up leaves its timer running. *)
TsleepReturn_NoUntimeout(t) ==
  /\ pc[t] = "awake"
  /\ ret' = [ret EXCEPT ![t] = IF timoarg[t] = NULL THEN EWOULDBLOCK ELSE 0]
  /\ pc' = [pc EXCEPT ![t] = "running"]
  /\ UNCHANGED <<chan, timo, timoarg, callouts>>

(* tsleep() after the wait, with kern_lock back: the frame goes away. *)
TsleepReturn(t) ==
  /\ pc[t] = "awake"
  /\ \/ /\ timoarg[t] = NULL
        /\ ret' = [ret EXCEPT ![t] = EWOULDBLOCK]
        /\ UNCHANGED callouts
     \/ /\ timoarg[t] # NULL
        /\ callouts' = callouts \ {t}
        /\ ret' = [ret EXCEPT ![t] = 0]
  /\ pc' = [pc EXCEPT ![t] = "running"]
  /\ UNCHANGED <<chan, timo, timoarg>>

(* Mutant: sleep_timefunc() clears the frame's pointer but wakes nobody. *)
sleep_timefunc_NoBcast(t) ==
  /\ t \in callouts
  /\ callouts' = callouts \ {t}
  /\ timoarg' = [timoarg EXCEPT ![t] = NULL]
  /\ UNCHANGED <<pc, chan, timo, ret>>

(* sleep_timefunc(), run by callout_thread once the timer has expired. *)
sleep_timefunc(t) ==
  /\ t \in callouts
  /\ callouts' = callouts \ {t}
  /\ timoarg' = [timoarg EXCEPT ![t] = NULL]
  /\ Bcast(timoarg[t])
  /\ UNCHANGED <<chan, timo, ret>>

(* wakeup(c), called by any thread running in the kernel. *)
wakeup(c) ==
  /\ Bcast(CHASH[c])
  /\ UNCHANGED <<chan, timo, timoarg, callouts, ret>>

Next ==
  \/ \E t \in Threads :
       \/ \E c \in Channels, timed \in BOOLEAN : Tsleep(t, c, timed)
       \/ TsleepReturn(t)
       \/ sleep_timefunc(t)
  \/ \E c \in Channels : wakeup(c)

Spec == Init /\ [][Next]_vars

(* A woken thread gets kern_lock back; nobody is obliged to sleep or to    *)
(* call wakeup().                                                          *)
Fairness == \A t \in Threads : WF_vars(TsleepReturn(t))

FairSpec == Spec /\ Fairness
-----------------------------------------------------------------------------
(* The variables have their types. *)
TypeOK ==
  /\ pc \in [Threads -> {"running", "asleep", "awake"}]
  /\ chan \in [Threads -> Channels]
  /\ timo \in [Threads -> BOOLEAN]
  /\ timoarg \in [Threads -> Buckets \cup {NULL}]
  /\ callouts \in SUBSET Threads
  /\ ret \in [Threads -> {0, EWOULDBLOCK}]

(* The callout queue holds no pointer to a dead stack frame: a pending     *)
(* sleep_timefunc() always points into a tsleep() still in progress, whose *)
(* timoarg it finds pointing at that sleeper's own condition variable.     *)
FrameSafe ==
  \A t \in callouts : pc[t] # "running" /\ timoarg[t] = CHASH[chan[t]]

(* A sleeper that asked for a timeout is never left without its timer.     *)
TimedSleeperHasTimer ==
  \A t \in Threads : pc[t] = "asleep" /\ timo[t] => t \in callouts

(* The callout queue and the frames of tsleep() agree, both ways: neither  *)
(* a timer without its sleeper nor a timed sleeper without its timer.      *)
TimersMatchSleepers == FrameSafe /\ TimedSleeperHasTimer

(* A sleep with a timeout ends, even if nobody ever calls wakeup(), when   *)
(* callout_thread does not leave its timer in the queue for ever.  That it *)
(* does not is not to be had from timers.c for every sleep: the timer of a *)
(* long one is pushed back by each re-arming of the protocol timers.       *)
TimedSleepEnds ==
  \A t \in Threads :
    []<>(t \notin callouts) => ((pc[t] = "asleep" /\ timo[t]) ~> pc[t] = "running")
=============================================================================
