------------------------------- MODULE KernLock -------------------------------
(***************************************************************************)
(* The threads of the simulator around kern_lock: anp_init() on the main   *)
(* thread, sw_intr_thread (uspace/mt.c), clock_thread and callout_thread   *)
(* (uspace/timers.c), and the threads of the application and of the serial *)
(* line, which enter the kernel by anp_xxx() and spipe_input_thread().     *)
(* Software interrupts travel through netisr, ipintrq and sw_intr_cond.    *)
(*                                                                         *)
(* The mutex is a word, as in the pthreads library: unlocking clears it    *)
(* whoever set it.  A tsleep() inside a call gives kern_lock up and takes  *)
(* it again, as the end of one call and the start of another do.           *)
(***************************************************************************)
EXTENDS Integers, Sequences

CONSTANTS
  Main, Clock, Callout, SwIntr,   \* the simulator's own threads
  Users,                          \* threads that call anp_xxx() or slinput()
  IFQ_MAXLEN,                     \* limit of ipintrq
  MaxHops                         \* bound: replies a packet can give rise to

Threads == {Main, Clock, Callout, SwIntr} \cup Users

ASSUME KernLockAssumption ==
  /\ IFQ_MAXLEN \in Nat \ {0}
  /\ MaxHops \in Nat
  /\ Main \notin {Clock, Callout, SwIntr} \cup Users
  /\ Clock \notin {Callout, SwIntr} \cup Users
  /\ Callout \notin {SwIntr} \cup Users
  /\ SwIntr \notin Users

VARIABLES
  locked,    \* the word of kern_lock
  pc,        \* where each thread is, see TypeOK
  rogue,     \* threads in the kernel that did not take kern_lock
  booted,    \* anp_init() has armed the first timers
  due,       \* the head of the callout queue has expired
  netisr,    \* the NETISR_IP bit
  ipintrq,   \* packets: the replies each can still give rise to, and whether
             \* sw_intr_thread had been in COND_WAIT before it was queued
  raced      \* history: kernel data or kern_lock was changed by a thread
             \* that did not hold kern_lock

vars == <<locked, pc, rogue, booted, due, netisr, ipintrq, raced>>

(* "unborn"; "out" of the kernel; "first" and "nolock": callout_thread     *)
(* before and after its first look at cq_head, without kern_lock; "wait"   *)
(* in COND_WAIT; "want" the lock back after it; "in" the kernel; "drain":  *)
(* sw_intr_thread in ipintr(); "idle": sw_intr_thread about to wait.       *)
Places == {"unborn", "out", "first", "nolock", "wait", "want",
           "in", "drain", "idle"}

Packet == [hops : 0..MaxHops, queued : {"early", "late"}]

(* Whether sw_intr_thread has been in COND_WAIT yet. *)
When == IF pc[SwIntr] = "out" THEN "early" ELSE "late"

(* The variables have their types, and ipintrq is within its limit. *)
TypeOK ==
  /\ locked \in BOOLEAN /\ booted \in BOOLEAN /\ due \in BOOLEAN
  /\ netisr \in BOOLEAN /\ raced \in BOOLEAN
  /\ pc \in [Threads -> Places]
  /\ rogue \in SUBSET {Main, Callout}
  /\ ipintrq \in Seq(Packet) /\ Len(ipintrq) <= IFQ_MAXLEN

Inside == {t \in Threads : pc[t] \in {"in", "drain", "idle"}}

Holders == Inside \ rogue

Goes(t, s) == pc' = [pc EXCEPT ![t] = s]

Init ==
  /\ locked = FALSE
  /\ pc = [t \in Threads |-> IF t = Callout THEN "first"
                             ELSE IF t \in Users THEN "unborn" ELSE "out"]
  /\ rogue = {} /\ booted = FALSE /\ due = FALSE
  /\ netisr = FALSE /\ ipintrq = <<>> /\ raced = FALSE
-----------------------------------------------------------------------------
(* Mutant: MU_LOCK does not wait for its turn. *)
Lock_NoWait(t, to) == locked' = TRUE /\ Goes(t, to)

(* MU_LOCK, and the end of COND_WAIT. *)
Lock(t, to) == ~locked /\ locked' = TRUE /\ Goes(t, to)

(* The application starts its threads after anp_init(). *)
Create(t) ==
  /\ pc[t] = "unborn" /\ booted
  /\ Goes(t, "out")
  /\ UNCHANGED <<locked, rogue, booted, due, netisr, ipintrq, raced>>

(* The MU_LOCK of anp_init(), of clock_thread, of sw_intr_thread, of the   *)
(* anp_xxx() calls and of spipe_input_thread(), and the way back from      *)
(* COND_WAIT.  sw_intr_thread starts with a wait.                          *)
Enter(t) ==
  /\ pc[t] \in {"out", "want"}
  /\ Lock(t, IF t = SwIntr /\ pc[t] = "out" THEN "idle" ELSE "in")
  /\ UNCHANGED <<rogue, booted, due, netisr, ipintrq, raced>>

(* The MU_UNLOCK of a call, of the input thread, and of anp_init(), which  *)
(* by then has armed the timers of ifinit() and domaininit().              *)
Leave(t) ==
  /\ pc[t] = "in" /\ t \notin rogue
  /\ locked' = FALSE
  /\ Goes(t, "out")
  /\ booted' = TRUE
  /\ UNCHANGED <<rogue, due, netisr, ipintrq, raced>>

(* ser_init() calls slopen(), which works on the interface, its buffer and *)
(* the tty, without kern_lock.                                             *)
SerInit ==
  /\ booted /\ pc[Main] = "out"
  /\ Goes(Main, "in")
  /\ rogue' = rogue \cup {Main}
  /\ UNCHANGED <<locked, booted, due, netisr, ipintrq, raced>>

SerInitDone ==
  /\ Main \in rogue
  /\ Goes(Main, "out")
  /\ rogue' = rogue \ {Main}
  /\ UNCHANGED <<locked, booted, due, netisr, ipintrq, raced>>
-----------------------------------------------------------------------------
(* COND_SIGNAL: it reaches a thread that is in COND_WAIT, and no other.    *)
Signalled(f, t) == [f EXCEPT ![t] = IF @ = "wait" THEN "want" ELSE @]

(* Mutant: schednetisr() sets its bit and does not signal. *)
schednetisr_NoSignal(f) == netisr' = TRUE /\ pc' = f

schednetisr(f) == netisr' = TRUE /\ pc' = Signalled(f, SwIntr)

(* Mutant: IF_QFULL lets one packet too many in. *)
Queued_OneMore(q, hops, f) ==
  \/ /\ Len(q) <= IFQ_MAXLEN
     /\ ipintrq' = Append(q, [hops |-> hops, queued |-> When])
     /\ schednetisr(f)
  \/ /\ Len(q) > IFQ_MAXLEN
     /\ ipintrq' = q
     /\ pc' = f
     /\ UNCHANGED netisr

(* looutput() and the end of a packet in slinput(): the queue takes the    *)
(* packet and the interrupt is raised, or a full queue drops the packet.   *)
Queued(q, hops, f) ==
  \/ /\ Len(q) < IFQ_MAXLEN
     /\ ipintrq' = Append(q, [hops |-> hops, queued |-> When])
     /\ schednetisr(f)
  \/ /\ Len(q) >= IFQ_MAXLEN
     /\ ipintrq' = q
     /\ pc' = f
     /\ UNCHANGED netisr

(* A call, a buffer from the serial line or a timer callback sends. *)
Send(t, hops) ==
  /\ booted /\ pc[t] = "in" /\ (t = Main => Main \notin rogue)
  /\ Queued(ipintrq, hops, pc)
  /\ raced' = (raced \/ t \in rogue)
  /\ UNCHANGED <<locked, rogue, booted, due>>

(* do_sw_intr(): netisr is read and cleared; ipintr() runs if it was set.  *)
do_sw_intr ==
  /\ pc[SwIntr] = "in"
  /\ Goes(SwIntr, IF netisr THEN "drain" ELSE "idle")
  /\ netisr' = FALSE
  /\ UNCHANGED <<locked, rogue, booted, due, ipintrq, raced>>

(* Mutant: ipintr() returns after one packet. *)
ipintr_One ==
  /\ pc[SwIntr] = "drain" /\ ipintrq # <<>>
  /\ ipintrq' = Tail(ipintrq)
  /\ Goes(SwIntr, "idle")
  /\ UNCHANGED <<locked, rogue, booted, due, netisr, raced>>

(* One turn of the loop of ipintr(); a packet may be answered through the  *)
(* loopback interface while the loop runs.                                 *)
ipintr ==
  /\ pc[SwIntr] = "drain" /\ ipintrq # <<>>
  /\ \/ /\ ipintrq' = Tail(ipintrq)
        /\ UNCHANGED <<pc, netisr>>
     \/ /\ Head(ipintrq).hops > 0
        /\ Queued(Tail(ipintrq), Head(ipintrq).hops - 1, pc)
  /\ UNCHANGED <<locked, rogue, booted, due, raced>>

ipintrDone ==
  /\ pc[SwIntr] = "drain" /\ ipintrq = <<>>
  /\ Goes(SwIntr, "idle")
  /\ UNCHANGED <<locked, rogue, booted, due, netisr, ipintrq, raced>>

(* COND_WAIT(&sw_intr_cond, &kern_lock), with no test of netisr. *)
SwIntrWait ==
  /\ pc[SwIntr] = "idle"
  /\ locked' = FALSE
  /\ Goes(SwIntr, "wait")
  /\ UNCHANGED <<rogue, booted, due, netisr, ipintrq, raced>>
-----------------------------------------------------------------------------
(* hardclock() in clock_thread: the head of the queue may expire, and      *)
(* while it is expired every tick signals clock_cond.                      *)
HardClock ==
  /\ pc[Clock] = "in"
  /\ due' \in {due, booted}
  /\ due => due'
  /\ locked' = FALSE
  /\ pc' = LET f == [pc EXCEPT ![Clock] = "out"]
           IN  IF due' THEN Signalled(f, Callout) ELSE f
  /\ UNCHANGED <<rogue, booted, netisr, ipintrq, raced>>

(* callout_thread starts without kern_lock.  Its first look at cq_head     *)
(* either finds nothing to do or goes on to run a callback.                *)
CalloutFirst ==
  /\ pc[Callout] = "first"
  /\ Goes(Callout, IF due THEN "in" ELSE "nolock")
  /\ rogue' = IF due THEN rogue \cup {Callout} ELSE rogue
  /\ raced' = (raced \/ due)
  /\ UNCHANGED <<locked, booted, due, netisr, ipintrq>>

(* Its first COND_WAIT then releases kern_lock, whoever holds it. *)
CalloutFirstWait ==
  /\ pc[Callout] = "nolock"
  /\ locked' = FALSE
  /\ raced' = (raced \/ locked)
  /\ Goes(Callout, "wait")
  /\ UNCHANGED <<rogue, booted, due, netisr, ipintrq>>

(* A callback, then the MU_UNLOCK and MU_LOCK that let others in. *)
CalloutRun ==
  /\ pc[Callout] = "in" /\ due
  /\ due' \in BOOLEAN
  /\ locked' = FALSE
  /\ rogue' = rogue \ {Callout}
  /\ Goes(Callout, "want")
  /\ UNCHANGED <<booted, netisr, ipintrq, raced>>

CalloutWait ==
  /\ pc[Callout] = "in" /\ ~due
  /\ locked' = FALSE
  /\ rogue' = rogue \ {Callout}
  /\ Goes(Callout, "wait")
  /\ UNCHANGED <<booted, due, netisr, ipintrq, raced>>

(* pthread_cond_wait() may return without a signal. *)
Spurious(t) ==
  /\ pc[t] = "wait"
  /\ Goes(t, "want")
  /\ UNCHANGED <<locked, rogue, booted, due, netisr, ipintrq, raced>>

Next ==
  \/ \E t \in Users : Create(t)
  \/ \E t \in Threads : Enter(t)
  \/ \E t \in Users \cup {Main} : Leave(t)
  \/ \E t \in Users \cup {Main, Callout}, hops \in 0..MaxHops : Send(t, hops)
  \/ SerInit \/ SerInitDone
  \/ do_sw_intr \/ ipintr \/ ipintrDone \/ SwIntrWait
  \/ HardClock
  \/ CalloutFirst \/ CalloutFirstWait \/ CalloutRun \/ CalloutWait
  \/ Spurious(SwIntr) \/ Spurious(Callout)

Spec == Init /\ [][Next]_vars

(* The host runs every thread that can run, and the mutex does not starve  *)
(* a thread that keeps asking for it; calls of the application come back.  *)
Fairness ==
  /\ \A t \in Threads : SF_vars(Enter(t))
  /\ \A t \in Users \cup {Main} : WF_vars(Leave(t))
  /\ WF_vars(do_sw_intr) /\ WF_vars(ipintr) /\ WF_vars(ipintrDone)
  /\ WF_vars(SwIntrWait) /\ WF_vars(HardClock) /\ WF_vars(SerInitDone)
  /\ WF_vars(CalloutFirst) /\ WF_vars(CalloutFirstWait)
  /\ WF_vars(CalloutRun) /\ WF_vars(CalloutWait)

FairSpec == Spec /\ Fairness
-----------------------------------------------------------------------------
(* While nobody has touched the kernel without the lock, at most one       *)
(* thread that took kern_lock is in the kernel, and the mutex says so.     *)
HoldersExclude ==
  ~raced => /\ \A s, t \in Holders : s = t
            /\ locked <=> Holders # {}

Late(q) == {i \in DOMAIN q : q[i].queued = "late"}

(* A software interrupt raised once sw_intr_thread runs is not lost:       *)
(* the thread never waits while a packet queued since then is on ipintrq.  *)
NoStrandedPacket == ~raced /\ pc[SwIntr] = "wait" => Late(ipintrq) = {}

(* Such a packet is taken off the queue in the end, unless a race at start *)
(* has broken the lock.                                                    *)
LateDrained == (Late(ipintrq) # {}) ~> (raced \/ Late(ipintrq) = {})
=============================================================================
