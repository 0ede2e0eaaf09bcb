------------------------------- MODULE Callout -------------------------------
(***************************************************************************)
(* The callout queue of uspace/timers.c: timeout(), untimeout(),           *)
(* hardclock() and the loop of callout_thread().  Every operation runs     *)
(* under kern_lock, so each is one step; callout_thread gives the lock up  *)
(* after each callback, so each callback is one step.                      *)
(*                                                                         *)
(* A timer stands for one (func, arg) pair.  The timers in Periodic re-arm *)
(* themselves as pffasttimo, pfslowtimo and if_slowtimo do; those in       *)
(* OneShot are armed and cancelled by kernel threads, as tsleep() does     *)
(* with sleep_timefunc.                                                    *)
(***************************************************************************)
EXTENDS Integers, Sequences, Sums

CONSTANTS
  Periodic, OneShot,
  Period,     \* re-arming interval of each periodic timer, in ticks
  Boot,       \* the timeout() calls of anp_init(), in order: <<timer, ticks>>
  Delays,     \* the tick counts a kernel thread may ask for
  CanCancel,  \* the one-shot timers some kernel thread may cancel
  MaxLag,     \* bound: ticks the host may keep callout_thread off the CPU
  MaxTicks    \* bound: no timer is armed while a delta exceeds it

VARIABLES
  cq,         \* the list at cq_head: id, ticks (the delta), and the history
              \* field left: ticks still to go of those asked for, or 0
  callout,    \* callout_thread: "wait" in COND_WAIT, or "run"
  cut         \* history: untimeout() has handed a negative delta on

vars == <<cq, callout, cut>>

Timers == Periodic \cup OneShot

(* The constants of a kernel: every timer that re-arms itself is armed     *)
(* once at boot at most, and nobody asks for less than a tick.             *)
Sane ==
  /\ Periodic \cap OneShot = {} /\ CanCancel \subseteq OneShot
  /\ Period \in [Periodic -> Nat \ {0}] /\ Delays \subseteq Nat \ {0}
  /\ Boot \in Seq(Periodic \X (Nat \ {0}))
  /\ \A i, j \in DOMAIN Boot : Boot[i][1] = Boot[j][1] => i = j

(* Element e put in at place i of s, and s without its element at i. *)
InsertAt(s, i, e) == SubSeq(s, 1, i - 1) \o <<e>> \o SubSeq(s, i, Len(s))

RemoveAt(s, i) == SubSeq(s, 1, i - 1) \o SubSeq(s, i + 1, Len(s))

(* An entry of the list. *)
cqueue_t == [id : Timers, ticks : Int, left : Nat]

(* The places of the entries for t in q; the first one, or 0. *)
Entries(q, t) == {i \in DOMAIN q : q[i].id = t}

FirstOf(q, t) ==
  IF Entries(q, t) = {} THEN 0
  ELSE CHOOSE i \in Entries(q, t) : \A j \in Entries(q, t) : i <= j

PendingIds == {cq[i].id : i \in DOMAIN cq}

cq_alloc(t, n, delta) == [id |-> t, ticks |-> delta, left |-> n]

(* Mutant: the search does not take the head's delta off the count. *)
Rest_SkipsHead(q, n, i) ==
  n - Total([j \in DOMAIN q |-> IF j = 1 THEN 0 ELSE q[j].ticks], i)

(* The ticks of n that are left over after the first i entries of q. *)
Rest(q, n, i) == n - Total([j \in DOMAIN q |-> q[j].ticks], i)

(* The search stops behind entry p of q: every entry up to p has a delta   *)
(* no larger than what was left of n, the entry after p has a larger one.  *)
StopsAfter(q, n, p) ==
  /\ \A i \in 1..p : q[i].ticks <= Rest(q, n, i - 1)
  /\ p < Len(q) => q[p + 1].ticks > Rest(q, n, p)

(* timeout(): the queue q with timer t inserted.  Only an insertion at the *)
(* head takes the new delta off the entry that follows.                    *)
timeout(q, t, n) ==
  LET p == CHOOSE p \in 0..Len(q) : StopsAfter(q, n, p)
      e == cq_alloc(t, n, Rest(q, n, p))
  IN  IF p = 0 /\ q # <<>>
      THEN <<e>> \o [q EXCEPT ![1].ticks = @ - n]
      ELSE InsertAt(q, p + 1, e)

(* Mutant: untimeout() misses its early return when nothing matches. *)
untimeout_NoMatch(q, t) ==
  LET i == FirstOf(q, t)
  IN  IF q = <<>> THEN q ELSE RemoveAt(q, IF i = 0 THEN Len(q) ELSE i)

(* untimeout(): the queue q without its first entry for t; the delta of    *)
(* that entry goes to the one that follows it.                             *)
untimeout(q, t) ==
  LET i == FirstOf(q, t)
  IN  IF i = 0 THEN q
      ELSE RemoveAt(IF i = Len(q) THEN q
                    ELSE [q EXCEPT ![i + 1].ticks = @ + q[i].ticks], i)

(* The entry untimeout() removes is overdue and another one follows it. *)
HandsOnLag(q, t) ==
  LET i == FirstOf(q, t)
  IN  i \in 1..(Len(q) - 1) /\ q[i].ticks < 0

(* Mutant: the loop of hardclock() has lost its breaks. *)
Decremented_All(q) == DOMAIN q

(* hardclock() decrements from the head up to and including the first      *)
(* entry whose delta was positive.                                         *)
Decremented(q) == {i \in DOMAIN q : \A j \in 1..(i - 1) : q[j].ticks <= 0}

Ticked(q) ==
  [i \in DOMAIN q |->
     [q[i] EXCEPT !.ticks = IF i \in Decremented(q) THEN @ - 1 ELSE @,
                  !.left  = IF @ > 0 THEN @ - 1 ELSE 0]]

(* Mutant: an entry that reaches zero is taken for one still to come. *)
needsoft_TooLate(q) == \E i \in Decremented(q) : q[i].ticks - 1 < 0

needsoft(q) == \E i \in Decremented(q) : q[i].ticks - 1 <= 0

Expired(q) == q # <<>> /\ q[1].ticks <= 0
-----------------------------------------------------------------------------
(* The queue after the first n calls of anp_init(). *)
Booted(n) ==
  LET q[i \in 0 .. Len(Boot)] ==
        IF i = 0 THEN <<>> ELSE timeout(q[i - 1], Boot[i][1], Boot[i][2])
  IN  q[n]

Init ==
  /\ cq = Booted(Len(Boot))
  /\ callout = "wait"
  /\ cut = FALSE

Timeout(t, n) ==
  /\ t \notin PendingIds
  /\ \A i \in DOMAIN cq : cq[i].ticks <= MaxTicks
  /\ cq' = timeout(cq, t, n)
  /\ UNCHANGED <<callout, cut>>

Untimeout(t) ==
  /\ cq' = untimeout(cq, t)
  /\ cut' = (cut \/ HandsOnLag(cq, t))
  /\ UNCHANGED callout

HardClock ==
  /\ \A i \in DOMAIN cq : cq[i].ticks > -MaxLag
  /\ cq' = Ticked(cq)
  /\ callout' = IF needsoft(cq) THEN "run" ELSE callout
  /\ UNCHANGED cut

(* Mutant: a periodic callback forgets to re-arm itself. *)
Callback_Once(q, t) == q

(* The body of the callback: a periodic one re-arms itself. *)
Callback(q, t) == IF t \in Periodic THEN timeout(q, t, Period[t]) ELSE q

CalloutRun ==
  /\ callout = "run"
  /\ Expired(cq)
  /\ cq' = Callback(Tail(cq), Head(cq).id)
  /\ UNCHANGED <<callout, cut>>


CalloutWait ==
  /\ callout = "run"
  /\ ~Expired(cq)
  /\ callout' = "wait"
  /\ UNCHANGED <<cq, cut>>

CalloutThread == CalloutRun \/ CalloutWait

Next ==
  \/ \E t \in OneShot, n \in Delays : Timeout(t, n)
  \/ \E t \in CanCancel : Untimeout(t)
  \/ HardClock
  \/ CalloutThread

(* clock_thread and callout_thread loop forever and the host schedules     *)
(* both; no kernel thread is obliged to arm or cancel anything.            *)
Fairness == WF_vars(HardClock) /\ WF_vars(CalloutThread)

Spec == Init /\ [][Next]_vars

FairSpec == Spec /\ Fairness
-----------------------------------------------------------------------------
(* The list and callout_thread have their types, and no overdue entry      *)
(* hides behind one that is still running down: timeout() and untimeout()  *)
(* never leave a negative delta behind a positive one, so hardclock() may  *)
(* stop at the first positive delta.                                       *)
TypeOK ==
  /\ cq \in Seq(cqueue_t)
  /\ callout \in {"wait", "run"}
  /\ cut \in BOOLEAN
  /\ \A i, j \in DOMAIN cq : i < j /\ cq[i].ticks > 0 => cq[j].ticks >= 0

(* callout_thread never sleeps on an expired timer: whichever way the head *)
(* got there, hardclock() has signalled clock_cond for it.                 *)
NoMissedSignal == callout = "wait" => ~Expired(cq)

(* callout_thread calls no function before the ticks its timeout() asked   *)
(* for have gone by, however timers are armed, cancelled and served late,  *)
(* until untimeout() removes an overdue entry from in front of another:    *)
(* that one it advances by the ticks the first was overdue.                *)
NeverEarly ==
  ~cut => \A i \in DOMAIN cq :
            (\A j \in 1..i : cq[j].ticks <= 0) => cq[i].left <= 0

(* How far entry i of q is from running, overdue entries counting as zero. *)
Distance(q, i) == Total([j \in DOMAIN q |-> IF q[j].ticks > 0 THEN q[j].ticks ELSE 0], i)

ArmedAt(t, n) == \E i \in DOMAIN cq' : cq'[i].id = t /\ Distance(cq', i) = n

Arms ==
  \A t \in OneShot, n \in Delays :
    Timeout(t, n) /\ ~Expired(cq) => ArmedAt(t, n)

(* timeout() asked for n ticks puts the timer n ticks away from now,       *)
(* wherever in the list the search ends, when nothing in it is overdue.    *)
ArmedExactly == [][Arms]_vars

Runs(t) == CalloutRun /\ Head(cq).id = t

(* A timer that re-arms itself runs for ever. *)
Recurs(t) == []<><<Runs(t)>>_vars

(* The number of entries for t in q. *)
Count(q, t) == Total([i \in DOMAIN q |-> IF q[i].id = t THEN 1 ELSE 0], Len(q))

(* timeout()/untimeout() implement the bag of pending timers: the list     *)
(* surgery loses no entry and duplicates none.                             *)
Service == INSTANCE TimerService
  WITH pending <- [t \in Timers |-> Count(cq, t)]

(* Callout is a TimerService under that mapping. *)
ImplementsService == Service!Spec
=============================================================================
