---------------------------- MODULE TimerService ----------------------------
(***************************************************************************)
(* What the kernel expects of timeout() and untimeout(): a bag of pending  *)
(* timers.  Arming adds one entry, cancelling takes at most one away, and  *)
(* an entry leaves the bag on its own only by running its callback, once.  *)
(* A callback that re-arms itself leaves the bag as it found it.           *)
(***************************************************************************)
EXTENDS Integers

CONSTANTS
  Periodic,   \* callbacks whose last act is to re-arm themselves
  OneShot     \* callbacks that kernel threads arm and cancel

VARIABLE pending   \* pending[t]: number of entries for timer t

Timers == Periodic \cup OneShot

Init == pending \in [Timers -> {0, 1}]

Arm(t) == pending' = [pending EXCEPT ![t] = @ + 1]

Cancel(t) ==
  /\ pending[t] > 0
  /\ pending' = [pending EXCEPT ![t] = @ - 1]

Expire(t) ==
  /\ pending[t] > 0
  /\ pending' = [pending EXCEPT ![t] = IF t \in Periodic THEN @ ELSE @ - 1]

Next ==
  \/ \E t \in OneShot : Arm(t) \/ Cancel(t)
  \/ \E t \in Timers : Expire(t)

Spec == Init /\ [][Next]_pending
=============================================================================
