---------------------------- MODULE KernLockProofs ----------------------------
(* Proofs about KernLock for any set of threads and any queue limit.       *)
EXTENDS KernLock, TLAPS

(* Where each thread can be, and who can be in the kernel without kern_lock: *)
(* the main thread in ser_init(), and callout_thread only after a race.      *)
Shape ==
  /\ \A t \in Threads : pc[t] \in {"drain", "idle"} => t = SwIntr
  /\ pc[SwIntr] \in {"out", "wait", "want", "in", "drain", "idle"}
  /\ \A t \in rogue : pc[t] = "in"
  /\ Callout \in rogue => raced

HasLate == \E i \in DOMAIN ipintrq : ipintrq[i].queued = "late"

(* A packet queued behind sw_intr_thread's first wait is being drained, or *)
(* netisr is set and the thread is on its way to do_sw_intr().             *)
Pending ==
  ~raced /\ HasLate =>
    pc[SwIntr] = "drain" \/ (netisr /\ pc[SwIntr] \in {"want", "in"})

(* sw_intr_thread has been past its first lock when a late packet exists.  *)
LateMeansStarted == HasLate => pc[SwIntr] # "out"

IInv == TypeOK /\ Shape /\ HoldersExclude /\ Pending /\ LateMeansStarted

USE DEF Threads, Places, Inside, Holders, Goes

(* mt_init() leaves the lock free and nobody waiting. *)
LEMMA InitIInv == Init => IInv
<1> SUFFICES ASSUME Init PROVE IInv
  OBVIOUS
<1> USE KernLockAssumption DEF Init
<1>1. TypeOK
  <2>1. <<>> \in Seq(Packet) /\ Len(<<>>) = 0
    OBVIOUS
  <2>2. pc \in [Threads -> Places]
    OBVIOUS
  <2>3. ipintrq \in Seq(Packet) /\ Len(ipintrq) <= IFQ_MAXLEN
    BY <2>1
  <2>4. rogue \in SUBSET {Main, Callout}
    OBVIOUS
  <2>5. QED
    BY <2>2, <2>3, <2>4 DEF TypeOK
<1>2. Shape
  BY DEF Shape
<1>3. HoldersExclude
  BY DEF HoldersExclude
<1>4. ~HasLate
  BY DEF HasLate
<1>5. QED
  BY <1>1, <1>2, <1>3, <1>4 DEF IInv, Pending, LateMeansStarted

(* Appending a packet keeps the queue's type and the packets before it. *)
LEMMA AppendPacket ==
  ASSUME NEW q \in Seq(Packet), NEW m \in Packet
  PROVE  /\ Append(q, m) \in Seq(Packet)
         /\ Len(Append(q, m)) = Len(q) + 1
         /\ \A i \in DOMAIN Append(q, m) :
              (i \in DOMAIN q /\ Append(q, m)[i] = q[i]) \/ Append(q, m)[i] = m
  OBVIOUS

(* Taking the head off keeps the rest. *)
LEMMA TailPacket ==
  ASSUME NEW q \in Seq(Packet), q # <<>>
  PROVE  /\ Tail(q) \in Seq(Packet)
         /\ Len(Tail(q)) = Len(q) - 1
         /\ Head(q) \in Packet
         /\ \A i \in DOMAIN Tail(q) : i + 1 \in DOMAIN q /\ Tail(q)[i] = q[i + 1]
  OBVIOUS

(* Threads that main() creates. *)
LEMMA CreateIInv ==
  ASSUME IInv, NEW t \in Users, Create(t)
  PROVE  IInv'
  BY KernLockAssumption DEF IInv, TypeOK, Shape, HoldersExclude, Pending, LateMeansStarted, HasLate, Create

(* A system call takes kern_lock. *)
LEMMA EnterIInv ==
  ASSUME IInv, NEW t \in Threads, Enter(t)
  PROVE  IInv'
<1> USE KernLockAssumption DEF IInv, Enter, Lock
<1>1. TypeOK'
  BY DEF TypeOK
<1>2. Shape'
  BY DEF TypeOK, Shape
<1>3. HoldersExclude'
  BY DEF TypeOK, HoldersExclude, Shape
<1>4. Pending'
  BY DEF TypeOK, Pending, HasLate, Shape, LateMeansStarted
<1>5. LateMeansStarted'
  BY DEF TypeOK, LateMeansStarted, HasLate
<1>6. QED
  BY <1>1, <1>2, <1>3, <1>4, <1>5

(* A system call gives kern_lock up. *)
LEMMA LeaveIInv ==
  ASSUME IInv, NEW t \in Users \cup {Main}, Leave(t)
  PROVE  IInv'
<1> USE KernLockAssumption DEF IInv, Leave
<1>1. TypeOK'
  BY DEF TypeOK
<1>2. Shape'
  BY DEF TypeOK, Shape
<1>3. HoldersExclude'
  BY DEF TypeOK, HoldersExclude, Shape
<1>4. Pending'
  BY DEF TypeOK, Pending, HasLate, Shape, HoldersExclude, LateMeansStarted
<1>5. LateMeansStarted'
  BY DEF TypeOK, LateMeansStarted, HasLate, Shape
<1>6. QED
  BY <1>1, <1>2, <1>3, <1>4, <1>5

(* ser_init() touches the kernel without the lock. *)
LEMMA SerInitIInv ==
  ASSUME IInv, SerInit \/ SerInitDone
  PROVE  IInv'
<1> USE KernLockAssumption DEF IInv, SerInit, SerInitDone
<1>1. TypeOK'
  BY DEF TypeOK
<1>2. Shape'
  BY DEF TypeOK, Shape
<1>3. HoldersExclude'
  BY DEF TypeOK, HoldersExclude, Shape
<1>4. Pending'
  BY DEF TypeOK, Pending, HasLate, Shape, HoldersExclude, LateMeansStarted
<1>5. LateMeansStarted'
  BY DEF TypeOK, LateMeansStarted, HasLate, Shape
<1>6. QED
  BY <1>1, <1>2, <1>3, <1>4, <1>5

(* A packet is queued and the software interrupt raised. *)
LEMMA SendIInv ==
  ASSUME IInv, NEW t \in Users \cup {Main, Callout}, NEW hops \in 0..MaxHops,
         Send(t, hops)
  PROVE  IInv'
<1> USE KernLockAssumption DEF IInv, Send
<1> DEFINE m == [hops |-> hops, queued |-> When]
<1>1. CASE Len(ipintrq) >= IFQ_MAXLEN
  BY <1>1 DEF Queued, TypeOK, Shape, HoldersExclude, Pending, LateMeansStarted, HasLate
<1>2. CASE Len(ipintrq) < IFQ_MAXLEN
  <2>1. ipintrq' = Append(ipintrq, m) /\ netisr' = TRUE /\ pc' = Signalled(pc, SwIntr)
    BY <1>2 DEF Queued, schednetisr, TypeOK
  <2>2. m \in Packet
    BY DEF Packet, When
  <2>3. /\ ipintrq' \in Seq(Packet) /\ Len(ipintrq') = Len(ipintrq) + 1
        /\ \A i \in DOMAIN ipintrq' :
             (i \in DOMAIN ipintrq /\ ipintrq'[i] = ipintrq[i]) \/ ipintrq'[i] = m
    BY <2>1, <2>2, AppendPacket DEF TypeOK
  <2>4. TypeOK'
    BY <1>2, <2>1, <2>3 DEF TypeOK, Signalled
  <2>5. Shape'
    BY <2>1 DEF TypeOK, Shape, Signalled
  <2>6. HoldersExclude'
    BY <2>1 DEF TypeOK, HoldersExclude, Shape, Signalled
  <2>7. Pending'
    <3> SUFFICES ASSUME ~raced', HasLate'
                 PROVE  pc'[SwIntr] = "drain" \/ pc'[SwIntr] \in {"want", "in"}
      BY <2>1 DEF Pending
    <3>1. t \in Holders /\ t # SwIntr
      BY DEF TypeOK
    <3>2. pc[SwIntr] \in {"out", "wait", "want"}
      BY <3>1 DEF HoldersExclude, Shape, TypeOK
    <3>3. pc[SwIntr] # "out"
      BY <2>3 DEF HasLate, LateMeansStarted, When
    <3>4. QED
      BY <2>1, <3>2, <3>3 DEF Signalled, TypeOK
  <2>8. LateMeansStarted'
    BY <2>1, <2>3 DEF TypeOK, LateMeansStarted, HasLate, Signalled, When
  <2>9. QED
    BY <2>4, <2>5, <2>6, <2>7, <2>8
<1>3. QED
  BY <1>1, <1>2 DEF TypeOK

(* do_sw_intr() clears netisr before it drains the queue. *)
LEMMA DoSwIntrIInv ==
  ASSUME IInv, do_sw_intr
  PROVE  IInv'
<1> USE KernLockAssumption DEF IInv, do_sw_intr
<1>1. TypeOK'
  BY DEF TypeOK
<1>2. Shape'
  BY DEF TypeOK, Shape
<1>3. HoldersExclude'
  BY DEF TypeOK, HoldersExclude, Shape
<1>4. Pending'
  BY DEF TypeOK, Pending, HasLate, Shape, HoldersExclude, LateMeansStarted
<1>5. LateMeansStarted'
  BY DEF TypeOK, LateMeansStarted, HasLate, Shape
<1>6. QED
  BY <1>1, <1>2, <1>3, <1>4, <1>5

(* ipintr() takes a packet off the queue. *)
LEMMA IpintrIInv ==
  ASSUME IInv, ipintr
  PROVE  IInv'
<1> USE KernLockAssumption DEF IInv, ipintr
<1> DEFINE q == Tail(ipintrq)
           m == [hops |-> Head(ipintrq).hops - 1, queued |-> When]
<1>1. /\ q \in Seq(Packet) /\ Len(q) = Len(ipintrq) - 1
      /\ Head(ipintrq) \in Packet
      /\ \A i \in DOMAIN q : i + 1 \in DOMAIN ipintrq /\ q[i] = ipintrq[i + 1]
  BY TailPacket DEF TypeOK
<1>2. pc' = pc
  BY DEF Queued, schednetisr, Signalled, TypeOK
<1>3. ipintrq' \in Seq(Packet) /\ Len(ipintrq') <= IFQ_MAXLEN
  <2>1. CASE ipintrq' = q
    BY <1>1, <2>1 DEF TypeOK
  <2>2. CASE Head(ipintrq).hops > 0 /\ Len(q) < IFQ_MAXLEN /\ ipintrq' = Append(q, m)
    <3>1. Head(ipintrq).hops \in 0..MaxHops
      BY <1>1 DEF Packet
    <3>2. Head(ipintrq).hops - 1 \in 0..MaxHops
      BY <2>2, <3>1
    <3>3. m \in Packet
      BY <3>2 DEF Packet, When
    <3> HIDE DEF m, q
    <3>4. Append(q, m) \in Seq(Packet) /\ Len(Append(q, m)) = Len(q) + 1
      BY <1>1, <3>3, AppendPacket
    <3>5. QED
      BY <1>1, <2>2, <3>4 DEF TypeOK
  <2>3. QED
    BY <2>1, <2>2 DEF Queued
<1>4. TypeOK'
  BY <1>2, <1>3 DEF TypeOK, Queued, schednetisr
<1>5. Shape' /\ HoldersExclude' /\ Pending' /\ LateMeansStarted'
  BY <1>2 DEF TypeOK, Shape, HoldersExclude, Pending, LateMeansStarted
<1>6. QED
  BY <1>4, <1>5

(* ipintr() finds the queue empty. *)
LEMMA IpintrDoneIInv ==
  ASSUME IInv, ipintrDone
  PROVE  IInv'
<1> USE KernLockAssumption DEF IInv, ipintrDone
<1>1. TypeOK'
  BY DEF TypeOK
<1>2. Shape'
  BY DEF TypeOK, Shape
<1>3. HoldersExclude'
  BY DEF TypeOK, HoldersExclude, Shape
<1>4. Pending'
  BY DEF TypeOK, Pending, HasLate, Shape, HoldersExclude, LateMeansStarted
<1>5. LateMeansStarted'
  BY DEF TypeOK, LateMeansStarted, HasLate, Shape
<1>6. QED
  BY <1>1, <1>2, <1>3, <1>4, <1>5

(* sw_intr_thread waits and gives the lock up. *)
LEMMA SwIntrWaitIInv ==
  ASSUME IInv, SwIntrWait
  PROVE  IInv'
<1> USE KernLockAssumption DEF IInv, SwIntrWait
<1>1. TypeOK'
  BY DEF TypeOK
<1>2. Shape'
  BY DEF TypeOK, Shape
<1>3. HoldersExclude'
  BY DEF TypeOK, HoldersExclude, Shape
<1>4. Pending'
  BY DEF TypeOK, Pending, HasLate, Shape, HoldersExclude, LateMeansStarted
<1>5. LateMeansStarted'
  BY DEF TypeOK, LateMeansStarted, HasLate, Shape
<1>6. QED
  BY <1>1, <1>2, <1>3, <1>4, <1>5

(* The clock ticks. *)
LEMMA HardClockIInv ==
  ASSUME IInv, HardClock
  PROVE  IInv'
<1> USE KernLockAssumption DEF IInv, HardClock, Signalled
<1>1. TypeOK'
  BY DEF TypeOK
<1>2. Shape'
  BY DEF TypeOK, Shape
<1>3. HoldersExclude'
  BY DEF TypeOK, HoldersExclude, Shape
<1>4. Pending'
  BY DEF TypeOK, Pending, HasLate, Shape, HoldersExclude, LateMeansStarted
<1>5. LateMeansStarted'
  BY DEF TypeOK, LateMeansStarted, HasLate, Shape
<1>6. QED
  BY <1>1, <1>2, <1>3, <1>4, <1>5

(* callout_thread starts without the lock. *)
LEMMA CalloutFirstIInv ==
  ASSUME IInv, CalloutFirst \/ CalloutFirstWait
  PROVE  IInv'
<1> USE KernLockAssumption DEF IInv, CalloutFirst, CalloutFirstWait
<1>1. TypeOK'
  BY DEF TypeOK
<1>2. Shape'
  BY DEF TypeOK, Shape
<1>3. HoldersExclude'
  BY DEF TypeOK, HoldersExclude, Shape
<1>4. Pending'
  BY DEF TypeOK, Pending, HasLate, Shape, HoldersExclude, LateMeansStarted
<1>5. LateMeansStarted'
  BY DEF TypeOK, LateMeansStarted, HasLate, Shape
<1>6. QED
  BY <1>1, <1>2, <1>3, <1>4, <1>5

(* The later rounds of callout_thread. *)
LEMMA CalloutLoopIInv ==
  ASSUME IInv, CalloutRun \/ CalloutWait
  PROVE  IInv'
<1> USE KernLockAssumption DEF IInv, CalloutRun, CalloutWait
<1>1. TypeOK'
  BY DEF TypeOK
<1>2. Shape'
  BY DEF TypeOK, Shape
<1>3. HoldersExclude'
  BY DEF TypeOK, HoldersExclude, Shape
<1>4. Pending'
  BY DEF TypeOK, Pending, HasLate, Shape, HoldersExclude, LateMeansStarted
<1>5. LateMeansStarted'
  BY DEF TypeOK, LateMeansStarted, HasLate, Shape
<1>6. QED
  BY <1>1, <1>2, <1>3, <1>4, <1>5

(* A wait that ends without a signal. *)
LEMMA SpuriousIInv ==
  ASSUME IInv, NEW t \in {SwIntr, Callout}, Spurious(t)
  PROVE  IInv'
<1> USE KernLockAssumption DEF IInv, Spurious
<1>1. TypeOK'
  BY DEF TypeOK
<1>2. Shape'
  BY DEF TypeOK, Shape
<1>3. HoldersExclude'
  BY DEF TypeOK, HoldersExclude, Shape
<1>4. Pending'
  BY DEF TypeOK, Pending, HasLate, Shape, HoldersExclude, LateMeansStarted
<1>5. LateMeansStarted'
  BY DEF TypeOK, LateMeansStarted, HasLate, Shape
<1>6. QED
  BY <1>1, <1>2, <1>3, <1>4, <1>5

(* The inductive invariant holds in every reachable state: one lemma per   *)
(* step of a thread.                                                       *)
THEOREM Inductive == Spec => []IInv
<1>1. Init => IInv
  BY InitIInv
<1>2. IInv /\ [Next]_vars => IInv'
  <2> SUFFICES ASSUME IInv, [Next]_vars
               PROVE  IInv'
    OBVIOUS
  <2>1. CASE \E t \in Users : Create(t)
    BY <2>1, CreateIInv
  <2>2. CASE \E t \in Threads : Enter(t)
    BY <2>2, EnterIInv
  <2>3. CASE \E t \in Users \cup {Main} : Leave(t)
    BY <2>3, LeaveIInv
  <2>4. CASE \E t \in Users \cup {Main, Callout}, hops \in 0..MaxHops : Send(t, hops)
    BY <2>4, SendIInv
  <2>5. CASE SerInit \/ SerInitDone
    BY <2>5, SerInitIInv
  <2>6. CASE do_sw_intr
    BY <2>6, DoSwIntrIInv
  <2>7. CASE ipintr
    BY <2>7, IpintrIInv
  <2>8. CASE ipintrDone
    BY <2>8, IpintrDoneIInv
  <2>9. CASE SwIntrWait
    BY <2>9, SwIntrWaitIInv
  <2>10. CASE HardClock
    BY <2>10, HardClockIInv
  <2>11. CASE CalloutFirst \/ CalloutFirstWait
    BY <2>11, CalloutFirstIInv
  <2>12. CASE CalloutRun \/ CalloutWait
    BY <2>12, CalloutLoopIInv
  <2>13. CASE Spurious(SwIntr) \/ Spurious(Callout)
    BY <2>13, SpuriousIInv
  <2>14. CASE UNCHANGED vars
    BY <2>14 DEF vars, IInv, TypeOK, Shape, HoldersExclude, Pending,
                 LateMeansStarted, HasLate
  <2>15. QED
    BY <2>1, <2>2, <2>3, <2>4, <2>5, <2>6, <2>7, <2>8, <2>9, <2>10, <2>11,
       <2>12, <2>13, <2>14 DEF Next
<1>3. QED
  BY <1>1, <1>2, PTL DEF Spec

(* The state of the threads and the queue is always well typed, and the    *)
(* queue never exceeds its limit.                                          *)
THEOREM TypeCorrect == Spec => []TypeOK
<1>1. IInv => TypeOK
  BY DEF IInv
<1>2. QED
  BY <1>1, Inductive, PTL

(* kern_lock excludes the threads that take it from each other, as long as *)
(* no thread has worked in the kernel or released the lock without it.     *)
THEOREM LockIsExclusive == Spec => []HoldersExclude
<1>1. IInv => HoldersExclude
  BY DEF IInv
<1>2. QED
  BY <1>1, Inductive, PTL

(* No packet queued after sw_intr_thread first waited is left behind when  *)
(* the thread waits again.                                                 *)
THEOREM NoPacketStranded == Spec => []NoStrandedPacket
<1>1. IInv => NoStrandedPacket
  BY DEF IInv, Pending, HasLate, NoStrandedPacket, Late
<1>2. QED
  BY <1>1, Inductive, PTL
=============================================================================
