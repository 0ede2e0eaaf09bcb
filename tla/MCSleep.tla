------------------------------ MODULE MCSleep ------------------------------
(* The parts of the kernel that sleep and have to be woken, for TLC: the   *)
(* threads of Ksync, and beside them one instance each of Callout (the     *)
(* timers armed at boot and one of a sleeper), SocketLife (a client) and   *)
(* Sockbuf (the readers of a buffer). In a behaviour one of them runs, the *)
(* others stay as they start.                                              *)
EXTENDS Ksync
CONSTANTS t1, t2, t3, accepting, receiving, locking, b0, b4, s1, r1, r2
VARIABLES unit, cq, callout, cut, so, thr, fdtbl, program, sb, rd, rcv, rcvd, adv

(* Two of three channels share a condition variable: CHASH is the address  *)
(* modulo 8, so all words aligned alike collide.                           *)
Colliding == [c \in Channels |-> IF c = locking THEN b4 ELSE b0]

(* The protocol timers of domaininit(), with the clock slowed down from    *)
(* hz = 100 to 10 ticks a second.  A thread arms and cancels the timer of  *)
(* its sleep.                                                              *)
MCHz == 10
Timers == INSTANCE Callout WITH
  Periodic <- {"pffasttimo", "pfslowtimo"}, OneShot <- {"sleeper"},
  Period <- [pffasttimo |-> MCHz \div 5, pfslowtimo |-> MCHz \div 2],
  Boot <- <<<<"pffasttimo", 1>>, <<"pfslowtimo", 1>>>>,
  Delays <- {1, 2, 3, 4}, CanCancel <- {"sleeper"}, MaxLag <- 2, MaxTicks <- MCHz \div 2

(* Two threads that connect, shut down and close one socket. *)
Client == INSTANCE SocketLife WITH
  Threads <- {t1, t2}, Socks <- {s1}, MAXFDS <- 1, Backlogs <- {0},
  Programs <- {[lingers |-> {"off", "zero", "time"}, hows |-> {0, 1, 2},
                connects |-> TRUE, nonblocking |-> TRUE, windows |-> TRUE,
                socks |-> 1]},
  CloseShared <- FALSE

(* Two readers of a buffer of two bytes. *)
Reading == INSTANCE Sockbuf WITH
  Readers <- {r1, r2}, Calls <- {"none", "waitall", "flush"}, Sizes <- {3},
  Segments <- {1, 2}, Clusters <- {FALSE}, HIWAT <- 2, MSIZE <- 1, MLEN <- 3,
  MCLBYTES <- 2, Timed <- TRUE, MaxBytes <- 4, so <- rcv

timers == <<cq, callout, cut>>
client == <<so, thr, fdtbl, program>>
reading == <<sb, rd, rcv, rcvd, adv>>
all == <<unit, vars, timers, client, reading>>

MCInit ==
  /\ unit \in {"sleep", "boot", "client", "reading"}
  /\ Init /\ Timers!Init /\ Client!Init /\ Reading!Init
  /\ unit # "sleep" => \A t \in Threads : chan[t] = accepting

MCNext ==
  /\ UNCHANGED unit
  /\ \/ /\ unit = "sleep" /\ Next
        /\ UNCHANGED <<timers, client, reading>>
     \/ /\ unit = "boot" /\ Timers!Next
        /\ UNCHANGED <<vars, client, reading>>
     \/ /\ unit = "client" /\ Client!Next
        /\ UNCHANGED <<vars, timers, reading>>
     \/ /\ unit = "reading" /\ Reading!Next
        /\ UNCHANGED <<vars, timers, client>>

(* The fairness of the part that runs. Where the step itself undoes what   *)
(* enables it, weak fairness says that the step is disabled again and      *)
(* again, and is stated so: a woken thread has kern_lock and leaves or     *)
(* sleeps, a timer goes off, the window that opened is advertised.         *)
MCFairness ==
  /\ \A t \in Threads : []<>(pc[t] # "awake")
  /\ WF_timers(unit = "boot" /\ Timers!HardClock)
  /\ WF_timers(unit = "boot" /\ Timers!CalloutThread)
  /\ \A t \in {t1, t2} : WF_client(unit = "client" /\ Client!Resume(t))
  /\ WF_client(unit = "client" /\ Client!Timers(s1))
  /\ \A r \in {r1, r2} : []<>(~rd[r].awake)
  /\ []<>(unit = "reading" => ~Reading!CanArrive)
  /\ []<>(unit = "reading" => Reading!sbspace(sb) <= adv)

MCSpec == MCInit /\ [][MCNext]_all /\ MCFairness

(* A thread goes to sleep with a timeout. *)
GoesToSleep == \E n \in {1, 2, 3, 4} : Timers!Timeout("sleeper", n)

(* The protocol timers of uipc_domain.c run for ever, whatever the delays  *)
(* of callout_thread and whatever timed sleeps have been armed among them  *)
(* and cancelled, once no more are: while they go on and on, each may push *)
(* the protocol timers back, as timeout() leaves the entry behind a new    *)
(* one as it is and untimeout() adds to it.                                *)
ProtocolTimersRecur ==
  unit = "boot" =>
    \/ []<><<GoesToSleep>>_timers
    \/ Timers!Recurs("pffasttimo") /\ Timers!Recurs("pfslowtimo")


(* What close() leaves to the protocol is freed in the end. *)
ClosedIsFreed == Client!ClosedIsFreed

(* A read ends once the stream has ended, and a MSG_WAITALL read when the  *)
(* peer keeps sending.                                                     *)
ReadsEnd == Reading!ReadsEnd /\ Reading!WaitallEnds
=============================================================================
