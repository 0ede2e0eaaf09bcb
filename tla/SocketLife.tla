----------------------------- MODULE SocketLife -----------------------------
(***************************************************************************)
(* The life of a stream socket: the descriptor table of                    *)
(* uspace/anp_fdtbl.c, the calls socket, listen, accept, connect, shutdown *)
(* and close of kern/uipc_syscalls.c and kern/uipc_socket.c, the state     *)
(* bits and accept queues of kern/uipc_socket2.c, and the connection       *)
(* states of netinet/tcp_usrreq.c, tcp_input.c and tcp_timer.c that create,*)
(* connect, disconnect and free sockets.  All of it runs under kern_lock,  *)
(* so what lies between two tsleep() calls is one step.  Segments, their   *)
(* sequence numbers and the data are left to the environment: an event of  *)
(* the peer happens when the state of the connection lets it.              *)
(***************************************************************************)
EXTENDS Integers, FiniteSets, SequencesExt

CONSTANTS
  Threads, Socks, NULL,
  MAXFDS,       \* size of the descriptor table
  Backlogs,     \* the backlogs listen() is called with
  Programs,     \* the programs considered: see Program
  CloseShared   \* whether a descriptor is closed under another thread's call

(* What a program does with its sockets: the SO_LINGER and so_linger it    *)
(* sets, the second argument of its shutdown() calls, whether it calls     *)
(* connect() and ioctl(FIONBIO), whether its peers shut their windows on   *)
(* what it writes, and how many sockets there are at a time.               *)
Program ==
  [lingers : SUBSET {"off", "zero", "time"}, hows : SUBSET (0 .. 2),
   connects : BOOLEAN, nonblocking : BOOLEAN, windows : BOOLEAN,
   socks : 1 .. Cardinality(Socks)]

SOMAXCONN == 5

ASSUME SocketLifeAssumption ==
  /\ NULL \notin Socks
  /\ MAXFDS \in Nat \ {0}
  /\ Backlogs \subseteq Nat
  /\ Programs \subseteq Program
  /\ CloseShared \in BOOLEAN

VARIABLES
  so,      \* the sockets: see Socket
  thr,     \* the threads: see Thread
  fdtbl,   \* the descriptor table
  program  \* the program that runs

vars == <<so, thr, fdtbl, program>>

NOPCB == -1           \* so_pcb is null
TCPS_CLOSED == 0
TCPS_LISTEN == 1
TCPS_SYN_SENT == 2
TCPS_SYN_RECEIVED == 3
TCPS_ESTABLISHED == 4
TCPS_CLOSE_WAIT == 5
TCPS_FIN_WAIT_1 == 6
TCPS_CLOSING == 7
TCPS_LAST_ACK == 8
TCPS_FIN_WAIT_2 == 9
TCPS_TIME_WAIT == 10

StateBits == {"NOFDREF", "ISCONNECTED", "ISCONNECTING", "ISDISCONNECTING",
              "CANTSENDMORE", "CANTRCVMORE", "NBIO"}

(* struct socket, with the t_state of its tcpcb and whether the 2MSL timer *)
(* of that runs.  held: data of the program waits for the peer's window,   *)
(* and a FIN behind it, so the persist timer runs in the place of the      *)
(* retransmission timer.  half (history): FIN_WAIT_2 was entered with the  *)
(* reading side open, after a shutdown(1).                                 *)
Socket ==
  [mem : {"free", "live", "panic"}, state : SUBSET StateBits,
   t_state : NOPCB .. TCPS_TIME_WAIT, msl : BOOLEAN, held : BOOLEAN,
   error : BOOLEAN,
   acceptconn : BOOLEAN, linger : {"off", "zero", "time"}, head : Socks \cup {NULL},
   q0 : Seq(Socks), q : Seq(Socks), qlimit : Nat, half : BOOLEAN]

Freed == [mem |-> "free", state |-> {}, t_state |-> NOPCB, msl |-> FALSE,
          held |-> FALSE, error |-> FALSE, acceptconn |-> FALSE,
          linger |-> "off", head |-> NULL,
          q0 |-> <<>>, q |-> <<>>, qlimit |-> 0, half |-> FALSE]

(* A thread is in user code or asleep on so_timeo of socket s, inside the  *)
(* call on descriptor fd; awake once a wakeup has reached it.              *)
Thread ==
  [call : {"user", "accept", "connect", "close"}, s : Socks \cup {NULL},
   fd : -1 .. MAXFDS - 1, awake : BOOLEAN]

InUser == [call |-> "user", s |-> NULL, fd |-> -1, awake |-> FALSE]
Asleep(c, s, fd) == [call |-> c, s |-> s, fd |-> fd, awake |-> FALSE]

Init ==
  /\ so = [s \in Socks |-> Freed]
  /\ thr = [t \in Threads |-> InUser]
  /\ fdtbl = [fd \in 0 .. MAXFDS - 1 |-> NULL]
  /\ program \in Programs

-----------------------------------------------------------------------------
(* The functions below take and return the kernel's state k, a record of   *)
(* the sockets and the threads: one call of the kernel runs several.       *)
Kernel == [so |-> so, thr |-> thr]
Becomes(k) == so' = k.so /\ thr' = k.thr

Has(k, s, bit) == bit \in k.so[s].state

(* wakeup(&so->so_timeo) *)
wakeup(k, s) ==
  [k EXCEPT !.thr = [t \in Threads |->
     IF k.thr[t].s = s THEN [k.thr[t] EXCEPT !.awake = TRUE] ELSE k.thr[t]]]

OnQueue(k, s, q) ==
  LET h == k.so[s].head IN h # NULL /\ Contains(k.so[h][q], s)

soqinsque(k, h, s, q) ==
  [k EXCEPT !.so[s].head = h, !.so[h][q] = Append(@, s)]

soqremque(k, s, q) ==
  [k EXCEPT !.so[k.so[s].head][q] = Remove(@, s), !.so[s].head = NULL]

(* Mutant: the descriptor is not looked at. *)
sofree_NoFdCheck(k, s) ==
  IF k.so[s].t_state # NOPCB THEN k
  ELSE LET k1 == IF OnQueue(k, s, "q0") THEN soqremque(k, s, "q0")
                 ELSE IF OnQueue(k, s, "q") THEN soqremque(k, s, "q") ELSE k
       IN  [k1 EXCEPT !.so[s] = Freed]

sofree(k, s) ==
  IF k.so[s].t_state # NOPCB \/ ~Has(k, s, "NOFDREF") THEN k
  ELSE IF k.so[s].head = NULL THEN [k EXCEPT !.so[s] = Freed]
  ELSE IF OnQueue(k, s, "q0")
       THEN [soqremque(k, s, "q0") EXCEPT !.so[s] = Freed]
  ELSE IF OnQueue(k, s, "q")
       THEN [soqremque(k, s, "q") EXCEPT !.so[s] = Freed]
  ELSE [k EXCEPT !.so[s].mem = "panic"]       \* panic("sofree dq")

soisconnecting(k, s) ==
  [k EXCEPT !.so[s].state = (@ \ {"ISCONNECTED", "ISDISCONNECTING"})
                            \cup {"ISCONNECTING"}]

(* Mutant: nobody is told of the new connection. *)
soisconnected_NoWakeup(k, s) ==
  LET k1 == [k EXCEPT !.so[s].state =
               (@ \ {"ISCONNECTING", "ISDISCONNECTING"}) \cup {"ISCONNECTED"}]
      h  == k.so[s].head
  IN  IF OnQueue(k1, s, "q0")
      THEN soqinsque(soqremque(k1, s, "q0"), h, s, "q")
      ELSE wakeup(k1, s)

soisconnected(k, s) ==
  LET k1 == [k EXCEPT !.so[s].state =
               (@ \ {"ISCONNECTING", "ISDISCONNECTING"}) \cup {"ISCONNECTED"}]
      h  == k.so[s].head
  IN  IF OnQueue(k1, s, "q0")
      THEN wakeup(soqinsque(soqremque(k1, s, "q0"), h, s, "q"), h)
      ELSE wakeup(k1, s)

soisdisconnecting(k, s) ==
  wakeup([k EXCEPT !.so[s].state = (@ \ {"ISCONNECTING"}) \cup
            {"ISDISCONNECTING", "CANTRCVMORE", "CANTSENDMORE"}], s)

soisdisconnected(k, s) ==
  wakeup([k EXCEPT !.so[s].state =
            (@ \ {"ISCONNECTING", "ISCONNECTED", "ISDISCONNECTING"})
            \cup {"CANTRCVMORE", "CANTSENDMORE"}], s)

(* tcp_close() with in_pcbdetach() *)
tcp_close(k, s) ==
  sofree([soisdisconnected(k, s) EXCEPT !.so[s].t_state = NOPCB,
                                        !.so[s].msl = FALSE,
                                        !.so[s].held = FALSE], s)

tcp_drop(k, s, err) == tcp_close([k EXCEPT !.so[s].error = err], s)

tcp_usrclosed(k, s) ==
  LET st == k.so[s].t_state IN
  IF st < TCPS_SYN_RECEIVED THEN tcp_close(k, s)
  ELSE LET k1 == [k EXCEPT !.so[s].t_state =
                    IF st \in {TCPS_SYN_RECEIVED, TCPS_ESTABLISHED}
                    THEN TCPS_FIN_WAIT_1
                    ELSE IF st = TCPS_CLOSE_WAIT THEN TCPS_LAST_ACK ELSE st]
       IN  IF k1.so[s].t_state >= TCPS_FIN_WAIT_2
           THEN soisdisconnected(k1, s) ELSE k1

tcp_disconnect(k, s) ==
  IF k.so[s].t_state < TCPS_ESTABLISHED THEN tcp_close(k, s)
  ELSE IF k.so[s].linger = "zero" THEN tcp_drop(k, s, FALSE)
  ELSE tcp_usrclosed(soisdisconnecting(k, s), s)

(* PRU_DETACH *)
Detach(k, s) ==
  IF k.so[s].t_state > TCPS_LISTEN THEN tcp_disconnect(k, s)
                                   ELSE tcp_close(k, s)

-----------------------------------------------------------------------------
(* What the calls of the program do.                                       *)

(* anp_fdfind() on a descriptor of the program's.  With CloseShared FALSE  *)
(* no call is made on a descriptor whose close() sleeps.                   *)
Calls(t, fd, s) ==
  /\ thr[t].call = "user"
  /\ fdtbl[fd] = s /\ s # NULL /\ so[s].mem = "live"
  /\ CloseShared \/ \A u \in Threads : thr[u].call # "close" \/ thr[u].fd # fd

(* anp_fdalloc(): a full table leaves the socket without a descriptor.     *)
fdalloc(s) ==
  LET free == {fd \in 0 .. MAXFDS - 1 : fdtbl[fd] = NULL}
  IN  fdtbl' = IF free = {} THEN fdtbl
               ELSE [fdtbl EXCEPT ![CHOOSE fd \in free :
                                      \A g \in free : fd <= g] = s]

(* The bound on the number of sockets. *)
Room == Cardinality({s \in Socks : so[s].mem # "free"}) < program.socks

(* socket(): socreate() with PRU_ATTACH, then setsockopt(SO_LINGER).       *)
socreate(t, s, linger) ==
  /\ thr[t].call = "user" /\ so[s].mem = "free" /\ Room
  /\ so' = [so EXCEPT ![s] = [Freed EXCEPT !.mem = "live",
                               !.t_state = TCPS_CLOSED, !.linger = linger]]
  /\ fdalloc(s)
  /\ UNCHANGED <<thr, program>>

(* ioctl(FIONBIO) *)
Fionbio(t, fd, s, on) ==
  /\ program.nonblocking /\ Calls(t, fd, s) /\ on # ("NBIO" \in so[s].state)
  /\ so' = [so EXCEPT ![s].state = IF on THEN @ \cup {"NBIO"} ELSE @ \ {"NBIO"}]
  /\ UNCHANGED <<thr, fdtbl, program>>

(* listen(), first or repeated; programs that call it on a connected or    *)
(* connecting socket are left out.                                         *)
solisten(t, fd, s, backlog) ==
  /\ Calls(t, fd, s) /\ so[s].t_state \in {TCPS_CLOSED, TCPS_LISTEN}
  /\ so' = [so EXCEPT ![s].t_state = TCPS_LISTEN,
                      ![s].acceptconn = @ \/ so[s].q = <<>>,
                      ![s].qlimit = IF backlog < SOMAXCONN THEN backlog
                                                           ELSE SOMAXCONN]
  /\ UNCHANGED <<thr, fdtbl, program>>

(* The loop of accept(): return the pending error, hand out the first      *)
(* completed connection, or sleep.                                         *)
AcceptLoop(t, fd, s) ==
  IF so[s].error
  THEN /\ so' = [so EXCEPT ![s].error = FALSE]
       /\ thr' = [thr EXCEPT ![t] = InUser]
       /\ UNCHANGED <<fdtbl, program>>
  ELSE IF so[s].q # <<>>
  THEN LET a == Head(so[s].q)
           k == soqremque(Kernel, a, "q")
       IN  /\ so' = IF Has(k, a, "NOFDREF")
                    THEN [k.so EXCEPT ![a].state = @ \ {"NOFDREF"}]
                    ELSE [k.so EXCEPT ![a].mem = "panic"]
           /\ thr' = [thr EXCEPT ![t] = InUser]
           /\ fdalloc(a) /\ UNCHANGED program
  ELSE IF Has(Kernel, s, "CANTRCVMORE")       \* ECONNABORTED
  THEN thr' = [thr EXCEPT ![t] = InUser] /\ UNCHANGED <<so, fdtbl, program>>
  ELSE thr' = [thr EXCEPT ![t] = Asleep("accept", s, fd)]
       /\ UNCHANGED <<so, fdtbl, program>>

accept(t, fd, s) ==
  /\ Calls(t, fd, s)
  /\ so[s].acceptconn
  /\ ~Has(Kernel, s, "NBIO") \/ so[s].q # <<>>
  /\ AcceptLoop(t, fd, s)

acceptResume(t) ==
  /\ thr[t].call = "accept" /\ thr[t].awake /\ so[thr[t].s].mem = "live"
  /\ AcceptLoop(t, thr[t].fd, thr[t].s)

(* The end of connect(), from the label bad: a failed call clears          *)
(* SS_ISCONNECTING whoever set it.                                         *)
ConnectDone(k, t, s) ==
  [k EXCEPT !.so[s].state = @ \ {"ISCONNECTING"}, !.thr[t] = InUser]

(* The wait of connect(). *)
ConnectLoop(k, t, fd, s) ==
  IF Has(k, s, "ISCONNECTING") /\ ~k.so[s].error
  THEN [k EXCEPT !.thr[t] = Asleep("connect", s, fd)]
  ELSE ConnectDone([k EXCEPT !.so[s].error = FALSE], t, s)

(* connect() "fails" when in_pcbconnect() or tcp_template() does.  When    *)
(* tcp_output() does, the SYN is "unsent" for now: the call reports the    *)
(* error, and the retransmission timer tries again.                        *)
connect(t, fd, s, syn) ==
  /\ program.connects /\ Calls(t, fd, s)
  /\ ~Has(Kernel, s, "NBIO") \/ ~Has(Kernel, s, "ISCONNECTING")
  /\ Becomes(
       IF \/ so[s].acceptconn \/ so[s].t_state = NOPCB \/ syn = "fails"
          \/ Has(Kernel, s, "ISCONNECTED") \/ Has(Kernel, s, "ISCONNECTING")
       THEN ConnectDone(Kernel, t, s)
       ELSE LET k == soisconnecting([Kernel EXCEPT
                       !.so[s].t_state = TCPS_SYN_SENT], s)
            IN  IF syn = "unsent" THEN ConnectDone(k, t, s)
                ELSE IF Has(k, s, "NBIO") THEN k ELSE ConnectLoop(k, t, fd, s))
  /\ UNCHANGED <<fdtbl, program>>

connectResume(t) ==
  /\ thr[t].call = "connect" /\ thr[t].awake /\ so[thr[t].s].mem = "live"
  /\ Becomes(ConnectLoop(Kernel, t, thr[t].fd, thr[t].s))
  /\ UNCHANGED <<fdtbl, program>>

(* shutdown(): how + 1 has bit FREAD for 0 and 2, bit FWRITE for 1 and 2.  *)
soshutdown(t, fd, s, how) ==
  /\ Calls(t, fd, s)
  /\ LET rd == IF how \in {0, 2}
               THEN [Kernel EXCEPT !.so[s].state = @ \cup {"CANTRCVMORE"}]
               ELSE Kernel
     IN  Becomes(IF how \in {1, 2} /\ so[s].t_state # NOPCB
                 THEN tcp_usrclosed([rd EXCEPT !.so[s].state =
                                       @ \cup {"CANTSENDMORE"}], s)
                 ELSE rd)
  /\ UNCHANGED <<fdtbl, program>>

(* soclose() from the label drop, and anp_fdfree(). *)
CloseDone(k, t, fd, s) ==
  LET k1 == IF k.so[s].t_state # NOPCB THEN Detach(k, s) ELSE k
      k2 == [k1 EXCEPT !.thr[t] = InUser]
  IN  /\ Becomes(IF Has(k2, s, "NOFDREF")     \* panic("soclose: NOFDREF")
                 THEN [k2 EXCEPT !.so[s].mem = "panic"]
                 ELSE sofree([k2 EXCEPT !.so[s].state = @ \cup {"NOFDREF"}], s))
      /\ fdtbl' = [fdtbl EXCEPT ![fd] = NULL] /\ UNCHANGED program

(* The wait of soclose() for a lingering connection. *)
CloseLoop(k, t, fd, s) ==
  IF Has(k, s, "ISCONNECTED")
  THEN Becomes([k EXCEPT !.thr[t] = Asleep("close", s, fd)])
       /\ UNCHANGED <<fdtbl, program>>
  ELSE CloseDone(k, t, fd, s)

(* soabort() of every connection on the queues of a listener. *)
AbortQueues(k, s) ==
  FoldLeft(LAMBDA acc, c : tcp_drop(acc, c, TRUE), k, k.so[s].q0 \o k.so[s].q)

(* Mutant: connections that wait for accept() are forgotten. *)
soclose_NoAbort(t, fd, s) ==
  /\ Calls(t, fd, s)
  /\ CloseShared \/ \A u \in Threads : thr[u].fd # fd
  /\ CloseDone(IF Has(Kernel, s, "ISCONNECTED") THEN tcp_disconnect(Kernel, s)
               ELSE Kernel, t, fd, s)

soclose(t, fd, s) ==
  /\ Calls(t, fd, s)
  /\ CloseShared \/ \A u \in Threads : thr[u].fd # fd
  /\ LET k1 == IF so[s].acceptconn THEN AbortQueues(Kernel, s) ELSE Kernel
         k2 == IF Has(k1, s, "ISDISCONNECTING") THEN k1
               ELSE tcp_disconnect(k1, s)
     IN  IF k1.so[s].t_state = NOPCB \/ ~Has(k1, s, "ISCONNECTED")
         THEN CloseDone(k1, t, fd, s)
         ELSE IF \/ so[s].linger = "off"
                 \/ Has(k2, s, "ISDISCONNECTING") /\ Has(k2, s, "NBIO")
         THEN CloseDone(k2, t, fd, s)
         ELSE CloseLoop(k2, t, fd, s)

socloseResume(t) ==
  /\ thr[t].call = "close" /\ thr[t].awake /\ so[thr[t].s].mem = "live"
  /\ CloseLoop(Kernel, t, thr[t].fd, thr[t].s)

(* tsleep() gives up after so_linger. *)
socloseTimeout(t) ==
  /\ thr[t].call = "close" /\ so[thr[t].s].mem = "live"
  /\ CloseDone(Kernel, t, thr[t].fd, thr[t].s)

(* A wakeup of another channel of the same hash bucket reaches t.          *)
Spurious(t) ==
  /\ thr[t].call # "user" /\ ~thr[t].awake
  /\ thr' = [thr EXCEPT ![t].awake = TRUE]
  /\ UNCHANGED <<so, fdtbl, program>>

-----------------------------------------------------------------------------
(* What the peer and the timers do to a connection.                        *)

(* A SYN arrives at a listener: sonewconn(), then SYN_RECEIVED.  A segment *)
(* that is not acceptable in LISTEN creates the socket and aborts it again.*)
sonewconn(h, s) ==
  /\ so[h].mem = "live" /\ so[h].acceptconn /\ so[h].t_state = TCPS_LISTEN
  /\ Len(so[h].q) + Len(so[h].q0) <= (3 * so[h].qlimit) \div 2
  /\ so[s].mem = "free" /\ Room
  /\ Becomes(soqinsque([Kernel EXCEPT !.so[s] =
        [Freed EXCEPT !.mem = "live", !.state = so[h].state \cup {"NOFDREF"},
                      !.linger = IF so[h].linger = "off" THEN "off" ELSE "time",
                      !.t_state = TCPS_SYN_RECEIVED]], h, s, "q0"))
  /\ UNCHANGED <<fdtbl, program>>

(* The SYN of a simultaneous open. *)
SynInSynSent(s) ==
  /\ so[s].t_state = TCPS_SYN_SENT
  /\ so' = [so EXCEPT ![s].t_state = TCPS_SYN_RECEIVED]
  /\ UNCHANGED <<thr, fdtbl, program>>

(* Our SYN is acknowledged. *)
SynAcked(s) ==
  /\ so[s].t_state \in {TCPS_SYN_SENT, TCPS_SYN_RECEIVED}
  /\ Becomes([soisconnected(Kernel, s) EXCEPT !.so[s].t_state = TCPS_ESTABLISHED])
  /\ UNCHANGED <<fdtbl, program>>

(* The peer's FIN, also one that comes with its SYN. *)
FinReceived(s) ==
  /\ so[s].t_state \in {TCPS_SYN_RECEIVED, TCPS_ESTABLISHED, TCPS_FIN_WAIT_1,
                        TCPS_FIN_WAIT_2}
  /\ LET k  == [Kernel EXCEPT !.so[s].state = @ \cup {"CANTRCVMORE"}]
         st == so[s].t_state
     IN  Becomes(
           IF st \in {TCPS_SYN_RECEIVED, TCPS_ESTABLISHED}
           THEN [k EXCEPT !.so[s].t_state = TCPS_CLOSE_WAIT]
           ELSE IF st = TCPS_FIN_WAIT_1
           THEN [k EXCEPT !.so[s].t_state = TCPS_CLOSING]
           ELSE soisdisconnected([k EXCEPT !.so[s].t_state = TCPS_TIME_WAIT,
                                           !.so[s].msl = TRUE], s))
  /\ UNCHANGED <<fdtbl, program>>

(* Mutant: FIN_WAIT_2 is entered without the 2MSL timer. *)
FinAcked_NoTimer(s) ==
  /\ so[s].t_state \in {TCPS_FIN_WAIT_1, TCPS_CLOSING, TCPS_LAST_ACK}
  /\ ~so[s].held
  /\ LET st == so[s].t_state IN Becomes(
       IF st = TCPS_LAST_ACK THEN tcp_close(Kernel, s)
       ELSE IF st = TCPS_CLOSING
       THEN soisdisconnected([Kernel EXCEPT !.so[s].t_state = TCPS_TIME_WAIT,
                                            !.so[s].msl = TRUE], s)
       ELSE soisdisconnected([Kernel EXCEPT
                                !.so[s].t_state = TCPS_FIN_WAIT_2], s))
  /\ UNCHANGED <<fdtbl, program>>

(* Our FIN is acknowledged. *)
FinAcked(s) ==
  /\ so[s].t_state \in {TCPS_FIN_WAIT_1, TCPS_CLOSING, TCPS_LAST_ACK}
  /\ ~so[s].held
  /\ LET st == so[s].t_state IN Becomes(
       IF st = TCPS_LAST_ACK THEN tcp_close(Kernel, s)
       ELSE IF st = TCPS_CLOSING
       THEN soisdisconnected([Kernel EXCEPT !.so[s].t_state = TCPS_TIME_WAIT,
                                            !.so[s].msl = TRUE], s)
       ELSE IF Has(Kernel, s, "CANTRCVMORE")
       THEN soisdisconnected([Kernel EXCEPT !.so[s].t_state = TCPS_FIN_WAIT_2,
                                            !.so[s].msl = TRUE], s)
       ELSE [Kernel EXCEPT !.so[s].t_state = TCPS_FIN_WAIT_2, !.so[s].half = TRUE])
  /\ UNCHANGED <<fdtbl, program>>

(* The peer shuts its window on data of the program, or opens it: then the *)
(* data goes out, and the FIN if there is one.                             *)
Window(s) ==
  /\ program.windows
  /\ \/ so[s].held
     \/ /\ so[s].t_state \in {TCPS_ESTABLISHED, TCPS_CLOSE_WAIT}
        /\ ~Has(Kernel, s, "NOFDREF")
  /\ so' = [so EXCEPT ![s].held = ~@]
  /\ UNCHANGED <<thr, fdtbl, program>>

(* A reset, or a SYN in the window; in SYN_SENT a reset refuses the        *)
(* connection.  After both FINs a reset leaves so_error alone.             *)
Reset(s) ==
  /\ so[s].t_state >= TCPS_SYN_SENT
  /\ \/ Becomes(tcp_drop(Kernel, s, TRUE))
     \/ /\ so[s].t_state \in {TCPS_CLOSING, TCPS_LAST_ACK, TCPS_TIME_WAIT}
        /\ Becomes(tcp_close(Kernel, s))
  /\ UNCHANGED <<fdtbl, program>>

(* Data for a connection whose user has closed. *)
DataAfterClose(s) ==
  /\ so[s].t_state > TCPS_CLOSE_WAIT /\ Has(Kernel, s, "NOFDREF")
  /\ Becomes(tcp_close(Kernel, s))
  /\ UNCHANGED <<fdtbl, program>>

(* The retransmission timer of an unacknowledged SYN or FIN, or the        *)
(* keep-alive timer before ESTABLISHED, gives up.  The persist timer,      *)
(* which runs while the FIN is held back, never does.                      *)
TimerDrop(s) ==
  /\ so[s].t_state \in {TCPS_SYN_SENT, TCPS_SYN_RECEIVED, TCPS_FIN_WAIT_1,
                        TCPS_CLOSING, TCPS_LAST_ACK}
  /\ ~so[s].held
  /\ Becomes(tcp_drop(Kernel, s, TRUE))
  /\ UNCHANGED <<fdtbl, program>>

(* The 2MSL timer.  In FIN_WAIT_2 it is the idle time that has run out.    *)
TwoMsl(s) ==
  /\ so[s].t_state # NOPCB /\ so[s].msl
  /\ Becomes(tcp_close(Kernel, s))
  /\ UNCHANGED <<fdtbl, program>>

Calling(t) ==
  \/ \E s \in Socks, l \in program.lingers : socreate(t, s, l)
  \/ \E fd \in 0 .. MAXFDS - 1, s \in Socks :
       \/ \E on \in BOOLEAN : Fionbio(t, fd, s, on)
       \/ \E b \in Backlogs : solisten(t, fd, s, b)
       \/ accept(t, fd, s)
       \/ \E syn \in {"fails", "unsent", "sent"} : connect(t, fd, s, syn)
       \/ \E how \in program.hows : soshutdown(t, fd, s, how)
       \/ soclose(t, fd, s)

Resume(t) == acceptResume(t) \/ connectResume(t) \/ socloseResume(t)

Peer(s) ==
  \/ \E h \in Socks : sonewconn(h, s)
  \/ SynInSynSent(s) \/ SynAcked(s) \/ FinReceived(s) \/ FinAcked(s)
  \/ Window(s) \/ Reset(s) \/ DataAfterClose(s)

Timers(s) == TimerDrop(s) \/ TwoMsl(s)

Next ==
  \/ \E t \in Threads : Calling(t) \/ Resume(t) \/ socloseTimeout(t) \/ Spurious(t)
  \/ \E s \in Socks : Peer(s) \/ Timers(s)

Spec == Init /\ [][Next]_vars

(* A woken thread gets kern_lock, a timer that is not stopped goes off.    *)
(* Nothing is asked of the program and nothing of the peer.                *)
FairSpec ==
  /\ Spec
  /\ \A t \in Threads : WF_vars(Resume(t))
  /\ \A s \in Socks : WF_vars(Timers(s))

-----------------------------------------------------------------------------
(* Properties                                                              *)

Live(s) == so[s].mem = "live"
Fds(s) == {fd \in 0 .. MAXFDS - 1 : fdtbl[fd] = s}
Queued(s) == {h \in Socks : s \in ToSet(so[h].q0) \cup ToSet(so[h].q)}

(* The sockets, threads and descriptors have their types; none of the      *)
(* panics of accept(), sofree(), soaccept() and soclose() is reached by a  *)
(* program that does not close a descriptor under another call on it.      *)
TypeOK ==
  /\ so \in [Socks -> Socket]
  /\ thr \in [Threads -> Thread]
  /\ fdtbl \in [0 .. MAXFDS - 1 -> Socks \cup {NULL}]
  /\ \A s \in Socks : so[s].mem # "panic"

(* No panic is reached and the accept queues are consistent: a queued      *)
(* connection is a live socket with a protocol block and without a         *)
(* descriptor, on one queue, once, of the listener its so_head names; and  *)
(* so_head is null off the queues.                                         *)
(* Connections are queued, moved, accepted, reset and aborted by different *)
(* threads (soqinsque, soqremque, sofree of uipc_socket2.c and _socket.c). *)
(* What accept() hands out is connected or was: no half-open connection is *)
(* on so_q (soisconnected() is the only way from so_q0 to so_q).           *)
QueuesConsistent ==
  TypeOK /\ \A s \in Socks :
    /\ Queued(s) = (IF so[s].head = NULL THEN {} ELSE {so[s].head})
    /\ so[s].head # NULL =>
         LET h == so[s].head IN
         /\ Live(s) /\ Live(h) /\ so[h].acceptconn
         /\ so[s].t_state # NOPCB /\ "NOFDREF" \in so[s].state
         /\ IsInjective(so[h].q0 \o so[h].q)
         /\ s \in ToSet(so[h].q) => so[s].t_state >= TCPS_ESTABLISHED

(* No thread is inside a call on freed memory, and no descriptor names a   *)
(* freed socket: soclose() frees the socket, or leaves that to the         *)
(* protocol, only when neither is left.                                    *)
NoDangling ==
  /\ \A t \in Threads : thr[t].s # NULL => Live(thr[t].s)
  /\ \A fd \in 0 .. MAXFDS - 1 : fdtbl[fd] # NULL => Live(fdtbl[fd])

(* SS_NOFDREF says exactly whether a descriptor names the socket, so       *)
(* sofree() and soclose() may trust it; no socket has two.                 *)
FdRefExact ==
  \A s \in Socks : Live(s) =>
    Cardinality(Fds(s)) = (IF "NOFDREF" \in so[s].state THEN 0 ELSE 1)

(* No socket is lost: one without a descriptor still has a protocol block, *)
(* whose end frees it.                                                     *)
NoZombie ==
  \A s \in Socks : Live(s) /\ Fds(s) = {} => so[s].t_state # NOPCB

(* Sockets are freed neither too early nor never, by whichever of close(), *)
(* the protocol and the timers comes last: the three together.             *)
References == NoDangling /\ FdRefExact /\ NoZombie

(* No wakeup on so_timeo is lost: a thread asleep in accept() has nothing  *)
(* to accept and no error to report, one asleep in connect() is neither    *)
(* connected nor refused, one asleep in close() still has a connection to  *)
(* wait for.                                                               *)
NoLostWakeup ==
  \A t \in Threads :
    LET s == thr[t].s IN
    ~thr[t].awake =>
      /\ thr[t].call = "accept" => so[s].q = <<>> /\ ~so[s].error
      /\ thr[t].call = "connect" => ~so[s].error /\ "ISCONNECTED" \notin so[s].state
      /\ thr[t].call = "close" => "ISCONNECTED" \in so[s].state

(* A socket the program has closed is freed in the end, once nothing that  *)
(* was written is held back by the peer's window: its SYN or FIN is        *)
(* retransmitted until it is acknowledged or given up, and the 2MSL timer  *)
(* ends what follows.  There are two exceptions.  While the window stays   *)
(* shut, tcp_timers() probes it and never gives up (TCPT_PERSIST), so a    *)
(* peer that is gone keeps the socket.  And a connection that was in       *)
(* FIN_WAIT_2 before the close() waits for the peer's FIN for ever:        *)
(* tcp_input() started no timer for it, and tcp_usrclosed() does not look  *)
(* at its SS_CANTRCVMORE.                                                  *)
ClosedIsFreed ==
  \A s \in Socks :
    (Live(s) /\ "NOFDREF" \in so[s].state /\ so[s].head = NULL
       /\ ~so[s].held /\ ~so[s].half)
       ~> ~Live(s)
=============================================================================
