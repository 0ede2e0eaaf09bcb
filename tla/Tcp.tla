-------------------------------- MODULE Tcp --------------------------------
(***************************************************************************)
(* Two TCPs of netinet/tcp_{input,output,timer,subr,usrreq}.c and the line *)
(* between them, which may lose, repeat and reorder segments.  A byte is    *)
(* its position in the stream of the end that writes it; sequence numbers  *)
(* are modulo SEQ, so they wrap.  The instance has tcp_do_rfc1323 = 0 (no  *)
(* timestamps, no window scale) and no urgent data.  Timers are armed or   *)
(* not; how long they run is left open.                                    *)
(***************************************************************************)
EXTENDS Integers, FiniteSets, SequencesExt

CONSTANTS
  A, B,            \* the two ends
  Plans,           \* what the programs do and what goes wrong: see Plan
  HIWAT, MSS,      \* sb_hiwat of the buffers, t_maxseg
  TCP_MAXWIN,
  SEQ, ISS,        \* size of the sequence space, tcp_iss of each end
  MAXRXTSHIFT,     \* TCP_MAXRXTSHIFT
  tcprexmtthresh

Ends == {A, B}
Other(e) == IF e = A THEN B ELSE A

(* A plan: the ends that call connect() and those with a listening socket, *)
(* the bytes the program of each end writes and the ways in which it may   *)
(* end, what may go wrong on the way, and a bound on how often it does.    *)
Plan == [connecting : SUBSET Ends, listening : SUBSET Ends,
         total : [Ends -> Nat],
         closing : [Ends -> SUBSET {"shutdown", "close", "abort", "crash", "halt"}],
         faults : SUBSET {"lose", "repeat", "reorder", "early", "probe",
                          "nombuf", "nocopy", "full"},
         bound : Nat]

ASSUME TcpAssumption ==
  /\ A # B /\ \A p \in Plans : p \in Plan
  /\ {HIWAT, MSS, TCP_MAXWIN, SEQ, MAXRXTSHIFT, tcprexmtthresh} \subseteq Nat \ {0}
  /\ ISS \in [Ends -> 0 .. SEQ - 1]

VARIABLES
  plan,      \* the plan, fixed at the start
  tp,        \* the control block and the socket of each end: see Tcpcb
  net,       \* the segments under way to each end
  app,       \* what the programs did: bytes written, bytes read, calls made
  faults     \* faults so far

vars == <<plan, tp, net, app, faults>>

-----------------------------------------------------------------------------
(* Sequence numbers and states                                             *)

Add(a, n) == (a + n) % SEQ

(* (int)(a - b) *)
Diff(a, b) == LET d == (a - b) % SEQ IN IF 2 * d < SEQ THEN d ELSE d - SEQ

SEQ_LT(a, b)  == Diff(a, b) < 0
SEQ_LEQ(a, b) == Diff(a, b) <= 0
SEQ_GT(a, b)  == Diff(a, b) > 0

CLOSED == 0
LISTEN == 1
SYN_SENT == 2
SYN_RECEIVED == 3
ESTABLISHED == 4
CLOSE_WAIT == 5
FIN_WAIT_1 == 6
CLOSING == 7
LAST_ACK == 8
FIN_WAIT_2 == 9
TIME_WAIT == 10

tcp_outflags(state) ==
  CASE state = CLOSED       -> {"RST", "ACK"}
    [] state = LISTEN       -> {}
    [] state = SYN_SENT     -> {"SYN"}
    [] state = SYN_RECEIVED -> {"SYN", "ACK"}
    [] state \in {FIN_WAIT_1, CLOSING, LAST_ACK} -> {"FIN", "ACK"}
    [] OTHER                -> {"ACK"}

TCPS_HAVERCVDSYN(state) == state >= SYN_RECEIVED
TCPS_HAVERCVDFIN(state) == state >= TIME_WAIT

Seqno == 0 .. SEQ - 1
Bytes == Seq(Nat)
Flags == SUBSET {"SYN", "ACK", "FIN", "RST"}
Segment == [flags : Flags, seq : Seqno, ack : Seqno, win : Nat,
            data : Bytes]
Queued == [seq : Seqno, data : Bytes, fin : BOOLEAN]

(* struct tcpcb with the parts of the socket that TCP uses; pcb is whether *)
(* the socket still has a control block.                                   *)
Tcpcb == [pcb : BOOLEAN, t_state : CLOSED .. TIME_WAIT, segq : Seq(Queued),
          snd_una : Seqno, snd_nxt : Seqno, snd_max : Seqno, iss : Seqno,
          snd_wl1 : Seqno, snd_wl2 : Seqno, snd_wnd : Nat, max_sndwnd : Nat,
          snd_cwnd : Nat, snd_ssthresh : Nat, t_dupacks : Nat,
          rcv_nxt : Seqno, rcv_adv : Seqno, irs : Seqno,
          rexmt : BOOLEAN, persist : BOOLEAN, msl2 : BOOLEAN,
          t_rxtshift : 0 .. MAXRXTSHIFT, t_rtt : BOOLEAN, t_rtseq : Seqno,
          acknow : BOOLEAN, delack : BOOLEAN, sentfin : BOOLEAN,
          snd : Bytes, rcv : Bytes, head : BOOLEAN, connected : BOOLEAN,
          cantsend : BOOLEAN, cantrcv : BOOLEAN, nofdref : BOOLEAN,
          so_error : {"none", "refused", "reset", "timedout"}]

(* tcp_attach(), tcp_newtcpcb() *)
tcp_newtcpcb ==
  [pcb |-> TRUE, t_state |-> CLOSED, segq |-> <<>>,
   snd_una |-> 0, snd_nxt |-> 0, snd_max |-> 0, iss |-> 0,
   snd_wl1 |-> 0, snd_wl2 |-> 0, snd_wnd |-> 0, max_sndwnd |-> 0,
   snd_cwnd |-> TCP_MAXWIN, snd_ssthresh |-> TCP_MAXWIN, t_dupacks |-> 0,
   rcv_nxt |-> 0, rcv_adv |-> 0, irs |-> 0,
   rexmt |-> FALSE, persist |-> FALSE, msl2 |-> FALSE,
   t_rxtshift |-> 0, t_rtt |-> FALSE, t_rtseq |-> 0,
   acknow |-> FALSE, delack |-> FALSE, sentfin |-> FALSE,
   snd |-> <<>>, rcv |-> <<>>, head |-> FALSE, connected |-> FALSE,
   cantsend |-> FALSE, cantrcv |-> FALSE, nofdref |-> FALSE,
   so_error |-> "none"]

NoTcb == [tcp_newtcpcb EXCEPT !.pcb = FALSE]

Init ==
  /\ plan \in Plans
  /\ tp = [e \in Ends |-> IF e \in plan.connecting THEN tcp_newtcpcb ELSE NoTcb]
  /\ net = [e \in Ends |-> <<>>]
  /\ app = [e \in Ends |-> [wrote |-> 0, got |-> <<>>, calls |-> {}]]
  /\ faults = 0

-----------------------------------------------------------------------------
(* The functions below take and return a record x of a step: the end me,   *)
(* its control block t, the segment s that came in, the segments out that  *)
(* were sent, the fate of what is sent ("ok"; "nombuf": no mbuf for a      *)
(* header; "nocopy": none for the copy of the data; "full": ip_output()    *)
(* returns ENOBUFS), and go, the label at which tcp_input() goes on.       *)

sbspace(t) == HIWAT - Len(t.rcv)
sbdrop(t, n) == [t EXCEPT !.snd = SubSeq(@, n + 1, Len(@))]
sbappend(t, data) == [t EXCEPT !.rcv = @ \o data]

tcp_sendseqinit(t) ==
  [t EXCEPT !.snd_una = t.iss, !.snd_nxt = t.iss, !.snd_max = t.iss]

tcp_rcvseqinit(t) ==
  [t EXCEPT !.rcv_adv = Add(t.irs, 1), !.rcv_nxt = Add(t.irs, 1)]

soisdisconnected(t) ==
  [t EXCEPT !.connected = FALSE, !.cantsend = TRUE, !.cantrcv = TRUE]

socantrcvmore(t) == [t EXCEPT !.cantrcv = TRUE]

tcp_canceltimers(t) ==
  [t EXCEPT !.rexmt = FALSE, !.persist = FALSE, !.msl2 = FALSE]

(* The control block goes.  The socket and its data stay, unless it is     *)
(* still in the queue of a listener (so_head): then sofree() frees it.     *)
tcp_close(t) ==
  LET u == soisdisconnected(tcp_canceltimers(t))
  IN  IF t.head THEN NoTcb
      ELSE [u EXCEPT !.pcb = FALSE, !.t_state = CLOSED, !.segq = <<>>]

tcp_quench(t) == [t EXCEPT !.snd_cwnd = MSS]

tcp_setpersist(t) ==
  [t EXCEPT !.persist = TRUE,
            !.t_rxtshift = IF @ < MAXRXTSHIFT THEN @ + 1 ELSE @]

(* The rtt itself is not kept; a measurement ends the backoff. *)
tcp_xmit_timer(t) == [t EXCEPT !.t_rtt = FALSE, !.t_rxtshift = 0]


-----------------------------------------------------------------------------
(* tcp_output()                                                            *)

(* The receive window to advertise: it never shrinks. *)
Window(t) ==
  Max({Diff(t.rcv_adv, t.rcv_nxt),
       IF sbspace(t) < HIWAT \div 4 /\ sbspace(t) < MSS THEN 0
       ELSE Min({sbspace(t), TCP_MAXWIN})})

(* snd_nxt moves to nxt: time the segment, arm the retransmission timer. *)
Advance(t, nxt, flags) ==
  LET new == SEQ_GT(nxt, t.snd_max)
      arm == ~t.rexmt /\ nxt # t.snd_una
  IN  [t EXCEPT !.snd_nxt = nxt, !.sentfin = @ \/ "FIN" \in flags,
                !.snd_max = IF new THEN nxt ELSE @,
                !.t_rtt = @ \/ new,
                !.t_rtseq = IF new /\ ~t.t_rtt THEN t.snd_nxt ELSE @,
                !.rexmt = @ \/ arm, !.persist = @ /\ ~arm,
                !.t_rxtshift = IF arm /\ t.persist THEN 0 ELSE @]

(* After the call of ip_output(). *)
Sent(x, seg, sendalot) ==
  IF x.fate = "full" THEN [x EXCEPT !.t = tcp_quench(@), !.again = FALSE]
  ELSE LET edge == Add(x.t.rcv_nxt, seg.win) IN
       [x EXCEPT !.t.rcv_adv = IF seg.win > 0 /\ SEQ_GT(edge, @) THEN edge ELSE @,
                 !.t.acknow = FALSE, !.t.delack = FALSE,
                 !.out = Append(@, seg), !.again = sendalot]

(* The segment with len bytes at offset off of the send buffer. *)
Transmit(x, force, off, len, flags, sendalot) ==
  LET t   == x.t
      ctl == flags \cap {"SYN", "FIN"}
      end == Add(t.snd_nxt, len)
  IN  Sent([x EXCEPT !.t =
              IF ~force \/ ~t.persist
              THEN Advance(t, Add(end, Cardinality(ctl)), flags)
              ELSE [t EXCEPT !.snd_max = IF SEQ_GT(end, @) THEN end ELSE @]],
           [flags |-> flags, ack |-> t.rcv_nxt,
            seq |-> IF len > 0 \/ ctl # {} \/ t.persist THEN t.snd_nxt
                                                        ELSE t.snd_max,
            win |-> Window(t), data |-> SubSeq(t.snd, off + 1, off + len)],
           sendalot)

(* From the label send: tcp_mss() for a SYN sets snd_cwnd, a FIN that is   *)
(* sent again does not use a new sequence number.                          *)
StartSyn(t, flags) ==
  IF "SYN" \in flags THEN [t EXCEPT !.snd_nxt = t.iss, !.snd_cwnd = MSS] ELSE t

ResendFin(t, flags) ==
  IF "FIN" \in flags /\ t.sentfin /\ t.snd_nxt = t.snd_max
  THEN [t EXCEPT !.snd_nxt = Add(@, -1)] ELSE t

SendSegment(x, force, off, len, flags, sendalot) ==
  IF x.fate = "nombuf"
  THEN [x EXCEPT !.t = tcp_quench(StartSyn(@, flags)), !.again = FALSE]
  ELSE Transmit([x EXCEPT !.t = ResendFin(StartSyn(@, flags), flags),
                          !.fate = IF @ = "nocopy" /\ len > 0 THEN "copied" ELSE @],
                force, off, IF x.fate = "nocopy" THEN 0 ELSE len, flags, sendalot)

(* Is there reason to send len bytes or flags? *)
Worth(t, force, idle, off, len, flags) ==
  LET adv == Min({sbspace(t), TCP_MAXWIN}) - Diff(t.rcv_adv, t.rcv_nxt) IN
  \/ /\ len > 0
     /\ \/ len = MSS
        \/ idle /\ len + off >= Len(t.snd)
        \/ force
        \/ len >= t.max_sndwnd \div 2
        \/ SEQ_LT(t.snd_nxt, t.snd_max)
  \/ sbspace(t) > 0 /\ (adv >= 2 * MSS \/ 2 * adv >= HIWAT)
  \/ t.acknow
  \/ flags \cap {"SYN", "RST"} # {}
  \/ "FIN" \in flags /\ (~t.sentfin \/ t.snd_nxt = t.snd_una)

SendOrPersist(x, force, idle, off, len, flags, sendalot) ==
  IF Worth(x.t, force, idle, off, len, flags)
  THEN SendSegment(x, force, off, len, flags, sendalot)
  ELSE IF x.t.snd # <<>> /\ ~x.t.rexmt /\ ~x.t.persist
  THEN [x EXCEPT !.t = tcp_setpersist([@ EXCEPT !.t_rxtshift = 0])]
  ELSE x

(* Mutant: the FIN goes with the first segment, whatever data is behind it. *)
Offer_EarlyFin(x, force, idle, probe, off, win, avail) ==
  SendOrPersist(x, force, idle, off, Max({0, Min({avail, MSS})}),
                tcp_outflags(x.t.t_state), avail > MSS)

(* avail bytes may be sent into the window win. *)
Offer(x, force, idle, probe, off, win, avail) ==
  LET len   == Max({0, Min({avail, MSS})})
      shut  == avail < 0 /\ win = 0
      nxt   == IF shut THEN x.t.snd_una ELSE x.t.snd_nxt
      nofin == \/ probe /\ off < Len(x.t.snd)
               \/ SEQ_LT(Add(nxt, len), Add(x.t.snd_una, Len(x.t.snd)))
  IN  SendOrPersist([x EXCEPT !.t.rexmt = @ /\ ~shut, !.t.snd_nxt = nxt],
                    force, idle, off, len,
                    tcp_outflags(x.t.t_state) \ (IF nofin THEN {"FIN"} ELSE {}),
                    avail > MSS)

(* Mutant: the peer's window is not looked at. *)
OutputPass_CwndOnly(x, force, idle) ==
  LET off == Diff(x.t.snd_nxt, x.t.snd_una)
  IN  Offer([x EXCEPT !.again = FALSE], force, idle, FALSE, off, x.t.snd_cwnd,
            Min({Len(x.t.snd), x.t.snd_cwnd}) - off)

(* One pass from the label again. *)
OutputPass(x, force, idle) ==
  LET off == Diff(x.t.snd_nxt, x.t.snd_una)
      wnd == Min({x.t.snd_wnd, x.t.snd_cwnd})
      win == IF force /\ wnd = 0 THEN 1 ELSE wnd
  IN  Offer([x EXCEPT !.again = FALSE,
                      !.t.persist = @ /\ ~(force /\ wnd > 0),
                      !.t.t_rxtshift = IF force /\ wnd > 0 THEN 0 ELSE @],
            force, idle, force /\ wnd = 0, off, win,
            Min({Len(x.t.snd), win}) - off)

(* quiet: t_idle has reached t_rxtcur, so an idle connection starts slowly. *)
Output(x, force, quiet) ==
  LET idle == x.t.snd_max = x.t.snd_una
      y    == [x EXCEPT !.again = TRUE,
                 !.t.snd_cwnd = IF idle /\ quiet THEN MSS ELSE @]
  IN  FoldLeft(LAMBDA z, i : IF z.again THEN OutputPass(z, force, idle) ELSE z,
               y, [i \in 1 .. HIWAT + 1 |-> i])

tcp_output(x) == Output(x, FALSE, FALSE)

tcp_drop(x, error) ==
  LET y == IF TCPS_HAVERCVDSYN(x.t.t_state)
           THEN tcp_output([x EXCEPT !.t.t_state = CLOSED]) ELSE x
  IN  [y EXCEPT !.t = tcp_close([y.t EXCEPT !.so_error = error])]

tcp_respond(x, ack, seq, flags) ==
  IF x.fate = "full" THEN x
  ELSE [x EXCEPT !.out = Append(@,
         [flags |-> flags, seq |-> seq, ack |-> ack,
          win |-> IF x.t.pcb THEN sbspace(x.t) ELSE 0, data |-> <<>>])]

-----------------------------------------------------------------------------
(* tcp_reass()                                                             *)

Seg_Len(s) == Len(s.data)
End_Of(q) == Add(q.seq, Len(q.data))
FrontTrim(q, n) == [q EXCEPT !.seq = Add(@, n), !.data = SubSeq(@, n + 1, Len(@))]

(* The segments behind the new one q: covered ones go, the first that      *)
(* reaches further is trimmed.                                             *)
TrimSucceeding(q, rest) ==
  FoldLeft(LAMBDA acc, r :
             LET i == Diff(End_Of(q), r.seq) IN
             IF acc # <<>> \/ i <= 0 THEN Append(acc, r)
             ELSE IF i < Len(r.data) THEN <<FrontTrim(r, i)>> ELSE acc,
           <<>>, rest)

(* Insert q into the queue, keeping the order and no byte twice. *)
InsertSegment(segq, q) ==
  LET later == {i \in 1 .. Len(segq) : SEQ_GT(segq[i].seq, q.seq)}
      pos   == IF later = {} THEN Len(segq) + 1 ELSE Min(later)
      front == SubSeq(segq, 1, pos - 1)
      over  == IF front = <<>> THEN 0 ELSE Diff(End_Of(Last(front)), q.seq)
      new   == IF over > 0 THEN FrontTrim(q, over) ELSE q
  IN  IF over > 0 /\ over >= Len(q.data) THEN segq
      ELSE front \o <<new>>
                 \o TrimSucceeding(new, SubSeq(segq, pos, Len(segq)))

(* The label present: data that is now in order goes to the socket.  The   *)
(* field fin of the result is TH_FIN of the last segment presented.        *)
Present(t) ==
  IF \/ ~TCPS_HAVERCVDSYN(t.t_state) \/ t.segq = <<>>
     \/ t.segq[1].seq # t.rcv_nxt
     \/ t.t_state = SYN_RECEIVED /\ t.segq[1].data # <<>>
  THEN [t |-> t, fin |-> FALSE]
  ELSE FoldLeft(LAMBDA acc, q :
                  IF q.seq # acc.t.rcv_nxt THEN acc
                  ELSE [t |-> [acc.t EXCEPT !.rcv_nxt = Add(@, Len(q.data)),
                                 !.segq = Tail(@),
                                 !.rcv = IF t.cantrcv THEN @ ELSE @ \o q.data],
                        fin |-> q.fin],
                [t |-> t, fin |-> FALSE], t.segq)

(* The macro TCP_REASS.  It looks at ti_flags, the flags in the header, and *)
(* not at tiflags (s.flags), from which a FIN behind the window is gone.    *)
TCP_REASS(t, s) ==
  LET fin == "FIN" \in s.ti_flags IN
  IF s.seq = t.rcv_nxt /\ t.segq = <<>> /\ t.t_state = ESTABLISHED
  THEN [t |-> sbappend([t EXCEPT !.delack = TRUE,
                                 !.rcv_nxt = Add(@, Seg_Len(s))], s.data),
        fin |-> fin]
  ELSE LET q == [seq |-> s.seq, data |-> s.data, fin |-> fin]
           u == InsertSegment(t.segq, q)
           r == IF u = t.segq THEN [t |-> t, fin |-> FALSE]   \* all there already
                ELSE Present([t EXCEPT !.segq = u])
       IN  [r EXCEPT !.t.acknow = TRUE]

-----------------------------------------------------------------------------
(* tcp_input().  Each stage is skipped when an earlier one has gone to a   *)
(* label behind it.  The flags of s are tiflags; ti_flags, the flags in    *)
(* the header, stay as they came.                                          *)

Go(x, label) == [x EXCEPT !.go = label]
Has(x, flag) == flag \in x.s.flags

(* The label trimthenstep6: data on a SYN, of which at most wnd bytes fit. *)
trimthenstep6(x, wnd) ==
  LET cut == Seg_Len(x.s) > wnd IN
  [x EXCEPT !.go = "step6", !.t.snd_wl1 = x.s.seq, !.s.seq = Add(@, 1),
            !.s.data = IF cut THEN SubSeq(@, 1, wnd) ELSE @,
            !.s.flags = IF cut THEN @ \ {"FIN"} ELSE @]

(* A segment for a listener: sonewconn() makes the socket on which it is   *)
(* processed; it is aborted unless the segment is a SYN.                   *)
ListenInput(x) ==
  IF Has(x, "RST") THEN Go(x, "drop")
  ELSE IF Has(x, "ACK") THEN Go(x, "dropwithreset")
  ELSE IF ~Has(x, "SYN") THEN Go(x, "drop")
  ELSE trimthenstep6([x EXCEPT !.t = tcp_rcvseqinit(tcp_sendseqinit(
         [tcp_newtcpcb EXCEPT !.iss = ISS[x.me], !.irs = x.s.seq,
                              !.snd_cwnd = MSS,     \* tcp_dooptions()
                              !.head = TRUE, !.acknow = TRUE,
                              !.t_state = SYN_RECEIVED]))], HIWAT)

(* The label findpcb when no connection matches: the listener, which the   *)
(* server closes when it has its connection, or nobody.                    *)
NoConnection(x) ==
  IF x.me \in plan.listening /\ x.t = NoTcb THEN ListenInput(x)
                                       ELSE Go(x, "dropwithreset")

findpcb(x) ==
  IF ~x.t.pcb THEN NoConnection(x)
  ELSE IF x.t.t_state = CLOSED THEN Go(x, "drop") ELSE x

(* tcp_dooptions(), tcp_mss(): every SYN has the option MSS. *)
Options(x) ==
  IF x.go = "" /\ Has(x, "SYN") THEN [x EXCEPT !.t.snd_cwnd = MSS] ELSE x

(* Header prediction: the two common cases of a segment in sequence. *)
Predicted(t, s) ==
  /\ t.t_state = ESTABLISHED /\ s.flags = {"ACK"} /\ s.seq = t.rcv_nxt
  /\ s.win > 0 /\ s.win = t.snd_wnd /\ t.snd_nxt = t.snd_max

PureAck(t, s) ==
  /\ s.data = <<>> /\ SEQ_GT(s.ack, t.snd_una) /\ SEQ_LEQ(s.ack, t.snd_max)
  /\ t.snd_cwnd >= t.snd_wnd

PureData(t, s) ==
  s.data # <<>> /\ s.ack = t.snd_una /\ t.segq = <<>> /\ Seg_Len(s) <= sbspace(t)

Timed(t, s) ==
  IF t.t_rtt /\ SEQ_GT(s.ack, t.t_rtseq) THEN tcp_xmit_timer(t) ELSE t

(* Mutant: any new acknowledgement stops the timer. *)
RestartRexmt_Stop(t, s) == [t EXCEPT !.rexmt = FALSE]

(* All is acknowledged: no retransmission; else it starts afresh. *)
RestartRexmt(t, s) ==
  [t EXCEPT !.rexmt = IF s.ack = t.snd_max THEN FALSE ELSE @ \/ ~t.persist]

Prediction(x) ==
  LET t == x.t
      s == x.s
      u == sbdrop(Timed(t, s), Diff(s.ack, t.snd_una)) IN
  IF x.go # "" \/ ~Predicted(t, s) THEN x
  ELSE IF PureAck(t, s)
  THEN [x EXCEPT !.t = [RestartRexmt(u, s) EXCEPT !.snd_una = s.ack],
                 !.go = IF u.snd # <<>> THEN "output" ELSE "return"]
  ELSE IF PureData(t, s)
  THEN [x EXCEPT !.t = sbappend([t EXCEPT !.rcv_nxt = Add(@, Seg_Len(s)),
                                          !.delack = TRUE], s.data),
                 !.go = "return"]
  ELSE x

(* The waiting accept() takes the socket out of the listener's queue. *)
soisconnected(t) ==
  [t EXCEPT !.connected = TRUE, !.head = FALSE, !.t_state = ESTABLISHED]

(* The SYN of the peer in SYN_SENT, with or without the ACK of ours. *)
Synchronize(t, s) ==
  LET ack == "ACK" \in s.flags
      u == tcp_rcvseqinit(
             [t EXCEPT !.snd_una = IF ack THEN s.ack ELSE @,
                       !.snd_nxt = IF ack /\ SEQ_LT(@, s.ack) THEN s.ack ELSE @,
                       !.rexmt = FALSE, !.irs = s.seq, !.acknow = TRUE])
      v == Present(soisconnected(u)).t
  IN  IF ~ack THEN [u EXCEPT !.t_state = SYN_RECEIVED]
      ELSE IF v.t_rtt THEN tcp_xmit_timer(v) ELSE v

SynSent(x) ==
  LET t == x.t
      s == x.s IN
  IF x.go # "" \/ t.t_state # SYN_SENT THEN x
  ELSE IF Has(x, "ACK") /\ (SEQ_LEQ(s.ack, t.iss) \/ SEQ_GT(s.ack, t.snd_max))
  THEN Go(x, "dropwithreset")
  ELSE IF Has(x, "RST")
  THEN Go(IF Has(x, "ACK") THEN tcp_drop(x, "refused") ELSE x, "drop")
  ELSE IF ~Has(x, "SYN") THEN Go(x, "drop")
  ELSE trimthenstep6([x EXCEPT !.t = Synchronize(t, s)], HIWAT)

(* Data before the window is cut off. *)
DropSyn(s) == [s EXCEPT !.flags = @ \ {"SYN"}, !.seq = Add(@, 1)]

FrontOf(x, todrop) ==
  IF todrop < Seg_Len(x.s) THEN [x EXCEPT !.s = FrontTrim(@, todrop)]
  ELSE IF Has(x, "FIN") /\ todrop = Seg_Len(x.s) + 1
  THEN [x EXCEPT !.t.acknow = TRUE,
                 !.s = [FrontTrim(@, Seg_Len(@)) EXCEPT !.flags = @ \ {"FIN"}]]
  ELSE IF todrop # 0 \/ ~Has(x, "ACK") THEN Go(x, "dropafterack") ELSE x

TrimFront(x) ==
  LET todrop == Diff(x.t.rcv_nxt, x.s.seq) IN
  IF x.go # "" \/ todrop <= 0 THEN x
  ELSE IF Has(x, "SYN") THEN FrontOf([x EXCEPT !.s = DropSyn(@)], todrop - 1)
  ELSE FrontOf(x, todrop)

(* Data for a process that is gone resets the connection; data behind the  *)
(* window is cut off, with the FIN.                                        *)
EndOf(x, wnd, todrop) ==
  LET t == x.t
      s == x.s
      cut == [x EXCEPT !.s.data = SubSeq(@, 1, Len(@) - todrop),
                       !.s.flags = @ \ {"FIN"}] IN
  IF todrop <= 0 THEN x
  ELSE IF todrop < Seg_Len(s) THEN cut
  ELSE IF Has(x, "SYN") /\ t.t_state = TIME_WAIT /\ SEQ_GT(s.seq, t.rcv_nxt)
  THEN NoConnection([x EXCEPT !.t = tcp_close(t)])
  ELSE IF wnd = 0 /\ s.seq = t.rcv_nxt THEN [cut EXCEPT !.t.acknow = TRUE]
  ELSE Go(x, "dropafterack")

TrimEnd(x) ==
  LET t == x.t
      wnd == Max({0, sbspace(t), Diff(t.rcv_adv, t.rcv_nxt)}) IN  \* rcv_wnd
  IF x.go # "" THEN x
  ELSE IF t.nofdref /\ t.t_state > CLOSE_WAIT /\ x.s.data # <<>>
  THEN Go([x EXCEPT !.t = tcp_close(t)], "dropwithreset")
  ELSE EndOf(x, wnd, Diff(Add(x.s.seq, Seg_Len(x.s)), Add(t.rcv_nxt, wnd)))

(* RST, SYN and missing ACK of a segment in the window. *)
ResetError(t) ==
  IF t.t_state = SYN_RECEIVED THEN "refused"
  ELSE IF t.t_state \in {ESTABLISHED, FIN_WAIT_1, FIN_WAIT_2, CLOSE_WAIT}
  THEN "reset" ELSE t.so_error

Controls(x) ==
  IF x.go # "" THEN x
  ELSE IF Has(x, "RST")
  THEN Go([x EXCEPT !.t = tcp_close([@ EXCEPT !.so_error = ResetError(x.t)])], "drop")
  ELSE IF Has(x, "SYN") THEN Go(tcp_drop(x, "reset"), "dropwithreset")
  ELSE IF ~Has(x, "ACK") THEN Go(x, "drop") ELSE x

(* The ACK of our SYN in SYN_RECEIVED. *)
Establish(x) ==
  LET t == x.t IN
  IF x.go # "" \/ t.t_state # SYN_RECEIVED THEN x
  ELSE IF SEQ_GT(t.snd_una, x.s.ack) \/ SEQ_GT(x.s.ack, t.snd_max)
  THEN Go(x, "dropwithreset")
  ELSE [x EXCEPT !.t = [Present(soisconnected(t)).t EXCEPT
                          !.snd_wl1 = Add(x.s.seq, -1)]]

(* Half the window in segments, at least two. *)
Half(t) == Max({2, (Min({t.snd_wnd, t.snd_cwnd}) \div 2) \div MSS}) * MSS

(* Fast retransmit at the threshold: one segment from the ACK on. *)
FastRexmt(x, onxt, n) ==
  LET y == tcp_output(x) IN
  [y EXCEPT !.t.snd_cwnd = x.t.snd_ssthresh + MSS * n,
            !.t.snd_nxt = IF SEQ_GT(onxt, @) THEN onxt ELSE @,
            !.go = "drop"]

DuplicateAck(x) ==
  LET t == x.t
      s == x.s
      n == t.t_dupacks + 1 IN
  IF s.data # <<>> \/ s.win # t.snd_wnd \/ ~t.rexmt \/ s.ack # t.snd_una
  THEN [x EXCEPT !.t.t_dupacks = 0, !.go = "step6"]
  ELSE IF n < tcprexmtthresh THEN [x EXCEPT !.t.t_dupacks = n, !.go = "step6"]
  ELSE IF n = tcprexmtthresh
  THEN FastRexmt([x EXCEPT !.t =
         [@ EXCEPT !.t_dupacks = n, !.snd_ssthresh = Half(t), !.rexmt = FALSE,
                   !.t_rtt = FALSE, !.snd_nxt = s.ack, !.snd_cwnd = MSS]],
         t.snd_nxt, n)
  ELSE [x EXCEPT !.t.t_dupacks = n, !.t.snd_cwnd = @ + MSS, !.go = "output"]

(* An acknowledgement of new data: the retransmission timer, the           *)
(* congestion window, the send buffer.                                     *)
OpenCwnd(t) ==
  LET incr == IF t.snd_cwnd > t.snd_ssthresh
              THEN (MSS * MSS) \div t.snd_cwnd + MSS \div 8 ELSE MSS
  IN  [t EXCEPT !.snd_cwnd = Min({@ + incr, TCP_MAXWIN})]

NewAck(t, s, n) ==
  [sbdrop(OpenCwnd(RestartRexmt(Timed(t, s), s)), n) EXCEPT
     !.snd_wnd = @ - n, !.snd_una = s.ack,
     !.snd_nxt = IF SEQ_LT(@, s.ack) THEN s.ack ELSE @]

(* Mutant: nothing bounds the wait for the peer's FIN. *)
FinAcked_NoTimer(x) ==
  CASE x.t.t_state = FIN_WAIT_1 -> [x EXCEPT !.t.t_state = FIN_WAIT_2]
    [] x.t.t_state = CLOSING ->
         [x EXCEPT !.t = [soisdisconnected(tcp_canceltimers(@)) EXCEPT
                            !.t_state = TIME_WAIT, !.msl2 = TRUE]]
    [] x.t.t_state = LAST_ACK -> Go([x EXCEPT !.t = tcp_close(@)], "drop")
    [] OTHER -> x

(* What the ACK of our FIN does. *)
FinAcked(x) ==
  CASE x.t.t_state = FIN_WAIT_1 ->
         [x EXCEPT !.t = [(IF @.cantrcv THEN soisdisconnected(@) ELSE @) EXCEPT
                            !.t_state = FIN_WAIT_2, !.msl2 = @ \/ x.t.cantrcv]]
    [] x.t.t_state = CLOSING ->
         [x EXCEPT !.t = [soisdisconnected(tcp_canceltimers(@)) EXCEPT
                            !.t_state = TIME_WAIT, !.msl2 = TRUE]]
    [] x.t.t_state = LAST_ACK -> Go([x EXCEPT !.t = tcp_close(@)], "drop")
    [] OTHER -> x

AcceptAck(x, acked) ==
  LET y == [x EXCEPT !.t = NewAck(@, x.s, Min({acked, Len(x.t.snd)})),
                     !.need = x.s.ack = x.t.snd_max, !.go = "step6"] IN
  IF x.t.t_state = TIME_WAIT THEN [y EXCEPT !.t.msl2 = TRUE, !.go = "dropafterack"]
  ELSE IF acked > Len(x.t.snd) THEN FinAcked(y) ELSE y

RetractCwnd(t) ==
  [t EXCEPT !.t_dupacks = 0,
            !.snd_cwnd = IF t.t_dupacks > tcprexmtthresh
                         THEN Min({@, t.snd_ssthresh}) ELSE @]

Acknowledge(x) ==
  IF x.go # "" THEN x
  ELSE IF SEQ_LEQ(x.s.ack, x.t.snd_una) THEN DuplicateAck(x)
  ELSE IF SEQ_GT(x.s.ack, x.t.snd_max)
  THEN [x EXCEPT !.t = RetractCwnd(@), !.go = "dropafterack"]
  ELSE AcceptAck([x EXCEPT !.t = RetractCwnd(@)], Diff(x.s.ack, x.t.snd_una))

(* The label step6: window update, data, FIN. *)
NewWindow(t, s) ==
  /\ "ACK" \in s.flags
  /\ \/ SEQ_LT(t.snd_wl1, s.seq)
     \/ /\ t.snd_wl1 = s.seq
        /\ \/ SEQ_LT(t.snd_wl2, s.ack)
           \/ t.snd_wl2 = s.ack /\ s.win > t.snd_wnd

UpdateWindow(x) ==
  IF x.go = "step6" /\ NewWindow(x.t, x.s)
  THEN [x EXCEPT !.need = TRUE,
                 !.t = [@ EXCEPT !.snd_wnd = x.s.win, !.snd_wl1 = x.s.seq,
                                 !.snd_wl2 = x.s.ack,
                                 !.max_sndwnd = Max({@, x.s.win})]]
  ELSE x

(* The peer's FIN has come into order. *)
ReceivedFin(t) ==
  LET u == IF TCPS_HAVERCVDFIN(t.t_state) THEN t
           ELSE [socantrcvmore(t) EXCEPT !.acknow = TRUE, !.rcv_nxt = Add(@, 1)]
  IN  CASE t.t_state \in {SYN_RECEIVED, ESTABLISHED} ->
             [u EXCEPT !.t_state = CLOSE_WAIT]
        [] t.t_state = FIN_WAIT_1 -> [u EXCEPT !.t_state = CLOSING]
        [] t.t_state = FIN_WAIT_2 ->
             [soisdisconnected(tcp_canceltimers(u)) EXCEPT
                !.t_state = TIME_WAIT, !.msl2 = TRUE]
        [] t.t_state = TIME_WAIT -> [u EXCEPT !.msl2 = TRUE]
        [] OTHER -> u

dodata(x) ==
  LET r == TCP_REASS(x.t, x.s) IN
  IF /\ x.go = "step6" /\ ~TCPS_HAVERCVDFIN(x.t.t_state)
     /\ x.s.data # <<>> \/ Has(x, "FIN")
  THEN [x EXCEPT !.t = IF r.fin THEN ReceivedFin(r.t) ELSE r.t]
  ELSE x

(* The end of tcp_input(): the labels dropafterack and dropwithreset, and  *)
(* the output that is due.                                                 *)
dropwithreset(x) ==
  IF Has(x, "RST") THEN x
  ELSE IF Has(x, "ACK") THEN tcp_respond(x, 0, x.s.ack, {"RST"})
  ELSE tcp_respond(x, Add(x.s.seq, Seg_Len(x.s) + (IF Has(x, "SYN") THEN 1 ELSE 0)),
                   0, {"RST", "ACK"})

Due(x) ==
  \/ x.go = "output"
  \/ x.go = "step6" /\ (x.need \/ x.t.acknow)
  \/ x.go = "dropafterack" /\ ~Has(x, "RST")

Finish(x) ==
  IF x.go = "dropwithreset" THEN dropwithreset(x)
  ELSE IF Due(x)
  THEN tcp_output([x EXCEPT !.t.acknow = @ \/ x.go = "dropafterack"])
  ELSE x

tcp_input(x) ==
  Finish(dodata(UpdateWindow(
    Acknowledge(Establish(Controls(TrimEnd(TrimFront(
      SynSent(Prediction(Options(findpcb(x)))))))))))) 

-----------------------------------------------------------------------------
(* tcp_usrreq() and tcp_timers()                                           *)

tcp_usrclosed(t) ==
  LET u == CASE t.t_state \in {CLOSED, LISTEN, SYN_SENT} -> tcp_close(t)
             [] t.t_state \in {SYN_RECEIVED, ESTABLISHED} ->
                  [t EXCEPT !.t_state = FIN_WAIT_1]
             [] t.t_state = CLOSE_WAIT -> [t EXCEPT !.t_state = LAST_ACK]
             [] OTHER -> t
  IN  IF u.pcb /\ u.t_state >= FIN_WAIT_2 THEN soisdisconnected(u) ELSE u

(* hard: SO_LINGER with a linger time of 0. *)
tcp_disconnect(x, hard) ==
  LET t == [x.t EXCEPT !.cantrcv = TRUE, !.cantsend = TRUE, !.rcv = <<>>]
  IN  IF x.t.t_state < ESTABLISHED THEN [x EXCEPT !.t = tcp_close(x.t)]
      ELSE IF hard THEN tcp_drop(x, "none")
      ELSE tcp_output([x EXCEPT !.t = tcp_usrclosed(t)])

(* The retransmission timer: back off and send again from snd_una, or give *)
(* up.                                                                     *)
RexmtTimeout(x) ==
  IF x.t.t_rxtshift = MAXRXTSHIFT
  THEN tcp_drop([x EXCEPT !.t.rexmt = FALSE], "timedout")
  ELSE tcp_output([x EXCEPT !.t =
         [@ EXCEPT !.t_rxtshift = @ + 1, !.snd_nxt = x.t.snd_una,
                   !.t_rtt = FALSE, !.snd_cwnd = MSS,
                   !.snd_ssthresh = Half(x.t), !.t_dupacks = 0]])

PersistTimeout(x) == Output([x EXCEPT !.t = tcp_setpersist(@)], TRUE, FALSE)

(* The keep-alive timer of a connection that is not yet established ends   *)
(* it; otherwise, with SO_KEEPALIVE, it makes the peer say something.      *)
KeepTimeout(x) ==
  IF x.t.t_state < ESTABLISHED THEN tcp_drop(x, "timedout")
  ELSE IF x.t.t_state <= CLOSE_WAIT
  THEN tcp_respond(x, x.t.rcv_nxt, Add(x.t.snd_una, -1), {"ACK"})
  ELSE x

tcp_fasttimo(x) == tcp_output([x EXCEPT !.t.delack = FALSE, !.t.acknow = TRUE])

-----------------------------------------------------------------------------
(* The steps                                                               *)

(* What end e has before a step.  What goes wrong counts as a fault, and   *)
(* so does a timer that does not wait until what is under way has come.    *)
X(e, fate) ==
  [me |-> e, t |-> tp[e], s |-> <<>>, out |-> <<>>, fate |-> fate,
   again |-> FALSE, need |-> FALSE, go |-> ""]

Fates == {"ok"} \cup (plan.faults \cap {"nombuf", "nocopy", "full"})
UnderWay == \E e \in Ends : net[e] # <<>>

(* The step ends with x; incoming is what is left for this end on the      *)
(* line, wrong is the fault in it, if any.                                 *)
Step(x, incoming, wrong) ==
  LET cost == Cardinality({x.fate, wrong} \ {"ok"}) IN
  /\ wrong \in plan.faults \cup {"ok"}
  /\ faults + cost <= plan.bound
  /\ faults' = faults + cost
  /\ tp' = [tp EXCEPT ![x.me] = x.t]
  /\ net' = [net EXCEPT ![x.me] = incoming, ![Other(x.me)] = @ \o x.out]
  /\ UNCHANGED plan

Early == IF UnderWay THEN "early" ELSE "ok"

Calls(e, c) == app' = [app EXCEPT ![e].calls = @ \cup {c}]

connect(e, fate) ==
  /\ tp[e] = tcp_newtcpcb
  /\ Step(tcp_output([X(e, fate) EXCEPT !.t =
            tcp_sendseqinit([@ EXCEPT !.t_state = SYN_SENT, !.iss = ISS[e]])]),
          net[e], "ok")
  /\ UNCHANGED app

(* sosend() of n bytes that fit: PRU_SEND. *)
Write(e, n, quiet, fate) ==
  LET t == tp[e] IN
  /\ t.connected /\ ~t.cantsend /\ t.so_error = "none" /\ ~t.nofdref
  /\ n <= HIWAT - Len(t.snd) /\ app[e].wrote + n <= plan.total[e]
  /\ app' = [app EXCEPT ![e].wrote = @ + n]
  /\ Step(Output([X(e, fate) EXCEPT !.t.snd =
                    @ \o [i \in 1 .. n |-> app[e].wrote + i]], FALSE, quiet),
          net[e], IF quiet THEN Early ELSE "ok")

(* soreceive() of n bytes that are there: PRU_RCVD. *)
Read(e, n, fate) ==
  LET t == tp[e]
      x == [X(e, fate) EXCEPT !.t.rcv = SubSeq(@, n + 1, Len(@))] IN
  /\ ~t.nofdref /\ n <= Len(t.rcv)
  /\ app' = [app EXCEPT ![e].got = @ \o SubSeq(t.rcv, 1, n)]
  /\ Step(IF t.pcb THEN tcp_output(x) ELSE x, net[e], "ok")

shutdown(e, fate) ==
  /\ "shutdown" \in plan.closing[e] /\ app[e].calls = {}
  /\ tp[e].connected /\ app[e].wrote = plan.total[e]
  /\ Calls(e, "shutdown")
  /\ Step(tcp_output([X(e, fate) EXCEPT !.t =
            tcp_usrclosed([@ EXCEPT !.cantsend = TRUE])]), net[e], "ok")

(* soclose(): PRU_DISCONNECT for a connected socket, then PRU_DETACH. *)
close(e, how, fate) ==
  LET x == X(e, fate)
      hard == how = "abort"
      y == IF tp[e].connected THEN tcp_disconnect(x, hard) ELSE x
      z == IF y.t.pcb THEN tcp_disconnect(y, hard) ELSE y
  IN  /\ how \in plan.closing[e] \cap {"close", "abort"}
      /\ app[e].calls \subseteq {"shutdown"}
      /\ tp[e] \notin {NoTcb, tcp_newtcpcb} /\ ~tp[e].head
      /\ Calls(e, how)
      /\ Step([z EXCEPT !.t.nofdref = TRUE], net[e], "ok")

(* The process ends without a word.  It is started again and answers what  *)
(* still comes ("crash"), or the machine is gone with it ("halt").         *)
crash(e, how) ==
  /\ how \in plan.closing[e] \cap {"crash", "halt"}
  /\ app[e].calls \cap {"crash", "halt"} = {}
  /\ Calls(e, how)
  /\ Step([X(e, "ok") EXCEPT !.t = [NoTcb EXCEPT !.nofdref = TRUE]], net[e], "ok")

(* A segment comes in, in order or before earlier ones; the line may keep  *)
(* a copy of it.                                                           *)
Deliver(e, i, keep, fate) ==
  LET x == X(e, fate) IN
  /\ keep => i = 1
  /\ Step(IF "halt" \in app[e].calls THEN x
          ELSE tcp_input([x EXCEPT !.s = [ti_flags |-> net[e][i].flags] @@ net[e][i]]),
          IF keep THEN net[e] ELSE RemoveAt(net[e], i),
          IF keep THEN "repeat" ELSE IF i > 1 THEN "reorder" ELSE "ok")
  /\ UNCHANGED app

Lose(e, i) ==
  /\ "lose" \in plan.faults /\ faults < plan.bound
  /\ net' = [net EXCEPT ![e] = RemoveAt(@, i)] /\ faults' = faults + 1
  /\ UNCHANGED <<plan, tp, app>>

Rexmt(e, fate) ==
  /\ tp[e].rexmt
  /\ Step(RexmtTimeout(X(e, fate)), net[e], Early)
  /\ UNCHANGED app

Persist(e, fate) ==
  /\ tp[e].persist
  /\ Step(PersistTimeout(X(e, fate)), net[e], Early)
  /\ UNCHANGED app

Keep(e, fate) ==
  /\ tp[e].pcb /\ tp[e].t_state > LISTEN
  /\ Step(KeepTimeout(X(e, fate)), net[e], "probe")
  /\ UNCHANGED app

Delack(e, fate) ==
  /\ tp[e].pcb /\ tp[e].delack
  /\ Step(tcp_fasttimo(X(e, fate)), net[e], "ok")
  /\ UNCHANGED app

(* 2MSL: nothing lives longer on the line; and an end in FIN_WAIT_2 is     *)
(* idle that long only when its peer has nothing to say.                   *)
TwoMSL(e) ==
  /\ tp[e].msl2 /\ ~UnderWay
  /\ Step([X(e, "ok") EXCEPT !.t = tcp_close(@)], net[e], "ok")
  /\ UNCHANGED app

Next ==
  \/ \E e \in Ends, fate \in Fates :
       \/ connect(e, fate)
       \/ \E n \in 1 .. HIWAT, quiet \in BOOLEAN : Write(e, n, quiet, fate)
       \/ \E n \in 1 .. HIWAT : Read(e, n, fate)
       \/ shutdown(e, fate)
       \/ \E how \in {"close", "abort"} : close(e, how, fate)
       \/ Rexmt(e, fate)
       \/ Persist(e, fate)
       \/ Keep(e, fate)
       \/ Delack(e, fate)
       \/ \E i \in DOMAIN net[e], keep \in BOOLEAN : Deliver(e, i, keep, fate)
  \/ \E e \in Ends, how \in {"crash", "halt"} : crash(e, how)
  \/ \E e \in Ends : TwoMSL(e)
  \/ \E e \in Ends : \E i \in DOMAIN net[e] : Lose(e, i)

Spec == Init /\ [][Next]_vars

(* The line delivers what it does not lose, the timers that are armed go   *)
(* off, and the programs read.  This is what weak fairness of Deliver,     *)
(* Delack, TwoMSL, Read, Rexmt and Persist says of the state.              *)
Fairness ==
  \A e \in Ends :
    /\ []<>(net[e] = <<>>) \/ []<><<net[e] # <<>> /\ net'[e] = Tail(net[e])>>_vars
    /\ []<>~(tp[e].pcb /\ tp[e].delack)
    /\ []<>~(tp[e].msl2 /\ ~UnderWay)
    /\ []<>(tp[e].rcv = <<>> \/ tp[e].nofdref)
    /\ \/ []<>~(tp[e].rexmt /\ ~UnderWay)
       \/ []<><<tp'[e].t_rxtshift > tp[e].t_rxtshift \/ ~tp'[e].pcb>>_vars
    /\ \/ []<>~(tp[e].persist /\ ~UnderWay)
       \/ []<><<tp[e].persist /\ net'[Other(e)] # net[Other(e)]>>_vars

FairSpec == Spec /\ Fairness

-----------------------------------------------------------------------------
(* Properties                                                              *)

(* Types.  snd_wnd stays a natural number: `tp->snd_wnd -= acked' never    *)
(* takes it below zero, where the unsigned field would become huge.        *)
TypeOK ==
  /\ plan \in Plans
  /\ tp \in [Ends -> Tcpcb]
  /\ net \in [Ends -> Seq(Segment)]
  /\ app \in [Ends -> [wrote : Nat, got : Bytes,
                       calls : SUBSET {"shutdown", "close", "abort", "crash", "halt"}]]
  /\ faults \in 0 .. plan.bound

(* What a read that finds no data reports. *)
Status(e) ==
  LET t == tp[e] IN
  IF t.so_error # "none" \/ t.nofdref THEN "broken"
  ELSE IF t.cantrcv /\ t.rcv = <<>> THEN "eof" ELSE "open"

Promise == INSTANCE ByteStream WITH
  wrote  <- [e \in Ends |-> app[e].wrote],
  got    <- [e \in Ends |-> app[e].got],
  shut   <- {e \in Ends : app[e].calls # {}},
  status <- [e \in Ends |-> Status(e)]

(* Whatever the line does, each program reads the bytes the other wrote,   *)
(* in order, none missing, none twice, and the end of the stream only      *)
(* after all of them.                                                      *)
ImplementsByteStream == Promise!Spec

(* Both ends are on the same connection: neither has lost its control      *)
(* block, and they agree on the initial sequence numbers.                  *)
Paired ==
  \A e \in Ends : tp[e].pcb /\ TCPS_HAVERCVDSYN(tp[e].t_state)
                  /\ tp[e].irs = tp[Other(e)].iss

(* A byte leaves the send buffer only when the other TCP has it, and no    *)
(* byte goes out past what the other has advertised, but for the one of a  *)
(* window probe and the FIN: in sequence space, snd_una <= rcv_nxt and     *)
(* snd_max <= rcv_adv, whatever was lost, repeated or reordered; and the   *)
(* unsigned snd_wnd does not go below zero (TypeOK).                       *)
InWindow ==
  TypeOK /\ (Paired => \A e \in Ends :
    /\ SEQ_LEQ(tp[e].snd_una, tp[Other(e)].rcv_nxt)
    /\ SEQ_LEQ(Add(tp[e].snd_max, IF tp[e].sentfin THEN -1 ELSE 0),
               Add(tp[Other(e)].rcv_adv, IF tp[e].persist THEN 1 ELSE 0)))

(* "retransmit and persist are mutually exclusive": both are never armed   *)
(* (tcp_setpersist() panics), and while anything is unsent or              *)
(* unacknowledged one of them is, so that a lost segment or a lost window  *)
(* update cannot leave both ends waiting for each other.                   *)
NoSilentStall ==
  \A e \in Ends :
    LET t == tp[e] IN
    IF t.pcb /\ (t.snd # <<>> \/ t.snd_una # t.snd_max)
    THEN t.rexmt # t.persist ELSE ~(t.rexmt /\ t.persist)

(* An end whose program has gone, or has been told of an error. *)
Ended(e) ==
  app[e].calls \cap {"close", "abort", "crash", "halt"} # {} \/ tp[e].so_error # "none"

(* However segments are lost, repeated and reordered, what a program has   *)
(* written is read by the other in the end, unless one of them goes or is  *)
(* told of an error.  And an end whose program has called close() is rid   *)
(* of its control block in the end, or else it probes: data is left behind *)
(* a window that the peer keeps shut, or has left shut when its machine    *)
(* went, and TCPT_PERSIST never gives up.  close() after shutdown() is not *)
(* spoken of: tcp_input() arms 2MSL on the way into FIN_WAIT_2 only when   *)
(* the socket cannot receive any more, so an end that was shut down for    *)
(* sending alone may stay there for ever.                                  *)
Settles ==
  \A e \in Ends :
    /\ []<>(app[e].wrote = Len(app[Other(e)].got) \/ \E d \in Ends : Ended(d))
    /\ []<>("close" \in app[e].calls /\ "shutdown" \notin app[e].calls
              => ~tp[e].pcb \/ tp[e].persist)

=============================================================================
