------------------------------- MODULE Sosend -------------------------------
(***************************************************************************)
(* The sending side of a socket: sosend() of kern/uipc_socket.c with the   *)
(* send buffer of uipc_socket2.c, for a stream (TCP keeps what it is given *)
(* in so_snd until it is acknowledged) and for datagrams (UDP and raw IP   *)
(* pass them on).  sosend() unlocks so_snd before it sleeps, so that       *)
(* SB_LOCK is never seen by another thread and is left out.  A byte is the *)
(* call it comes from and its position there.  Control information, urgent *)
(* data and records (M_EOR) are left out.                                  *)
(***************************************************************************)
EXTENDS Integers, FiniteSets, SequencesExt

CONSTANTS
  Writers,                      \* threads that call send() on the socket
  Sizes,                        \* the lengths it is called with
  Sndbufs, Lowats,              \* what SO_SNDBUF and SO_SNDLOWAT may ask for
  MSIZE, MHLEN, MLEN, MCLBYTES, \* an mbuf, its room with and without header, a cluster
  max_hdr,
  MaxCalls, MaxOpts             \* bounds: calls of send(), options set and errors

VARIABLES
  snd,     \* so_snd: mb, a sequence of [data, ext, off], and its counters
  so,      \* atomic: PR_ATOMIC; SS_NBIO, SS_CANTSENDMORE, so_error
  wr,      \* the writers
  stream,  \* history: the bytes that TCP was given by PRU_SEND
  dgrams,  \* history: the datagrams that the protocol was given
  acked,   \* history: bytes of the stream that have been acknowledged
  res,     \* what the calls have returned, with the size asked for
  opts     \* options set and errors so far

vars == <<snd, so, wr, stream, dgrams, acked, res, opts>>

MINCLSIZE == MHLEN + MLEN

Init ==
  /\ \E h \in Sndbufs :
       snd = [mb |-> <<>>, cc |-> 0, mbcnt |-> 0, hiwat |-> h, mbmax |-> 2 * h,
              lowat |-> Min({MCLBYTES, h}), wait |-> FALSE]
  /\ so \in [atomic : BOOLEAN, nbio : BOOLEAN, cantsend : {FALSE}, error : {FALSE}]
  /\ wr = [w \in Writers |-> [pc |-> "user", call |-> 0, size |-> 0, data |-> <<>>,
                              awake |-> FALSE]]
  /\ stream = <<>> /\ dgrams = <<>> /\ acked = 0 /\ res = <<>> /\ opts = 0
-----------------------------------------------------------------------------
Cost(m) == MSIZE + (IF m.ext THEN MCLBYTES ELSE 0)

sbspace(b) == Min({b.hiwat - b.cc, b.mbmax - b.mbcnt})

(* sbappend() of one mbuf, with sbcompress() *)
sbappend(b, m) ==
  LET n == Last(b.mb) IN
  IF m.data = <<>> THEN b
  ELSE IF b.mb # <<>> /\ ~n.ext /\ n.off + Len(n.data) + Len(m.data) < MLEN
  THEN [b EXCEPT !.mb[Len(b.mb)].data = @ \o m.data, !.cc = @ + Len(m.data)]
  ELSE [b EXCEPT !.mb = Append(@, m), !.cc = @ + Len(m.data), !.mbcnt = @ + Cost(m)]

sbdrop(b, n) ==
  FoldLeft(LAMBDA acc, m :
             LET left == n - (b.cc - acc.cc) IN
             IF left >= Len(m.data)
             THEN [acc EXCEPT !.mb = Tail(@), !.cc = @ - Len(m.data), !.mbcnt = @ - Cost(m)]
             ELSE [acc EXCEPT !.mb[1].data = SubSeq(@, left + 1, Len(@)),
                              !.mb[1].off = @ + left, !.cc = @ - left],
           b, b.mb)

(* sowwakeup(), for the threads ws and the buffer b *)
Woken(b, ws) ==
  [w \in Writers |-> IF b.wait /\ ws[w].pc = "wait" THEN [ws[w] EXCEPT !.awake = TRUE] ELSE ws[w]]
NoWait(b) == [b EXCEPT !.wait = FALSE]
-----------------------------------------------------------------------------
(* A sosend() under way, k: what is left of the user's data, the space as  *)
(* sosend() counts it, the packets given to the protocol and the buffer.   *)
(* Where: "top" of the outer loop, "fill" the inner one, "wait" or "done". *)

(* One mbuf of a packet; cl: whether MCLGET() gets a cluster. *)
Fill(a, cl) ==
  LET first == a.mbufs = <<>>
      resid == Len(a.data)
      ext == cl /\ resid >= MINCLSIZE /\ a.space >= MCLBYTES
      room == IF so.atomic /\ first THEN MCLBYTES - max_hdr ELSE MCLBYTES
      len == IF ext THEN Min({room, resid})
             ELSE Min({IF first THEN MHLEN ELSE MLEN, resid, a.space})
      m == [data |-> SubSeq(a.data, 1, len), ext |-> ext, off |-> MLEN - MHLEN]
  IN  [a EXCEPT !.mbufs = Append(@, m), !.data = SubSeq(@, len + 1, resid),
                !.space = @ - (IF ext THEN MCLBYTES ELSE len)]

(* A packet of one mbuf, or for datagrams of all that fits. *)
Packet(k, cl) ==
  LET a[n \in Nat] ==
        IF n = 0 THEN Fill([mbufs |-> <<>>, data |-> k.data, space |-> k.space], cl)
        ELSE LET b == a[n - 1] IN
             IF b.data = <<>> \/ b.space <= 0 \/ ~so.atomic THEN b ELSE Fill(b, cl)
  IN  a[Len(k.data)]

Bytes(mbufs) == FlattenSeq([i \in DOMAIN mbufs |-> mbufs[i].data])

(* PRU_SEND.  TCP keeps the data, even when tcp_output() then fails; a     *)
(* datagram that is refused is gone.                                       *)
PruSend(k, mbufs, ok) ==
  IF so.atomic
  THEN [k EXCEPT !.dgrams = IF ok THEN Append(@, Bytes(mbufs)) ELSE @]
  ELSE [k EXCEPT !.snd = FoldLeft(sbappend, @, mbufs), !.stream = @ \o Bytes(mbufs)]

Fails(k, e) == [k EXCEPT !.at = "done", !.error = e]

(* Mutant: a stream waits for room for all of its data. *)
MustWait_Resid(k, space) == space < Len(k.data)

MustWait(k, space) ==
  space < Len(k.data) /\ (so.atomic \/ space < k.snd.lowat)

Top(k) ==
  LET space == sbspace(k.snd) IN
  IF so.cantsend THEN Fails(k, "EPIPE")
  ELSE IF so.error THEN Fails(k, "so_error")
  ELSE IF so.atomic /\ Len(k.data) > k.snd.hiwat THEN Fails(k, "EMSGSIZE")
  ELSE IF ~MustWait(k, space) THEN [k EXCEPT !.at = "fill", !.space = space]
  ELSE IF so.nbio THEN Fails(k, "EWOULDBLOCK")
  ELSE [k EXCEPT !.at = "wait", !.snd.wait = TRUE]

(* How the rest of a call goes is chosen with it: whether there are        *)
(* clusters, and the packet, if any, at which the protocol fails.          *)
Inner(k, cl, bad) ==
  LET a == Packet(k, cl)
      s == PruSend([k EXCEPT !.data = a.data, !.space = a.space, !.n = @ + 1],
                   a.mbufs, k.n + 1 # bad)
  IN  IF s.n = bad THEN Fails(s, "ENOBUFS")
      ELSE [s EXCEPT !.at = IF s.data = <<>> THEN "done"
                            ELSE IF s.space > 0 THEN "fill" ELSE "top"]

Loop(k0, cl, bad) ==
  LET run[n \in Nat] ==
        IF n = 0 THEN k0
        ELSE LET k == run[n - 1] IN
             CASE k.at = "top" -> Top(k) [] k.at = "fill" -> Inner(k, cl, bad) [] OTHER -> k
  IN  run[2 * Len(k0.data) + 2]

(* write() and sendit(): a call that timed out or would block has          *)
(* succeeded if it has sent something.                                     *)
Result(x, left, e) ==
  [call |-> x.call, size |-> x.size, error |-> e,
   n |-> IF e = "none" \/ (e = "EWOULDBLOCK" /\ left # x.size) THEN x.size - left ELSE -1]

(* The thread w is in sosend(), from its start or from where it woke, for  *)
(* the call x.                                                             *)
sosend(w, x, cl, bad) ==
  LET k == Loop([at |-> "top", data |-> x.data, space |-> 0, snd |-> snd, stream |-> stream,
                 dgrams |-> dgrams, n |-> 0, error |-> "none"], cl, bad)
  IN  /\ snd' = k.snd /\ stream' = k.stream /\ dgrams' = k.dgrams
      /\ IF k.at = "wait"
         THEN /\ wr' = [wr EXCEPT ![w] = [x EXCEPT !.pc = "wait", !.data = k.data]]
              /\ UNCHANGED res
         ELSE /\ wr' = [wr EXCEPT ![w].pc = "user", ![w].data = <<>>, ![w].awake = FALSE]
              /\ res' = Append(res, Result(x, Len(k.data), k.error))
      /\ UNCHANGED <<so, acked, opts>>

Calling == {w \in Writers : wr[w].pc # "user"}

Send(w, n, cl, bad) ==
  LET call == Len(res) + Cardinality(Calling) + 1 IN
  /\ wr[w].pc = "user" /\ call <= MaxCalls
  /\ sosend(w, [pc |-> "user", call |-> call, size |-> n, awake |-> FALSE,
                data |-> [i \in 1 .. n |-> <<call, i>>]], cl, bad)

Resume(w, cl, bad) ==
  /\ wr[w].pc = "wait" /\ wr[w].awake
  /\ sosend(w, [wr[w] EXCEPT !.awake = FALSE], cl, bad)

(* SO_SNDTIMEO: tsleep() returns EWOULDBLOCK. *)
Timeout(w) ==
  /\ wr[w].pc = "wait" /\ ~wr[w].awake
  /\ wr' = [wr EXCEPT ![w].pc = "user", ![w].data = <<>>]
  /\ res' = Append(res, Result(wr[w], Len(wr[w].data), "EWOULDBLOCK"))
  /\ UNCHANGED <<snd, so, stream, dgrams, acked, opts>>

(* tsleep() may return for another channel of the same bucket. *)
Spurious(w) ==
  /\ wr[w].pc = "wait" /\ ~wr[w].awake
  /\ wr' = [wr EXCEPT ![w].awake = TRUE]
  /\ UNCHANGED <<snd, so, stream, dgrams, acked, res, opts>>
-----------------------------------------------------------------------------
(* An acknowledgement of n bytes: sbdrop() and sowwakeup() of tcp_input(). *)
Ack(n) ==
  /\ n \in 1 .. snd.cc
  /\ snd' = NoWait(sbdrop(snd, n)) /\ wr' = Woken(snd, wr)
  /\ acked' = acked + n
  /\ UNCHANGED <<so, stream, dgrams, res, opts>>

(* socantsendmore(), for shutdown(1) *)
socantsendmore ==
  /\ ~so.cantsend
  /\ so' = [so EXCEPT !.cantsend = TRUE]
  /\ snd' = NoWait(snd) /\ wr' = Woken(snd, wr)
  /\ UNCHANGED <<stream, dgrams, acked, res, opts>>

(* An error: udp_notify() marks the socket, tcp_drop() also ends it. *)
Notify ==
  /\ ~so.error /\ opts < MaxOpts /\ opts' = opts + 1
  /\ so' = [so EXCEPT !.error = TRUE, !.cantsend = @ \/ ~so.atomic]
  /\ snd' = NoWait(snd) /\ wr' = Woken(snd, wr)
  /\ UNCHANGED <<stream, dgrams, acked, res>>

(* SO_ERROR: sogetopt() takes the error away; sosend() leaves it. *)
TakeError ==
  /\ so.error
  /\ so' = [so EXCEPT !.error = FALSE]
  /\ UNCHANGED <<snd, wr, stream, dgrams, acked, res, opts>>

(* sosetopt() with SO_SNDBUF and SO_SNDLOWAT: nobody is woken. *)
sosetopt(h, l) ==
  /\ opts < MaxOpts /\ opts' = opts + 1
  /\ snd' \in {[snd EXCEPT !.hiwat = h, !.mbmax = 2 * h, !.lowat = Min({@, h})],
               [snd EXCEPT !.lowat = l]}
  /\ UNCHANGED <<so, wr, stream, dgrams, acked, res>>

Next ==
  \/ \E w \in Writers, cl \in BOOLEAN, bad \in 0 .. 2 :
       Resume(w, cl, bad) \/ \E n \in Sizes : Send(w, n, cl, bad)
  \/ \E w \in Writers : Timeout(w) \/ Spurious(w)
  \/ \E n \in 1 .. snd.cc : Ack(n)
  \/ socantsendmore \/ Notify \/ TakeError
  \/ \E h \in Sndbufs, l \in Lowats : sosetopt(h, l)

Spec == Init /\ [][Next]_vars
-----------------------------------------------------------------------------
Of(call) ==
  SelectSeq(IF so.atomic THEN FlattenSeq(dgrams) ELSE stream, LAMBDA x : x[1] = call)

(* The datagrams that sosend() has made of a call. *)
Pieces(call) == SelectSeq(dgrams, LAMBDA d : d # <<>> /\ d[1][1] = call)

(* What a send reports is what happened to its bytes.  A count is that of  *)
(* the bytes the protocol was given, in order, and a short one comes only  *)
(* from a timeout or a socket that does not wait; EWOULDBLOCK and EMSGSIZE *)
(* mean that none was given.  TCP's buffer holds what is not acknowledged, *)
(* and not more than SO_SNDBUF allowed when it was given.  A datagram goes *)
(* whole, unless it leaves no room for max_hdr in the buffer's limit (see  *)
(* DatagramsGoWhole).  And a thread that sleeps for room has left its mark *)
(* and has data before it whose acknowledgement will wake it: nobody waits *)
(* on an empty buffer (the wait of sosend()).                              *)
SendsExact ==
  /\ \A i \in DOMAIN res :
       LET r == res[i] IN
       /\ r.n >= 0 => Of(r.call) = [j \in 1 .. r.n |-> <<r.call, j>>]
       /\ r.n \in 0 .. r.size - 1 => r.error = "EWOULDBLOCK"
       /\ r.n = -1 /\ r.error \in {"EWOULDBLOCK", "EMSGSIZE"} => Of(r.call) = <<>>
       /\ so.atomic /\ r.n > 0 /\ (\A h \in Sndbufs : r.size + max_hdr <= h)
            => Len(Pieces(r.call)) = 1
  /\ ~so.atomic =>
       /\ Bytes(snd.mb) = SubSeq(stream, acked + 1, Len(stream))
       /\ snd.cc = Len(Bytes(snd.mb))
       /\ \E h \in Sndbufs : snd.cc <= h
  /\ \A w \in Writers : wr[w].pc = "wait" /\ ~wr[w].awake =>
       snd.wait /\ snd.cc > 0 /\ ~so.cantsend /\ ~so.error

(* udp_sendspace is "really max datagram size": what sosend() takes as a   *)
(* message goes as one datagram.                                           *)
DatagramsGoWhole ==
  so.atomic => \A i \in DOMAIN res : res[i].n > 0 => Len(Pieces(res[i].call)) = 1
=============================================================================
