------------------------------- MODULE Sockbuf -------------------------------
(***************************************************************************)
(* The receive buffer of a stream socket: sblock(), sbwait(), sowakeup(),  *)
(* sbappend() and sbdrop() of kern/uipc_socket2.c and sys/socketvar.h, the *)
(* readers in soreceive() and sorflush() of kern/uipc_socket.c, and what   *)
(* TCP does to the buffer and to the window it advertises.  A byte is its  *)
(* position in the stream.  Urgent data, MSG_PEEK and records (M_EOR) are  *)
(* left out.                                                               *)
(***************************************************************************)
EXTENDS Integers, Sequences, Sums

CONSTANTS
  Readers,      \* threads that call recv() or shutdown() on the socket
  Calls,        \* "none", "waitall", "dontwait": the flags; "flush": shutdown
  Sizes,        \* the lengths recv() is called with
  Segments,     \* the lengths of the segments of the peer
  Clusters,     \* whether a segment lies in a cluster (M_EXT) or in an mbuf
  HIWAT,        \* sb_hiwat after sbreserve()
  MSIZE, MLEN, MCLBYTES,   \* cost and room of an mbuf, cost of a cluster
  Timed,        \* whether SO_RCVTIMEO is set
  MaxBytes      \* bound: bytes of the stream

ASSUME SockbufAssumption ==
  /\ {HIWAT, MSIZE, MLEN, MCLBYTES, MaxBytes} \subseteq Nat \ {0}
  /\ Sizes \subseteq Nat \ {0} /\ Segments \subseteq Nat \ {0}
  /\ Clusters \subseteq BOOLEAN /\ Timed \in BOOLEAN
  /\ Calls # {} /\ Calls \subseteq {"none", "waitall", "dontwait", "flush"}

VARIABLES
  sb,        \* so_rcv: see SockBuf
  rd,        \* the readers: see Reader
  so,        \* what it reads of the socket: see Socket
  rcvd,      \* bytes of the stream that have arrived
  adv        \* bytes the peer may still send: the advertised window

vars == <<sb, rd, so, rcvd, adv>>

Mbuf == [data : Seq(1 .. MaxBytes), ext : BOOLEAN, off : Nat]

SockBuf == [mb : Seq(Mbuf), cc : Nat, mbcnt : Nat, hiwat : Nat, mbmax : Nat,
            lock : BOOLEAN, want : BOOLEAN, wait : BOOLEAN]

(* so_error is set, SS_CANTRCVMORE; read (history) is what the calls have  *)
(* copied out to their threads, in that order.                             *)
Socket == [error : BOOLEAN, cantrcv : BOOLEAN, read : Seq(1 .. MaxBytes)]

(* sbreserve() *)
sbreserve == [mb |-> <<>>, cc |-> 0, mbcnt |-> 0, hiwat |-> HIWAT,
              mbmax |-> 2 * HIWAT, lock |-> FALSE, want |-> FALSE,
              wait |-> FALSE]

(* A thread is in user code, asleep for SB_LOCK in sb_lock(), asleep in    *)
(* sbwait() without the lock, or asleep in the MSG_WAITALL loop with it.   *)
Reader == [pc : {"user", "lock", "wait", "all"}, call : Calls, resid : Nat,
           got : Seq(1 .. MaxBytes), awake : BOOLEAN]

Init ==
  /\ sb = sbreserve
  /\ rd = [r \in Readers |-> [pc |-> "user", call |-> CHOOSE c \in Calls : TRUE,
                              resid |-> 0, got |-> <<>>, awake |-> FALSE]]
  /\ so = [error |-> FALSE, cantrcv |-> FALSE, read |-> <<>>]
  /\ rcvd = 0
  /\ adv = HIWAT

-----------------------------------------------------------------------------
(* Mbuf chains and their accounting.                                       *)

Cost(m) == MSIZE + (IF m.ext THEN MCLBYTES ELSE 0)

imin(a, b) == IF a < b THEN a ELSE b

sbspace(b) == imin(b.hiwat - b.cc, b.mbmax - b.mbcnt)

(* Mutant: bytes copied into the last mbuf are not counted. *)
sbcompress_NoCc(b, m) ==
  LET n == b.mb[Len(b.mb)] IN
  IF b.mb # <<>> /\ ~n.ext /\ n.off + Len(n.data) + Len(m.data) < MLEN
  THEN [b EXCEPT !.mb[Len(b.mb)].data = @ \o m.data]
  ELSE [b EXCEPT !.mb = Append(@, m), !.cc = @ + Len(m.data),
                 !.mbcnt = @ + Cost(m)]

(* sbappend() and sbcompress(): copy the data into the last mbuf when it   *)
(* has the room, else link the mbuf and sballoc().                         *)
sbcompress(b, m) ==
  LET n == b.mb[Len(b.mb)] IN
  IF b.mb # <<>> /\ ~n.ext /\ n.off + Len(n.data) + Len(m.data) < MLEN
  THEN [b EXCEPT !.mb[Len(b.mb)].data = @ \o m.data, !.cc = @ + Len(m.data)]
  ELSE [b EXCEPT !.mb = Append(@, m), !.cc = @ + Len(m.data),
                 !.mbcnt = @ + Cost(m)]

(* The bytes of the chain, and of its first i mbufs their number and what  *)
(* they were charged for.                                                  *)
Bytes(b) == Join([i \in 1 .. Len(b.mb) |-> b.mb[i].data], Len(b.mb))

Filled(b, i) == Total([j \in 1 .. Len(b.mb) |-> Len(b.mb[j].data)], i)

Charged(b, i) == Total([j \in 1 .. Len(b.mb) |-> Cost(b.mb[j])], i)

(* The mbufs of b that a read of n bytes empties. *)
Emptied(b, n) ==
  CHOOSE k \in 0 .. Len(b.mb) :
    Filled(b, k) <= n /\ (k < Len(b.mb) => n < Filled(b, k + 1))

(* Mutant: an mbuf read in part is freed like the ones before it. *)
Taken_Whole(b, n) ==
  LET k == Emptied(b, n)
      j == IF n = Filled(b, k) THEN k ELSE k + 1
  IN  [b EXCEPT !.mb = SubSeq(@, j + 1, Len(@)), !.cc = @ - Filled(b, j),
                !.mbcnt = @ - Charged(b, j)]

(* The copy loop of soreceive() for n bytes: whole mbufs are freed with    *)
(* sbfree(), the last one is trimmed.                                      *)
Taken(b, n) ==
  LET k    == Emptied(b, n)
      len  == n - Filled(b, k)
      rest == SubSeq(b.mb, k + 1, Len(b.mb))
  IN  [b EXCEPT !.mb = IF len = 0 THEN rest
                       ELSE [rest EXCEPT ![1].data = SubSeq(@, len + 1, Len(@)),
                                         ![1].off = @ + len],
                !.cc = @ - n, !.mbcnt = @ - Charged(b, k)]

-----------------------------------------------------------------------------
(* The functions below take and return the kernel's state k.               *)
Kernel == [sb |-> sb, rd |-> rd, so |-> so]
Becomes(k) == sb' = k.sb /\ rd' = k.rd /\ so' = k.so

Wakes(k, pcs) ==
  [r \in Readers |-> IF k.rd[r].pc \in pcs THEN [k.rd[r] EXCEPT !.awake = TRUE]
                                           ELSE k.rd[r]]

(* Mutant: the threads in sb_lock() are not woken. *)
sbunlock_NoWakeup(k) == [k EXCEPT !.sb.lock = FALSE, !.sb.want = FALSE]

sbunlock(k) ==
  LET k1 == [k EXCEPT !.sb.lock = FALSE] IN
  IF k.sb.want THEN [k1 EXCEPT !.sb.want = FALSE, !.rd = Wakes(k, {"lock"})]
               ELSE k1

sowakeup(k) ==
  IF k.sb.wait THEN [k EXCEPT !.sb.wait = FALSE, !.rd = Wakes(k, {"wait", "all"})]
               ELSE k

(* Mutant: a reader sleeps without a mark for sowakeup(). *)
sbwait_NoMark(k, r, pc) ==
  [k EXCEPT !.rd[r].pc = pc, !.rd[r].awake = FALSE]

sbwait(k, r, pc) ==
  [k EXCEPT !.sb.wait = TRUE, !.rd[r].pc = pc, !.rd[r].awake = FALSE]

socantrcvmore(k) == sowakeup([k EXCEPT !.so.cantrcv = TRUE])

(* The label release of soreceive(): unlock, whoever holds the lock.       *)
Return(k, r) ==
  [sbunlock(k) EXCEPT !.rd[r].pc = "user", !.rd[r].awake = FALSE]

(* Mutant: the lock is dropped for the wait inside a MSG_WAITALL read. *)
Copy_Unlocks(k, r) ==
  LET n  == imin(k.rd[r].resid, k.sb.cc)
      k1 == [k EXCEPT !.sb = Taken(@, n), !.rd[r].resid = @ - n,
                      !.rd[r].got = @ \o SubSeq(Bytes(k.sb), 1, n),
                      !.so.read = @ \o SubSeq(Bytes(k.sb), 1, n)]
  IN  IF /\ k1.rd[r].call = "waitall" /\ k1.rd[r].resid > 0
         /\ ~k1.so.error /\ ~k1.so.cantrcv
      THEN sbwait(sbunlock(k1), r, "all") ELSE Return(k1, r)

(* From the label dontblock: copy what there is; with MSG_WAITALL sleep    *)
(* for the rest and keep the lock.                                         *)
Copy(k, r) ==
  LET n  == imin(k.rd[r].resid, k.sb.cc)
      k1 == [k EXCEPT !.sb = Taken(@, n), !.rd[r].resid = @ - n,
                      !.rd[r].got = @ \o SubSeq(Bytes(k.sb), 1, n),
                      !.so.read = @ \o SubSeq(Bytes(k.sb), 1, n)]
  IN  IF /\ k1.rd[r].call = "waitall" /\ k1.rd[r].resid > 0
         /\ ~k1.so.error /\ ~k1.so.cantrcv
      THEN sbwait(k1, r, "all") ELSE Return(k1, r)

(* The test before the first copy; sb_lowat is 1. *)
MustWait(k, r) ==
  \/ k.sb.mb = <<>>
  \/ /\ k.rd[r].call # "dontwait" /\ k.sb.cc < k.rd[r].resid
     /\ k.rd[r].call = "waitall" /\ k.rd[r].resid <= k.sb.hiwat

soreceive(k, r) ==
  IF ~MustWait(k, r) THEN Copy(k, r)
  ELSE IF k.so.error
  THEN IF k.sb.mb # <<>> THEN Copy(k, r)
       ELSE Return([k EXCEPT !.so.error = FALSE], r)
  ELSE IF k.so.cantrcv
  THEN IF k.sb.mb # <<>> THEN Copy(k, r) ELSE Return(k, r)
  ELSE IF k.rd[r].call = "dontwait" THEN Return(k, r)        \* EWOULDBLOCK
  ELSE sbwait(sbunlock(k), r, "wait")

(* sorflush(): the buffer is zeroed, its marks and its limits included.    *)
sorflush(k, r) ==
  LET k1 == Return(socantrcvmore(k), r)
  IN  [k1 EXCEPT !.sb = [sbreserve EXCEPT !.hiwat = 0, !.mbmax = 0]]

Locked(k, r) ==
  IF k.rd[r].call = "flush" THEN sorflush(k, r) ELSE soreceive(k, r)

(* sblock(): the macro yields 0 on every path, so a MSG_DONTWAIT call that *)
(* finds the buffer locked goes on without the lock.                       *)
sblock(k, r) ==
  IF ~k.sb.lock THEN Locked([k EXCEPT !.sb.lock = TRUE], r)
  ELSE IF k.rd[r].call = "dontwait" THEN Locked(k, r)
  ELSE [k EXCEPT !.sb.want = TRUE, !.rd[r].pc = "lock", !.rd[r].awake = FALSE]

-----------------------------------------------------------------------------
(* recv() and shutdown() *)
Enter(r, call, n) ==
  /\ rd[r].pc = "user"
  /\ Becomes(sblock([Kernel EXCEPT !.rd[r] =
       [pc |-> "user", call |-> call, resid |-> n, got |-> <<>>,
        awake |-> FALSE]], r))
  /\ UNCHANGED <<rcvd, adv>>

(* A woken thread goes on where it slept.  A wakeup of another channel of  *)
(* the same bucket has the same effect: see Spurious.                      *)
Resume(r) ==
  /\ rd[r].awake
  /\ Becomes(
       IF rd[r].pc # "all" THEN sblock(Kernel, r)
       ELSE IF sb.mb # <<>> THEN Copy(Kernel, r)
       ELSE IF so.error \/ so.cantrcv THEN Return(Kernel, r)
       ELSE sbwait(Kernel, r, "all"))
  /\ UNCHANGED <<rcvd, adv>>

Spurious(r) ==
  /\ rd[r].pc # "user" /\ ~rd[r].awake
  /\ rd' = [rd EXCEPT ![r].awake = TRUE]
  /\ UNCHANGED <<sb, so, rcvd, adv>>

(* sb_timeo runs out in sbwait(): EWOULDBLOCK, or the short count of a     *)
(* MSG_WAITALL read, which unlocks.                                        *)
Timeout(r) ==
  /\ Timed /\ rd[r].pc \in {"wait", "all"}
  /\ Becomes(IF rd[r].pc = "all" THEN Return(Kernel, r)
             ELSE [Kernel EXCEPT !.rd[r].pc = "user", !.rd[r].awake = FALSE])
  /\ UNCHANGED <<rcvd, adv>>

(* A segment in order arrives inside the advertised window: TCP_REASS.     *)
Segment(n, ext) ==
  /\ ~so.cantrcv /\ n <= adv /\ rcvd + n <= MaxBytes
  /\ rcvd' = rcvd + n
  /\ adv' = adv - n
  /\ Becomes(sowakeup([Kernel EXCEPT !.sb = sbcompress(@,
       [data |-> [i \in 1 .. n |-> rcvd + i], ext |-> ext, off |-> 0])]))

(* The peer has a segment that fits the window it was advertised. *)
CanArrive == ~so.cantrcv /\ \E n \in Segments : n <= adv /\ rcvd + n <= MaxBytes

Arrival == \E n \in Segments, ext \in Clusters : Segment(n, ext)

(* Mutant: the window is the size of the buffer, not its space. *)
WindowUpdate_Hiwat ==
  /\ sb.hiwat > adv
  /\ adv' = sb.hiwat
  /\ UNCHANGED <<sb, rd, so, rcvd>>

(* An ACK leaves: tcp_output() never takes back what it has advertised.    *)
WindowUpdate ==
  /\ sbspace(sb) > adv
  /\ adv' = sbspace(sb)
  /\ UNCHANGED <<sb, rd, so, rcvd>>

(* The peer's FIN, or a reset. *)
EndOfStream(err) ==
  /\ ~so.cantrcv
  /\ Becomes(socantrcvmore([Kernel EXCEPT !.so.error = err]))
  /\ UNCHANGED <<rcvd, adv>>

Next ==
  \/ \E r \in Readers :
       \/ \E n \in Sizes, c \in Calls : Enter(r, c, n)
       \/ Resume(r) \/ Spurious(r) \/ Timeout(r)
  \/ Arrival
  \/ WindowUpdate
  \/ \E err \in BOOLEAN : EndOfStream(err)

Spec == Init /\ [][Next]_vars

(* Woken threads run, the peer sends while the window is open, and learns  *)
(* of a window that opens (its persist probes are answered with an ACK).   *)
FairSpec ==
  /\ Spec
  /\ \A r \in Readers : WF_vars(Resume(r))
  /\ WF_vars(Arrival)
  /\ WF_vars(WindowUpdate)

-----------------------------------------------------------------------------
(* Properties                                                              *)

(* The variables have their types, and nothing that sbcheck() would panic  *)
(* about (uipc_socket2.c:459, SOCKBUF_DEBUG) happens: sb_cc and sb_mbcnt   *)
(* are the sums over the chain, after any mixture of appends, copies into  *)
(* a partly read mbuf and partial reads; and no empty mbuf stays on the    *)
(* chain, so m == 0 means sb_cc == 0 ("receive 1").                        *)
SbCheck ==
  /\ sb \in SockBuf /\ rd \in [Readers -> Reader]
  /\ so \in Socket
  /\ rcvd \in 0 .. MaxBytes /\ adv \in 0 .. HIWAT
  /\ sb.cc = Len(Bytes(sb))
  /\ sb.mbcnt = Charged(sb, Len(sb.mb))
  /\ \A i \in 1 .. Len(sb.mb) : sb.mb[i].data # <<>>

(* What the readers were given and, behind it, what the buffer holds is    *)
(* the stream as it arrived: no byte is lost on the way to a reader, none  *)
(* is given to two of them or twice to one, and none overtakes another,    *)
(* whatever the sizes and the flags of the calls.  What sorflush() throws  *)
(* away is the end of the stream: it makes no hole.                        *)
StreamIntact ==
  LET all == so.read \o Bytes(sb) IN
  /\ \A i \in 1 .. Len(all) : all[i] = i
  /\ sb.hiwat # 0 => Len(all) = rcvd

(* The peer cannot overrun the buffer: what is in it and what may still    *)
(* arrive fits below the high water mark, although the mbufs cost more     *)
(* than their bytes and an advertised window is never taken back.          *)
NoOverrun == sb.hiwat # 0 => sb.cc + adv <= sb.hiwat

(* uipc_socket.c:738: a MSG_WAITALL read sleeps "locked against other      *)
(* readers": SB_LOCK is set exactly while a reader sleeps with it, no path *)
(* of soreceive() or sorflush() leaks it or unlocks another's, and so the  *)
(* bytes such a read returns follow each other in the stream.              *)
WaitallExclusive ==
  /\ sb.lock <=> (\E r \in Readers : rd[r].pc = "all")
  /\ \A r, q \in Readers : rd[r].pc = "all" /\ rd[q].pc = "all" => r = q
  /\ \A r \in Readers : rd[r].call = "waitall" =>
       \A i \in 1 .. Len(rd[r].got) - 1 : rd[r].got[i + 1] = rd[r].got[i] + 1

(* No wakeup is lost: a thread that sleeps for the lock is marked by       *)
(* SB_WANT and the lock is held; one that sleeps for data is marked by     *)
(* SB_WAIT, and has neither the data nor an end of stream to return with.  *)
NoLostWakeup ==
  \A r \in Readers : ~rd[r].awake =>
    /\ rd[r].pc = "lock" => sb.lock /\ sb.want
    /\ rd[r].pc = "wait" => sb.wait /\ MustWait(Kernel, r) /\ ~so.cantrcv
    /\ rd[r].pc = "all" => sb.wait /\ sb.mb = <<>> /\ ~so.cantrcv

(* Every read ends once the stream has ended, also a read that waits for   *)
(* the lock of a sleeping MSG_WAITALL read.                                *)
ReadsEnd ==
  \A r \in Readers : (so.cantrcv /\ rd[r].pc # "user") ~> (rd[r].pc = "user")

(* A MSG_WAITALL read returns when the peer keeps sending: it takes what   *)
(* fits at once in one piece, more than that in sections.                  *)
WaitallEnds ==
  \A r \in Readers : (rd[r].pc \in {"wait", "all"}) ~>
                     (rd[r].pc = "user" \/ rcvd = MaxBytes)
=============================================================================
