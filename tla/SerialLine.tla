----------------------------- MODULE SerialLine -----------------------------
(* Two ANP processes on one serial line: serline.c, spipe.c, the framing   *)
(* of if_sl.c and the character lists of tty_subr.c.  A thread that sends  *)
(* writes into the stream pipe with kern_lock held and waits there while   *)
(* the pipe is full; the input thread reads without the lock and needs it  *)
(* for slinput().  Compression is SlCompress.                              *)
EXTENDS Integers, Sequences, SequencesExt
CONSTANTS
  A, B,        \* the two processes
  Plans,       \* what the processes send: packets [bytes, lowdelay] in order,
               \* none longer than the MTU
  PIPE,        \* the bytes the pipe holds in one direction
  BUFSIZE,     \* the read buffer of spipe_input_thread()
  ACBUFSIZE,   \* the bytes of an acblock
  SLMAX,       \* the bytes of the receive buffer
  IFQ_MAXLEN   \* the limit of sc_fastq, if_snd and ipintrq
VARIABLES
  plan,    \* what each process still sends
  tp,      \* the tty and its queues: [locked, fastq, if_snd, outq]
  pipe,    \* the bytes on their way from a process
  buf,     \* the bytes the input thread has read and not yet given to slinput()
  sc,      \* its receive buffer: [mp, escape, error]
  ipintrq, \* how many packets wait for ipintr()
  sent,    \* history: the packets sloutput() took
  got      \* history: the packets slinput() found, and what became of them
vars == <<plan, tp, pipe, buf, sc, ipintrq, sent, got>>

Procs == {A, B}
Peer(p) == CHOOSE q \in Procs : q # p

(* A character list is its blocks; the count is kept beside them. *)
Block(s) == [start |-> 0, data |-> s]
NoChars == [cc |-> 0, blocks |-> <<>>]

putc(q, c) ==
  LET b == Last(q.blocks) IN
  IF q.cc = 0
  THEN [cc |-> 1, blocks |-> <<Block(<<c>>)>>]
  ELSE [cc |-> q.cc + 1,
        blocks |-> IF b.start + Len(b.data) >= ACBUFSIZE
                   THEN Append(q.blocks, Block(<<c>>))
                   ELSE Append(Front(q.blocks), [b EXCEPT !.data = Append(@, c)])]

b_to_q(q, s) ==
  LET Chunk(i) == SubSeq(s, (i - 1) * ACBUFSIZE + 1,
                         IF i * ACBUFSIZE < Len(s) THEN i * ACBUFSIZE ELSE Len(s))
  IN  [cc |-> q.cc + Len(s),
       blocks |-> q.blocks \o [i \in 1..((Len(s) + ACBUFSIZE - 1) \div ACBUFSIZE)
                                 |-> Block(Chunk(i))]]

Special == {"FRAME_END", "FRAME_ESCAPE"}

(* A packet in the output queue: plain characters as they are, special     *)
(* ones in two, a FRAME_END behind it and, on an idle line, one before it. *)
Framed(q, s) ==
  LET Put[i \in 1..(Len(s) + 1)] ==
        LET r == IF i = 1 THEN IF q.cc = 0 THEN putc(q, "FRAME_END") ELSE q
                          ELSE Put[i - 1]
            c == s[i - 1]
        IN  IF i = 1 THEN r
            ELSE IF c \in Special
                 THEN putc(putc(r, "FRAME_ESCAPE"),
                           IF c = "FRAME_ESCAPE" THEN "TRANS_FRAME_ESCAPE"
                                                 ELSE "TRANS_FRAME_END")
                 ELSE b_to_q(r, <<c>>)
  IN  putc(Put[Len(s) + 1], "FRAME_END")

(* slstart() once t_oproc has returned: the next packet, fast ones first,  *)
(* or the return that ends the call and gives kern_lock up.                *)
slstart(l) ==
  IF l.fastq # <<>>
  THEN [l EXCEPT !.fastq = Tail(@), !.outq = Framed(@, Head(l.fastq))]
  ELSE IF l.if_snd # <<>>
       THEN [l EXCEPT !.if_snd = Tail(@), !.outq = Framed(@, Head(l.if_snd))]
       ELSE [l EXCEPT !.locked = FALSE]

(* The loop of ser_oproc() goes on until all is written. *)
ser_oproc_Once(l) == slstart(l)
ser_oproc(l) == IF l.outq.cc > 0 THEN l ELSE slstart(l)

Init ==
  /\ plan \in Plans
  /\ tp = [p \in Procs |-> [locked |-> FALSE, fastq |-> <<>>, if_snd |-> <<>>,
                            outq |-> NoChars]]
  /\ pipe = [p \in Procs |-> <<>>]
  /\ buf = [p \in Procs |-> <<>>]
  /\ sc = [p \in Procs |-> [mp |-> <<>>, escape |-> FALSE, error |-> FALSE]]
  /\ ipintrq = [p \in Procs |-> 0]
  /\ sent = [p \in Procs |-> <<>>]
  /\ got = [p \in Procs |-> <<>>]

(* A thread of p with kern_lock sends a packet: up to its first write().   *)
(* A full queue refuses it (ENOBUFS).                                      *)
sloutput(p) ==
  LET m == Head(plan[p])
      full == Len(IF m.lowdelay THEN tp[p].fastq ELSE tp[p].if_snd) >= IFQ_MAXLEN
      l == [tp[p] EXCEPT !.locked = TRUE,
                         !.fastq = IF m.lowdelay THEN Append(@, m.bytes) ELSE @,
                         !.if_snd = IF m.lowdelay THEN @ ELSE Append(@, m.bytes)]
  IN  /\ plan[p] # <<>>
      /\ ~tp[p].locked
      /\ tp' = [tp EXCEPT ![p] = IF full THEN @
                                 ELSE IF l.outq.cc = 0 THEN slstart(l)
                                 ELSE [l EXCEPT !.locked = FALSE]]
      /\ plan' = [plan EXCEPT ![p] = Tail(@)]
      /\ sent' = [sent EXCEPT ![p] = IF full THEN @ ELSE Append(@, m.bytes)]
      /\ UNCHANGED <<pipe, buf, sc, ipintrq, got>>

(* The pipe takes what it has room for of the first block; the thread is   *)
(* in write() or goes round the loop.                                      *)
Write(p) ==
  LET q == tp[p].outq
      b == Head(q.blocks)
      room == PIPE - Len(pipe[p])
      n == IF Len(b.data) < room THEN Len(b.data) ELSE room
      rest == [start |-> b.start + n, data |-> SubSeq(b.data, n + 1, Len(b.data))]
      left == [cc |-> q.cc - n,
               blocks |-> (IF rest.data = <<>> THEN <<>> ELSE <<rest>>) \o Tail(q.blocks)]
  IN  /\ tp[p].locked
      /\ n > 0
      /\ pipe' = [pipe EXCEPT ![p] = @ \o SubSeq(b.data, 1, n)]
      /\ tp' = [tp EXCEPT ![p] = ser_oproc([@ EXCEPT !.outq = left])]
      /\ UNCHANGED <<plan, buf, sc, ipintrq, sent, got>>

(* spipe_input_thread() has what is there, as far as its buffer goes. *)
Read(p) ==
  LET in == pipe[Peer(p)]
      n == IF Len(in) < BUFSIZE THEN Len(in) ELSE BUFSIZE
  IN  /\ buf[p] = <<>>
      /\ n > 0
      /\ buf' = [buf EXCEPT ![p] = SubSeq(in, 1, n)]
      /\ pipe' = [pipe EXCEPT ![Peer(p)] = SubSeq(in, n + 1, Len(in))]
      /\ UNCHANGED <<plan, tp, sc, ipintrq, sent, got>>

newpack == [mp |-> <<>>, escape |-> FALSE, error |-> FALSE]

(* A packet is complete.  It goes on ipintrq, unless sl_btom() has no mbuf *)
(* for it or the queue is full.                                            *)
Enqueue(in, nombuf) ==
  LET fate == IF nombuf THEN "nombuf"
              ELSE IF in.queued >= IFQ_MAXLEN THEN "full" ELSE "queued"
  IN  [sc |-> newpack, ip |-> Append(in.ip, [bytes |-> in.sc.mp, fate |-> fate]),
       queued |-> in.queued + (IF fate = "queued" THEN 1 ELSE 0)]

(* One character.  `in' is the receive buffer, the packets found in it and *)
(* how many of them wait.                                                  *)
slinput(in, c, nombuf) ==
  LET ch == IF ~in.sc.escape THEN c
            ELSE CASE c = "TRANS_FRAME_ESCAPE" -> "FRAME_ESCAPE"
                   [] c = "TRANS_FRAME_END" -> "FRAME_END"
                   [] OTHER -> c
  IN  CASE c = "FRAME_ESCAPE" -> [in EXCEPT !.sc.escape = TRUE]
        [] c = "FRAME_END" ->
             IF in.sc.error \/ Len(in.sc.mp) < 3 THEN [in EXCEPT !.sc = newpack]
             ELSE Enqueue(in, nombuf)
        [] OTHER ->
             IF Len(in.sc.mp) < SLMAX
             THEN [in EXCEPT !.sc.mp = Append(@, ch), !.sc.escape = FALSE]
             ELSE [in EXCEPT !.sc = [newpack EXCEPT !.error = TRUE]]

(* The input thread gets kern_lock and passes on all it has read; mbufs    *)
(* may have run out.                                                       *)
Input(p, nombuf) ==
  LET In[i \in 0..Len(buf[p])] ==
        IF i = 0 THEN [sc |-> sc[p], ip |-> got[p], queued |-> ipintrq[p]]
        ELSE slinput(In[i - 1], buf[p][i], nombuf)
      in == In[Len(buf[p])]
  IN  /\ buf[p] # <<>>
      /\ ~tp[p].locked
      /\ sc' = [sc EXCEPT ![p] = in.sc]
      /\ got' = [got EXCEPT ![p] = in.ip]
      /\ ipintrq' = [ipintrq EXCEPT ![p] = in.queued]
      /\ buf' = [buf EXCEPT ![p] = <<>>]
      /\ UNCHANGED <<plan, tp, pipe, sent>>

(* sw_intr_thread has kern_lock: ipintr() takes all that waits. *)
ipintr(p) ==
  /\ ipintrq[p] > 0
  /\ ~tp[p].locked
  /\ ipintrq' = [ipintrq EXCEPT ![p] = 0]
  /\ UNCHANGED <<plan, tp, pipe, buf, sc, sent, got>>

Next ==
  \E p \in Procs :
    \/ sloutput(p) \/ Write(p) \/ Read(p) \/ ipintr(p)
    \/ \E nombuf \in BOOLEAN : Input(p, nombuf)

Spec == Init /\ [][Next]_vars
-----------------------------------------------------------------------------
(* The bytes of the frames a process has sent. *)
Bytes(p) ==
  LET N[i \in 0..Len(sent[p])] ==
        IF i = 0 THEN 0 ELSE N[i - 1] + Framed(NoChars, sent[p][i]).cc
  IN  N[Len(sent[p])]

(* Both have sent more than the pipe and the input threads can hold.       *)
(* Then both may wait in write() with kern_lock held, and neither reads.   *)
Overfull == \A p \in Procs : Bytes(p) >= PIPE + 2

(* No thread of either process can go on: the sender is in a write() to a  *)
(* full pipe, or there is none left; the input thread waits for a byte, or *)
(* for kern_lock, and so does sw_intr_thread.                              *)
Waiting ==
  \A p \in Procs :
    /\ IF tp[p].locked THEN Len(pipe[p]) = PIPE ELSE plan[p] = <<>>
    /\ IF buf[p] = <<>> THEN pipe[Peer(p)] = <<>> ELSE tp[p].locked
    /\ ipintrq[p] = 0 \/ tp[p].locked

(* The packets slinput() found in the characters that came. *)
Found(p) == [i \in DOMAIN got[p] |-> got[p][i].bytes]

(* The line delivers: what one process gives to sloutput() is found by     *)
(* slinput() of the other once, in order and with every character as it    *)
(* was, whichever packets before it slinput() had to drop because ipintrq  *)
(* was full or no mbuf was left (slstart(), ser_oproc(),                   *)
(* spipe_input_thread() and slinput()); and it all is: the threads do not  *)
(* come to a stop before, in write() under kern_lock or with characters    *)
(* left in the list, unless both directions are overfull.                  *)
LineDelivers ==
  \A p \in Procs :
    /\ IsPrefix(Found(Peer(p)), sent[p])
    /\ Waiting => Overfull \/ Found(Peer(p)) = sent[p]
=============================================================================
