----------------------------- MODULE SlCompress -----------------------------
(* TCP/IP header compression on a serial line (slcompress.c, and its       *)
(* callers in if_sl.c), in one direction, over a line that loses frames.   *)
(* The line keeps the order of frames, so a frame is received, or lost, in *)
(* the step that sends it.  A header is                                    *)
(*   [conn, tos, id, seq, ack, win, urg, urp, push, ctl, len]:             *)
(* addresses and ports are the connection, what must not change is tos,    *)
(* ctl is SYN, FIN or RST, and len is ip_len without the header.  The      *)
(* checksum th_sum travels unchanged and is left out.                      *)
EXTENDS Integers, Sequences, FiniteSets
CONSTANTS
  Plans,       \* what is sent: [conns, kinds, count]
  MAX_STATES,
  BYTE,        \* 256: the values of an octet
  SEQ,         \* 2^32: the size of the sequence space
  MaxLost      \* frames that are lost
VARIABLES
  plan,     \* what is still sent
  now,      \* the last header of each connection
  ip_id,
  tx,       \* the sender: [states, last_xmit], states in lru order
  rx,       \* the receiver: [compress, toss, last_recv, states]
  lost,     \* frames lost
  damaged,  \* history: the states that missed a frame since they were set
  strayed,  \* history: a connection number was missed
  last      \* history: the last packet and what the receiver made of it
vars == <<plan, now, ip_id, tx, rx, lost, damaged, strayed, last>>

USHORT == BYTE * BYTE
States == 0..(MAX_STATES - 1)
None == [conn |-> "none"]

(* Numbers on the line: one octet, or three for 0 and for large ones. *)
ENCODE(n) == IF n >= BYTE THEN <<0, n \div BYTE, n % BYTE>> ELSE <<n>>
ENCODEZ(n) == IF n >= BYTE \/ n = 0 THEN <<0, n \div BYTE, n % BYTE>> ELSE <<n>>
Number(s) == IF Head(s) = 0 THEN s[2] * BYTE + s[3] ELSE Head(s)
Behind(s) == SubSeq(s, IF Head(s) = 0 THEN 4 ELSE 2, Len(s))

SPECIAL_I == {"S", "W", "U"}
SPECIAL_D == {"S", "A", "W", "U"}

(* The states from the most to the least recently used: the one of the     *)
(* connection, or the oldest, comes to the front.                          *)
Found(s, c) == {i \in DOMAIN s : s[i].hdr.conn = c}
ToFront(s, c) ==
  LET i == IF Found(s, c) = {} THEN Len(s) ELSE CHOOSE i \in Found(s, c) : TRUE
  IN  <<s[i]>> \o SubSeq(s, 1, i - 1) \o SubSeq(s, i + 1, Len(s))

(* Nothing changed: compressed only if this is data behind an ack. *)
NoChange_Compressed(h, o) == TRUE
NoChange(h, o) == h.len # o.len /\ o.len = 0

(* The changes that make h of o, and the octets for them; FALSE if they    *)
(* cannot be coded.                                                        *)
Changes(h, o) ==
  LET dW == (h.win - o.win) % USHORT
      dA == (h.ack - o.ack) % SEQ
      dS == (h.seq - o.seq) % SEQ
      ch == {x \in {"U", "W", "A", "S"} : CASE x = "U" -> h.urg
                                            [] x = "W" -> dW # 0
                                            [] x = "A" -> dA # 0
                                            [] x = "S" -> dS # 0}
      octets == (IF h.urg THEN ENCODEZ(h.urp) ELSE <<>>)
                \o (IF dW # 0 THEN ENCODE(dW) ELSE <<>>)
                \o (IF dA # 0 THEN ENCODE(dA) ELSE <<>>)
                \o (IF dS # 0 THEN ENCODE(dS) ELSE <<>>)
      dI == h.id - o.id
      Code(c, s) == [ok |-> TRUE,
                     ch |-> IF dI = 1 THEN c ELSE c \cup {"I"},
                     octets |-> IF dI = 1 THEN s ELSE s \o ENCODEZ(dI % USHORT)]
      No == [ok |-> FALSE]
  IN  IF \/ h.tos # o.tos
         \/ ~h.urg /\ h.urp # o.urp
         \/ dA >= USHORT \/ dS >= USHORT
         \/ ch = {} /\ ~NoChange(h, o)
         \/ ch \in {SPECIAL_I, SPECIAL_D}
      THEN No
      ELSE CASE ch = {"S", "A"} /\ dS = dA /\ dS = o.len -> Code(SPECIAL_I, <<>>)
             [] ch = {"S"} /\ dS = o.len -> Code(SPECIAL_D, <<>>)
             [] OTHER -> Code(ch, octets)

(* What sl_compress_tcp() makes of a packet: the frame and its own state.  *)
(* A frame with a connection number has it in cid.                         *)
sl_compress_tcp(t, h) ==
  LET s == ToFront(t.states, h.conn)
      id == s[1].id
      c == Changes(h, s[1].hdr)
      set == [states |-> [s EXCEPT ![1].hdr = h], last_xmit |-> id]
  IN  CASE h.ctl -> [tx |-> t, frame |-> [type |-> "IP", hdr |-> h]]
        [] ~h.ctl /\ (Found(t.states, h.conn) = {} \/ ~c.ok) ->
             [tx |-> set, frame |-> [type |-> "UNCOMPRESSED", cid |-> id, hdr |-> h]]
        [] OTHER ->
             [tx |-> set,
              frame |-> [type |-> "COMPRESSED", ch |-> c.ch, octets |-> c.octets,
                         cid |-> IF t.last_xmit = id THEN -1 ELSE id,
                         push |-> h.push, len |-> h.len]]

(* A header from the saved one and a compressed frame. *)
Expand(o, f) ==
  LET special == f.ch \ {"I"} \in {SPECIAL_I, SPECIAL_D}
      in == [x \in {"U", "W", "A", "S", "I"} |-> x \in f.ch /\ (x = "I" \/ ~special)]
      s1 == IF in["U"] THEN Behind(f.octets) ELSE f.octets
      s2 == IF in["W"] THEN Behind(s1) ELSE s1
      s3 == IF in["A"] THEN Behind(s2) ELSE s2
      s4 == IF in["S"] THEN Behind(s3) ELSE s3
      ack == CASE special -> IF f.ch \ {"I"} = SPECIAL_I THEN o.len ELSE 0
               [] in["A"] -> Number(s2)
               [] OTHER -> 0
      seq == CASE special -> o.len [] in["S"] -> Number(s3) [] OTHER -> 0
  IN  [o EXCEPT !.push = f.push,
                !.urg = IF special THEN @ ELSE in["U"],
                !.urp = IF in["U"] THEN Number(f.octets) % USHORT ELSE @,
                !.win = (@ + (IF in["W"] THEN Number(s1) ELSE 0)) % USHORT,
                !.ack = (@ + ack) % SEQ,
                !.seq = (@ + seq) % SEQ,
                !.id = (@ + (IF in["I"] THEN Number(s4) ELSE 1)) % USHORT,
                !.len = f.len]

(* slinput() ignores frames of less than three octets: the changes and the *)
(* checksum are three.  It drops a compressed frame while it does not      *)
(* compress itself, sl_uncompress_tcp() one without a connection number    *)
(* while it tosses.                                                        *)
Octets(f) == 3 + (IF f.cid < 0 THEN 0 ELSE 1) + Len(f.octets) + f.len
Takes(r, f) ==
  f.type = "COMPRESSED" =>
    Octets(f) >= 3 /\ r.compress /\ (f.cid >= 0 \/ ~r.toss)

(* slinput() with sl_uncompress_tcp(): the header for ipintrq, or None.  A *)
(* state that was never set gives no header that ip would take.            *)
Receive(r, f) ==
  LET id == IF f.cid < 0 THEN r.last_recv ELSE f.cid
      set(h) == [compress |-> TRUE, toss |-> FALSE, last_recv |-> id,
                 states |-> [r.states EXCEPT ![id] = h]]
      h == IF r.states[id] = None THEN None ELSE Expand(r.states[id], f)
  IN  CASE ~Takes(r, f) -> [rx |-> r, hdr |-> None]
        [] f.type = "IP" -> [rx |-> r, hdr |-> f.hdr]
        [] f.type = "UNCOMPRESSED" -> [rx |-> set(f.hdr), hdr |-> f.hdr]
        [] f.type = "COMPRESSED" /\ Takes(r, f) -> [rx |-> set(h), hdr |-> h]

(* sl_compress_init(); the receiver compresses, or does once it has seen   *)
(* an uncompressed packet (SC_AUTOCOMP).                                   *)
Init ==
  /\ plan \in Plans
  /\ now = [c \in plan.conns |->
              [conn |-> c, tos |-> 0, id |-> 0, seq |-> SEQ - 2, ack |-> 0, win |-> 0,
               urg |-> FALSE, urp |-> 0, push |-> FALSE, ctl |-> FALSE, len |-> 0]]
  /\ ip_id = 0
  /\ tx = [states |-> [i \in 1..MAX_STATES |-> [id |-> MAX_STATES - i, hdr |-> None]],
           last_xmit |-> -1]
  /\ \E on \in BOOLEAN :
       rx = [compress |-> on, toss |-> TRUE, last_recv |-> -1,
             states |-> [i \in States |-> None]]
  /\ lost = 0 /\ damaged = States /\ strayed = FALSE
  /\ last = [sent |-> None, prev |-> None, got |-> None, whole |-> FALSE]

(* The header TCP sends after o: new data, an acknowledgement, both, the   *)
(* same again, an earlier one, and rarer ones.                             *)
After(o, kind) ==
  LET n == [o EXCEPT !.seq = (@ + o.len) % SEQ, !.urg = FALSE, !.ctl = FALSE]
  IN  CASE kind = "data" -> [n EXCEPT !.len = 1, !.push = TRUE]
        [] kind = "more" -> [n EXCEPT !.len = 2, !.push = FALSE]
        [] kind = "ack" -> [n EXCEPT !.len = 0, !.ack = (@ + 1) % SEQ]
        [] kind = "echo" -> [n EXCEPT !.len = 1, !.ack = (@ + o.len) % SEQ]
        [] kind = "again" -> o
        [] kind = "back" -> [n EXCEPT !.seq = (o.seq - 1) % SEQ, !.len = 1]
        [] kind = "window" -> [n EXCEPT !.win = (@ + USHORT - 1) % USHORT, !.len = 0]
        [] kind = "far" -> [n EXCEPT !.ack = (@ + USHORT) % SEQ, !.len = 0]
        [] kind = "urgent" -> [n EXCEPT !.urg = TRUE, !.urp = 2 - @, !.len = 1]
        [] kind = "tos" -> [n EXCEPT !.tos = 1 - @, !.len = 0]
        [] kind = "fin" -> [n EXCEPT !.ctl = TRUE, !.len = 0]

(* slstart() sends a packet, and the line loses the frame or slinput()     *)
(* gets it.  A compressed frame that the receiver may not or cannot        *)
(* decompress is as good as lost.                                          *)
Send(c, kind, arrives) ==
  LET h == [After(now[c], kind) EXCEPT !.id = (ip_id + 1) % USHORT]
      out == sl_compress_tcp(tx, h)
      f == out.frame
      in == Receive(rx, f)
      id == IF f.type = "IP" THEN -1 ELSE out.tx.last_xmit
      taken == arrives /\ Takes(rx, f)
      astray == strayed /\ f.type = "COMPRESSED" /\ f.cid < 0
  IN  /\ plan.count > 0
      /\ ~arrives => lost < MaxLost
      /\ plan' = [plan EXCEPT !.count = @ - 1]
      /\ now' = [now EXCEPT ![c] = h]
      /\ ip_id' = h.id
      /\ tx' = out.tx
      /\ lost' = IF arrives THEN lost ELSE lost + 1
      /\ rx' = IF arrives THEN in.rx ELSE rx
      /\ damaged' = CASE f.type = "IP" -> damaged
                      [] f.type # "IP" /\ ~taken -> damaged \cup {id}
                      [] f.type = "UNCOMPRESSED" /\ taken -> damaged \ {id}
                      [] OTHER -> IF astray THEN damaged \cup {id, rx.last_recv} ELSE damaged
      /\ strayed' = CASE f.type = "IP" -> strayed
                      [] f.type # "IP" /\ f.cid >= 0 -> ~taken
                      [] OTHER -> strayed
      /\ last' = [sent |-> h, prev |-> now[c], got |-> IF arrives THEN in.hdr ELSE None,
                  whole |-> arrives /\ (id \in States => id \notin damaged) /\ ~astray]

Next == \E c \in plan.conns, kind \in plan.kinds, arrives \in BOOLEAN :
          Send(c, kind, arrives)

Spec == Init /\ [][Next]_vars
-----------------------------------------------------------------------------
(* What the receiver has is what was sent.  The special encodings leave a  *)
(* TH_URG of the header before; the checksum then does not fit.            *)
Exact(g, h) == g = h \/ g = [h EXCEPT !.urg = TRUE]

(* The packet is sent for the second time in a row.  With TH_URG it has a  *)
(* change to send, and goes compressed every time.                         *)
Again == last.sent = [last.prev EXCEPT !.id = last.sent.id] /\ ~last.sent.urg

(* Headers survive compression: when no frame of its state was lost since  *)
(* the last uncompressed one, and no connection number, the receiver has   *)
(* the header that was sent, whatever connections share the states         *)
(* (sl_compress_tcp(), sl_uncompress_tcp()).  A packet that TCP sends      *)
(* again, not urgent, gets through whatever was lost before: it goes       *)
(* uncompressed.                                                           *)
HeadersSurvive ==
  /\ last.whole => Exact(last.got, last.sent)
  /\ last.got # None /\ Again => last.got = last.sent
=============================================================================
