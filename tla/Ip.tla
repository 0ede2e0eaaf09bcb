--------------------------------- MODULE Ip ---------------------------------
(***************************************************************************)
(* Datagrams of netinet/ip_output.c and ip_input.c: ip_output() cuts one   *)
(* that is too long for the interface, routers on the way (ip_forward())   *)
(* cut the pieces again, and ipintr() puts them together at the receiver.  *)
(* The network loses, repeats and reorders packets.  A byte is the         *)
(* datagram it is of and its position in it; an identification stands for  *)
(* the four fields that ipintr() compares to find the queue of a fragment. *)
(***************************************************************************)
EXTENDS Integers, FiniteSets, SequencesExt

CONSTANTS
  Sends,        \* what the protocols may send: sequences of [len, df, opt]
  Mtus,         \* if_mtu of the interfaces on the way
  UNIT,         \* what ip_off counts in: 8 bytes
  HLEN, OLEN,   \* sizes of the header and of the options
  SHORT,        \* a short holds -SHORT .. SHORT - 1
  IPFRAGTTL,
  MAXTTL        \* ip_ttl of a new datagram

VARIABLES
  sent,       \* the datagrams, by identification
  wire,       \* packets that have been on the wire and may still arrive
  ipq,        \* the reassembly queues
  delivered   \* history: what the protocols were given

vars == <<sent, wire, ipq, delivered>>

Short(n) == ((n + SHORT) % (2 * SHORT)) - SHORT

(* Options are of two kinds: those that go in every fragment and those     *)
(* that go in the first.                                                   *)
Options == {"none", "first", "all"}
Hlen(p) == IF p.opt = "none" THEN HLEN ELSE HLEN + OLEN

Init == sent = <<>> /\ wire = {} /\ ipq = <<>> /\ delivered = {}
-----------------------------------------------------------------------------
(* ip_optcopy() *)
ip_optcopy(opt) == IF opt = "all" THEN "all" ELSE "none"

(* The fragment of p that starts at byte off of its data. *)
Piece(p, off, len) ==
  LET end == IF off + len >= Len(p.data) THEN Len(p.data) ELSE off + len IN
  [p EXCEPT !.opt = IF off = 0 THEN @ ELSE ip_optcopy(@),
            !.off = @ + off \div UNIT,
            !.mf = @ \/ end < Len(p.data),
            !.data = SubSeq(@, off + 1, end)]

(* ip_output(): the packets for an interface, in order.  None if the       *)
(* datagram is too long and may not or cannot be cut.                      *)
Fragments(p, mtu) ==
  LET len == ((mtu - Hlen(p)) \div UNIT) * UNIT IN
  IF Hlen(p) + Len(p.data) <= mtu THEN <<p>>
  ELSE IF p.df \/ len < UNIT THEN <<>>
  ELSE [i \in 1 .. (Len(p.data) + len - 1) \div len |-> Piece(p, (i - 1) * len, len)]

(* The packets go out in order.  Those that are freed because the          *)
(* interface refuses one, or because there is no memory for all, are as    *)
(* good as lost.                                                           *)
Sent(p, mtu) == wire' = wire \cup ToSet(Fragments(p, mtu))

ip_output(s, mtu) ==
  LET id == Len(sent) + 1
      p == [id |-> id, opt |-> s.opt, off |-> 0, mf |-> FALSE, df |-> s.df,
            ttl |-> MAXTTL, data |-> [i \in 1 .. s.len |-> <<id, i>>]]
  IN  /\ sent' = Append(sent, s)
      /\ \E plan \in Sends : IsPrefix(sent', plan)
      /\ Sent(p, mtu)
      /\ UNCHANGED <<ipq, delivered>>

(* A router sends the packet on.  Its copies that take another way stay.   *)
ip_forward(p, mtu) ==
  /\ p.ttl > 1
  /\ Sent([p EXCEPT !.ttl = @ - 1], mtu)
  /\ UNCHANGED <<sent, ipq, delivered>>
-----------------------------------------------------------------------------
(* struct ipasfrag: the offset in bytes *)
Fragment(p) ==
  [opt |-> p.opt, off |-> Short(p.off * UNIT), mff |-> p.mf, data |-> p.data]

Ends(f) == f.off + Len(f.data)

(* m_adj() and the change of ip_off *)
Trim(f, n) == [f EXCEPT !.off = Short(@ + n), !.data = SubSeq(@, n + 1, Len(@))]

(* Mutant: the fragment keeps its offset. *)
TrimFront_KeepsOff(f, n) == [f EXCEPT !.data = SubSeq(@, n + 1, Len(@))]

(* Data that the preceding segment has is dropped from the new one. *)
TrimFront(f, n) == Trim(f, n)

(* While f overlaps the succeeding segments they are dequeued or trimmed.  *)
TrimSucceeding(f, qs) ==
  LET Uncovered(q) == Ends(f) <= q.off \/ Ends(f) - q.off < Len(q.data)
      i == SelectInSeq(qs, Uncovered)
  IN  IF i = 0 THEN <<>>
      ELSE LET rest == SubSeq(qs, i, Len(qs)) IN
           IF Ends(f) > rest[1].off
           THEN <<Trim(rest[1], Ends(f) - rest[1].off)>> \o Tail(rest)
           ELSE rest

(* The insertion of f into the segments qs; qs itself if f is dropped. *)
Insert(qs, f) ==
  LET Begins(q) == q.off > f.off
      j == IF SelectInSeq(qs, Begins) = 0 THEN Len(qs) + 1 ELSE SelectInSeq(qs, Begins)
      before == SubSeq(qs, 1, j - 1)
      after == SubSeq(qs, j, Len(qs))
      i == IF before = <<>> THEN 0 ELSE Ends(Last(before)) - f.off
      new == IF i > 0 THEN TrimFront(f, i) ELSE f
  IN  IF i > 0 /\ i >= Len(f.data) THEN qs
      ELSE before \o <<new>> \o TrimSucceeding(new, after)

(* The segments follow each other from 0, and the last has no successor. *)
Bytes(qs) == FoldLeft(LAMBDA acc, q : acc \o q.data, <<>>, qs)

Complete(qs) ==
  /\ \A i \in DOMAIN qs : qs[i].off = Len(Bytes(SubSeq(qs, 1, i - 1)))
  /\ ~Last(qs).mff

(* To the protocol: the datagram, and the length of its header as ipintr() *)
(* read it from the packet that came last.                                 *)
Deliver(p, opt, data) ==
  delivered' = delivered \cup
    {[id |-> p.id, opt |-> opt, hlen |-> Hlen(p), ip_len |-> Short(Len(data)),
      data |-> data]}

(* ip_reass().  A fragment for which there is no mbuf is as good as lost. *)
ip_reass(p) ==
  LET Same(q) == q.id = p.id
      k == SelectInSeq(ipq, Same)
      old == IF k = 0 THEN <<>> ELSE ipq[k].frags
      new == Insert(old, Fragment(p))
      others == SelectSeq(ipq, LAMBDA q : q.id # p.id)
  IN  IF new # old /\ Complete(new)
      THEN ipq' = others /\ Deliver(p, new[1].opt, Bytes(new))
      ELSE /\ ipq' = IF k = 0
                     THEN <<[id |-> p.id, ttl |-> IPFRAGTTL, frags |-> new]>> \o ipq
                     ELSE [ipq EXCEPT ![k].frags = new]
           /\ UNCHANGED delivered

(* ipintr(), for a packet that is ours *)
ipintr(p) ==
  /\ IF p.mf \/ p.off # 0 THEN ip_reass(p)
     ELSE Deliver(p, p.opt, p.data) /\ UNCHANGED ipq
  /\ UNCHANGED <<sent, wire>>

(* ip_slowtimo() with ip_freef() *)
ip_slowtimo ==
  /\ ipq # <<>>
  /\ ipq' = SelectSeq([i \in DOMAIN ipq |-> [ipq[i] EXCEPT !.ttl = @ - 1]],
                      LAMBDA q : q.ttl # 0)
  /\ UNCHANGED <<sent, wire, delivered>>

(* m_reclaim() frees all fragments when memory is short. *)
ip_drain ==
  /\ ipq # <<>> /\ ipq' = <<>>
  /\ UNCHANGED <<sent, wire, delivered>>

Next ==
  \/ \E s \in UNION {ToSet(plan) : plan \in Sends}, mtu \in Mtus : ip_output(s, mtu)
  \/ \E p \in wire : ipintr(p) \/ \E mtu \in Mtus : ip_forward(p, mtu)
  \/ ip_slowtimo
  \/ ip_drain

Spec == Init /\ [][Next]_vars
-----------------------------------------------------------------------------
Whole(id) == [i \in 1 .. sent[id].len |-> <<id, i>>]

(* Whatever becomes of its fragments on the way, and however often and in  *)
(* whatever sizes they come, the protocol is given the datagram that was   *)
(* sent or nothing, with its length and the length of its header; and no   *)
(* queue keeps all of a datagram (ip_reass()).  The exceptions: a length   *)
(* that is no short is negative, and such a datagram may never be          *)
(* complete; and ipintr() takes hlen from the fragment that came last,     *)
(* which is wrong when only the first has the options.                     *)
DatagramsWhole ==
  /\ \A d \in delivered :
       /\ d.data = Whole(d.id)
       /\ sent[d.id].len < SHORT => d.ip_len = sent[d.id].len
       /\ d.opt = sent[d.id].opt
       /\ d.opt # "first" => d.hlen = Hlen(d)
  /\ \A i \in DOMAIN ipq :
       LET q == ipq[i] IN
       /\ q.ttl \in 1 .. IPFRAGTTL
       /\ \A j \in DOMAIN ipq : ipq[j].id = q.id => i = j
       /\ sent[q.id].len < SHORT => Bytes(q.frags) # Whole(q.id)
=============================================================================
