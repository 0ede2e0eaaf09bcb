-------------------------------- MODULE Cksum --------------------------------
(***************************************************************************)
(* in_cksum() of netinet/in_cksum.c: the checksum of the first len bytes   *)
(* of a chain of mbufs that may begin at odd addresses, hold odd numbers   *)
(* of bytes or none.  A step is the work on one mbuf.  A byte has BASE     *)
(* values, a short BASE * BASE.                                            *)
(***************************************************************************)
EXTENDS Integers, SequencesExt

CONSTANTS
  BASE,        \* 256
  BLOCK,       \* 8: bytes in a round of the unrolled loop
  Contents,    \* the packets' bytes
  MaxMbufs     \* bound: mbufs of a chain

VARIABLES
  big,         \* whether the machine is big-endian
  packet,      \* history: the bytes to sum
  chain,       \* mbufs not yet done: [odd, bytes]; odd is 1 & m_data
  len,         \* bytes not yet done
  sum, mlen,   \* mlen = -1: the first byte of a word is in s_util.c[0]
  c0,          \* s_util.c[0]
  result       \* -1 until in_cksum() returns

vars == <<big, packet, chain, len, sum, mlen, c0, result>>

MAX == BASE * BASE - 1

Init ==
  /\ big \in BOOLEAN
  /\ packet = <<>> /\ chain = <<>> /\ len = 0 /\ result = -1
  /\ sum = 0 /\ mlen = 0 /\ c0 = 0
-----------------------------------------------------------------------------
(* s_util.s, or a short in memory *)
Word(a, b) == IF big THEN BASE * a + b ELSE a + BASE * b

(* REDUCE with ADDCARRY *)
REDUCE(s) ==
  LET t == (s \div (BASE * BASE)) + (s % (BASE * BASE)) IN IF t > MAX THEN t - MAX ELSE t

Words(w) == FoldLeft(+, 0, [i \in 1 .. Len(w) \div 2 |-> Word(w[2 * i - 1], w[2 * i])])

(* Mutant: the sum is not shifted back. *)
Unswap_Not(swapped, s) == s

(* The sum of words that began at an odd address is swapped back. *)
Unswap(swapped, s) == IF swapped THEN BASE * REDUCE(s) ELSE s

(* The work on the bytes w of an mbuf behind the byte that completes a     *)
(* word begun before; odd: they begin at an odd address.                   *)
Scan(s, odd, w, c) ==
  LET swapped == odd /\ w # <<>>
      c1   == IF swapped THEN w[1] ELSE c
      rest == IF swapped THEN Tail(w) ELSE w
      s1   == IF swapped THEN BASE * REDUCE(s) ELSE s
      left == Len(rest) % BLOCK
      s2   == s1 + Words(SubSeq(rest, 1, Len(rest) - left))
      s3   == REDUCE(s2) + Words(SubSeq(rest, Len(rest) - left + 1, Len(rest)))
      s4   == Unswap(swapped, s3)
      tail == Len(rest) % 2 = 1
  IN  IF left = 0 /\ ~swapped THEN [sum |-> s2, mlen |-> 0, c0 |-> c1]
      ELSE IF swapped
      THEN IF tail THEN [sum |-> s4 + Word(c1, Last(rest)), mlen |-> 0, c0 |-> c1]
                   ELSE [sum |-> s4, mlen |-> -1, c0 |-> c1]
      ELSE IF tail THEN [sum |-> s4, mlen |-> -1, c0 |-> Last(rest)]
                   ELSE [sum |-> s4, mlen |-> -2, c0 |-> c1]

(* The call, for a packet cut into mbufs in any way. *)
Call(x, n) ==
  /\ packet = <<>>
  /\ \E k \in 1 .. MaxMbufs : \E cut \in [1 .. k + 1 -> 0 .. Len(x)], odd \in [1 .. k -> BOOLEAN] :
       /\ cut[1] = 0 /\ cut[k + 1] = Len(x) /\ \A i \in 1 .. k : cut[i] <= cut[i + 1]
       /\ chain' = [i \in 1 .. k |->
            [odd |-> odd[i], bytes |-> SubSeq(x, cut[i] + 1, cut[i + 1])]]
  /\ packet' = SubSeq(x, 1, n) /\ len' = n
  /\ UNCHANGED <<big, sum, mlen, c0, result>>

(* The loop over the mbufs. *)
NextMbuf ==
  /\ chain # <<>> /\ len > 0
  /\ chain' = Tail(chain)
  /\ LET m == chain[1]
         joins == mlen = -1
         avail == IF joins THEN Tail(m.bytes) ELSE m.bytes
         rem == IF joins THEN len - 1 ELSE len
         w == SubSeq(avail, 1, IF rem < Len(avail) THEN rem ELSE Len(avail))
         r == Scan(IF joins THEN sum + Word(c0, m.bytes[1]) ELSE sum,
                   m.odd # joins, w, c0)
     IN  IF m.bytes = <<>> THEN UNCHANGED <<len, sum, mlen, c0>>
         ELSE /\ len' = rem - Len(w)
              /\ sum' = r.sum /\ mlen' = r.mlen /\ c0' = r.c0
  /\ UNCHANGED <<big, packet, result>>

(* An odd last byte is followed by a zero. *)
Return ==
  /\ packet # <<>> /\ result = -1
  /\ chain = <<>> \/ len = 0
  /\ result' = MAX - REDUCE(IF mlen = -1 THEN sum + Word(c0, 0) ELSE sum)
  /\ UNCHANGED <<big, packet, chain, len, sum, mlen, c0>>

Next == NextMbuf \/ Return \/ \E x \in Contents : \E n \in {Len(x) - 1, Len(x)} : Call(x, n)

Spec == Init /\ [][Next]_vars
-----------------------------------------------------------------------------
(* The checksum of the bytes by its definition: the ones' complement of    *)
(* the ones' complement sum of the words, the last one filled up.          *)
Definition(bytes) ==
  LET total == Words(IF Len(bytes) % 2 = 1 THEN Append(bytes, 0) ELSE bytes)
  IN  MAX - (IF total = 0 THEN 0 ELSE ((total - 1) % MAX) + 1)

(* However the packet is cut into mbufs, wherever they begin and whatever  *)
(* the byte order, in_cksum() returns the checksum of its bytes.           *)
ChecksumExact == result # -1 => result = Definition(packet)
=============================================================================
