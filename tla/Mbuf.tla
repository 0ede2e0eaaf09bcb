-------------------------------- MODULE Mbuf --------------------------------
(***************************************************************************)
(* The mbufs and clusters of kern/uipc_mbuf.c and sys/mbuf.h.  A packet is *)
(* a chain of mbufs; an mbuf keeps its bytes in itself or refers to a part *)
(* of a cluster that others may share.  want is history: the bytes each    *)
(* packet should have.  Any allocation may fail.                           *)
(***************************************************************************)
EXTENDS Integers, FiniteSetsExt, SequencesExt

CONSTANTS
  Packets, Clusters,          \* names of chains and of clusters
  NULL,
  MLEN, MHLEN, MCLBYTES,      \* sizes of an mbuf's data, with a header, of a cluster
  max_linkhdr, max_protohdr,
  MaxLength,                  \* bound: bytes of a packet
  MaxAllocs,                  \* bound: mbufs to be had in one step
  MaxOps                      \* bound: operations in a row

VARIABLES
  pkt,        \* the chains
  hdrlen,     \* m_pkthdr.len of each
  ref, buf,   \* cl_refcnt and contents of each cluster
  want,       \* history: the bytes of each packet
  ops,        \* operations so far
  flaws       \* history: what has gone wrong, see ShareCluster and m_split

vars == <<pkt, hdrlen, ref, buf, want, ops, flaws>>

MINCLSIZE == MHLEN + MLEN
HDR == MLEN - MHLEN           \* m_pktdat starts here in m_dat
Byte == Packets \X (1 .. MaxLength)

mbuf == [hdr : BOOLEAN, ext : Clusters \cup {NULL}, off : 0 .. MCLBYTES + MLEN,
         len : Nat, dat : Seq(Byte)]

(* The kernel in a step, with the allocations that will succeed. *)
Kernel(n) == [ref |-> ref, buf |-> buf, left |-> n, flaws |-> flaws]

Init ==
  /\ pkt = [p \in Packets |-> <<>>]
  /\ hdrlen = [p \in Packets |-> 0]
  /\ ref = [c \in Clusters |-> 0]
  /\ buf = [c \in Clusters |-> <<>>]
  /\ want = [p \in Packets |-> <<>>]
  /\ ops = 0
  /\ flaws = {}
-----------------------------------------------------------------------------
(* mtod(m), m_len bytes *)
Data(k, m) == IF m.ext = NULL THEN m.dat ELSE SubSeq(k.buf[m.ext], m.off + 1, m.off + m.len)

Bytes(k, c) == FoldLeft(LAMBDA acc, m : acc \o Data(k, m), <<>>, c)

Length(c) == FoldLeft(LAMBDA n, m : n + m.len, 0, c)

(* MGET and MGETHDR, when there is memory *)
MGET == [hdr |-> FALSE, ext |-> NULL, off |-> 0, len |-> 0, dat |-> <<>>]
MGETHDR == [MGET EXCEPT !.hdr = TRUE, !.off = HDR]

Take(k) == [k EXCEPT !.left = @ - 1]

Put(m, bytes) == [m EXCEPT !.len = Len(bytes), !.dat = bytes]

(* m_len and m_data after the first n bytes are gone, or all but them *)
Skip(m, n) ==
  [m EXCEPT !.off = @ + n, !.len = @ - n,
            !.dat = IF m.ext = NULL THEN SubSeq(@, n + 1, Len(@)) ELSE @]

Keep(m, n) ==
  [m EXCEPT !.len = n, !.dat = IF m.ext = NULL THEN SubSeq(@, 1, n) ELSE @]

(* MFREE and MCLFREE, m_freem() *)
MFREE(k, m) == IF m.ext = NULL THEN k ELSE [k EXCEPT !.ref[m.ext] = @ - 1]

m_freem(k, c) == FoldLeft(MFREE, k, c)

(* The M_EXT case of m_copym() and m_split(): the new mbuf refers to the   *)
(* cluster too, but the count goes to mclrefcnt[], which points nowhere,   *)
(* and not to the table of cl_rc_incr().                                   *)
ShareCluster(k) == [k EXCEPT !.flaws = @ \cup {"mclrefcnt"}]
-----------------------------------------------------------------------------
(* Mutant: a cut that goes past the last mbuf takes the length asked for. *)
AdjHeader_Asked(n, c, req_len) == IF req_len >= 0 THEN n - req_len ELSE n + req_len

(* m_pkthdr.len after m_adj(), n before it *)
AdjHeader(n, c, req_len) ==
  IF req_len >= 0 THEN n - Min({req_len, Length(c)})
  ELSE IF Last(c).len >= -req_len THEN n + req_len ELSE Max({0, Length(c) + req_len})

m_adj_head(c, req_len) ==
  FoldLeft(LAMBDA acc, m :
             LET n == Min({m.len, acc.len}) IN
             [len |-> acc.len - n,
              c |-> Append(acc.c, IF n = m.len THEN Keep(m, 0) ELSE Skip(m, n))],
           [len |-> req_len, c |-> <<>>], c).c

m_adj_tail(c, count) ==
  FoldLeft(LAMBDA acc, m :
             LET n == Min({m.len, acc.len}) IN
             [len |-> acc.len - n, c |-> Append(acc.c, Keep(m, n))],
           [len |-> count, c |-> <<>>], c).c

m_adj(c, req_len) ==
  IF req_len >= 0 THEN m_adj_head(c, req_len)
  ELSE m_adj_tail(c, Max({0, Length(c) + req_len}))

(* A copy of n bytes of mbuf m from off, as the next of m_copym()'s chain. *)
CopyOne(acc, m, off, n) ==
  LET new == IF acc.top = <<>> /\ acc.copyhdr THEN MGETHDR ELSE MGET
      k   == Take(acc.k)
  IN  [acc EXCEPT
         !.off = 0, !.len = @ - n,
         !.k = IF m.ext = NULL THEN k ELSE ShareCluster(k),
         !.top = Append(@,
           IF m.ext = NULL THEN Put(new, SubSeq(m.dat, off + 1, off + n))
           ELSE [new EXCEPT !.ext = m.ext, !.off = m.off + off, !.len = n])]

(* m_copym() for bytes that are there: the result top, or fail. *)
m_copym(k, c, off0, len) ==
  LET step(acc, m) ==
        IF acc.fail \/ acc.len = 0 THEN acc
        ELSE IF acc.off > 0 /\ acc.off >= m.len THEN [acc EXCEPT !.off = @ - m.len]
        ELSE IF acc.k.left = 0
        THEN [acc EXCEPT !.fail = TRUE, !.top = <<>>, !.k = m_freem(@, acc.top)]
        ELSE CopyOne(acc, m, acc.off, Min({acc.len, m.len - acc.off}))
  IN  FoldLeft(step, [k |-> k, top |-> <<>>, off |-> off0, len |-> len, fail |-> FALSE,
                      copyhdr |-> off0 = 0 /\ c # <<>> /\ c[1].hdr], c)

(* m_cat(): the mbufs of n are copied into the last of m while they fit.   *)
m_cat(k, c, n) ==
  LET step(acc, m) ==
        LET last == Last(acc.c) IN
        IF acc.joined \/ last.ext # NULL \/ last.off + last.len + m.len >= MLEN
        THEN [acc EXCEPT !.joined = TRUE, !.c = Append(@, m)]
        ELSE [acc EXCEPT !.k = MFREE(@, m),
                         !.c[Len(acc.c)] = Put(last, last.dat \o Data(acc.k, m))]
  IN  FoldLeft(step, [k |-> k, c |-> c, joined |-> FALSE], n)

(* m_pullup(): bytes of rest are moved into m until it has len of them.    *)
PullInto(k, m, rest, len) ==
  LET step(acc, n) ==
        LET want_ == Max({acc.len, max_protohdr})
            count == Min({want_, MLEN - (acc.m.off + acc.m.len), n.len})
            left  == Skip(n, count)
        IN  IF acc.len <= 0 /\ acc.begun THEN [acc EXCEPT !.rest = Append(@, n)]
            ELSE [begun |-> TRUE, len |-> acc.len - count,
                  m |-> Put(acc.m, acc.m.dat \o SubSeq(Data(acc.k, n), 1, count)),
                  k |-> IF left.len = 0 THEN MFREE(acc.k, n) ELSE acc.k,
                  rest |-> IF left.len = 0 THEN acc.rest ELSE Append(acc.rest, left)]
  IN  FoldLeft(step, [begun |-> FALSE, len |-> len, m |-> m, k |-> k, rest |-> <<>>],
               rest)

(* The result has the chain c, <<>> when it was freed. *)
Pulled(r) ==
  IF r.len > 0 THEN [k |-> MFREE(r.k, r.m), c |-> <<>>]
               ELSE [k |-> r.k, c |-> <<r.m>> \o r.rest]

m_pullup(k, c, len) ==
  LET n == Head(c) IN
  IF n.ext = NULL /\ n.off + len < MLEN /\ Len(c) > 1
  THEN IF n.len >= len THEN [k |-> k, c |-> c]
       ELSE Pulled(PullInto(k, n, Tail(c), len - n.len))
  ELSE IF len > MHLEN \/ k.left = 0 THEN [k |-> m_freem(k, c), c |-> <<>>]
  ELSE Pulled(PullInto(Take(k), IF n.hdr THEN MGETHDR ELSE MGET,
                       <<[n EXCEPT !.hdr = FALSE]>> \o Tail(c), len))

(* m_prepend() of one mbuf, or the space in front of the data: M_PREPEND   *)
M_LEADINGSPACE(m) ==
  IF m.ext # NULL THEN 0 ELSE IF m.hdr THEN m.off - HDR ELSE m.off

M_PREPEND(k, c, bytes) ==
  LET m == Head(c)
      n == Len(bytes)
      mn == IF m.hdr THEN MGETHDR ELSE MGET IN
  IF M_LEADINGSPACE(m) >= n
  THEN [k |-> k, c |-> <<[Put(m, bytes \o m.dat) EXCEPT !.off = @ - n]>> \o Tail(c)]
  ELSE IF k.left = 0 THEN [k |-> m_freem(k, c), c |-> <<>>]
  ELSE [k |-> Take(k),
        c |-> <<[Put(mn, bytes) EXCEPT !.off = @ + IF n < MHLEN THEN MHLEN - n ELSE 0],
                [m EXCEPT !.hdr = FALSE]>> \o Tail(c)]

(* The split of mbuf m after len bytes: the mbuf n gets the rest. *)
SplitMbuf(k, m, n, len) ==
  IF m.ext # NULL
  THEN [k |-> ShareCluster(k), m |-> Keep(m, len),
        n |-> [n EXCEPT !.ext = m.ext, !.off = m.off + len, !.len = m.len - len]]
  ELSE [k |-> k, m |-> Keep(m, len),
        n |-> Put(n, SubSeq(m.dat, len + 1, Len(m.dat)))]

(* m_split() of a chain without packet header at byte len of its mbuf i.   *)
SplitPlain(k, c, i, len) ==
  LET s == SplitMbuf(Take(k), c[i], [MGET EXCEPT !.off = MLEN - (c[i].len - len)], len) IN
  IF len = c[i].len
  THEN [k |-> k, c |-> SubSeq(c, 1, i), n |-> SubSeq(c, i + 1, Len(c))]
  ELSE IF k.left = 0 THEN [k |-> k, c |-> c, n |-> <<>>]
  ELSE [k |-> s.k, c |-> Append(SubSeq(c, 1, i - 1), s.m),
        n |-> <<s.n>> \o SubSeq(c, i + 1, Len(c))]

(* With one, the tail begins with a header too: of its own when the rest   *)
(* of mbuf i does not fit behind it.                                       *)
SplitPacket(k, c, i, len) ==
  LET remain == c[i].len - len
      s == SplitMbuf(k, c[i], [MGETHDR EXCEPT !.off = MLEN - remain], len)
      r == SplitPlain(k, c, i, len) IN
  IF c[i].ext = NULL /\ remain > MHLEN
  THEN [r EXCEPT !.n = IF @ = <<>> THEN @ ELSE <<[MGETHDR EXCEPT !.off = MLEN]>> \o @]
  ELSE [k |-> s.k, c |-> Append(SubSeq(c, 1, i - 1), s.m),
        n |-> <<s.n>> \o SubSeq(c, i + 1, Len(c))]

(* The mbuf in which byte len0 of the chain ends, 0 when there is none. *)
SplitAt(c, len0) ==
  LET reach == {i \in DOMAIN c : Length(SubSeq(c, 1, i)) >= len0}
  IN  IF reach = {} THEN 0 ELSE Min(reach)

(* n is <<>> on failure.  The lengths in the headers are set before the    *)
(* second allocation of SplitPacket() and not set back when it fails.      *)
m_split(k, c, len0) ==
  LET i   == SplitAt(c, len0)
      len == len0 - Length(SubSeq(c, 1, i - 1))
      r   == IF c[1].hdr THEN SplitPacket(Take(k), c, i, len) ELSE SplitPlain(k, c, i, len)
      bad == c[1].hdr /\ r.n = <<>> IN
  IF i = 0 \/ (c[1].hdr /\ k.left = 0) THEN [k |-> k, c |-> c, n |-> <<>>, set |-> FALSE]
  ELSE [k |-> [r.k EXCEPT !.flaws = @ \cup (IF bad THEN {"m_split"} ELSE {})],
        c |-> r.c, n |-> r.n, set |-> c[1].hdr]

(* MCLALLOC(): a cluster of the free list, if there is one *)
Free(k) == {c \in Clusters : k.ref[c] = 0}

(* m_devget(): a packet of the device, cut into mbufs and clusters.  An    *)
(* mbuf takes a cluster when MINCLSIZE bytes or more are left.             *)
DevGet(acc) ==
  LET first == acc.c = <<>>
      new   == IF first THEN MGETHDR ELSE MGET
      room  == IF first THEN MHLEN ELSE MLEN
      todo  == Len(acc.bytes)
      clust == todo >= MINCLSIZE /\ Free(acc.k) # {}
      cl    == CHOOSE c \in Free(acc.k) : TRUE
      n     == IF clust THEN Min({todo, MCLBYTES}) ELSE Min({todo, room})
      pad   == IF first /\ todo < room /\ todo + max_linkhdr <= room THEN max_linkhdr ELSE 0
      k     == Take(acc.k)
  IN  [bytes |-> SubSeq(acc.bytes, n + 1, todo),
       k |-> IF clust THEN [k EXCEPT !.ref[cl] = @ + 1, !.buf[cl] = SubSeq(acc.bytes, 1, n)]
             ELSE k,
       c |-> Append(acc.c,
               IF clust THEN [new EXCEPT !.ext = cl, !.off = 0, !.len = n]
               ELSE [Put(new, SubSeq(acc.bytes, 1, n)) EXCEPT !.off = @ + pad])]

m_devget(k, bytes) ==
  LET step(acc, i) ==
        IF acc.bytes = <<>> THEN acc
        ELSE IF acc.k.left = 0
        THEN [bytes |-> <<>>, k |-> m_freem(acc.k, acc.c), c |-> <<>>]
        ELSE DevGet(acc)
  IN  FoldLeft(step, [bytes |-> bytes, k |-> k, c |-> <<>>], [i \in 1 .. MaxLength |-> i])
-----------------------------------------------------------------------------
(* The step leaves the kernel k and the chains new; w are the bytes the    *)
(* packets should then have.                                               *)
Done(k, new, w, lens) ==
  /\ ops < MaxOps /\ ops' = ops + 1
  /\ ref' = k.ref /\ buf' = k.buf /\ flaws' = k.flaws
  /\ pkt' = new @@ pkt /\ want' = w @@ want /\ hdrlen' = lens @@ hdrlen

Receive(p, n, allocs) ==
  LET bytes == [i \in 1 .. n |-> <<p, i>>]
      r == m_devget(Kernel(allocs), bytes) IN
  /\ pkt[p] = <<>>
  /\ Done(r.k, p :> r.c, p :> IF r.c = <<>> THEN <<>> ELSE bytes, p :> n)

Drop(p) ==
  /\ pkt[p] # <<>>
  /\ Done(m_freem(Kernel(0), pkt[p]), p :> <<>>, p :> <<>>, p :> 0)

Copy(p, q, off, n, allocs) ==
  LET r == m_copym(Kernel(allocs), pkt[p], off, n) IN
  /\ pkt[q] = <<>> /\ off + n <= Length(pkt[p])
  /\ Done(r.k, q :> r.top,
          q :> IF r.top = <<>> THEN <<>> ELSE SubSeq(want[p], off + 1, off + n), q :> n)

Adj(p, n) ==
  LET total == Length(pkt[p]) IN
  /\ pkt[p] # <<>>
  /\ Done(Kernel(0), p :> m_adj(pkt[p], n),
          p :> IF n >= 0 THEN SubSeq(want[p], n + 1, total) ELSE SubSeq(want[p], 1, total + n),
          p :> AdjHeader(hdrlen[p], pkt[p], n))

(* "Any m_pkthdr is not updated": the caller does it, as ip_reass() does. *)
Cat(p, q) ==
  LET r == m_cat(Kernel(0), pkt[p], pkt[q]) IN
  /\ p # q /\ pkt[p] # <<>> /\ pkt[q] # <<>> /\ (pkt[q][1].hdr => pkt[p][1].hdr)
  /\ Len(want[p]) + Len(want[q]) <= MaxLength
  /\ Done(r.k, (p :> r.c) @@ (q :> <<>>), (p :> want[p] \o want[q]) @@ (q :> <<>>),
          (p :> Len(want[p]) + Len(want[q])) @@ (q :> 0))

Pullup(p, n, allocs) ==
  LET r == m_pullup(Kernel(allocs), pkt[p], n) IN
  /\ pkt[p] # <<>>
  /\ Done(r.k, p :> r.c, p :> IF r.c = <<>> THEN <<>> ELSE want[p], p :> hdrlen[p])

(* The protocols prepend headers: bytes of their own. *)
Prepend(p, n, allocs) ==
  LET bytes == [i \in 1 .. n |-> <<p, MaxLength>>]
      r == M_PREPEND(Kernel(allocs), pkt[p], bytes) IN
  /\ pkt[p] # <<>> /\ n <= MHLEN /\ Len(want[p]) + n <= MaxLength
  /\ Done(r.k, p :> r.c, p :> IF r.c = <<>> THEN <<>> ELSE bytes \o want[p],
          p :> hdrlen[p] + n)

Split(p, q, n, allocs) ==
  LET r == m_split(Kernel(allocs), pkt[p], n) IN
  /\ pkt[p] # <<>> /\ pkt[q] = <<>>
  /\ Done(r.k, (p :> r.c) @@ (q :> r.n),
          IF r.n = <<>> /\ Length(r.c) = Length(pkt[p]) THEN <<>>
          ELSE (p :> SubSeq(want[p], 1, n)) @@ (q :> SubSeq(want[p], n + 1, Len(want[p]))),
          IF r.set THEN (p :> n) @@ (q :> hdrlen[p] - n) ELSE <<>>)

Next ==
  \E p \in Packets, n \in 0 .. MaxLength, allocs \in 0 .. MaxAllocs :
    \/ n > 0 /\ Receive(p, n, allocs)
    \/ n > 0 /\ Pullup(p, n, allocs)
    \/ n > 0 /\ Prepend(p, n, allocs)
    \/ \E q \in Packets :
         \/ Split(p, q, n, allocs)
         \/ \E off \in 0 .. MaxLength : n > 0 /\ Copy(p, q, off, n, allocs)
         \/ allocs = 0 /\ n = 0 /\ Cat(p, q)
    \/ allocs = 0 /\ n = 0 /\ Drop(p)
    \/ allocs = 0 /\ (Adj(p, n) \/ Adj(p, -n))

Spec == Init /\ [][Next]_vars
-----------------------------------------------------------------------------
(* How many mbufs refer to cluster c *)
References(c) ==
  FoldLeft(LAMBDA n, m : n + IF m.ext = c THEN 1 ELSE 0, 0,
           FoldLeft(LAMBDA acc, p : acc \o pkt[p], <<>>, SetToSeq(Packets)))

(* cl_refcnt is the number of mbufs that refer to the cluster, so MCLFREE  *)
(* puts it on the free list with the last of them.                         *)
ClustersCounted == \A c \in Clusters : ref[c] = References(c)

Fits(m) == IF m.ext = NULL THEN m.off >= (IF m.hdr THEN HDR ELSE 0) /\ m.off + m.len <= MLEN
           ELSE m.off + m.len <= Len(buf[m.ext])

(* However packets are received, copied, cut, joined, pulled up, split and *)
(* freed, and whichever allocation fails, each has the bytes it should     *)
(* have, no mbuf reaches past its buffer, the header has the right length, *)
(* and the clusters are counted; until a copy of a cluster is counted in   *)
(* mclrefcnt[], or m_split() fails half way and leaves a wrong length.     *)
PacketsIntact ==
  /\ pkt \in [Packets -> Seq(mbuf)]
  /\ "mclrefcnt" \notin flaws =>
       /\ ClustersCounted
       /\ \A p \in Packets :
            /\ Bytes(Kernel(0), pkt[p]) = want[p]
            /\ \A i \in DOMAIN pkt[p] : Fits(pkt[p][i])
            /\ pkt[p] # <<>> /\ pkt[p][1].hdr /\ "m_split" \notin flaws
                 => hdrlen[p] = Len(want[p])
=============================================================================
