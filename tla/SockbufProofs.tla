---------------------------- MODULE SockbufProofs ----------------------------
(* Proofs about the receive buffer of Sockbuf: the accounting of its mbufs,*)
(* the stream it carries and the window, for any number of readers, any    *)
(* lengths of segments and reads, and buffers of any size.                 *)
EXTENDS Sockbuf, SeqLemmas

Byte == 1 .. MaxBytes

(* What sbcheck() demands of a buffer. *)
Chain(b) ==
  /\ b.cc = Len(Bytes(b))
  /\ b.mbcnt = Charged(b, Len(b.mb))
  /\ \A i \in 1 .. Len(b.mb) : b.mb[i].data # <<>>

(* A buffer with the limits and the flags of another. *)
SameRest(a, b) ==
  /\ a.hiwat = b.hiwat /\ a.mbmax = b.mbmax
  /\ a.lock = b.lock /\ a.want = b.want /\ a.wait = b.wait

-----------------------------------------------------------------------------
(* Mbuf chains                                                             *)

(* imin() is one of its arguments, and at most the other. *)
LEMMA MinTwo ==
  ASSUME NEW a \in Int, NEW b \in Int
  PROVE  /\ imin(a, b) \in Int /\ imin(a, b) <= a /\ imin(a, b) <= b
         /\ imin(a, b) = a \/ imin(a, b) = b
BY DEF imin

(* The fields of the mbufs of a buffer. *)
LEMMA Fields ==
  ASSUME NEW b \in SockBuf
  PROVE  /\ b.mb \in Seq(Mbuf) /\ Len(b.mb) \in Nat
         /\ b.cc \in Nat /\ b.mbcnt \in Nat /\ b.hiwat \in Nat /\ b.mbmax \in Nat
         /\ \A i \in 1 .. Len(b.mb) :
              /\ b.mb[i] \in Mbuf /\ b.mb[i].data \in Seq(Byte) /\ b.mb[i].ext \in BOOLEAN
              /\ b.mb[i].off \in Nat /\ Len(b.mb[i].data) \in Nat /\ Cost(b.mb[i]) \in Nat
<1>1. b.mb \in Seq(Mbuf) /\ Len(b.mb) \in Nat
  BY DEF SockBuf
<1>2. \A i \in 1 .. Len(b.mb) : b.mb[i] \in Mbuf
  BY <1>1
<1>3. ASSUME NEW m \in Mbuf
      PROVE  /\ m.data \in Seq(Byte) /\ m.ext \in BOOLEAN /\ m.off \in Nat
             /\ Len(m.data) \in Nat /\ Cost(m) \in Nat
  <2>1. m.data \in Seq(Byte) /\ m.ext \in BOOLEAN /\ m.off \in Nat
    BY DEF Mbuf, Byte
  <2>2. Cost(m) \in Nat
    BY SockbufAssumption DEF Cost
  <2>3. QED
    BY <2>1, <2>2
<1>4. QED
  BY <1>1, <1>2, <1>3 DEF SockBuf

(* Bytes() is a sequence of bytes, as long as the mbufs are together. *)
LEMMA BytesType ==
  ASSUME NEW b \in SockBuf
  PROVE  /\ Bytes(b) \in Seq(Byte) /\ Len(Bytes(b)) = Filled(b, Len(b.mb))
         /\ Len(Bytes(b)) \in Nat
<1> DEFINE n == Len(b.mb)
           f == [i \in 1 .. n |-> b.mb[i].data]
           l == [j \in 1 .. n |-> Len(b.mb[j].data)]
           h == [i \in 1 .. n |-> Len(f[i])]
<1>1. n \in Nat /\ \A i \in 1 .. n : f[i] \in Seq(Byte)
  BY Fields
<1>2. \A i \in 1 .. n : h[i] = l[i]
  OBVIOUS
<1>3. Bytes(b) = Join(f, n) /\ Filled(b, n) = Total(l, n)
  BY Zenon DEF Bytes, Filled
<1> HIDE DEF l, f
<1>4. Join(f, n) \in Seq(Byte) /\ Len(Join(f, n)) = Total(h, n)
  <2> HIDE DEF n
  <2>1. QED
    BY <1>1, JoinType
<1> HIDE DEF h, n
<1>5. Total(h, n) = Total(l, n)
  BY <1>1, <1>2, SumSame
<1>6. QED
  BY <1>3, <1>4, <1>5 DEF n

(* sbcompress() adds the bytes of an mbuf at the end of the buffer, by a    *)
(* copy into the last mbuf or by a link, and charges for them.              *)
LEMMA Appended ==
  ASSUME NEW b \in SockBuf, Chain(b), NEW m \in Mbuf, m.data # <<>>
  PROVE  /\ sbcompress(b, m) \in SockBuf /\ Chain(sbcompress(b, m))
         /\ SameRest(sbcompress(b, m), b)
         /\ Bytes(sbcompress(b, m)) = Bytes(b) \o m.data
         /\ sbcompress(b, m).cc = b.cc + Len(m.data)
<1> DEFINE L == Len(b.mb)
           d == m.data
           f == [i \in 1 .. L |-> b.mb[i].data]
           c == [i \in 1 .. L |-> Cost(b.mb[i])]
           n == b.mb[L]
           r == sbcompress(b, m)
           F == [i \in 1 .. Len(r.mb) |-> r.mb[i].data]
           C == [i \in 1 .. Len(r.mb) |-> Cost(r.mb[i])]
<1>1. /\ L \in Nat /\ b.mb \in Seq(Mbuf) /\ d \in Seq(Byte) /\ Len(d) \in Nat
      /\ Cost(m) \in Nat /\ b.cc \in Nat /\ b.mbcnt \in Nat
      /\ \A i \in 1 .. L : /\ b.mb[i] \in Mbuf /\ f[i] \in Seq(Byte) /\ c[i] \in Nat
                           /\ f[i] # <<>>
  <2>1. d \in Seq(Byte) /\ m.ext \in BOOLEAN
    BY DEF Mbuf, Byte
  <2>2. Cost(m) \in Nat
    BY SockbufAssumption, <2>1 DEF Cost
  <2>3. \A i \in 1 .. L : f[i] = b.mb[i].data /\ c[i] = Cost(b.mb[i])
    OBVIOUS
  <2> HIDE DEF f, c
  <2>4. \A i \in 1 .. L : f[i] # <<>>
    BY <2>3, Zenon DEF Chain
  <2>5. /\ L \in Nat /\ b.mb \in Seq(Mbuf) /\ b.cc \in Nat /\ b.mbcnt \in Nat
        /\ \A i \in 1 .. L : b.mb[i] \in Mbuf /\ f[i] \in Seq(Byte) /\ c[i] \in Nat
    BY <2>3, Fields
  <2>6. Len(d) \in Nat
    BY <2>1
  <2>7. QED
    BY <2>1, <2>2, <2>4, <2>5, <2>6, Zenon
<1>2. /\ Bytes(b) = Join(f, L) /\ Charged(b, L) = Total(c, L)
      /\ Bytes(r) = Join(F, Len(r.mb)) /\ Charged(r, Len(r.mb)) = Total(C, Len(r.mb))
  BY Zenon DEF Bytes, Charged
<1>3. b.cc = Len(Join(f, L)) /\ b.mbcnt = Total(c, L) /\ Join(f, L) \in Seq(Byte)
  BY <1>2, BytesType DEF Chain
<1>4. Len(Join(f, L) \o d) = b.cc + Len(d)
  <2> HIDE DEF f, d
  <2>1. QED
    BY <1>1, <1>3, ConcatShape
<1>5. CASE b.mb # <<>> /\ ~n.ext /\ n.off + Len(n.data) + Len(d) < MLEN
  <2>1. r = [b EXCEPT !.mb[L].data = @ \o d, !.cc = @ + Len(d)]
    BY <1>5 DEF sbcompress
  <2>2. L \in Nat \ {0} /\ L \in 1 .. L
    BY <1>1, <1>5
  <2>3. n.data \in Seq(Byte) /\ n \in Mbuf /\ f[L] = n.data
    BY <1>1, <2>2
  <2> DEFINE e == n.data \o d
             g == [n EXCEPT !.data = e]
  <2>4. e \in Seq(Byte) /\ Len(e) = Len(n.data) + Len(d)
    <3> HIDE DEF n, d
    <3>1. QED
      BY <1>1, <2>3, ConcatShape
  <2>5. e # <<>>
    <3>1. Len(n.data) \in Nat /\ Len(d) \in Nat \ {0}
      BY <1>1, <2>3
    <3> HIDE DEF e, n, d
    <3>2. QED
      BY <2>4, <3>1
  <2>6. g \in Mbuf /\ g.data = e /\ g.ext = n.ext
    <3> HIDE DEF e, n, d
    <3>1. QED
      BY <2>3, <2>4 DEF Mbuf, Byte
  <2>7. r.mb = [b.mb EXCEPT ![L] = g]
    BY <1>1, <2>1, <2>2 DEF SockBuf
  <2> HIDE DEF g, e, r
  <2>8. r.mb \in Seq(Mbuf) /\ Len(r.mb) = L
    BY <1>1, <2>2, <2>6, <2>7
  <2> DEFINE s == b.mb
             t == Len(d)
  <2>9. r = [b EXCEPT !.mb = r.mb, !.cc = b.cc + t]
    BY <2>1 DEF SockBuf
  <2>10. r \in SockBuf /\ r.cc = b.cc + t /\ r.mbcnt = b.mbcnt /\ SameRest(r, b)
    <3> HIDE DEF t
    <3>1. t \in Nat
      BY <1>1 DEF t
    <3>2. r.cc = b.cc + t /\ r.mbcnt = b.mbcnt /\ SameRest(r, b)
      BY <2>9 DEF SockBuf, SameRest
    <3>3. r \in SockBuf
      <4> DEFINE v == b.cc + t
                 w == r.mb
      <4>1. v \in Nat /\ w \in Seq(Mbuf) /\ r = [b EXCEPT !.mb = w, !.cc = v]
        BY <1>1, <2>8, <2>9, <3>1
      <4> HIDE DEF v, w
      <4>2. QED
        BY <4>1 DEF SockBuf
    <3>4. QED
      BY <3>2, <3>3
  <2>11. (\A i \in 1 .. L - 1 : r.mb[i] = b.mb[i]) /\ r.mb[L] = g
    BY <1>1, <2>2, <2>7
  <2>12. (\A i \in 1 .. L - 1 : F[i] = f[i]) /\ F[L] = f[L] \o d
    <3>1. \A i \in 1 .. L : F[i] = r.mb[i].data /\ f[i] = b.mb[i].data
      BY <2>8
    <3> HIDE DEF f, F, d
    <3>2. F[L] = f[L] \o d
      BY <2>2, <2>3, <2>6, <2>11, <3>1, Zenon DEF e
    <3>3. \A i \in 1 .. L - 1 : i \in 1 .. L
      BY <1>1
    <3>4. QED
      BY <2>11, <3>1, <3>2, <3>3, Zenon
  <2>13. \A i \in 1 .. L : C[i] = c[i]
    <3>1. \A i \in 1 .. L : r.mb[i].ext = b.mb[i].ext
      BY <1>1, <2>2, <2>6, <2>11
    <3>2. \A i \in 1 .. L : C[i] = Cost(r.mb[i]) /\ c[i] = Cost(b.mb[i])
      BY <2>8
    <3>3. \A i \in 1 .. L : Cost(r.mb[i]) = Cost(b.mb[i])
      BY <3>1 DEF Cost
    <3> HIDE DEF C, c
    <3>4. QED
      BY <3>2, <3>3
  <2>17. \A i \in 1 .. Len(r.mb) : r.mb[i].data # <<>>
    <3>1. \A i \in 1 .. L : i = L \/ i \in 1 .. L - 1
      BY <1>1
    <3>2. \A i \in 1 .. L : b.mb[i].data # <<>>
      BY Zenon DEF Chain
    <3>3. QED
      BY <2>5, <2>6, <2>8, <2>11, <3>1, <3>2, Zenon
  <2> HIDE DEF f, c, F, C, d, n
  <2>14. Join(F, L) = Join(f, L) \o d
    <3>1. LastLonger(Byte, F, f, L, d)
      BY <1>1, <2>12, Zenon DEF LastLonger
    <3>2. JoinLonger(F, f, L, d)
      BY <1>1, <2>2, <3>1, JoinExtend, Zenon
    <3>3. QED
      BY <3>2, Zenon DEF JoinLonger
  <2>15. Total(C, L) = Total(c, L)
    BY <1>1, <2>13, SumSame
  <2>16. QED
    BY <1>2, <1>3, <1>4, <2>8, <2>10, <2>17, <2>14, <2>15 DEF Chain, r, d, L
<1>6. CASE ~(b.mb # <<>> /\ ~n.ext /\ n.off + Len(n.data) + Len(d) < MLEN)
  <2>1. r = [b EXCEPT !.mb = Append(@, m), !.cc = @ + Len(d), !.mbcnt = @ + Cost(m)]
    BY <1>6 DEF sbcompress
  <2>2. r.mb = Append(b.mb, m)
    BY <2>1 DEF SockBuf
  <2> HIDE DEF r
  <2>3. r.mb \in Seq(Mbuf) /\ Len(r.mb) = L + 1
    BY <1>1, <2>2
  <2>4. r.cc = b.cc + Len(d) /\ r.mbcnt = b.mbcnt + Cost(m) /\ SameRest(r, b)
    BY <2>1 DEF SockBuf, SameRest
  <2> DEFINE s == r.mb
             t == r.cc
             u == r.mbcnt
  <2>5. r \in SockBuf
    <3>1. t \in Nat /\ u \in Nat
      BY <1>1, <2>4
    <3>2. r = [b EXCEPT !.mb = s, !.cc = t, !.mbcnt = u]
      BY <2>1, <2>2, <2>4, SMTT(30) DEF SockBuf
    <3>3. s \in Seq(Mbuf)
      BY <2>3
    <3> HIDE DEF t, u, s
    <3>4. QED
      BY <3>1, <3>2, <3>3 DEF SockBuf
  <2>6. (\A i \in 1 .. L : r.mb[i] = b.mb[i]) /\ r.mb[L + 1] = m
    BY <1>1, <2>2, <2>3
  <2>7. (\A i \in 1 .. L : F[i] = f[i] /\ C[i] = c[i]) /\ F[L + 1] = d /\ C[L + 1] = Cost(m)
    BY <1>1, <2>3, <2>6
  <2>8. \A i \in 1 .. Len(r.mb) : r.mb[i].data # <<>>
    <3>1. \A i \in 1 .. Len(r.mb) : i = L + 1 \/ i \in 1 .. L
      BY <1>1, <2>3
    <3>2. \A i \in 1 .. L : b.mb[i].data # <<>>
      BY Zenon DEF Chain
    <3>3. QED
      BY <2>6, <3>1, <3>2, Zenon
  <2> HIDE DEF f, c, F, C, d, n, r, L
  <2>9. Join(F, L + 1) = Join(F, L) \o F[L + 1] /\ Total(C, L + 1) = Total(C, L) + C[L + 1]
    <3>1. L + 1 \in Nat \ {0} /\ (L + 1) - 1 = L
      BY <1>1
    <3>2. Join(F, L + 1) = Join(F, (L + 1) - 1) \o F[L + 1]
      BY <3>1, JoinRecursion, Zenon
    <3>3. Total(C, L + 1) = Total(C, (L + 1) - 1) + C[L + 1]
      BY <3>1, SumRecursion, Zenon
    <3>4. QED
      BY <3>1, <3>2, <3>3, Zenon
  <2>10. Join(F, L) = Join(f, L)
    BY <1>1, <2>7, JoinSame
  <2>11. Total(C, L) = Total(c, L)
    BY <1>1, <2>7, SumSame
  <2>12. Join(F, L + 1) = Join(f, L) \o d
    BY <2>7, <2>9, <2>10, Zenon
  <2>13. QED
    BY <1>2, <1>3, <1>4, <2>3, <2>4, <2>5, <2>7, <2>8, <2>9, <2>11, <2>12 DEF Chain, r, d
<1>7. QED
  BY <1>5, <1>6

(* How Filled() adds up. *)
LEMMA FilledSteps ==
  ASSUME NEW b \in SockBuf
  PROVE  /\ Filled(b, 0) = 0
         /\ \A i \in 0 .. Len(b.mb) : Filled(b, i) \in Nat
         /\ \A i \in 1 .. Len(b.mb) : Filled(b, i) = Filled(b, i - 1) + Len(b.mb[i].data)
<1> DEFINE L == Len(b.mb)
           l == [j \in 1 .. L |-> Len(b.mb[j].data)]
<1>1. L \in Nat /\ \A i \in 1 .. L : l[i] = Len(b.mb[i].data) /\ l[i] \in Nat
  BY Fields
<1>2. \A i : Filled(b, i) = Total(l, i)
  BY Zenon DEF Filled
<1> HIDE DEF l
<1>3. \A i \in 0 .. L : Total(l, i) \in Nat
  <2> TAKE i \in 0 .. L
  <2>1. i \in Nat /\ \A j \in 1 .. i : l[j] \in Nat
    BY <1>1
  <2>2. QED
    BY <2>1, SumNat
<1>4. Total(l, 0) = 0 /\ \A i \in 1 .. L : Total(l, i) = Total(l, i - 1) + l[i]
  BY <1>1, SumRecursion
<1>5. QED
  BY <1>1, <1>2, <1>3, <1>4

(* A chain whose bytes are counted as none has no mbufs ("receive 1"). *)
LEMMA EmptyChain ==
  ASSUME NEW b \in SockBuf, Chain(b)
  PROVE  b.cc = 0 <=> b.mb = <<>>
<1> DEFINE L == Len(b.mb)
<1>1. b.cc = Filled(b, L) /\ L \in Nat /\ b.mb \in Seq(Mbuf)
  BY BytesType, Fields DEF Chain
<1>2. ASSUME b.mb # <<>> PROVE b.cc # 0
  <2>1. L \in 1 .. L /\ L - 1 \in 0 .. L
    BY <1>1, <1>2
  <2>2. Filled(b, L) = Filled(b, L - 1) + Len(b.mb[L].data) /\ Filled(b, L - 1) \in Nat
    BY <2>1, FilledSteps
  <2>3. b.mb[L].data \in Seq(Byte)
    BY <2>1, Fields
  <2>4. b.mb[L].data # <<>>
    BY <2>1, Zenon DEF Chain
  <2>5. Len(b.mb[L].data) \in Nat \ {0}
    BY <2>3, <2>4
  <2>6. QED
    BY <1>1, <2>2, <2>5
<1>3. ASSUME b.mb = <<>> PROVE b.cc = 0
  <2>1. L = 0
    BY <1>3
  <2>2. QED
    BY <1>1, <2>1, FilledSteps
<1>4. QED
  BY <1>2, <1>3

(* Some mbuf is the first that n bytes do not empty, or they empty all. *)
LEMMA EmptiedFound ==
  ASSUME NEW b \in SockBuf, Chain(b), NEW n \in Nat, n <= b.cc
  PROVE  /\ Emptied(b, n) \in 0 .. Len(b.mb)
         /\ Filled(b, Emptied(b, n)) <= n
         /\ Emptied(b, n) < Len(b.mb) => n < Filled(b, Emptied(b, n) + 1)
<1> DEFINE L == Len(b.mb)
           T == {j \in Nat : j <= L /\ (j < L => n < Filled(b, j + 1))}
           P(k) == Filled(b, k) <= n /\ (k < L => n < Filled(b, k + 1))
<1>1. L \in Nat /\ L \in T
  BY Fields
<1>2. PICK k \in T : \A y \in T : k <= y
  <2>1. T \in SUBSET Nat /\ T # {}
    BY <1>1
  <2> HIDE DEF T
  <2>2. QED
    BY <2>1, LeastNat
<1>3. Filled(b, k) <= n
  <2>1. CASE k = 0
    BY <2>1, FilledSteps
  <2>2. CASE k # 0
    <3>0. k \in Nat /\ k <= L
      OBVIOUS
    <3>1. k - 1 \in Nat /\ k - 1 < L /\ k - 1 \notin T /\ k \in 0 .. L /\ (k - 1) + 1 = k
      <4>1. k - 1 \in Nat /\ k - 1 < L /\ k \in 0 .. L /\ (k - 1) + 1 = k /\ ~(k <= k - 1)
        BY <1>1, <2>2, <3>0
      <4> HIDE DEF T
      <4>2. QED
        BY <1>2, <4>1
    <3>2. ~(n < Filled(b, k)) /\ Filled(b, k) \in Nat
      BY <1>1, <3>1, FilledSteps
    <3>3. QED
      BY <3>2
  <2>3. QED
    BY <2>1, <2>2
<1>4. k \in 0 .. L /\ P(k)
  BY <1>1, <1>3
<1> HIDE DEF P, T
<1>5. Emptied(b, n) = CHOOSE j \in 0 .. L : P(j)
  BY Zenon DEF Emptied, P
<1>6. Emptied(b, n) \in 0 .. L /\ P(Emptied(b, n))
  BY <1>4, <1>5
<1>7. QED
  BY <1>6 DEF P

(* What is left of a sequence behind its first part. *)
LEMMA Behind ==
  ASSUME NEW S, NEW x, NEW p \in Seq(S), NEW y \in Seq(S), x = p \o y
  PROVE  Len(y) = Len(x) - Len(p) /\ \A i \in 1 .. Len(y) : y[i] = x[Len(p) + i]
<1>1. /\ Len(x) = Len(p) + Len(y) /\ Len(p) \in Nat /\ Len(y) \in Nat
      /\ \A i \in Len(p) + 1 .. Len(p) + Len(y) : x[i] = y[i - Len(p)]
  BY ConcatShape
<1>2. \A i \in 1 .. Len(y) : Len(p) + i \in Len(p) + 1 .. Len(p) + Len(y)
                             /\ (Len(p) + i) - Len(p) = i
  BY <1>1
<1>3. \A i \in 1 .. Len(y) : y[i] = x[Len(p) + i]
  <2> TAKE i \in 1 .. Len(y)
  <2>1. x[Len(p) + i] = y[(Len(p) + i) - Len(p)]
    BY <1>1, <1>2, Zenon
  <2>2. QED
    BY <1>2, <2>1, Zenon
<1>4. QED
  BY <1>1, <1>3

(* The first k mbufs of a chain and the others. *)
LEMMA ChainSplit ==
  ASSUME NEW b \in SockBuf, NEW k \in 0 .. Len(b.mb), NEW s \in Seq(Mbuf),
         Len(s) = Len(b.mb) - k, \A i \in 1 .. Len(s) : s[i] = b.mb[k + i]
  PROVE  /\ \E p \in Seq(Byte) :
              /\ Len(p) = Filled(b, k)
              /\ Bytes(b) = p \o Join([i \in 1 .. Len(s) |-> s[i].data], Len(s))
         /\ Charged(b, Len(b.mb))
              = Charged(b, k) + Total([i \in 1 .. Len(s) |-> Cost(s[i])], Len(s))
         /\ Charged(b, k) \in Nat
<1> DEFINE L == Len(b.mb)
           M == Len(s)
           f == [i \in 1 .. L |-> b.mb[i].data]
           c == [i \in 1 .. L |-> Cost(b.mb[i])]
           G == [i \in 1 .. M |-> s[i].data]
           C == [i \in 1 .. M |-> Cost(s[i])]
           p == Join(f, k)
           h == [i \in 1 .. k |-> Len(f[i])]
           l == [i \in 1 .. L |-> Len(b.mb[i].data)]
<1>1. /\ L \in Nat /\ M \in Nat /\ k \in Nat /\ k + M = L
      /\ \A i \in 1 .. M : i \in Nat /\ k + i \in 1 .. L
      /\ \A i \in 1 .. k : i \in 1 .. L
  <2>1. L \in Nat /\ M \in Nat /\ M = L - k /\ k \in 0 .. L
    BY Fields
  <2> HIDE DEF L, M
  <2>2. QED
    BY <2>1
<1>2. /\ \A i \in 1 .. L : f[i] \in Seq(Byte) /\ c[i] \in Nat /\ c[i] \in Int
      /\ \A i \in 1 .. k : h[i] = Len(f[i]) /\ l[i] = Len(f[i])
  <2>1. \A i \in 1 .. k : h[i] = Len(f[i]) /\ l[i] = Len(f[i])
    BY <1>1
  <2>2. \A i \in 1 .. L : f[i] = b.mb[i].data /\ c[i] = Cost(b.mb[i])
    OBVIOUS
  <2> HIDE DEF f, c
  <2>3. \A i \in 1 .. L : f[i] \in Seq(Byte) /\ c[i] \in Nat
    BY <2>2, Fields, Zenon
  <2>4. \A i \in 1 .. L : c[i] \in Int
    BY <2>3
  <2>5. QED
    BY <2>1, <2>3, <2>4, Zenon
<1>3. \A i \in 1 .. M : G[i] = f[k + i] /\ C[i] = c[k + i]
  BY <1>1
<1>4. Bytes(b) = Join(f, L) /\ Charged(b, L) = Total(c, L) /\ Charged(b, k) = Total(c, k)
      /\ Filled(b, k) = Total(l, k)
  BY Zenon DEF Bytes, Charged, Filled
<1> HIDE DEF f, c, G, C, l, M, L
<1>5. p \in Seq(Byte) /\ Len(p) = Total(h, k)
  BY <1>1, <1>2, JoinType
<1> HIDE DEF h
<1>6. Total(h, k) = Total(l, k)
  BY <1>1, <1>2, SumSame
<1>7. Join(f, L) = p \o Join(G, M)
  <2>1. Follows(Byte, f, G, k, M)
    BY <1>1, <1>2, <1>3, Zenon DEF Follows
  <2>2. Spliced(f, G, k, M)
    BY <1>1, <2>1, JoinSplit, Zenon
  <2>3. QED
    BY <1>1, <2>2, Zenon DEF Spliced
<1>8. Total(c, L) = Total(c, k) + Total(C, M)
  <2>1. (\A i \in 1 .. k + M : c[i] \in Int) /\ \A i \in 1 .. M : C[i] = c[k + i]
    BY <1>1, <1>2, <1>3, Zenon
  <2>2. Total(c, k + M) = Total(c, k) + Total(C, M)
    <3>1. k \in Nat /\ M \in Nat
      BY <1>1
    <3>2. QED
      BY <2>1, <3>1, SumSplit, SMTT(30)
  <2>3. QED
    BY <1>1, <2>2
<1>9. Total(c, k) \in Nat
  BY <1>1, <1>2, SumNat
<1>10. \E q \in Seq(Byte) : Len(q) = Filled(b, k) /\ Bytes(b) = q \o Join(G, M)
  <2>1. Len(p) = Filled(b, k)
    BY <1>4, <1>5, <1>6
  <2>2. Bytes(b) = p \o Join(G, M)
    BY <1>4, <1>7, Zenon
  <2>3. QED
    BY <1>5, <2>1, <2>2, Zenon
<1>11. Charged(b, L) = Charged(b, k) + Total(C, M) /\ Charged(b, k) \in Nat
  BY <1>4, <1>8, <1>9
<1>12. QED
  BY <1>10, <1>11, Zenon DEF G, C, M, L

(* a and e are the two parts of the data d of an mbuf, the first j long. *)
Halves(d, j, a, e) ==
  a \in Seq(Byte) /\ Len(a) = j /\ e \in Seq(Byte) /\ Len(e) = Len(d) - j /\ d = a \o e

(* The part of an mbuf that soreceive() copies, and the part it leaves. *)
LEMMA InHalves ==
  \A d \in Seq(Byte) : \A j \in 0 .. Len(d) :
    Halves(d, j, SubSeq(d, 1, j), SubSeq(d, j + 1, Len(d)))
BY SubSeqSplit, ZenonT(30) DEF Halves

(* The copy loop of soreceive() takes n bytes from the front of the buffer *)
(* and leaves the bytes behind them, in a chain that sbcheck() accepts.    *)
LEMMA TakenKeeps ==
  ASSUME NEW b \in SockBuf, Chain(b), NEW n \in Nat, n <= b.cc
  PROVE  /\ Taken(b, n) \in SockBuf /\ Chain(Taken(b, n)) /\ SameRest(Taken(b, n), b)
         /\ Taken(b, n).cc = b.cc - n
         /\ \A i \in 1 .. Taken(b, n).cc : Bytes(Taken(b, n))[i] = Bytes(b)[n + i]
<1> DEFINE L == Len(b.mb)
           k == Emptied(b, n)
           len == n - Filled(b, k)
           rest == SubSeq(b.mb, k + 1, L)
           r == Taken(b, n)
           G == [i \in 1 .. Len(rest) |-> rest[i].data]
           C == [i \in 1 .. Len(rest) |-> Cost(rest[i])]
           H == [i \in 1 .. Len(r.mb) |-> r.mb[i].data]
           D == [i \in 1 .. Len(r.mb) |-> Cost(r.mb[i])]
           cut == IF len = 0 THEN rest
                  ELSE [rest EXCEPT ![1].data = SubSeq(@, len + 1, Len(@)),
                                    ![1].off = @ + len]
<1>1. r = [b EXCEPT !.mb = cut, !.cc = @ - n, !.mbcnt = @ - Charged(b, k)]
  BY Zenon DEF Taken
<1>2. /\ L \in Nat /\ b.mb \in Seq(Mbuf) /\ b.cc \in Nat /\ b.mbcnt \in Nat
      /\ k \in 0 .. L /\ Filled(b, k) <= n /\ (k < L => n < Filled(b, k + 1))
  BY Fields, EmptiedFound
<1>3. Filled(b, k) \in Nat /\ len \in Nat /\ Filled(b, L) = b.cc
  <2>1. Filled(b, k) \in Nat
    BY <1>2, FilledSteps
  <2>2. Filled(b, L) = b.cc
    BY BytesType DEF Chain
  <2>3. QED
    BY <1>2, <2>1, <2>2
<1> HIDE DEF k
<1>4. /\ rest \in Seq(Mbuf) /\ Len(rest) = L - k /\ Len(rest) \in Nat
      /\ \A i \in 1 .. Len(rest) : rest[i] = b.mb[k + i]
  <2>1. \A i \in k + 1 .. L : b.mb[i] \in Mbuf
    BY <1>2
  <2>2. /\ rest \in Seq(Mbuf)
        /\ Len(rest) = IF k + 1 <= L THEN L - (k + 1) + 1 ELSE 0
        /\ \A i \in 1 .. L - (k + 1) + 1 : rest[i] = b.mb[(k + 1) + i - 1]
    BY <1>2, <2>1, SubSeqProperties
  <2> HIDE DEF rest
  <2>3. Len(rest) = L - k
    BY <1>2, <2>2
  <2>4. \A i \in 1 .. Len(rest) : i \in 1 .. L - (k + 1) + 1 /\ (k + 1) + i - 1 = k + i
    BY <1>2, <2>3
  <2>5. \A i \in 1 .. Len(rest) : rest[i] = b.mb[k + i]
    BY <2>2, <2>4
  <2>6. QED
    BY <1>2, <2>2, <2>3, <2>5
<1>5. \A i \in 1 .. Len(rest) : rest[i].data \in Seq(Byte) /\ rest[i].data # <<>>
  <2>1. \A i \in 1 .. Len(rest) : k + i \in 1 .. L
    BY <1>2, <1>4
  <2>2. \A i \in 1 .. Len(rest) : rest[i].data \in Seq(Byte)
    BY <1>4, <2>1, Fields
  <2>3. \A i \in 1 .. L : b.mb[i].data # <<>>
    BY Zenon DEF Chain
  <2>4. QED
    BY <1>4, <2>1, <2>2, <2>3, Zenon
<1> HIDE DEF rest, G, C
<1>6. PICK p \in Seq(Byte) :
        Len(p) = Filled(b, k) /\ Bytes(b) = p \o Join(G, Len(rest))
  BY <1>2, <1>4, ChainSplit DEF G
<1>7. Charged(b, L) = Charged(b, k) + Total(C, Len(rest)) /\ Charged(b, k) \in Nat
  BY <1>2, <1>4, ChainSplit DEF C
<1> DEFINE Good ==
      /\ r.mb \in Seq(Mbuf) /\ \A i \in 1 .. Len(r.mb) : r.mb[i].data # <<>>
      /\ Total(D, Len(r.mb)) = Total(C, Len(rest))
      /\ \E q \in Seq(Byte) : Len(q) = n /\ Bytes(b) = q \o Join(H, Len(r.mb))
<1>8. ASSUME len = 0 PROVE Good
  <2>1. r.mb = rest
    BY <1>1, <1>8 DEF SockBuf
  <2>2. H = G /\ D = C
    BY <2>1, Zenon DEF G, C
  <2>3. Len(p) = n
    BY <1>2, <1>3, <1>6, <1>8
  <2> HIDE DEF r, H, D
  <2>4. QED
    BY <1>4, <1>5, <1>6, <2>1, <2>2, <2>3, Zenon
<1>9. ASSUME len # 0 PROVE Good
  <2> DEFINE m == rest[1]
             d == m.data
             a == SubSeq(d, 1, len)
             e == SubSeq(d, len + 1, Len(d))
             g == [m EXCEPT !.data = e, !.off = @ + len]
  <2>1. k < L /\ k + 1 \in 1 .. L /\ 1 \in 1 .. Len(rest) /\ Len(rest) \in Nat \ {0}
    BY <1>2, <1>3, <1>4, <1>9
  <2>2. m \in Mbuf /\ d \in Seq(Byte) /\ m = b.mb[k + 1]
    BY <1>4, <1>5, <2>1
  <2>3. len < Len(d) /\ Len(d) \in Nat /\ len \in Nat \ {0}
    <3>1. Filled(b, k + 1) = Filled(b, (k + 1) - 1) + Len(b.mb[k + 1].data) /\ (k + 1) - 1 = k
      BY <1>2, <2>1, FilledSteps
    <3>2. Filled(b, k + 1) = Filled(b, k) + Len(d) /\ n < Filled(b, k + 1)
      BY <1>2, <2>1, <2>2, <3>1
    <3>3. Len(d) \in Nat
      BY <2>2
    <3> HIDE DEF d
    <3>4. QED
      BY <1>3, <1>9, <3>2, <3>3
  <2> HIDE DEF len
  <2>4. a \in Seq(Byte) /\ Len(a) = len /\ e \in Seq(Byte) /\ Len(e) = Len(d) - len /\ d = a \o e
    <3> HIDE DEF d
    <3>1. len \in 0 .. Len(d)
      BY <2>3
    <3>2. QED
      BY <2>2, <3>1, InHalves, Zenon DEF Halves
  <2>5. e # <<>>
    <3> HIDE DEF e
    <3>1. QED
      BY <2>3, <2>4
  <2> HIDE DEF a, e
  <2>6. g \in Mbuf /\ g.data = e /\ g.ext = m.ext
    <3> DEFINE o == m.off + len
    <3>1. o \in Nat /\ g = [m EXCEPT !.data = e, !.off = o]
      BY <2>2, <2>3 DEF Mbuf
    <3> HIDE DEF m, o
    <3>2. QED
      BY <2>2, <2>4, <3>1 DEF Mbuf, Byte
  <2>7. r.mb = [rest EXCEPT ![1] = g]
    <3>1. r.mb = cut
      BY <1>1 DEF SockBuf
    <3>2. QED
      BY <1>4, <1>9, <2>1, <2>2, <3>1 DEF e, Mbuf
  <2> HIDE DEF g, m, r
  <2>8. /\ r.mb \in Seq(Mbuf) /\ Len(r.mb) = Len(rest) /\ r.mb[1] = g
        /\ \A i \in 2 .. Len(rest) : r.mb[i] = rest[i]
    BY <1>4, <2>1, <2>6, <2>7
  <2>9. \A i \in 1 .. Len(rest) : i = 1 \/ i \in 2 .. Len(rest)
    BY <1>4
  <2>10. \A i \in 1 .. Len(r.mb) : r.mb[i].data \in Seq(Byte) /\ r.mb[i].data # <<>>
    <3>1. \A i \in 2 .. Len(rest) : i \in 1 .. Len(rest)
      BY <1>4
    <3>2. QED
      BY <1>5, <2>4, <2>5, <2>6, <2>8, <2>9, <3>1, Zenon
  <2>11. Total(D, Len(r.mb)) = Total(C, Len(rest))
    <3>1. \A i \in 1 .. Len(rest) : D[i] = Cost(r.mb[i]) /\ C[i] = Cost(rest[i])
      BY <2>8 DEF C
    <3>2. \A i \in 1 .. Len(rest) : r.mb[i].ext = rest[i].ext
      BY <2>6, <2>8, <2>9, Zenon DEF m
    <3>3. \A i \in 1 .. Len(rest) : Cost(r.mb[i]) = Cost(rest[i])
      BY <3>2 DEF Cost
    <3> HIDE DEF D
    <3>4. \A i \in 1 .. Len(rest) : D[i] = C[i]
      BY <3>1, <3>3
    <3>5. QED
      BY <1>4, <2>8, <3>4, SumSame
  <2>12. Join(G, Len(rest)) = a \o Join(H, Len(r.mb))
    <3>1. \A i \in 1 .. Len(rest) : H[i] = r.mb[i].data /\ G[i] = rest[i].data
      BY <2>8 DEF G
    <3>2. \A i \in 2 .. Len(rest) : i \in 1 .. Len(rest)
      BY <1>4
    <3> HIDE DEF H, d
    <3>3. FirstLonger(Byte, G, H, Len(rest), a)
      <4>1. G[1] = a \o H[1]
        BY <2>1, <2>4, <2>6, <2>8, <3>1, Zenon DEF d, m
      <4>2. \A i \in 1 .. Len(rest) : H[i] \in Seq(Byte)
        BY <2>8, <2>10, <3>1, Zenon
      <4>3. \A i \in 2 .. Len(rest) : G[i] = H[i]
        BY <2>8, <3>1, <3>2, Zenon
      <4>4. QED
        BY <4>1, <4>2, <4>3, Zenon DEF FirstLonger
    <3>4. JoinPreceded(G, H, Len(rest), a)
      BY <2>1, <2>4, <3>3, JoinTrim, Zenon
    <3>5. QED
      BY <2>8, <3>4, Zenon DEF JoinPreceded
  <2>13. Join(H, Len(r.mb)) \in Seq(Byte)
    <3>1. \A i \in 1 .. Len(r.mb) : H[i] \in Seq(Byte)
      BY <2>10
    <3>2. Len(r.mb) \in Nat
      BY <1>4, <2>8
    <3> HIDE DEF H
    <3>3. QED
      BY <3>1, <3>2, JoinType
  <2> DEFINE y == Join(H, Len(r.mb))
  <2> HIDE DEF y
  <2>14. Bytes(b) = (p \o a) \o y
    <3>1. Assoc(p, a, y)
      BY <2>4, <2>13, Associative, Zenon DEF y
    <3>2. QED
      BY <1>6, <2>12, <3>1, Zenon DEF Assoc, y
  <2>15. p \o a \in Seq(Byte) /\ Len(p \o a) = n
    <3>1. p \o a \in Seq(Byte) /\ Len(p \o a) = Len(p) + Len(a)
      BY <2>4, ConcatShape
    <3>2. QED
      BY <1>2, <1>3, <1>6, <2>4, <3>1 DEF len
  <2>16. QED
    BY <2>8, <2>10, <2>11, <2>14, <2>15, Zenon DEF y
<1>10. Good
  BY <1>8, <1>9
<1>11. r.cc = b.cc - n /\ r.mbcnt = b.mbcnt - Charged(b, k) /\ SameRest(r, b)
  BY <1>1 DEF SockBuf, SameRest
<1>12. Bytes(r) = Join(H, Len(r.mb)) /\ Charged(r, Len(r.mb)) = Total(D, Len(r.mb))
  BY Zenon DEF Bytes, Charged
<1>13. r.cc \in Nat /\ r.mbcnt \in Nat /\ r.mbcnt = Total(D, Len(r.mb))
  <2>1. Total(C, Len(rest)) \in Nat
    <3>1. \A i \in 1 .. Len(rest) : C[i] \in Nat
      <4>1. \A i \in 1 .. Len(rest) : k + i \in 1 .. L
        BY <1>2, <1>4
      <4>2. \A i \in 1 .. Len(rest) : Cost(rest[i]) \in Nat
        BY <1>4, <4>1, Fields, Zenon
      <4>3. QED
        BY <4>2 DEF C
    <3>2. QED
      BY <1>4, <3>1, SumNat
  <2>2. b.mbcnt = Charged(b, L)
    BY DEF Chain
  <2>3. Total(D, Len(r.mb)) = Total(C, Len(rest))
    BY <1>10, Zenon
  <2> DEFINE v == Charged(b, k)
             w == Total(C, Len(rest))
  <2>4. b.mbcnt = v + w /\ v \in Nat /\ w \in Nat /\ r.mbcnt = b.mbcnt - v
    BY <1>7, <1>11, <2>1, <2>2
  <2>5. b.cc \in Nat /\ r.cc = b.cc - n
    BY <1>2, <1>11
  <2> HIDE DEF r, v, w
  <2>6. r.cc \in Nat /\ r.mbcnt \in Nat /\ r.mbcnt = w
    BY <2>4, <2>5
  <2>7. QED
    BY <2>3, <2>6, Zenon DEF w
<1>14. r \in SockBuf
  <2> DEFINE s == r.mb
             t == r.cc
             u == r.mbcnt
  <2>1. r = [b EXCEPT !.mb = s, !.cc = t, !.mbcnt = u] /\ s \in Seq(Mbuf)
    BY <1>1, <1>10 DEF SockBuf
  <2>2. t \in Nat /\ u \in Nat
    BY <1>13
  <2> HIDE DEF r, s, t, u
  <2>3. QED
    BY <2>1, <2>2 DEF SockBuf
<1> HIDE DEF r, H, D
<1>15. PICK q \in Seq(Byte) : Len(q) = n /\ Bytes(b) = q \o Bytes(r)
  BY <1>10, <1>12, Zenon
<1>16. Bytes(r) \in Seq(Byte) /\ Len(Bytes(b)) = b.cc
  BY <1>14, BytesType DEF Chain
<1> DEFINE x == Bytes(b)
           y == Bytes(r)
<1> HIDE DEF x, y
<1>17. Len(y) = Len(x) - Len(q) /\ \A i \in 1 .. Len(y) : y[i] = x[Len(q) + i]
  <2>1. x = q \o y /\ y \in Seq(Byte)
    BY <1>15, <1>16, Zenon DEF x, y
  <2>2. QED
    BY <2>1, Behind
<1>18. r.cc = Len(y) /\ \A i \in 1 .. r.cc : y[i] = x[n + i]
  BY <1>11, <1>15, <1>16, <1>17 DEF x
<1>19. Chain(r)
  BY <1>10, <1>12, <1>13, <1>18, Zenon DEF Chain, y
<1>20. QED
  BY <1>11, <1>14, <1>18, <1>19 DEF r, x, y

-----------------------------------------------------------------------------
(* What the functions on the kernel's state change                         *)

KernelState ==
  [sb : SockBuf, rd : [Readers -> Reader], so : Socket]

(* Two buffers with the same bytes and limits; two readers in the same     *)
(* call, as far along.                                                     *)
SameData(a, b) ==
  a.mb = b.mb /\ a.cc = b.cc /\ a.mbcnt = b.mbcnt /\ a.hiwat = b.hiwat /\ a.mbmax = b.mbmax

SameRead(p, q) == p.call = q.call /\ p.resid = q.resid /\ p.got = q.got

(* A state with the buffer b. *)
LEMMA WithBuffer ==
  ASSUME NEW k \in KernelState, NEW b \in SockBuf
  PROVE  /\ [k EXCEPT !.sb = b] \in KernelState /\ [k EXCEPT !.sb = b].sb = b
         /\ [k EXCEPT !.sb = b].rd = k.rd /\ [k EXCEPT !.sb = b].so = k.so
BY DEF KernelState

(* A state with the readers f. *)
LEMMA WithReaders ==
  ASSUME NEW k \in KernelState, NEW f \in [Readers -> Reader]
  PROVE  /\ [k EXCEPT !.rd = f] \in KernelState /\ [k EXCEPT !.rd = f].rd = f
         /\ [k EXCEPT !.rd = f].sb = k.sb /\ [k EXCEPT !.rd = f].so = k.so
BY DEF KernelState

(* A state with the socket s. *)
LEMMA WithSocket ==
  ASSUME NEW k \in KernelState, NEW s \in Socket
  PROVE  /\ [k EXCEPT !.so = s] \in KernelState /\ [k EXCEPT !.so = s].so = s
         /\ [k EXCEPT !.so = s].sb = k.sb /\ [k EXCEPT !.so = s].rd = k.rd
BY DEF KernelState

(* The parts of a state. *)
LEMMA StateParts ==
  ASSUME NEW k \in KernelState
  PROVE  /\ k.sb \in SockBuf /\ k.rd \in [Readers -> Reader]
         /\ k.so \in Socket
         /\ \A r \in Readers : k.rd[r] \in Reader
BY DEF KernelState

(* The flags of a buffer. *)
LEMMA WithFlags ==
  ASSUME NEW b \in SockBuf, NEW l \in BOOLEAN, NEW w \in BOOLEAN, NEW v \in BOOLEAN
  PROVE  LET c == [b EXCEPT !.lock = l, !.want = w, !.wait = v]
         IN  /\ c \in SockBuf /\ SameData(c, b)
             /\ (c.lock <=> l) /\ (c.want <=> w) /\ (c.wait <=> v)
BY DEF SockBuf, SameData

(* wakeup() wakes the threads of its channel and no other. *)
LEMMA Woken ==
  ASSUME NEW k \in KernelState, NEW pcs
  PROVE  /\ Wakes(k, pcs) \in [Readers -> Reader]
         /\ \A r \in Readers :
              /\ SameRead(Wakes(k, pcs)[r], k.rd[r]) /\ Wakes(k, pcs)[r].pc = k.rd[r].pc
              /\ k.rd[r].awake => Wakes(k, pcs)[r].awake
              /\ k.rd[r].pc \in pcs => Wakes(k, pcs)[r].awake
<1> DEFINE w == Wakes(k, pcs)
<1>1. \A r \in Readers : k.rd[r] \in Reader
  BY StateParts
<1>2. ASSUME NEW q \in Reader
      PROVE  LET p == [q EXCEPT !.awake = TRUE]
             IN  p \in Reader /\ SameRead(p, q) /\ p.pc = q.pc /\ p.awake
  BY DEF Reader, SameRead
<1>3. \A r \in Readers : w[r] = IF k.rd[r].pc \in pcs THEN [k.rd[r] EXCEPT !.awake = TRUE]
                                                      ELSE k.rd[r]
  BY DEF Wakes
<1>4. w = [r \in Readers |-> w[r]]
  BY DEF Wakes
<1> HIDE DEF w
<1>5. \A r \in Readers :
        /\ w[r] \in Reader /\ SameRead(w[r], k.rd[r]) /\ w[r].pc = k.rd[r].pc
        /\ k.rd[r].awake => w[r].awake
        /\ k.rd[r].pc \in pcs => w[r].awake
  <2> TAKE r \in Readers
  <2>1. CASE k.rd[r].pc \in pcs
    <3>1. w[r] = [k.rd[r] EXCEPT !.awake = TRUE]
      BY <1>3, <2>1
    <3>2. QED
      BY <1>1, <1>2, <3>1, Zenon
  <2>2. CASE k.rd[r].pc \notin pcs
    <3>1. w[r] = k.rd[r]
      BY <1>3, <2>2
    <3>2. QED
      BY <1>1, <2>2, <3>1 DEF SameRead
  <2>3. QED
    BY <2>1, <2>2
<1>6. QED
  BY <1>4, <1>5 DEF w

(* u is k after sbunlock(): the lock is free, and who slept for it is woken. *)
Unlocked(k, u) ==
  /\ u \in KernelState /\ u.so = k.so /\ SameData(u.sb, k.sb)
  /\ ~u.sb.lock /\ ~u.sb.want /\ (k.sb.wait => u.sb.wait)
  /\ \A r \in Readers :
       /\ SameRead(u.rd[r], k.rd[r]) /\ u.rd[r].pc = k.rd[r].pc
       /\ k.rd[r].awake => u.rd[r].awake
       /\ k.rd[r].pc = "lock" /\ k.sb.want => u.rd[r].awake

(* sbunlock() only moves the lock, its mark and who is awake. *)
LEMMA UnlockEffect ==
  ASSUME NEW k \in KernelState
  PROVE  Unlocked(k, sbunlock(k))
<1> DEFINE b1 == [k.sb EXCEPT !.lock = FALSE]
           b2 == [k.sb EXCEPT !.lock = FALSE, !.want = FALSE]
           w == Wakes(k, {"lock"})
<1>1. k.sb \in SockBuf /\ k.rd \in [Readers -> Reader]
  BY StateParts
<1>2. /\ b1 \in SockBuf /\ SameData(b1, k.sb) /\ ~b1.lock /\ (b1.want <=> k.sb.want)
      /\ (b1.wait <=> k.sb.wait)
      /\ b2 \in SockBuf /\ SameData(b2, k.sb) /\ ~b2.lock /\ ~b2.want
      /\ (b2.wait <=> k.sb.wait)
  BY <1>1 DEF SockBuf, SameData
<1>3. /\ w \in [Readers -> Reader]
      /\ \A r \in Readers :
           /\ SameRead(w[r], k.rd[r]) /\ w[r].pc = k.rd[r].pc
           /\ k.rd[r].awake => w[r].awake
           /\ k.rd[r].pc = "lock" => w[r].awake
  <2>1. \A x : x = "lock" => x \in {"lock"}
    OBVIOUS
  <2>2. QED
    BY <2>1, Woken
<1>4. CASE k.sb.want
  <2> DEFINE k2 == [k EXCEPT !.sb = b2]
  <2>1. sbunlock(k) = [k2 EXCEPT !.rd = w]
    BY <1>4 DEF sbunlock, KernelState
  <2> HIDE DEF b2, w
  <2>2. k2 \in KernelState /\ k2.sb = b2 /\ k2.so = k.so
    BY <1>2, WithBuffer
  <2> HIDE DEF k2
  <2> DEFINE u == [k2 EXCEPT !.rd = w]
  <2>3. u \in KernelState /\ u.sb = b2 /\ u.so = k.so /\ u.rd = w
    BY <1>3, <2>2, WithReaders
  <2> HIDE DEF u
  <2>4. Unlocked(k, u)
    BY <1>2, <1>3, <2>3 DEF Unlocked
  <2>5. QED
    BY <2>1, <2>4 DEF u
<1>5. CASE ~k.sb.want
  <2>1. sbunlock(k) = [k EXCEPT !.sb = b1]
    BY <1>5 DEF sbunlock, KernelState
  <2> HIDE DEF b1
  <2> DEFINE u == [k EXCEPT !.sb = b1]
  <2>2. u \in KernelState /\ u.sb = b1 /\ u.so = k.so /\ u.rd = k.rd
    BY <1>2, WithBuffer
  <2> HIDE DEF u
  <2>3. Unlocked(k, u)
    BY <1>2, <1>5, <2>2 DEF Unlocked, SameRead
  <2>4. QED
    BY <2>1, <2>3 DEF u
<1>6. QED
  BY <1>4, <1>5

(* u is k after sowakeup(): who slept for data, and left a mark, is woken. *)
WokenUp(k, u) ==
  /\ u \in KernelState /\ u.so = k.so /\ SameData(u.sb, k.sb)
  /\ (u.sb.lock <=> k.sb.lock) /\ (u.sb.want <=> k.sb.want)
  /\ \A r \in Readers :
       /\ SameRead(u.rd[r], k.rd[r]) /\ u.rd[r].pc = k.rd[r].pc
       /\ k.rd[r].awake => u.rd[r].awake
       /\ k.rd[r].pc \in {"wait", "all"} /\ k.sb.wait => u.rd[r].awake

(* sowakeup() only clears its mark and wakes those who wait for data. *)
LEMMA WakeupEffect ==
  ASSUME NEW k \in KernelState
  PROVE  WokenUp(k, sowakeup(k))
<1> DEFINE b2 == [k.sb EXCEPT !.wait = FALSE]
           w == Wakes(k, {"wait", "all"})
<1>1. k.sb \in SockBuf /\ k.rd \in [Readers -> Reader]
  BY StateParts
<1>2. /\ b2 \in SockBuf /\ SameData(b2, k.sb) /\ (b2.lock <=> k.sb.lock)
      /\ (b2.want <=> k.sb.want)
  BY <1>1 DEF SockBuf, SameData
<1>3. /\ w \in [Readers -> Reader]
      /\ \A r \in Readers :
           /\ SameRead(w[r], k.rd[r]) /\ w[r].pc = k.rd[r].pc
           /\ k.rd[r].awake => w[r].awake
           /\ k.rd[r].pc \in {"wait", "all"} => w[r].awake
  BY Woken
<1>4. CASE k.sb.wait
  <2> DEFINE k2 == [k EXCEPT !.sb = b2]
  <2>1. sowakeup(k) = [k2 EXCEPT !.rd = w]
    BY <1>4 DEF sowakeup, KernelState
  <2> HIDE DEF b2, w
  <2>2. k2 \in KernelState /\ k2.sb = b2 /\ k2.so = k.so
    BY <1>2, WithBuffer
  <2> HIDE DEF k2
  <2> DEFINE u == [k2 EXCEPT !.rd = w]
  <2>3. u \in KernelState /\ u.sb = b2 /\ u.so = k.so /\ u.rd = w
    BY <1>3, <2>2, WithReaders
  <2> HIDE DEF u
  <2>4. WokenUp(k, u)
    BY <1>2, <1>3, <2>3 DEF WokenUp
  <2>5. QED
    BY <2>1, <2>4 DEF u
<1>5. CASE ~k.sb.wait
  <2>1. sowakeup(k) = k
    BY <1>5 DEF sowakeup
  <2>2. WokenUp(k, k)
    BY <1>5 DEF WokenUp, SameRead, SameData
  <2>3. QED
    BY <2>1, <2>2
<1>6. QED
  BY <1>4, <1>5

(* u is k with reader r at pc, not woken yet. *)
Stopped(k, u, r, pc) ==
  /\ u \in KernelState /\ u.so = k.so
  /\ SameRead(u.rd[r], k.rd[r]) /\ u.rd[r].pc = pc /\ ~u.rd[r].awake
  /\ \A q \in Readers \ {r} : u.rd[q] = k.rd[q]

(* A reader that is put elsewhere keeps its call and its bytes. *)
LEMMA StopEffect ==
  ASSUME NEW k \in KernelState, NEW r \in Readers,
         NEW pc \in {"user", "lock", "wait", "all"}
  PROVE  LET u == [k EXCEPT !.rd[r].pc = pc, !.rd[r].awake = FALSE]
         IN  Stopped(k, u, r, pc) /\ u.sb = k.sb
<1> DEFINE q == [k.rd[r] EXCEPT !.pc = pc, !.awake = FALSE]
           f == [k.rd EXCEPT ![r] = q]
           u == [k EXCEPT !.rd[r].pc = pc, !.rd[r].awake = FALSE]
<1>1. k.rd \in [Readers -> Reader] /\ k.rd[r] \in Reader
  BY StateParts
<1>2. q \in Reader /\ SameRead(q, k.rd[r]) /\ q.pc = pc /\ ~q.awake
  BY <1>1 DEF Reader, SameRead
<1>3. u = [k EXCEPT !.rd = f]
  BY <1>1 DEF KernelState
<1> HIDE DEF q, u
<1>4. f \in [Readers -> Reader] /\ f[r] = q /\ \A p \in Readers \ {r} : f[p] = k.rd[p]
  BY <1>1, <1>2
<1> HIDE DEF f
<1>5. u \in KernelState /\ u.rd = f /\ u.sb = k.sb /\ u.so = k.so
  BY <1>3, <1>4, WithReaders
<1>6. Stopped(k, u, r, pc) /\ u.sb = k.sb
  BY <1>2, <1>4, <1>5 DEF Stopped
<1>7. QED
  BY <1>6 DEF u

(* Return() unlocks and goes back to user code. *)
LEMMA ReturnEffect ==
  ASSUME NEW k \in KernelState, NEW r \in Readers
  PROVE  /\ Unlocked(k, sbunlock(k))
         /\ Stopped(sbunlock(k), Return(k, r), r, "user") /\ Return(k, r).sb = sbunlock(k).sb
<1> DEFINE u == sbunlock(k)
<1>1. Unlocked(k, u) /\ u \in KernelState
  BY UnlockEffect DEF Unlocked
<1>2. Return(k, r) = [u EXCEPT !.rd[r].pc = "user", !.rd[r].awake = FALSE]
  BY DEF Return
<1> HIDE DEF u
<1> DEFINE v == [u EXCEPT !.rd[r].pc = "user", !.rd[r].awake = FALSE]
<1>3. Stopped(u, Return(k, r), r, "user") /\ Return(k, r).sb = u.sb
  <2>1. "user" \in {"user", "lock", "wait", "all"}
    OBVIOUS
  <2>2. Stopped(u, v, r, "user") /\ v.sb = u.sb
    BY <1>1, <2>1, StopEffect
  <2> HIDE DEF v
  <2>3. Return(k, r) = v
    BY <1>2, Zenon DEF v
  <2>4. QED
    BY <2>2, <2>3, Zenon
<1>4. QED
  BY <1>1, <1>3, Zenon DEF u

(* sbwait() marks the buffer and sleeps. *)
LEMMA SbwaitEffect ==
  ASSUME NEW k \in KernelState, NEW r \in Readers, NEW pc \in {"wait", "all"}
  PROVE  /\ Stopped(k, sbwait(k, r, pc), r, pc) /\ SameData(sbwait(k, r, pc).sb, k.sb)
         /\ sbwait(k, r, pc).sb.wait /\ (sbwait(k, r, pc).sb.lock <=> k.sb.lock)
         /\ (sbwait(k, r, pc).sb.want <=> k.sb.want)
<1> DEFINE b == [k.sb EXCEPT !.wait = TRUE]
           k2 == [k EXCEPT !.sb = b]
           u == [k2 EXCEPT !.rd[r].pc = pc, !.rd[r].awake = FALSE]
<1>1. k.sb \in SockBuf
  BY StateParts
<1>2. b \in SockBuf /\ SameData(b, k.sb) /\ b.wait /\ (b.lock <=> k.sb.lock) /\ (b.want <=> k.sb.want)
  BY <1>1 DEF SockBuf, SameData
<1>3. sbwait(k, r, pc) = u
  BY DEF sbwait, KernelState
<1> HIDE DEF b
<1>4. k2 \in KernelState /\ k2.sb = b /\ k2.rd = k.rd /\ k2.so = k.so
  BY <1>2, WithBuffer
<1> HIDE DEF k2
<1>5. Stopped(k2, u, r, pc) /\ u.sb = k2.sb
  BY <1>4, StopEffect, ZenonT(30)
<1> HIDE DEF u
<1>6. QED
  BY <1>2, <1>3, <1>4, <1>5 DEF Stopped

(* The state of Copy() when the bytes have been copied. *)
Much(k, r) == imin(k.rd[r].resid, k.sb.cc)

Copied(k, r) ==
  [k EXCEPT !.sb = Taken(@, Much(k, r)), !.rd[r].resid = @ - Much(k, r),
            !.rd[r].got = @ \o SubSeq(Bytes(k.sb), 1, Much(k, r)),
            !.so.read = @ \o SubSeq(Bytes(k.sb), 1, Much(k, r))]

(* u is k after reader r has taken n bytes. *)
TookBytes(k, u, r, n) ==
  /\ u \in KernelState /\ u.sb = Taken(k.sb, n)
  /\ u.so.error = k.so.error /\ u.so.cantrcv = k.so.cantrcv
  /\ u.so.read = k.so.read \o SubSeq(Bytes(k.sb), 1, n)
  /\ u.rd[r].pc = k.rd[r].pc /\ u.rd[r].call = k.rd[r].call
  /\ u.rd[r].resid = k.rd[r].resid - n
  /\ u.rd[r].got = k.rd[r].got \o SubSeq(Bytes(k.sb), 1, n)
  /\ \A q \in Readers \ {r} : u.rd[q] = k.rd[q]

(* The copy of soreceive() gives the reader what it takes off the chain. *)
LEMMA CopiedEffect ==
  ASSUME NEW k \in KernelState, Chain(k.sb), NEW r \in Readers
  PROVE  /\ Much(k, r) \in Nat /\ Much(k, r) <= k.sb.cc
         /\ Much(k, r) = k.rd[r].resid \/ Much(k, r) = k.sb.cc
         /\ TookBytes(k, Copied(k, r), r, Much(k, r))
<1> DEFINE n == Much(k, r)
           p == k.rd[r]
           t == SubSeq(Bytes(k.sb), 1, n)
           b == Taken(k.sb, n)
<1>1. k.sb \in SockBuf /\ k.rd \in [Readers -> Reader] /\ p \in Reader
  BY StateParts
<1>2. p.resid \in Nat /\ p.got \in Seq(Byte) /\ k.sb.cc \in Nat
  BY <1>1, Fields DEF Reader, Byte
<1>3. n \in Nat /\ n <= k.sb.cc /\ n <= p.resid /\ (n = p.resid \/ n = k.sb.cc)
  <2> DEFINE x == p.resid
             y == k.sb.cc
  <2>1. x \in Int /\ y \in Int /\ x \in Nat /\ y \in Nat /\ n = imin(x, y)
    BY <1>2 DEF Much
  <2> HIDE DEF x, y, n
  <2>2. n \in Int /\ n <= x /\ n <= y /\ (n = x \/ n = y)
    BY <2>1, MinTwo, Zenon
  <2>3. QED
    BY <2>1, <2>2 DEF x, y
<1>4. b \in SockBuf
  <2> HIDE DEF n
  <2>1. QED
    BY <1>1, <1>3, TakenKeeps
<1>5. t \in Seq(Byte)
  <2>1. Bytes(k.sb) \in Seq(Byte) /\ n \in 0 .. Len(Bytes(k.sb))
    BY <1>1, <1>3, BytesType DEF Chain
  <2> HIDE DEF n
  <2>2. QED
    BY <2>1, SubSeqSplit
<1> DEFINE g == p.got \o t
           m == p.resid - n
           s == [p EXCEPT !.resid = m, !.got = g]
           f == [k.rd EXCEPT ![r] = s]
           k1 == [k EXCEPT !.sb = b]
           k2 == [k1 EXCEPT !.rd = f]
           x == k.so.read \o t
           z == [k.so EXCEPT !.read = x]
           u == [k2 EXCEPT !.so = z]
<1>6. Copied(k, r) = u
  BY <1>1 DEF Copied, KernelState
<1> HIDE DEF n
<1>7. g \in Seq(Byte) /\ m \in Nat /\ x \in Seq(Byte)
  <2>1. m \in Nat
    BY <1>2, <1>3
  <2>2. k.so.read \in Seq(Byte)
    BY StateParts DEF Socket, Byte
  <2> HIDE DEF t
  <2>3. g \in Seq(Byte) /\ x \in Seq(Byte)
    BY <1>2, <1>5, <2>2, ConcatShape
  <2>4. QED
    BY <2>1, <2>3
<1> HIDE DEF g, m, b, p, x
<1>14. z \in Socket /\ z.read = x /\ z.error = k.so.error /\ z.cantrcv = k.so.cantrcv
  <2>1. k.so \in Socket
    BY StateParts
  <2>2. QED
    BY <1>7, <2>1 DEF Socket, Byte
<1> HIDE DEF z
<1>8. s \in Reader /\ s.pc = p.pc /\ s.call = p.call /\ s.resid = m /\ s.got = g
  BY <1>1, <1>7 DEF Reader, Byte
<1> HIDE DEF s
<1>9. f \in [Readers -> Reader] /\ f[r] = s /\ \A q \in Readers \ {r} : f[q] = k.rd[q]
  BY <1>1, <1>8
<1> HIDE DEF f
<1>10. k1 \in KernelState /\ k1.sb = b /\ k1.so = k.so
  BY <1>4, WithBuffer
<1> HIDE DEF k1
<1>15. k2 \in KernelState /\ k2.sb = b /\ k2.rd = f
  BY <1>9, <1>10, WithReaders
<1> HIDE DEF k2
<1>11. u \in KernelState /\ u.sb = b /\ u.so = z /\ u.rd = f
  BY <1>14, <1>15, WithSocket
<1> HIDE DEF u, t
<1>12. TookBytes(k, u, r, n)
  BY <1>8, <1>9, <1>11, <1>14, Zenon DEF TookBytes, b, g, m, p, t, x
<1>13. QED
  BY <1>3, <1>6, <1>12, Zenon DEF n, p

(* sblock() of a free buffer; the mark of a thread that waits for it.      *)
LEMMA FlagEffects ==
  ASSUME NEW k \in KernelState, NEW r \in Readers
  PROVE  /\ LET u == [k EXCEPT !.sb.lock = TRUE]
            IN  /\ u \in KernelState /\ u.so = k.so /\ u.rd = k.rd /\ SameData(u.sb, k.sb)
                /\ u.sb.lock /\ (u.sb.want <=> k.sb.want) /\ (u.sb.wait <=> k.sb.wait)
         /\ LET u == [k EXCEPT !.sb.want = TRUE, !.rd[r].pc = "lock", !.rd[r].awake = FALSE]
            IN  /\ Stopped(k, u, r, "lock") /\ SameData(u.sb, k.sb)
                /\ (u.sb.lock <=> k.sb.lock) /\ u.sb.want /\ (u.sb.wait <=> k.sb.wait)
<1>1. k.sb \in SockBuf
  BY StateParts
<1>2. ASSUME NEW b \in SockBuf
      PROVE  LET l == [b EXCEPT !.lock = TRUE]
                 w == [b EXCEPT !.want = TRUE]
             IN  /\ l \in SockBuf /\ SameData(l, b) /\ l.lock /\ (l.want <=> b.want)
                 /\ (l.wait <=> b.wait)
                 /\ w \in SockBuf /\ SameData(w, b) /\ w.want /\ (w.lock <=> b.lock)
                 /\ (w.wait <=> b.wait)
  BY DEF SockBuf, SameData
<1> DEFINE b == k.sb
           l == [b EXCEPT !.lock = TRUE]
           w == [b EXCEPT !.want = TRUE]
<1>3. LET u == [k EXCEPT !.sb.lock = TRUE]
      IN  /\ u \in KernelState /\ u.so = k.so /\ u.rd = k.rd /\ SameData(u.sb, k.sb)
          /\ u.sb.lock /\ (u.sb.want <=> k.sb.want) /\ (u.sb.wait <=> k.sb.wait)
  <2> DEFINE u == [k EXCEPT !.sb.lock = TRUE]
  <2>1. u = [k EXCEPT !.sb = l]
    BY DEF KernelState
  <2>2. l \in SockBuf /\ SameData(l, k.sb) /\ l.lock /\ (l.want <=> k.sb.want)
        /\ (l.wait <=> k.sb.wait)
    BY <1>1, <1>2, Zenon
  <2> HIDE DEF l, u
  <2>3. u \in KernelState /\ u.sb = l /\ u.rd = k.rd /\ u.so = k.so
    BY <2>1, <2>2, WithBuffer
  <2>4. SameData(u.sb, k.sb) /\ u.sb.lock /\ (u.sb.want <=> k.sb.want) /\ (u.sb.wait <=> k.sb.wait)
    BY <2>2, <2>3
  <2>5. QED
    BY <2>3, <2>4 DEF u
<1>4. LET u == [k EXCEPT !.sb.want = TRUE, !.rd[r].pc = "lock", !.rd[r].awake = FALSE]
      IN  /\ Stopped(k, u, r, "lock") /\ SameData(u.sb, k.sb)
          /\ (u.sb.lock <=> k.sb.lock) /\ u.sb.want /\ (u.sb.wait <=> k.sb.wait)
  <2> DEFINE k2 == [k EXCEPT !.sb = w]
             u == [k2 EXCEPT !.rd[r].pc = "lock", !.rd[r].awake = FALSE]
             v == [k EXCEPT !.sb.want = TRUE, !.rd[r].pc = "lock", !.rd[r].awake = FALSE]
  <2>1. v = u
    BY DEF KernelState
  <2>2. w \in SockBuf /\ SameData(w, k.sb) /\ (w.lock <=> k.sb.lock) /\ w.want
        /\ (w.wait <=> k.sb.wait)
    BY <1>1, <1>2, Zenon
  <2> HIDE DEF w
  <2>3. k2 \in KernelState /\ k2.sb = w /\ k2.rd = k.rd /\ k2.so = k.so
    BY <2>2, WithBuffer
  <2> HIDE DEF k2
  <2>4. Stopped(k2, u, r, "lock") /\ u.sb = k2.sb
    <3>1. "lock" \in {"user", "lock", "wait", "all"}
      OBVIOUS
    <3>2. QED
      BY <2>3, <3>1, StopEffect
  <2> HIDE DEF u, v
  <2>5. Stopped(k, u, r, "lock") /\ u.sb = w
    BY <2>3, <2>4, Zenon DEF Stopped
  <2>6. /\ Stopped(k, v, r, "lock") /\ SameData(v.sb, k.sb)
        /\ (v.sb.lock <=> k.sb.lock) /\ v.sb.want /\ (v.sb.wait <=> k.sb.wait)
    BY <2>1, <2>2, <2>5
  <2>7. QED
    BY <2>6 DEF v
<1>5. QED
  BY <1>3, <1>4, Zenon

(* The errors and the end of the stream. *)
LEMMA EndEffects ==
  ASSUME NEW k \in KernelState
  PROVE  /\ \A e \in BOOLEAN :
            LET u == [k EXCEPT !.so.error = e]
            IN  /\ u \in KernelState /\ u.rd = k.rd /\ u.sb = k.sb
                /\ (u.so.cantrcv <=> k.so.cantrcv) /\ u.so.read = k.so.read
         /\ LET u == [k EXCEPT !.so.cantrcv = TRUE]
            IN  /\ u \in KernelState /\ u.rd = k.rd /\ u.sb = k.sb /\ u.so.cantrcv
                /\ u.so.read = k.so.read
BY DEF KernelState, Socket

-----------------------------------------------------------------------------
(* The bytes: nothing is lost, whoever holds the lock                      *)

(* The buffer holds the last bytes of the c that arrived. *)
Suffix(b, c) == b.cc <= c /\ \A i \in 1 .. b.cc : Bytes(b)[i] = c - b.cc + i

(* The limits of the buffer, and the window of a bytes; or sorflush() has  *)
(* emptied it.                                                             *)
Limits(b, cantrcv, a) ==
  \/ b.hiwat = HIWAT /\ b.cc + a <= HIWAT
  \/ b.hiwat = 0 /\ b.mb = <<>> /\ cantrcv

(* The readers were given the first bytes, of the c that arrived all but   *)
(* those in the buffer.                                                    *)
Given(k, c) ==
  /\ \A i \in 1 .. Len(k.so.read) : k.so.read[i] = i
  /\ k.sb.hiwat # 0 => Len(k.so.read) + k.sb.cc = c

DataInv(k, c, a) ==
  /\ k \in KernelState /\ Chain(k.sb)
  /\ Suffix(k.sb, c) /\ Limits(k.sb, k.so.cantrcv, a) /\ Given(k, c)

(* A step that leaves the bytes alone. *)
LEMMA QuietKeeps ==
  ASSUME NEW k, NEW u \in KernelState, NEW c, NEW a, DataInv(k, c, a),
         SameData(u.sb, k.sb), k.so.cantrcv => u.so.cantrcv,
         u.so.read = k.so.read
  PROVE  DataInv(u, c, a)
<1>1. /\ u.sb.mb = k.sb.mb /\ u.sb.cc = k.sb.cc /\ u.sb.mbcnt = k.sb.mbcnt
      /\ u.sb.hiwat = k.sb.hiwat /\ k.sb.mb = u.sb.mb
  BY DEF SameData
<1>2. Bytes(u.sb) = Bytes(k.sb) /\ Charged(u.sb, Len(u.sb.mb)) = Charged(k.sb, Len(k.sb.mb))
  BY <1>1, Zenon DEF Bytes, Charged
<1>3. Chain(u.sb)
  BY <1>1, <1>2, Zenon DEF Chain, DataInv
<1>4. Suffix(u.sb, c)
  BY <1>1, <1>2, Zenon DEF Suffix, DataInv
<1>5. Limits(u.sb, u.so.cantrcv, a)
  BY <1>1, Zenon DEF Limits, DataInv
<1>6. Given(u, c)
  <2> DEFINE x == k.so.read
  <2>1. (\A i \in 1 .. Len(x) : x[i] = i) /\ (k.sb.hiwat # 0 => Len(x) + k.sb.cc = c)
    BY DEF DataInv, Given
  <2>2. u.so.read = x
    OBVIOUS
  <2> HIDE DEF x
  <2>3. QED
    BY <1>1, <2>1, <2>2 DEF Given
<1>7. QED
  BY <1>3, <1>4, <1>5, <1>6 DEF DataInv

(* sowakeup(), the errors and the end of the stream. *)
LEMMA DataEnds ==
  ASSUME NEW k, NEW c, NEW a, DataInv(k, c, a)
  PROVE  /\ DataInv(sowakeup(k), c, a) /\ DataInv(socantrcvmore(k), c, a)
         /\ \A e \in BOOLEAN : DataInv([k EXCEPT !.so.error = e], c, a)
<1>0. ASSUME NEW h, DataInv(h, c, a) PROVE h \in KernelState
  BY <1>0 DEF DataInv
<1>1. ASSUME NEW h, DataInv(h, c, a) PROVE DataInv(sowakeup(h), c, a)
  <2> DEFINE u == sowakeup(h)
  <2>1. WokenUp(h, u)
    BY <1>0, <1>1, WakeupEffect
  <2> HIDE DEF u
  <2>2. u \in KernelState /\ SameData(u.sb, h.sb) /\ u.so = h.so
    BY <2>1, Zenon DEF WokenUp
  <2>3. (h.so.cantrcv => u.so.cantrcv) /\ u.so.read = h.so.read
    BY <2>2
  <2>4. DataInv(u, c, a)
    BY <1>1, <2>2, <2>3, QuietKeeps, Zenon
  <2>5. QED
    BY <2>4 DEF u
<1>2. ASSUME NEW u \in KernelState, u.rd = k.rd, u.sb = k.sb, k.so.cantrcv => u.so.cantrcv,
             u.so.read = k.so.read
      PROVE  DataInv(u, c, a)
  <2>1. SameData(u.sb, k.sb)
    BY <1>2 DEF SameData
  <2>2. QED
    BY <1>2, <2>1, QuietKeeps, Zenon
<1>3. ASSUME NEW e \in BOOLEAN PROVE DataInv([k EXCEPT !.so.error = e], c, a)
  BY <1>0, <1>2, EndEffects, Zenon
<1>4. DataInv(socantrcvmore(k), c, a)
  <2>1. DataInv([k EXCEPT !.so.cantrcv = TRUE], c, a)
    BY <1>0, <1>2, EndEffects, Zenon
  <2>2. QED
    BY <1>1, <2>1, Zenon DEF socantrcvmore
<1>5. QED
  BY <1>1, <1>3, <1>4, Zenon

(* The functions that only move readers and flags. *)
LEMMA DataMoves ==
  ASSUME NEW k, NEW c, NEW a, DataInv(k, c, a), NEW r \in Readers
  PROVE  /\ DataInv(sbunlock(k), c, a) /\ DataInv(Return(k, r), c, a)
         /\ \A pc \in {"wait", "all"} : DataInv(sbwait(k, r, pc), c, a)
<1>1. k \in KernelState
  BY DEF DataInv
<1>2. DataInv(sbunlock(k), c, a) /\ sbunlock(k) \in KernelState
  <2> DEFINE u == sbunlock(k)
  <2>1. Unlocked(k, u)
    BY <1>1, UnlockEffect
  <2> HIDE DEF u
  <2>2. u \in KernelState /\ SameData(u.sb, k.sb) /\ u.so = k.so
    BY <2>1, Zenon DEF Unlocked
  <2>3. (k.so.cantrcv => u.so.cantrcv) /\ u.so.read = k.so.read
    BY <2>2
  <2>4. DataInv(u, c, a)
    BY <2>2, <2>3, QuietKeeps, Zenon
  <2>5. QED
    BY <2>2, <2>4 DEF u
<1>4. ASSUME NEW h, NEW u, NEW pc, DataInv(h, c, a), Stopped(h, u, r, pc), SameData(u.sb, h.sb)
      PROVE  DataInv(u, c, a)
  <2>1. u \in KernelState /\ u.so = h.so
    BY <1>4, Zenon DEF Stopped
  <2>2. (h.so.cantrcv => u.so.cantrcv) /\ u.so.read = h.so.read
    BY <2>1
  <2>3. QED
    BY <1>4, <2>1, <2>2, QuietKeeps, Zenon
<1>5. DataInv(Return(k, r), c, a)
  <2>1. Stopped(sbunlock(k), Return(k, r), r, "user") /\ SameData(Return(k, r).sb, sbunlock(k).sb)
    BY <1>1, ReturnEffect DEF SameData
  <2>2. QED
    BY <1>2, <1>4, <2>1, Zenon
<1>6. ASSUME NEW pc \in {"wait", "all"} PROVE DataInv(sbwait(k, r, pc), c, a)
  <2>1. Stopped(k, sbwait(k, r, pc), r, pc) /\ SameData(sbwait(k, r, pc).sb, k.sb)
    BY <1>1, SbwaitEffect
  <2>2. QED
    BY <1>4, <2>1, Zenon
<1>7. QED
  BY <1>2, <1>5, <1>6

(* The bytes a reader takes are the ones in front, and the rest stay. *)
LEMMA DataCopied ==
  ASSUME NEW k, NEW c \in Nat, NEW a \in Nat, DataInv(k, c, a), NEW r \in Readers
  PROVE  DataInv(Copied(k, r), c, a)
<1> DEFINE u == Copied(k, r)
           n == Much(k, r)
           t == SubSeq(Bytes(k.sb), 1, n)
<1>1. k \in KernelState /\ Chain(k.sb) /\ k.sb \in SockBuf
  BY StateParts DEF DataInv
<1>2. n \in Nat /\ n <= k.sb.cc /\ TookBytes(k, u, r, n)
  BY <1>1, CopiedEffect
<1> HIDE DEF u, n
<1>3. /\ u.sb \in SockBuf /\ Chain(u.sb) /\ SameRest(u.sb, k.sb) /\ u.sb.cc = k.sb.cc - n
      /\ \A i \in 1 .. u.sb.cc : Bytes(u.sb)[i] = Bytes(k.sb)[n + i]
  <2>1. u.sb = Taken(k.sb, n)
    BY <1>2 DEF TookBytes
  <2>2. QED
    BY <1>1, <1>2, <2>1, TakenKeeps
<1>4. k.sb.cc \in Nat /\ k.sb.cc <= c /\ \A i \in 1 .. k.sb.cc : Bytes(k.sb)[i] = c - k.sb.cc + i
  BY <1>1, Fields DEF DataInv, Suffix
<1>5. Suffix(u.sb, c)
  <2>1. \A i \in 1 .. u.sb.cc : n + i \in 1 .. k.sb.cc /\ c - k.sb.cc + (n + i) = c - u.sb.cc + i
    BY <1>2, <1>3, <1>4
  <2>2. u.sb.cc <= c
    BY <1>2, <1>3, <1>4
  <2>3. QED
    BY <1>3, <1>4, <2>1, <2>2 DEF Suffix
<1>6. Limits(u.sb, u.so.cantrcv, a)
  <2>1. u.so.cantrcv = k.so.cantrcv /\ u.sb.hiwat = k.sb.hiwat
    BY <1>2, <1>3 DEF TookBytes, SameRest
  <2>2. CASE k.sb.hiwat = HIWAT /\ k.sb.cc + a <= HIWAT
    <3>1. u.sb.cc + a <= HIWAT
      BY <1>2, <1>3, <1>4, <2>2, SockbufAssumption
    <3>2. QED
      BY <2>1, <2>2, <3>1 DEF Limits
  <2>3. CASE k.sb.hiwat = 0 /\ k.sb.mb = <<>> /\ k.so.cantrcv
    <3>1. k.sb.cc = 0
      BY <1>1, <2>3, EmptyChain
    <3>2. u.sb.cc = 0
      BY <1>2, <1>3, <3>1
    <3>3. u.sb.mb = <<>>
      BY <1>3, <3>2, EmptyChain
    <3>4. QED
      BY <2>1, <2>3, <3>3 DEF Limits
  <2>4. QED
    BY <2>2, <2>3 DEF DataInv, Limits
<1>7. Given(u, c)
  <2> DEFINE g == k.so.read
  <2>1. u.so.read = g \o t
    BY <1>2 DEF TookBytes
  <2>2. /\ g \in Seq(Byte) /\ Len(g) \in Nat /\ \A i \in 1 .. Len(g) : g[i] = i
        /\ k.sb.hiwat # 0 => Len(g) + k.sb.cc = c
    BY <1>1, StateParts DEF DataInv, Given, Socket, Byte
  <2>3. t \in Seq(Byte) /\ Len(t) = n /\ \A j \in 1 .. n : t[j] = Bytes(k.sb)[j]
    <3>1. Bytes(k.sb) \in Seq(Byte) /\ n \in 0 .. Len(Bytes(k.sb))
      BY <1>1, <1>2, BytesType DEF Chain
    <3>2. QED
      BY <3>1, SubSeqSplit
  <2>4. \A j \in 1 .. n : t[j] = c - k.sb.cc + j
    BY <1>2, <1>4, <2>3
  <2>5. k.sb.hiwat = 0 => n = 0
    <3>1. k.sb.hiwat = 0 => k.sb.mb = <<>>
      BY SockbufAssumption DEF DataInv, Limits
    <3>2. k.sb.mb = <<>> => k.sb.cc = 0
      BY <1>1, EmptyChain
    <3>3. QED
      BY <1>2, <3>1, <3>2
  <2> HIDE DEF g, t
  <2> DEFINE e == g \o t
  <2>6. /\ Len(e) = Len(g) + n
        /\ \A j \in 1 .. Len(g) : e[j] = g[j]
        /\ \A j \in Len(g) + 1 .. Len(g) + n : e[j] = t[j - Len(g)]
    <3>1. g \in Seq(Byte) /\ t \in Seq(Byte) /\ Len(t) = n
      BY <2>2, <2>3
    <3>2. QED
      BY <3>1, ConcatShape
  <2> HIDE DEF e
  <2>7. ASSUME NEW i \in 1 .. Len(e) PROVE e[i] = i
    <3>1. i \in 1 .. Len(g) \/ (i \in Len(g) + 1 .. Len(g) + n /\ i - Len(g) \in 1 .. n)
      BY <1>2, <2>2, <2>6
    <3>2. CASE i \in 1 .. Len(g)
      BY <2>2, <2>6, <3>2
    <3>3. CASE i \in Len(g) + 1 .. Len(g) + n /\ i - Len(g) \in 1 .. n
      <4>1. e[i] = t[i - Len(g)]
        BY <2>6, <3>3
      <4>2. t[i - Len(g)] = c - k.sb.cc + (i - Len(g))
        BY <2>4, <3>3
      <4>3. Len(g) + k.sb.cc = c
        BY <1>2, <2>2, <2>5, <3>3
      <4>4. QED
        BY <1>4, <2>2, <4>1, <4>2, <4>3
    <3>4. QED
      BY <3>1, <3>2, <3>3
  <2>8. u.sb.hiwat # 0 => Len(e) + u.sb.cc = c
    <3>1. u.sb.hiwat = k.sb.hiwat
      BY <1>3 DEF SameRest
    <3>2. QED
      BY <1>2, <1>3, <1>4, <2>2, <2>6, <3>1
  <2>9. QED
    BY <2>1, <2>7, <2>8 DEF Given, e
<1>8. QED
  BY <1>2, <1>3, <1>5, <1>6, <1>7 DEF DataInv, TookBytes, u

(* A MSG_WAITALL read that has not all of its bytes sleeps for them. *)
Stays(k, r) ==
  /\ k.rd[r].call = "waitall" /\ k.rd[r].resid > 0 /\ ~k.so.error /\ ~k.so.cantrcv

(* Copy() is the copy, and then sbwait() or the label release. *)
LEMMA CopyIs ==
  ASSUME NEW k, NEW r
  PROVE  /\ Stays(Copied(k, r), r) => Copy(k, r) = sbwait(Copied(k, r), r, "all")
         /\ ~Stays(Copied(k, r), r) => Copy(k, r) = Return(Copied(k, r), r)
BY DEF Copy, Copied, Much, Stays

(* The buffer of sbreserve(), and the one sorflush() leaves. *)
Flushed == [sbreserve EXCEPT !.hiwat = 0, !.mbmax = 0]

(* The buffers without an mbuf: of socreate() and after sorflush(). *)
LEMMA EmptyBuffers ==
  ASSUME NEW b \in {sbreserve, Flushed}
  PROVE  /\ b \in SockBuf /\ Chain(b) /\ b.mb = <<>> /\ b.cc = 0
         /\ ~b.lock /\ ~b.want /\ ~b.wait
<1>0. /\ sbreserve \in SockBuf /\ sbreserve.mb = <<>> /\ sbreserve.cc = 0 /\ sbreserve.mbcnt = 0
      /\ ~sbreserve.lock /\ ~sbreserve.want /\ ~sbreserve.wait
  BY SockbufAssumption DEF sbreserve, SockBuf
<1>1. ASSUME NEW d \in SockBuf
      PROVE  LET f == [d EXCEPT !.hiwat = 0, !.mbmax = 0]
             IN  /\ f \in SockBuf /\ f.mb = d.mb /\ f.cc = d.cc /\ f.mbcnt = d.mbcnt
                 /\ (f.lock <=> d.lock) /\ (f.want <=> d.want) /\ (f.wait <=> d.wait)
  BY DEF SockBuf
<1>2. /\ b \in SockBuf /\ b.mb = <<>> /\ b.cc = 0 /\ b.mbcnt = 0
      /\ ~b.lock /\ ~b.want /\ ~b.wait
  <2>1. /\ Flushed \in SockBuf /\ Flushed.mb = <<>> /\ Flushed.cc = 0 /\ Flushed.mbcnt = 0
        /\ ~Flushed.lock /\ ~Flushed.want /\ ~Flushed.wait
    BY <1>0, <1>1, Zenon DEF Flushed
  <2>2. b = sbreserve \/ b = Flushed
    OBVIOUS
  <2>3. QED
    BY <1>0, <2>1, <2>2, Zenon
<1>3. Len(b.mb) = 0
  BY <1>2
<1>4. Bytes(b) = <<>> /\ Charged(b, Len(b.mb)) = 0
  <2>1. \A f : Join(f, 0) = <<>> /\ Total(f, 0) = 0
    BY JoinRecursion, SumRecursion, Zenon
  <2>2. QED
    BY <1>3, <2>1, Zenon DEF Bytes, Charged
<1>5. Chain(b)
  BY <1>2, <1>3, <1>4 DEF Chain
<1>6. QED
  BY <1>2, <1>5

(* Every function on the kernel's state keeps the bytes right. *)
LEMMA DataFunctions ==
  ASSUME NEW k, NEW c \in Nat, NEW a \in Nat, DataInv(k, c, a), NEW r \in Readers
  PROVE  /\ DataInv(Copy(k, r), c, a)
         /\ DataInv(soreceive(k, r), c, a)
         /\ DataInv(sorflush(k, r), c, a)
         /\ DataInv(sblock(k, r), c, a)
<1>0. ASSUME NEW h, DataInv(h, c, a) PROVE h \in KernelState
  BY <1>0 DEF DataInv
<1>1. ASSUME NEW h, DataInv(h, c, a) PROVE DataInv(Copy(h, r), c, a)
  <2>1. DataInv(Copied(h, r), c, a)
    BY <1>1, DataCopied
  <2>2. "all" \in {"wait", "all"}
    OBVIOUS
  <2>3. DataInv(sbwait(Copied(h, r), r, "all"), c, a) /\ DataInv(Return(Copied(h, r), r), c, a)
    BY <2>1, <2>2, DataMoves, Zenon
  <2>4. QED
    BY <2>3, CopyIs, Zenon
<1>3. ASSUME NEW h, DataInv(h, c, a) PROVE DataInv(soreceive(h, r), c, a)
  <2>1. DataInv(Copy(h, r), c, a) /\ DataInv(Return(h, r), c, a) /\ DataInv(sbunlock(h), c, a)
    BY <1>1, <1>3, DataMoves, Zenon
  <2>2. DataInv(Return([h EXCEPT !.so.error = FALSE], r), c, a)
    <3>1. DataInv([h EXCEPT !.so.error = FALSE], c, a)
      BY <1>3, DataEnds
    <3>2. QED
      BY <3>1, DataMoves, Zenon
  <2>3. DataInv(sbwait(sbunlock(h), r, "wait"), c, a)
    <3>1. "wait" \in {"wait", "all"}
      OBVIOUS
    <3>2. QED
      BY <2>1, <3>1, DataMoves, Zenon
  <2>4. QED
    BY <2>1, <2>2, <2>3 DEF soreceive
<1>5. ASSUME NEW h, DataInv(h, c, a) PROVE DataInv(sorflush(h, r), c, a)
  <2> DEFINE v == socantrcvmore(h)
             w == Return(v, r)
             u == [w EXCEPT !.sb = Flushed]
  <2>1. DataInv(v, c, a) /\ v.so.cantrcv
    <3> DEFINE x == [h EXCEPT !.so.cantrcv = TRUE]
    <3>1. x \in KernelState /\ x.so.cantrcv
      BY <1>0, <1>5, EndEffects, Zenon
    <3> HIDE DEF x
    <3>2. WokenUp(x, sowakeup(x))
      BY <3>1, WakeupEffect
    <3>3. sowakeup(x).so.cantrcv
      BY <3>1, <3>2 DEF WokenUp
    <3>4. QED
      BY <1>5, <3>3, DataEnds, Zenon DEF x, socantrcvmore
  <2>2. sorflush(h, r) = u
    BY Zenon DEF sorflush, Flushed
  <2> HIDE DEF v
  <2>3. DataInv(w, c, a) /\ w.so = v.so
    <3>1. DataInv(w, c, a)
      BY <2>1, DataMoves, Zenon
    <3>2. v \in KernelState
      BY <2>1, <1>0
    <3>3. Unlocked(v, sbunlock(v)) /\ Stopped(sbunlock(v), w, r, "user")
      BY <3>2, ReturnEffect
    <3>4. QED
      BY <3>1, <3>3, Zenon DEF Unlocked, Stopped
  <2> HIDE DEF w
  <2>4. Flushed \in SockBuf /\ Chain(Flushed) /\ Flushed.mb = <<>> /\ Flushed.cc = 0
    BY EmptyBuffers
  <2>5. Flushed.hiwat = 0
    BY DEF Flushed, sbreserve
  <2>6. u \in KernelState /\ u.sb = Flushed /\ u.rd = w.rd /\ u.so = w.so
    BY <1>0, <2>3, <2>4, WithBuffer
  <2> HIDE DEF u
  <2>7. Suffix(u.sb, c)
    BY <2>4, <2>6 DEF Suffix
  <2>8. Limits(u.sb, u.so.cantrcv, a)
    BY <2>1, <2>3, <2>4, <2>5, <2>6 DEF Limits
  <2>9. Given(u, c)
    BY <2>3, <2>4, <2>5, <2>6 DEF DataInv, Given
  <2>10. QED
    BY <2>2, <2>4, <2>6, <2>7, <2>8, <2>9 DEF DataInv
<1>6. ASSUME NEW h, DataInv(h, c, a) PROVE DataInv(Locked(h, r), c, a)
  BY <1>3, <1>5, <1>6 DEF Locked
<1>7. DataInv(sblock(k, r), c, a)
  <2> DEFINE u == [k EXCEPT !.sb.lock = TRUE]
             v == [k EXCEPT !.sb.want = TRUE, !.rd[r].pc = "lock", !.rd[r].awake = FALSE]
  <2>1. u \in KernelState /\ u.so = k.so /\ u.rd = k.rd /\ SameData(u.sb, k.sb)
    BY <1>0, FlagEffects, Zenon
  <2>2. Stopped(k, v, r, "lock") /\ SameData(v.sb, k.sb)
    BY <1>0, FlagEffects, Zenon
  <2>3. sblock(k, r) = IF ~k.sb.lock THEN Locked(u, r)
                       ELSE IF k.rd[r].call = "dontwait" THEN Locked(k, r) ELSE v
    BY Zenon DEF sblock
  <2> HIDE DEF u, v
  <2>4. DataInv(u, c, a)
    <3>1. (k.so.cantrcv => u.so.cantrcv) /\ u.so.read = k.so.read
      BY <2>1
    <3>2. QED
      BY <2>1, <3>1, QuietKeeps, Zenon
  <2>5. DataInv(v, c, a)
    <3>1. v \in KernelState /\ v.so = k.so
      BY <2>2, Zenon DEF Stopped
    <3>2. (k.so.cantrcv => v.so.cantrcv) /\ v.so.read = k.so.read
      BY <3>1
    <3>3. QED
      BY <2>2, <3>1, <3>2, QuietKeeps, Zenon
  <2>6. QED
    BY <1>6, <2>3, <2>4, <2>5
<1>8. QED
  BY <1>1, <1>3, <1>5, <1>7, Zenon

(* A reader in a new call. *)
LEMMA EnterEffect ==
  ASSUME NEW k \in KernelState, NEW r \in Readers, NEW q \in Reader
  PROVE  LET u == [k EXCEPT !.rd[r] = q]
         IN  /\ u \in KernelState /\ u.sb = k.sb /\ u.so = k.so
             /\ u.rd[r] = q /\ \A p \in Readers \ {r} : u.rd[p] = k.rd[p]
<1> DEFINE f == [k.rd EXCEPT ![r] = q]
           u == [k EXCEPT !.rd[r] = q]
<1>1. k.rd \in [Readers -> Reader]
  BY StateParts
<1>2. f \in [Readers -> Reader] /\ f[r] = q /\ \A p \in Readers \ {r} : f[p] = k.rd[p]
  BY <1>1
<1>3. u = [k EXCEPT !.rd = f]
  BY DEF KernelState
<1> HIDE DEF f, u
<1>4. u \in KernelState /\ u.sb = k.sb /\ u.so = k.so /\ u.rd = f
  BY <1>2, <1>3, WithReaders
<1>5. u \in KernelState /\ u.sb = k.sb /\ u.so = k.so
      /\ u.rd[r] = q /\ \A p \in Readers \ {r} : u.rd[p] = k.rd[p]
  BY <1>2, <1>4
<1>6. QED
  BY <1>5 DEF u

(* A call that begins, recv() or shutdown(), keeps the bytes. *)
LEMMA DataEnter ==
  ASSUME NEW k, NEW c, NEW a, DataInv(k, c, a), NEW r \in Readers, NEW q \in Reader
  PROVE  DataInv([k EXCEPT !.rd[r] = q], c, a)
<1> DEFINE u == [k EXCEPT !.rd[r] = q]
<1>1. /\ u \in KernelState /\ u.sb = k.sb /\ u.so = k.so
      /\ u.rd[r] = q /\ \A p \in Readers \ {r} : u.rd[p] = k.rd[p]
  BY EnterEffect DEF DataInv
<1> HIDE DEF u
<1>2. Given(u, c)
  BY <1>1 DEF Given, DataInv
<1>3. DataInv(u, c, a)
  BY <1>1, <1>2 DEF DataInv
<1>4. QED
  BY <1>3 DEF u


(* A segment that fits the window is appended. *)
LEMMA DataSegment ==
  ASSUME NEW k, NEW c \in Nat, NEW a \in Nat, DataInv(k, c, a), NEW n \in Nat \ {0},
         n <= a, c + n <= MaxBytes, ~k.so.cantrcv, NEW ext \in BOOLEAN
  PROVE  LET m == [data |-> [i \in 1 .. n |-> c + i], ext |-> ext, off |-> 0]
             u == [k EXCEPT !.sb = sbcompress(@, m)]
         IN  /\ DataInv(u, c + n, a - n) /\ SameRest(u.sb, k.sb) /\ u.sb.cc = k.sb.cc + n
             /\ u.rd = k.rd /\ u.so = k.so
<1> DEFINE d == [i \in 1 .. n |-> c + i]
           m == [data |-> d, ext |-> ext, off |-> 0]
           b == sbcompress(k.sb, m)
           u == [k EXCEPT !.sb = sbcompress(@, m)]
<1>1. k \in KernelState /\ k.sb \in SockBuf /\ Chain(k.sb)
  BY StateParts DEF DataInv
<1>2. d \in Seq(Byte) /\ Len(d) = n /\ \A i \in 1 .. n : d[i] = c + i
  <2>1. \A i \in 1 .. n : c + i \in Byte
    BY SockbufAssumption DEF Byte
  <2>2. QED
    BY <2>1
<1>3. m \in Mbuf /\ m.data = d /\ d # <<>>
  <2> HIDE DEF d
  <2>1. m \in Mbuf /\ m.data = d
    BY <1>2 DEF Mbuf, Byte
  <2>2. QED
    BY <1>2, <2>1
<1> HIDE DEF d, m
<1>4. /\ b \in SockBuf /\ Chain(b) /\ SameRest(b, k.sb) /\ Bytes(b) = Bytes(k.sb) \o d
      /\ b.cc = k.sb.cc + n
  BY <1>1, <1>2, <1>3, Appended
<1>5. u = [k EXCEPT !.sb = b]
  BY DEF KernelState
<1> HIDE DEF b, u
<1>6. u \in KernelState /\ u.sb = b /\ u.rd = k.rd /\ u.so = k.so
  BY <1>1, <1>4, <1>5, WithBuffer
<1>7. /\ k.sb.cc \in Nat /\ Bytes(k.sb) \in Seq(Byte) /\ Len(Bytes(k.sb)) = k.sb.cc
      /\ k.sb.cc <= c /\ \A i \in 1 .. k.sb.cc : Bytes(k.sb)[i] = c - k.sb.cc + i
  BY <1>1, BytesType, Fields DEF Chain, DataInv, Suffix
<1>8. Suffix(b, c + n)
  <2> DEFINE x == Bytes(k.sb)
             l == k.sb.cc
             y == x \o d
  <2> HIDE DEF x
  <2>1. /\ \A i \in 1 .. l : y[i] = x[i]
        /\ \A i \in l + 1 .. l + n : y[i] = d[i - l]
    <3>1. x \in Seq(Byte) /\ d \in Seq(Byte) /\ Len(x) = l /\ Len(d) = n
      BY <1>2, <1>7 DEF x
    <3>2. /\ \A i \in 1 .. Len(x) : y[i] = x[i]
          /\ \A i \in Len(x) + 1 .. Len(x) + Len(d) : y[i] = d[i - Len(x)]
      BY <3>1, ConcatShape
    <3> HIDE DEF y
    <3>3. QED
      BY <3>1, <3>2
  <2> HIDE DEF y
  <2>2. l \in Nat /\ l <= c /\ b.cc = l + n /\ \A i \in 1 .. l : x[i] = c - l + i
    BY <1>4, <1>7 DEF x
  <2> HIDE DEF l
  <2>3. ASSUME NEW i \in 1 .. b.cc PROVE y[i] = (c + n) - b.cc + i
    <3>1. CASE i <= l
      <4>1. i \in 1 .. l
        BY <2>2, <3>1
      <4>2. y[i] = c - l + i
        BY <2>1, <2>2, <4>1
      <4>3. QED
        BY <2>2, <4>2
    <3>2. CASE i > l
      <4>1. i \in l + 1 .. l + n /\ i - l \in 1 .. n
        BY <2>2, <3>2
      <4>2. y[i] = d[i - l] /\ d[i - l] = c + (i - l)
        BY <1>2, <2>1, <4>1
      <4>3. QED
        BY <2>2, <4>2
    <3>3. QED
      BY <2>2, <3>1, <3>2
  <2>4. b.cc <= c + n
    BY <2>2
  <2>5. Bytes(b) = y
    BY <1>4, Zenon DEF y, x
  <2>6. QED
    BY <2>3, <2>4, <2>5 DEF Suffix
<1>9. Limits(b, u.so.cantrcv, a - n)
  <2>1. k.sb.hiwat = HIWAT /\ k.sb.cc + a <= HIWAT
    BY DEF DataInv, Limits
  <2>2. b.hiwat = HIWAT
    BY <1>4, <2>1 DEF SameRest
  <2>3. b.cc + (a - n) <= HIWAT
    BY <1>4, <1>7, <2>1, SockbufAssumption
  <2>4. QED
    BY <2>2, <2>3 DEF Limits
<1>10. Given(u, c + n)
  <2>1. (c + n) - b.cc = c - k.sb.cc /\ b.hiwat = k.sb.hiwat
    BY <1>4, <1>7 DEF SameRest
  <2>2. k.so.read \in Seq(Byte) /\ Len(k.so.read) \in Nat
    BY <1>1, StateParts DEF Socket, Byte
  <2> DEFINE x == k.so.read
  <2>3. /\ \A i \in 1 .. Len(x) : x[i] = i
        /\ k.sb.hiwat # 0 => Len(x) + k.sb.cc = c
    BY DEF DataInv, Given
  <2>4. u.so.read = x /\ u.sb.cc = k.sb.cc + n /\ u.sb.hiwat = k.sb.hiwat /\ Len(x) \in Nat
    BY <1>4, <1>6, <2>1, <2>2
  <2> HIDE DEF x
  <2>5. u.sb.hiwat # 0 => Len(x) + u.sb.cc = c + n
    BY <1>7, <2>3, <2>4
  <2>6. QED
    BY <2>3, <2>4, <2>5 DEF Given
<1>11. DataInv(u, c + n, a - n)
  BY <1>4, <1>6, <1>8, <1>9, <1>10 DEF DataInv
<1>12. DataInv(u, c + n, a - n) /\ SameRest(u.sb, k.sb) /\ u.sb.cc = k.sb.cc + n
       /\ u.rd = k.rd /\ u.so = k.so
  BY <1>4, <1>6, <1>11
<1>13. QED
  BY <1>12 DEF u, m, d

(* The inductive invariant of the bytes. *)
BytesInv ==
  /\ rcvd \in 0 .. MaxBytes /\ adv \in 0 .. HIWAT
  /\ DataInv(Kernel, rcvd, adv)

(* The next state is the one the functions computed. *)
LEMMA BecomesKernel ==
  ASSUME NEW k \in KernelState, Becomes(k)
  PROVE  Kernel' = k
<1>1. k = [sb |-> k.sb, rd |-> k.rd, so |-> k.so]
  BY DEF KernelState
<1>2. sb' = k.sb /\ rd' = k.rd /\ so' = k.so
  BY DEF Becomes
<1>3. QED
  BY <1>1, <1>2 DEF Kernel

(* The variables are the parts of the kernel state. *)
LEMMA KernelParts ==
  Kernel.sb = sb /\ Kernel.rd = rd /\ Kernel.so = so
BY DEF Kernel

(* The buffer that sbreserve() sets up. *)
LEMMA BytesInit ==
  Init => BytesInv
<1> SUFFICES ASSUME Init PROVE BytesInv
  OBVIOUS
<1>1. rcvd \in 0 .. MaxBytes /\ adv \in 0 .. HIWAT /\ rcvd = 0 /\ adv = HIWAT
  BY SockbufAssumption DEF Init
<1>2. sb = sbreserve /\ sb \in SockBuf /\ Chain(sb) /\ sb.mb = <<>> /\ sb.cc = 0
  <2>1. sb \in {sbreserve, Flushed} /\ sb = sbreserve
    BY DEF Init
  <2>2. QED
    BY <2>1, EmptyBuffers
<1>3. rd \in [Readers -> Reader]
  <2> DEFINE q == [pc |-> "user", call |-> CHOOSE c \in Calls : TRUE,
                   resid |-> 0, got |-> <<>>, awake |-> FALSE]
  <2>1. (CHOOSE c \in Calls : TRUE) \in Calls
    BY SockbufAssumption
  <2>2. q \in Reader
    BY <2>1 DEF Reader
  <2>3. rd = [r \in Readers |-> q]
    BY DEF Init
  <2> HIDE DEF q
  <2>4. QED
    BY <2>2, <2>3
<1>4. so \in Socket /\ so.read = <<>> /\ Len(so.read) = 0
  BY DEF Init, Socket
<1>5. Kernel \in KernelState
  BY <1>2, <1>3, <1>4 DEF KernelState, Kernel
<1>6. Suffix(sb, rcvd)
  BY <1>1, <1>2 DEF Suffix
<1>7. Limits(sb, so.cantrcv, adv)
  <2>1. sb.hiwat = HIWAT
    BY <1>2 DEF sbreserve
  <2>2. sb.cc + adv <= HIWAT
    BY <1>1, <1>2, SockbufAssumption
  <2>3. QED
    BY <2>1, <2>2 DEF Limits
<1>8. Given(Kernel, rcvd)
  BY <1>1, <1>2, <1>4, KernelParts DEF Given
<1>9. QED
  BY <1>1, <1>2, <1>5, <1>6, <1>7, <1>8, KernelParts DEF BytesInv, DataInv

(* No call, wakeup, timeout, segment, ACK or end of stream loses a byte. *)
LEMMA BytesNext ==
  BytesInv /\ [Next]_vars => BytesInv'
<1> SUFFICES ASSUME BytesInv, [Next]_vars PROVE BytesInv'
  OBVIOUS
<1> DEFINE K == Kernel
<1>1. /\ rcvd \in Nat /\ adv \in Nat /\ rcvd <= MaxBytes /\ adv <= HIWAT
      /\ DataInv(K, rcvd, adv) /\ K \in KernelState
      /\ K.sb = sb /\ K.rd = rd /\ K.so = so /\ MaxBytes \in Nat /\ HIWAT \in Nat
  BY SockbufAssumption, KernelParts DEF BytesInv, DataInv
<1>2. sb \in SockBuf /\ rd \in [Readers -> Reader]
  BY <1>1, StateParts
<1>3. ASSUME NEW k, DataInv(k, rcvd, adv), Becomes(k), UNCHANGED <<rcvd, adv>>
      PROVE  BytesInv'
  <2>1. k \in KernelState
    BY <1>3 DEF DataInv
  <2>2. Kernel' = k
    BY <1>3, <2>1, BecomesKernel
  <2>3. rcvd' = rcvd /\ adv' = adv
    BY <1>3
  <2>4. QED
    BY <1>1, <1>3, <2>2, <2>3 DEF BytesInv
<1> HIDE DEF K
<1>4. ASSUME NEW r \in Readers, NEW n \in Sizes, NEW c \in Calls, Enter(r, c, n)
      PROVE  BytesInv'
  <2> DEFINE q == [pc |-> "user", call |-> c, resid |-> n, got |-> <<>>, awake |-> FALSE]
             k == [K EXCEPT !.rd[r] = q]
  <2>1. q \in Reader
    BY SockbufAssumption DEF Reader
  <2>2. Becomes(sblock(k, r)) /\ UNCHANGED <<rcvd, adv>>
    BY <1>4 DEF Enter, K
  <2> HIDE DEF q
  <2>3. DataInv(k, rcvd, adv)
    BY <1>1, <2>1, DataEnter
  <2> HIDE DEF k
  <2>4. DataInv(sblock(k, r), rcvd, adv)
    BY <1>1, <2>3, DataFunctions, Zenon
  <2>5. QED
    BY <1>3, <2>2, <2>4
<1>5. ASSUME NEW r \in Readers, Resume(r) PROVE BytesInv'
  <2> DEFINE k == IF rd[r].pc # "all" THEN sblock(K, r)
                  ELSE IF sb.mb # <<>> THEN Copy(K, r)
                  ELSE IF so.error \/ so.cantrcv THEN Return(K, r)
                  ELSE sbwait(K, r, "all")
  <2>1. Becomes(k) /\ UNCHANGED <<rcvd, adv>>
    BY <1>5 DEF Resume, K
  <2>2. /\ DataInv(sblock(K, r), rcvd, adv) /\ DataInv(Copy(K, r), rcvd, adv)
        /\ DataInv(Return(K, r), rcvd, adv)
    BY <1>1, DataFunctions, DataMoves, Zenon
  <2>3. DataInv(sbwait(K, r, "all"), rcvd, adv)
    <3>1. "all" \in {"wait", "all"}
      OBVIOUS
    <3>2. QED
      BY <1>1, <3>1, DataMoves, Zenon
  <2>4. DataInv(k, rcvd, adv)
    BY <2>2, <2>3
  <2> HIDE DEF k
  <2>5. QED
    BY <1>3, <2>1, <2>4
<1>6. ASSUME NEW r \in Readers, Spurious(r) PROVE BytesInv'
  <2> DEFINE q == [rd[r] EXCEPT !.awake = TRUE]
             f == [rd EXCEPT ![r] = q]
             k == [K EXCEPT !.rd = f]
  <2>1. q \in Reader
    BY <1>2 DEF Reader
  <2>2. rd' = f /\ sb' = sb /\ so' = so /\ UNCHANGED <<rcvd, adv>>
    BY <1>2, <1>6 DEF Spurious
  <2> HIDE DEF q
  <2>3. f \in [Readers -> Reader]
    BY <1>2, <2>1
  <2> HIDE DEF f
  <2>4. k \in KernelState /\ k.rd = f /\ k.sb = sb /\ k.so = so
    BY <1>1, <2>3, WithReaders
  <2> HIDE DEF k
  <2>5. Becomes(k)
    BY <2>2, <2>4 DEF Becomes
  <2>6. DataInv(k, rcvd, adv)
    <3>1. SameData(k.sb, K.sb) /\ (K.so.cantrcv => k.so.cantrcv) /\ k.so.read = K.so.read
      BY <1>1, <2>3, <2>4 DEF SameData
    <3>2. QED
      BY <1>1, <2>4, <3>1, QuietKeeps, Zenon
  <2>7. QED
    BY <1>3, <2>2, <2>5, <2>6
<1>7. ASSUME NEW r \in Readers, Timeout(r) PROVE BytesInv'
  <2> DEFINE u == [K EXCEPT !.rd[r].pc = "user", !.rd[r].awake = FALSE]
             k == IF rd[r].pc = "all" THEN Return(K, r) ELSE u
  <2>1. Becomes(k) /\ UNCHANGED <<rcvd, adv>>
    BY <1>7 DEF Timeout, K
  <2>2. DataInv(Return(K, r), rcvd, adv)
    BY <1>1, DataMoves, Zenon
  <2>3. DataInv(u, rcvd, adv)
    <3>1. "user" \in {"user", "lock", "wait", "all"}
      OBVIOUS
    <3>2. Stopped(K, u, r, "user") /\ u.sb = K.sb
      BY <1>1, <3>1, StopEffect
    <3> HIDE DEF u
    <3>3. u \in KernelState /\ u.so = K.so
      BY <3>2, Zenon DEF Stopped
    <3>4. SameData(u.sb, K.sb) /\ (K.so.cantrcv => u.so.cantrcv) /\ u.so.read = K.so.read
      BY <3>2, <3>3 DEF SameData
    <3>5. QED
      BY <1>1, <3>3, <3>4, QuietKeeps, Zenon
  <2>4. DataInv(k, rcvd, adv)
    BY <2>2, <2>3
  <2> HIDE DEF k
  <2>5. QED
    BY <1>3, <2>1, <2>4
<1>8. ASSUME Arrival PROVE BytesInv'
  <2>1. PICK n \in Segments, ext \in Clusters : Segment(n, ext)
    BY <1>8 DEF Arrival
  <2> DEFINE m == [data |-> [i \in 1 .. n |-> rcvd + i], ext |-> ext, off |-> 0]
             u == [K EXCEPT !.sb = sbcompress(@, m)]
  <2>2. n \in Nat \ {0} /\ ext \in BOOLEAN
    BY SockbufAssumption
  <2>3. /\ ~so.cantrcv /\ n <= adv /\ rcvd + n <= MaxBytes
        /\ rcvd' = rcvd + n /\ adv' = adv - n /\ Becomes(sowakeup(u))
    BY <2>1 DEF Segment, K
  <2>4. DataInv(u, rcvd + n, adv - n)
    BY <1>1, <2>2, <2>3, DataSegment
  <2> HIDE DEF u
  <2>5. DataInv(sowakeup(u), rcvd + n, adv - n)
    BY <2>4, DataEnds, Zenon
  <2>6. Kernel' = sowakeup(u)
    BY <2>3, <2>5, BecomesKernel DEF DataInv
  <2>7. rcvd' \in 0 .. MaxBytes /\ adv' \in 0 .. HIWAT
    BY <1>1, <2>2, <2>3
  <2>8. QED
    BY <2>3, <2>5, <2>6, <2>7 DEF BytesInv
<1>9. ASSUME WindowUpdate PROVE BytesInv'
  <2>1. adv' = sbspace(sb) /\ sbspace(sb) > adv /\ Kernel' = K /\ rcvd' = rcvd
    BY <1>9 DEF WindowUpdate, Kernel, K
  <2>2. /\ sb.hiwat \in Nat /\ sb.cc \in Nat /\ sb.mbmax \in Nat /\ sb.mbcnt \in Nat
    BY <1>2, Fields
  <2>3. sbspace(sb) \in Int /\ sbspace(sb) <= sb.hiwat - sb.cc
    <3> DEFINE x == sb.hiwat - sb.cc
               y == sb.mbmax - sb.mbcnt
    <3>1. x \in Int /\ y \in Int /\ sbspace(sb) = imin(x, y)
      BY <2>2 DEF sbspace
    <3> HIDE DEF x, y
    <3>2. imin(x, y) \in Int /\ imin(x, y) <= x
      BY <3>1, MinTwo, Zenon
    <3>3. QED
      BY <3>1, <3>2 DEF x
  <2>4. sb.hiwat = HIWAT
    <3>1. sb.hiwat # 0
      BY <1>1, <2>1, <2>2, <2>3
    <3>2. QED
      BY <1>1, <3>1 DEF DataInv, Limits
  <2>5. adv' \in 0 .. HIWAT /\ sb.cc + adv' <= HIWAT
    BY <1>1, <2>1, <2>2, <2>3, <2>4
  <2>6. DataInv(K, rcvd, adv')
    <3>1. Limits(K.sb, K.so.cantrcv, adv')
      BY <1>1, <2>4, <2>5 DEF Limits
    <3>2. QED
      BY <1>1, <3>1 DEF DataInv
  <2>7. QED
    BY <1>1, <2>1, <2>5, <2>6 DEF BytesInv
<1>10. ASSUME NEW err \in BOOLEAN, EndOfStream(err) PROVE BytesInv'
  <2> DEFINE u == [K EXCEPT !.so.error = err]
  <2>1. Becomes(socantrcvmore(u)) /\ UNCHANGED <<rcvd, adv>>
    BY <1>10 DEF EndOfStream, K
  <2>2. DataInv(socantrcvmore(u), rcvd, adv)
    <3>1. DataInv(u, rcvd, adv)
      BY <1>1, DataEnds, Zenon
    <3>2. QED
      BY <3>1, DataEnds, Zenon
  <2> HIDE DEF u
  <2>3. QED
    BY <1>3, <2>1, <2>2
<1>11. CASE UNCHANGED vars
  <2>1. Kernel' = K /\ rcvd' = rcvd /\ adv' = adv
    BY <1>11 DEF vars, Kernel, K
  <2>2. QED
    BY <1>1, <2>1 DEF BytesInv
<1>12. QED
  BY <1>4, <1>5, <1>6, <1>7, <1>8, <1>9, <1>10, <1>11 DEF Next

(* soreceive(), sorflush() and TCP's appends never let sb_cc or sb_mbcnt    *)
(* differ from the sums over the chain, nor leave an empty mbuf on it:      *)
(* sbcheck() would not panic, and "receive 1" cannot happen, whatever the   *)
(* flags of the calls.                                                      *)
THEOREM BufferConsistent ==
  Spec => []SbCheck
<1>1. BytesInv => SbCheck
  <2> SUFFICES ASSUME BytesInv PROVE SbCheck
    OBVIOUS
  <2>1. Kernel \in KernelState /\ Chain(sb) /\ rcvd \in 0 .. MaxBytes /\ adv \in 0 .. HIWAT
    BY KernelParts DEF BytesInv, DataInv
  <2>2. sb \in SockBuf /\ rd \in [Readers -> Reader]
        /\ so \in Socket
    BY <2>1, KernelParts, StateParts
  <2>3. QED
    BY <2>1, <2>2, Zenon DEF SbCheck, Chain
<1>2. QED
  BY <1>1, BytesInit, BytesNext, PTL DEF Spec

(* The bytes that the readers get are those that TCP appended, in order,   *)
(* and no byte is lost or handed out twice.                                *)
THEOREM StreamIsIntact ==
  Spec => []StreamIntact
<1>1. BytesInv => StreamIntact
  <2> SUFFICES ASSUME BytesInv PROVE StreamIntact
    OBVIOUS
  <2> DEFINE g == so.read
             y == Bytes(sb)
             all == g \o y
  <2>1. /\ Kernel \in KernelState /\ Chain(sb) /\ Suffix(sb, rcvd) /\ Given(Kernel, rcvd)
        /\ Limits(sb, so.cantrcv, adv) /\ Kernel.so = so /\ Kernel.sb = sb /\ rcvd \in Nat
    BY KernelParts, SockbufAssumption DEF BytesInv, DataInv
  <2>2. /\ g \in Seq(Byte) /\ Len(g) \in Nat /\ \A i \in 1 .. Len(g) : g[i] = i
        /\ sb.hiwat # 0 => Len(g) + sb.cc = rcvd
    BY <2>1, StateParts DEF Given, Socket, Byte
  <2>3. /\ sb \in SockBuf /\ y \in Seq(Byte) /\ Len(y) = sb.cc /\ sb.cc \in Nat
        /\ \A i \in 1 .. sb.cc : y[i] = rcvd - sb.cc + i
    BY <2>1, StateParts, BytesType DEF Chain, Suffix
  <2>4. sb.hiwat = 0 => sb.cc = 0
    BY <2>1, <2>3, EmptyChain, SockbufAssumption DEF Limits
  <2> HIDE DEF g, y
  <2>5. /\ Len(all) = Len(g) + sb.cc
        /\ \A j \in 1 .. Len(g) : all[j] = g[j]
        /\ \A j \in Len(g) + 1 .. Len(g) + sb.cc : all[j] = y[j - Len(g)]
    <3>1. g \in Seq(Byte) /\ y \in Seq(Byte) /\ Len(y) = sb.cc
      BY <2>2, <2>3
    <3>2. QED
      BY <3>1, ConcatShape
  <2> HIDE DEF all
  <2>6. ASSUME NEW i \in 1 .. Len(all) PROVE all[i] = i
    <3>1. CASE i <= Len(g)
      BY <2>2, <2>5, <3>1
    <3>2. CASE i > Len(g)
      <4>1. i \in Len(g) + 1 .. Len(g) + sb.cc /\ i - Len(g) \in 1 .. sb.cc
        BY <2>2, <2>3, <2>5, <3>2
      <4>2. all[i] = y[i - Len(g)] /\ y[i - Len(g)] = rcvd - sb.cc + (i - Len(g))
        BY <2>3, <2>5, <4>1
      <4>3. Len(g) + sb.cc = rcvd
        BY <2>2, <2>4, <4>1
      <4>4. QED
        BY <2>1, <2>2, <2>3, <4>2, <4>3
    <3>3. QED
      BY <2>2, <3>1, <3>2
  <2>7. sb.hiwat # 0 => Len(all) = rcvd
    BY <2>2, <2>5
  <2>8. QED
    BY <2>6, <2>7 DEF StreamIntact, all, g, y
<1>2. QED
  BY <1>1, BytesInit, BytesNext, PTL DEF Spec

(* The window that tcp_output() advertises never lets the peer send more   *)
(* than so_rcv has room for.                                               *)
THEOREM WindowFits ==
  Spec => []NoOverrun
<1>1. BytesInv => NoOverrun
  BY KernelParts, SockbufAssumption DEF BytesInv, DataInv, Limits, NoOverrun
<1>2. QED
  BY <1>1, BytesInit, BytesNext, PTL DEF Spec
=============================================================================
