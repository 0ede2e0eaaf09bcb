---------------------------- MODULE CalloutProofs ----------------------------
(* The callout queue of uspace/timers.c, for any timers, periods, delays   *)
(* and calls at boot, and any lag of callout_thread behind clock_thread.   *)
EXTENDS Callout, SeqLemmas

-----------------------------------------------------------------------------
(* Sequences                                                               *)

(* The list with an element put in. *)
LEMMA InsertAtShape ==
  ASSUME NEW S, NEW s \in Seq(S), NEW e \in S, NEW p \in 1 .. Len(s) + 1
  PROVE  /\ InsertAt(s, p, e) \in Seq(S)
         /\ Len(InsertAt(s, p, e)) = Len(s) + 1
         /\ \A i \in 1 .. p - 1 : InsertAt(s, p, e)[i] = s[i]
         /\ InsertAt(s, p, e)[p] = e
         /\ \A i \in p + 1 .. Len(s) + 1 : InsertAt(s, p, e)[i] = s[i - 1]
<1> DEFINE a == SubSeq(s, 1, p - 1)
           b == <<e>>
           c == SubSeq(s, p, Len(s))
<1>1. a \in Seq(S) /\ Len(a) = p - 1 /\ \A i \in 1 .. p - 1 : a[i] = s[i]
  BY SubSeqProperties
<1>2. c \in Seq(S) /\ Len(c) = Len(s) - p + 1 /\ \A i \in 1 .. Len(s) - p + 1 : c[i] = s[p + i - 1]
  BY SubSeqProperties
<1>3. b \in Seq(S) /\ Len(b) = 1 /\ b[1] = e
  OBVIOUS
<1>4. InsertAt(s, p, e) = (a \o b) \o c
  BY DEF InsertAt
<1> HIDE DEF a, b, c
<1>5. /\ a \o b \in Seq(S) /\ Len(a \o b) = p
      /\ \A i \in 1 .. p : (a \o b)[i] = IF i < p THEN a[i] ELSE e
  <2>1. /\ a \o b \in Seq(S) /\ Len(a \o b) = Len(a) + Len(b)
        /\ \A i \in 1 .. Len(a) + Len(b) :
             (a \o b)[i] = IF i <= Len(a) THEN a[i] ELSE b[i - Len(a)]
    BY <1>1, <1>3, ConcatProperties, Zenon
  <2> DEFINE d == a \o b
  <2> HIDE DEF d
  <2>2. \A i \in 1 .. p : d[i] = IF i < p THEN a[i] ELSE e
    BY <1>1, <1>3, <2>1 DEF d
  <2>3. QED
    BY <1>1, <1>3, <2>1, <2>2 DEF d
<1>6. /\ (a \o b) \o c \in Seq(S) /\ Len((a \o b) \o c) = Len(s) + 1
      /\ \A i \in 1 .. Len(s) + 1 :
           ((a \o b) \o c)[i] = IF i <= p THEN (a \o b)[i] ELSE c[i - p]
  <2> DEFINE d == a \o b
             x == d \o c
  <2>1. d \in Seq(S) /\ Len(d) = p
    BY <1>5
  <2> HIDE DEF d
  <2>2. /\ x \in Seq(S) /\ Len(x) = Len(d) + Len(c)
        /\ \A i \in 1 .. Len(d) + Len(c) :
             x[i] = IF i <= Len(d) THEN d[i] ELSE c[i - Len(d)]
    BY <1>2, <2>1, ConcatProperties, Zenon
  <2> HIDE DEF x
  <2>3. Len(d) + Len(c) = Len(s) + 1
    BY <1>2, <2>1
  <2>4. /\ x \in Seq(S) /\ Len(x) = Len(s) + 1
        /\ \A i \in 1 .. Len(s) + 1 : x[i] = IF i <= p THEN d[i] ELSE c[i - p]
    BY <2>1, <2>2, <2>3, Zenon
  <2>5. QED
    BY <2>4, Zenon DEF x, d
<1> DEFINE d == a \o b
<1> HIDE DEF d
<1>7. \A i \in 1 .. Len(s) + 1 :
        (d \o c)[i] = IF i < p THEN s[i] ELSE IF i = p THEN e ELSE s[i - 1]
  <2> DEFINE x == d \o c
  <2>1. \A i \in 1 .. Len(s) + 1 : x[i] = IF i <= p THEN d[i] ELSE c[i - p]
    BY <1>6 DEF d
  <2>2. \A i \in 1 .. p : d[i] = IF i < p THEN a[i] ELSE e
    BY <1>5 DEF d
  <2> HIDE DEF x
  <2>3. \A i \in 1 .. Len(s) + 1 :
          x[i] = IF i < p THEN s[i] ELSE IF i = p THEN e ELSE s[i - 1]
    BY <1>1, <1>2, <2>1, <2>2
  <2>4. QED
    BY <2>3, Zenon DEF x
<1>8. QED
  <2> DEFINE r == InsertAt(s, p, e)
  <2>1. /\ r \in Seq(S) /\ Len(r) = Len(s) + 1
        /\ \A i \in 1 .. Len(s) + 1 :
             r[i] = IF i < p THEN s[i] ELSE IF i = p THEN e ELSE s[i - 1]
    BY <1>4, <1>6, <1>7 DEF d
  <2> HIDE DEF r
  <2>2. /\ r \in Seq(S) /\ Len(r) = Len(s) + 1
        /\ \A i \in 1 .. p - 1 : r[i] = s[i]
        /\ r[p] = e
        /\ \A i \in p + 1 .. Len(s) + 1 : r[i] = s[i - 1]
    BY <2>1
  <2>3. QED
    BY <2>2, Zenon DEF r

(* The list with an element taken out. *)
LEMMA RemoveAtShape ==
  ASSUME NEW S, NEW s \in Seq(S), NEW p \in 1 .. Len(s)
  PROVE  /\ RemoveAt(s, p) \in Seq(S)
         /\ Len(RemoveAt(s, p)) = Len(s) - 1
         /\ \A i \in 1 .. p - 1 : RemoveAt(s, p)[i] = s[i]
         /\ \A i \in p .. Len(s) - 1 : RemoveAt(s, p)[i] = s[i + 1]
<1> DEFINE a == SubSeq(s, 1, p - 1)
           c == SubSeq(s, p + 1, Len(s))
<1>1. a \in Seq(S) /\ Len(a) = p - 1 /\ \A i \in 1 .. p - 1 : a[i] = s[i]
  BY SubSeqProperties
<1>2. c \in Seq(S) /\ Len(c) = Len(s) - p /\ \A i \in 1 .. Len(s) - p : c[i] = s[p + i]
  BY SubSeqProperties
<1>3. RemoveAt(s, p) = a \o c
  BY DEF RemoveAt
<1> HIDE DEF a, c
<1>4. /\ a \o c \in Seq(S) /\ Len(a \o c) = Len(s) - 1
      /\ \A i \in 1 .. Len(s) - 1 : (a \o c)[i] = IF i < p THEN a[i] ELSE c[i - p + 1]
  <2>1. /\ a \o c \in Seq(S) /\ Len(a \o c) = Len(a) + Len(c)
        /\ \A i \in 1 .. Len(a) + Len(c) :
             (a \o c)[i] = IF i <= Len(a) THEN a[i] ELSE c[i - Len(a)]
    BY <1>1, <1>2, ConcatProperties, Zenon
  <2> DEFINE x == a \o c
  <2> HIDE DEF x
  <2>2. /\ x \in Seq(S) /\ Len(x) = Len(a) + Len(c)
        /\ \A i \in 1 .. Len(a) + Len(c) : x[i] = IF i <= Len(a) THEN a[i] ELSE c[i - Len(a)]
    BY <2>1, Zenon DEF x
  <2>3. /\ x \in Seq(S) /\ Len(x) = Len(s) - 1
        /\ \A i \in 1 .. Len(s) - 1 : x[i] = IF i < p THEN a[i] ELSE c[i - p + 1]
    <3>1. Len(s) \in Nat /\ Len(a) = p - 1 /\ Len(a) + Len(c) = Len(s) - 1
      BY <1>1, <1>2
    <3>2. /\ x \in Seq(S) /\ Len(x) = Len(s) - 1
          /\ \A i \in 1 .. Len(s) - 1 : x[i] = IF i <= p - 1 THEN a[i] ELSE c[i - (p - 1)]
      BY <2>2, <3>1, Zenon
    <3>3. \A i \in 1 .. Len(s) - 1 : (i <= p - 1 <=> i < p) /\ i - (p - 1) = i - p + 1
      BY <3>1
    <3>4. \A i \in 1 .. Len(s) - 1 : x[i] = IF i < p THEN a[i] ELSE c[i - p + 1]
      <4> TAKE i \in 1 .. Len(s) - 1
      <4>1. CASE i < p
        BY <4>1, <3>2, <3>3, Zenon
      <4>2. CASE ~(i < p)
        BY <4>2, <3>2, <3>3, Zenon
      <4>3. QED
        BY <4>1, <4>2, Zenon
    <3>5. QED
      BY <3>2, <3>4, Zenon
  <2>4. QED
    BY <2>3, Zenon DEF x
<1>5. QED
  BY <1>1, <1>2, <1>3, <1>4

(* No overdue entry of q hides behind one that is still running down. *)
Ordered(q) ==
  \A i, j \in DOMAIN q : i < j /\ q[i].ticks > 0 => q[j].ticks >= 0

(* Every entry of q is at least as far from running as it has ticks to go. *)
Timely(q) == \A i \in DOMAIN q : q[i].left <= Distance(q, i)

(* The inductive invariant. *)
CalloutInv == TypeOK /\ NoMissedSignal /\ (~cut => Timely(cq))
-----------------------------------------------------------------------------
(* The fields of the entries of a list. *)
LEMMA Fields ==
  ASSUME NEW q \in Seq(cqueue_t), NEW i \in 1 .. Len(q)
  PROVE  q[i] \in cqueue_t /\ q[i].id \in Timers /\ q[i].ticks \in Int /\ q[i].left \in Nat
<1>1. q[i] \in cqueue_t
  OBVIOUS
<1>2. QED
  BY <1>1 DEF cqueue_t

(* The local tick count of timeout() as its search moves down the list. *)
LEMMA RestSteps ==
  ASSUME NEW q \in Seq(cqueue_t), NEW n \in Nat
  PROVE  /\ Rest(q, n, 0) = n
         /\ \A i \in 0 .. Len(q) : Rest(q, n, i) \in Int
         /\ \A i \in 1 .. Len(q) : Rest(q, n, i) = Rest(q, n, i - 1) - q[i].ticks
<1> DEFINE f == [j \in DOMAIN q |-> q[j].ticks]
<1>1. \A i \in 0 .. Len(q) : Rest(q, n, i) = n - Total(f, i)
  BY DEF Rest
<1>2. \A i \in 1 .. Len(q) : f[i] = q[i].ticks /\ f[i] \in Int
  BY Fields
<1> HIDE DEF f
<1>3. \A i \in 0 .. Len(q) : Total(f, i) \in Int
  BY <1>2, SumInt
<1>4. Total(f, 0) = 0 /\ \A i \in 1 .. Len(q) : Total(f, i) = Total(f, i - 1) + f[i]
  BY SumRecursion
<1>5. ASSUME NEW i \in 1 .. Len(q)
      PROVE  Rest(q, n, i) = Rest(q, n, i - 1) - q[i].ticks
  <2>1. i \in 0 .. Len(q) /\ i - 1 \in 0 .. Len(q)
    OBVIOUS
  <2>2. Total(f, i) = Total(f, i - 1) + f[i] /\ Total(f, i - 1) \in Int
    BY <2>1, <1>3, <1>4
  <2>3. Rest(q, n, i) = n - Total(f, i) /\ Rest(q, n, i - 1) = n - Total(f, i - 1)
    BY <2>1, <1>1
  <2>4. QED
    BY <2>2, <2>3, <1>2
<1>6. QED
  BY <1>1, <1>3, <1>4, <1>5

(* The distances of the entries of q from running, entry by entry. *)
LEMMA DistanceSteps ==
  ASSUME NEW q \in Seq(cqueue_t)
  PROVE  /\ Distance(q, 0) = 0
         /\ \A i \in 0 .. Len(q) : Distance(q, i) \in Int
         /\ \A i \in 1 .. Len(q) :
              Distance(q, i) = Distance(q, i - 1) + IF q[i].ticks >= 0 THEN q[i].ticks ELSE 0
<1> DEFINE f == [j \in DOMAIN q |-> IF q[j].ticks > 0 THEN q[j].ticks ELSE 0]
<1>1. \A i \in 0 .. Len(q) : Distance(q, i) = Total(f, i)
  BY DEF Distance
<1>2. \A i \in 1 .. Len(q) : q[i].ticks \in Int
  BY Fields
<1>3. \A i \in 1 .. Len(q) : f[i] = IF q[i].ticks >= 0 THEN q[i].ticks ELSE 0
  BY <1>2
<1> HIDE DEF f
<1>4. \A i \in 0 .. Len(q) : Total(f, i) \in Int
  BY <1>2, <1>3, SumInt
<1>5. Total(f, 0) = 0 /\ \A i \in 1 .. Len(q) : Total(f, i) = Total(f, i - 1) + f[i]
  BY SumRecursion
<1>6. QED
  BY <1>1, <1>3, <1>4, <1>5

(* A distance is never negative; it is zero when the deltas are none. *)
LEMMA DistanceNat ==
  ASSUME NEW q \in Seq(cqueue_t), NEW i \in 0 .. Len(q)
  PROVE  /\ Distance(q, i) >= 0
         /\ (\A j \in 1 .. i : q[j].ticks <= 0) => Distance(q, i) = 0
<1> DEFINE None(k) == \A j \in 1 .. k : q[j].ticks <= 0
           T == {k \in Nat : k <= Len(q) /\ ~(Distance(q, k) >= 0 /\ (None(k) => Distance(q, k) = 0))}
<1> SUFFICES ASSUME T # {} PROVE FALSE
  OBVIOUS
<1>1. PICK m \in T : \A y \in T : m <= y
  BY LeastNat
<1>2. /\ Distance(q, 0) = 0
      /\ \A k \in 0 .. Len(q) : Distance(q, k) \in Int
      /\ \A k \in 1 .. Len(q) :
           Distance(q, k) = Distance(q, k - 1) + IF q[k].ticks >= 0 THEN q[k].ticks ELSE 0
  BY DistanceSteps
<1>3. m # 0
  BY <1>1, <1>2
<1>4. /\ m \in 1 .. Len(q) /\ m - 1 \in 0 .. Len(q)
      /\ Distance(q, m - 1) >= 0 /\ (None(m - 1) => Distance(q, m - 1) = 0)
  BY <1>1, <1>3
<1>5. q[m].ticks \in Int /\ (None(m) => None(m - 1) /\ q[m].ticks <= 0)
  BY <1>4, Fields
<1> HIDE DEF None
<1>6. Distance(q, m) >= 0 /\ (None(m) => Distance(q, m) = 0)
  <2> DEFINE c == Distance(q, m)
             d == Distance(q, m - 1)
             y == q[m].ticks
  <2>1. c = d + (IF y >= 0 THEN y ELSE 0) /\ d \in Int
    BY <1>2, <1>4
  <2>2. d >= 0 /\ y \in Int /\ (None(m) => d = 0 /\ y <= 0)
    BY <1>4, <1>5
  <2> HIDE DEF c, d, y
  <2>3. c >= 0 /\ (None(m) => c = 0)
    BY <2>1, <2>2
  <2>4. QED
    BY <2>3 DEF c
<1>7. QED
  BY <1>1, <1>6

(* The search of timeout() for n ticks ends behind some entry of q, with   *)
(* no fewer than zero ticks left over.                                     *)
LEMMA SearchEnds ==
  ASSUME NEW q \in Seq(cqueue_t), NEW n \in Nat
  PROVE  /\ \E p \in 0 .. Len(q) : StopsAfter(q, n, p)
         /\ \A p \in 0 .. Len(q) : StopsAfter(q, n, p) => Rest(q, n, p) >= 0
<1>0. /\ Rest(q, n, 0) = n
      /\ \A i \in 0 .. Len(q) : Rest(q, n, i) \in Int
      /\ \A i \in 1 .. Len(q) : Rest(q, n, i) = Rest(q, n, i - 1) - q[i].ticks
  BY RestSteps
<1> DEFINE T == {i \in Nat : i <= Len(q) /\ (i < Len(q) => q[i + 1].ticks > Rest(q, n, i))}
<1>1. Len(q) \in T
  OBVIOUS
<1>2. PICK p \in T : \A y \in T : p <= y
  BY <1>1, LeastNat
<1>3. p \in 0 .. Len(q) /\ (p < Len(q) => q[p + 1].ticks > Rest(q, n, p))
  OBVIOUS
<1>4. \A i \in 1 .. p : q[i].ticks <= Rest(q, n, i - 1)
  <2> TAKE i \in 1 .. p
  <2>1. i - 1 \in Nat /\ i - 1 \notin T /\ i - 1 < Len(q)
    BY <1>2, <1>3
  <2>2. ~(q[(i - 1) + 1].ticks > Rest(q, n, i - 1))
    BY <2>1
  <2>3. q[i].ticks \in Int /\ Rest(q, n, i - 1) \in Int
    <3>1. i \in 1 .. Len(q) /\ i - 1 \in 0 .. Len(q)
      BY <1>3
    <3>2. QED
      BY <3>1, <1>0, Fields
  <2>4. QED
    BY <2>2, <2>3
<1>5. ASSUME NEW r \in 0 .. Len(q), StopsAfter(q, n, r)
      PROVE  Rest(q, n, r) >= 0
  <2>1. CASE r = 0
    BY <2>1, <1>0
  <2>2. CASE r # 0
    <3>1. q[r].ticks <= Rest(q, n, r - 1) /\ q[r].ticks \in Int
      BY <1>5, <2>2, Fields DEF StopsAfter
    <3>2. QED
      BY <3>1, <2>2, <1>0
  <2>3. QED
    BY <2>1, <2>2
<1>6. QED
  BY <1>3, <1>4, <1>5 DEF StopsAfter

(* r is q with an entry for timer t, n ticks from now, behind entry p. *)
Inserted(q, t, n, p, r) ==
  /\ r \in Seq(cqueue_t) /\ Len(r) = Len(q) + 1 /\ p \in 0 .. Len(q)
  /\ Rest(q, n, p) \in Nat
  /\ p < Len(q) => q[p + 1].ticks > Rest(q, n, p)
  /\ \A i \in 1 .. Len(q) + 1 :
       /\ r[i].id = IF i <= p THEN q[i].id ELSE IF i = p + 1 THEN t ELSE q[i - 1].id
       /\ r[i].left = IF i <= p THEN q[i].left ELSE IF i = p + 1 THEN n ELSE q[i - 1].left
       /\ r[i].ticks = IF i <= p THEN q[i].ticks
                       ELSE IF i = p + 1 THEN Rest(q, n, p)
                       ELSE IF p = 0 /\ i = 2 THEN q[1].ticks - n
                       ELSE q[i - 1].ticks

(* timeout() inserts one entry and changes no other, but for the delta of  *)
(* the old head when the new entry goes in front of it.                    *)
LEMMA TimeoutInserts ==
  ASSUME NEW q \in Seq(cqueue_t), NEW t \in Timers, NEW n \in Nat
  PROVE  \E p : Inserted(q, t, n, p, timeout(q, t, n))
<1> DEFINE P == CHOOSE p \in 0 .. Len(q) : StopsAfter(q, n, p)
           e == cq_alloc(t, n, Rest(q, n, P))
           w == [q EXCEPT ![1].ticks = @ - n]
<1>1. P \in 0 .. Len(q) /\ StopsAfter(q, n, P)
  BY SearchEnds
<1>2. timeout(q, t, n) = IF P = 0 /\ q # <<>> THEN <<e>> \o w ELSE InsertAt(q, P + 1, e)
  BY DEF timeout
<1> HIDE DEF P
<1>3. Rest(q, n, P) \in Nat /\ (P < Len(q) => q[P + 1].ticks > Rest(q, n, P))
  <2>1. Rest(q, n, P) >= 0 /\ Rest(q, n, P) \in Int
    BY <1>1, SearchEnds, RestSteps
  <2>2. QED
    BY <2>1, <1>1 DEF StopsAfter
<1>4. e \in cqueue_t /\ e.id = t /\ e.left = n /\ e.ticks = Rest(q, n, P)
  BY <1>3 DEF cq_alloc, cqueue_t
<1> HIDE DEF e
<1>5. \A i \in 1 .. Len(q) : q[i] \in cqueue_t /\ q[i].ticks \in Int
  BY Fields
<1>6. CASE ~(P = 0 /\ q # <<>>)
  <2> DEFINE m == P + 1
             r == InsertAt(q, m, e)
  <2>1. m \in 1 .. Len(q) + 1 /\ P = m - 1 /\ P \in Nat
    BY <1>1
  <2> HIDE DEF m
  <2>2. /\ r \in Seq(cqueue_t) /\ Len(r) = Len(q) + 1
        /\ \A i \in 1 .. m - 1 : r[i] = q[i]
        /\ r[m] = e
        /\ \A i \in m + 1 .. Len(q) + 1 : r[i] = q[i - 1]
    BY <2>1, <1>4, InsertAtShape
  <2> HIDE DEF r
  <2>3. P = 0 => Len(q) = 0
    BY <1>6, EmptySeq
  <2>4. ASSUME NEW i \in 1 .. Len(q) + 1
        PROVE  /\ r[i] = IF i <= P THEN q[i] ELSE IF i = P + 1 THEN e ELSE q[i - 1]
               /\ ~(P = 0 /\ i = 2)
    BY <1>1, <2>1, <2>2, <2>3
  <2>5. Inserted(q, t, n, P, r)
    BY <1>1, <1>3, <1>4, <2>2, <2>4 DEF Inserted
  <2>6. QED
    BY <2>5, <1>2, <1>6 DEF r, m
<1>7. CASE P = 0 /\ q # <<>>
  <2>1. Len(q) \in Nat \ {0}
    BY <1>7, EmptySeq
  <2>2. w \in Seq(cqueue_t) /\ Len(w) = Len(q) /\ \A i \in 2 .. Len(q) : w[i] = q[i]
    <3>1. [q[1] EXCEPT !.ticks = @ - n] \in cqueue_t
      BY <1>5, <2>1 DEF cqueue_t
    <3>2. QED
      BY <3>1, <2>1
  <2>3. w[1].id = q[1].id /\ w[1].left = q[1].left /\ w[1].ticks = q[1].ticks - n
    <3>1. w[1] = [q[1] EXCEPT !.ticks = @ - n] /\ q[1] \in cqueue_t
      BY <2>1, <1>5
    <3>2. QED
      BY <3>1 DEF cqueue_t
  <2> HIDE DEF w
  <2> DEFINE b == <<e>>
  <2>4. b \in Seq(cqueue_t) /\ Len(b) = 1 /\ b[1] = e
    BY <1>4
  <2> HIDE DEF b
  <2> DEFINE r == b \o w
  <2>5. /\ r \in Seq(cqueue_t)
        /\ Len(r) = Len(b) + Len(w)
        /\ \A i \in 1 .. Len(b) : r[i] = b[i]
        /\ \A i \in Len(b) + 1 .. Len(b) + Len(w) : r[i] = w[i - Len(b)]
    BY <2>2, <2>4, ConcatShape, SMTT(30)
  <2> HIDE DEF r
  <2>6. \A i \in 1 .. Len(q) + 1 : r[i] = IF i = 1 THEN e ELSE w[i - 1]
    BY <2>1, <2>2, <2>4, <2>5
  <2>7. \A i \in 1 .. Len(q) + 1 : i # 1 /\ i # 2 => i - 1 \in 2 .. Len(q) /\ r[i] = q[i - 1]
    BY <2>1, <2>2, <2>6
  <2>8. r[1] = e /\ r[2] = w[1]
    BY <2>1, <2>6
  <2>9. Inserted(q, t, n, P, r)
    BY <1>1, <1>3, <1>4, <1>7, <2>1, <2>2, <2>3, <2>4, <2>5, <2>7, <2>8 DEF Inserted
  <2>10. QED
    BY <2>9, <1>2, <1>7 DEF r, b
<1>8. QED
  BY <1>6, <1>7

(* Overdue entries count as zero, so the first i entries of q are at least *)
(* as far away as their deltas add up to, and no further if none is        *)
(* overdue.                                                                *)
LEMMA DistanceOfDeltas ==
  ASSUME NEW q \in Seq(cqueue_t), NEW n \in Nat, NEW i \in 0 .. Len(q)
  PROVE  /\ Distance(q, i) >= n - Rest(q, n, i)
         /\ (\A j \in 1 .. Len(q) : q[j].ticks >= 0) => Distance(q, i) = n - Rest(q, n, i)
<1> DEFINE Exact == \A j \in 1 .. Len(q) : q[j].ticks >= 0
           Good(k) == /\ Distance(q, k) >= n - Rest(q, n, k)
                      /\ Exact => Distance(q, k) = n - Rest(q, n, k)
           T == {k \in Nat : k <= Len(q) /\ ~Good(k)}
<1> SUFFICES ASSUME T # {} PROVE FALSE
  OBVIOUS
<1>1. PICK m \in T : \A y \in T : m <= y
  BY LeastNat
<1>2. /\ Distance(q, 0) = 0 /\ Rest(q, n, 0) = n
      /\ \A k \in 0 .. Len(q) : Distance(q, k) \in Int /\ Rest(q, n, k) \in Int
      /\ \A k \in 1 .. Len(q) :
           /\ q[k].ticks \in Int
           /\ Rest(q, n, k) = Rest(q, n, k - 1) - q[k].ticks
           /\ Distance(q, k) = Distance(q, k - 1) + IF q[k].ticks >= 0 THEN q[k].ticks ELSE 0
  <2>1. /\ Distance(q, 0) = 0
        /\ \A k \in 0 .. Len(q) : Distance(q, k) \in Int
        /\ \A k \in 1 .. Len(q) :
             Distance(q, k) = Distance(q, k - 1) + IF q[k].ticks >= 0 THEN q[k].ticks ELSE 0
    BY DistanceSteps
  <2>2. /\ Rest(q, n, 0) = n
        /\ \A k \in 0 .. Len(q) : Rest(q, n, k) \in Int
        /\ \A k \in 1 .. Len(q) : Rest(q, n, k) = Rest(q, n, k - 1) - q[k].ticks
    BY RestSteps
  <2>3. \A k \in 1 .. Len(q) : q[k].ticks \in Int
    BY Fields
  <2>4. QED
    BY <2>1, <2>2, <2>3
<1>3. m # 0
  BY <1>1, <1>2
<1>4. m \in 1 .. Len(q) /\ m - 1 \in 0 .. Len(q) /\ Good(m - 1)
  BY <1>1, <1>3
<1>5. Exact => q[m].ticks >= 0
  BY <1>4
<1> HIDE DEF Exact
<1>6. Good(m)
  <2>1. /\ q[m].ticks \in Int
        /\ Rest(q, n, m) = Rest(q, n, m - 1) - q[m].ticks
        /\ Distance(q, m) = Distance(q, m - 1) + IF q[m].ticks >= 0 THEN q[m].ticks ELSE 0
        /\ Distance(q, m - 1) \in Int /\ Rest(q, n, m - 1) \in Int
    BY <1>2, <1>4
  <2>2. QED
    BY <2>1, <1>4, <1>5, SMTT(30)
<1>7. QED
  BY <1>1, <1>6

(* How far the entries are from running after timeout() has inserted one:  *)
(* the entries behind it are further away by its delta, unless it has been *)
(* taken off the old head.                                                 *)
LEMMA DistanceInserted ==
  ASSUME NEW q \in Seq(cqueue_t), NEW t \in Timers, NEW n \in Nat, NEW p, NEW r,
         Inserted(q, t, n, p, r), NEW i \in 0 .. Len(q) + 1
  PROVE  Distance(r, i) = IF i <= p THEN Distance(q, i)
                          ELSE IF i = p + 1 THEN Distance(q, p) + Rest(q, n, p)
                          ELSE IF p = 0 THEN Distance(q, i - 1)
                          ELSE Distance(q, i - 1) + Rest(q, n, p)
<1> DEFINE E(k) == IF k <= p THEN Distance(q, k)
                   ELSE IF k = p + 1 THEN Distance(q, p) + Rest(q, n, p)
                   ELSE IF p = 0 THEN Distance(q, k - 1)
                   ELSE Distance(q, k - 1) + Rest(q, n, p)
           T == {k \in Nat : k <= Len(q) + 1 /\ Distance(r, k) # E(k)}
<1> SUFFICES ASSUME T # {} PROVE FALSE
  OBVIOUS
<1>1. PICK m \in T : \A y \in T : m <= y
  BY LeastNat
<1>2. /\ r \in Seq(cqueue_t) /\ Len(r) = Len(q) + 1 /\ p \in 0 .. Len(q)
      /\ Rest(q, n, p) \in Nat
      /\ p < Len(q) => q[p + 1].ticks > Rest(q, n, p)
      /\ \A k \in 1 .. Len(q) + 1 :
           r[k].ticks = IF k <= p THEN q[k].ticks
                        ELSE IF k = p + 1 THEN Rest(q, n, p)
                        ELSE IF p = 0 /\ k = 2 THEN q[1].ticks - n
                        ELSE q[k - 1].ticks
  BY DEF Inserted
<1>3. /\ Distance(q, 0) = 0 /\ Rest(q, n, 0) = n
      /\ \A k \in 0 .. Len(q) : Distance(q, k) \in Int
      /\ \A k \in 1 .. Len(q) :
           /\ q[k].ticks \in Int
           /\ Distance(q, k) = Distance(q, k - 1) + IF q[k].ticks >= 0 THEN q[k].ticks ELSE 0
  <2>1. /\ Distance(q, 0) = 0
        /\ \A k \in 0 .. Len(q) : Distance(q, k) \in Int
        /\ \A k \in 1 .. Len(q) :
             Distance(q, k) = Distance(q, k - 1) + IF q[k].ticks >= 0 THEN q[k].ticks ELSE 0
    BY DistanceSteps
  <2>2. Rest(q, n, 0) = n /\ \A k \in 1 .. Len(q) : q[k].ticks \in Int
    BY RestSteps, Fields
  <2>3. QED
    BY <2>1, <2>2
<1>4. /\ Distance(r, 0) = 0
      /\ \A k \in 1 .. Len(q) + 1 :
           Distance(r, k) = Distance(r, k - 1) + IF r[k].ticks >= 0 THEN r[k].ticks ELSE 0
  BY <1>2, DistanceSteps
<1>5. m # 0
  BY <1>1, <1>2, <1>3, <1>4
<1>6. m \in 1 .. Len(q) + 1 /\ m - 1 \in 0 .. Len(q) + 1 /\ Distance(r, m - 1) = E(m - 1)
  BY <1>1, <1>5
<1>7. Distance(r, m) = E(m - 1) + IF r[m].ticks >= 0 THEN r[m].ticks ELSE 0
  BY <1>4, <1>6
<1> DEFINE z == Rest(q, n, p)
<1>8. z \in Nat
  BY <1>2
<1>9. Distance(r, m) = E(m)
  <2>1. CASE m <= p
    <3>1. m \in 1 .. Len(q) /\ r[m].ticks = q[m].ticks /\ E(m - 1) = Distance(q, m - 1)
      BY <1>2, <1>6, <2>1
    <3>2. QED
      BY <1>3, <1>7, <2>1, <3>1
  <2>2. CASE m = p + 1
    <3>1. r[m].ticks = Rest(q, n, p) /\ E(m - 1) = Distance(q, p)
      BY <1>2, <1>6, <2>2
    <3>2. QED
      BY <1>2, <1>7, <2>2, <3>1
  <2>3. CASE m = p + 2 /\ p = 0
    <3>1. /\ r[m].ticks = q[1].ticks - n /\ q[1].ticks > n /\ E(m - 1) = n
          /\ E(m) = Distance(q, 1) /\ Distance(q, 1) = q[1].ticks /\ q[1].ticks \in Int
      BY <1>2, <1>3, <1>6, <2>3
    <3> HIDE DEF E
    <3>2. QED
      BY <1>7, <3>1
  <2>4. CASE m = p + 2 /\ p # 0
    <3>1. /\ r[m].ticks = q[m - 1].ticks /\ m - 1 \in 1 .. Len(q)
          /\ E(m - 1) = Distance(q, (m - 1) - 1) + z
          /\ E(m) = Distance(q, m - 1) + z
      <4>1. m - 1 = p + 1 /\ (m - 1) - 1 = p
        BY <1>2, <2>4
      <4>2. QED
        BY <1>2, <1>6, <2>4, <4>1
    <3> HIDE DEF E, z
    <3>2. /\ Distance(q, (m - 1) - 1) \in Int /\ q[m - 1].ticks \in Int
          /\ Distance(q, m - 1) = Distance(q, (m - 1) - 1)
                                  + IF q[m - 1].ticks >= 0 THEN q[m - 1].ticks ELSE 0
      BY <1>3, <3>1
    <3>3. QED
      BY <1>7, <1>8, <3>1, <3>2, SMTT(30)
  <2>5. CASE m > p + 2
    <3> DEFINE y == IF p = 0 THEN 0 ELSE z
    <3>1. r[m].ticks = q[m - 1].ticks /\ m - 1 \in 1 .. Len(q)
      BY <1>2, <1>6, <2>5
    <3>2. /\ Distance(q, (m - 1) - 1) \in Int /\ q[m - 1].ticks \in Int
          /\ Distance(q, m - 1) \in Int
          /\ Distance(q, m - 1) = Distance(q, (m - 1) - 1)
                                  + IF q[m - 1].ticks >= 0 THEN q[m - 1].ticks ELSE 0
      BY <1>3, <3>1
    <3>3. E(m - 1) = Distance(q, (m - 1) - 1) + y /\ E(m) = Distance(q, m - 1) + y
      <4>1. /\ m \in Int /\ p \in Int
            /\ ~(m <= p) /\ m # p + 1 /\ ~(m - 1 <= p) /\ m - 1 # p + 1
        BY <1>2, <1>6, <2>5
      <4>2. CASE p = 0
        BY <3>2, <4>1, <4>2
      <4>3. CASE p # 0
        BY <4>1, <4>3
      <4>4. QED
        BY <4>2, <4>3
    <3>4. y \in Nat
      BY <1>8
    <3> HIDE DEF E, y, z
    <3>5. Distance(r, m) = (Distance(q, (m - 1) - 1) + y)
                           + IF q[m - 1].ticks >= 0 THEN q[m - 1].ticks ELSE 0
      BY <1>7, <3>1, <3>3
    <3>6. Distance(r, m) = Distance(q, m - 1) + y
      BY <3>2, <3>4, <3>5, SMTT(30)
    <3>7. QED
      BY <3>3, <3>6
  <2>6. QED
    BY <1>2, <1>6, <2>1, <2>2, <2>3, <2>4, <2>5
<1>10. QED
  BY <1>1, <1>9

(* timeout() for at least a tick keeps what hardclock() and callout_thread *)
(* rely on: no overdue entry hides, every entry is as far away as it has   *)
(* ticks to go, and a head that has not expired is not replaced by one     *)
(* that has.                                                               *)
LEMMA TimeoutKeeps ==
  ASSUME NEW q \in Seq(cqueue_t), NEW t \in Timers, NEW n \in Nat \ {0}, Ordered(q)
  PROVE  /\ timeout(q, t, n) \in Seq(cqueue_t)
         /\ Ordered(timeout(q, t, n))
         /\ Timely(q) => Timely(timeout(q, t, n))
         /\ ~Expired(q) => ~Expired(timeout(q, t, n))
<1> DEFINE r == timeout(q, t, n)
<1> SUFFICES r \in Seq(cqueue_t) /\ Ordered(r) /\ (Timely(q) => Timely(r)) /\ (~Expired(q) => ~Expired(r))
  OBVIOUS
<1>1. PICK p : Inserted(q, t, n, p, r)
  BY TimeoutInserts
<1> HIDE DEF r
<1>2. /\ r \in Seq(cqueue_t) /\ Len(r) = Len(q) + 1 /\ p \in 0 .. Len(q)
      /\ DOMAIN q = 1 .. Len(q) /\ DOMAIN r = 1 .. Len(q) + 1 /\ Len(q) \in Nat
  BY <1>1 DEF Inserted
<1> DEFINE z == Rest(q, n, p)
<1>3. z \in Nat /\ (p < Len(q) => q[p + 1].ticks > z) /\ (p = 0 => z = n)
  BY <1>1, RestSteps DEF Inserted
<1>4. \A i \in 1 .. Len(q) + 1 :
        /\ r[i].left = IF i <= p THEN q[i].left ELSE IF i = p + 1 THEN n ELSE q[i - 1].left
        /\ r[i].ticks = IF i <= p THEN q[i].ticks
                        ELSE IF i = p + 1 THEN z
                        ELSE IF p = 0 /\ i = 2 THEN q[1].ticks - n
                        ELSE q[i - 1].ticks
  BY <1>1 DEF Inserted
<1> HIDE DEF z
<1>5. \A i \in 1 .. Len(q) : q[i].ticks \in Int /\ q[i].left \in Nat
  BY Fields
<1>6. \A i, j \in 1 .. Len(q) : i < j /\ q[i].ticks > 0 => q[j].ticks >= 0
  BY <1>2 DEF Ordered
<1>7. Ordered(r)
  <2> SUFFICES ASSUME NEW i \in 1 .. Len(q) + 1, NEW j \in 1 .. Len(q) + 1,
                      i < j, r[i].ticks > 0
               PROVE  r[j].ticks >= 0
    BY <1>2 DEF Ordered
  <2>1. \A k \in 1 .. Len(q) : k > p => q[k].ticks >= 0
    <3> TAKE k \in 1 .. Len(q)
    <3> HAVE k > p
    <3>1. p + 1 \in 1 .. Len(q) /\ q[p + 1].ticks > 0
      BY <1>2, <1>3, <1>5
    <3>2. CASE k = p + 1
      BY <3>1, <3>2, <1>5
    <3>3. CASE p + 1 < k
      BY <3>1, <3>3, <1>6
    <3>4. QED
      BY <3>2, <3>3, <1>2
  <2>2. CASE j <= p
    BY <2>2, <1>2, <1>4, <1>6
  <2>3. CASE j = p + 1
    BY <2>3, <1>2, <1>3, <1>4
  <2>4. CASE j > p + 1
    <3>1. j - 1 \in 1 .. Len(q) /\ j - 1 > p
      BY <2>4, <1>2
    <3>2. CASE p = 0 /\ j = 2
      BY <3>1, <3>2, <1>2, <1>3, <1>4, <1>5
    <3>3. CASE ~(p = 0 /\ j = 2)
      <4>1. r[j].ticks = q[j - 1].ticks
        BY <2>4, <3>3, <1>2, <1>4
      <4>2. QED
        BY <2>1, <3>1, <4>1
    <3>4. QED
      BY <3>2, <3>3
  <2>5. QED
    BY <2>2, <2>3, <2>4, <1>2
<1>8. ASSUME Timely(q)
      PROVE  Timely(r)
  <2> SUFFICES ASSUME NEW i \in 1 .. Len(q) + 1
               PROVE  r[i].left <= Distance(r, i)
    BY <1>2 DEF Timely
  <2>1. Distance(r, i) = IF i <= p THEN Distance(q, i)
                         ELSE IF i = p + 1 THEN Distance(q, p) + z
                         ELSE IF p = 0 THEN Distance(q, i - 1)
                         ELSE Distance(q, i - 1) + z
    <3>1. i \in 0 .. Len(q) + 1 /\ n \in Nat
      OBVIOUS
    <3>2. QED
      BY <3>1, <1>1, DistanceInserted DEF z
  <2>2. \A k \in 1 .. Len(q) : q[k].left <= Distance(q, k)
    BY <1>8, <1>2 DEF Timely
  <2>3. \A k \in 0 .. Len(q) : Distance(q, k) \in Int
    BY DistanceSteps
  <2>4. CASE i <= p
    BY <2>4, <2>1, <2>2, <1>2, <1>4
  <2>5. CASE i = p + 1
    <3>1. Distance(q, p) >= n - z
      BY <1>2, DistanceOfDeltas DEF z
    <3>2. QED
      BY <3>1, <2>5, <2>1, <2>3, <1>2, <1>3, <1>4
  <2>6. CASE i > p + 1
    <3>1. i - 1 \in 1 .. Len(q) /\ r[i].left = q[i - 1].left
      BY <2>6, <1>2, <1>4
    <3>2. Distance(r, i) >= Distance(q, i - 1)
      BY <3>1, <2>6, <2>1, <2>3, <1>2, <1>3
    <3>3. Distance(r, i) \in Int /\ Distance(q, i - 1) \in Int
      BY <3>1, <1>2, <2>3, DistanceSteps
    <3>4. QED
      BY <3>1, <3>2, <3>3, <2>2, <1>5
  <2>7. QED
    BY <2>4, <2>5, <2>6, <1>2
<1>9. ASSUME ~Expired(q)
      PROVE  ~Expired(r)
  <2>1. 1 \in 1 .. Len(q) + 1
    BY <1>2
  <2>2. CASE p = 0
    BY <2>1, <2>2, <1>3, <1>4 DEF Expired
  <2>3. CASE p # 0
    <3>1. q # <<>> /\ 1 \in 1 .. Len(q)
      BY <2>3, <1>2
    <3>2. q[1].ticks > 0 /\ r[1].ticks = q[1].ticks
      BY <2>1, <2>3, <3>1, <1>2, <1>4, <1>5, <1>9 DEF Expired
    <3>3. QED
      BY <3>1, <3>2, <1>5 DEF Expired
  <2>4. QED
    BY <2>2, <2>3
<1>10. QED
  BY <1>2, <1>7, <1>8, <1>9

(* timeout() for n ticks puts the timer n ticks away from now, wherever    *)
(* its search ends, when nothing in the list is overdue.                   *)
LEMMA TimeoutExact ==
  ASSUME NEW q \in Seq(cqueue_t), NEW t \in Timers, NEW n \in Nat,
         \A j \in 1 .. Len(q) : q[j].ticks >= 0
  PROVE  \E i \in DOMAIN timeout(q, t, n) :
           timeout(q, t, n)[i].id = t /\ Distance(timeout(q, t, n), i) = n
<1> DEFINE r == timeout(q, t, n)
<1>1. PICK p : Inserted(q, t, n, p, r)
  BY TimeoutInserts
<1> HIDE DEF r
<1>2. p \in 0 .. Len(q) /\ p + 1 \in 1 .. Len(q) + 1 /\ p + 1 \in DOMAIN r /\ r[p + 1].id = t
  BY <1>1 DEF Inserted
<1>3. Distance(r, p + 1) = Distance(q, p) + Rest(q, n, p)
  BY <1>1, <1>2, DistanceInserted
<1>4. Distance(q, p) = n - Rest(q, n, p)
  BY <1>2, DistanceOfDeltas
<1>5. Rest(q, n, p) \in Nat
  BY <1>1 DEF Inserted
<1>6. QED
  BY <1>2, <1>3, <1>4, <1>5 DEF r
-----------------------------------------------------------------------------
(* r is q without entry i, whose delta has gone to the entry behind it. *)
Removed(q, i, r) ==
  /\ r \in Seq(cqueue_t) /\ Len(r) = Len(q) - 1 /\ i \in 1 .. Len(q)
  /\ \A j \in 1 .. Len(q) - 1 :
       /\ r[j].id = IF j < i THEN q[j].id ELSE q[j + 1].id
       /\ r[j].left = IF j < i THEN q[j].left ELSE q[j + 1].left
       /\ r[j].ticks = IF j < i THEN q[j].ticks
                       ELSE IF j = i THEN q[i + 1].ticks + q[i].ticks
                       ELSE q[j + 1].ticks

(* An entry whose delta has changed. *)
LEMMA Redated ==
  ASSUME NEW e \in cqueue_t, NEW d \in Int
  PROVE  /\ [e EXCEPT !.ticks = @ + d] \in cqueue_t
         /\ [e EXCEPT !.ticks = @ + d].id = e.id
         /\ [e EXCEPT !.ticks = @ + d].left = e.left
         /\ [e EXCEPT !.ticks = @ + d].ticks = e.ticks + d
BY DEF cqueue_t

(* The entry untimeout() finds is one for t when there is one. *)
LEMMA FirstFound ==
  ASSUME NEW q \in Seq(cqueue_t), NEW t
  PROVE  \/ FirstOf(q, t) = 0 /\ \A i \in 1 .. Len(q) : q[i].id # t
         \/ FirstOf(q, t) \in 1 .. Len(q) /\ q[FirstOf(q, t)].id = t
<1> DEFINE I == Entries(q, t)
<1>1. I = {i \in 1 .. Len(q) : q[i].id = t}
  BY DEF Entries
<1>2. FirstOf(q, t) = IF I = {} THEN 0 ELSE CHOOSE i \in I : \A j \in I : i <= j
  BY DEF FirstOf
<1>3. I \in SUBSET Nat
  BY <1>1
<1> HIDE DEF I
<1>4. CASE I = {}
  BY <1>1, <1>2, <1>4
<1>5. CASE I # {}
  <2>1. \E x \in I : \A y \in I : x <= y
    BY <1>3, <1>5, LeastNat
  <2>2. FirstOf(q, t) \in I
    BY <1>2, <1>5, <2>1
  <2>3. QED
    BY <1>1, <2>2
<1>6. QED
  BY <1>4, <1>5

(* untimeout() takes away the entry it finds and no other, and passes its  *)
(* delta on, a negative one too.                                           *)
LEMMA UntimeoutRemoves ==
  ASSUME NEW q \in Seq(cqueue_t), NEW t
  PROVE  \/ /\ untimeout(q, t) = q /\ ~HandsOnLag(q, t)
            /\ \A i \in 1 .. Len(q) : q[i].id # t
         \/ /\ FirstOf(q, t) \in 1 .. Len(q) /\ q[FirstOf(q, t)].id = t
            /\ HandsOnLag(q, t) <=> FirstOf(q, t) < Len(q) /\ q[FirstOf(q, t)].ticks < 0
            /\ Removed(q, FirstOf(q, t), untimeout(q, t))
<1> DEFINE i == FirstOf(q, t)
           w == IF i = Len(q) THEN q ELSE [q EXCEPT ![i + 1].ticks = @ + q[i].ticks]
<1>1. untimeout(q, t) = IF i = 0 THEN q ELSE RemoveAt(w, i)
  BY DEF untimeout
<1>2. HandsOnLag(q, t) <=> i \in 1 .. (Len(q) - 1) /\ q[i].ticks < 0
  BY DEF HandsOnLag
<1>3. \/ i = 0 /\ \A k \in 1 .. Len(q) : q[k].id # t
      \/ i \in 1 .. Len(q) /\ q[i].id = t
  BY FirstFound
<1> HIDE DEF i
<1>4. CASE i = 0
  BY <1>1, <1>2, <1>3, <1>4
<1>5. CASE i \in 1 .. Len(q)
  <2>1. \A k \in 1 .. Len(q) : q[k] \in cqueue_t /\ q[k].ticks \in Int
    BY Fields
  <2>2. /\ w \in Seq(cqueue_t) /\ Len(w) = Len(q)
        /\ \A k \in 1 .. Len(q) : k # i + 1 => w[k] = q[k]
        /\ i < Len(q) => /\ w[i + 1].id = q[i + 1].id /\ w[i + 1].left = q[i + 1].left
                         /\ w[i + 1].ticks = q[i + 1].ticks + q[i].ticks
    <3>1. CASE i = Len(q)
      BY <3>1
    <3>2. CASE i # Len(q)
      <4> DEFINE e == [q[i + 1] EXCEPT !.ticks = @ + q[i].ticks]
      <4>1. i + 1 \in 1 .. Len(q) /\ w = [q EXCEPT ![i + 1] = e]
        BY <1>5, <3>2
      <4>2. /\ e \in cqueue_t /\ e.id = q[i + 1].id /\ e.left = q[i + 1].left
            /\ e.ticks = q[i + 1].ticks + q[i].ticks
        <5>1. q[i + 1] \in cqueue_t /\ q[i].ticks \in Int
          BY <1>5, <2>1, <4>1
        <5>2. QED
          BY <5>1, Redated
      <4> HIDE DEF e, w
      <4>3. QED
        BY <4>1, <4>2
    <3>3. QED
      BY <3>1, <3>2
  <2> HIDE DEF w
  <2> DEFINE r == RemoveAt(w, i)
  <2>3. /\ r \in Seq(cqueue_t) /\ Len(r) = Len(w) - 1
        /\ \A j \in 1 .. i - 1 : r[j] = w[j]
        /\ \A j \in i .. Len(w) - 1 : r[j] = w[j + 1]
    <3>1. i \in 1 .. Len(w)
      BY <1>5, <2>2
    <3>2. QED
      BY <3>1, <2>2, RemoveAtShape
  <2> HIDE DEF r
  <2>4. ASSUME NEW j \in 1 .. Len(q) - 1
        PROVE  r[j] = IF j < i THEN q[j] ELSE IF j = i THEN w[i + 1] ELSE q[j + 1]
    BY <1>5, <2>2, <2>3
  <2>5. Removed(q, i, r)
    BY <1>5, <2>2, <2>3, <2>4 DEF Removed
  <2>6. i # 0 /\ (i \in 1 .. (Len(q) - 1) <=> i < Len(q))
    BY <1>5
  <2>7. QED
    BY <1>1, <1>2, <1>3, <1>5, <2>5, <2>6 DEF i, r
<1>6. QED
  BY <1>3, <1>4, <1>5

(* The entries behind one that untimeout() removes are as far away as they *)
(* were, if the one removed was not overdue.                               *)
LEMMA DistanceRemoved ==
  ASSUME NEW q \in Seq(cqueue_t), NEW i, NEW r, Removed(q, i, r), Ordered(q),
         i = Len(q) \/ q[i].ticks >= 0, NEW j \in 0 .. Len(q) - 1
  PROVE  Distance(r, j) = IF j < i THEN Distance(q, j) ELSE Distance(q, j + 1)
<1> DEFINE E(k) == IF k < i THEN Distance(q, k) ELSE Distance(q, k + 1)
           T == {k \in Nat : k <= Len(q) - 1 /\ Distance(r, k) # E(k)}
<1> SUFFICES ASSUME T # {} PROVE FALSE
  OBVIOUS
<1>1. PICK m \in T : \A y \in T : m <= y
  BY LeastNat
<1>2. /\ r \in Seq(cqueue_t) /\ Len(r) = Len(q) - 1 /\ i \in 1 .. Len(q)
      /\ \A k \in 1 .. Len(q) - 1 :
           r[k].ticks = IF k < i THEN q[k].ticks
                        ELSE IF k = i THEN q[i + 1].ticks + q[i].ticks
                        ELSE q[k + 1].ticks
  BY DEF Removed
<1>3. \A k \in 1 .. Len(q) : q[k].ticks \in Int
  BY Fields
<1>4. /\ Distance(q, 0) = 0
      /\ \A k \in 0 .. Len(q) : Distance(q, k) \in Int
      /\ \A k \in 1 .. Len(q) :
           Distance(q, k) = Distance(q, k - 1) + IF q[k].ticks >= 0 THEN q[k].ticks ELSE 0
  BY DistanceSteps
<1>5. /\ Distance(r, 0) = 0
      /\ \A k \in 1 .. Len(q) - 1 :
           Distance(r, k) = Distance(r, k - 1) + IF r[k].ticks >= 0 THEN r[k].ticks ELSE 0
  BY <1>2, DistanceSteps
<1>6. m # 0
  BY <1>1, <1>2, <1>4, <1>5
<1>7. m \in 1 .. Len(q) - 1 /\ m - 1 \in 0 .. Len(q) - 1 /\ Distance(r, m - 1) = E(m - 1)
  BY <1>1, <1>6
<1>8. Distance(r, m) = E(m - 1) + IF r[m].ticks >= 0 THEN r[m].ticks ELSE 0
  BY <1>5, <1>7
<1>9. Distance(r, m) = E(m)
  <2>1. CASE m < i
    <3>1. r[m].ticks = q[m].ticks /\ E(m - 1) = Distance(q, m - 1) /\ m \in 1 .. Len(q)
      BY <1>2, <1>7, <2>1
    <3>2. QED
      BY <1>4, <1>8, <2>1, <3>1
  <2>2. CASE m = i
    <3> DEFINE a == q[m].ticks
               b == q[m + 1].ticks
    <3>1. /\ r[m].ticks = b + a /\ E(m - 1) = Distance(q, m - 1)
          /\ m \in 1 .. Len(q) /\ m + 1 \in 1 .. Len(q) /\ E(m) = Distance(q, m + 1)
      BY <1>2, <1>7, <2>2
    <3>2. a \in Int /\ b \in Int /\ a >= 0 /\ (a > 0 => b >= 0)
      BY <1>3, <1>7, <2>2, <3>1 DEF Ordered
    <3>3. /\ Distance(q, m) = Distance(q, m - 1) + IF a >= 0 THEN a ELSE 0
          /\ Distance(q, m + 1) = Distance(q, m) + IF b >= 0 THEN b ELSE 0
          /\ Distance(q, m - 1) \in Int
      <4>1. m - 1 \in 0 .. Len(q) /\ (m + 1) - 1 = m
        BY <3>1
      <4>2. QED
        BY <1>4, <3>1, <4>1
    <3> HIDE DEF a, b, E
    <3>4. Distance(r, m) = Distance(q, m - 1) + IF b + a >= 0 THEN b + a ELSE 0
      BY <1>8, <3>1
    <3>5. QED
      BY <3>1, <3>2, <3>3, <3>4
  <2>3. CASE m > i
    <3>1. r[m].ticks = q[m + 1].ticks /\ m + 1 \in 1 .. Len(q) /\ (m + 1) - 1 = m
      BY <1>2, <1>7, <2>3
    <3>2. E(m - 1) = Distance(q, m) /\ E(m) = Distance(q, m + 1)
      <4>1. ~(m - 1 < i) /\ ~(m < i) /\ (m - 1) + 1 = m
        BY <1>2, <1>7, <2>3
      <4>2. QED
        BY <4>1
    <3> HIDE DEF E
    <3>3. Distance(q, m + 1) = Distance(q, m) + IF q[m + 1].ticks >= 0 THEN q[m + 1].ticks ELSE 0
      BY <1>4, <3>1
    <3>4. QED
      BY <1>8, <3>1, <3>2, <3>3
  <2>4. QED
    BY <1>2, <1>7, <2>1, <2>2, <2>3
<1>10. QED
  BY <1>1, <1>9

(* untimeout() keeps what timeout() keeps, but that an entry behind an     *)
(* overdue one may be brought nearer than it has ticks to go.              *)
LEMMA UntimeoutKeeps ==
  ASSUME NEW q \in Seq(cqueue_t), NEW t, Ordered(q)
  PROVE  /\ untimeout(q, t) \in Seq(cqueue_t)
         /\ Ordered(untimeout(q, t))
         /\ Timely(q) /\ ~HandsOnLag(q, t) => Timely(untimeout(q, t))
         /\ ~Expired(q) => ~Expired(untimeout(q, t))
<1> DEFINE i == FirstOf(q, t)
           r == untimeout(q, t)
<1>1. CASE untimeout(q, t) = q
  BY <1>1
<1>2. CASE /\ HandsOnLag(q, t) <=> i < Len(q) /\ q[i].ticks < 0
           /\ Removed(q, i, r)
  <2> SUFFICES r \in Seq(cqueue_t) /\ Ordered(r) /\ (Timely(q) /\ ~HandsOnLag(q, t) => Timely(r))
               /\ (~Expired(q) => ~Expired(r))
    OBVIOUS
  <2> HIDE DEF i, r
  <2>1. /\ r \in Seq(cqueue_t) /\ Len(r) = Len(q) - 1 /\ i \in 1 .. Len(q)
        /\ DOMAIN q = 1 .. Len(q) /\ DOMAIN r = 1 .. Len(q) - 1 /\ Len(q) \in Nat
    BY <1>2 DEF Removed
  <2>2. \A j \in 1 .. Len(q) - 1 :
          /\ r[j].left = IF j < i THEN q[j].left ELSE q[j + 1].left
          /\ r[j].ticks = IF j < i THEN q[j].ticks
                          ELSE IF j = i THEN q[i + 1].ticks + q[i].ticks
                          ELSE q[j + 1].ticks
    BY <1>2 DEF Removed
  <2>3. \A j \in 1 .. Len(q) : q[j].ticks \in Int /\ q[j].left \in Nat
    BY Fields
  <2>4. \A k, j \in 1 .. Len(q) : k < j /\ q[k].ticks > 0 => q[j].ticks >= 0
    BY <2>1 DEF Ordered
  <2>5. Ordered(r)
    <3> SUFFICES ASSUME NEW k \in 1 .. Len(q) - 1, NEW j \in 1 .. Len(q) - 1,
                        k < j, r[k].ticks > 0
                 PROVE  r[j].ticks >= 0
      BY <2>1 DEF Ordered
    <3>1. CASE k < i
      <4>1. q[k].ticks > 0 /\ k \in 1 .. Len(q)
        BY <3>1, <2>1, <2>2
      <4>2. \A x \in 1 .. Len(q) : x > k => q[x].ticks >= 0 /\ q[x].ticks \in Int
        BY <4>1, <2>3, <2>4
      <4>3. j \in 1 .. Len(q) /\ j + 1 \in 1 .. Len(q) /\ j > k /\ j + 1 > k
        BY <2>1
      <4>4. CASE j = i
        <5>1. r[j].ticks = q[j + 1].ticks + q[j].ticks
          BY <4>4, <2>2, SMTT(30)
        <5>2. QED
          BY <4>2, <4>3, <5>1
      <4>5. CASE j # i
        BY <4>2, <4>3, <4>5, <2>1, <2>2
      <4>6. QED
        BY <4>4, <4>5
    <3>2. CASE k = i
      <4>1. /\ i \in 1 .. Len(q) /\ i + 1 \in 1 .. Len(q) /\ j + 1 \in 1 .. Len(q)
            /\ j + 1 > i + 1 /\ i + 1 > i /\ r[j].ticks = q[j + 1].ticks
            /\ q[i + 1].ticks + q[i].ticks > 0
        BY <3>2, <2>1, <2>2
      <4>2. q[i].ticks > 0 \/ q[i + 1].ticks > 0
        BY <4>1, <2>3
      <4>3. QED
        BY <4>1, <4>2, <2>4
    <3>3. CASE k > i
      <4>1. /\ k + 1 \in 1 .. Len(q) /\ j + 1 \in 1 .. Len(q) /\ k + 1 < j + 1
            /\ r[j].ticks = q[j + 1].ticks /\ q[k + 1].ticks > 0
        BY <3>3, <2>1, <2>2
      <4>2. QED
        BY <4>1, <2>4
    <3>4. QED
      BY <3>1, <3>2, <3>3, <2>1
  <2>6. ASSUME Timely(q), ~HandsOnLag(q, t)
        PROVE  Timely(r)
    <3> SUFFICES ASSUME NEW j \in 1 .. Len(q) - 1
                 PROVE  r[j].left <= Distance(r, j)
      BY <2>1 DEF Timely
    <3>1. Distance(r, j) = IF j < i THEN Distance(q, j) ELSE Distance(q, j + 1)
      <4>1. i = Len(q) \/ q[i].ticks >= 0
        <5>1. ~(i < Len(q) /\ q[i].ticks < 0)
          BY <1>2, <2>6, Zenon
        <5>2. q[i].ticks \in Int /\ i \in Nat /\ Len(q) \in Nat /\ i <= Len(q)
          BY <2>1, <2>3
        <5>3. QED
          BY <5>1, <5>2
      <4>2. j \in 0 .. Len(q) - 1
        BY <2>1
      <4>3. QED
        BY <1>2, <4>1, <4>2, DistanceRemoved
    <3>2. \A k \in 1 .. Len(q) : q[k].left <= Distance(q, k)
      BY <2>1, <2>6 DEF Timely
    <3>3. j \in 1 .. Len(q) /\ j + 1 \in 1 .. Len(q)
      BY <2>1
    <3>4. QED
      BY <3>1, <3>2, <3>3, <2>2
  <2>7. ASSUME ~Expired(q)
        PROVE  ~Expired(r)
    <3> SUFFICES ASSUME r # <<>> PROVE r[1].ticks > 0
      <4>1. r # <<>> => r[1].ticks \in Int
        BY <2>1, Fields
      <4>2. QED
        BY <4>1 DEF Expired
    <3>1. 1 \in 1 .. Len(q) - 1 /\ 2 \in 1 .. Len(q) /\ 1 \in 1 .. Len(q) /\ q # <<>>
      BY <2>1
    <3>2. q[1].ticks > 0 /\ q[2].ticks >= 0 /\ q[1].ticks \in Int /\ q[2].ticks \in Int
      BY <3>1, <2>3, <2>4, <2>7 DEF Expired
    <3>3. CASE i = 1
      <4>1. r[1].ticks = q[2].ticks + q[1].ticks
        BY <3>1, <3>3, <2>2
      <4>2. QED
        BY <3>2, <4>1
    <3>4. CASE i # 1
      <4>1. r[1].ticks = q[1].ticks
        BY <3>1, <3>4, <2>1, <2>2
      <4>2. QED
        BY <3>2, <4>1
    <3>5. QED
      BY <3>3, <3>4
  <2>8. QED
    BY <2>1, <2>5, <2>6, <2>7
<1>3. QED
  BY <1>1, <1>2, UntimeoutRemoves
-----------------------------------------------------------------------------
(* What hardclock() does to the entries of q. *)
LEMMA TickedEntries ==
  ASSUME NEW q \in Seq(cqueue_t)
  PROVE  /\ Ticked(q) \in Seq(cqueue_t) /\ Len(Ticked(q)) = Len(q)
         /\ \A i \in 1 .. Len(q) :
              /\ Ticked(q)[i].id = q[i].id
              /\ Ticked(q)[i].left = IF q[i].left >= 1 THEN q[i].left - 1 ELSE 0
              /\ i \in Decremented(q) => Ticked(q)[i].ticks = q[i].ticks - 1
              /\ i \notin Decremented(q) => Ticked(q)[i].ticks = q[i].ticks
<1> DEFINE e(i) == [q[i] EXCEPT !.ticks = IF i \in Decremented(q) THEN @ - 1 ELSE @,
                                !.left  = IF @ > 0 THEN @ - 1 ELSE 0]
<1>1. DOMAIN q = 1 .. Len(q) /\ Len(q) \in Nat
  OBVIOUS
<1>2. ASSUME NEW i \in 1 .. Len(q)
      PROVE  /\ e(i) \in cqueue_t /\ e(i).id = q[i].id
             /\ e(i).left = IF q[i].left >= 1 THEN q[i].left - 1 ELSE 0
             /\ i \in Decremented(q) => e(i).ticks = q[i].ticks - 1
             /\ i \notin Decremented(q) => e(i).ticks = q[i].ticks
  <2>1. q[i] \in cqueue_t /\ q[i].ticks \in Int /\ q[i].left \in Nat
    BY Fields
  <2> DEFINE a == IF i \in Decremented(q) THEN q[i].ticks - 1 ELSE q[i].ticks
             b == IF q[i].left > 0 THEN q[i].left - 1 ELSE 0
  <2>3. a \in Int /\ b \in Nat /\ b = IF q[i].left >= 1 THEN q[i].left - 1 ELSE 0
    BY <2>1
  <2>4. e(i) = [q[i] EXCEPT !.ticks = a, !.left = b]
    OBVIOUS
  <2>5. (i \in Decremented(q) => a = q[i].ticks - 1) /\ (i \notin Decremented(q) => a = q[i].ticks)
    OBVIOUS
  <2> HIDE DEF a, b, e
  <2>6. e(i) \in cqueue_t /\ e(i).id = q[i].id /\ e(i).left = b /\ e(i).ticks = a
    BY <2>1, <2>3, <2>4 DEF cqueue_t
  <2>7. QED
    BY <2>3, <2>5, <2>6
<1>3. Ticked(q) = [i \in 1 .. Len(q) |-> e(i)]
  BY <1>1 DEF Ticked
<1> HIDE DEF e
<1>4. Ticked(q) \in Seq(cqueue_t) /\ Len(Ticked(q)) = Len(q)
  BY <1>1, <1>2, <1>3
<1>5. \A i \in 1 .. Len(q) : Ticked(q)[i] = e(i)
  BY <1>3
<1>6. QED
  BY <1>2, <1>4, <1>5

(* A tick brings every entry one tick nearer, unless it is due already. *)
LEMMA DistanceTicked ==
  ASSUME NEW q \in Seq(cqueue_t), Ordered(q), NEW i \in 0 .. Len(q)
  PROVE  \/ Distance(Ticked(q), i) = Distance(q, i) - 1
         \/ Distance(Ticked(q), i) = 0 /\ Distance(q, i) = 0
<1> DEFINE r == Ticked(q)
           Pos(k) == \E j \in 1 .. k : q[j].ticks > 0
           Good(k) == /\ Pos(k) => Distance(r, k) = Distance(q, k) - 1
                      /\ ~Pos(k) => Distance(r, k) = 0 /\ Distance(q, k) = 0
           T == {k \in Nat : k <= Len(q) /\ ~Good(k)}
<1> SUFFICES ASSUME T # {} PROVE FALSE
  OBVIOUS
<1>1. PICK m \in T : \A y \in T : m <= y
  BY LeastNat
<1>2. /\ r \in Seq(cqueue_t) /\ Len(r) = Len(q)
      /\ \A k \in 1 .. Len(q) :
           /\ k \in Decremented(q) => r[k].ticks = q[k].ticks - 1
           /\ k \notin Decremented(q) => r[k].ticks = q[k].ticks
  BY TickedEntries
<1> HIDE DEF r
<1>3. /\ Distance(q, 0) = 0
      /\ \A k \in 0 .. Len(q) : Distance(q, k) \in Int
      /\ \A k \in 1 .. Len(q) :
           Distance(q, k) = Distance(q, k - 1) + IF q[k].ticks >= 0 THEN q[k].ticks ELSE 0
  BY DistanceSteps
<1>4. /\ Distance(r, 0) = 0
      /\ \A k \in 1 .. Len(q) :
           Distance(r, k) = Distance(r, k - 1) + IF r[k].ticks >= 0 THEN r[k].ticks ELSE 0
  BY <1>2, DistanceSteps
<1>5. m # 0
  BY <1>1, <1>3, <1>4
<1>6. m \in 1 .. Len(q) /\ m - 1 \in 0 .. Len(q) /\ Good(m - 1)
  BY <1>1, <1>5
<1>7. \A k \in 1 .. Len(q) : q[k].ticks \in Int
  BY Fields
<1>8. /\ Distance(q, m) = Distance(q, m - 1) + IF q[m].ticks >= 0 THEN q[m].ticks ELSE 0
      /\ Distance(r, m) = Distance(r, m - 1) + IF r[m].ticks >= 0 THEN r[m].ticks ELSE 0
      /\ Distance(q, m - 1) \in Int /\ q[m].ticks \in Int
  BY <1>3, <1>4, <1>6, <1>7
<1>9. Good(m)
  <2>1. CASE Pos(m - 1)
    <3>1. PICK j \in 1 .. m - 1 : q[j].ticks > 0
      BY <2>1
    <3>2. m \notin Decremented(q) /\ q[m].ticks >= 0 /\ Pos(m)
      <4>1. j \in DOMAIN q /\ m \in DOMAIN q /\ j < m /\ j \in 1 .. m
        BY <1>6, <3>1
      <4>2. m \notin Decremented(q)
        BY <1>7, <3>1, <4>1 DEF Decremented
      <4>3. q[m].ticks >= 0
        BY <3>1, <4>1 DEF Ordered
      <4>4. Pos(m)
        BY <3>1, <4>1
      <4>5. QED
        BY <4>2, <4>3, <4>4
    <3>3. Distance(r, m - 1) = Distance(q, m - 1) - 1 /\ r[m].ticks = q[m].ticks
      BY <1>2, <1>6, <2>1, <3>2
    <3> HIDE DEF Pos
    <3>4. Distance(r, m) = Distance(q, m) - 1
      <4>1. Distance(q, m) = Distance(q, m - 1) + q[m].ticks
        BY <1>8, <3>2
      <4>2. Distance(r, m) = (Distance(q, m - 1) - 1) + q[m].ticks
        BY <1>8, <3>2, <3>3
      <4>3. QED
        BY <4>1, <4>2, <1>8
    <3>5. QED
      BY <3>2, <3>4
  <2>2. CASE ~Pos(m - 1)
    <3>1. m \in Decremented(q) /\ (Pos(m) <=> q[m].ticks > 0)
      BY <1>6, <1>7, <2>2 DEF Decremented
    <3>2. Distance(r, m - 1) = 0 /\ Distance(q, m - 1) = 0 /\ r[m].ticks = q[m].ticks - 1
      BY <1>2, <1>6, <2>2, <3>1
    <3> HIDE DEF Pos
    <3>3. QED
      BY <1>8, <3>1, <3>2
  <2>3. QED
    BY <2>1, <2>2
<1>10. QED
  BY <1>1, <1>9

(* hardclock() keeps what timeout() keeps; if it does not signal           *)
(* clock_cond the head has not expired.                                    *)
LEMMA TickedKeeps ==
  ASSUME NEW q \in Seq(cqueue_t), Ordered(q)
  PROVE  /\ Ticked(q) \in Seq(cqueue_t)
         /\ Ordered(Ticked(q))
         /\ Timely(q) => Timely(Ticked(q))
         /\ ~needsoft(q) => ~Expired(Ticked(q))
<1> DEFINE r == Ticked(q)
<1> SUFFICES r \in Seq(cqueue_t) /\ Ordered(r) /\ (Timely(q) => Timely(r))
             /\ (~needsoft(q) => ~Expired(r))
  OBVIOUS
<1>1. /\ r \in Seq(cqueue_t) /\ Len(r) = Len(q)
      /\ \A i \in 1 .. Len(q) :
           /\ r[i].left = IF q[i].left >= 1 THEN q[i].left - 1 ELSE 0
           /\ i \in Decremented(q) => r[i].ticks = q[i].ticks - 1
           /\ i \notin Decremented(q) => r[i].ticks = q[i].ticks
  BY TickedEntries
<1>2. \A i \in 0 .. Len(q) : \/ Distance(r, i) = Distance(q, i) - 1
                             \/ Distance(r, i) = 0 /\ Distance(q, i) = 0
  BY DistanceTicked
<1> HIDE DEF r
<1>3. \A i \in 1 .. Len(q) : q[i].ticks \in Int /\ q[i].left \in Nat
  BY Fields
<1>4. DOMAIN q = 1 .. Len(q) /\ DOMAIN r = 1 .. Len(q) /\ Len(q) \in Nat
  BY <1>1
<1>5. Ordered(r)
  <2> SUFFICES ASSUME NEW i \in 1 .. Len(q), NEW j \in 1 .. Len(q), i < j, r[i].ticks > 0
               PROVE  r[j].ticks >= 0
    BY <1>4 DEF Ordered
  <2>1. \E k \in 1 .. i : q[k].ticks > 0
    <3>1. CASE i \in Decremented(q)
      BY <1>1, <1>3, <3>1
    <3>2. CASE i \notin Decremented(q)
      BY <1>1, <1>3, <3>2
    <3>3. QED
      BY <3>1, <3>2
  <2>2. PICK k \in 1 .. i : q[k].ticks > 0
    BY <2>1
  <2>3. k \in 1 .. Len(q) /\ k \in 1 .. (j - 1) /\ k < j
    OBVIOUS
  <2>4. j \notin Decremented(q) /\ q[j].ticks >= 0
    BY <1>3, <1>4, <2>2, <2>3 DEF Decremented, Ordered
  <2>5. QED
    BY <1>1, <2>4
<1>6. ASSUME Timely(q)
      PROVE  Timely(r)
  <2> SUFFICES ASSUME NEW i \in 1 .. Len(q)
               PROVE  r[i].left <= Distance(r, i)
    BY <1>4 DEF Timely
  <2>1. q[i].left <= Distance(q, i) /\ q[i].left \in Nat
    BY <1>3, <1>4, <1>6 DEF Timely
  <2>2. Distance(q, i) \in Int /\ i \in 0 .. Len(q)
    BY DistanceSteps
  <2>3. \/ Distance(r, i) = Distance(q, i) - 1
        \/ Distance(r, i) = 0 /\ Distance(q, i) = 0
    BY <1>2, <2>2
  <2>4. r[i].left = IF q[i].left >= 1 THEN q[i].left - 1 ELSE 0
    BY <1>1
  <2>5. Distance(r, i) >= 0
    BY <1>1, <2>2, DistanceNat
  <2>6. QED
    BY <2>1, <2>2, <2>3, <2>4, <2>5
<1>7. ASSUME ~needsoft(q)
      PROVE  ~Expired(r)
  <2> SUFFICES ASSUME r # <<>> PROVE r[1].ticks > 0
    <3>1. r # <<>> => r[1].ticks \in Int
      BY <1>1, Fields
    <3>2. QED
      BY <3>1 DEF Expired
  <2>1. 1 \in 1 .. Len(q)
    BY <1>1
  <2>2. 1 \in Decremented(q)
    BY <2>1, <1>4 DEF Decremented
  <2>3. ~(q[1].ticks - 1 <= 0)
    BY <2>2, <1>7 DEF needsoft
  <2>4. QED
    BY <2>1, <2>2, <2>3, <1>1, <1>3
<1>8. QED
  BY <1>1, <1>5, <1>6, <1>7
-----------------------------------------------------------------------------
(* callout_thread takes an expired head off the list: the others are as    *)
(* far away as they were.                                                  *)
LEMMA TailKeeps ==
  ASSUME NEW q \in Seq(cqueue_t), Ordered(q), Expired(q)
  PROVE  /\ Tail(q) \in Seq(cqueue_t) /\ Len(Tail(q)) = Len(q) - 1
         /\ Ordered(Tail(q))
         /\ Timely(q) => Timely(Tail(q))
<1> DEFINE r == Tail(q)
<1>1. /\ r \in Seq(cqueue_t) /\ Len(r) = Len(q) - 1 /\ Len(q) \in Nat \ {0}
      /\ \A i \in 1 .. Len(q) - 1 : r[i] = q[i + 1]
      /\ DOMAIN r = 1 .. Len(q) - 1 /\ DOMAIN q = 1 .. Len(q)
  BY DEF Expired
<1> SUFFICES Ordered(r) /\ (Timely(q) => Timely(r))
  BY <1>1
<1>2. q[1].ticks <= 0
  BY DEF Expired
<1> HIDE DEF r
<1>3. Ordered(r)
  <2> SUFFICES ASSUME NEW i \in 1 .. Len(q) - 1, NEW j \in 1 .. Len(q) - 1,
                      i < j, r[i].ticks > 0
               PROVE  r[j].ticks >= 0
    BY <1>1 DEF Ordered
  <2>1. /\ i + 1 \in DOMAIN q /\ j + 1 \in DOMAIN q /\ i + 1 < j + 1
        /\ r[i] = q[i + 1] /\ r[j] = q[j + 1]
    BY <1>1
  <2>2. QED
    BY <2>1 DEF Ordered
<1>4. \A k \in 0 .. Len(q) - 1 : Distance(r, k) = Distance(q, k + 1)
  <2> DEFINE T == {k \in Nat : k <= Len(q) - 1 /\ Distance(r, k) # Distance(q, k + 1)}
  <2> SUFFICES ASSUME T # {} PROVE FALSE
    BY <1>1
  <2>1. PICK m \in T : \A y \in T : m <= y
    BY LeastNat
  <2>2. /\ Distance(q, 0) = 0
        /\ \A k \in 0 .. Len(q) : Distance(q, k) \in Int
        /\ \A k \in 1 .. Len(q) :
             Distance(q, k) = Distance(q, k - 1) + IF q[k].ticks >= 0 THEN q[k].ticks ELSE 0
    BY DistanceSteps
  <2>3. /\ Distance(r, 0) = 0
        /\ \A k \in 1 .. Len(q) - 1 :
             Distance(r, k) = Distance(r, k - 1) + IF r[k].ticks >= 0 THEN r[k].ticks ELSE 0
    BY <1>1, DistanceSteps
  <2>4. Distance(q, 1) = 0
    BY <1>1, <1>2, DistanceNat
  <2>5. m # 0
    BY <2>1, <2>3, <2>4
  <2>6. /\ m \in 1 .. Len(q) - 1 /\ m + 1 \in 1 .. Len(q) /\ (m + 1) - 1 = (m - 1) + 1
        /\ Distance(r, m - 1) = Distance(q, (m - 1) + 1) /\ r[m] = q[m + 1]
    BY <1>1, <2>1, <2>5
  <2>7. Distance(r, m) = Distance(q, m + 1)
    BY <2>2, <2>3, <2>6
  <2>8. QED
    BY <2>1, <2>7
<1>5. ASSUME Timely(q)
      PROVE  Timely(r)
  <2> SUFFICES ASSUME NEW i \in 1 .. Len(q) - 1
               PROVE  r[i].left <= Distance(r, i)
    BY <1>1 DEF Timely
  <2>1. r[i] = q[i + 1] /\ i + 1 \in DOMAIN q /\ i \in 0 .. Len(q) - 1
    BY <1>1
  <2>2. QED
    BY <1>4, <1>5, <2>1 DEF Timely
<1>6. QED
  BY <1>3, <1>5

(* g is the history of the list over the first m calls of anp_init(). *)
BootedTo(g, m) ==
  g = [i \in 0 .. m |-> IF i = 0 THEN <<>> ELSE timeout(g[i - 1], Boot[i][1], Boot[i][2])]

(* Each call of timeout() by anp_init() applies to the list that the calls *)
(* before it have built.                                                   *)
LEMMA BootedSteps ==
  ASSUME Len(Boot) \in Nat
  PROVE  /\ Booted(0) = <<>>
         /\ \A i \in 1 .. Len(Boot) :
              Booted(i) = timeout(Booted(i - 1), Boot[i][1], Boot[i][2])
<1> DEFINE N == Len(Boot)
           T == {m \in Nat : ~\E g : BootedTo(g, m)}
<1> HIDE DEF N
<1>1. T = {}
  <2> SUFFICES ASSUME T # {} PROVE FALSE
    OBVIOUS
  <2>1. PICK m \in T : \A y \in T : m <= y
    BY LeastNat
  <2>2. m # 0
    <3> SUFFICES ASSUME m = 0 PROVE FALSE
      OBVIOUS
    <3>1. BootedTo([i \in 0 .. 0 |-> <<>>], 0)
      BY DEF BootedTo
    <3>2. QED
      BY <2>1, <3>1
  <2>3. m - 1 \in Nat /\ m - 1 \notin T
    BY <2>1, <2>2
  <2>4. PICK g : BootedTo(g, m - 1)
    BY <2>3
  <2> DEFINE h == [i \in 0 .. m |-> IF i = m THEN timeout(g[m - 1], Boot[m][1], Boot[m][2]) ELSE g[i]]
  <2>5. BootedTo(h, m)
    <3>1. \A i \in 0 .. m - 1 :
            g[i] = IF i = 0 THEN <<>> ELSE timeout(g[i - 1], Boot[i][1], Boot[i][2])
      BY <2>3, <2>4 DEF BootedTo
    <3>2. \A i \in 0 .. m :
            h[i] = IF i = 0 THEN <<>> ELSE timeout(h[i - 1], Boot[i][1], Boot[i][2])
      BY <2>3, <3>1
    <3>3. h = [i \in 0 .. m |-> h[i]]
      OBVIOUS
    <3> HIDE DEF h
    <3>4. QED
      BY <3>2, <3>3 DEF BootedTo
  <2>6. QED
    BY <2>1, <2>5
<1>2. N \in Nat
  BY DEF N
<1>3. \E g : BootedTo(g, N)
  BY <1>1, <1>2
<1> DEFINE G == CHOOSE g : BootedTo(g, N)
<1>4. BootedTo(G, N)
  BY <1>3
<1>5. \A n : Booted(n) = G[n]
  BY DEF Booted, BootedTo, N
<1> HIDE DEF G
<1>6. \A i \in 0 .. N : G[i] = IF i = 0 THEN <<>> ELSE timeout(G[i - 1], Boot[i][1], Boot[i][2])
  BY <1>4 DEF BootedTo
<1>7. QED
  BY <1>2, <1>5, <1>6 DEF N

(* The entries of q belong to different timers. *)
Distinct(q) == \A j, k \in 1 .. Len(q) : q[j].id = q[k].id => j = k

(* timeout() for a timer that has no entry keeps the timers of the entries *)
(* different.                                                              *)
LEMMA TimeoutDistinct ==
  ASSUME NEW q \in Seq(cqueue_t), NEW t \in Timers, NEW n \in Nat, Distinct(q),
         \A j \in 1 .. Len(q) : q[j].id # t
  PROVE  /\ Distinct(timeout(q, t, n))
         /\ \A j \in 1 .. Len(timeout(q, t, n)) :
              \/ timeout(q, t, n)[j].id = t
              \/ \E k \in 1 .. Len(q) : timeout(q, t, n)[j].id = q[k].id
<1> DEFINE r == timeout(q, t, n)
<1>1. PICK p : Inserted(q, t, n, p, r)
  BY TimeoutInserts
<1> SUFFICES /\ Distinct(r)
             /\ \A j \in 1 .. Len(r) : r[j].id = t \/ \E k \in 1 .. Len(q) : r[j].id = q[k].id
  OBVIOUS
<1> HIDE DEF r
<1>2. /\ Len(r) = Len(q) + 1 /\ p \in 0 .. Len(q) /\ Len(q) \in Nat
      /\ \A i \in 1 .. Len(q) + 1 :
           r[i].id = IF i <= p THEN q[i].id ELSE IF i = p + 1 THEN t ELSE q[i - 1].id
  BY <1>1 DEF Inserted
<1> DEFINE old(i) == IF i <= p THEN i ELSE i - 1
<1>3. \A i \in 1 .. Len(q) + 1 :
        i # p + 1 => old(i) \in 1 .. Len(q) /\ r[i].id = q[old(i)].id
  BY <1>2
<1>4. \A i, j \in 1 .. Len(q) + 1 : i # p + 1 /\ j # p + 1 /\ old(i) = old(j) => i = j
  BY <1>2
<1>5. p + 1 \in 1 .. Len(q) + 1 /\ r[p + 1].id = t
  BY <1>2
<1> HIDE DEF old
<1>6. Distinct(r)
  <2> SUFFICES ASSUME NEW i \in 1 .. Len(q) + 1, NEW j \in 1 .. Len(q) + 1, r[i].id = r[j].id
               PROVE  i = j
    BY <1>2 DEF Distinct
  <2>1. QED
    BY <1>3, <1>4, <1>5 DEF Distinct
<1>7. QED
  BY <1>2, <1>3, <1>5, <1>6

(* What anp_init() leaves: a list in order in which nothing has expired,   *)
(* with at most one entry for a timer.                                     *)
LEMMA BootKeeps ==
  ASSUME Sane, NEW m \in 0 .. Len(Boot)
  PROVE  /\ Booted(m) \in Seq(cqueue_t) /\ Ordered(Booted(m)) /\ Timely(Booted(m))
         /\ ~Expired(Booted(m)) /\ Distinct(Booted(m))
         /\ \A j \in 1 .. Len(Booted(m)) : \E k \in 1 .. m : Booted(m)[j].id = Boot[k][1]
<1> DEFINE From(q, n) == \A j \in 1 .. Len(q) : \E k \in 1 .. n : q[j].id = Boot[k][1]
           Good(n) == /\ Booted(n) \in Seq(cqueue_t) /\ Ordered(Booted(n)) /\ Timely(Booted(n))
                      /\ ~Expired(Booted(n)) /\ Distinct(Booted(n)) /\ From(Booted(n), n)
           T == {n \in Nat : n <= Len(Boot) /\ ~Good(n)}
<1>1. Boot \in Seq(Periodic \X (Nat \ {0})) /\ Len(Boot) \in Nat
  BY DEF Sane
<1>2. \A i \in 1 .. Len(Boot) : Boot[i][1] \in Timers /\ Boot[i][2] \in Nat \ {0}
  <2> TAKE i \in 1 .. Len(Boot)
  <2>1. Boot[i] \in Periodic \X (Nat \ {0})
    BY <1>1
  <2>2. QED
    BY <2>1 DEF Timers
<1>3. \A i, j \in 1 .. Len(Boot) : Boot[i][1] = Boot[j][1] => i = j
  BY <1>1 DEF Sane
<1>4. /\ Booted(0) = <<>>
      /\ \A i \in 1 .. Len(Boot) :
           Booted(i) = timeout(Booted(i - 1), Boot[i][1], Boot[i][2])
  BY <1>1, BootedSteps
<1> SUFFICES ASSUME T # {} PROVE FALSE
  BY <1>1
<1>5. PICK x \in T : \A y \in T : x <= y
  BY LeastNat
<1>6. Good(0)
  <2> DEFINE b == Booted(0)
  <2>1. b = <<>>
    BY <1>4
  <2> HIDE DEF b
  <2>2. b \in Seq(cqueue_t) /\ DOMAIN b = {} /\ Len(b) = 0
    BY <2>1
  <2>3. Ordered(b) /\ Timely(b) /\ ~Expired(b) /\ Distinct(b) /\ From(b, 0)
    BY <2>1, <2>2 DEF Ordered, Timely, Expired, Distinct
  <2> HIDE DEF From
  <2>4. QED
    BY <2>2, <2>3 DEF b
<1>7. x # 0
  BY <1>5, <1>6
<1>8. x \in 1 .. Len(Boot) /\ x - 1 \in Nat /\ Good(x - 1)
  BY <1>5, <1>7
<1> DEFINE q == Booted(x - 1)
           t == Boot[x][1]
           n == Boot[x][2]
           r == timeout(q, t, n)
<1>9. /\ q \in Seq(cqueue_t) /\ Ordered(q) /\ Timely(q) /\ ~Expired(q) /\ Distinct(q)
      /\ From(q, x - 1) /\ t \in Timers /\ n \in Nat \ {0} /\ Booted(x) = r
  BY <1>2, <1>4, <1>8
<1>10. \A j \in 1 .. Len(q) : q[j].id # t
  <2> TAKE j \in 1 .. Len(q)
  <2>1. PICK k \in 1 .. x - 1 : q[j].id = Boot[k][1]
    BY <1>9
  <2>2. k \in 1 .. Len(Boot) /\ k # x
    BY <1>8, SMTT(30)
  <2>3. QED
    BY <1>3, <1>8, <2>1, <2>2
<1> HIDE DEF q, n
<1>11. r \in Seq(cqueue_t) /\ Ordered(r) /\ Timely(r) /\ ~Expired(r)
  BY <1>9, TimeoutKeeps
<1>12. /\ Distinct(r)
       /\ \A j \in 1 .. Len(r) : r[j].id = t \/ \E k \in 1 .. Len(q) : r[j].id = q[k].id
  BY <1>9, <1>10, TimeoutDistinct
<1> HIDE DEF r
<1>13. From(r, x)
  <2> SUFFICES ASSUME NEW j \in 1 .. Len(r)
               PROVE  \E k \in 1 .. x : r[j].id = Boot[k][1]
    OBVIOUS
  <2>1. CASE r[j].id = t
    BY <1>8, <2>1
  <2>2. CASE \E k \in 1 .. Len(q) : r[j].id = q[k].id
    <3>1. PICK k \in 1 .. Len(q) : r[j].id = q[k].id
      BY <2>2
    <3>2. PICK i \in 1 .. x - 1 : q[k].id = Boot[i][1]
      BY <1>9
    <3>3. i \in 1 .. x
      BY <1>8
    <3>4. QED
      BY <3>1, <3>2, <3>3
  <2>3. QED
    BY <1>12, <2>1, <2>2
<1>14. Good(x)
  BY <1>9, <1>11, <1>12, <1>13
<1>15. QED
  BY <1>5, <1>14
-----------------------------------------------------------------------------
(* Every step of the clock, of callout_thread and of the kernel threads    *)
(* keeps the inductive invariant.                                          *)
LEMMA CalloutStep ==
  ASSUME Sane, CalloutInv, [Next]_vars
  PROVE  CalloutInv'
<1>1. cq \in Seq(cqueue_t) /\ Ordered(cq)
  BY DEF CalloutInv, TypeOK, Ordered
<1>2. callout \in {"wait", "run"} /\ cut \in BOOLEAN
  BY DEF CalloutInv, TypeOK
<1>3. (callout = "wait" => ~Expired(cq)) /\ (~cut => Timely(cq))
  BY DEF CalloutInv, NoMissedSignal
<1>4. SUFFICES /\ cq' \in Seq(cqueue_t) /\ Ordered(cq')
               /\ callout' \in {"wait", "run"} /\ cut' \in BOOLEAN
               /\ callout' = "wait" => ~Expired(cq')
               /\ ~cut' => Timely(cq')
  BY DEF CalloutInv, TypeOK, NoMissedSignal, Ordered, Timely, Expired, Distance, cqueue_t, Timers
<1>5. CASE UNCHANGED vars
  BY <1>1, <1>2, <1>3, <1>5 DEF vars
<1>6. ASSUME NEW t \in OneShot, NEW n \in Delays, Timeout(t, n)
      PROVE  <1>4!1
  <2>1. t \in Timers /\ n \in Nat \ {0}
    BY DEF Sane, Timers
  <2>2. cq' = timeout(cq, t, n) /\ callout' = callout /\ cut' = cut
    BY <1>6 DEF Timeout
  <2>3. /\ cq' \in Seq(cqueue_t) /\ Ordered(cq') /\ (Timely(cq) => Timely(cq'))
        /\ ~Expired(cq) => ~Expired(cq')
    BY <1>1, <2>1, <2>2, TimeoutKeeps
  <2>4. QED
    BY <1>2, <1>3, <2>2, <2>3
<1>7. ASSUME NEW t \in CanCancel, Untimeout(t)
      PROVE  <1>4!1
  <2>1. cq' = untimeout(cq, t) /\ callout' = callout /\ cut' = (cut \/ HandsOnLag(cq, t))
    BY <1>7 DEF Untimeout
  <2>2. /\ cq' \in Seq(cqueue_t) /\ Ordered(cq')
        /\ Timely(cq) /\ ~HandsOnLag(cq, t) => Timely(cq')
        /\ ~Expired(cq) => ~Expired(cq')
    BY <1>1, <2>1, UntimeoutKeeps
  <2>3. cut' \in BOOLEAN
    BY <2>1
  <2>4. ~cut' => Timely(cq')
    BY <1>2, <1>3, <2>1, <2>2
  <2>5. QED
    BY <1>2, <1>3, <2>1, <2>2, <2>3, <2>4
<1>8. CASE HardClock
  <2>1. cq' = Ticked(cq) /\ callout' = (IF needsoft(cq) THEN "run" ELSE callout) /\ cut' = cut
    BY <1>8 DEF HardClock
  <2>2. /\ cq' \in Seq(cqueue_t) /\ Ordered(cq') /\ (Timely(cq) => Timely(cq'))
        /\ ~needsoft(cq) => ~Expired(cq')
    BY <1>1, <2>1, TickedKeeps
  <2>3. QED
    BY <1>2, <1>3, <2>1, <2>2
<1>9. CASE CalloutRun
  <2> DEFINE q == Tail(cq)
             t == Head(cq).id
  <2>1. /\ callout = "run" /\ callout' = "run" /\ cut' = cut /\ Expired(cq)
        /\ cq' = IF t \in Periodic THEN timeout(q, t, Period[t]) ELSE q
    BY <1>9 DEF CalloutRun, Callback
  <2>2. q \in Seq(cqueue_t) /\ Ordered(q) /\ (Timely(cq) => Timely(q))
    BY <1>1, <2>1, TailKeeps
  <2> HIDE DEF q, t
  <2>3. CASE t \in Periodic
    <3>1. t \in Timers /\ Period[t] \in Nat \ {0}
      BY <2>3 DEF Sane, Timers
    <3>2. cq' \in Seq(cqueue_t) /\ Ordered(cq') /\ (Timely(q) => Timely(cq'))
      BY <2>1, <2>2, <2>3, <3>1, TimeoutKeeps
    <3>3. QED
      BY <1>2, <1>3, <2>1, <2>2, <3>2
  <2>4. CASE t \notin Periodic
    BY <1>2, <1>3, <2>1, <2>2, <2>4
  <2>5. QED
    BY <2>3, <2>4
<1>10. CASE CalloutWait
  BY <1>1, <1>2, <1>3, <1>10 DEF CalloutWait
<1>11. QED
  BY <1>5, <1>6, <1>7, <1>8, <1>9, <1>10 DEF Next, CalloutThread

(* What the clock, callout_thread and the threads that arm and cancel      *)
(* timers keep, whatever their interleaving: the invariant from which the  *)
(* theorems below follow.                                                  *)
THEOREM CalloutInductive ==
  ASSUME Sane
  PROVE  Spec => []CalloutInv
<1>1. Init => CalloutInv
  <2> SUFFICES ASSUME Init PROVE CalloutInv
    OBVIOUS
  <2>1. Len(Boot) \in 0 .. Len(Boot)
    BY DEF Sane
  <2>2. cq \in Seq(cqueue_t) /\ Ordered(cq) /\ Timely(cq) /\ ~Expired(cq)
    BY <2>1, BootKeeps DEF Init
  <2>3. QED
    BY <2>2 DEF Init, CalloutInv, TypeOK, NoMissedSignal, Ordered
<1>2. CalloutInv /\ [Next]_vars => CalloutInv'
  BY CalloutStep
<1>3. QED
  BY <1>1, <1>2, PTL DEF Spec

(* The list keeps its type, and no overdue entry hides behind one that is  *)
(* still running down, so that hardclock() may stop at the first positive  *)
(* delta (timers.c, for any lag of callout_thread).                        *)
THEOREM TypeCorrect ==
  ASSUME Sane
  PROVE  Spec => []TypeOK
<1>1. CalloutInv => TypeOK
  BY DEF CalloutInv
<1>2. QED
  BY <1>1, CalloutInductive, PTL

(* callout_thread never waits on clock_cond while the head of the list has *)
(* expired: hardclock() has signalled it, and neither timeout() nor        *)
(* untimeout() puts an expired entry at the head.                          *)
THEOREM SignalNeverMissed ==
  ASSUME Sane
  PROVE  Spec => []NoMissedSignal
<1>1. CalloutInv => NoMissedSignal
  BY DEF CalloutInv
<1>2. QED
  BY <1>1, CalloutInductive, PTL

(* No function is called before the ticks its timeout() asked for have     *)
(* gone by, until untimeout() removes an overdue entry from in front of    *)
(* another.                                                                *)
THEOREM NothingRunsEarly ==
  ASSUME Sane
  PROVE  Spec => []NeverEarly
<1>1. CalloutInv => NeverEarly
  <2> SUFFICES ASSUME CalloutInv, ~cut, NEW i \in DOMAIN cq, \A j \in 1 .. i : cq[j].ticks <= 0
               PROVE  cq[i].left <= 0
    BY DEF NeverEarly
  <2>1. cq \in Seq(cqueue_t) /\ cq[i].left <= Distance(cq, i)
    BY DEF CalloutInv, TypeOK, Timely
  <2>2. i \in 0 .. Len(cq)
    BY <2>1
  <2>3. Distance(cq, i) = 0
    BY <2>1, <2>2, DistanceNat
  <2>4. QED
    BY <2>1, <2>3
<1>2. QED
  BY <1>1, CalloutInductive, PTL

(* timeout() asked for n ticks puts the timer n ticks away from now,       *)
(* wherever in the list its search ends, when nothing in it is overdue.    *)
THEOREM ArmsExactly ==
  ASSUME Sane
  PROVE  Spec => ArmedExactly
<1>1. CalloutInv /\ [Next]_vars => [Arms]_vars
  <2> SUFFICES ASSUME CalloutInv, NEW t \in OneShot, NEW n \in Delays, Timeout(t, n), ~Expired(cq)
               PROVE  ArmedAt(t, n)
    BY DEF Arms
  <2>1. cq \in Seq(cqueue_t) /\ Ordered(cq)
    BY DEF CalloutInv, TypeOK, Ordered
  <2>2. \A j \in 1 .. Len(cq) : cq[j].ticks >= 0
    <3> TAKE j \in 1 .. Len(cq)
    <3>1. 1 \in 1 .. Len(cq) /\ cq # <<>> /\ cq[1].ticks \in Int
      BY <2>1, Fields
    <3>2. cq[1].ticks > 0
      BY <3>1 DEF Expired
    <3>3. CASE j = 1
      BY <3>1, <3>2, <3>3
    <3>4. CASE j # 1
      <4>1. 1 \in DOMAIN cq /\ j \in DOMAIN cq /\ 1 < j
        BY <2>1, <3>1, <3>4
      <4>2. QED
        BY <2>1, <3>2, <4>1 DEF Ordered
    <3>5. QED
      BY <3>3, <3>4
  <2>3. t \in Timers /\ n \in Nat
    BY DEF Sane, Timers
  <2>4. cq' = timeout(cq, t, n)
    BY DEF Timeout
  <2>5. QED
    BY <2>1, <2>2, <2>3, <2>4, TimeoutExact DEF ArmedAt
<1>2. QED
  BY <1>1, CalloutInductive, PTL DEF Spec, ArmedExactly
-----------------------------------------------------------------------------
(* What each entry of q adds to the number of entries for timer t. *)
Marks(q, t) == [i \in DOMAIN q |-> IF q[i].id = t THEN 1 ELSE 0]

(* A list has a natural number of entries for a timer. *)
LEMMA CountNat ==
  ASSUME NEW q \in Seq(cqueue_t), NEW t
  PROVE  Count(q, t) \in Nat
<1>1. \A i \in 1 .. Len(q) : Marks(q, t)[i] \in Nat
  BY DEF Marks
<1>2. Len(q) \in Nat /\ Count(q, t) = Total(Marks(q, t), Len(q))
  BY DEF Count, Marks
<1>3. QED
  BY <1>1, <1>2, SumNat

(* A list without two entries for the same timer has one for t or none. *)
LEMMA CountDistinct ==
  ASSUME NEW q \in Seq(cqueue_t), Distinct(q), NEW t
  PROVE  Count(q, t) \in {0, 1}
<1> DEFINE n == Len(q)
           f == Marks(q, t)
           Up(j) == IF \E i \in 1 .. j : q[i].id = t THEN 1 ELSE 0
           T == {j \in Nat : j <= n /\ Total(f, j) # Up(j)}
<1>1. n \in Nat /\ Count(q, t) = Total(f, n)
  BY DEF Count, Marks
<1>2. \A i \in 1 .. n : f[i] = IF q[i].id = t THEN 1 ELSE 0
  BY DEF Marks
<1>3. \A i, j \in 1 .. n : q[i].id = q[j].id => i = j
  BY DEF Distinct
<1> HIDE DEF n, f
<1>0. ASSUME NEW m \in 1 .. n
      PROVE  Total(f, m) = Total(f, m - 1) + f[m]
  BY <1>1, SumRecursion
<1>4. T = {}
  <2> SUFFICES ASSUME T # {} PROVE FALSE
    OBVIOUS
  <2>1. PICK m \in T : \A y \in T : m <= y
    BY LeastNat
  <2>2. m # 0
    <3>1. Total(f, 0) = 0
      BY SumRecursion
    <3>2. Up(0) = 0
      OBVIOUS
    <3>3. QED
      BY <2>1, <3>1, <3>2
  <2>3. m \in 1 .. n /\ m - 1 \in Nat /\ m - 1 <= n /\ m - 1 \notin T
    BY <1>1, <2>1, <2>2
  <2>4. Total(f, m - 1) = Up(m - 1) /\ Total(f, m) = Total(f, m - 1) + f[m]
    <3>1. Total(f, m - 1) = Up(m - 1)
      BY <2>3
    <3>2. Total(f, m) = Total(f, m - 1) + f[m]
      BY <1>0, <2>3
    <3>3. QED
      BY <3>1, <3>2
  <2>5. Up(m) = Up(m - 1) + f[m]
    <3>1. CASE q[m].id = t
      <4>1. \A i \in 1 .. m - 1 : q[i].id # t
        <5>1. \A i \in 1 .. m - 1 : i \in 1 .. n /\ i # m
          BY <1>1, <2>3
        <5>2. QED
          BY <1>3, <2>3, <3>1, <5>1, Zenon
      <4>2. QED
        BY <1>2, <2>3, <3>1, <4>1
    <3>2. CASE q[m].id # t
      <4>1. (\E i \in 1 .. m : q[i].id = t) <=> \E i \in 1 .. m - 1 : q[i].id = t
        BY <2>3, <3>2
      <4>2. QED
        BY <1>2, <2>3, <3>2, <4>1
    <3>3. QED
      BY <3>1, <3>2
  <2>6. QED
    BY <2>1, <2>4, <2>5
<1>5. Total(f, n) = Up(n)
  BY <1>1, <1>4
<1>6. QED
  BY <1>1, <1>5

(* r has the timers of q and one more entry, at p. *)
OneMore(q, r, p) ==
  \A i \in 1 .. Len(q) : (IF i < p THEN r[i] ELSE r[i + 1]).id = q[i].id

(* Such a list counts one more entry for the timer of that entry and as    *)
(* many as q for the others.                                               *)
LEMMA CountOneMore ==
  ASSUME NEW q \in Seq(cqueue_t), NEW r \in Seq(cqueue_t), Len(r) = Len(q) + 1,
         NEW p \in 1 .. Len(r), NEW t, OneMore(q, r, p)
  PROVE  Count(r, t) = IF r[p].id = t THEN Count(q, t) + 1 ELSE Count(q, t)
<1> DEFINE f == Marks(r, t)
           g == Marks(q, t)
           n == Len(r)
<1>1. n \in Nat /\ n = Len(q) + 1 /\ n - 1 = Len(q) /\ p \in Nat \ {0} /\ p \in 1 .. n
  OBVIOUS
<1>2. Count(r, t) = Total(f, n) /\ Count(q, t) = Total(g, Len(q))
  BY DEF Count, Marks
<1>3. /\ \A i \in 1 .. n : f[i] = IF r[i].id = t THEN 1 ELSE 0
      /\ \A i \in 1 .. Len(q) : g[i] = IF q[i].id = t THEN 1 ELSE 0
  BY DEF Marks
<1> HIDE DEF f, g, n
<1>4. ASSUME NEW i \in 1 .. n
      PROVE  f[i] = IF i < p THEN g[i] ELSE IF i = p THEN f[p] ELSE g[i - 1]
  <2>1. CASE i < p
    <3>1. i \in 1 .. Len(q)
      BY <1>1, <2>1
    <3>2. r[i].id = q[i].id
      BY <2>1, <3>1 DEF OneMore
    <3>3. QED
      BY <1>3, <2>1, <3>1, <3>2
  <2>2. CASE i = p
    BY <1>1, <2>2
  <2>3. CASE i > p
    <3>1. i - 1 \in 1 .. Len(q) /\ ~(i - 1 < p) /\ (i - 1) + 1 = i
      BY <1>1, <2>3
    <3>2. r[i].id = q[i - 1].id
      BY <3>1 DEF OneMore
    <3>3. f[i] = g[i - 1]
      BY <1>3, <3>1, <3>2
    <3>4. QED
      BY <1>1, <2>3, <3>3
  <2>4. QED
    BY <1>1, <2>1, <2>2, <2>3
<1>5. \A i \in 1 .. n : f[i] \in Int
  BY <1>3
<1>6. Total(f, n) = IF n < p THEN Total(g, n) ELSE Total(g, n - 1) + f[p]
  <2>1. \A i \in 1 .. n : f[i] = IF i < p THEN g[i] ELSE IF i = p THEN f[p] ELSE g[i - 1]
    BY <1>4
  <2>2. n \in Nat /\ p \in Nat \ {0}
    BY <1>1
  <2>3. QED
    BY <2>1, <2>2, <1>5, SumInsert
<1>7. Count(q, t) \in Nat
  BY CountNat
<1>8. QED
  BY <1>1, <1>2, <1>3, <1>6, <1>7

(* timeout() adds one entry for its timer. *)
LEMMA CountTimeout ==
  ASSUME NEW q \in Seq(cqueue_t), NEW t \in Timers, NEW n \in Nat, NEW u
  PROVE  Count(timeout(q, t, n), u) = IF u = t THEN Count(q, u) + 1 ELSE Count(q, u)
<1> DEFINE r == timeout(q, t, n)
<1>1. PICK p : Inserted(q, t, n, p, r)
  BY TimeoutInserts
<1> SUFFICES Count(r, u) = IF u = t THEN Count(q, u) + 1 ELSE Count(q, u)
  OBVIOUS
<1> HIDE DEF r
<1>2. /\ r \in Seq(cqueue_t) /\ Len(r) = Len(q) + 1 /\ p \in 0 .. Len(q) /\ Len(q) \in Nat
      /\ \A i \in 1 .. Len(q) + 1 :
           r[i].id = IF i <= p THEN q[i].id ELSE IF i = p + 1 THEN t ELSE q[i - 1].id
  BY <1>1 DEF Inserted
<1> DEFINE m == p + 1
<1>3. m \in 1 .. Len(r) /\ r[m].id = t
  BY <1>2
<1>4. OneMore(q, r, m)
  <2> SUFFICES ASSUME NEW i \in 1 .. Len(q)
               PROVE  (IF i < m THEN r[i] ELSE r[i + 1]).id = q[i].id
    BY DEF OneMore
  <2>1. i \in 1 .. Len(q) + 1 /\ i + 1 \in 1 .. Len(q) + 1
    BY <1>2
  <2>2. CASE i < m
    BY <1>2, <2>1, <2>2
  <2>3. CASE ~(i < m)
    <3>1. ~(i + 1 <= p) /\ i + 1 # p + 1 /\ (i + 1) - 1 = i
      BY <1>2, <2>3
    <3>2. r[i + 1].id = q[i].id
      BY <1>2, <2>1, <3>1
    <3>3. QED
      BY <2>3, <3>2
  <2>4. QED
    BY <2>2, <2>3
<1> HIDE DEF m
<1>5. Count(r, u) = IF r[m].id = u THEN Count(q, u) + 1 ELSE Count(q, u)
  BY <1>2, <1>3, <1>4, CountOneMore
<1>6. QED
  BY <1>3, <1>5

(* A list from which entry i has gone. *)
LEMMA CountWithout ==
  ASSUME NEW q \in Seq(cqueue_t), NEW r \in Seq(cqueue_t), Len(r) = Len(q) - 1,
         NEW i \in 1 .. Len(q), NEW u, OneMore(r, q, i)
  PROVE  /\ Count(r, u) = IF u = q[i].id THEN Count(q, u) - 1 ELSE Count(q, u)
         /\ u = q[i].id => Count(q, u) > 0
<1>1. Len(q) = Len(r) + 1 /\ Len(r) \in Nat
  OBVIOUS
<1>2. Count(q, u) = IF q[i].id = u THEN Count(r, u) + 1 ELSE Count(r, u)
  BY <1>1, CountOneMore
<1>3. Count(q, u) \in Nat /\ Count(r, u) \in Nat
  BY CountNat
<1>4. QED
  BY <1>2, <1>3

(* untimeout() takes one entry for its timer away, if there is one. *)
LEMMA CountUntimeout ==
  ASSUME NEW q \in Seq(cqueue_t), NEW t
  PROVE  \/ untimeout(q, t) = q
         \/ /\ Count(q, t) > 0
            /\ \A u : Count(untimeout(q, t), u) = IF u = t THEN Count(q, u) - 1 ELSE Count(q, u)
<1> DEFINE i == FirstOf(q, t)
           r == untimeout(q, t)
<1> SUFFICES ASSUME r # q
             PROVE  /\ Count(q, t) > 0
                    /\ \A u : Count(r, u) = IF u = t THEN Count(q, u) - 1 ELSE Count(q, u)
  OBVIOUS
<1>1. i \in 1 .. Len(q) /\ q[i].id = t /\ Removed(q, i, r)
  BY UntimeoutRemoves
<1> HIDE DEF i, r
<1>2. r \in Seq(cqueue_t) /\ Len(r) = Len(q) - 1 /\ OneMore(r, q, i)
  BY <1>1 DEF Removed, OneMore
<1>3. \A u : /\ Count(r, u) = IF u = q[i].id THEN Count(q, u) - 1 ELSE Count(q, u)
             /\ u = q[i].id => Count(q, u) > 0
  BY <1>1, <1>2, CountWithout
<1>4. QED
  BY <1>1, <1>3

(* hardclock() neither adds nor takes away an entry. *)
LEMMA CountTicked ==
  ASSUME NEW q \in Seq(cqueue_t), NEW u
  PROVE  Count(Ticked(q), u) = Count(q, u)
<1>1. /\ DOMAIN Ticked(q) = DOMAIN q /\ Len(Ticked(q)) = Len(q)
      /\ \A i \in DOMAIN q : Ticked(q)[i].id = q[i].id
  BY TickedEntries
<1>2. Marks(Ticked(q), u) = Marks(q, u)
  BY <1>1 DEF Marks
<1>3. QED
  BY <1>1, <1>2 DEF Count, Marks

(* callout_thread takes the head away. *)
LEMMA CountTail ==
  ASSUME NEW q \in Seq(cqueue_t), q # <<>>, NEW u
  PROVE  /\ Count(Tail(q), u) = IF u = Head(q).id THEN Count(q, u) - 1 ELSE Count(q, u)
         /\ u = Head(q).id => Count(q, u) > 0
<1> DEFINE r == Tail(q)
           one == 1
<1>1. /\ r \in Seq(cqueue_t) /\ Len(r) = Len(q) - 1 /\ one \in 1 .. Len(q)
      /\ \A j \in 1 .. Len(q) - 1 : r[j] = q[j + 1]
      /\ Head(q) = q[one]
  OBVIOUS
<1>2. \A j \in 1 .. Len(q) - 1 : ~(j < one)
  OBVIOUS
<1> HIDE DEF r, one
<1>3. OneMore(r, q, one)
  BY <1>1, <1>2 DEF OneMore
<1>4. /\ Count(r, u) = IF u = q[one].id THEN Count(q, u) - 1 ELSE Count(q, u)
      /\ u = q[one].id => Count(q, u) > 0
  BY <1>1, <1>3, CountWithout
<1>5. QED
  BY <1>1, <1>4 DEF r

(* The bag of pending timers that the list stands for. *)
Bag == [t \in Timers |-> Count(cq, t)]

(* The list surgery of timeout() and untimeout(), the re-arming of a       *)
(* periodic callback included, loses no pending timer and duplicates none: *)
(* the callout queue implements TimerService, step by step.                *)
THEOREM ListIsABag ==
  ASSUME Sane
  PROVE  Spec => ImplementsService
<1> DEFINE Pending == [t \in Timers |-> Count(cq, t)]
<1>1. Pending = Bag
  BY DEF Bag
<1>2. Pending' = Bag'
  BY DEF Bag
<1>3. Init => Service!Init
  <2> SUFFICES ASSUME Init PROVE Bag \in [Timers -> {0, 1}]
    BY <1>1 DEF Service!Init, Service!Timers, Timers
  <2>1. Len(Boot) \in 0 .. Len(Boot)
    BY DEF Sane
  <2>2. cq \in Seq(cqueue_t) /\ Distinct(cq)
    BY <2>1, BootKeeps DEF Init
  <2>3. ASSUME NEW t \in Timers
        PROVE  Count(cq, t) \in {0, 1}
    BY <2>2, CountDistinct
  <2>4. QED
    BY <2>3 DEF Bag
<1>4. CalloutInv /\ [Next]_vars => [Service!Next]_Pending
  <2> SUFFICES ASSUME CalloutInv, [Next]_vars
               PROVE  Service!Next \/ Bag' = Bag
    BY <1>1, <1>2
  <2>1. cq \in Seq(cqueue_t)
    BY DEF CalloutInv, TypeOK
  <2>2. CASE cq' = cq
    BY <2>2 DEF Bag, Timers
  <2>3. \A t \in Timers : Bag[t] = Count(cq, t) /\ Bag'[t] = Count(cq', t)
    BY DEF Bag, Timers
  <2>4. Bag = [t \in Timers |-> Bag[t]] /\ Bag' = [t \in Timers |-> Bag'[t]]
    BY DEF Bag, Timers
  <2> HIDE DEF Pending
  <2>5. ASSUME NEW t \in OneShot, NEW n \in Delays, Timeout(t, n)
        PROVE  Service!Next
    <3>1. cq' = timeout(cq, t, n) /\ t \in Timers /\ n \in Nat
      BY <2>5 DEF Timeout, Sane, Timers
    <3>2. \A u \in Timers : Bag'[u] = IF u = t THEN Bag[u] + 1 ELSE Bag[u]
      BY <2>1, <2>3, <3>1, CountTimeout
    <3>3. Bag' = [Bag EXCEPT ![t] = @ + 1]
      BY <2>4, <3>1, <3>2
    <3>4. Service!Arm(t)
      BY <1>1, <1>2, <3>3 DEF Service!Arm, Pending
    <3>5. QED
      BY <3>4 DEF Service!Next
  <2>6. ASSUME NEW t \in CanCancel, Untimeout(t), cq' # cq
        PROVE  Service!Next
    <3>1. cq' = untimeout(cq, t) /\ t \in OneShot /\ t \in Timers
      BY <2>6 DEF Untimeout, Sane, Timers
    <3>2. /\ Count(cq, t) > 0
          /\ \A u : Count(cq', u) = IF u = t THEN Count(cq, u) - 1 ELSE Count(cq, u)
      BY <2>1, <2>6, <3>1, CountUntimeout
    <3>3. Bag[t] > 0 /\ Bag' = [Bag EXCEPT ![t] = @ - 1]
      BY <2>3, <2>4, <3>1, <3>2
    <3>4. Service!Cancel(t)
      BY <1>1, <1>2, <3>3 DEF Service!Cancel, Pending
    <3>5. QED
      BY <3>1, <3>4 DEF Service!Next
  <2>7. CASE HardClock
    <3>1. cq' = Ticked(cq)
      BY <2>7 DEF HardClock
    <3>2. \A t \in Timers : Bag'[t] = Bag[t]
      BY <2>1, <2>3, <3>1, CountTicked
    <3>3. QED
      BY <2>4, <3>2
  <2>8. CASE CalloutRun
    <3> DEFINE q == Tail(cq)
               t == Head(cq).id
    <3>1. /\ cq # <<>>
          /\ cq' = IF t \in Periodic THEN timeout(q, t, Period[t]) ELSE q
      BY <2>8 DEF CalloutRun, Callback, Expired
    <3>2. q \in Seq(cqueue_t) /\ t \in Timers
      <4>1. Head(cq) = cq[1] /\ 1 \in 1 .. Len(cq)
        BY <2>1, <3>1
      <4>2. QED
        BY <2>1, <3>1, <4>1, Fields
    <3>3. \A u : /\ Count(q, u) = IF u = t THEN Count(cq, u) - 1 ELSE Count(cq, u)
                 /\ u = t => Count(cq, u) > 0
      BY <2>1, <3>1, CountTail
    <3> HIDE DEF q, t
    <3>4. \A u : Count(cq, u) \in Nat
      BY <2>1, CountNat
    <3>5. \A u : Count(cq', u) = IF u = t /\ t \notin Periodic THEN Count(cq, u) - 1
                                 ELSE Count(cq, u)
      <4>1. CASE t \in Periodic
        <5>1. Period[t] \in Nat
          BY <4>1 DEF Sane
        <5>2. \A u : Count(cq', u) = IF u = t THEN Count(q, u) + 1 ELSE Count(q, u)
          BY <3>1, <3>2, <4>1, <5>1, CountTimeout
        <5>3. QED
          BY <3>3, <3>4, <4>1, <5>2
      <4>2. CASE t \notin Periodic
        BY <3>1, <3>3, <4>2
      <4>3. QED
        BY <4>1, <4>2
    <3>6. Bag[t] > 0 /\ Bag' = [Bag EXCEPT ![t] = IF t \in Periodic THEN @ ELSE @ - 1]
      BY <2>3, <2>4, <3>2, <3>3, <3>5
    <3>7. Service!Expire(t)
      BY <1>1, <1>2, <3>6 DEF Service!Expire, Pending
    <3>8. QED
      BY <3>2, <3>7 DEF Service!Next, Service!Timers, Timers
  <2>9. CASE CalloutWait
    BY <2>2, <2>9 DEF CalloutWait
  <2>10. QED
    BY <2>2, <2>5, <2>6, <2>7, <2>8, <2>9 DEF Next, CalloutThread, vars
<1>5. QED
  BY <1>3, <1>4, CalloutInductive, PTL DEF Spec, ImplementsService, Service!Spec
=============================================================================
