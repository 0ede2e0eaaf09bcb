----------------------------- MODULE SeqLemmas ------------------------------
(* Lemmas about sums and joined sequences, by induction, and about parts   *)
(* of a sequence.  The library's induction theorems take the property as   *)
(* an operator, which no backend can instantiate; here an induction is the *)
(* choice of the least counterexample from a set.                          *)
EXTENDS Sums, SequenceTheorems, WellFoundedInduction, TLAPS

(* A set of naturals has a least element: the counterexamples in every     *)
(* induction over the loops of timers.c and uipc_socket.c.                 *)
LEMMA LeastNat ==
  ASSUME NEW T \in SUBSET Nat, T # {}
  PROVE  \E x \in T : \A y \in T : x <= y
<1>1. PICK x \in T : \A y \in T : <<y, x>> \notin OpToRel(<, Nat)
  BY NatLessThanWellFounded, WFMin, Zenon
<1>2. \A y \in T : <<y, x>> \in Nat \X Nat /\ <<y, x>>[1] = y /\ <<y, x>>[2] = x
  OBVIOUS
<1>3. \A y \in T : ~(y < x)
  BY <1>1, <1>2 DEF OpToRel
<1>4. QED
  BY <1>3

(* g is the function of partial sums of f up to n. *)
PartialSums(f, g, n) == g = [i \in 0 .. n |-> IF i = 0 THEN 0 ELSE g[i - 1] + f[i]]

(* Partial sums exist for every bound. *)
LEMMA PartialSumsExist ==
  ASSUME NEW f, NEW n \in Nat
  PROVE  \E g : PartialSums(f, g, n)
<1> DEFINE T == {m \in Nat : ~\E g : PartialSums(f, g, m)}
<1> SUFFICES ASSUME T # {} PROVE FALSE
  OBVIOUS
<1>1. PICK m \in T : \A y \in T : m <= y
  BY LeastNat
<1>2. m # 0
  <2> SUFFICES ASSUME m = 0 PROVE FALSE
    OBVIOUS
  <2> DEFINE g == [i \in 0 .. 0 |-> 0]
  <2>1. PartialSums(f, g, 0)
    BY DEF PartialSums
  <2>2. QED
    BY <2>1, <1>1
<1>3. m - 1 \in Nat /\ m - 1 \notin T
  BY <1>1, <1>2
<1>4. PICK g : PartialSums(f, g, m - 1)
  BY <1>3
<1> DEFINE h == [i \in 0 .. m |-> IF i = m THEN g[m - 1] + f[m] ELSE g[i]]
<1>5. PartialSums(f, h, m)
  <2>1. \A i \in 0 .. m - 1 : g[i] = IF i = 0 THEN 0 ELSE g[i - 1] + f[i]
    BY <1>4, <1>3 DEF PartialSums
  <2>2. \A i \in 0 .. m : h[i] = IF i = 0 THEN 0 ELSE h[i - 1] + f[i]
    BY <2>1, <1>3
  <2>3. h = [i \in 0 .. m |-> h[i]]
    OBVIOUS
  <2> HIDE DEF h
  <2>4. QED
    BY <2>2, <2>3 DEF PartialSums
<1>6. QED
  BY <1>5, <1>1

(* Where two functions of partial sums are defined they agree. *)
LEMMA PartialSumsAgree ==
  ASSUME NEW f, NEW g, NEW h, NEW m \in Nat, NEW n \in Nat,
         PartialSums(f, g, m), PartialSums(f, h, n),
         NEW i \in Nat, i <= m, i <= n
  PROVE  g[i] = h[i]
<1> DEFINE T == {j \in Nat : j <= m /\ j <= n /\ g[j] # h[j]}
<1> SUFFICES ASSUME T # {} PROVE FALSE
  OBVIOUS
<1>1. PICK k \in T : \A y \in T : k <= y
  BY LeastNat
<1>2. k = 0 \/ (k - 1 \in Nat /\ k - 1 \notin T /\ g[k - 1] = h[k - 1])
  BY <1>1
<1>3. /\ g[k] = IF k = 0 THEN 0 ELSE g[k - 1] + f[k]
      /\ h[k] = IF k = 0 THEN 0 ELSE h[k - 1] + f[k]
  BY <1>1 DEF PartialSums
<1>4. QED
  BY <1>1, <1>2, <1>3

(* The recursion equation of Total(): the function it defines exists. *)
LEMMA SumRecursion ==
  ASSUME NEW f
  PROVE  /\ Total(f, 0) = 0
         /\ \A n \in Nat \ {0} : Total(f, n) = Total(f, n - 1) + f[n]
<1> DEFINE s == [i \in Nat |-> (CHOOSE u : PartialSums(f, u, i))[i]]
<1>1. \A i \in Nat : PartialSums(f, CHOOSE u : PartialSums(f, u, i), i)
  BY PartialSumsExist
<1>2. \A i \in Nat : s[i] = IF i = 0 THEN 0 ELSE s[i - 1] + f[i]
  <2> SUFFICES ASSUME NEW i \in Nat
               PROVE  s[i] = IF i = 0 THEN 0 ELSE s[i - 1] + f[i]
    OBVIOUS
  <2> DEFINE g == CHOOSE u : PartialSums(f, u, i)
             h == CHOOSE u : PartialSums(f, u, i - 1)
  <2>1. PartialSums(f, g, i) /\ s[i] = g[i]
    BY <1>1
  <2>2. i = 0 \/ (PartialSums(f, h, i - 1) /\ s[i - 1] = h[i - 1] /\ i - 1 \in Nat)
    BY <1>1
  <2> HIDE DEF g, h, s
  <2>3. i = 0 \/ g[i - 1] = h[i - 1]
    BY <2>1, <2>2, PartialSumsAgree
  <2>4. g[i] = IF i = 0 THEN 0 ELSE g[i - 1] + f[i]
    BY <2>1 DEF PartialSums
  <2>5. QED
    BY <2>1, <2>2, <2>3, <2>4
<1>3. s = [i \in Nat |-> s[i]]
  OBVIOUS
<1> HIDE DEF s
<1>4. s = [i \in Nat |-> IF i = 0 THEN 0 ELSE s[i - 1] + f[i]]
  BY <1>2, <1>3
<1> DEFINE r == CHOOSE t : t = [i \in Nat |-> IF i = 0 THEN 0 ELSE t[i - 1] + f[i]]
<1>5. r = [i \in Nat |-> IF i = 0 THEN 0 ELSE r[i - 1] + f[i]]
  BY <1>4
<1>6. \A n : Total(f, n) = r[n]
  BY DEF Total
<1> HIDE DEF r
<1>7. \A n \in Nat : r[n] = IF n = 0 THEN 0 ELSE r[n - 1] + f[n]
  BY <1>5
<1>8. QED
  BY <1>6, <1>7

(* A sum depends on the elements it adds only. *)
LEMMA SumSame ==
  ASSUME NEW f, NEW g, NEW n \in Nat, \A i \in 1 .. n : f[i] = g[i]
  PROVE  Total(f, n) = Total(g, n)
<1> DEFINE T == {j \in Nat : j <= n /\ Total(f, j) # Total(g, j)}
<1> SUFFICES ASSUME T # {} PROVE FALSE
  OBVIOUS
<1>1. PICK k \in T : \A y \in T : k <= y
  BY LeastNat
<1>2. k = 0 \/ (k - 1 \in Nat /\ Total(f, k - 1) = Total(g, k - 1))
  BY <1>1
<1>3. QED
  BY <1>1, <1>2, SumRecursion

(* A sum of integers is one. *)
LEMMA SumInt ==
  ASSUME NEW f, NEW n \in Nat, \A i \in 1 .. n : f[i] \in Int
  PROVE  Total(f, n) \in Int
<1> DEFINE T == {j \in Nat : j <= n /\ Total(f, j) \notin Int}
<1> SUFFICES ASSUME T # {} PROVE FALSE
  BY DEF T
<1>1. PICK k \in T : \A y \in T : k <= y
  BY LeastNat
<1>2. k = 0 \/ (k - 1 \in Nat /\ Total(f, k - 1) \in Int)
  BY <1>1
<1>3. QED
  BY <1>1, <1>2, SumRecursion

(* A sum of naturals is one. *)
LEMMA SumNat ==
  ASSUME NEW f, NEW n \in Nat, \A i \in 1 .. n : f[i] \in Nat
  PROVE  Total(f, n) \in Nat
<1> DEFINE T == {j \in Nat : j <= n /\ Total(f, j) \notin Nat}
<1> SUFFICES ASSUME T # {} PROVE FALSE
  BY DEF T
<1>1. PICK k \in T : \A y \in T : k <= y
  BY LeastNat
<1>2. k = 0 \/ (k - 1 \in Nat /\ Total(f, k - 1) \in Nat /\ k \in 1 .. n)
  BY <1>1
<1>3. QED
  BY <1>1, <1>2, SumRecursion

(* The first m + n elements added up are the first m and the n after them. *)
LEMMA SumSplit ==
  ASSUME NEW f, NEW g, NEW m \in Nat, NEW n \in Nat,
         \A i \in 1 .. m + n : f[i] \in Int, \A i \in 1 .. n : g[i] = f[m + i]
  PROVE  Total(f, m + n) = Total(f, m) + Total(g, n)
<1> DEFINE Good(j) == Total(f, m + j) = Total(f, m) + Total(g, j)
           T == {j \in Nat : j <= n /\ ~Good(j)}
<1> SUFFICES ASSUME T # {} PROVE FALSE
  BY DEF T
<1>1. PICK k \in T : \A y \in T : k <= y
  BY LeastNat
<1>2. Total(f, m) \in Int
  <2>1. \A i \in 1 .. m : f[i] \in Int
    OBVIOUS
  <2>2. QED
    BY <2>1, SumInt
<1>3. Good(0)
  <2>1. Total(g, 0) = 0
    BY SumRecursion
  <2>2. QED
    BY <1>2, <2>1
<1>4. k \in 1 .. n /\ k - 1 \in Nat /\ Good(k - 1) /\ m + k \in Nat \ {0} /\ k \in Nat \ {0}
  BY <1>1, <1>3
<1>5. Total(g, k) = Total(g, k - 1) + g[k]
  BY <1>4, SumRecursion
<1>6. Total(f, m + k) = Total(f, (m + k) - 1) + f[m + k]
  BY <1>4, SumRecursion
<1>7. (m + k) - 1 = m + (k - 1) /\ g[k] = f[m + k] /\ f[m + k] \in Int
  BY <1>4
<1>8. Total(g, k - 1) \in Int
  <2>1. \A i \in 1 .. k - 1 : g[i] \in Int
    <3>1. \A i \in 1 .. k - 1 : i \in 1 .. n /\ m + i \in 1 .. m + n
      BY <1>4
    <3>2. QED
      BY <3>1
  <2>2. QED
    BY <1>4, <2>1, SumInt
<1>9. Good(k)
  BY <1>2, <1>4, <1>5, <1>6, <1>7, <1>8
<1>10. QED
  BY <1>1, <1>9

(* A sum is monotone in what it adds. *)
LEMMA SumMonotone ==
  ASSUME NEW f, NEW g, NEW n \in Nat,
         \A i \in 1 .. n : f[i] \in Int /\ g[i] \in Int /\ f[i] <= g[i]
  PROVE  Total(f, n) <= Total(g, n)
<1> DEFINE T == {j \in Nat : j <= n /\ ~(Total(f, j) <= Total(g, j))}
<1> SUFFICES ASSUME T # {} PROVE FALSE
  BY DEF T
<1>1. PICK k \in T : \A y \in T : k <= y
  BY LeastNat
<1>2. k = 0 \/ (k - 1 \in Nat /\ Total(f, k - 1) <= Total(g, k - 1))
  BY <1>1
<1>3. k = 0 \/ (Total(f, k - 1) \in Int /\ Total(g, k - 1) \in Int)
  BY <1>1, <1>2, SumInt
<1>4. QED
  BY <1>1, <1>2, <1>3, SumRecursion

(* The sum of a sequence with an element inserted at p. *)
LEMMA SumInsert ==
  ASSUME NEW f, NEW g, NEW n \in Nat, NEW p \in Nat \ {0},
         \A i \in 1 .. n : f[i] \in Int,
         \A i \in 1 .. n : f[i] = IF i < p THEN g[i] ELSE IF i = p THEN f[p] ELSE g[i - 1]
  PROVE  Total(f, n) = IF n < p THEN Total(g, n) ELSE Total(g, n - 1) + f[p]
<1> DEFINE Holds(j) == Total(f, j) = IF j < p THEN Total(g, j) ELSE Total(g, j - 1) + f[p]
           T == {j \in Nat : j <= n /\ ~Holds(j)}
<1> SUFFICES ASSUME T # {} PROVE FALSE
  BY DEF T
<1>1. PICK k \in T : \A y \in T : k <= y
  BY LeastNat
<1>2. k # 0
  BY <1>1, SumRecursion
<1>3. k - 1 \in Nat /\ k \in 1 .. n /\ Holds(k - 1)
  BY <1>1, <1>2
<1>4. Total(f, k) = Total(f, k - 1) + f[k]
  BY <1>3, SumRecursion
<1>5. CASE k < p
  <2>1. Total(g, k) = Total(g, k - 1) + g[k]
    BY <1>3, SumRecursion
  <2>2. QED
    BY <1>1, <1>3, <1>4, <1>5, <2>1
<1>6. CASE k = p
  BY <1>1, <1>3, <1>4, <1>6
<1>7. CASE k > p
  <2>1. Total(g, k - 1) = Total(g, k - 2) + g[k - 1] /\ f[k] = g[k - 1]
    BY <1>3, <1>7, SumRecursion
  <2>2. Total(f, k - 1) = Total(g, k - 2) + f[p]
    BY <1>3, <1>7
  <2>3. Total(g, k - 2) \in Int
    <3>1. \A i \in 1 .. k - 2 : g[i] \in Int
      <4> SUFFICES ASSUME NEW i \in 1 .. k - 2 PROVE g[i] \in Int
        OBVIOUS
      <4>1. f[i] \in Int /\ f[i + 1] \in Int /\ i \in 1 .. n /\ i + 1 \in 1 .. n
        BY <1>3, <1>7
      <4>2. CASE i < p
        BY <4>1, <4>2
      <4>3. CASE i >= p
        BY <4>1, <4>3
      <4>4. QED
        BY <4>2, <4>3
    <3>2. QED
      BY <3>1, <1>3, <1>7, SumInt
  <2>4. f[p] \in Int /\ g[k - 1] \in Int
    BY <1>3, <1>7, <2>1
  <2>5. QED
    BY <1>1, <1>4, <1>7, <2>1, <2>2, <2>3, <2>4
<1>8. QED
  BY <1>1, <1>5, <1>6, <1>7

(* Joins of sequences: the same for \o.                                    *)

(* g is the function of partial joins of f up to n. *)
PartialJoins(f, g, n) == g = [i \in 0 .. n |-> IF i = 0 THEN <<>> ELSE g[i - 1] \o f[i]]

(* Partial joins exist for every bound. *)
LEMMA PartialJoinsExist ==
  ASSUME NEW f, NEW n \in Nat
  PROVE  \E g : PartialJoins(f, g, n)
<1> DEFINE T == {m \in Nat : ~\E g : PartialJoins(f, g, m)}
<1> SUFFICES ASSUME T # {} PROVE FALSE
  OBVIOUS
<1>1. PICK m \in T : \A y \in T : m <= y
  BY LeastNat
<1>2. m # 0
  <2> SUFFICES ASSUME m = 0 PROVE FALSE
    OBVIOUS
  <2> DEFINE g == [i \in 0 .. 0 |-> <<>>]
  <2>1. PartialJoins(f, g, 0)
    BY DEF PartialJoins
  <2>2. QED
    BY <2>1, <1>1
<1>3. m - 1 \in Nat /\ m - 1 \notin T
  BY <1>1, <1>2
<1>4. PICK g : PartialJoins(f, g, m - 1)
  BY <1>3
<1> DEFINE h == [i \in 0 .. m |-> IF i = m THEN g[m - 1] \o f[m] ELSE g[i]]
<1>5. PartialJoins(f, h, m)
  <2>1. \A i \in 0 .. m - 1 : g[i] = IF i = 0 THEN <<>> ELSE g[i - 1] \o f[i]
    BY <1>4, <1>3 DEF PartialJoins
  <2>2. \A i \in 0 .. m : h[i] = IF i = 0 THEN <<>> ELSE h[i - 1] \o f[i]
    BY <2>1, <1>3
  <2>3. h = [i \in 0 .. m |-> h[i]]
    OBVIOUS
  <2> HIDE DEF h
  <2>4. QED
    BY <2>2, <2>3 DEF PartialJoins
<1>6. QED
  BY <1>5, <1>1

(* Where two functions of partial joins are defined they agree. *)
LEMMA PartialJoinsAgree ==
  ASSUME NEW f, NEW g, NEW h, NEW m \in Nat, NEW n \in Nat,
         PartialJoins(f, g, m), PartialJoins(f, h, n),
         NEW i \in Nat, i <= m, i <= n
  PROVE  g[i] = h[i]
<1> DEFINE T == {j \in Nat : j <= m /\ j <= n /\ g[j] # h[j]}
<1> SUFFICES ASSUME T # {} PROVE FALSE
  OBVIOUS
<1>1. PICK k \in T : \A y \in T : k <= y
  BY LeastNat
<1>2. k = 0 \/ (k - 1 \in Nat /\ k - 1 \notin T /\ g[k - 1] = h[k - 1])
  BY <1>1
<1>3. /\ g[k] = IF k = 0 THEN <<>> ELSE g[k - 1] \o f[k]
      /\ h[k] = IF k = 0 THEN <<>> ELSE h[k - 1] \o f[k]
  <2>1. k \in 0 .. m /\ k \in 0 .. n
    BY <1>1
  <2>2. \A x \in 0 .. m : g[x] = IF x = 0 THEN <<>> ELSE g[x - 1] \o f[x]
    BY DEF PartialJoins
  <2>3. \A x \in 0 .. n : h[x] = IF x = 0 THEN <<>> ELSE h[x - 1] \o f[x]
    BY DEF PartialJoins
  <2>4. QED
    BY <2>1, <2>2, <2>3
<1>4. QED
  BY <1>1, <1>2, <1>3

(* The recursion equation of Join(): the function it defines exists. *)
LEMMA JoinRecursion ==
  ASSUME NEW f
  PROVE  /\ Join(f, 0) = <<>>
         /\ \A n \in Nat \ {0} : Join(f, n) = Join(f, n - 1) \o f[n]
<1> DEFINE s == [i \in Nat |-> (CHOOSE u : PartialJoins(f, u, i))[i]]
<1>1. \A i \in Nat : PartialJoins(f, CHOOSE u : PartialJoins(f, u, i), i)
  BY PartialJoinsExist
<1>2. \A i \in Nat : s[i] = IF i = 0 THEN <<>> ELSE s[i - 1] \o f[i]
  <2> SUFFICES ASSUME NEW i \in Nat
               PROVE  s[i] = IF i = 0 THEN <<>> ELSE s[i - 1] \o f[i]
    OBVIOUS
  <2> DEFINE g == CHOOSE u : PartialJoins(f, u, i)
             h == CHOOSE u : PartialJoins(f, u, i - 1)
  <2>1. PartialJoins(f, g, i) /\ s[i] = g[i]
    BY <1>1
  <2>2. i = 0 \/ (PartialJoins(f, h, i - 1) /\ s[i - 1] = h[i - 1] /\ i - 1 \in Nat)
    BY <1>1
  <2> HIDE DEF g, h, s
  <2>3. i = 0 \/ g[i - 1] = h[i - 1]
    BY <2>1, <2>2, PartialJoinsAgree
  <2>4. g[i] = IF i = 0 THEN <<>> ELSE g[i - 1] \o f[i]
    BY <2>1 DEF PartialJoins
  <2>5. QED
    BY <2>1, <2>2, <2>3, <2>4
<1>3. s = [i \in Nat |-> s[i]]
  OBVIOUS
<1> HIDE DEF s
<1>4. s = [i \in Nat |-> IF i = 0 THEN <<>> ELSE s[i - 1] \o f[i]]
  BY <1>2, <1>3
<1> DEFINE r == CHOOSE t : t = [i \in Nat |-> IF i = 0 THEN <<>> ELSE t[i - 1] \o f[i]]
<1>5. r = [i \in Nat |-> IF i = 0 THEN <<>> ELSE r[i - 1] \o f[i]]
  BY <1>4
<1>6. \A n : Join(f, n) = r[n]
  BY DEF Join
<1> HIDE DEF r
<1>7. \A n \in Nat : r[n] = IF n = 0 THEN <<>> ELSE r[n - 1] \o f[n]
  BY <1>5
<1>8. QED
  BY <1>6, <1>7

(* The elements of a concatenation. *)
LEMMA ConcatShape ==
  ASSUME NEW S, NEW a \in Seq(S), NEW b \in Seq(S)
  PROVE  /\ a \o b \in Seq(S)
         /\ Len(a \o b) = Len(a) + Len(b)
         /\ \A i \in 1 .. Len(a) : (a \o b)[i] = a[i]
         /\ \A i \in Len(a) + 1 .. Len(a) + Len(b) : (a \o b)[i] = b[i - Len(a)]
<1> DEFINE c == a \o b
<1>1. /\ c \in Seq(S) /\ Len(c) = Len(a) + Len(b)
      /\ \A i \in 1 .. Len(a) + Len(b) : c[i] = IF i <= Len(a) THEN a[i] ELSE b[i - Len(a)]
  BY ConcatProperties
<1> HIDE DEF c
<1>2. Len(a) \in Nat /\ Len(b) \in Nat
  OBVIOUS
<1>3. \A i \in 1 .. Len(a) : c[i] = a[i]
  BY <1>1, <1>2
<1>4. \A i \in Len(a) + 1 .. Len(a) + Len(b) : c[i] = b[i - Len(a)]
  BY <1>1, <1>2
<1>5. QED
  BY <1>1, <1>3, <1>4, Zenon DEF c

(* A join depends on the elements it joins only. *)
LEMMA JoinSame ==
  ASSUME NEW f, NEW g, NEW n \in Nat, \A i \in 1 .. n : f[i] = g[i]
  PROVE  Join(f, n) = Join(g, n)
<1> DEFINE T == {j \in Nat : j <= n /\ Join(f, j) # Join(g, j)}
<1> SUFFICES ASSUME T # {} PROVE FALSE
  OBVIOUS
<1>1. PICK k \in T : \A y \in T : k <= y
  BY LeastNat
<1>2. k = 0 \/ (k - 1 \in Nat /\ Join(f, k - 1) = Join(g, k - 1) /\ k \in 1 .. n)
  BY <1>1
<1>3. QED
  BY <1>1, <1>2, JoinRecursion

(* A join of sequences over S is one, as long as they are together. *)
LEMMA JoinType ==
  ASSUME NEW S, NEW f, NEW n \in Nat, \A i \in 1 .. n : f[i] \in Seq(S)
  PROVE  Join(f, n) \in Seq(S) /\ Len(Join(f, n)) = Total([i \in 1 .. n |-> Len(f[i])], n)
<1> DEFINE g == [i \in 1 .. n |-> Len(f[i])]
           Good(j) == Join(f, j) \in Seq(S) /\ Len(Join(f, j)) = Total(g, j)
           T == {j \in Nat : j <= n /\ ~Good(j)}
<1>0. \A i \in 1 .. n : g[i] = Len(f[i])
  OBVIOUS
<1> SUFFICES Good(n)
  BY Zenon
<1> HIDE DEF g
<1> SUFFICES ASSUME T # {} PROVE FALSE
  <2> HIDE DEF Good
  <2>1. QED
    OBVIOUS
<1>1. PICK k \in T : \A y \in T : k <= y
  BY LeastNat
<1>2. k # 0
  <2>1. Join(f, 0) = <<>> /\ Total(g, 0) = 0
    BY JoinRecursion, SumRecursion
  <2>2. Join(f, 0) \in Seq(S) /\ Len(Join(f, 0)) = Total(g, 0)
    BY <2>1, EmptySeq
  <2>3. QED
    BY <1>1, <2>2
<1>3. /\ k - 1 \in Nat /\ k \in 1 .. n
      /\ Join(f, k - 1) \in Seq(S) /\ Len(Join(f, k - 1)) = Total(g, k - 1)
  BY <1>1, <1>2
<1>4. Join(f, k) = Join(f, k - 1) \o f[k] /\ Total(g, k) = Total(g, k - 1) + g[k]
  <2>1. k \in Nat \ {0}
    BY <1>3
  <2>2. Join(f, k) = Join(f, k - 1) \o f[k]
    BY <2>1, JoinRecursion, Zenon
  <2>3. Total(g, k) = Total(g, k - 1) + g[k]
    BY <2>1, SumRecursion
  <2>4. QED
    BY <2>2, <2>3
<1>5. f[k] \in Seq(S) /\ g[k] = Len(f[k])
  BY <1>0, <1>3
<1> DEFINE a == Join(f, k - 1)
           b == f[k]
<1>6. a \o b \in Seq(S) /\ Len(a \o b) = Len(a) + Len(b)
  <2> HIDE DEF a, b
  <2>1. a \in Seq(S) /\ b \in Seq(S)
    BY <1>3, <1>5 DEF a, b
  <2>2. QED
    BY <2>1, ConcatShape
<1>7. QED
  BY <1>1, <1>3, <1>4, <1>5, <1>6

(* Appending w to u and v. *)
Assoc(u, v, w) ==
  (u \o v) \o w = u \o (v \o w)

(* Appending is associative. *)
LEMMA Associative ==
  \A S : \A u, v, w \in Seq(S) : Assoc(u, v, w)
BY ConcatAssociative DEF Assoc

(* The n sequences of g are those of f, sequences over S, after the m-th. *)
Follows(S, f, g, m, n) ==
  /\ \A i \in 1 .. m + n : f[i] \in Seq(S)
  /\ \A i \in 1 .. n : g[i] = f[m + i]

(* The join of the m + n sequences of f. *)
Spliced(f, g, m, n) ==
  Join(f, m + n) = Join(f, m) \o Join(g, n)

(* The first m + n sequences joined are the first m, and then the n after  *)
(* them.                                                                   *)
LEMMA JoinSplit ==
  ASSUME NEW S, NEW f, NEW g, NEW m \in Nat, NEW n \in Nat, Follows(S, f, g, m, n)
  PROVE  Spliced(f, g, m, n)
<1> USE DEF Spliced
<1>0. (\A i \in 1 .. m + n : f[i] \in Seq(S)) /\ \A i \in 1 .. n : g[i] = f[m + i]
  BY DEF Follows
<1> DEFINE Good(j) == Join(f, m + j) = Join(f, m) \o Join(g, j)
           T == {j \in Nat : j <= n /\ ~Good(j)}
<1> SUFFICES ASSUME T # {} PROVE FALSE
  <2>1. n \notin T => Good(n)
    <3> HIDE DEF Good
    <3>1. QED
      OBVIOUS
  <2>2. QED
    BY <2>1, Zenon
<1>1. PICK k \in T : \A y \in T : k <= y
  BY LeastNat
<1>2. \A j \in 0 .. n : Join(f, m + j) \in Seq(S) /\ Join(g, j) \in Seq(S)
  <2> TAKE j \in 0 .. n
  <2>1. (\A i \in 1 .. m + j : f[i] \in Seq(S)) /\ (\A i \in 1 .. j : g[i] \in Seq(S))
    <3>1. \A i \in 1 .. m + j : i \in 1 .. m + n
      OBVIOUS
    <3>2. \A i \in 1 .. j : i \in 1 .. n /\ m + i \in 1 .. m + n
      OBVIOUS
    <3>3. QED
      BY <1>0, <3>1, <3>2, Zenon
  <2>2. m + j \in Nat /\ j \in Nat
    OBVIOUS
  <2>3. QED
    BY <2>1, <2>2, JoinType
<1>3. Join(f, m) \in Seq(S)
  <2>1. \A i \in 1 .. m : f[i] \in Seq(S)
    BY <1>0
  <2>2. QED
    BY <2>1, JoinType
<1>4. k # 0
  <2>1. Join(g, 0) = <<>>
    BY JoinRecursion, Zenon
  <2>4. m + 0 = m
    OBVIOUS
  <2>2. Join(f, m) \o <<>> = Join(f, m)
    BY <1>3, ConcatEmptySeq
  <2>3. Good(0)
    BY <2>1, <2>2, <2>4, Zenon
  <2> HIDE DEF Good
  <2>5. QED
    BY <1>1, <2>3
<1>5. k \in 1 .. n /\ k - 1 \in 0 .. n /\ k \in Nat \ {0} /\ m + k \in Nat \ {0}
      /\ (m + k) - 1 = m + (k - 1)
  BY <1>1, <1>4
<1>6. Good(k - 1)
  <2> HIDE DEF Good
  <2>1. QED
    BY <1>1, <1>5
<1> DEFINE a == Join(f, m)
           b == Join(g, k - 1)
           c == g[k]
<1>7. Join(g, k) = b \o c
  BY <1>5, JoinRecursion, Zenon
<1>8. Join(f, m + k) = (a \o b) \o c
  <2>1. Join(f, m + k) = Join(f, (m + k) - 1) \o f[m + k]
    BY <1>5, JoinRecursion, Zenon
  <2>2. c = f[m + k]
    BY <1>0, <1>5
  <2>3. QED
    BY <1>5, <1>6, <2>1, <2>2, Zenon
<1>9. a \in Seq(S) /\ b \in Seq(S) /\ c \in Seq(S)
  <2>1. b \in Seq(S)
    BY <1>2, <1>5, Zenon
  <2>2. m + k \in 1 .. m + n
    BY <1>5
  <2>3. c \in Seq(S)
    BY <1>0, <1>5, <2>2, Zenon
  <2>4. QED
    BY <1>3, <2>1, <2>3, Zenon
<1> HIDE DEF a, b, c
<1>10. (a \o b) \o c = a \o (b \o c)
  <2>1. Assoc(a, b, c)
    BY <1>9, Associative, Zenon
  <2>2. QED
    BY <2>1, Zenon DEF Assoc
<1>11. Good(k)
  BY <1>7, <1>8, <1>10, Zenon DEF a
<1> HIDE DEF Good
<1>12. QED
  BY <1>1, <1>11

(* f is g with d at the end of the n-th, the last of its sequences; and    *)
(* the join of f is that of g with d at the end.                           *)
LastLonger(S, f, g, n, d) ==
  /\ \A i \in 1 .. n : g[i] \in Seq(S)
  /\ f[n] = g[n] \o d
  /\ \A i \in 1 .. n - 1 : f[i] = g[i]

JoinLonger(f, g, n, d) == Join(f, n) = Join(g, n) \o d

(* The last sequence of a join, longer by d. *)
LEMMA JoinExtend ==
  ASSUME NEW S, NEW f, NEW g, NEW n \in Nat \ {0}, NEW d \in Seq(S), LastLonger(S, f, g, n, d)
  PROVE  JoinLonger(f, g, n, d)
<1> USE DEF JoinLonger
<1>0. /\ \A i \in 1 .. n : g[i] \in Seq(S)
      /\ f[n] = g[n] \o d
      /\ \A i \in 1 .. n - 1 : f[i] = g[i]
  BY Zenon DEF LastLonger
<1> DEFINE a == Join(g, n - 1)
           b == g[n]
<1>1. Join(f, n) = Join(f, n - 1) \o f[n] /\ Join(g, n) = a \o b
  BY JoinRecursion, Zenon
<1>2. Join(f, n - 1) = a
  BY <1>0, JoinSame
<1>3. a \in Seq(S) /\ b \in Seq(S)
  <2>1. n - 1 \in Nat /\ \A i \in 1 .. n - 1 : g[i] \in Seq(S)
    BY <1>0
  <2>2. a \in Seq(S)
    BY <2>1, JoinType
  <2>3. n \in 1 .. n
    OBVIOUS
  <2>4. QED
    BY <1>0, <2>2, <2>3, Zenon
<1> HIDE DEF a
<1>4. a \o (b \o d) = (a \o b) \o d
  <2> HIDE DEF b
  <2>1. Assoc(a, b, d)
    BY <1>3, Associative, Zenon
  <2>2. QED
    BY <2>1, Zenon DEF Assoc
<1>5. QED
  BY <1>0, <1>1, <1>2, <1>4, Zenon

(* f is g with a at the front of the first of its n sequences. *)
FirstLonger(S, f, g, n, a) ==
  /\ \A i \in 1 .. n : g[i] \in Seq(S)
  /\ f[1] = a \o g[1]
  /\ \A i \in 2 .. n : f[i] = g[i]

JoinPreceded(f, g, n, a) == Join(f, n) = a \o Join(g, n)

(* The first sequence of a join, longer by a in front. *)
LEMMA JoinTrim ==
  ASSUME NEW S, NEW f, NEW g, NEW n \in Nat \ {0}, NEW a \in Seq(S), FirstLonger(S, f, g, n, a)
  PROVE  JoinPreceded(f, g, n, a)
<1> USE DEF JoinPreceded
<1>0. /\ \A i \in 1 .. n : g[i] \in Seq(S)
      /\ f[1] = a \o g[1]
      /\ \A i \in 2 .. n : f[i] = g[i]
  BY Zenon DEF FirstLonger
<1> DEFINE h == [i \in 1 .. n - 1 |-> g[1 + i]]
           N == n - 1
           r == Join(h, N)
           b == g[1]
<1>1. N \in Nat /\ 1 + N = n /\ 1 \in Nat /\ 1 \in Nat \ {0} /\ 1 \in 1 .. n
  OBVIOUS
<1>2. \A i \in 1 .. N : h[i] = g[1 + i] /\ h[i] = f[1 + i] /\ h[i] \in Seq(S)
  BY <1>0
<1>3. b \in Seq(S) /\ a \o b \in Seq(S)
  <2>1. b \in Seq(S)
    BY <1>0, <1>1
  <2> HIDE DEF b
  <2>2. QED
    BY <2>1, ConcatShape
<1>4. \A i \in 1 .. 1 + N : f[i] \in Seq(S) /\ g[i] \in Seq(S)
  <2> TAKE i \in 1 .. 1 + N
  <2>1. i = 1 \/ i \in 2 .. n
    OBVIOUS
  <2>2. g[i] \in Seq(S)
    BY <1>0
  <2>3. i = 1 => f[i] \in Seq(S)
    BY <1>0, <1>3
  <2>4. QED
    BY <1>0, <2>1, <2>2, <2>3
<1> HIDE DEF h, N
<1>5. Join(f, 1 + N) = Join(f, 1) \o r /\ Join(g, 1 + N) = Join(g, 1) \o r
  <2> DEFINE one == 1
  <2>0. one \in Nat /\ one = 1
    OBVIOUS
  <2> HIDE DEF one
  <2>1. Spliced(f, h, one, N)
    <3>1. Follows(S, f, h, one, N)
      BY <1>2, <1>4, <2>0 DEF Follows
    <3>2. QED
      BY <1>1, <2>0, <3>1, JoinSplit, Zenon
  <2>2. Spliced(g, h, one, N)
    <3>1. Follows(S, g, h, one, N)
      BY <1>2, <1>4, <2>0 DEF Follows
    <3>2. QED
      BY <1>1, <2>0, <3>1, JoinSplit, Zenon
  <2>3. QED
    BY <2>0, <2>1, <2>2, Zenon DEF Spliced
<1>6. r \in Seq(S)
  BY <1>1, <1>2, JoinType
<1>7. Join(f, 1) = <<>> \o (a \o b) /\ Join(g, 1) = <<>> \o b
  <2>1. Join(f, 1) = Join(f, 1 - 1) \o f[1] /\ Join(g, 1) = Join(g, 1 - 1) \o g[1]
    BY <1>1, JoinRecursion, Zenon
  <2>2. Join(f, 0) = <<>> /\ Join(g, 0) = <<>>
    BY JoinRecursion, Zenon
  <2>3. 1 - 1 = 0
    OBVIOUS
  <2>4. QED
    BY <1>0, <2>1, <2>2, <2>3, Zenon
<1> HIDE DEF r, b
<1>8. <<>> \o (a \o b) = a \o b /\ <<>> \o b = b
  BY <1>3, ConcatEmptySeq
<1>9. (a \o b) \o r = a \o (b \o r)
  <2>1. Assoc(a, b, r)
    BY <1>3, <1>6, Associative, Zenon
  <2>2. QED
    BY <2>1, Zenon DEF Assoc
<1>10. QED
  BY <1>1, <1>5, <1>7, <1>8, <1>9, Zenon

(* A sequence cut in two. *)
LEMMA SubSeqSplit ==
  ASSUME NEW S, NEW d \in Seq(S), NEW j \in 0 .. Len(d)
  PROVE  /\ SubSeq(d, 1, j) \in Seq(S) /\ Len(SubSeq(d, 1, j)) = j
         /\ SubSeq(d, j + 1, Len(d)) \in Seq(S) /\ Len(SubSeq(d, j + 1, Len(d))) = Len(d) - j
         /\ d = SubSeq(d, 1, j) \o SubSeq(d, j + 1, Len(d))
<1> DEFINE n == Len(d)
           a == SubSeq(d, 1, j)
           e == SubSeq(d, j + 1, n)
<1>1. n \in Nat /\ j \in Nat /\ j <= n /\ \A i \in 1 .. n : d[i] \in S
  OBVIOUS
<1>2. a \in Seq(S) /\ Len(a) = j /\ \A i \in 1 .. j : a[i] = d[i]
  <2>1. \A i \in 1 .. j : d[i] \in S
    BY <1>1
  <2>2. /\ a \in Seq(S) /\ Len(a) = IF 1 <= j THEN j - 1 + 1 ELSE 0
        /\ \A i \in 1 .. j - 1 + 1 : a[i] = d[1 + i - 1]
    BY <1>1, <2>1, SubSeqProperties
  <2> HIDE DEF a
  <2>3. QED
    BY <1>1, <2>2
<1>3. e \in Seq(S) /\ Len(e) = n - j /\ \A i \in 1 .. n - j : e[i] = d[j + i]
  <2>1. \A i \in j + 1 .. n : d[i] \in S
    BY <1>1
  <2>2. /\ e \in Seq(S) /\ Len(e) = IF j + 1 <= n THEN n - (j + 1) + 1 ELSE 0
        /\ \A i \in 1 .. n - (j + 1) + 1 : e[i] = d[(j + 1) + i - 1]
    BY <1>1, <2>1, SubSeqProperties
  <2> HIDE DEF e
  <2>3. Len(e) = n - j /\ n - (j + 1) + 1 = n - j
    BY <1>1, <2>2
  <2>4. \A i \in 1 .. n - j : (j + 1) + i - 1 = j + i
    BY <1>1
  <2>5. QED
    BY <2>2, <2>3, <2>4
<1> HIDE DEF a, e
<1>4. /\ a \o e \in Seq(S) /\ Len(a \o e) = n
      /\ \A i \in 1 .. j : (a \o e)[i] = a[i]
      /\ \A i \in j + 1 .. n : (a \o e)[i] = e[i - j]
  <2> DEFINE c == a \o e
  <2>1. /\ c \in Seq(S) /\ Len(c) = Len(a) + Len(e)
        /\ \A i \in 1 .. Len(a) : c[i] = a[i]
        /\ \A i \in Len(a) + 1 .. Len(a) + Len(e) : c[i] = e[i - Len(a)]
    <3>1. a \in Seq(S) /\ e \in Seq(S)
      BY <1>2, <1>3
    <3>2. QED
      BY <3>1, ConcatShape
  <2>2. j + (n - j) = n
    BY <1>1
  <2> HIDE DEF c
  <2>3. c \in Seq(S) /\ Len(c) = n /\ (\A i \in 1 .. j : c[i] = a[i])
        /\ \A i \in j + 1 .. n : c[i] = e[i - j]
    BY <1>1, <1>2, <1>3, <2>1, <2>2
  <2>4. QED
    BY <2>3 DEF c
<1>5. \A i \in 1 .. n : (a \o e)[i] = d[i]
  <2> DEFINE c == a \o e
  <2> SUFFICES ASSUME NEW i \in 1 .. n PROVE c[i] = d[i]
    OBVIOUS
  <2>1. (\A m \in 1 .. j : c[m] = a[m]) /\ \A m \in j + 1 .. n : c[m] = e[m - j]
    BY <1>4, Zenon
  <2> HIDE DEF c
  <2>2. CASE i <= j
    BY <1>1, <1>2, <2>1, <2>2
  <2>3. CASE i > j
    <3>1. i - j \in 1 .. n - j /\ i \in j + 1 .. n /\ j + (i - j) = i
      BY <1>1, <2>3
    <3>2. c[i] = e[i - j] /\ e[i - j] = d[j + (i - j)]
      BY <1>3, <2>1, <3>1
    <3>3. QED
      BY <3>1, <3>2
  <2>4. QED
    BY <1>1, <2>2, <2>3
<1>6. d = a \o e
  BY <1>4, <1>5, SeqEqual
<1>7. QED
  BY <1>1, <1>2, <1>3, <1>6 DEF a, e, n
=============================================================================
