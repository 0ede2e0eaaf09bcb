--------------------------- MODULE SockLockProofs ---------------------------
(***************************************************************************)
(* Proofs about Sockbuf: who holds SB_LOCK of the receive buffer, and that *)
(* nobody sleeps through a wakeup.  BytesInv of SockbufProofs says what    *)
(* the buffer holds; ReadInv adds what each reader that does not run is    *)
(* waiting for.  sblock() lets a MSG_DONTWAIT call pass a lock it did not  *)
(* get, so the theorems are about programs without that flag.              *)
(***************************************************************************)
EXTENDS SockbufProofs

(* The bytes of s follow each other in the stream; the last one is e. *)
Consecutive(s) == \A i \in 1 .. Len(s) - 1 : s[i + 1] = s[i] + 1

EndsWith(s, e) == s # <<>> => s[Len(s)] = e

(* A reader that does not run has what its place in soreceive() says: e is *)
(* the last byte that was taken off the buffer.                            *)
Reads(p, e) ==
  /\ p.call = "waitall" => Consecutive(p.got)
  /\ p.pc \in {"lock", "wait"} => p.got = <<>>
  /\ p.pc = "all" => p.call = "waitall" /\ EndsWith(p.got, e)
  /\ p.awake => p.pc # "user"

(* NoLostWakeup, of one reader. *)
Asleep(k, r) ==
  ~k.rd[r].awake =>
    /\ k.rd[r].pc = "lock" => k.sb.lock /\ k.sb.want
    /\ k.rd[r].pc = "wait" => k.sb.wait /\ MustWait(k, r) /\ ~k.so.cantrcv
    /\ k.rd[r].pc = "all" => k.sb.wait /\ k.sb.mb = <<>> /\ ~k.so.cantrcv

Rests(k, r, c) == Asleep(k, r) /\ Reads(k.rd[r], c - k.sb.cc)

(* The lock is held by the one reader that sleeps with it, or is free. *)
LockInv(k, c) ==
  /\ k.sb.lock <=> (\E r \in Readers : k.rd[r].pc = "all")
  /\ \A r, q \in Readers : k.rd[r].pc = "all" /\ k.rd[q].pc = "all" => r = q
  /\ \A r \in Readers : Rests(k, r, c)

(* Reader x runs, the others do not; x holds the lock, or may ask for it.  *)
Others(k, x, c) == \A r \in Readers \ {x} : Rests(k, r, c)

HeldBy(k, x) == k.sb.lock /\ \A r \in Readers \ {x} : k.rd[r].pc # "all"

FreeOf(k, x) ==
  /\ k.sb.lock <=> (\E r \in Readers \ {x} : k.rd[r].pc = "all")
  /\ \A r, q \in Readers \ {x} : k.rd[r].pc = "all" /\ k.rd[q].pc = "all" => r = q


(* Waking one channel leaves the threads in user code alone. *)
LEMMA UsersLeft ==
  ASSUME NEW k \in KernelState, NEW q \in Readers, k.rd[q].pc = "user"
  PROVE  sbunlock(k).rd[q] = k.rd[q] /\ sowakeup(k).rd[q] = k.rd[q]
<1>1. "user" \notin {"lock"} /\ "user" \notin {"wait", "all"}
  OBVIOUS
<1>2. Wakes(k, {"lock"})[q] = k.rd[q] /\ Wakes(k, {"wait", "all"})[q] = k.rd[q]
  BY <1>1 DEF Wakes
<1>3. sbunlock(k).rd = Wakes(k, {"lock"}) \/ sbunlock(k).rd = k.rd
  BY DEF sbunlock, KernelState
<1>4. sowakeup(k).rd = Wakes(k, {"wait", "all"}) \/ sowakeup(k).rd = k.rd
  BY DEF sowakeup, KernelState
<1>5. QED
  BY <1>2, <1>3, <1>4

(* A sleeping reader that is neither moved nor woken still must wait. *)
LEMMA StillWaits ==
  ASSUME NEW k, NEW u, NEW r, SameData(u.sb, k.sb), SameRead(u.rd[r], k.rd[r]), MustWait(k, r)
  PROVE  MustWait(u, r)
BY DEF SameData, SameRead, MustWait

(* What a reader has read does not depend on who is awake. *)
LEMMA StillReads ==
  ASSUME NEW p, NEW q, NEW e, SameRead(p, q), p.pc = q.pc, p.awake => p.pc # "user", Reads(q, e)
  PROVE  Reads(p, e)
BY Zenon DEF SameRead, Reads

(* The other readers when sbunlock() has been called. *)
LEMMA UnlockOthers ==
  ASSUME NEW k \in KernelState, NEW x \in Readers, NEW c, HeldBy(k, x), Others(k, x, c)
  PROVE  /\ Others(sbunlock(k), x, c)
         /\ \A q \in Readers \ {x} : sbunlock(k).rd[q].pc # "all"
<1> DEFINE u == sbunlock(k)
<1>1. Unlocked(k, u)
  BY UnlockEffect
<1>2. \A q \in Readers : k.rd[q].pc = "user" => u.rd[q] = k.rd[q]
  BY UsersLeft
<1> HIDE DEF u
<1>3. ASSUME NEW q \in Readers \ {x} PROVE Rests(u, q, c) /\ u.rd[q].pc # "all"
  <2>1. /\ SameRead(u.rd[q], k.rd[q]) /\ u.rd[q].pc = k.rd[q].pc /\ k.rd[q].pc # "all"
        /\ k.rd[q].awake => u.rd[q].awake
        /\ k.rd[q].pc = "lock" /\ k.sb.want => u.rd[q].awake
    BY <1>1, <1>3, Zenon DEF Unlocked, HeldBy
  <2>2. SameData(u.sb, k.sb) /\ u.sb.cc = k.sb.cc /\ u.so = k.so /\ (k.sb.wait => u.sb.wait)
    BY <1>1, Zenon DEF Unlocked, SameData
  <2>3. Asleep(k, q) /\ Reads(k.rd[q], c - k.sb.cc)
    BY <1>3, Zenon DEF Others, Rests
  <2>4. u.rd[q].awake => u.rd[q].pc # "user"
    BY <1>2, <1>3, <2>1, <2>3, Zenon DEF Reads
  <2>5. Reads(u.rd[q], c - u.sb.cc)
    <3>1. Reads(u.rd[q], c - k.sb.cc)
      BY <2>1, <2>3, <2>4, StillReads, Zenon
    <3>2. QED
      BY <2>2, <3>1, Zenon
  <2>6. Asleep(u, q)
    <3>1. MustWait(k, q) => MustWait(u, q)
      BY <2>1, <2>2, StillWaits, Zenon
    <3>2. QED
      BY <2>1, <2>2, <2>3, <3>1, Zenon DEF Asleep
  <2>7. QED
    BY <2>1, <2>5, <2>6, Zenon DEF Rests
<1>4. QED
  BY <1>3, Zenon DEF Others, u

(* What is left when a running reader stops. *)
LEMMA StopOthers ==
  ASSUME NEW k, NEW u, NEW x \in Readers, NEW pc, NEW c, Others(k, x, c),
         Stopped(k, u, x, pc), SameData(u.sb, k.sb),
         k.sb.lock => u.sb.lock, k.sb.want => u.sb.want, k.sb.wait => u.sb.wait
  PROVE  Others(u, x, c)
<1> SUFFICES ASSUME NEW q \in Readers \ {x} PROVE Rests(u, q, c)
  BY Zenon DEF Others
<1>1. u.rd[q] = k.rd[q] /\ u.so = k.so /\ SameRead(u.rd[q], k.rd[q])
  BY Zenon DEF Stopped, SameRead
<1>2. Asleep(k, q) /\ Reads(k.rd[q], c - k.sb.cc) /\ u.sb.cc = k.sb.cc /\ u.sb.mb = k.sb.mb
  BY Zenon DEF Others, Rests, SameData
<1>3. MustWait(k, q) => MustWait(u, q)
  BY <1>1, StillWaits, Zenon
<1>4. QED
  BY <1>1, <1>2, <1>3, Zenon DEF Rests, Asleep

(* The label release: the reader returns and nobody holds the lock. *)
LEMMA LockReturn ==
  ASSUME NEW k \in KernelState, NEW x \in Readers, NEW c, HeldBy(k, x), Others(k, x, c),
         k.rd[x].call = "waitall" => Consecutive(k.rd[x].got)
  PROVE  LockInv(Return(k, x), c)
<1> DEFINE u == sbunlock(k)
           v == Return(k, x)
<1>1. Unlocked(k, u) /\ Stopped(u, v, x, "user") /\ v.sb = u.sb
  BY ReturnEffect
<1>2. Others(u, x, c) /\ \A q \in Readers \ {x} : u.rd[q].pc # "all"
  BY UnlockOthers
<1> HIDE DEF u, v
<1>3. SameData(v.sb, u.sb) /\ (u.sb.lock => v.sb.lock) /\ (u.sb.want => v.sb.want)
      /\ (u.sb.wait => v.sb.wait)
  BY <1>1, Zenon DEF SameData
<1>4. Others(v, x, c)
  BY <1>1, <1>2, <1>3, StopOthers, Zenon
<1>5. /\ ~v.sb.lock /\ v.rd[x].pc = "user" /\ ~v.rd[x].awake
      /\ v.rd[x].call = k.rd[x].call /\ v.rd[x].got = k.rd[x].got
  BY <1>1, Zenon DEF Unlocked, Stopped, SameRead
<1>6. \A q \in Readers : v.rd[q].pc # "all"
  <2>1. \A q \in Readers : q = x \/ q \in Readers \ {x}
    OBVIOUS
  <2>2. "user" # "all"
    OBVIOUS
  <2>3. QED
    BY <1>1, <1>2, <1>5, <2>1, <2>2, Zenon DEF Stopped
<1>7. Rests(v, x, c)
  <2>1. "user" \notin {"lock", "wait"} /\ "user" # "all" /\ "user" # "lock" /\ "user" # "wait"
    OBVIOUS
  <2>2. QED
    BY <1>5, <2>1, Zenon DEF Rests, Asleep, Reads
<1>8. \A q \in Readers : Rests(v, q, c)
  BY <1>4, <1>7 DEF Others
<1>9. LockInv(v, c)
  BY <1>5, <1>6, <1>8, Zenon DEF LockInv
<1>10. QED
  BY <1>9 DEF v

(* A reader that holds the lock goes to sleep with it. *)
LEMMA LockStays ==
  ASSUME NEW k \in KernelState, NEW x \in Readers, NEW c, HeldBy(k, x), Others(k, x, c),
         k.rd[x].call = "waitall", Consecutive(k.rd[x].got), EndsWith(k.rd[x].got, c - k.sb.cc),
         k.sb.mb = <<>>, ~k.so.cantrcv
  PROVE  LockInv(sbwait(k, x, "all"), c)
<1> DEFINE v == sbwait(k, x, "all")
<1>1. /\ Stopped(k, v, x, "all") /\ SameData(v.sb, k.sb)
      /\ v.sb.wait /\ (v.sb.lock <=> k.sb.lock) /\ (v.sb.want <=> k.sb.want)
  <2>1. "all" \in {"wait", "all"}
    OBVIOUS
  <2>2. QED
    BY <2>1, SbwaitEffect
<1> HIDE DEF v
<1>2. Others(v, x, c)
  BY <1>1, StopOthers, Zenon
<1>3. /\ v.rd[x].pc = "all" /\ v.rd[x].call = k.rd[x].call /\ v.rd[x].got = k.rd[x].got
      /\ v.so = k.so /\ v.sb.mb = k.sb.mb /\ v.sb.cc = k.sb.cc
      /\ \A q \in Readers \ {x} : v.rd[q] = k.rd[q]
  BY <1>1, Zenon DEF Stopped, SameRead, SameData
<1>4. Rests(v, x, c)
  <2>1. "all" \notin {"lock", "wait"} /\ "all" # "user" /\ "all" # "lock" /\ "all" # "wait"
    OBVIOUS
  <2>2. QED
    BY <1>1, <1>3, <2>1, Zenon DEF Rests, Asleep, Reads
<1>5. \A q \in Readers : Rests(v, q, c)
  BY <1>2, <1>4 DEF Others
<1>6. \A q \in Readers : v.rd[q].pc = "all" <=> q = x
  BY <1>3 DEF HeldBy
<1>7. v.sb.lock
  BY <1>1, Zenon DEF HeldBy
<1>8. LockInv(v, c)
  BY <1>5, <1>6, <1>7, Zenon DEF LockInv
<1>9. QED
  BY <1>8 DEF v

(* A reader lets go of the lock and sleeps for data. *)
LEMMA LockWaits ==
  ASSUME NEW k \in KernelState, NEW x \in Readers, NEW c, HeldBy(k, x), Others(k, x, c),
         k.rd[x].got = <<>>, MustWait(k, x), ~k.so.cantrcv
  PROVE  LockInv(sbwait(sbunlock(k), x, "wait"), c)
<1> DEFINE u == sbunlock(k)
           v == sbwait(u, x, "wait")
<1>1. Unlocked(k, u) /\ u \in KernelState
  BY UnlockEffect DEF Unlocked
<1>2. Others(u, x, c) /\ \A q \in Readers \ {x} : u.rd[q].pc # "all"
  BY UnlockOthers
<1> HIDE DEF u
<1>3. /\ Stopped(u, v, x, "wait") /\ SameData(v.sb, u.sb)
      /\ v.sb.wait /\ (v.sb.lock <=> u.sb.lock) /\ (v.sb.want <=> u.sb.want)
  <2>1. "wait" \in {"wait", "all"}
    OBVIOUS
  <2>2. QED
    BY <1>1, <2>1, SbwaitEffect
<1> HIDE DEF v
<1>4. Others(v, x, c)
  BY <1>2, <1>3, StopOthers, Zenon
<1>5. /\ v.rd[x].pc = "wait" /\ SameRead(v.rd[x], k.rd[x]) /\ v.rd[x].got = <<>>
      /\ v.so = k.so /\ SameData(v.sb, k.sb) /\ ~v.sb.lock
      /\ \A q \in Readers \ {x} : v.rd[q] = u.rd[q]
  BY <1>1, <1>3, Zenon DEF Stopped, SameRead, SameData, Unlocked
<1>6. Rests(v, x, c)
  <2>1. "wait" # "all" /\ "wait" # "user" /\ "wait" # "lock"
    OBVIOUS
  <2>2. MustWait(v, x)
    BY <1>5, StillWaits, Zenon
  <2>3. Consecutive(v.rd[x].got)
    BY <1>5 DEF Consecutive
  <2>4. QED
    BY <1>3, <1>5, <2>1, <2>2, <2>3, Zenon DEF Rests, Asleep, Reads
<1>7. \A q \in Readers : Rests(v, q, c)
  BY <1>4, <1>6 DEF Others
<1>8. \A q \in Readers : v.rd[q].pc # "all"
  <2>1. \A q \in Readers : q = x \/ q \in Readers \ {x}
    OBVIOUS
  <2>2. "wait" # "all"
    OBVIOUS
  <2>3. QED
    BY <1>2, <1>5, <2>1, <2>2, Zenon
<1>9. LockInv(v, c)
  BY <1>5, <1>7, <1>8, Zenon DEF LockInv
<1>10. QED
  BY <1>9 DEF u, v

(* A reader finds the buffer locked, and sleeps for the lock. *)
LEMMA LockWanted ==
  ASSUME NEW k \in KernelState, NEW x \in Readers, NEW c, FreeOf(k, x), Others(k, x, c),
         k.rd[x].got = <<>>, k.sb.lock
  PROVE  LockInv([k EXCEPT !.sb.want = TRUE, !.rd[x].pc = "lock", !.rd[x].awake = FALSE], c)
<1> DEFINE v == [k EXCEPT !.sb.want = TRUE, !.rd[x].pc = "lock", !.rd[x].awake = FALSE]
<1>1. /\ Stopped(k, v, x, "lock") /\ SameData(v.sb, k.sb)
      /\ (v.sb.lock <=> k.sb.lock) /\ v.sb.want /\ (v.sb.wait <=> k.sb.wait)
  BY FlagEffects
<1> HIDE DEF v
<1>2. Others(v, x, c)
  BY <1>1, StopOthers, Zenon
<1>3. /\ v.rd[x].pc = "lock" /\ v.rd[x].got = <<>> /\ v.so = k.so /\ v.sb.lock
      /\ \A q \in Readers \ {x} : v.rd[q] = k.rd[q]
  BY <1>1, Zenon DEF Stopped, SameRead
<1>4. Rests(v, x, c)
  <2>1. "lock" # "all" /\ "lock" # "user" /\ "lock" # "wait"
    OBVIOUS
  <2>2. Consecutive(v.rd[x].got)
    BY <1>3 DEF Consecutive
  <2>3. QED
    BY <1>1, <1>3, <2>1, <2>2, Zenon DEF Rests, Asleep, Reads
<1>5. \A q \in Readers : Rests(v, q, c)
  BY <1>2, <1>4 DEF Others
<1>6. \A q \in Readers : v.rd[q].pc = "all" => q \in Readers \ {x} /\ k.rd[q].pc = "all"
  BY <1>3
<1>7. \E q \in Readers : v.rd[q].pc = "all"
  <2>1. PICK q \in Readers \ {x} : k.rd[q].pc = "all"
    BY Zenon DEF FreeOf
  <2>2. QED
    BY <1>3, <2>1
<1>8. LockInv(v, c)
  BY <1>3, <1>5, <1>6, <1>7, Zenon DEF LockInv, FreeOf
<1>9. QED
  BY <1>8 DEF v

(* The next bytes of the stream after those that end with e. *)
LEMMA FollowOn ==
  ASSUME NEW s \in Seq(Byte), NEW t \in Seq(Byte), NEW e \in Int, Consecutive(s), EndsWith(s, e),
         \A i \in 1 .. Len(t) : t[i] = e + i
  PROVE  Consecutive(s \o t) /\ EndsWith(s \o t, e + Len(t))
<1> DEFINE g == s \o t
           m == Len(s)
           n == Len(t)
<1>1. m \in Nat /\ n \in Nat
  OBVIOUS
<1>2. /\ g \in Seq(Byte) /\ Len(g) = m + n
      /\ \A i \in 1 .. m : g[i] = s[i]
      /\ \A i \in m + 1 .. m + n : g[i] = t[i - m]
  BY ConcatShape
<1>3. \A i \in m + 1 .. m + n : g[i] = e + (i - m)
  <2>1. \A i \in m + 1 .. m + n : i - m \in 1 .. n
    BY <1>1
  <2>2. QED
    BY <1>2, <2>1
<1>4. m > 0 => s[m] = e
  BY <1>1 DEF EndsWith
<1> HIDE DEF g
<1>5. ASSUME NEW i \in 1 .. Len(g) - 1 PROVE g[i + 1] = g[i] + 1
  <2>1. CASE i < m
    <3>1. i \in 1 .. m /\ i + 1 \in 1 .. m /\ i \in 1 .. Len(s) - 1
      BY <1>1, <1>2, <1>5, <2>1
    <3>2. QED
      BY <1>2, <3>1 DEF Consecutive
  <2>2. CASE i = m
    <3>1. i \in 1 .. m /\ i + 1 \in m + 1 .. m + n /\ m > 0
      BY <1>1, <1>2, <1>5, <2>2
    <3>2. g[i] = e /\ g[i + 1] = e + ((i + 1) - m)
      BY <1>2, <1>3, <1>4, <2>2, <3>1
    <3>3. QED
      BY <1>1, <2>2, <3>2
  <2>3. CASE i > m
    <3>1. i \in m + 1 .. m + n /\ i + 1 \in m + 1 .. m + n
      BY <1>1, <1>2, <1>5, <2>3
    <3>2. g[i] = e + (i - m) /\ g[i + 1] = e + ((i + 1) - m)
      BY <1>3, <3>1
    <3>3. QED
      BY <1>1, <1>5, <3>2
  <2>4. QED
    BY <1>1, <2>1, <2>2, <2>3
<1>6. EndsWith(g, e + n)
  <2>1. CASE n = 0
    <3>1. Len(g) = m /\ (m > 0 => g[m] = e) /\ e + n = e
      BY <1>1, <1>2, <1>4, <2>1
    <3>2. QED
      BY <1>1, <1>2, <3>1 DEF EndsWith
  <2>2. CASE n > 0
    <3>1. m + n \in m + 1 .. m + n
      BY <1>1, <2>2
    <3>2. g[m + n] = e + ((m + n) - m)
      BY <1>3, <3>1
    <3>3. QED
      BY <1>1, <1>2, <3>2 DEF EndsWith
  <2>3. QED
    BY <1>1, <2>1, <2>2
<1>7. QED
  BY <1>5, <1>6 DEF Consecutive, g

(* The copy of soreceive(), with the lock: the others wait as before. *)
LEMMA LockCopied ==
  ASSUME NEW k, NEW c \in Nat, NEW a \in Nat, DataInv(k, c, a), NEW x \in Readers,
         HeldBy(k, x), Others(k, x, c),
         k.rd[x].call = "waitall" =>
           Consecutive(k.rd[x].got) /\ EndsWith(k.rd[x].got, c - k.sb.cc)
  PROVE  LET u == Copied(k, x)
         IN  /\ u \in KernelState /\ HeldBy(u, x) /\ Others(u, x, c)
             /\ u.rd[x].call = "waitall" =>
                  Consecutive(u.rd[x].got) /\ EndsWith(u.rd[x].got, c - u.sb.cc)
             /\ Stays(u, x) => u.sb.mb = <<>>
<1> DEFINE u == Copied(k, x)
           n == Much(k, x)
           t == SubSeq(Bytes(k.sb), 1, n)
<1>1. k \in KernelState /\ Chain(k.sb) /\ k.sb \in SockBuf /\ k.rd[x] \in Reader
  BY StateParts DEF DataInv
<1>2. /\ n \in Nat /\ n <= k.sb.cc /\ (n = k.rd[x].resid \/ n = k.sb.cc)
      /\ TookBytes(k, u, x, n)
  BY <1>1, CopiedEffect
<1> HIDE DEF u, n
<1>3. /\ u \in KernelState /\ u.so.cantrcv = k.so.cantrcv /\ u.sb = Taken(k.sb, n)
      /\ u.rd[x].call = k.rd[x].call /\ u.rd[x].resid = k.rd[x].resid - n
      /\ u.rd[x].got = k.rd[x].got \o t
      /\ \A q \in Readers \ {x} : u.rd[q] = k.rd[q]
  BY <1>2, Zenon DEF TookBytes
<1>4. u.sb \in SockBuf /\ Chain(u.sb) /\ SameRest(u.sb, k.sb) /\ u.sb.cc = k.sb.cc - n
  BY <1>1, <1>2, <1>3, TakenKeeps, SMTT(30)
<1>5. /\ k.sb.cc \in Nat /\ k.sb.cc <= c /\ u.sb.cc \in Nat /\ u.sb.cc <= k.sb.cc
      /\ \A i \in 1 .. k.sb.cc : Bytes(k.sb)[i] = c - k.sb.cc + i
  BY <1>1, <1>2, <1>4, Fields DEF DataInv, Suffix
<1>6. k.sb.mb = <<>> => u.sb.mb = <<>>
  <2>1. k.sb.mb = <<>> => k.sb.cc = 0
    BY <1>1, EmptyChain
  <2>2. k.sb.cc = 0 => u.sb.cc = 0
    BY <1>5
  <2>3. u.sb.cc = 0 => u.sb.mb = <<>>
    BY <1>4, EmptyChain
  <2>4. QED
    BY <2>1, <2>2, <2>3
<1>7. (k.sb.lock => u.sb.lock) /\ (k.sb.want => u.sb.want) /\ (k.sb.wait => u.sb.wait)
      /\ u.sb.hiwat = k.sb.hiwat
  BY <1>4, Zenon DEF SameRest
<1>8. HeldBy(u, x)
  BY <1>3, <1>7, Zenon DEF HeldBy
<1>9. Others(u, x, c)
  <2> SUFFICES ASSUME NEW q \in Readers \ {x} PROVE Rests(u, q, c)
    BY Zenon DEF Others
  <2>1. u.rd[q] = k.rd[q] /\ k.rd[q].pc # "all" /\ Asleep(k, q) /\ Reads(k.rd[q], c - k.sb.cc)
    BY <1>3, Zenon DEF HeldBy, Others, Rests
  <2>2. MustWait(k, q) => MustWait(u, q)
    <3>1. k.rd[q].resid \in Nat
      BY <1>1, StateParts DEF Reader
    <3>2. k.sb.cc < k.rd[q].resid => u.sb.cc < k.rd[q].resid
      BY <1>5, <3>1
    <3>3. QED
      BY <1>6, <1>7, <2>1, <3>2 DEF MustWait
  <2>3. Asleep(u, q)
    BY <1>3, <1>7, <2>1, <2>2, Zenon DEF Asleep
  <2>4. Reads(u.rd[q], c - u.sb.cc)
    BY <2>1, Zenon DEF Reads
  <2>5. QED
    BY <2>3, <2>4, Zenon DEF Rests
<1>10. ASSUME u.rd[x].call = "waitall"
       PROVE  Consecutive(u.rd[x].got) /\ EndsWith(u.rd[x].got, c - u.sb.cc)
  <2> DEFINE g == k.rd[x].got
             e == c - k.sb.cc
  <2>1. g \in Seq(Byte) /\ Consecutive(g) /\ EndsWith(g, e) /\ e \in Int
    BY <1>1, <1>3, <1>5, <1>10, SMTT(30) DEF Reader, Byte
  <2>2. t \in Seq(Byte) /\ Len(t) = n /\ \A i \in 1 .. Len(t) : t[i] = e + i
    <3>1. Bytes(k.sb) \in Seq(Byte) /\ n \in 0 .. Len(Bytes(k.sb))
      BY <1>1, <1>2, BytesType DEF Chain
    <3>2. t \in Seq(Byte) /\ Len(t) = n /\ \A j \in 1 .. n : t[j] = Bytes(k.sb)[j]
      BY <3>1, SubSeqSplit
    <3> HIDE DEF t
    <3>3. QED
      BY <1>2, <1>5, <3>2
  <2>3. c - u.sb.cc = e + n
    BY <1>2, <1>4, <1>5
  <2> HIDE DEF g, e, t
  <2>4. Consecutive(g \o t) /\ EndsWith(g \o t, e + Len(t))
    BY <2>1, <2>2, FollowOn
  <2>5. QED
    BY <1>3, <2>2, <2>3, <2>4, Zenon DEF g, t
<1>11. ASSUME Stays(u, x) PROVE u.sb.mb = <<>>
  <2>1. k.rd[x].resid \in Nat /\ u.rd[x].resid > 0
    BY <1>1, <1>11 DEF Reader, Stays
  <2>2. u.sb.cc = 0
    BY <1>2, <1>3, <1>4, <1>5, <2>1, SMTT(30)
  <2>3. QED
    BY <1>4, <2>2, EmptyChain
<1>12. QED
  BY <1>3, <1>8, <1>9, <1>10, <1>11, Zenon DEF u

(* The label dontblock. *)
LEMMA LockCopy ==
  ASSUME NEW k, NEW c \in Nat, NEW a \in Nat, DataInv(k, c, a), NEW x \in Readers,
         HeldBy(k, x), Others(k, x, c),
         k.rd[x].call = "waitall" =>
           Consecutive(k.rd[x].got) /\ EndsWith(k.rd[x].got, c - k.sb.cc)
  PROVE  LockInv(Copy(k, x), c)
<1> DEFINE u == Copied(k, x)
<1>1. /\ u \in KernelState /\ HeldBy(u, x) /\ Others(u, x, c)
      /\ u.rd[x].call = "waitall" =>
           Consecutive(u.rd[x].got) /\ EndsWith(u.rd[x].got, c - u.sb.cc)
      /\ Stays(u, x) => u.sb.mb = <<>>
  BY LockCopied
<1>2. /\ Stays(u, x) => Copy(k, x) = sbwait(u, x, "all")
      /\ ~Stays(u, x) => Copy(k, x) = Return(u, x)
  BY CopyIs
<1> HIDE DEF u
<1>3. CASE Stays(u, x)
  <2>1. LockInv(sbwait(u, x, "all"), c)
    BY <1>1, <1>3, LockStays, Zenon DEF Stays
  <2>2. QED
    BY <1>2, <1>3, <2>1, Zenon
<1>4. CASE ~Stays(u, x)
  <2>1. LockInv(Return(u, x), c)
    BY <1>1, LockReturn, Zenon
  <2>2. QED
    BY <1>2, <1>4, <2>1, Zenon
<1>5. QED
  BY <1>3, <1>4

(* The locked part of soreceive(), for a reader that has no byte yet. *)
LEMMA LockReceive ==
  ASSUME NEW k, NEW c \in Nat, NEW a \in Nat, DataInv(k, c, a), NEW x \in Readers,
         HeldBy(k, x), Others(k, x, c), k.rd[x].got = <<>>
  PROVE  LockInv(soreceive(k, x), c)
<1>1. k \in KernelState
  BY DEF DataInv
<1>2. Consecutive(k.rd[x].got) /\ EndsWith(k.rd[x].got, c - k.sb.cc)
  BY DEF Consecutive, EndsWith
<1>3. LockInv(Copy(k, x), c)
  BY <1>2, LockCopy, Zenon
<1>4. LockInv(Return(k, x), c)
  BY <1>1, <1>2, LockReturn, Zenon
<1>5. LockInv(Return([k EXCEPT !.so.error = FALSE], x), c)
  <2> DEFINE u == [k EXCEPT !.so.error = FALSE]
  <2>1. u \in KernelState /\ u.rd = k.rd /\ u.sb = k.sb /\ (u.so.cantrcv <=> k.so.cantrcv)
    BY <1>1, EndEffects
  <2> HIDE DEF u
  <2>2. HeldBy(u, x) /\ Consecutive(u.rd[x].got)
    BY <1>2, <2>1, Zenon DEF HeldBy
  <2>3. ASSUME NEW q \in Readers \ {x} PROVE Rests(u, q, c)
    <3>1. Asleep(k, q) /\ Reads(k.rd[q], c - k.sb.cc)
      BY <2>3, Zenon DEF Others, Rests
    <3>2. MustWait(k, q) => MustWait(u, q)
      BY <2>1, Zenon DEF MustWait
    <3>3. QED
      BY <2>1, <3>1, <3>2, Zenon DEF Rests, Asleep
  <2>4. Others(u, x, c)
    BY <2>3, Zenon DEF Others
  <2>5. LockInv(Return(u, x), c)
    BY <2>1, <2>2, <2>4, LockReturn, Zenon
  <2>6. QED
    BY <2>5 DEF u
<1>6. ASSUME MustWait(k, x), ~k.so.cantrcv
      PROVE  LockInv(sbwait(sbunlock(k), x, "wait"), c)
  BY <1>1, <1>6, LockWaits, Zenon
<1>7. QED
  BY <1>3, <1>4, <1>5, <1>6, Zenon DEF soreceive

(* A wakeup of those who wait for data, when bytes or the end have come. *)
LEMMA WakeKeeps ==
  ASSUME NEW k, NEW u \in KernelState, u.rd = k.rd,
         u.sb.lock <=> k.sb.lock, u.sb.want <=> k.sb.want, u.sb.wait <=> k.sb.wait,
         NEW c, NEW d, c - k.sb.cc = d - u.sb.cc, NEW q \in Readers, Rests(k, q, c)
  PROVE  /\ Rests(sowakeup(u), q, d) /\ sowakeup(u).rd[q].pc = k.rd[q].pc
         /\ sowakeup(u).sb.lock <=> k.sb.lock
<1> DEFINE v == sowakeup(u)
<1>1. WokenUp(u, v)
  BY WakeupEffect
<1>2. k.rd[q].pc = "user" => v.rd[q] = k.rd[q]
  BY UsersLeft
<1> HIDE DEF v
<1>3. /\ SameRead(v.rd[q], k.rd[q]) /\ v.rd[q].pc = k.rd[q].pc
      /\ k.rd[q].awake => v.rd[q].awake
      /\ k.rd[q].pc \in {"wait", "all"} /\ k.sb.wait => v.rd[q].awake
      /\ (v.sb.lock <=> k.sb.lock) /\ (v.sb.want <=> k.sb.want) /\ v.sb.cc = u.sb.cc
  BY <1>1, Zenon DEF WokenUp, SameData
<1>4. Asleep(k, q) /\ Reads(k.rd[q], c - k.sb.cc)
  BY Zenon DEF Rests
<1>5. Reads(v.rd[q], c - k.sb.cc)
  <2>1. v.rd[q].awake => v.rd[q].pc # "user"
    BY <1>2, <1>3, <1>4, Zenon DEF Reads
  <2>2. QED
    BY <1>3, <1>4, <2>1, StillReads, Zenon
<1>6. Reads(v.rd[q], d - v.sb.cc)
  <2>1. d - v.sb.cc = c - k.sb.cc
    BY <1>3, Zenon
  <2>2. QED
    BY <1>5, <2>1, Zenon
<1>7. Asleep(v, q)
  <2>1. ASSUME k.rd[q].pc \in {"wait", "all"} PROVE v.rd[q].awake
    <3>1. k.rd[q].pc = "wait" \/ k.rd[q].pc = "all"
      BY <2>1
    <3>2. k.rd[q].awake \/ k.sb.wait
      BY <1>4, <3>1, Zenon DEF Asleep
    <3>3. QED
      BY <1>3, <2>1, <3>2, Zenon
  <2>2. \A z : z = "wait" \/ z = "all" => z \in {"wait", "all"}
    OBVIOUS
  <2>3. QED
    BY <1>3, <1>4, <2>1, <2>2, Zenon DEF Asleep
<1>8. QED
  BY <1>3, <1>6, <1>7, Zenon DEF Rests, v

(* socantrcvmore() wakes everyone who waits for data. *)
LEMMA EndKeeps ==
  ASSUME NEW k \in KernelState, NEW c, NEW q \in Readers, Rests(k, q, c)
  PROVE  /\ Rests(socantrcvmore(k), q, c) /\ socantrcvmore(k).rd[q].pc = k.rd[q].pc
         /\ socantrcvmore(k).sb.lock <=> k.sb.lock
<1> DEFINE u == [k EXCEPT !.so.cantrcv = TRUE]
<1>1. u \in KernelState /\ u.rd = k.rd /\ u.sb = k.sb
  BY EndEffects
<1>2. socantrcvmore(k) = sowakeup(u)
  BY Zenon DEF socantrcvmore
<1> HIDE DEF u
<1>3. (u.sb.lock <=> k.sb.lock) /\ (u.sb.want <=> k.sb.want) /\ (u.sb.wait <=> k.sb.wait)
      /\ c - k.sb.cc = c - u.sb.cc
  BY <1>1, Zenon
<1>4. /\ Rests(sowakeup(u), q, c) /\ sowakeup(u).rd[q].pc = k.rd[q].pc
      /\ sowakeup(u).sb.lock <=> k.sb.lock
  BY <1>1, <1>3, WakeKeeps
<1>5. QED
  BY <1>2, <1>4, Zenon

(* What socantrcvmore() leaves to the caller. *)
LEMMA EndFacts ==
  ASSUME NEW k \in KernelState, NEW x \in Readers
  PROVE  LET v == socantrcvmore(k)
         IN  /\ v \in KernelState /\ v.so.cantrcv /\ (v.sb.lock <=> k.sb.lock)
             /\ SameRead(v.rd[x], k.rd[x]) /\ v.rd[x].pc = k.rd[x].pc
<1> DEFINE u == [k EXCEPT !.so.cantrcv = TRUE]
           v == sowakeup(u)
<1>1. u \in KernelState /\ u.rd = k.rd /\ u.sb = k.sb /\ u.so.cantrcv
  BY EndEffects
<1>2. socantrcvmore(k) = v
  BY Zenon DEF socantrcvmore
<1> HIDE DEF u
<1>3. WokenUp(u, v)
  BY <1>1, WakeupEffect
<1> HIDE DEF v
<1>4. v.so = u.so
  BY <1>3 DEF WokenUp
<1>5. v.so.cantrcv
  BY <1>1, <1>4
<1>6. QED
  BY <1>1, <1>2, <1>3, <1>5, Zenon DEF WokenUp

(* sorflush(): nobody sleeps on the buffer that it zeroes. *)
LEMMA LockFlush ==
  ASSUME NEW k, NEW c \in Nat, NEW a \in Nat, DataInv(k, c, a), NEW x \in Readers,
         HeldBy(k, x), Others(k, x, c), k.rd[x].got = <<>>
  PROVE  LockInv(sorflush(k, x), c)
<1> DEFINE v == socantrcvmore(k)
           w == Return(v, x)
           u == [w EXCEPT !.sb = Flushed]
<1>1. k \in KernelState
  BY DEF DataInv
<1>2. /\ v \in KernelState /\ v.so.cantrcv /\ (v.sb.lock <=> k.sb.lock)
      /\ v.rd[x].got = <<>>
  BY <1>1, EndFacts, Zenon DEF SameRead
<1>3. \A q \in Readers \ {x} : Rests(v, q, c) /\ v.rd[q].pc = k.rd[q].pc
  BY <1>1, EndKeeps DEF Others
<1>4. sorflush(k, x) = u
  BY Zenon DEF sorflush, Flushed
<1> HIDE DEF v
<1>5. HeldBy(v, x) /\ Others(v, x, c) /\ Consecutive(v.rd[x].got)
  <2>1. HeldBy(v, x) /\ Others(v, x, c)
    BY <1>2, <1>3, Zenon DEF HeldBy, Others
  <2>2. QED
    BY <1>2, <2>1 DEF Consecutive
<1>6. LockInv(w, c)
  BY <1>2, <1>5, LockReturn, Zenon
<1>7. w \in KernelState /\ w.so.cantrcv /\ ~w.sb.lock
  <2>1. Unlocked(v, sbunlock(v)) /\ Stopped(sbunlock(v), w, x, "user") /\ w.sb = sbunlock(v).sb
    BY <1>2, ReturnEffect
  <2> HIDE DEF w
  <2>2. w \in KernelState /\ w.so = v.so /\ ~w.sb.lock
    BY <2>1, Zenon DEF Unlocked, Stopped
  <2>3. QED
    BY <1>2, <2>2
<1> HIDE DEF w
<1>8. Flushed \in SockBuf /\ ~Flushed.lock
  BY EmptyBuffers
<1>9. u.sb = Flushed /\ u.rd = w.rd /\ u.so = w.so
  BY <1>7, <1>8, WithBuffer
<1> HIDE DEF u
<1>10. \A q \in Readers : w.rd[q].pc # "all" /\ Asleep(w, q) /\ Reads(w.rd[q], c - w.sb.cc)
  BY <1>6, <1>7, Zenon DEF LockInv, Rests
<1>11. ASSUME NEW q \in Readers PROVE Rests(u, q, c)
  <2>1. Reads(u.rd[q], c - u.sb.cc)
    BY <1>9, <1>10, Zenon DEF Reads
  <2>2. Asleep(u, q)
    BY <1>7, <1>9, <1>10, Zenon DEF Asleep
  <2>3. QED
    BY <2>1, <2>2, Zenon DEF Rests
<1>12. LockInv(u, c)
  BY <1>8, <1>9, <1>10, <1>11, Zenon DEF LockInv
<1>13. QED
  BY <1>4, <1>12, Zenon

(* sblock(), and what the call does with the lock. *)
LEMMA LockFunctions ==
  ASSUME NEW k, NEW c \in Nat, NEW a \in Nat, DataInv(k, c, a), NEW x \in Readers,
         FreeOf(k, x), Others(k, x, c), k.rd[x].got = <<>>, k.rd[x].call # "dontwait"
  PROVE  LockInv(sblock(k, x), c)
<1>1. k \in KernelState
  BY DEF DataInv
<1>2. CASE ~k.sb.lock
  <2> DEFINE u == [k EXCEPT !.sb.lock = TRUE]
  <2>1. /\ u \in KernelState /\ u.so = k.so /\ u.rd = k.rd /\ SameData(u.sb, k.sb)
        /\ u.sb.lock /\ (u.sb.want <=> k.sb.want) /\ (u.sb.wait <=> k.sb.wait)
    BY <1>1, FlagEffects
  <2>2. sblock(k, x) = Locked(u, x)
    BY <1>2, Zenon DEF sblock
  <2> HIDE DEF u
  <2>3. DataInv(u, c, a)
    <3>1. (k.so.cantrcv => u.so.cantrcv) /\ u.so.read = k.so.read
      BY <2>1
    <3>2. QED
      BY <2>1, <3>1, QuietKeeps, Zenon
  <2>4. HeldBy(u, x) /\ u.rd[x].got = <<>>
    BY <1>2, <2>1, Zenon DEF HeldBy, FreeOf
  <2>5. ASSUME NEW q \in Readers \ {x} PROVE Rests(u, q, c)
    <3>1. Asleep(k, q) /\ Reads(k.rd[q], c - k.sb.cc) /\ u.rd[q] = k.rd[q]
      BY <2>1, <2>5, Zenon DEF Others, Rests
    <3>2. u.sb.cc = k.sb.cc /\ u.sb.mb = k.sb.mb /\ SameRead(u.rd[q], k.rd[q])
      BY <2>1, <3>1, Zenon DEF SameData, SameRead
    <3>3. MustWait(k, q) => MustWait(u, q)
      BY <2>1, <3>2, StillWaits, Zenon
    <3>4. QED
      BY <2>1, <3>1, <3>2, <3>3, Zenon DEF Rests, Asleep
  <2>6. Others(u, x, c)
    BY <2>5, Zenon DEF Others
  <2>7. LockInv(sorflush(u, x), c) /\ LockInv(soreceive(u, x), c)
    BY <2>3, <2>4, <2>6, LockFlush, LockReceive, Zenon
  <2>8. QED
    BY <2>2, <2>7, Zenon DEF Locked
<1>3. CASE k.sb.lock
  <2>1. sblock(k, x) = [k EXCEPT !.sb.want = TRUE, !.rd[x].pc = "lock", !.rd[x].awake = FALSE]
    BY <1>3, Zenon DEF sblock
  <2>2. QED
    BY <1>1, <1>3, <2>1, LockWanted, Zenon
<1>4. QED
  BY <1>2, <1>3

(* The inductive invariant of the lock. *)
ReadInv == BytesInv /\ LockInv(Kernel, rcvd)

(* A reader starts to run: the lock is another's, or it sleeps with it. *)
LEMMA Runs ==
  ASSUME NEW k, NEW c, LockInv(k, c), NEW x \in Readers
  PROVE  /\ Others(k, x, c)
         /\ k.rd[x].pc # "all" => FreeOf(k, x)
         /\ k.rd[x].pc = "all" => HeldBy(k, x)
<1>1. Others(k, x, c)
  BY DEF LockInv, Others
<1>2. \A q \in Readers \ {x} : q \in Readers /\ q # x
  OBVIOUS
<1>3. \A q \in Readers : q = x \/ q \in Readers \ {x}
  OBVIOUS
<1>4. ASSUME k.rd[x].pc # "all" PROVE FreeOf(k, x)
  BY <1>2, <1>3, <1>4, Zenon DEF LockInv, FreeOf
<1>5. ASSUME k.rd[x].pc = "all" PROVE HeldBy(k, x)
  BY <1>2, <1>5, Zenon DEF LockInv, HeldBy
<1>6. QED
  BY <1>1, <1>4, <1>5

(* Nobody has called recv() yet. *)
LEMMA LockInit ==
  Init => ReadInv
<1> SUFFICES ASSUME Init PROVE ReadInv
  OBVIOUS
<1>1. BytesInv
  BY BytesInit
<1>2. ~sb.lock
  BY EmptyBuffers DEF Init
<1>3. \A r \in Readers : rd[r].pc = "user" /\ ~rd[r].awake /\ rd[r].got = <<>>
  BY DEF Init
<1>4. \A r \in Readers : rd[r].pc # "all" /\ rd[r].pc # "lock" /\ rd[r].pc # "wait"
                         /\ rd[r].pc \notin {"lock", "wait"}
  BY <1>3
<1>5. \A r \in Readers : Consecutive(rd[r].got)
  BY <1>3 DEF Consecutive
<1> DEFINE K == Kernel
<1>6. K.sb = sb /\ K.rd = rd
  BY KernelParts
<1> HIDE DEF K
<1>7. ASSUME NEW r \in Readers PROVE Rests(K, r, rcvd)
  BY <1>3, <1>4, <1>5, <1>6, <1>7, Zenon DEF Rests, Asleep, Reads
<1>8. LockInv(K, rcvd)
  BY <1>2, <1>4, <1>6, <1>7, Zenon DEF LockInv
<1>9. QED
  BY <1>1, <1>8 DEF ReadInv, K

(* No step of a reader, of TCP or of time loses a wakeup or the lock. *)
LEMMA LockNext ==
  ASSUME "dontwait" \notin Calls
  PROVE  ReadInv /\ [Next]_vars => ReadInv'
<1> SUFFICES ASSUME ReadInv, [Next]_vars PROVE ReadInv'
  OBVIOUS
<1> DEFINE K == Kernel
<1>1. /\ rcvd \in Nat /\ adv \in Nat /\ DataInv(K, rcvd, adv) /\ K \in KernelState
      /\ K.sb = sb /\ K.rd = rd /\ K.so = so /\ LockInv(K, rcvd)
  BY SockbufAssumption, KernelParts DEF ReadInv, BytesInv, DataInv
<1>2. sb \in SockBuf /\ rd \in [Readers -> Reader] /\ \A r \in Readers : rd[r] \in Reader
  BY <1>1, StateParts
<1>3. BytesInv'
  BY BytesNext DEF ReadInv
<1>4. ASSUME NEW k \in KernelState, NEW c, LockInv(k, c), Becomes(k), rcvd' = c
      PROVE  ReadInv'
  <2>1. Kernel' = k
    BY <1>4, BecomesKernel
  <2>2. LockInv(Kernel', rcvd')
    BY <1>4, <2>1
  <2>3. QED
    BY <1>3, <2>2 DEF ReadInv
<1>5. ASSUME NEW r \in Readers
      PROVE  /\ Others(K, r, rcvd)
             /\ rd[r].pc # "all" => FreeOf(K, r)
             /\ rd[r].pc = "all" => HeldBy(K, r)
             /\ Rests(K, r, rcvd)
  BY <1>1, <1>5, Runs DEF LockInv
<1> HIDE DEF K
<1>6. ASSUME NEW r \in Readers, NEW n \in Sizes, NEW c \in Calls, Enter(r, c, n)
      PROVE  ReadInv'
  <2> DEFINE q == [pc |-> "user", call |-> c, resid |-> n, got |-> <<>>, awake |-> FALSE]
             k == [K EXCEPT !.rd[r] = q]
  <2>1. q \in Reader /\ q.got = <<>> /\ q.call # "dontwait"
    BY SockbufAssumption DEF Reader
  <2>2. Becomes(sblock(k, r)) /\ rcvd' = rcvd /\ rd[r].pc = "user"
    BY <1>6 DEF Enter, K
  <2> HIDE DEF q
  <2>3. /\ k \in KernelState /\ k.sb = K.sb /\ k.so = K.so
        /\ k.rd[r] = q /\ \A p \in Readers \ {r} : k.rd[p] = K.rd[p]
    BY <1>1, <2>1, EnterEffect
  <2>4. DataInv(k, rcvd, adv)
    BY <1>1, <2>1, DataEnter
  <2> HIDE DEF k
  <2>5. FreeOf(K, r) /\ Others(K, r, rcvd)
    BY <1>5, <2>2
  <2>6. FreeOf(k, r)
    BY <2>3, <2>5, Zenon DEF FreeOf
  <2>7. Others(k, r, rcvd)
    BY <2>3, <2>5, Zenon DEF Others, Rests, Asleep, MustWait
  <2>8. LockInv(sblock(k, r), rcvd) /\ DataInv(sblock(k, r), rcvd, adv)
    BY <1>1, <2>1, <2>3, <2>4, <2>6, <2>7, LockFunctions, DataFunctions, Zenon
  <2>9. QED
    BY <1>4, <2>2, <2>8 DEF DataInv
<1>7. ASSUME NEW r \in Readers, Resume(r) PROVE ReadInv'
  <2> DEFINE k == IF rd[r].pc # "all" THEN sblock(K, r)
                  ELSE IF sb.mb # <<>> THEN Copy(K, r)
                  ELSE IF so.error \/ so.cantrcv THEN Return(K, r)
                  ELSE sbwait(K, r, "all")
  <2>1. Becomes(k) /\ rcvd' = rcvd /\ rd[r].awake
    BY <1>7 DEF Resume, K
  <2>2. Reads(rd[r], rcvd - sb.cc) /\ Others(K, r, rcvd)
    BY <1>1, <1>5, Zenon DEF Rests
  <2>3. rd[r].pc \in {"user", "lock", "wait", "all"} /\ rd[r].call \in Calls
    BY <1>2 DEF Reader
  <2>4. CASE rd[r].pc # "all"
    <3>1. rd[r].pc # "user"
      BY <2>1, <2>2, Zenon DEF Reads
    <3>2. rd[r].pc \in {"lock", "wait"} /\ rd[r].call # "dontwait"
      BY <2>3, <2>4, <3>1
    <3>3. rd[r].got = <<>>
      BY <2>2, <3>2, Zenon DEF Reads
    <3>4. LockInv(sblock(K, r), rcvd) /\ DataInv(sblock(K, r), rcvd, adv)
      BY <1>1, <1>5, <2>2, <2>4, <3>2, <3>3, LockFunctions, DataFunctions, Zenon
    <3>5. k = sblock(K, r)
      BY <2>4
    <3> HIDE DEF k
    <3>6. QED
      BY <1>4, <2>1, <3>4, <3>5 DEF DataInv
  <2>5. CASE rd[r].pc = "all"
    <3>1. /\ HeldBy(K, r) /\ rd[r].call = "waitall" /\ Consecutive(rd[r].got)
          /\ EndsWith(rd[r].got, rcvd - sb.cc)
      BY <1>5, <2>2, <2>5, Zenon DEF Reads
    <3>2. LockInv(Copy(K, r), rcvd) /\ DataInv(Copy(K, r), rcvd, adv)
      BY <1>1, <2>2, <3>1, LockCopy, DataFunctions, Zenon
    <3>3. LockInv(Return(K, r), rcvd) /\ DataInv(Return(K, r), rcvd, adv)
      BY <1>1, <2>2, <3>1, LockReturn, DataMoves, Zenon
    <3>4. ASSUME sb.mb = <<>>, ~so.cantrcv
          PROVE  LockInv(sbwait(K, r, "all"), rcvd) /\ DataInv(sbwait(K, r, "all"), rcvd, adv)
      <4>1. "all" \in {"wait", "all"}
        OBVIOUS
      <4>2. DataInv(sbwait(K, r, "all"), rcvd, adv)
        BY <1>1, <4>1, DataMoves, Zenon
      <4>3. LockInv(sbwait(K, r, "all"), rcvd)
        BY <1>1, <2>2, <3>1, <3>4, LockStays, Zenon
      <4>4. QED
        BY <4>2, <4>3
    <3>5. LockInv(k, rcvd) /\ DataInv(k, rcvd, adv)
      BY <2>5, <3>2, <3>3, <3>4
    <3> HIDE DEF k
    <3>6. QED
      BY <1>4, <2>1, <3>5 DEF DataInv
  <2>6. QED
    BY <2>4, <2>5
<1>8. ASSUME NEW r \in Readers, Spurious(r) PROVE ReadInv'
  <2> DEFINE q == [rd[r] EXCEPT !.awake = TRUE]
             f == [rd EXCEPT ![r] = q]
             k == [K EXCEPT !.rd = f]
  <2>1. q \in Reader /\ SameRead(q, rd[r]) /\ q.pc = rd[r].pc /\ q.awake
    BY <1>2 DEF Reader, SameRead
  <2>2. rd' = f /\ sb' = sb /\ so' = so /\ rcvd' = rcvd /\ rd[r].pc # "user"
    BY <1>2, <1>8 DEF Spurious
  <2> HIDE DEF q
  <2>3. f \in [Readers -> Reader] /\ f[r] = q /\ \A p \in Readers \ {r} : f[p] = rd[p]
    BY <1>2, <2>1
  <2> HIDE DEF f
  <2>4. k \in KernelState /\ k.rd = f /\ k.sb = sb /\ k.so = so
    BY <1>1, <2>3, WithReaders
  <2> HIDE DEF k
  <2>5. Becomes(k)
    BY <2>2, <2>4 DEF Becomes
  <2>6. Rests(k, r, rcvd)
    <3>1. Reads(rd[r], rcvd - sb.cc)
      BY <1>1, <1>5, Zenon DEF Rests
    <3>2. Reads(q, rcvd - sb.cc)
      BY <2>1, <2>2, <3>1, StillReads, Zenon
    <3>3. QED
      BY <2>1, <2>3, <2>4, <3>2, Zenon DEF Rests, Asleep
  <2>7. ASSUME NEW p \in Readers \ {r} PROVE Rests(k, p, rcvd)
    <3>1. Rests(K, p, rcvd)
      BY <1>5, <2>7, Zenon DEF Others
    <3>2. QED
      BY <1>1, <2>3, <2>4, <2>7, <3>1, Zenon DEF Rests, Asleep, MustWait
  <2>8. \A p \in Readers : Rests(k, p, rcvd) /\ k.rd[p].pc = K.rd[p].pc
    BY <1>1, <2>1, <2>3, <2>4, <2>6, <2>7
  <2>9. LockInv(k, rcvd)
    BY <1>1, <2>4, <2>8, Zenon DEF LockInv
  <2>10. QED
    BY <1>4, <2>2, <2>4, <2>5, <2>9
<1>9. ASSUME NEW r \in Readers, Timeout(r) PROVE ReadInv'
  <2> DEFINE u == [K EXCEPT !.rd[r].pc = "user", !.rd[r].awake = FALSE]
             k == IF rd[r].pc = "all" THEN Return(K, r) ELSE u
  <2>1. Becomes(k) /\ rcvd' = rcvd
    BY <1>9 DEF Timeout, K
  <2>2. Reads(rd[r], rcvd - sb.cc) /\ Others(K, r, rcvd)
    BY <1>1, <1>5, Zenon DEF Rests
  <2>3. CASE rd[r].pc = "all"
    <3>1. LockInv(Return(K, r), rcvd) /\ DataInv(Return(K, r), rcvd, adv)
      BY <1>1, <1>5, <2>2, <2>3, LockReturn, DataMoves, Zenon DEF Reads
    <3>2. k = Return(K, r)
      BY <2>3
    <3> HIDE DEF k
    <3>3. QED
      BY <1>4, <2>1, <3>1, <3>2 DEF DataInv
  <2>4. CASE rd[r].pc # "all"
    <3>1. "user" \in {"user", "lock", "wait", "all"}
      OBVIOUS
    <3>2. Stopped(K, u, r, "user") /\ u.sb = K.sb
      BY <1>1, <3>1, StopEffect
    <3>3. k = u
      BY <2>4
    <3> HIDE DEF u, k
    <3>4. /\ u \in KernelState /\ u.rd[r].pc = "user" /\ ~u.rd[r].awake
          /\ u.rd[r].call = rd[r].call /\ u.rd[r].got = rd[r].got
          /\ \A p \in Readers \ {r} : u.rd[p] = rd[p]
      BY <1>1, <3>2, Zenon DEF Stopped, SameRead
    <3>5. Others(u, r, rcvd)
      <4>1. SameData(u.sb, K.sb)
        BY <3>2 DEF SameData
      <4>2. QED
        BY <2>2, <3>2, <4>1, StopOthers, Zenon
    <3>6. Rests(u, r, rcvd)
      <4>1. "user" \notin {"lock", "wait"} /\ "user" # "all" /\ "user" # "lock" /\ "user" # "wait"
        OBVIOUS
      <4>2. QED
        BY <2>2, <3>4, <4>1, Zenon DEF Rests, Asleep, Reads
    <3>7. \A p \in Readers : Rests(u, p, rcvd) /\ (u.rd[p].pc = "all" <=> rd[p].pc = "all")
      BY <2>4, <3>4, <3>5, <3>6 DEF Others
    <3>8. LockInv(u, rcvd)
      BY <1>1, <3>2, <3>7, Zenon DEF LockInv
    <3>9. QED
      BY <1>4, <2>1, <3>3, <3>4, <3>8
  <2>5. QED
    BY <2>3, <2>4
<1>10. ASSUME Arrival PROVE ReadInv'
  <2>1. PICK n \in Segments, ext \in Clusters : Segment(n, ext)
    BY <1>10 DEF Arrival
  <2> DEFINE m == [data |-> [i \in 1 .. n |-> rcvd + i], ext |-> ext, off |-> 0]
             u == [K EXCEPT !.sb = sbcompress(@, m)]
  <2>2. n \in Nat \ {0} /\ ext \in BOOLEAN
    BY SockbufAssumption
  <2>3. /\ ~so.cantrcv /\ n <= adv /\ rcvd + n <= MaxBytes
        /\ rcvd' = rcvd + n /\ adv' = adv - n /\ Becomes(sowakeup(u))
    BY <2>1 DEF Segment, K
  <2>4. /\ DataInv(u, rcvd + n, adv - n) /\ SameRest(u.sb, K.sb) /\ u.sb.cc = K.sb.cc + n
        /\ u.rd = K.rd
    <3>1. DataInv(u, rcvd + n, adv - n)
      BY <1>1, <2>2, <2>3, DataSegment
    <3>2. u.sb = sbcompress(K.sb, m) /\ u.rd = K.rd
      BY <1>1 DEF KernelState
    <3> HIDE DEF u
    <3>3. m \in Mbuf /\ m.data # <<>> /\ Len(m.data) = n
      BY <1>1, <2>2, <2>3, SockbufAssumption DEF Mbuf
    <3> HIDE DEF m
    <3>4. SameRest(sbcompress(K.sb, m), K.sb) /\ sbcompress(K.sb, m).cc = K.sb.cc + n
      BY <1>1, <1>2, <3>3, Appended DEF DataInv
    <3>5. QED
      BY <3>1, <3>2, <3>4, Zenon
  <2> HIDE DEF u
  <2>5. u \in KernelState /\ K.sb.cc \in Nat
    BY <1>1, <1>2, <2>4, Fields DEF DataInv
  <2>6. (u.sb.lock <=> K.sb.lock) /\ (u.sb.want <=> K.sb.want) /\ (u.sb.wait <=> K.sb.wait)
    BY <2>4, Zenon DEF SameRest
  <2>7. rcvd - K.sb.cc = (rcvd + n) - u.sb.cc
    BY <1>1, <2>2, <2>4, <2>5
  <2> DEFINE v == sowakeup(u)
             d == rcvd + n
  <2>8. v \in KernelState
    BY <2>5, WakeupEffect DEF WokenUp
  <2>9. ASSUME NEW q \in Readers
        PROVE  Rests(v, q, d) /\ v.rd[q].pc = K.rd[q].pc /\ (v.sb.lock <=> K.sb.lock)
    BY <1>5, <2>4, <2>5, <2>6, <2>7, WakeKeeps
  <2>10. v.sb.lock <=> K.sb.lock
    BY <2>5, <2>6, WakeupEffect, Zenon DEF WokenUp
  <2> HIDE DEF v, d
  <2>11. LockInv(v, d)
    BY <1>1, <2>9, <2>10, Zenon DEF LockInv
  <2>12. QED
    BY <1>4, <2>3, <2>8, <2>11 DEF v, d
<1>11. ASSUME WindowUpdate PROVE ReadInv'
  <2>1. Kernel' = K /\ rcvd' = rcvd
    BY <1>11 DEF WindowUpdate, Kernel, K
  <2>2. QED
    BY <1>1, <1>3, <2>1 DEF ReadInv
<1>12. ASSUME NEW err \in BOOLEAN, EndOfStream(err) PROVE ReadInv'
  <2> DEFINE u == [K EXCEPT !.so.error = err]
             v == socantrcvmore(u)
  <2>1. Becomes(v) /\ rcvd' = rcvd
    BY <1>12 DEF EndOfStream, K
  <2>2. u \in KernelState /\ u.rd = K.rd /\ u.sb = K.sb /\ (u.so.cantrcv <=> K.so.cantrcv)
    BY <1>1, EndEffects, Zenon
  <2> HIDE DEF u
  <2>3. ASSUME NEW q \in Readers
        PROVE  Rests(v, q, rcvd) /\ v.rd[q].pc = K.rd[q].pc
    <3>1. Asleep(K, q) /\ Reads(K.rd[q], rcvd - K.sb.cc)
      BY <1>5, <2>3, Zenon DEF Rests
    <3>2. Rests(u, q, rcvd)
      BY <2>2, <3>1, Zenon DEF Rests, Asleep, MustWait
    <3>3. QED
      BY <2>2, <2>3, <3>2, EndKeeps, Zenon
  <2>4. v \in KernelState /\ (v.sb.lock <=> K.sb.lock)
    <3> DEFINE w == [u EXCEPT !.so.cantrcv = TRUE]
    <3>1. w \in KernelState /\ w.sb = u.sb
      BY <2>2, EndEffects
    <3>2. v = sowakeup(w)
      BY Zenon DEF socantrcvmore
    <3> HIDE DEF w, v
    <3>3. QED
      BY <2>2, <3>1, <3>2, WakeupEffect, Zenon DEF WokenUp
  <2> HIDE DEF v
  <2>5. LockInv(v, rcvd)
    BY <1>1, <2>3, <2>4, Zenon DEF LockInv
  <2>6. QED
    BY <1>4, <2>1, <2>4, <2>5
<1>13. CASE UNCHANGED vars
  <2>1. Kernel' = K /\ rcvd' = rcvd
    BY <1>13 DEF vars, Kernel, K
  <2>2. QED
    BY <1>1, <1>3, <2>1 DEF ReadInv
<1>14. QED
  BY <1>6, <1>7, <1>8, <1>9, <1>10, <1>11, <1>12, <1>13 DEF Next

(* uipc_socket.c:738: while no call has MSG_DONTWAIT, a MSG_WAITALL read   *)
(* that sleeps is the only one to hold SB_LOCK, and returns bytes that     *)
(* follow each other in the stream.                                        *)
THEOREM WaitallIsExclusive ==
  ASSUME "dontwait" \notin Calls
  PROVE  Spec => []WaitallExclusive
<1>1. ReadInv => WaitallExclusive
  BY KernelParts, Zenon DEF ReadInv, LockInv, Rests, Reads, Consecutive, WaitallExclusive
<1>2. ReadInv /\ [Next]_vars => ReadInv'
  BY LockNext
<1>3. QED
  BY <1>1, <1>2, LockInit, PTL DEF Spec

(* sblock(), sbwait() and sowakeup() with the marks SB_WANT and SB_WAIT:   *)
(* while no call has MSG_DONTWAIT, no reader sleeps for a lock that is     *)
(* free, nor for data or an end that has come.                             *)
THEOREM ReadersAreWoken ==
  ASSUME "dontwait" \notin Calls
  PROVE  Spec => []NoLostWakeup
<1>1. ReadInv => NoLostWakeup
  <2> DEFINE K == Kernel
  <2>1. K.sb = sb /\ K.rd = rd /\ K.so = so
    BY KernelParts
  <2> HIDE DEF K
  <2>2. LockInv(K, rcvd) => \A r \in Readers : Asleep(K, r)
    BY Zenon DEF LockInv, Rests
  <2>3. (\A r \in Readers : Asleep(K, r)) => NoLostWakeup
    BY <2>1, Zenon DEF Asleep, NoLostWakeup, K
  <2>4. QED
    BY <2>2, <2>3 DEF ReadInv, K
<1>2. ReadInv /\ [Next]_vars => ReadInv'
  BY LockNext
<1>3. QED
  BY <1>1, <1>2, LockInit, PTL DEF Spec
=============================================================================
