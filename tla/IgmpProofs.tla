----------------------------- MODULE IgmpProofs -----------------------------
(* Proofs about Igmp for any finite set of sockets and any interfaces,     *)
(* groups, limit of memberships and delay.                                 *)
EXTENDS Igmp, FiniteSetTheorems, TLAPS

(* The members of a group are a finite set, so they can be counted. *)
LEMMA OfFinite ==
  ASSUME NEW p
  PROVE  IsFiniteSet(Of(p)) /\ Cardinality(Of(p)) \in Nat
<1>1. IsFiniteSet(Of(p))
  BY IgmpAssumption, FS_Subset DEF Of
<1>2. QED
  BY <1>1, FS_CardinalityType

(* A socket that joins (in_addmulti()) counts once more. *)
LEMMA OfAdded ==
  ASSUME GroupTypeOK, NEW m \in Members, NEW p \in Inms, NEW q \in Inms,
         p \notin memb[m], memb' = [memb EXCEPT ![m] = @ \cup {p}]
  PROVE  Cardinality(Of(q))' = IF q = p THEN Cardinality(Of(q)) + 1 ELSE Cardinality(Of(q))
<1>1. CASE q = p
  <2>1. Of(q)' = Of(q) \cup {m} /\ m \notin Of(q)
    BY <1>1 DEF Of, GroupTypeOK
  <2>2. QED
    BY <1>1, <2>1, OfFinite, FS_AddElement
<1>2. CASE q # p
  <2>1. Of(q)' = Of(q)
    BY <1>2 DEF Of, GroupTypeOK
  <2>2. QED
    BY <1>2, <2>1
<1>3. QED
  BY <1>1, <1>2

(* A socket that leaves some of its groups (in_delmulti()) counts once     *)
(* less in each of them, and nowhere else.                                 *)
LEMMA OfRemoved ==
  ASSUME GroupTypeOK, NEW m \in Members, NEW P \in SUBSET memb[m], NEW q \in Inms,
         memb' = [memb EXCEPT ![m] = @ \ P]
  PROVE  /\ q \in P => /\ Cardinality(Of(q)) > 0
                       /\ Cardinality(Of(q))' = Cardinality(Of(q)) - 1
         /\ q \notin P => Cardinality(Of(q))' = Cardinality(Of(q))
<1>1. CASE q \in P
  <2>1. Of(q)' = Of(q) \ {m} /\ m \in Of(q)
    BY <1>1 DEF Of, GroupTypeOK
  <2>2. IsFiniteSet(Of(q)') /\ Cardinality(Of(q)') = Cardinality(Of(q)) - 1
    BY <2>1, OfFinite, FS_RemoveElement
  <2>3. Cardinality(Of(q)') \in Nat
    BY <2>2, FS_CardinalityType
  <2>4. QED
    BY <1>1, <2>2, <2>3, OfFinite
<1>2. CASE q \notin P
  <2>1. Of(q)' = Of(q)
    BY <1>2 DEF Of, GroupTypeOK
  <2>2. QED
    BY <1>2, <2>1
<1>3. QED
  BY <1>1, <1>2

(* What in_delmulti() does keeps the invariant, for one membership         *)
(* (IP_DROP_MEMBERSHIP) and for all of a socket (ip_freemoptions()).       *)
LEMMA Removal ==
  ASSUME GroupInv, NEW m \in Members, NEW P \in SUBSET memb[m],
         memb' = [memb EXCEPT ![m] = @ \ P], in_delmulti(P)
  PROVE  GroupInv'
<1> USE DEF GroupInv
<1>1. P \subseteq Inms
  BY DEF GroupTypeOK
<1>0. \A q : Joined(q) \in 0 .. 1
  BY DEF Joined
<1>2. \A q \in P : inm_refcount[q] \in Nat \ {0}
  <2> SUFFICES ASSUME NEW q \in P
               PROVE  inm_refcount[q] \in Nat \ {0}
    OBVIOUS
  <2>1. Cardinality(Of(q)) > 0 /\ Cardinality(Of(q)) \in Nat
    BY <1>1, OfRemoved, OfFinite
  <2>2. inm_refcount[q] = Cardinality(Of(q)) + Joined(q)
    BY <1>1 DEF GroupsReported
  <2>3. QED
    BY <1>0, <2>1, <2>2
<1>3. inm_refcount' \in [Inms -> Nat]
  BY <1>2 DEF in_delmulti, GroupTypeOK
<1>4. GroupTypeOK'
  <2>1. memb' \in [Members -> SUBSET Inms]
    BY DEF GroupTypeOK
  <2>2. inm_timer' \in [Inms -> 0 .. MaxDelay] /\ age' \in [Inms -> Int]
        /\ igmp_timers_are_running' \in BOOLEAN
    BY IgmpAssumption DEF in_delmulti, GroupTypeOK
  <2>3. QED
    BY <1>3, <2>1, <2>2 DEF GroupTypeOK
<1>5. ASSUME NEW q \in Inms
      PROVE  inm_refcount'[q] = Cardinality(Of(q))' + Joined(q)
  <2>1. /\ inm_refcount[q] = Cardinality(Of(q)) + Joined(q)
        /\ inm_refcount'[q] = IF q \in P THEN inm_refcount[q] - 1 ELSE inm_refcount[q]
    BY DEF GroupsReported, in_delmulti
  <2>2. /\ q \in P => Cardinality(Of(q))' = Cardinality(Of(q)) - 1
        /\ q \notin P => Cardinality(Of(q))' = Cardinality(Of(q))
    BY OfRemoved
  <2>3. Cardinality(Of(q)) \in Nat
    BY OfFinite
  <2>4. QED
    BY <1>0, <2>1, <2>2, <2>3
<1>6. ASSUME NEW q \in Inms, age'[q] # -1
      PROVE  /\ inm_refcount'[q] > 0 /\ igmp_timers_are_running'
             /\ 0 <= age'[q] /\ age'[q] + inm_timer'[q] <= MaxDelay
  BY <1>2, <1>6 DEF GroupsReported, GroupTypeOK, in_delmulti
<1>7. \A q \in Inms : inm_timer'[q] = 0 <=> age'[q] = -1
  BY DEF in_delmulti
<1>8. QED
  BY <1>4, <1>5, <1>6, <1>7 DEF GroupsReported, Joined
(* A join keeps the invariant: a new record gets a timer, and one that is  *)
(* there keeps its own (igmp_joingroup()).                                 *)
LEMMA Addition ==
  ASSUME GroupInv, NEW m \in Members, NEW p \in Inms, AddMembership(m, p)
  PROVE  GroupInv'
<1> USE DEF GroupInv
<1>0. \A q : Joined(q) \in 0 .. 1
  BY DEF Joined
<1>1. GroupTypeOK'
  <2>1. memb' \in [Members -> SUBSET Inms]
    BY DEF GroupTypeOK, AddMembership
  <2>2. inm_refcount' \in [Inms -> Nat]
    BY DEF GroupTypeOK, AddMembership, in_addmulti
  <2>3. /\ inm_timer' \in [Inms -> 0 .. MaxDelay] /\ age' \in [Inms -> Int]
        /\ igmp_timers_are_running' \in BOOLEAN
    <3>1. CASE inm_refcount[p] = 0 /\ ~Quiet(p)
      BY <3>1, IgmpAssumption DEF GroupTypeOK, AddMembership, in_addmulti
    <3>2. CASE ~(inm_refcount[p] = 0 /\ ~Quiet(p))
      BY <3>2 DEF GroupTypeOK, AddMembership, in_addmulti
    <3>3. QED
      BY <3>1, <3>2
  <2>4. QED
    BY <2>1, <2>2, <2>3 DEF GroupTypeOK
<1>2. ASSUME NEW q \in Inms
      PROVE  inm_refcount'[q] = Cardinality(Of(q))' + Joined(q)
  <2>1. /\ inm_refcount[q] = Cardinality(Of(q)) + Joined(q)
        /\ inm_refcount'[q] = IF q = p THEN inm_refcount[q] + 1 ELSE inm_refcount[q]
    BY DEF GroupsReported, AddMembership, in_addmulti, GroupTypeOK
  <2>2. Cardinality(Of(q))' = IF q = p THEN Cardinality(Of(q)) + 1 ELSE Cardinality(Of(q))
    BY OfAdded DEF AddMembership
  <2>3. Cardinality(Of(q)) \in Nat
    BY OfFinite
  <2>4. QED
    BY <1>0, <2>1, <2>2, <2>3
<1>3. ASSUME NEW q \in Inms, age'[q] # -1
      PROVE  /\ inm_refcount'[q] > 0 /\ igmp_timers_are_running'
             /\ 0 <= age'[q] /\ age'[q] + inm_timer'[q] <= MaxDelay
  BY IgmpAssumption, <1>3 DEF GroupsReported, GroupTypeOK, AddMembership, in_addmulti
<1>4. \A q \in Inms : inm_timer'[q] = 0 <=> age'[q] = -1
  BY DEF GroupTypeOK, AddMembership, in_addmulti
<1>5. QED
  BY <1>1, <1>2, <1>3, <1>4 DEF GroupsReported, Joined

(* A query gives a timer to every group that has none (igmp_input()). *)
LEMMA Questioned ==
  ASSUME GroupInv, NEW i \in Ifs, Query(i)
  PROVE  GroupInv'
<1> USE DEF GroupInv
<1> DEFINE new == {p \in Asked(i) : inm_timer[p] = 0}
<1>1. PICK d \in [new -> 1 .. MaxDelay] :
        inm_timer' = [p \in Inms |-> IF p \in new THEN d[p] ELSE inm_timer[p]]
  BY DEF Query
<1>2. /\ igmp_timers_are_running' = (igmp_timers_are_running \/ new # {})
      /\ age' = [p \in Inms |-> IF p \in Asked(i) /\ age[p] = -1 THEN 0 ELSE age[p]]
      /\ UNCHANGED <<memb, inm_refcount>>
  BY DEF Query
<1>3. \A p \in Inms : p \in new <=> p \in Asked(i) /\ age[p] = -1
  OBVIOUS
<1>4. GroupTypeOK'
  BY IgmpAssumption, <1>1, <1>2 DEF GroupTypeOK
<1>5. ASSUME NEW q \in Inms, age'[q] # -1
      PROVE  /\ inm_refcount'[q] > 0 /\ igmp_timers_are_running'
             /\ 0 <= age'[q] /\ age'[q] + inm_timer'[q] <= MaxDelay
  <2>1. CASE q \in new
    <3>1. q \in Asked(i) /\ age[q] = -1 /\ new # {}
      BY <1>3, <2>1
    <3>2. inm_refcount'[q] > 0 /\ igmp_timers_are_running' /\ age'[q] = 0
      BY <1>2, <3>1 DEF Asked
    <3>3. inm_timer'[q] \in 1 .. MaxDelay
      BY <1>1, <2>1
    <3>4. QED
      BY <3>2, <3>3, IgmpAssumption
  <2>2. CASE q \notin new
    BY <1>1, <1>2, <1>3, <1>5, <2>2 DEF GroupsReported
  <2>3. QED
    BY <2>1, <2>2
<1>6. \A q \in Inms : inm_timer'[q] = 0 <=> age'[q] = -1
  BY IgmpAssumption, <1>1, <1>2, <1>3 DEF GroupTypeOK
<1>7. QED
  BY <1>2, <1>4, <1>5, <1>6 DEF GroupsReported, Joined, Of

(* A fast timeout brings every report that is due nearer by as much as it  *)
(* gets older, and the quick check stays on while one is due.              *)
LEMMA FastTimeout ==
  ASSUME GroupInv, igmp_fasttimo
  PROVE  GroupInv'
<1> USE DEF GroupInv
<1>1. \A q \in Inms : inm_timer[q] \in 0 .. MaxDelay /\ age[q] \in Int
  BY DEF GroupTypeOK
<1>2. \A q \in Inms : inm_timer[q] > 0 => igmp_timers_are_running
  BY <1>1, IgmpAssumption DEF GroupsReported
<1>3. GroupTypeOK'
  BY IgmpAssumption, <1>1 DEF GroupTypeOK, igmp_fasttimo
<1>4. ASSUME NEW q \in Inms, age'[q] # -1
      PROVE  /\ inm_refcount'[q] > 0 /\ igmp_timers_are_running'
             /\ 0 <= age'[q] /\ age'[q] + inm_timer'[q] <= MaxDelay
  BY IgmpAssumption, <1>1, <1>2, <1>4 DEF GroupsReported, GroupTypeOK, igmp_fasttimo
<1>5. \A q \in Inms : inm_timer'[q] = 0 <=> age'[q] = -1
  BY IgmpAssumption, <1>1, <1>2 DEF GroupsReported, igmp_fasttimo
<1>6. QED
  BY <1>3, <1>4, <1>5 DEF GroupsReported, Joined, Of, igmp_fasttimo

(* GroupInv holds in every reachable state: one step per operation on      *)
(* memberships, per message and for the fast timeout.                      *)
THEOREM GroupInductive == GroupSpec => []GroupInv
<1>1. GroupInit => GroupInv
  <2> SUFFICES ASSUME GroupInit PROVE GroupInv
    OBVIOUS
  <2>0. \A p : Joined(p) \in 0 .. 1
    BY DEF Joined
  <2>1. \A p \in Inms : Of(p) = {}
    BY DEF GroupInit, Of
  <2>2. Cardinality({}) = 0
    BY FS_EmptySet
  <2>3. GroupTypeOK
    <3>1. memb \in [Members -> SUBSET Inms] /\ igmp_timers_are_running \in BOOLEAN
      BY DEF GroupInit
    <3>2. inm_refcount \in [Inms -> Nat]
      BY <2>0 DEF GroupInit
    <3>3. inm_timer \in [Inms -> 0 .. MaxDelay] /\ age \in [Inms -> Int]
      BY IgmpAssumption DEF GroupInit
    <3>4. QED
      BY <3>1, <3>2, <3>3 DEF GroupTypeOK
  <2>4. GroupsReported
    BY <2>0, <2>1, <2>2 DEF GroupInit, GroupsReported
  <2>5. QED
    BY <2>3, <2>4 DEF GroupInit, GroupInv
<1>2. GroupInv /\ [GroupNext]_groupvars => GroupInv'
  <2> SUFFICES ASSUME GroupInv, [GroupNext]_groupvars PROVE GroupInv'
    OBVIOUS
  <2>1. ASSUME NEW m \in Members, NEW p \in Inms, AddMembership(m, p) PROVE GroupInv'
    BY <2>1, Addition
  <2>2. ASSUME NEW m \in Members, NEW p \in Inms, DropMembership(m, p) PROVE GroupInv'
    BY <2>2, Removal DEF DropMembership
  <2>3. ASSUME NEW m \in Members, ip_freemoptions(m) PROVE GroupInv'
    <3>1. memb' = [memb EXCEPT ![m] = @ \ memb[m]]
      BY <2>3 DEF ip_freemoptions
    <3>2. QED
      BY <2>3, <3>1, Removal DEF ip_freemoptions
  <2>4. ASSUME NEW i \in Ifs, Query(i) PROVE GroupInv'
    BY <2>4, Questioned
  <2>5. ASSUME NEW p \in Inms, Report(p) PROVE GroupInv'
    BY <2>5, IgmpAssumption
       DEF Report, GroupInv, GroupTypeOK, GroupsReported, Joined, Of
  <2>6. CASE igmp_fasttimo
    BY <2>6, FastTimeout
  <2>7. CASE UNCHANGED groupvars
    BY <2>7 DEF groupvars, GroupInv, GroupTypeOK, GroupsReported, Joined, Of
  <2>8. QED
    BY <2>1, <2>2, <2>3, <2>4, <2>5, <2>6, <2>7 DEF GroupNext
<1>3. QED
  BY <1>1, <1>2, PTL DEF GroupSpec

(* The record of a group lives as long as it has members, and a report     *)
(* that a join or a query asks for is sent or heard within MaxDelay fast   *)
(* timeouts, however many sockets, groups and interfaces there are.        *)
THEOREM ReportsInTime == GroupSpec => []GroupsReported
<1>1. GroupInv => GroupsReported
  BY DEF GroupInv
<1>2. QED
  BY <1>1, GroupInductive, PTL
=============================================================================
