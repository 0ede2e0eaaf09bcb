-------------------------------- MODULE Igmp --------------------------------
(* Multicast groups: the memberships of sockets (IP_ADD_MEMBERSHIP and     *)
(* IP_DROP_MEMBERSHIP, ip_output.c), the in_multi record that all members  *)
(* of a group on an interface share (in.c), and the reports of the group   *)
(* that igmp.c sends when its timer runs out.  The order of a socket's     *)
(* memberships is left out; a join that fails for want of memory changes   *)
(* nothing, and a report that does is lost like one on the line.           *)
EXTENDS Integers, FiniteSets
CONSTANTS
  Members,                  \* the sockets
  Ifs, LOIF,                \* interfaces for multicast; the loopback is one
  Groups, ALLHOSTS,         \* groups, the one of all hosts too
  IP_MAX_MEMBERSHIPS,
  MaxDelay                  \* IGMP_MAX_HOST_REPORT_DELAY * PR_FASTHZ

ASSUME IgmpAssumption ==
  /\ IsFiniteSet(Members)
  /\ ALLHOSTS \in Groups
  /\ IP_MAX_MEMBERSHIPS \in Nat
  /\ MaxDelay \in Nat \ {0}

VARIABLES
  memb,      \* the memberships of every socket: interfaces and groups
  inm_refcount, inm_timer,   \* of the in_multi record, 0 if there is none
  igmp_timers_are_running,
  age        \* history: fast timeouts since a report of the group is due, or -1
groupvars == <<memb, inm_refcount, inm_timer, igmp_timers_are_running, age>>

Inms == Ifs \X Groups
Quiet(p) == p[1] = LOIF \/ p[2] = ALLHOSTS

(* in_ifinit() joins the group of all hosts. *)
Joined(p) == IF p[2] = ALLHOSTS THEN 1 ELSE 0

GroupInit ==
  /\ memb = [m \in Members |-> {}]
  /\ inm_refcount = [p \in Inms |-> Joined(p)]
  /\ inm_timer = [p \in Inms |-> 0]
  /\ igmp_timers_are_running = FALSE
  /\ age = [p \in Inms |-> -1]

(* igmp_joingroup() of a new record: a report now, one more in a while. *)
in_addmulti(p) ==
  /\ inm_refcount' = [inm_refcount EXCEPT ![p] = @ + 1]
  /\ IF inm_refcount[p] = 0 /\ ~Quiet(p)
     THEN /\ \E d \in 1 .. MaxDelay : inm_timer' = [inm_timer EXCEPT ![p] = d]
          /\ igmp_timers_are_running' = TRUE
          /\ age' = [age EXCEPT ![p] = 0]
     ELSE UNCHANGED <<inm_timer, igmp_timers_are_running, age>>

AddMembership(m, p) ==
  /\ p \notin memb[m]
  /\ Cardinality(memb[m]) < IP_MAX_MEMBERSHIPS
  /\ memb' = [memb EXCEPT ![m] = @ \cup {p}]
  /\ in_addmulti(p)

(* The record goes with its last reference, for a set of memberships. *)
in_delmulti(P) ==
  LET gone == {p \in P : inm_refcount[p] = 1} IN
  /\ inm_refcount' = [p \in Inms |-> IF p \in P THEN inm_refcount[p] - 1 ELSE inm_refcount[p]]
  /\ inm_timer' = [p \in Inms |-> IF p \in gone THEN 0 ELSE inm_timer[p]]
  /\ age' = [p \in Inms |-> IF p \in gone THEN -1 ELSE age[p]]
  /\ UNCHANGED igmp_timers_are_running

DropMembership(m, p) ==
  /\ p \in memb[m]
  /\ memb' = [memb EXCEPT ![m] = @ \ {p}]
  /\ in_delmulti({p})

(* The socket is closed. *)
ip_freemoptions(m) ==
  /\ memb[m] # {}
  /\ memb' = [memb EXCEPT ![m] = {}]
  /\ in_delmulti(memb[m])

(* igmp_input(): a query starts the timers that do not run, a report by    *)
(* another host stops the group's.                                         *)
Asked(i) == {p \in Inms : p[1] = i /\ i # LOIF /\ inm_refcount[p] > 0 /\ ~Quiet(p)}
Query(i) ==
  LET new == {p \in Asked(i) : inm_timer[p] = 0} IN
  /\ \E d \in [new -> 1 .. MaxDelay] :
       inm_timer' = [p \in Inms |-> IF p \in new THEN d[p] ELSE inm_timer[p]]
  /\ igmp_timers_are_running' = (igmp_timers_are_running \/ new # {})
  /\ age' = [p \in Inms |-> IF p \in Asked(i) /\ age[p] = -1 THEN 0 ELSE age[p]]
  /\ UNCHANGED <<memb, inm_refcount>>
Report(p) ==
  /\ p[1] # LOIF
  /\ inm_timer' = [inm_timer EXCEPT ![p] = 0]
  /\ age' = [age EXCEPT ![p] = -1]
  /\ UNCHANGED <<memb, inm_refcount, igmp_timers_are_running>>

(* Mutant: the quick check is reset while other timers run. *)
igmp_fasttimo_Forgets ==
  /\ inm_timer' = [p \in Inms |-> IF igmp_timers_are_running /\ inm_timer[p] > 0
                                  THEN inm_timer[p] - 1 ELSE inm_timer[p]]
  /\ igmp_timers_are_running' = (igmp_timers_are_running /\ \A p \in Inms : inm_timer[p] # 1)
  /\ age' = [p \in Inms |-> IF age[p] = -1 \/ (igmp_timers_are_running /\ inm_timer[p] = 1)
                            THEN -1 ELSE age[p] + 1]
  /\ UNCHANGED <<memb, inm_refcount>>

(* The reports whose timers run out are sent. *)
igmp_fasttimo ==
  /\ inm_timer' = [p \in Inms |-> IF igmp_timers_are_running /\ inm_timer[p] > 0
                                  THEN inm_timer[p] - 1 ELSE inm_timer[p]]
  /\ igmp_timers_are_running' = (igmp_timers_are_running /\ \E p \in Inms : inm_timer[p] > 1)
  /\ age' = [p \in Inms |-> IF age[p] = -1 \/ (igmp_timers_are_running /\ inm_timer[p] = 1)
                            THEN -1 ELSE age[p] + 1]
  /\ UNCHANGED <<memb, inm_refcount>>

GroupNext ==
  \/ \E m \in Members, p \in Inms : AddMembership(m, p) \/ DropMembership(m, p)
  \/ \E m \in Members : ip_freemoptions(m)
  \/ \E i \in Ifs : Query(i)
  \/ \E p \in Inms : Report(p)
  \/ igmp_fasttimo

GroupSpec == GroupInit /\ [][GroupNext]_groupvars
-----------------------------------------------------------------------------
(* Types: inm_refcount never goes below zero. *)
GroupTypeOK ==
  /\ memb \in [Members -> SUBSET Inms]
  /\ inm_refcount \in [Inms -> Nat]
  /\ inm_timer \in [Inms -> 0 .. MaxDelay]
  /\ igmp_timers_are_running \in BOOLEAN
  /\ age \in [Inms -> Int]

(* The members of a group on an interface. *)
Of(p) == {m \in Members : p \in memb[m]}

(* A group is kept as long as it has a member, and its record as long as   *)
(* the group is kept; what a query or a join asks for is sent, or heard    *)
(* from another host, before MaxDelay fast timeouts have gone by, whatever *)
(* joins, leaves, queries and reports come between: the timer runs, and    *)
(* igmp_fasttimo() is not put off by its quick check.                      *)
GroupsReported ==
  \A p \in Inms :
    /\ inm_refcount[p] = Cardinality(Of(p)) + Joined(p)
    /\ age[p] # -1 => /\ inm_refcount[p] > 0
                      /\ igmp_timers_are_running
                      /\ 0 <= age[p] /\ age[p] + inm_timer[p] <= MaxDelay

(* The inductive invariant: a timer runs exactly while a report is due. *)
GroupInv ==
  /\ GroupTypeOK
  /\ GroupsReported
  /\ \A p \in Inms : inm_timer[p] = 0 <=> age[p] = -1
=============================================================================
