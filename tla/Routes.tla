------------------------------- MODULE Routes -------------------------------
(* Routes and who holds them: rtalloc1(), rtfree(), rtrequest(),           *)
(* rt_setgate() and rtredirect() (route.c), the route that a control block *)
(* caches (ip_output.c, in_pcb.c), the route to its gateway that a route   *)
(* caches, and the ARP entry of a route to a neighbour (if_ether.c,        *)
(* if_ethersubr.c).  One Ethernet with one net route, a default route and  *)
(* routes to hosts; Radix is the table, here a lookup finds the best route.*)
EXTENDS Integers, FiniteSets, FiniteSetsExt
CONSTANTS
  Entries,      \* memory for rtentries, from 1; an allocation fails when it is used up
  Users,        \* struct routes that are kept: of control blocks, ipforward_rt
  OnNet, Far,   \* addresses, of neighbours and of others
  Pkts,         \* packets, from 1
  arp_maxtries
VARIABLE k      \* the kernel's state, a record

Hosts == OnNet \cup Far
NoArp == [on |-> FALSE, alen |-> FALSE, exp |-> "never", asked |-> 0,
          hold |-> 0, reject |-> FALSE]
Blank == [st |-> "free", dst |-> "none", gate |-> "link", dynamic |-> FALSE,
          refcnt |-> 0, gwroute |-> 0, arp |-> NoArp]

(* rt_expire against the clock: 0, before, equal or after. *)
Valid(a) == a.exp \in {"never", "later"}

Spare(s) == {e \in Entries : s.rt[e].st = "free"}
At(s, d) == {e \in Entries : s.rt[e].st = "up" /\ s.rt[e].dst = d}
Match(s, d) ==
  LET best == IF At(s, d) # {} THEN At(s, d)
              ELSE IF d \in OnNet /\ At(s, "net") # {} THEN At(s, "net") ELSE At(s, "default")
  IN  IF best = {} THEN 0 ELSE Min(best)

(* A deleted route goes with its last reference.  Freeing what is free     *)
(* already is undefined: nothing is modelled after it.                     *)
rtfree(s, e) ==
  LET r == s.rt[e].refcnt - 1
  IN  CASE s.rt[e].st = "free" -> [s EXCEPT !.corrupt = TRUE]
        [] s.rt[e].st = "up" \/ (s.rt[e].st = "dead" /\ r > 0) -> [s EXCEPT !.rt[e].refcnt = r]
        [] s.rt[e].st = "dead" /\ r < 0 -> [s EXCEPT !.rt[e].refcnt = r, !.rttrash = @ - 1]
        [] OTHER -> [s EXCEPT !.rt[e] = Blank, !.rttrash = @ - 1]

(* The route to an address, referenced once more, 0 if none; the net route *)
(* is cloned (RTM_RESOLVE) for who reports a miss, and itself returned if  *)
(* that fails.                                                             *)
rtalloc1(s, d, report) ==
  LET e == Match(s, d)
      n == Min(Spare(s))
      clone == [Blank EXCEPT !.st = "up", !.dst = d, !.refcnt = 1,
                             !.arp = [NoArp EXCEPT !.on = TRUE, !.exp = s.rt[e].arp.exp]]
  IN  CASE e = 0 -> <<s, 0>>
        [] e # 0 /\ report /\ s.rt[e].dst = "net" /\ Spare(s) # {} ->
             <<[s EXCEPT !.rt[n] = clone], n>>
        [] OTHER -> <<[s EXCEPT !.rt[e].refcnt = @ + 1], e>>

(* A new gateway, and the route to it. *)
rt_setgate_Keeps(s, e, g) ==
  LET out == rtalloc1([s EXCEPT !.rt[e].gate = g], g, TRUE)
  IN  [out[1] EXCEPT !.rt[e].gwroute = out[2]]

rt_setgate(s, e, g) ==
  LET old == s.rt[e].gwroute
      s1 == IF old = 0 THEN s ELSE [rtfree(s, old) EXCEPT !.rt[e].gwroute = 0]
      out == rtalloc1([s1 EXCEPT !.rt[e].gate = g], g, TRUE)
  IN  [out[1] EXCEPT !.rt[e].gwroute = out[2]]

(* RTM_ADD.  The gateway is set before it is known that there is no such   *)
(* route yet.  arp_rtrequest() makes a net route expire, and a permanent   *)
(* ARP entry of a route to a host with a link level address.               *)
Linked(d, g) ==
  CASE g # "link" -> NoArp
    [] g = "link" /\ d = "net" -> [NoArp EXCEPT !.exp = "now"]
    [] OTHER -> [NoArp EXCEPT !.on = TRUE, !.alen = TRUE]
rtrequest_ADD(s, d, g, dynamic) ==
  LET n == Min(Spare(s))
      new == [Blank EXCEPT !.st = "new", !.dst = d, !.dynamic = dynamic, !.arp = Linked(d, g)]
      s1 == [s EXCEPT !.rt[n] = new]
      s2 == IF g = "link" THEN s1 ELSE rt_setgate(s1, n, g)
      gw == s2.rt[n].gwroute
      s3 == IF gw = 0 THEN s2 ELSE rtfree(s2, gw)
  IN  IF Spare(s) = {} THEN s
      ELSE IF At(s2, d) # {} THEN [s3 EXCEPT !.rt[n] = Blank]
      ELSE [s2 EXCEPT !.rt[n].st = "up"]

(* RTM_DELETE.  A route that is its own gateway's, and is held by nothing  *)
(* else, is freed before the end.                                          *)
rtrequest_DELETE(s, d) ==
  LET e == Min(At(s, d))
      gw == s.rt[e].gwroute
      s1 == [s EXCEPT !.rt[e].st = "dead", !.own = @ \/ (gw = e /\ s.rt[e].refcnt = 1)]
      s2 == IF gw = 0 THEN s1 ELSE [rtfree(s1, gw) EXCEPT !.rt[e].gwroute = 0]
      s3 == [s2 EXCEPT !.rt[e].arp = NoArp, !.held = @ \ {s.rt[e].arp.hold}, !.rttrash = @ + 1]
  IN  IF At(s, d) = {} THEN s
      ELSE IF s3.rt[e].refcnt <= 0 THEN rtfree([s3 EXCEPT !.rt[e].refcnt = @ + 1], e) ELSE s3

(* The packet is sent, or replaces the one that waits for an answer. *)
arpresolve(s, e, p) ==
  LET a == s.rt[e].arp
      ask == a.exp # "never" /\ (a.asked = 0 \/ a.exp # "now")
      b == [a EXCEPT !.hold = p, !.reject = @ /\ a.exp = "never"]
      c == IF a.asked < arp_maxtries THEN [b EXCEPT !.asked = @ + 1, !.exp = "now"]
           ELSE [b EXCEPT !.asked = 0, !.exp = "later", !.reject = TRUE]
  IN  IF Valid(a) /\ a.alen THEN s
      ELSE [s EXCEPT !.rt[e].arp = IF ask THEN c ELSE b, !.held = (@ \ {a.hold}) \cup {p}]

(* By the route or by the route to its gateway, which is looked up again   *)
(* when it is down.  (The caller's own route is up.)                       *)
ether_output(s, e, p) ==
  LET g == s.rt[e].gwroute
      s1 == IF g = 0 THEN s ELSE rtfree(s, g)
      new == rtalloc1(s1, s.rt[e].gate, TRUE)
      out == CASE s.rt[e].gate = "link" -> <<s, e>>
               [] s.rt[e].gate # "link" /\ g # 0 /\ s.rt[g].st = "up" -> <<s, g>>
               [] OTHER -> <<[new[1] EXCEPT !.rt[e].gwroute = new[2]], new[2]>>
      a == out[1].rt[out[2]].arp
  IN  IF out[2] = 0 \/ (a.reject /\ Valid(a)) \/ ~a.on THEN out[1]
      ELSE arpresolve(out[1], out[2], p)

(* The cached route, unless it is down or to elsewhere. *)
ip_output(s, u, d, p) ==
  LET r == s.ro[u].rt
      stale == r # 0 /\ (s.rt[r].st # "up" \/ s.ro[u].dst # d)
      s1 == IF stale THEN [rtfree(s, r) EXCEPT !.ro[u].rt = 0] ELSE s
      new == rtalloc1(s1, d, TRUE)
      s2 == IF s1.ro[u].rt # 0 THEN s1 ELSE [new[1] EXCEPT !.ro[u] = [dst |-> d, rt |-> new[2]]]
  IN  IF s2.ro[u].rt = 0 THEN s2 ELSE ether_output(s2, s2.ro[u].rt, p)

in_rtchange(s, u) ==
  IF s.ro[u].rt = 0 THEN s ELSE [rtfree(s, s.ro[u].rt) EXCEPT !.ro[u].rt = 0]

(* A route that a redirect made is deleted, and its reference forgotten. *)
in_losing(s, u) ==
  LET r == s.ro[u].rt
      s1 == [s EXCEPT !.ro[u].rt = 0]
  IN  IF s.rt[r].dynamic THEN rtrequest_DELETE([s1 EXCEPT !.leaked[r] = @ + 1], s.rt[r].dst)
      ELSE rtfree(s1, r)

(* A redirect to a host (icmp_input()), then pfctlinput() to who uses it. *)
rtredirect(s, d, g, src) ==
  LET out == rtalloc1(s, d, FALSE)
      e == out[2]
      t == out[1]
      done(x) == IF e = 0 THEN x ELSE rtfree(x, e)
  IN  CASE e # 0 /\ src # t.rt[e].gate -> done(t)
        [] e = 0 \/ (src = t.rt[e].gate /\ t.rt[e].dst = "default") ->
             done(rtrequest_ADD(t, d, g, TRUE))
        [] OTHER -> done(rt_setgate(t, e, g))
Notify(s, d) ==
  FoldSet(LAMBDA u, x : in_rtchange(x, u), s, {u \in Users : s.ro[u].dst = d})

(* RTM_CHANGE of a gateway, by a routing socket. *)
route_change(s, d, g) ==
  LET out == rtalloc1(s, d, FALSE)
  IN  rtfree(rt_setgate(out[1], out[2], g), out[2])

(* Who holds an entry that has timed out keeps it, without the address. *)
arptfree(s, e) ==
  IF s.rt[e].refcnt > 0
  THEN [s EXCEPT !.rt[e].arp = [@ EXCEPT !.alen = FALSE, !.asked = 0, !.reject = FALSE]]
  ELSE rtrequest_DELETE(s, s.rt[e].dst)
Expired(s) == {e \in Entries : s.rt[e].arp.on /\ ~Valid(s.rt[e].arp) /\ s.rt[e].arp.exp # "never"}

(* arplookup() of the sender, made if we are the target, and what          *)
(* in_arpinput() does with it.                                             *)
in_arpinput(s, d, create) ==
  LET out == rtalloc1(s, d, create)
      e == out[2]
      t == [out[1] EXCEPT !.rt[e].refcnt = @ - 1]
      a == t.rt[e].arp
  IN  IF e = 0 THEN s
      ELSE IF ~a.on THEN t
      ELSE [t EXCEPT !.held = @ \ {a.hold},
                     !.rt[e].arp = [a EXCEPT !.alen = TRUE, !.reject = FALSE, !.asked = 0,
                                             !.exp = IF @ = "never" THEN @ ELSE "later",
                                             !.hold = 0]]

Init ==
  k = [rt |-> [e \in Entries |-> Blank], ro |-> [u \in Users |-> [dst |-> "none", rt |-> 0]],
       held |-> {}, rttrash |-> 0, leaked |-> [e \in Entries |-> 0],
       own |-> FALSE, corrupt |-> FALSE]

Add(d, g) == k' = rtrequest_ADD(k, d, g, FALSE)
Delete(d) == At(k, d) # {} /\ k' = rtrequest_DELETE(k, d)
Change(d, g) ==
  /\ \E e \in At(k, d) : k.rt[e].gate # "link"
  /\ k' = route_change(k, d, g)
Output(u, d) == Pkts # k.held /\ k' = ip_output(k, u, d, Min(Pkts \ k.held))
Release(u) == k.ro[u].rt # 0 /\ k' = in_rtchange(k, u)
Losing(u) == k.ro[u].rt # 0 /\ k' = in_losing(k, u)
Redirect(d, g, src) == k' = Notify(rtredirect(k, d, g, src), d)
arptimer == Expired(k) # {} /\ k' = FoldSet(LAMBDA e, x : arptfree(x, e), k, Expired(k))
ArpInput(d, create) == k' = in_arpinput(k, d, create)

(* Time goes by for one route; all may follow. *)
Tick(e) ==
  /\ k.rt[e].arp.exp \in {"now", "later"}
  /\ \E x \in {"past"} \cup (IF k.rt[e].arp.exp = "later" THEN {"now"} ELSE {}) :
       k' = [k EXCEPT !.rt[e].arp.exp = x]

Next ==
  /\ ~k.corrupt
  /\ \/ Add("net", "link")
     \/ \E d \in Hosts \cup {"default"}, g \in OnNet : Add(d, g)
     \/ \E d \in OnNet : Add(d, "link")
     \/ \E d \in Hosts \cup {"net", "default"} : Delete(d)
     \/ \E d \in Hosts \cup {"default"}, g \in OnNet : Change(d, g)
     \/ \E u \in Users, d \in Hosts : Output(u, d)
     \/ \E u \in Users : Release(u) \/ Losing(u)
     \/ \E d \in Hosts, g, src \in OnNet : Redirect(d, g, src)
     \/ \E d \in OnNet, c \in BOOLEAN : ArpInput(d, c)
     \/ arptimer
     \/ \E e \in Entries : Tick(e)

Spec == Init /\ [][Next]_k
-----------------------------------------------------------------------------
(* Who points to an entry: cached routes, routes to which it is the way,   *)
(* and the references in_losing() has forgotten.                           *)
Holders(e) ==
  Cardinality({u \in Users : k.ro[u].rt = e})
  + Cardinality({f \in Entries : k.rt[f].st # "free" /\ k.rt[f].gwroute = e})
  + k.leaked[e]

(* rt_refcnt counts who points to the route, whatever is added, deleted,   *)
(* changed, redirected, cloned or timed out while control blocks and other *)
(* routes hold it: nothing points to freed memory, a deleted route goes    *)
(* with its last holder and rttrash counts the others, ARP entries are of  *)
(* routes in the table, and a packet that waits for an answer waits in one *)
(* of them.  The one exception is a route that is the way to its own       *)
(* gateway, which RTM_DELETE frees while it still works on it.             *)
RoutesCounted ==
  IF k.corrupt THEN k.own
  ELSE /\ \A e \in Entries :
            /\ k.rt[e].st \in {"free", "up", "dead"}
            /\ k.rt[e].refcnt = Holders(e)
            /\ k.rt[e].st = "free" => Holders(e) = 0
            /\ k.rt[e].st = "dead" => k.rt[e].refcnt > 0
            /\ k.rt[e].arp.on => k.rt[e].st = "up" /\ k.rt[e].gate = "link"
            /\ k.rt[e].arp.on /\ ~k.rt[e].arp.alen => k.rt[e].arp.exp # "never"
       /\ k.rttrash = Cardinality({e \in Entries : k.rt[e].st = "dead"})
       /\ \A d \in Hosts \cup {"net", "default"} : Cardinality(At(k, d)) <= 1
       /\ \A p \in Pkts : Cardinality({e \in Entries : k.rt[e].arp.hold = p})
                          = IF p \in k.held THEN 1 ELSE 0
=============================================================================
