-------------------------------- MODULE Inpcb --------------------------------
(* The protocol control blocks of UDP sockets (in_pcb.c) and what UDP does *)
(* with them (udp_usrreq.c): which names sockets get, and which socket a   *)
(* datagram goes to.  A freed control block that is still in the cache     *)
(* keeps its words, as memory does.  Routing is external.                  *)
EXTENDS Integers, Sequences, SequencesExt, FiniteSets
CONSTANTS
  Sockets,
  Local,       \* the addresses of the interfaces
  Group,       \* a multicast or broadcast address
  Foreign,     \* names of others: [addr, port]
  IfAddr,      \* the local address for a foreign one
  Ports,       \* the ports programs ask for; 0 for any
  IPPORT_RESERVED, IPPORT_USERRESERVED,
  MaxNobufs    \* times there is no mbuf for a header
VARIABLES
  udb,      \* the control blocks in use, the newest first
  pcb,      \* [laddr, lport, faddr, fport] of each
  so,       \* the sockets: [options, connected]
  next,     \* udb.inp_lport, the last port chosen
  udp_last_inpcb,
  hung,     \* a call searches for a port for ever
  nobufs,   \* headers without an mbuf
  left,     \* history: sockets a failed send has left connected
  merged    \* history: sockets whose name was chosen without a test
vars == <<udb, pcb, so, next, udp_last_inpcb, hung, nobufs, left, merged>>

ANY == "any"
Unbound == [laddr |-> ANY, lport |-> 0, faddr |-> ANY, fport |-> 0]
HEAD == "udb"

(* How loosely a control block fits a pair of names; 3 if it does not. *)
Side(mine, asked, fits) ==
  CASE mine # ANY /\ asked # ANY -> IF fits THEN 0 ELSE 3
    [] mine = ANY /\ asked = ANY -> 0
    [] OTHER -> 1
wildcard(inp, faddr, fport, laddr, lport) ==
  LET n == Side(inp.laddr, laddr, inp.laddr = laddr)
           + Side(inp.faddr, faddr, inp.faddr = faddr /\ inp.fport = fport)
  IN  IF inp.lport # lport \/ n > 2 THEN 3 ELSE n

(* The first of those that fit best; without wild only an exact one. *)
in_pcblookup(names, faddr, fport, laddr, lport, wild) ==
  LET w(i) == wildcard(names[udb[i]], faddr, fport, laddr, lport)
      fit == {i \in DOMAIN udb : w(i) < 3 /\ (w(i) = 0 \/ wild)}
      best == {i \in fit : \A j \in fit : w(i) < w(j) \/ (w(i) = w(j) /\ i <= j)}
  IN  {udb[i] : i \in best}

Reuses(s) == so[s].options # {}

(* The ports of the range that are free, and the first one after next. *)
AutoPorts == IPPORT_RESERVED..IPPORT_USERRESERVED
After(n) == IF n < IPPORT_RESERVED \/ n + 1 > IPPORT_USERRESERVED
            THEN IPPORT_RESERVED ELSE n + 1
Chosen(names, s, laddr) ==
  LET P[k \in 1..Cardinality(AutoPorts)] == After(IF k = 1 THEN next ELSE P[k - 1])
      free(k) == in_pcblookup(names, ANY, 0, laddr, P[k], ~Reuses(s)) = {}
  IN  {P[k] : k \in {k \in DOMAIN P : free(k) /\ \A j \in 1..(k - 1) : ~free(j)}}

Init ==
  /\ udb = <<>>
  /\ pcb = [s \in Sockets |-> Unbound]
  /\ so = [s \in Sockets |-> [options |-> {}, connected |-> FALSE]]
  /\ next = 0 /\ udp_last_inpcb = HEAD /\ hung = FALSE /\ nobufs = 0
  /\ left = {} /\ merged = {}

Live(s) == s \in ToSet(udb)

(* PRU_ATTACH *)
in_pcballoc(s) ==
  /\ ~Live(s)
  /\ udb' = <<s>> \o udb
  /\ pcb' = [pcb EXCEPT ![s] = Unbound]
  /\ so' = [so EXCEPT ![s] = [options |-> {}, connected |-> FALSE]]
  /\ UNCHANGED <<next, udp_last_inpcb, hung, nobufs, left, merged>>

sosetopt(s, option) ==
  /\ Live(s)
  /\ so' = [so EXCEPT ![s].options = @ \cup {option}]
  /\ UNCHANGED <<udb, pcb, next, udp_last_inpcb, hung, nobufs, left, merged>>

(* A name that is in use is refused, unless both sockets may share it.     *)
(* Without a free port the search for one does not end.                    *)
in_pcbbind(s, laddr, lport) ==
  LET options == IF laddr = Group /\ "addr" \in so[s].options THEN {"addr", "port"}
                 ELSE so[s].options \ {"addr"}
      port == IF lport # 0 THEN {lport}
              ELSE Chosen([pcb EXCEPT ![s].laddr = laddr], s, laddr)
  IN  /\ Live(s)
      /\ pcb[s].lport = 0 /\ pcb[s].laddr = ANY
      /\ lport # 0 => \A t \in in_pcblookup(pcb, ANY, 0, laddr, lport, ~Reuses(s)) :
                         options \cap so[t].options # {}
      /\ hung' = (port = {})
      /\ pcb' = [pcb EXCEPT ![s].laddr = laddr,
                            ![s].lport = CHOOSE p \in port \cup {0} : port # {} => p \in port]
      /\ next' = IF lport = 0 /\ port # {} THEN pcb'[s].lport ELSE next
      /\ UNCHANGED <<udb, so, udp_last_inpcb, nobufs, left, merged>>

(* The names of s after in_pcbconnect() to f, with what else changes: a    *)
(* local port, chosen after the test that the pair of names is not in use. *)
Connects(names, s, f) ==
  LET laddr == IF names[s].laddr = ANY THEN IfAddr[f.addr] ELSE names[s].laddr
      choose == names[s].laddr = ANY /\ names[s].lport = 0
      port == IF choose THEN Chosen(names, s, ANY) ELSE {names[s].lport}
      used == in_pcblookup(names, f.addr, f.port, laddr, names[s].lport, FALSE) # {}
  IN  [ok |-> ~used /\ port # {},
       hangs |-> ~used /\ port = {},
       chosen |-> choose,
       name |-> [laddr |-> laddr, faddr |-> f.addr, fport |-> f.port,
                 lport |-> IF port = {} THEN 0 ELSE CHOOSE p \in port : TRUE]]
Picks(s, c) ==
  /\ hung' = c.hangs
  /\ next' = IF c.ok /\ c.chosen THEN c.name.lport ELSE next
  /\ merged' = IF c.ok /\ c.chosen /\ Reuses(s) THEN merged \cup {s} ELSE merged

Disconnected(name) == [name EXCEPT !.faddr = ANY, !.fport = 0, !.laddr = ANY]

(* connect(): a connected socket is disconnected first. *)
soconnect(s, f) ==
  LET names == IF so[s].connected THEN [pcb EXCEPT ![s] = Disconnected(@)] ELSE pcb
      c == Connects(names, s, f)
  IN  /\ Live(s)
      /\ names[s].faddr = ANY
      /\ Picks(s, c)
      /\ pcb' = IF c.ok THEN [names EXCEPT ![s] = c.name] ELSE names
      /\ so' = [so EXCEPT ![s].connected = c.ok]
      /\ UNCHANGED <<udb, udp_last_inpcb, nobufs, left>>

(* sendto(): connected while the header is made, and back, except when     *)
(* there is no mbuf for it.                                                *)
udp_output(s, f, nobuf) ==
  LET c == Connects(pcb, s, f)
  IN  /\ Live(s)
      /\ pcb[s].faddr = ANY
      /\ c.ok \/ c.hangs
      /\ nobuf => nobufs < MaxNobufs /\ c.ok
      /\ Picks(s, c)
      /\ pcb' = CASE nobuf -> [pcb EXCEPT ![s] = c.name]
                  [] c.ok /\ ~nobuf -> [pcb EXCEPT ![s].lport = c.name.lport]
                  [] OTHER -> pcb
      /\ nobufs' = IF nobuf THEN nobufs + 1 ELSE nobufs
      /\ left' = IF nobuf THEN left \cup {s} ELSE left
      /\ UNCHANGED <<udb, so, udp_last_inpcb>>

(* close(): sodisconnect() if the socket is connected, and udp_detach(). *)
Uncached_Not(s) == udp_last_inpcb
Uncached(s) == IF udp_last_inpcb = s THEN HEAD ELSE udp_last_inpcb

udp_detach(s) ==
  /\ Live(s)
  /\ udb' = SelectSeq(udb, LAMBDA t : t # s)
  /\ pcb' = [pcb EXCEPT ![s] = CASE Uncached(s) # s -> Unbound
                                 [] Uncached(s) = s /\ so[s].connected -> Disconnected(@)
                                 [] OTHER -> @]
  /\ so' = [so EXCEPT ![s] = [options |-> {}, connected |-> FALSE]]
  /\ udp_last_inpcb' = Uncached(s)
  /\ left' = left \ {s} /\ merged' = merged \ {s}
  /\ UNCHANGED <<next, hung, nobufs>>

(* The control block of the datagram before, if it is exactly this one's. *)
Cached(src, dst, dport) ==
  udp_last_inpcb \in {s \in Sockets : pcb[s] = [laddr |-> dst, lport |-> dport,
                                                faddr |-> src.addr, fport |-> src.port]}

(* The sockets a datagram goes to: one for us to the one that fits best,   *)
(* one for the group to every one that fits.                               *)
Receivers(src, dst, dport) ==
  LET Takes(s) == /\ pcb[s].lport = dport
                  /\ pcb[s].laddr \in {ANY, dst}
                  /\ pcb[s].faddr # ANY => pcb[s].faddr = src.addr /\ pcb[s].fport = src.port
  IN  CASE dst = Group -> {s \in ToSet(udb) : Takes(s)}
        [] dst # Group /\ Cached(src, dst, dport) -> {udp_last_inpcb}
        [] OTHER -> in_pcblookup(pcb, src.addr, src.port, dst, dport, TRUE)

udp_input(src, dst, dport) ==
  /\ dst # Group /\ Receivers(src, dst, dport) # {}
  /\ udp_last_inpcb' \in Receivers(src, dst, dport)
  /\ UNCHANGED <<udb, pcb, so, next, hung, nobufs, left, merged>>

Addresses == Local \cup {Group}
AllPorts == (Ports \cup AutoPorts) \ {0}
Next ==
  /\ ~hung
  /\ \/ \E s \in Sockets :
          \/ in_pcballoc(s) \/ udp_detach(s)
          \/ \E o \in {"addr", "port"} : sosetopt(s, o)
          \/ \E a \in Local \cup {ANY, Group}, p \in Ports : in_pcbbind(s, a, p)
          \/ \E f \in Foreign : soconnect(s, f)
          \/ \E f \in Foreign, nobuf \in BOOLEAN : udp_output(s, f, nobuf)
     \/ \E f \in Foreign, a \in Addresses, p \in AllPorts : udp_input(f, a, p)

Spec == Init /\ [][Next]_vars
-----------------------------------------------------------------------------
(* The sockets that fit a datagram best, and all that fit. *)
Fitting(f, a, p) == {s \in ToSet(udb) : wildcard(pcb[s], f.addr, f.port, a, p) < 3}
Best(f, a, p) ==
  {s \in Fitting(f, a, p) : \A t \in Fitting(f, a, p) :
     wildcard(pcb[s], f.addr, f.port, a, p) <= wildcard(pcb[t], f.addr, f.port, a, p)}

(* Datagrams find their sockets (in_pcblookup(), udp_input()): one for us  *)
(* would go to one socket in use that fits it best, whatever the cache     *)
(* holds and whatever was closed, connected or bound before; one for a     *)
(* group to each that fits.  No two connected sockets have the same pair   *)
(* of names, so one that is connected has its peer for itself, unless      *)
(* in_pcbconnect() chose the port of a socket with SO_REUSEADDR after it   *)
(* tested the names.  A socket is connected only if connect() has done it  *)
(* (udp_output()), unless a send has failed for want of an mbuf.           *)
DatagramsFindSockets ==
  /\ \A f \in Foreign, a \in Addresses, p \in AllPorts :
       LET to == Receivers(f, a, p) IN
       IF a = Group THEN to = Fitting(f, a, p)
       ELSE IF Best(f, a, p) = {} THEN to = {}
            ELSE Cardinality(to) = 1 /\ to \subseteq Best(f, a, p)
  /\ \A s, t \in ToSet(udb) :
       s # t /\ pcb[s].faddr # ANY /\ pcb[s] = pcb[t] => {s, t} \cap merged # {}
  /\ \A s \in ToSet(udb) : (pcb[s].faddr # ANY) = (so[s].connected \/ s \in left)
=============================================================================
