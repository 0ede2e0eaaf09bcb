----------------------------- MODULE MCSockbuf -----------------------------
(* The two sides of a socket for TLC: the receive buffer of Sockbuf and,   *)
(* as an instance, the send buffer of Sosend; and the route its control    *)
(* block holds, an instance of Routes.  In a behaviour one of them is used,*)
(* the others stay as they start.                                          *)
EXTENDS Sockbuf, TLC
CONSTANTS r1, r2, r3, w1, w2
VARIABLES unit, snd, sso, wr, stream, dgrams, acked, res, opts, routes

(* A buffer of four bytes that may be made six, mbufs of two, clusters of  *)
(* four.                                                                   *)
Writers == {w1, w2}
Sending == INSTANCE Sosend WITH
  Sizes <- {0, 3, 5}, Sndbufs <- {4, 6}, Lowats <- {1}, MSIZE <- 2, MHLEN <- 1,
  MLEN <- 2, MCLBYTES <- 4, max_hdr <- 1, MaxCalls <- 2, MaxOpts <- 1, so <- sso

(* One neighbour and one host behind it, one control block that sends two  *)
(* packets, memory for three routes.                                       *)
Cache == INSTANCE Routes WITH
  Entries <- 1 .. 3, Users <- {"inp"}, OnNet <- {"gw"}, Far <- {"host"},
  Pkts <- {1, 2}, arp_maxtries <- 1, k <- routes

Symmetric == Permutations(Readers)

sending == <<snd, sso, wr, stream, dgrams, acked, res, opts>>

MCInit ==
  /\ unit \in {"receive", "send", "routes"}
  /\ Init /\ Sending!Init /\ Cache!Init
  /\ snd.hiwat = 4 /\ (unit # "send" \/ sso.atomic => ~sso.nbio)
  /\ unit # "send" => ~sso.atomic

(* The program may leave the socket alone, but nobody may sleep for ever.  *)
MCNext ==
  /\ UNCHANGED unit
  /\ \/ unit = "receive" /\ Next /\ UNCHANGED <<sending, routes>>
     \/ unit = "send" /\ Sending!Next /\ UNCHANGED <<vars, routes>>
     \/ /\ unit = "send" /\ \A w \in Writers : wr[w].pc = "user"
        /\ UNCHANGED <<vars, sending, routes>>
     \/ unit = "routes" /\ Cache!Next /\ UNCHANGED <<vars, sending>>
     \/ unit = "routes" /\ routes.corrupt /\ UNCHANGED <<vars, sending, routes>>

MCSpec == MCInit /\ [][MCNext]_<<unit, vars, sending, routes>>

(* What a send reports is what happened to its bytes, and nobody waits for *)
(* room in an empty buffer (sosend()).                                     *)
SendsExact == unit = "send" => Sending!SendsExact

(* rt_refcnt counts who points to a route (route.c). *)
RoutesCounted == unit = "routes" => Cache!RoutesCounted
=============================================================================
