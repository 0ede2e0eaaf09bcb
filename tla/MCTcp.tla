-------------------------------- MODULE MCTcp --------------------------------
(* Instances of Tcp for TLC, and beside it how datagrams find their        *)
(* sockets: the names of sockets (Inpcb).  In a behaviour one of the two   *)
(* runs, the other stays as it starts.                                     *)
EXTENDS Tcp, TLC
VARIABLES
  unit,
  udb, pcb, so, next, udp_last_inpcb, hung, nobufs, left, merged    \* Inpcb

(* A connects to B, which listens. *)
Client(total, closing, wrong, bound) ==
  [connecting |-> {A}, listening |-> {B},
   total |-> (A :> total[1]) @@ (B :> total[2]),
   closing |-> (A :> closing[1]) @@ (B :> closing[2]),
   faults |-> wrong, bound |-> bound]

(* Both call connect(). *)
Both(total, closing, wrong, bound) ==
  [Client(total, closing, wrong, bound) EXCEPT !.connecting = {A, B},
                                               !.listening = {}]

Line == {"lose", "repeat", "reorder", "early"}
MCPlans ==
  {Client(<<3, 0>>, <<{"shutdown"}, {}>>, {}, 0),
   Client(<<2, 0>>, <<{"shutdown"}, {}>>, Line, 1),
   Client(<<1, 0>>, <<{"close"}, {"close"}>>, Line \cup {"full"}, 1),
   Client(<<1, 0>>, <<{"close", "abort", "crash"}, {"crash", "halt"}>>, {"probe"}, 1),
   Client(<<3, 0>>, <<{"close"}, {"halt"}>>, {}, 0),
   Both(<<1, 0>>, <<{"close"}, {"close"}>>, {}, 0)}

(* The reader shuts its own direction down while its window is closed. *)
StallPlans == {Client(<<3, 0>>, <<{}, {"shutdown"}>>, {}, 0)}

(* Two UDP sockets, two addresses of our own, one port to choose from.     *)
Naming == INSTANCE Inpcb WITH
  Sockets <- {A, B}, Local <- {"l1", "l2"}, Group <- "group",
  Foreign <- {[addr |-> "f", port |-> 7]}, IfAddr <- [f |-> "l1"], Ports <- {0, 5},
  IPPORT_RESERVED <- 8, IPPORT_USERRESERVED <- 8, MaxNobufs <- 1

naming == <<udb, pcb, so, next, udp_last_inpcb, hung, nobufs, left, merged>>

MCInit ==
  /\ unit \in {"transfer", "names"}
  /\ Init /\ Naming!Init
  /\ unit # "transfer" => plan = CHOOSE p \in Plans : TRUE

MCNext ==
  /\ UNCHANGED unit
  /\ \/ unit = "transfer" /\ Next /\ UNCHANGED naming
     \/ unit = "names" /\ Naming!Next /\ UNCHANGED vars

MCSpec == MCInit /\ [][MCNext]_<<unit, vars, naming>>
FairMCSpec == MCSpec /\ Fairness

(* A datagram goes to the socket whose names fit it best (in_pcb.c,        *)
(* udp_usrreq.c).                                                          *)
DatagramsFindSockets == unit = "names" => Naming!DatagramsFindSockets

MCISS == (A :> SEQ - 2) @@ (B :> 5)
=============================================================================
