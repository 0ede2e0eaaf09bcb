----------------------------- MODULE MCKernLock -----------------------------
(* KernLock for TLC, and beside it an instance of Ip, one of SerialLine    *)
(* and one of Radix: how packets come to ipintrq, how sw_intr_thread gets  *)
(* to them, what ipintr() makes of them, and where their routes are found. *)
(* In a behaviour one of the four runs, the others stay as they start.     *)
EXTENDS KernLock
VARIABLES
  unit,
  sent, wire, ipq, delivered,                  \* Ip
  plan, tp, pipe, buf, sc, slipq, sloutputs, slinputs,    \* SerialLine
  rn, table, lost                                  \* Radix

(* Datagrams of five bytes and less, with and without options, two of them *)
(* at a time; one that must not be cut, and one longer than a short.       *)
Datagram(n, df, opt) == [len |-> n, df |-> df, opt |-> opt]
Datagrams == INSTANCE Ip WITH
  Sends <- {<<Datagram(5, FALSE, "none"), Datagram(3, FALSE, "none")>>,
            <<Datagram(5, FALSE, "first")>>, <<Datagram(9, FALSE, "all")>>,
            <<Datagram(5, TRUE, "all")>>},
  Mtus <- {4, 6}, UNIT <- 2, HLEN <- 2, OLEN <- 1, SHORT <- 8, IPFRAGTTL <- 2,
  MAXTTL <- 2

(* Two packets with special characters.  A frame is longer than the pipe,  *)
(* two are longer than the pipe and the read buffer.                       *)
Slow == [bytes |-> <<"x", "FRAME_END", "y">>, lowdelay |-> FALSE]
Fast == [bytes |-> <<"x", "FRAME_ESCAPE", "TRANS_FRAME_END">>, lowdelay |-> TRUE]
Plan(a, b) == [server |-> a, client |-> b]
Line == INSTANCE SerialLine WITH
  A <- "server", B <- "client", PIPE <- 5, BUFSIZE <- 3, ACBUFSIZE <- 2, SLMAX <- 4,
  Plans <- {Plan(<<Slow, Fast>>, <<Fast>>), Plan(<<Slow, Fast>>, <<Fast, Slow>>),
            Plan(<<Slow, Fast, Slow>>, <<>>)},
  ipintrq <- slipq, sent <- sloutputs, got <- slinputs

(* Three routes with prefix masks, on addresses of three bits. *)
PrefixMasks == {0 .. (i - 1) : i \in 0 .. 3}
Tree == INSTANCE Radix WITH
  W <- 3, Masks <- PrefixMasks, MaxRoutes <- 3

datagrams == <<sent, wire, ipq, delivered>>
line == <<plan, tp, pipe, buf, sc, slipq, sloutputs, slinputs>>
tree == <<rn, table, lost>>

MCInit ==
  /\ unit \in {"threads", "datagrams", "line", "tree"}
  /\ Init /\ Datagrams!Init /\ Line!Init /\ Tree!Init
  /\ unit # "line" => plan = Plan(<<Slow, Fast, Slow>>, <<>>)

(* The network may be quiet; both ends of the line may wait.               *)
MCNext ==
  /\ UNCHANGED unit
  /\ \/ unit = "threads" /\ Next /\ UNCHANGED <<datagrams, line, tree>>
     \/ unit = "datagrams" /\ Datagrams!Next /\ UNCHANGED <<vars, line, tree>>
     \/ unit = "datagrams" /\ UNCHANGED <<vars, datagrams, line, tree>>
     \/ unit = "line" /\ Line!Next /\ UNCHANGED <<vars, datagrams, tree>>
     \/ /\ unit = "line" /\ Line!Waiting
        /\ UNCHANGED <<vars, datagrams, line, tree>>
     \/ unit = "tree" /\ Tree!Next /\ UNCHANGED <<vars, datagrams, line>>

MCSpec == MCInit /\ [][MCNext]_<<unit, vars, datagrams, line, tree>>
FairMCSpec == MCSpec /\ Fairness

(* The comment on kern_lock, as it stands: all kernel code runs in mutual  *)
(* exclusion, of the threads that take the lock at least.                  *)
LockExcludes == \A s, t \in Holders : s = t

(* The protocols are given whole datagrams or nothing (ip_reass()). *)
DatagramsWhole == Datagrams!DatagramsWhole

(* What one process sends reaches slinput() of the other as it was, unless *)
(* both directions of the line are overfull (slstart(), slinput()).        *)
LineDelivers == unit = "line" => Line!LineDelivers

(* rn_match() finds the best route that is in the table (radix.c). *)
RoutesFound == unit = "tree" => Tree!RoutesFound
=============================================================================
