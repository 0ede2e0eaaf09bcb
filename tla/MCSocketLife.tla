--------------------------- MODULE MCSocketLife ---------------------------
(* Instances of SocketLife for TLC, and beside it one of Igmp: the other   *)
(* thing that is counted by sockets.  In a behaviour one of them runs, the *)
(* other stays as it starts.                                               *)
EXTENDS SocketLife, Igmp
CONSTANTS t1, t2, s1, s2, s3
VARIABLE unit

(* A program with a listener and two connections, and one that makes every *)
(* call there is with a single socket.                                     *)
Server == [lingers |-> {"off"}, hows |-> {0, 1}, connects |-> FALSE,
           nonblocking |-> FALSE, windows |-> FALSE, socks |-> 3]
Client == [lingers |-> {"off", "zero", "time"}, hows |-> {0, 1, 2},
           connects |-> TRUE, nonblocking |-> TRUE, windows |-> TRUE, socks |-> 1]
Both == {Server, Client}

Symmetric == Permutations(Threads) \cup Permutations(Socks)

MCInit ==
  /\ unit \in {"sockets", "groups"}
  /\ Init /\ GroupInit
  /\ unit = "groups" => program = CHOOSE p \in Programs : TRUE

MCNext ==
  /\ UNCHANGED unit
  /\ \/ unit = "sockets" /\ Next /\ UNCHANGED groupvars
     \/ unit = "groups" /\ GroupNext /\ UNCHANGED vars

MCSpec == MCInit /\ [][MCNext]_<<unit, vars, groupvars>>
=============================================================================
