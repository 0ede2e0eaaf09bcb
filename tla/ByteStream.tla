----------------------------- MODULE ByteStream -----------------------------
(***************************************************************************)
(* What TCP promises the two programs of a connection: each reads exactly  *)
(* the bytes the other wrote, in order, and sees the end of the stream     *)
(* only when the other will write no more and everything has been read.    *)
(* A connection may break at any time.                                     *)
(***************************************************************************)
EXTENDS Integers, Sequences

CONSTANTS A, B

VARIABLES
  wrote,     \* number of bytes the program of each end has written
  got,       \* bytes each has read: a byte is its position in the stream
  shut,      \* ends that have said they will write no more
  status     \* what a read that finds no data reports at each end

vars == <<wrote, got, shut, status>>

Ends == {A, B}
Peer(e) == IF e = A THEN B ELSE A

Init ==
  /\ wrote = [e \in Ends |-> 0] /\ got = [e \in Ends |-> <<>>]
  /\ shut = {} /\ status = [e \in Ends |-> "open"]

Write(e) ==
  /\ e \notin shut /\ status[e] # "broken"
  /\ \E n \in 1 .. wrote'[e] : wrote' = [wrote EXCEPT ![e] = @ + n]
  /\ UNCHANGED <<got, shut, status>>

(* The end of the stream has come for e. *)
AtEnd(e) == Peer(e) \in shut' /\ Len(got'[e]) = wrote[Peer(e)]

Status(e) ==
  \/ UNCHANGED status
  \/ AtEnd(e) /\ status[e] = "open" /\ status' = [status EXCEPT ![e] = "eof"]
  \/ status' = [status EXCEPT ![e] = "broken"]

Read(e) ==
  /\ \E n \in 0 .. wrote[Peer(e)] - Len(got[e]) :
       got' = [got EXCEPT ![e] = @ \o [i \in 1 .. n |-> Len(got[e]) + i]]
  /\ Status(e)
  /\ UNCHANGED <<wrote, shut>>

Shut(e) == shut' = shut \cup {e} /\ Status(e) /\ UNCHANGED <<wrote, got>>

Next == \E e \in Ends : Write(e) \/ Read(e) \/ Shut(e)

Spec == Init /\ [][Next]_vars

=============================================================================
