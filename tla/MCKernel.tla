------------------------------ MODULE MCKernel ------------------------------
(* The system call stubs of Syscall and the queue of Callout for TLC, and  *)
(* beside them one instance each of the parts that work on packets.  In a  *)
(* behaviour one part runs, the others stay as they start.                 *)
EXTENDS Syscall, Callout, TLC
CONSTANTS t1, t2, t3, pkt1, pkt2, mcl1
VARIABLES
  unit,
  pkt, hdrlen, ref, buf, want, ops, flaws,     \* Mbuf
  big, packet, chain, len, sum, mlen, c0, result,  \* Cksum
  plan, now, ip_id, tx, rx, lost, damaged, strayed, last   \* SlCompress

(* A periodic timer, beside those of three sleeping threads. *)
FastPeriod == [pffasttimo |-> 2]
FastBoot == <<<<"pffasttimo", 1>>>>

(* The hypothesis of the theorems about the queue holds of these timers. *)
ASSUME Sane

(* Two packets and one cluster; mbufs of three bytes. *)
Packets == INSTANCE Mbuf WITH
  Packets <- {pkt1, pkt2}, Clusters <- {mcl1}, MLEN <- 3, MHLEN <- 2, MCLBYTES <- 6,
  max_linkhdr <- 1, max_protohdr <- 2, MaxLength <- 5, MaxAllocs <- 2,
  MaxOps <- 4

(* Four bytes, or one more than the unrolled loop takes. *)
Checksum == INSTANCE Cksum WITH
  BASE <- 3, BLOCK <- 4, MaxMbufs <- 3,
  Contents <- [1 .. 4 -> {1, 2}] \cup {<<2, 2, 1, 2, 2>>}

(* One connection with every kind of packet, three that share two states,  *)
(* one that ends and goes on.                                              *)
Flow(conns, kinds, count) == [conns |-> conns, kinds |-> kinds, count |-> count]
Headers == INSTANCE SlCompress WITH
  MAX_STATES <- 2, BYTE <- 2, SEQ <- 16, MaxLost <- 1,
  Plans <- {Flow({"a"}, {"data", "ack", "echo", "again", "back", "window", "far",
                         "urgent", "tos"}, 4),
            Flow({"a", "b", "c"}, {"data", "ack"}, 5),
            Flow({"a"}, {"more", "again", "fin"}, 4)}

Symmetric == Permutations(Threads)

packets == <<pkt, hdrlen, ref, buf, want, ops, flaws>>
checksum == <<big, packet, chain, len, sum, mlen, c0, result>>
headers == <<plan, now, ip_id, tx, rx, lost, damaged, strayed, last>>

MCInit ==
  /\ unit \in {"calls", "timers", "packets", "checksum", "headers"}
  /\ CallInit /\ Init /\ Packets!Init /\ Checksum!Init /\ Headers!Init
  /\ unit # "checksum" => big
  /\ unit # "headers" => rx.compress /\ plan.count = 5

MCNext ==
  /\ UNCHANGED unit
  /\ \/ /\ unit = "calls" /\ CallNext
        /\ UNCHANGED <<vars, packets, checksum, headers>>
     \/ /\ unit = "timers" /\ Next
        /\ UNCHANGED <<callvars, packets, checksum, headers>>
     \/ /\ unit = "packets" /\ Packets!Next
        /\ UNCHANGED <<callvars, vars, checksum, headers>>
     \/ /\ unit = "checksum" /\ Checksum!Next
        /\ UNCHANGED <<callvars, vars, packets, headers>>
     \/ /\ unit = "headers" /\ Headers!Next
        /\ UNCHANGED <<callvars, vars, packets, checksum>>

MCSpec ==
  MCInit /\ [][MCNext]_<<unit, callvars, vars, packets, checksum, headers>>

(* Packets keep their bytes and their clusters (uipc_mbuf.c). *)
PacketsIntact == unit = "packets" => Packets!PacketsIntact

(* in_cksum() returns the checksum of the packet's bytes. *)
ChecksumExact == unit = "checksum" => Checksum!ChecksumExact

(* Headers come through the compression of a serial line as they were,     *)
(* and after a loss once they are sent again (slcompress.c).               *)
HeadersSurvive == unit = "headers" => Headers!HeadersSurvive
=============================================================================
