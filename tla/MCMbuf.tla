-------------------------------- MODULE MCMbuf --------------------------------
(* An instance of Mbuf for TLC.                                           *)
EXTENDS Mbuf
=============================================================================
