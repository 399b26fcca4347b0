---------------------------- MODULE MCAutoOutbound ----------------------------
(* An instance of AutoOutbound small enough for TLC. *)
EXTENDS AutoOutbound

CONSTANTS t1, a1, a2
=============================================================================
