----------------------------- MODULE MCAgentDesk -----------------------------
(* Instances of AgentDesk small enough for TLC. *)
EXTENDS AgentDesk

CONSTANTS c1, c2, d1, o1, o2

OffersOf == [o \in Offers |-> IF o = o1 THEN c1 ELSE IF c2 \in Calls THEN c2 ELSE c1]
=============================================================================
