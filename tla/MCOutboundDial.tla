--------------------------- MODULE MCOutboundDial ---------------------------
(* Instances of OutboundDial small enough for TLC. *)
EXTENDS OutboundDial, TLC

CONSTANTS d1, d2, r1, r2, k1, k2, o1

Reservations == [d \in Dials |-> IF d = d1 THEN r1 ELSE r2]
CallIds == [d \in Dials |-> IF d = d1 THEN k1 ELSE k2]

\* Dials may change places when their ids go along.
Symmetry ==
  {p \in Permutations(Dials \cup Calls) :
     \A d \in Dials : /\ p[d] \in Dials
                       /\ p[ReservationOf[d]] = ReservationOf[p[d]]
                       /\ p[CallIdOf[d]] = CallIdOf[p[d]]}
=============================================================================
