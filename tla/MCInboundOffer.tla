--------------------------- MODULE MCInboundOffer ---------------------------
(* Instances of InboundOffer small enough for TLC. *)
EXTENDS InboundOffer, TLC

CONSTANTS a1, a2, c1, c2, o1, o2, t1, t2

OneCall == [o \in Offers |-> c1]
TwoCalls == (o1 :> c1) @@ (o2 :> c2)

\* Both tabs may answer one offer, nobody the other.
EachTab == [o \in Offers |-> Tabs]
TwoTabsOnce == (o1 :> Tabs) @@ (o2 :> {})

\* Agents may change places, and so may calls that take their offers along.
Symmetry ==
  Permutations(Agents) \cup
  {p \in Permutations(Calls \cup Offers) :
     \A o \in Offers : p[o] \in Offers /\ p[CallOf[o]] = CallOf[p[o]]}
=============================================================================
