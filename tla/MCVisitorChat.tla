---------------------------- MODULE MCVisitorChat ----------------------------
(* Instances of VisitorChat small enough for TLC. *)
EXTENDS VisitorChat

CONSTANTS v1, v2, v3

\* Every send says the same: the page tells its bubbles apart by their text.
SameText == [k \in Sends |-> "hello"]
=============================================================================
