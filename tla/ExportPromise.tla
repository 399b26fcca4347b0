--------------------------- MODULE ExportPromise ---------------------------
(***************************************************************************)
(* What the export service promises an employee.  A submission is accepted   *)
(* once per idempotency key and while fewer than Limit exports of the        *)
(* employee are open; at most one of them is worked on; a result is ready     *)
(* exactly while its file is there; and what has ended never comes back.      *)
(***************************************************************************)
EXTENDS Naturals, FiniteSets

CONSTANTS
  Tasks,    \* one per submission
  OwnerOf,  \* the employee who submits it
  KeyOf,    \* its idempotency key
  Limit     \* how many open exports an employee may have

VARIABLES
  stage,  \* of each task
  shelf   \* the tasks whose file can be fetched

vars == <<stage, shelf>>

Stages == {"none", "waiting", "working", "ready", "ended", "gone"}

Open(o) == {t \in Tasks : OwnerOf[t] = o /\ stage[t] \in {"waiting", "working"}}

Init == stage = [t \in Tasks |-> "none"] /\ shelf = {}

To(t, from, to) == stage[t] \in from /\ stage' = [stage EXCEPT ![t] = to]

Accept(t) ==
  /\ To(t, {"none"}, "waiting")
  /\ Cardinality(Open(OwnerOf[t])) < Limit
  /\ \A s \in Tasks : OwnerOf[s] = OwnerOf[t] /\ KeyOf[s] = KeyOf[t]
                        => stage[s] \in {"none", "gone"}
  /\ UNCHANGED shelf

Start(t) ==
  /\ To(t, {"waiting"}, "working")
  /\ \A s \in Tasks : OwnerOf[s] = OwnerOf[t] => stage[s] # "working"
  /\ UNCHANGED shelf

Deliver(t) ==
  /\ To(t, {"working"}, "ready")
  /\ shelf' = shelf \cup {t}

\* It failed, was cancelled or took too long.
End(t) ==
  /\ To(t, {"waiting", "working"}, "ended")
  /\ UNCHANGED shelf

Lapse(t) ==
  /\ To(t, {"ready"}, "ended")
  /\ shelf' = shelf \ {t}

Forget(t) ==
  /\ To(t, {"ended"}, "gone")
  /\ UNCHANGED shelf

Next == \E t \in Tasks :
  Accept(t) \/ Start(t) \/ Deliver(t) \/ End(t) \/ Lapse(t) \/ Forget(t)

Spec == Init /\ [][Next]_vars
=============================================================================
