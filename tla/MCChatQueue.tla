----------------------------- MODULE MCChatQueue -----------------------------
(* Instances of ChatQueue small enough for TLC. *)
EXTENDS ChatQueue, TLC

CONSTANTS a1, a2, c1, c2, t1, t2, t3, j1, j2

\* Two rows may be made for the first conversation, one for the second.
FirstTwoTasks == [t \in Tasks |-> IF t = t3 THEN c2 ELSE c1]

Symmetry ==
  Permutations(Agents) \cup Permutations(Jobs) \cup Permutations(Tasks \ {t3})
=============================================================================
