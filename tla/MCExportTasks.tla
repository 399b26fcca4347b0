--------------------------- MODULE MCExportTasks ---------------------------
(* An instance of ExportTasks small enough for TLC: a submission and its retry. *)
EXTENDS ExportTasks, TLC

CONSTANTS t1, t2, w1, e1, k1

OneOwner == [t \in Tasks |-> e1]
OneKey == [t \in Tasks |-> k1]
=============================================================================
