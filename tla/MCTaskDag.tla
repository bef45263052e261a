----------------------------- MODULE MCTaskDag -----------------------------
(***************************************************************************)
(* An instance of TaskDag for TLC.                                         *)
(***************************************************************************)
EXTENDS TaskDag

CONSTANTS a, b, c

\* c depends on a; b on nothing.
Fork == [n \in Nodes |-> IF n = c THEN {a} ELSE {}]
=============================================================================
