----------------------------- MODULE MCTaskLock -----------------------------
(***************************************************************************)
(* Instances of TaskLock for TLC.                                          *)
(***************************************************************************)
EXTENDS TaskLockProperties, TLC

CONSTANTS a1, a2, a3, p1, p2, p3, t1, t2, d1, d2

\* a1 and a2 are deliveries of one task, a3 of another task of the same gate.
Redelivered == [a \in Attempts |-> IF a = a3 THEN t2 ELSE t1]
AllDifferent == [a \in Attempts |-> a]

\* p3 is the restarted container of p1's pod.
RestartedPod == [p \in Procs |-> IF p = p2 THEN d2 ELSE d1]

\* Nothing tells two attempts apart but their tasks, or two brains but their pods.
AttemptSymmetry == Permutations(Attempts)
BrainSymmetry == Permutations(Attempts) \cup Permutations(Procs)
=============================================================================
