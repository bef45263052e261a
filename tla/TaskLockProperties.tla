------------------------- MODULE TaskLockProperties -------------------------
(***************************************************************************)
(* What the task lock is supposed to guarantee.                            *)
(***************************************************************************)
EXTENDS TaskLock

\* No two runs work under one gate key: the workspace is restored, changed and
\* synced by one run at a time.  A run that was told to stop is not working.
MutualExclusion == \A a, b \in Attempts : Working(a) /\ Working(b) => a = b

\* A run that works holds the lock, its process remembers that acquisition (so
\* its renewals renew it and its fence watches it), and the proof it counts from
\* is no younger than the stored entry.
WorkingRunIsProven ==
    \A a \in Attempts : Working(a) =>
        /\ entry.acq = a /\ entry.proc = at[a]
        /\ local[at[a]].acq = a
        /\ entry.age <= local[at[a]].unproven

\* A run gives its lock up for lost, stopping and forgetting it, only when the
\* entry is no longer its own: a renewal that was stored without being answered
\* is adopted, not taken for somebody else's.
StandsDownOnlyWhenLost ==
    [][\A a \in Attempts :
          ( /\ Working(a) /\ phase'[a] = "stopping"
            /\ local[at[a]].acq = a /\ local'[at[a]].acq # a
            /\ forced' = 0 )
              => entry.acq # a]_vars

\* INV-13: a process removes or replaces another process's lock only when that
\* process is gone or has let the entry go unwritten long enough to be declared
\* dead; a release that comes late never deletes its successor's lock.
ForeignLockIsLeftAlone ==
    [][\A p \in Procs :
          (entry.proc = p /\ entry'.proc # p)
              => \/ proc[p] = "dead"
                 \/ entry.age + Skew >= DEAD
                 \/ entry.age = TTL
                 \/ \E o \in ops : /\ o.proc = p /\ o.kind = "delete"
                                  /\ o.res = "sent" /\ o.current]_vars
=============================================================================
