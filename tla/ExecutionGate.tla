--------------------------- MODULE ExecutionGate ---------------------------
(***************************************************************************)
(* The gate that bounds how many runs of a pod execute at once             *)
(* (brain/src/tasks/execution-gate.ts).  A run that waits for an outside   *)
(* event parks: it gives its slot back, stays resident, and takes a slot   *)
(* again before it goes on.  The gate is one value; every method is an     *)
(* operator from a gate to the gate after it.                              *)
(*                                                                         *)
(* waiters and resuming hold whoever awaits a slot, in order; a promise    *)
(* that was resolved is an element that has left its sequence.             *)
(***************************************************************************)
EXTENDS Naturals, Sequences

CONSTANTS
    MAX,        \* MAX_CONCURRENT
    RESIDENT    \* MAX_RESIDENT

ASSUME GateAssumption == MAX \in Nat \ {0} /\ RESIDENT \in Nat /\ RESIDENT >= MAX

NewGate == [active |-> 0, parked |-> 0, waiters |-> << >>, resuming |-> << >>]

Admissible(g) == g.active < MAX /\ g.active + g.parked < RESIDENT

\* wake: a run that is coming back goes before a new one; one grant per call.
Wake(g) ==
    IF g.active < MAX /\ g.resuming # << >>
    THEN [g EXCEPT !.active = @ + 1, !.resuming = Tail(@)]
    ELSE IF Admissible(g) /\ g.waiters # << >>
         THEN [g EXCEPT !.active = @ + 1, !.waiters = Tail(@)]
         ELSE g

\* acquire() called by w.
Acquire(g, w) ==
    IF Admissible(g) THEN [g EXCEPT !.active = @ + 1] ELSE [g EXCEPT !.waiters = Append(@, w)]

\* Mutant: the slot goes back and nobody is told.
SilentRelease(g) == IF g.active = 0 THEN g ELSE [g EXCEPT !.active = @ - 1]

\* release(): the slot goes back and somebody may be woken.
Release(g) == IF g.active = 0 THEN g ELSE Wake([g EXCEPT !.active = @ - 1])

\* Mutant: parking wakes nobody.
SilentPark(g) == [g EXCEPT !.active = @ - 1, !.parked = @ + 1]

\* park(): only a run that holds a slot calls it.
Park(g) == Wake([g EXCEPT !.active = @ - 1, !.parked = @ + 1])

\* unpark() called by w, which is parked: it comes back ahead of the waiters,
\* within the residency it never gave up.
Unpark(g, w) ==
    IF g.active < MAX
    THEN [g EXCEPT !.parked = @ - 1, !.active = @ + 1]
    ELSE [g EXCEPT !.parked = @ - 1, !.resuming = Append(@, w)]
=============================================================================
