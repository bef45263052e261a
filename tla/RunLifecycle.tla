---------------------------- MODULE RunLifecycle ----------------------------
(***************************************************************************)
(* What the run table promises about a turn, with no brains, leases,       *)
(* requests or sweeps in it: a row waits, executes, is being stopped, or   *)
(* has ended; a turn is executed under one row at a time; each start of an *)
(* execution is a new try; a stopped row only ends; an ended row is over.  *)
(* RunClaim implements this specification.                                 *)
(***************************************************************************)
EXTENDS Naturals

CONSTANTS
    Rows,       \* one row per dispatch of a turn
    TurnOf      \* the turn a row was dispatched for

VARIABLES phase, tries

vars == <<phase, tries>>

RunPhases == {"waiting", "executing", "stopping", "ended"}

Occupied == {r \in Rows : phase[r] \in {"executing", "stopping"}}

Init ==
    /\ phase = [r \in Rows |-> "waiting"]
    /\ tries = [r \in Rows |-> 0]

\* A worker starts on the row, or starts again on one it believes abandoned.
Take(r) ==
    /\ phase[r] \in {"waiting", "executing"}
    /\ \A s \in Occupied : s = r \/ TurnOf[s] # TurnOf[r]
    /\ phase' = [phase EXCEPT ![r] = "executing"]
    /\ tries' = [tries EXCEPT ![r] = @ + 1]

\* How a row moves when nobody takes it.
Edges ==
    { <<"waiting", "ended">>, <<"executing", "waiting">>, <<"executing", "stopping">>,
      <<"executing", "ended">>, <<"stopping", "ended">> }

\* One statement may move many rows, each along an edge of its own.
Move ==
    /\ phase' \in [Rows -> RunPhases]
    /\ \A r \in Rows : phase'[r] = phase[r] \/ <<phase[r], phase'[r]>> \in Edges
    /\ UNCHANGED tries

Next == (\E r \in Rows : Take(r)) \/ Move

Spec == Init /\ [][Next]_vars

TypeOK ==
    /\ phase \in [Rows -> RunPhases]
    /\ tries \in [Rows -> Nat]

\* No two rows of one turn execute at once: the turn runs once, is answered
\* once and is billed once, however often its dispatch was retried.
OneHolderPerTurn == \A r, s \in Occupied : r = s \/ TurnOf[r] # TurnOf[s]

\* An ended row never comes back, and a stopped row is never taken again.
StopAndEndAreFinal ==
    [][\A r \in Rows :
          /\ phase[r] = "ended" => phase'[r] = "ended" /\ tries'[r] = tries[r]
          /\ phase[r] = "stopping" => phase'[r] \in {"stopping", "ended"}]_vars
=============================================================================
