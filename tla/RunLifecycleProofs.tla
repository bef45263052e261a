------------------------- MODULE RunLifecycleProofs -------------------------
(***************************************************************************)
(* What the lifecycle guarantees, and therefore every specification that   *)
(* implements it.                                                          *)
(***************************************************************************)
EXTENDS RunLifecycle, TLAPS

\* phase and tries keep their types.
THEOREM LifecycleTyped == Spec => []TypeOK
<1>1. Init => TypeOK
  BY DEF Init, TypeOK, RunPhases
<1>2. TypeOK /\ [Next]_vars => TypeOK'
  <2> SUFFICES ASSUME TypeOK, [Next]_vars PROVE TypeOK'
    OBVIOUS
  <2>1. ASSUME NEW r \in Rows, Take(r)
        PROVE  TypeOK'
    BY <2>1 DEF TypeOK, Take, RunPhases
  <2>2. CASE Move
    BY <2>2 DEF TypeOK, Move
  <2>3. CASE UNCHANGED vars
    BY <2>3 DEF TypeOK, vars
  <2> QED BY <2>1, <2>2, <2>3 DEF Next
<1> QED BY <1>1, <1>2, PTL DEF Spec

\* A turn never executes under two rows: only Take occupies a row, and Take
\* looks at every other row of the turn first.
THEOREM OneHolder == Spec => []OneHolderPerTurn
<1>1. Init => OneHolderPerTurn
  BY DEF Init, OneHolderPerTurn, Occupied
<1>2. TypeOK /\ OneHolderPerTurn /\ [Next]_vars => OneHolderPerTurn'
  <2> SUFFICES ASSUME TypeOK, OneHolderPerTurn, [Next]_vars
               PROVE  OneHolderPerTurn'
    OBVIOUS
  <2>1. ASSUME NEW r \in Rows, Take(r)
        PROVE  OneHolderPerTurn'
    <3>1. Occupied' = Occupied \cup {r}
      BY <2>1 DEF TypeOK, Take, Occupied
    <3>2. \A s \in Occupied : s = r \/ TurnOf[s] # TurnOf[r]
      BY <2>1 DEF Take
    <3> QED BY <3>1, <3>2 DEF OneHolderPerTurn
  <2>2. CASE Move
    <3>1. Occupied' \subseteq Occupied
      BY <2>2 DEF Move, Edges, Occupied
    <3> QED BY <3>1 DEF OneHolderPerTurn
  <2>3. CASE UNCHANGED vars
    BY <2>3 DEF OneHolderPerTurn, Occupied, vars
  <2> QED BY <2>1, <2>2, <2>3 DEF Next
<1> QED BY <1>1, <1>2, LifecycleTyped, PTL DEF Spec

\* An ended row stays ended and is not tried again; a stopped row only ends.
THEOREM FinalPhases == Spec => StopAndEndAreFinal
<1> DEFINE Final == \A r \in Rows :
        /\ phase[r] = "ended" => phase'[r] = "ended" /\ tries'[r] = tries[r]
        /\ phase[r] = "stopping" => phase'[r] \in {"stopping", "ended"}
<1>1. TypeOK /\ [Next]_vars => [Final]_vars
  <2> SUFFICES ASSUME TypeOK, Next PROVE Final
    OBVIOUS
  <2>1. ASSUME NEW r \in Rows, Take(r)
        PROVE  Final
    BY <2>1 DEF TypeOK, Take
  <2>2. CASE Move
    BY <2>2 DEF Move, Edges
  <2> QED BY <2>1, <2>2 DEF Next
<1> QED BY <1>1, LifecycleTyped, PTL DEF Spec, StopAndEndAreFinal
=============================================================================
