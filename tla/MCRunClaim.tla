----------------------------- MODULE MCRunClaim -----------------------------
(***************************************************************************)
(* Instances of RunClaim for TLC.                                          *)
(***************************************************************************)
EXTENDS RunClaimProperties, TLC

CONSTANTS s1, t1

\* A replayed dispatch: every row of the instance carries the same turn.
OneSession == [r \in Rows |-> s1]
OneTurn == [r \in Rows |-> t1]

BrainSymmetry == Permutations(Brains)
RowSymmetry == Permutations(Rows)
=============================================================================
