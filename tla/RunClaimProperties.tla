------------------------- MODULE RunClaimProperties -------------------------
(***************************************************************************)
(* What the claim protocol is supposed to guarantee.                       *)
(***************************************************************************)
EXTENDS RunClaim

\* The refinement mapping onto RunLifecycle: the claim count is the number of
\* tries, and a status is read for what it says about the turn.
PhaseOfStatus(s) ==
    CASE s = "queued" -> "waiting"
      [] s \in ACQUIRABLE -> "executing"
      [] s = "cancelling" -> "stopping"
      [] OTHER -> "ended"

Lifecycle == INSTANCE RunLifecycle WITH
    phase <- [r \in Rows |-> PhaseOfStatus(status[r])],
    tries <- claims,
    TurnOf <- [r \in Rows |-> <<SessionOf[r], MessageOf[r]>>]

\* Every statement of the API, run in any order, is a step of the lifecycle the
\* table promises: one active row per turn, ended rows stay ended, stopped rows
\* are never handed out again, and only a claim starts an execution.
ImplementsLifecycle == Lifecycle!Spec

\* At most one row of a turn is preparing, running or cancelling: takeClaim's
\* sibling test, and the index behind it, keep a replayed dispatch from running
\* the turn twice.
OneActiveRowPerTurn ==
    \A r, s \in Rows :
        /\ r # s
        /\ SessionOf[r] = SessionOf[s]
        /\ MessageOf[r] = MessageOf[s]
        => ~ (status[r] \in RENEWABLE /\ status[s] \in RENEWABLE)

\* The holder columns agree with the status.  A queued row names no holder, so
\* claim-next can offer it and a late release cannot match it; an active row
\* always has an owner, a lease that can run out and the current generation's
\* token, so some reaper can always reach it.
HolderColumnsAgree ==
    \A r \in Rows :
        /\ status[r] = "queued" =>
               owner[r] = NoBrain /\ lease[r] = "none" /\ token[r] = 0 /\ attempt[r] = 0
        /\ status[r] \in RENEWABLE =>
               /\ owner[r] # NoBrain
               /\ lease[r] # "none"
               /\ token[r] = claims[r]
               /\ attempt[r] \in {0, claims[r]}

\* A generation belongs to one brain.  Whatever is still being done or still
\* travelling for a row is from its current generation or an older one, and the
\* current generation's comes from the owner the row names: this is why fencing
\* on lease_owner and claim_count together is enough.
OneBrainPerGeneration ==
    \A x \in hydrating \cup work \cup net :
        /\ x.gen <= claims[x.row]
        /\ x.gen = claims[x.row] /\ owner[x.row] # NoBrain => x.brain = owner[x.row]

\* What the claim r is under right now can still legitimately end it: a request
\* or event its own holder sent, the API handler that is still finishing the
\* claim, or the holder's pod asking for its previous process's runs back.
OwnEnding(r) ==
    \/ \E m \in net : /\ m.row = r
                      /\ m.gen = claims[r]
                      /\ m.brain = owner[r]
                      /\ m.kind \in {"unclaim", "fail"} \cup Terminal
    \/ \E h \in hydrating : h.row = r
    \/ owner[r] \in orphans

\* While its lease is live, nobody else takes a run away from its holder or
\* closes it underneath: a late release, a stale fail, an old completion and
\* every sweeper pass leave it alone.  (A Stop asks; it moves the row to
\* cancelling and leaves the ending to the holder.)
LiveHolderKeepsItsRun ==
    [][\A r \in Rows :
          (lease[r] = "live" /\ status[r] \in RENEWABLE /\ status'[r] \notin RENEWABLE)
              => OwnEnding(r)]_vars

\* A settled attempt is over: a heartbeat still in flight when the run was
\* settled cannot bring its lapsed lease back to life, or name itself on the
\* row again, so the row it leaves behind is swept.
SettledAttemptIsSpent ==
    [][\A r \in Rows :
          (settled[r] = claims[r] /\ claims'[r] = claims[r] /\ claims[r] > 0)
              => /\ attempt'[r] # claims[r]
                 /\ ~ (lease[r] = "lapsed" /\ lease'[r] = "live")]_vars

\* Every dispatched run ends, whatever crashes, is lost, lapses or is stopped:
\* no row waits for a holder that will never come back.
EveryRunEnds == \A r \in Rows : <>[](status[r] \in Terminal)
=============================================================================
