------------------------------ MODULE RunClaim ------------------------------
(***************************************************************************)
(* The claim protocol of a doorbell chat run: one row of claw_tasks per    *)
(* dispatched turn, brains that claim it, heartbeat it and give it back,   *)
(* and the sweeper, the Stop button and the event consumer that move it    *)
(* behind their backs.                                                     *)
(*                                                                         *)
(* Every SQL statement of the API is one step.  What a brain sends travels *)
(* through net and is processed later, out of order, possibly twice, and   *)
(* possibly after the brain has died, been replaced or taken the row       *)
(* again.  A lease is live or lapsed; when it lapses is nondeterministic,  *)
(* so every ordering of heartbeats, graces and sweeps is covered.          *)
(*                                                                         *)
(* The NATS task lock is outside this module: acquiring it succeeds or     *)
(* fails nondeterministically, so nothing proved here rests on it.         *)
(***************************************************************************)
EXTENDS Naturals, FiniteSets

CONSTANTS
    Rows,           \* rows of claw_tasks with metadata.dispatch = 'doorbell'
    Brains,         \* brain pod names; a restarted pod keeps its name
    NoBrain,        \* lease_owner IS NULL
    SessionOf,      \* the session of each row
    MessageOf,      \* metadata.message_id: two rows with one id are a replayed dispatch
    POISON,         \* TASK_POISON_DELIVERY_COUNT
    MaxClaims,      \* bound on claim_count
    MaxNet,         \* bound on requests in flight
    MaxRetries      \* bound on how often an unanswered request is sent again

ASSUME ClaimAssumption ==
    /\ NoBrain \notin Brains
    /\ POISON \in Nat \ {0}
    /\ MaxClaims \in Nat
    /\ MaxNet \in Nat
    /\ MaxRetries \in Nat

VARIABLES
    status, owner, lease, token, claims, attempt, settled, deadline,
    hydrating, work, net, orphans, brain, stop

rowVars == <<status, owner, lease, token, claims, attempt, settled, deadline>>
brainVars == <<hydrating, work, orphans, brain>>
vars == <<rowVars, brainVars, net, stop>>

CLAIMABLE == {"queued", "preparing"}
ACQUIRABLE == {"preparing", "running"}
RENEWABLE == {"preparing", "running", "cancelling"}
CLOSEABLE == {"queued", "preparing", "running", "cancelling"}
Terminal == {"completed", "failed", "cancelled"}
Statuses == CLOSEABLE \cup Terminal

Sessions == {SessionOf[r] : r \in Rows}
Gens == 1 .. MaxClaims

\* A claim statement that matched, while the API still reads the spec for it.
Hydration == [brain : Brains, row : Rows, gen : Gens, waiting : BOOLEAN]

\* What a brain process is doing about a claim it was handed.
Phases == {"claimed", "running", "stopping", "lost", "gone", "backoff"}
Work == [brain : Brains, row : Rows, gen : Gens, phase : Phases]

\* A request or event on its way to the API.  A completion event's kind is the
\* status it closes the row with.
Kinds == {"lease", "unclaim", "fail", "settle", "started"} \cup Terminal
Requests ==
    [kind : Kinds, brain : Brains, row : Rows, gen : Gens, left : 0 .. MaxRetries]

(***************************************************************************)
(* One type invariant: every column and every in-flight record has the     *)
(* shape the schema and the wire give it, and every bound holds.           *)
(***************************************************************************)
RowTypeOK ==
    /\ status \in [Rows -> Statuses]
    /\ owner \in [Rows -> Brains \cup {NoBrain}]
    /\ lease \in [Rows -> {"none", "live", "lapsed"}]
    /\ token \in [Rows -> 0 .. MaxClaims]
    /\ claims \in [Rows -> 0 .. MaxClaims]
    /\ attempt \in [Rows -> 0 .. MaxClaims]
    /\ settled \in [Rows -> 0 .. MaxClaims]
    /\ deadline \in [Rows -> {"none", "ahead", "past"}]

TypeOK ==
    /\ RowTypeOK
    /\ hydrating \subseteq Hydration
    /\ work \subseteq Work
    /\ net \subseteq Requests
    /\ orphans \subseteq Brains
    /\ brain \in [Brains -> {"up", "down", "starting"}]
    /\ stop \in [Sessions -> {"idle", "halfway"}]

\* A doorbell row opens at 'queued' with no holder and no deadline.
Init ==
    /\ status = [r \in Rows |-> "queued"]
    /\ owner = [r \in Rows |-> NoBrain]
    /\ lease = [r \in Rows |-> "none"]
    /\ token = [r \in Rows |-> 0]
    /\ claims = [r \in Rows |-> 0]
    /\ attempt = [r \in Rows |-> 0]
    /\ settled = [r \in Rows |-> 0]
    /\ deadline = [r \in Rows |-> "none"]
    /\ hydrating = {}
    /\ work = {}
    /\ net = {}
    /\ orphans = {}
    /\ brain = [b \in Brains |-> "up"]
    /\ stop = [s \in Sessions |-> "idle"]

-----------------------------------------------------------------------------
(* The writers every operation is made of.                                 *)

\* applyTaskStatusTransition: the one statement that writes status.  It stamps
\* the deadline when work first begins and keeps the stamp ever after.
SetStatus(new) ==
    /\ status' = new
    /\ deadline' = [r \in Rows |->
           IF new[r] \in {"preparing", "running"} /\ deadline[r] = "none"
           THEN "ahead" ELSE deadline[r]]

\* Mutant: the release forgets lease_expires_at.
ClearOwnerOnly(R) ==
    /\ owner' = [r \in Rows |-> IF r \in R THEN NoBrain ELSE owner[r]]
    /\ token' = [r \in Rows |-> IF r \in R THEN 0 ELSE token[r]]
    /\ UNCHANGED lease

ClearHolder(R) ==
    /\ owner' = [r \in Rows |-> IF r \in R THEN NoBrain ELSE owner[r]]
    /\ lease' = [r \in Rows |-> IF r \in R THEN "none" ELSE lease[r]]
    /\ token' = [r \in Rows |-> IF r \in R THEN 0 ELSE token[r]]

ClearAttempt(R) == attempt' = [r \in Rows |-> IF r \in R THEN 0 ELSE attempt[r]]

KeepHolder == UNCHANGED <<owner, lease, token, attempt>>

\* The rows of R move to s; the rest stay.
Moved(R, s) == [r \in Rows |-> IF r \in R THEN s ELSE status[r]]

\* Mutant: rows of one message are not paired.
Unpaired(r) == {}

Siblings(r) ==
    {s \in Rows \ {r} : SessionOf[s] = SessionOf[r] /\ MessageOf[s] = MessageOf[r]}

\* Mutant: the fence is lease_owner alone.
HeldByOwner(b, r, gen) == owner[r] = b

\* lease_owner and the generation still name the caller's claim.
Held(b, r, gen) == owner[r] = b /\ claims[r] = gen

-----------------------------------------------------------------------------
(* Claiming a row.                                                         *)

\* Mutant: only the first claim of a row opens a generation.
FirstGeneration(r) == IF claims[r] = 0 THEN 1 ELSE claims[r]

\* claim_count, the generation every fence below compares.
NextGeneration(r) == claims[r] + 1

\* takeClaim: the fenced UPDATE, its sibling test included (the unique index
\* on active chat turns makes that test atomic with the write).
TakeClaim(b, r) ==
    /\ brain[b] = "up"
    /\ claims[r] < MaxClaims
    /\ status[r] \in CLAIMABLE
    /\ lease[r] # "live"
    /\ \A s \in Siblings(r) : status[s] \notin RENEWABLE
    /\ SetStatus([status EXCEPT ![r] = "preparing"])
    /\ owner' = [owner EXCEPT ![r] = b]
    /\ lease' = [lease EXCEPT ![r] = "live"]
    /\ claims' = [claims EXCEPT ![r] = NextGeneration(r)]
    /\ token' = [token EXCEPT ![r] = NextGeneration(r)]
    /\ attempt' = [attempt EXCEPT ![r] = 0]
    /\ hydrating' = hydrating \cup
           {[brain |-> b, row |-> r, gen |-> NextGeneration(r), waiting |-> TRUE]}
    /\ UNCHANGED <<settled, work, orphans, brain, net, stop>>

\* A doorbell names its row, whatever its deadline.
ClaimRunById(b, r) == TakeClaim(b, r)

\* claim-next offers queued rows whose budget is not spent.
ClaimNextRun(b, r) ==
    /\ status[r] = "queued"
    /\ deadline[r] # "past"
    /\ TakeClaim(b, r)

\* The brain gives up waiting for the claim's answer; the row stays claimed.
ClaimTimesOut(h) ==
    /\ h.waiting
    /\ hydrating' = (hydrating \ {h}) \cup {[h EXCEPT !.waiting = FALSE]}
    /\ UNCHANGED <<rowVars, work, orphans, brain, net, stop>>

\* Mutant: a release always requeues.
AlwaysQueued(s) == "queued"

Released(s) == IF s = "cancelling" THEN "cancelled" ELSE "queued"

\* releaseClaim: a stopped row is closed, any other goes back on the queue; a
\* stale generation matches nothing.
ReleaseClaim(b, r, gen) ==
    IF Held(b, r, gen) /\ status[r] \in CLOSEABLE
    THEN /\ SetStatus([status EXCEPT ![r] = Released(@)])
         /\ ClearHolder({r})
         /\ ClearAttempt({r})
         /\ UNCHANGED <<claims, settled>>
    ELSE UNCHANGED rowVars

\* failExhaustedClaim: no owner or generation in its WHERE.
FailExhaustedClaim(r) ==
    /\ status[r] \in {"queued", "preparing", "running"}
    /\ SetStatus([status EXCEPT ![r] = "failed"])
    /\ ClearHolder({r})
    /\ ClearAttempt({r})
    /\ UNCHANGED <<claims, settled>>

\* markUnclaimable: no owner or generation in its WHERE, and attempt_id stays.
MarkUnclaimable(r) ==
    IF status[r] \in CLAIMABLE
    THEN /\ SetStatus([status EXCEPT ![r] = "failed"])
         /\ ClearHolder({r})
         /\ UNCHANGED <<claims, attempt, settled>>
    ELSE UNCHANGED rowVars

Exhausted(gen) == gen >= POISON

\* finishClaim at the poison ceiling: closed, or, when the close did not land,
\* released (and the release itself may fail).
FinishExhausted(h) ==
    /\ Exhausted(h.gen)
    /\ \/ FailExhaustedClaim(h.row)
       \/ ReleaseClaim(h.brain, h.row, h.gen)
       \/ UNCHANGED rowVars
    /\ hydrating' = hydrating \ {h}
    /\ UNCHANGED <<work, orphans, brain, net, stop>>

\* finishClaim below the ceiling: the spec is handed out, if anyone still waits.
HandOut(h) ==
    /\ ~ Exhausted(h.gen)
    /\ hydrating' = hydrating \ {h}
    /\ work' = IF h.waiting
               THEN work \cup {[brain |-> h.brain, row |-> h.row, gen |-> h.gen,
                                phase |-> "claimed"]}
               ELSE work
    /\ UNCHANGED <<rowVars, orphans, brain, net, stop>>

\* finishClaim when the spec cannot be opened: a credential fault closes the
\* row, any other error releases it (or fails to).
HydrateFails(h) ==
    /\ ~ Exhausted(h.gen)
    /\ \/ MarkUnclaimable(h.row)
       \/ ReleaseClaim(h.brain, h.row, h.gen)
       \/ UNCHANGED rowVars
    /\ hydrating' = hydrating \ {h}
    /\ UNCHANGED <<work, orphans, brain, net, stop>>

-----------------------------------------------------------------------------
(* The brain process.                                                      *)

Request(w, kind) ==
    [kind |-> kind, brain |-> w.brain, row |-> w.row, gen |-> w.gen, left |-> MaxRetries]

Send(ms) ==
    /\ Cardinality(net \cup ms) <= MaxNet
    /\ net' = net \cup ms

Become(w, phase) == work' = (work \ {w}) \cup {[w EXCEPT !.phase = phase]}

\* activeAbort holds this session's gate key in this process.
InProgress(b, s) ==
    \E w \in work : /\ w.brain = b
                    /\ SessionOf[w.row] = s
                    /\ w.phase \in {"running", "stopping", "lost", "gone"}

BrainStep == UNCHANGED <<rowVars, hydrating, orphans, brain, stop>>

\* A deleted session or an unbound workspace: the claim is failed and settled, not
\* run, and of the unbound one the session stream reports the failure.
RefuseClaim(w) ==
    /\ w.phase = "claimed"
    /\ \E report \in {{}, {Request(w, "failed")}} :
           Send({Request(w, "fail"), Request(w, "settle")} \cup report)
    /\ work' = work \ {w}
    /\ BrainStep

\* Lock contention: the retry waits out a backoff with nothing renewing.
DeferForLockContention(w) ==
    /\ w.phase = "claimed"
    /\ Become(w, "backoff")
    /\ UNCHANGED net
    /\ BrainStep

\* The lock is acquired and the run starts, which the session stream reports.
StartRun(w) ==
    /\ w.phase = "claimed"
    /\ ~ InProgress(w.brain, SessionOf[w.row])
    /\ Become(w, "running")
    /\ Send({Request(w, "started")})
    /\ BrainStep

LeaseHeartbeat(w) ==
    /\ w.phase = "running"
    /\ Send({Request(w, "lease")})
    /\ UNCHANGED work
    /\ BrainStep

\* exec_complete is published, then the claimed wrapper's ack settles.
FinishRun(w) ==
    /\ w.phase \in {"running", "stopping"}
    /\ \E outcome \in IF w.phase = "running" THEN Terminal ELSE {"cancelled"} :
           Send({Request(w, outcome), Request(w, "settle")})
    /\ work' = work \ {w}
    /\ BrainStep

\* A retryable error, or SIGTERM: the claimed wrapper's nak.
RetryRun(w) ==
    /\ w.phase = "running"
    /\ Become(w, "backoff")
    /\ UNCHANGED net
    /\ BrainStep

\* handleLeaseLost and the task lock's self-fence: nothing is settled or sent.
StandDown(w) ==
    /\ w.phase \in {"running", "stopping", "lost"}
    /\ work' = work \ {w}
    /\ UNCHANGED net
    /\ BrainStep

\* handleRunRowTerminal: the wrapper's term() fails the claim.
TermRun(w) ==
    /\ w.phase = "gone"
    /\ Send({Request(w, "fail")})
    /\ work' = work \ {w}
    /\ BrainStep

\* The backoff timer fires, or the drain flushes it.
FireRetry(w) ==
    /\ w.phase = "backoff"
    /\ Send({Request(w, "unclaim")})
    /\ work' = work \ {w}
    /\ BrainStep

\* The process dies.  What it has sent is still in flight; the answers to its
\* claims will reach nobody.
Crash(b) ==
    /\ brain[b] # "down"
    /\ brain' = [brain EXCEPT ![b] = "down"]
    /\ work' = {w \in work : w.brain # b}
    /\ hydrating' = {IF h.brain = b THEN [h EXCEPT !.waiting = FALSE] ELSE h :
                         h \in hydrating}
    /\ UNCHANGED <<rowVars, orphans, net, stop>>

\* The container restarts in place and asks for its predecessor's runs back.
Restart(b) ==
    /\ brain[b] = "down"
    /\ brain' = [brain EXCEPT ![b] = "starting"]
    /\ orphans' = orphans \cup {b}
    /\ UNCHANGED <<rowVars, hydrating, work, net, stop>>

\* reclaimPreviousIncarnation returns: answered, failed, or timed out with the
\* request still on its way.
StartTaskDelivery(b) ==
    /\ brain[b] = "starting"
    /\ brain' = [brain EXCEPT ![b] = "up"]
    /\ orphans' \in {orphans, orphans \ {b}}
    /\ UNCHANGED <<rowVars, hydrating, work, net, stop>>

-----------------------------------------------------------------------------
(* The API processes what was sent.                                        *)

Again(m) == IF m.left > 0 THEN {[m EXCEPT !.left = @ - 1]} ELSE {}

\* The statement runs and its answer arrives, or it is lost and the sender
\* tries again until its attempts are spent.
Answered(m) == net' = net \ {m}
Unanswered(m) == net' = (net \ {m}) \cup Again(m)
Processed(m) == Answered(m) \/ Unanswered(m)

\* The request itself is lost.  Events are durable and are not.
Lose(m) ==
    /\ m.kind \notin Terminal \cup {"started"}
    /\ Unanswered(m)
    /\ UNCHANGED <<rowVars, brainVars, stop>>

\* Mutant: settled_attempt_id is not consulted.
RenewableAfterSettle(m) ==
    /\ status[m.row] \in RENEWABLE
    /\ owner[m.row] \in {NoBrain, m.brain} \/ lease[m.row] # "live"
    /\ claims[m.row] = m.gen
    /\ attempt[m.row] \in {0, m.gen}

\* The renewal UPDATE's WHERE.  One attempt per claim, so attempt_id is the
\* generation that opened it and a delivery pair of a claimed run is (0, 0).
Renewable(m) ==
    /\ status[m.row] \in RENEWABLE
    /\ owner[m.row] \in {NoBrain, m.brain} \/ lease[m.row] # "live"
    /\ claims[m.row] = m.gen
    /\ settled[m.row] # m.gen
    /\ attempt[m.row] \in {0, m.gen}

\* classifyRow, and how readRefusal reads it.  A sibling with any holder
\* evidence has been claimed, so claim_count stands for all three columns.
Refusal(m) ==
    IF lease[m.row] = "live" /\ owner[m.row] # m.brain THEN "lost"
    ELSE IF \E s \in Siblings(m.row) : claims[s] > 0 THEN "lost"
    ELSE IF status[m.row] \notin ACQUIRABLE THEN "gone"
    ELSE "lost"

\* What the heartbeat's answer does to the run that is waiting for it.
Hear(m, phase) ==
    \/ /\ Answered(m)
       /\ work' = {IF w.brain = m.brain /\ w.row = m.row /\ w.gen = m.gen
                      /\ w.phase = "running"
                   THEN [w EXCEPT !.phase = phase] ELSE w : w \in work}
    \/ /\ Unanswered(m)
       /\ UNCHANGED work

\* The lease route.  The per-claim token is checked first: once the row has
\* been released or claimed again the answer is a 401, which the brain reads as
\* unresolved, so the run goes on as before.  A token read just before the row
\* moved still gets the UPDATE's refusal.
RenewRunLease(m) ==
    /\ m.kind = "lease"
    /\ \/ /\ token[m.row] # m.gen
          /\ Hear(m, "running")
          /\ UNCHANGED rowVars
       \/ /\ token[m.row] = m.gen
          /\ Renewable(m)
          /\ owner' = [owner EXCEPT ![m.row] = m.brain]
          /\ lease' = [lease EXCEPT ![m.row] = "live"]
          /\ attempt' = [attempt EXCEPT ![m.row] = m.gen]
          /\ Hear(m, IF status[m.row] = "cancelling" THEN "stopping" ELSE "running")
          /\ UNCHANGED <<status, token, claims, settled, deadline>>
       \/ /\ ~ Renewable(m)
          /\ Hear(m, Refusal(m))
          /\ UNCHANGED rowVars
    /\ UNCHANGED <<hydrating, orphans, brain, stop>>

Unclaim(m) ==
    /\ m.kind = "unclaim"
    /\ Processed(m)
    /\ ReleaseClaim(m.brain, m.row, m.gen)
    /\ UNCHANGED <<brainVars, stop>>

FailHeldClaim(m) ==
    /\ m.kind = "fail"
    /\ Processed(m)
    /\ IF /\ Held(m.brain, m.row, m.gen)
          /\ status[m.row] \in {"queued", "preparing", "running"}
       THEN /\ SetStatus([status EXCEPT ![m.row] = "failed"])
            /\ ClearHolder({m.row})
            /\ ClearAttempt({m.row})
            /\ UNCHANGED <<claims, settled>>
       ELSE UNCHANGED rowVars
    /\ UNCHANGED <<brainVars, stop>>

\* settleFinishedClaim without release_lease: the attempt's token is spent.
SettleFinishedClaim(m) ==
    /\ m.kind = "settle"
    /\ Processed(m)
    /\ IF Held(m.brain, m.row, m.gen)
       THEN /\ settled' = [settled EXCEPT
                   ![m.row] = IF attempt[m.row] = 0 THEN @ ELSE attempt[m.row]]
            /\ ClearAttempt({m.row})
            /\ UNCHANGED <<status, owner, lease, token, claims, deadline>>
       ELSE UNCHANGED rowVars
    /\ UNCHANGED <<brainVars, stop>>

\* closeDuplicateDispatchSiblings: the rows of the turn nobody ever claimed.
DuplicateSiblings(r) ==
    {s \in Siblings(r) : /\ status[s] \in CLOSEABLE
                         /\ owner[s] = NoBrain
                         /\ lease[s] = "none"
                         /\ claims[s] = 0}

\* closeChatRun for the named row, then its duplicates: two statements, and what the
\* second closes was never claimed.  The holder columns of the closed row stay as
\* they are.
CloseChatRun(m) ==
    /\ m.kind \in Terminal
    /\ Processed(m)
    /\ IF status[m.row] \in CLOSEABLE /\ claims[m.row] = m.gen
       THEN SetStatus([Moved(DuplicateSiblings(m.row), "failed") EXCEPT ![m.row] = m.kind])
       ELSE UNCHANGED <<status, deadline>>
    /\ KeepHolder
    /\ UNCHANGED <<claims, settled, brainVars, stop>>

\* markChatRunRunning is addressed by session: every preparing row of it.
MarkChatRunRunning(m) ==
    /\ m.kind = "started"
    /\ Processed(m)
    /\ SetStatus(Moved({r \in Rows : /\ SessionOf[r] = SessionOf[m.row]
                                     /\ status[r] = "preparing"}, "running"))
    /\ KeepHolder
    /\ UNCHANGED <<claims, settled, brainVars, stop>>

\* requeueOrphanedDoorbellLeases: by the owner's name, live lease or not.
RequeueOrphaned(b) ==
    /\ b \in orphans
    /\ orphans' = orphans \ {b}
    /\ LET R == {r \in Rows : /\ status[r] \in ACQUIRABLE
                              /\ owner[r] = b
                              /\ deadline[r] # "past"}
       IN /\ SetStatus(Moved(R, "queued"))
          /\ ClearHolder(R)
          /\ ClearAttempt(R)
    /\ UNCHANGED <<claims, settled, hydrating, work, brain, net, stop>>

-----------------------------------------------------------------------------
(* Stop: two statements, not one transaction.                              *)

InterruptUnstarted(s) ==
    /\ stop[s] = "idle"
    /\ stop' = [stop EXCEPT ![s] = "halfway"]
    /\ SetStatus(Moved({r \in Rows : /\ SessionOf[r] = s
                                     /\ \/ status[r] = "queued"
                                        \/ status[r] = "preparing" /\ owner[r] = NoBrain},
                       "cancelled"))
    /\ KeepHolder
    /\ UNCHANGED <<claims, settled, brainVars, net>>

\* Mutant: a status the table does not know.
MisspeltStop(r) == IF owner[r] # NoBrain \/ lease[r] # "none" THEN "canceling" ELSE "cancelled"

\* A held row is asked to stop; an unheld one is closed outright.
StoppedStatus(r) == IF owner[r] # NoBrain \/ lease[r] # "none" THEN "cancelling" ELSE "cancelled"

CancelUnheldRuns(s) ==
    /\ stop[s] = "halfway"
    /\ stop' = [stop EXCEPT ![s] = "idle"]
    /\ SetStatus([r \in Rows |->
           IF SessionOf[r] = s /\ status[r] \in ACQUIRABLE
           THEN StoppedStatus(r) ELSE status[r]])
    /\ KeepHolder
    /\ UNCHANGED <<claims, settled, brainVars, net>>

-----------------------------------------------------------------------------
(* Time and the sweeper.                                                   *)

LeaseLapses(r) ==
    /\ lease[r] = "live"
    /\ lease' = [lease EXCEPT ![r] = "lapsed"]
    /\ UNCHANGED <<status, owner, token, claims, attempt, settled, deadline,
                   brainVars, net, stop>>

DeadlinePasses(r) ==
    /\ deadline[r] = "ahead"
    /\ deadline' = [deadline EXCEPT ![r] = "past"]
    /\ UNCHANGED <<status, owner, lease, token, claims, attempt, settled,
                   brainVars, net, stop>>

\* requeueLostDoorbellLeases, from the slow pass or the dead-lease pass.
RequeueLost(r) ==
    /\ status[r] \in ACQUIRABLE
    /\ lease[r] = "lapsed"
    /\ deadline[r] # "past"
    /\ SetStatus([status EXCEPT ![r] = "queued"])
    /\ ClearHolder({r})
    /\ ClearAttempt({r})
    /\ UNCHANGED <<claims, settled, brainVars, net, stop>>

\* reapExpiredQueuedRuns: how long a row has waited is not modelled.
ReapExpiredQueued(r) ==
    /\ status[r] = "queued"
    /\ SetStatus([status EXCEPT ![r] = "failed"])
    /\ KeepHolder
    /\ UNCHANGED <<claims, settled, brainVars, net, stop>>

\* reapExpiredDoorbellRuns: past its budget and held by nobody live.
ReapExpiredDoorbell(r) ==
    /\ status[r] \in {"queued", "preparing", "running"}
    /\ deadline[r] = "past"
    /\ lease[r] # "live"
    /\ SetStatus([status EXCEPT ![r] = "failed"])
    /\ ClearHolder({r})
    /\ UNCHANGED <<claims, attempt, settled, brainVars, net, stop>>

\* Mutant: the doorbell exclusion covers cancelling rows too.
NoDoorbellLost(r) == FALSE

LostWhileStopping(r) == status[r] = "cancelling" /\ lease[r] = "lapsed"

\* closeUnclaimedDispatchSiblings: as above, whatever lease_owner says.
UnclaimedSiblings(r) ==
    {s \in Siblings(r) : status[s] \in CLOSEABLE /\ lease[s] = "none" /\ claims[s] = 0}

\* reapLostLeases: of doorbell rows it takes only the cancelling ones, then, in a
\* statement of its own, the spares of the same turn.
ReapLostLease(r) ==
    /\ LostWhileStopping(r)
    /\ SetStatus([Moved(UnclaimedSiblings(r), "failed") EXCEPT ![r] = "cancelled"])
    /\ KeepHolder
    /\ UNCHANGED <<claims, settled, brainVars, net, stop>>

-----------------------------------------------------------------------------
ClaimStep == \E b \in Brains, r \in Rows : ClaimNextRun(b, r) \/ ClaimRunById(b, r)
FinishClaim == \E h \in hydrating : FinishExhausted(h) \/ HandOut(h) \/ HydrateFails(h)
ClaimAnswerLost == \E h \in hydrating : ClaimTimesOut(h)
WorkStep ==
    \E w \in work : \/ RefuseClaim(w)
                    \/ DeferForLockContention(w)
                    \/ StartRun(w)
                    \/ FinishRun(w)
                    \/ RetryRun(w)
                    \/ StandDown(w)
                    \/ TermRun(w)
                    \/ FireRetry(w)
Heartbeat == \E w \in work : LeaseHeartbeat(w)
BrainLifecycle == \E b \in Brains : Crash(b) \/ Restart(b)
BrainReady == \E b \in Brains : StartTaskDelivery(b)
ApiStep ==
    \E m \in net : \/ RenewRunLease(m)
                   \/ Unclaim(m)
                   \/ FailHeldClaim(m)
                   \/ SettleFinishedClaim(m)
                   \/ CloseChatRun(m)
                   \/ MarkChatRunRunning(m)
RequestLost == \E m \in net : Lose(m)
OrphanStep == \E b \in Brains : RequeueOrphaned(b)
StopStep == \E s \in Sessions : InterruptUnstarted(s) \/ CancelUnheldRuns(s)
ClockStep == \E r \in Rows : LeaseLapses(r) \/ DeadlinePasses(r)
SweepRow(r) ==
    RequeueLost(r) \/ ReapExpiredQueued(r) \/ ReapExpiredDoorbell(r) \/ ReapLostLease(r)
SweepStep == \E r \in Rows : SweepRow(r)

Next ==
    \/ ClaimStep
    \/ FinishClaim
    \/ ClaimAnswerLost
    \/ WorkStep
    \/ Heartbeat
    \/ BrainLifecycle
    \/ BrainReady
    \/ ApiStep
    \/ RequestLost
    \/ OrphanStep
    \/ StopStep
    \/ ClockStep
    \/ SweepStep

Spec == Init /\ [][Next]_vars

-----------------------------------------------------------------------------
(* Fairness.  The sweeper runs every pass on a timer; a request is          *)
(* processed or given up; the API finishes the claim it started; a run ends *)
(* because its deadline aborts it; a lease nobody renews runs out.  Nobody  *)
(* is obliged to claim, to heartbeat, to restart or to press Stop.          *)

Renewing(r) ==
    \/ \E w \in work : w.row = r /\ w.gen = claims[r] /\ w.phase = "running"
    \/ \E m \in net : m.row = r /\ m.gen = claims[r] /\ m.kind = "lease"

Abandoned(r) == LeaseLapses(r) /\ ~ Renewing(r)

FairSpec ==
    /\ Spec
    /\ WF_vars(FinishClaim)
    /\ WF_vars(WorkStep)
    /\ WF_vars(ApiStep)
    /\ \A r \in Rows : WF_vars(SweepRow(r)) /\ WF_vars(Abandoned(r))
=============================================================================
