---------------------------- MODULE PodDelivery ----------------------------
(***************************************************************************)
(* One brain pod and the deliveries it holds, from the moment one arrives  *)
(* to the moment it is settled (brain/src/delivery, tasks/dispatch.ts,     *)
(* index.ts).                                                              *)
(*                                                                         *)
(* Two kinds of work reach a pod.  A fat message carries its request; it   *)
(* comes again after every nak until its delivery budget is spent, and a   *)
(* leased one takes the lease of its row before it waits for a slot.  A    *)
(* doorbell only says that there is a row to claim; the claims of a row    *)
(* are numbered, and a claim is given back by a request to the API, at     *)
(* once or after a backoff that lives in this process.                     *)
(*                                                                         *)
(* Every await of the code ends an action: what happens between two awaits *)
(* is one step.                                                            *)
(***************************************************************************)
EXTENDS ExecutionGate, FiniteSets, SequencesExt

CONSTANTS
    Leased, Plain,      \* fat messages, with and without a pre-gate lease
    Rows,               \* rows behind doorbells
    Abandoned,          \* the place of a waiter that has left the queue's race
    MAX_DELIVER,        \* TASK_MAX_DELIVER
    SURPLUS_REFUSALS,
    Askers,             \* the claim-next loop and the doorbells being answered
    MaxClaims,          \* bound on the claims of a row
    MaxDetours          \* bound on the parks, the lost locks and the unanswered requests

POISON == MAX_DELIVER - 1

Fat == Leased \cup Plain
Claims == Rows \X (1 .. MaxClaims)
Jobs == Fat \cup Claims

ASSUME DeliveryAssumption ==
    /\ MAX_DELIVER \in Nat /\ MAX_DELIVER >= 3
    /\ SURPLUS_REFUSALS \in Nat /\ MaxClaims \in Nat /\ MaxDetours \in Nat
    /\ IsFiniteSet(Fat) /\ IsFiniteSet(Rows) /\ IsFiniteSet(Askers)
    /\ Leased \cap Plain = {} /\ Fat \cap Claims = {} /\ Abandoned \notin Fat

VARIABLES
    gate,       \* taskExecutionGate
    ghosts,     \* slots granted to abandoned waiters and not yet given back
    pc,         \* where each job is
    slots,      \* jobs whose runDelivery has slotHeld
    count,      \* deliveries of each fat message so far
    raised,     \* the stop its pre-gate heartbeat has raised, until it is settled
    lease,      \* the row lease of each fat message, as the API has it
    heard,      \* fat messages that have reached the guard, or were naked for
                \* something other than lack of room
    detours,    \* parks, lost locks and unanswered requests so far
    row,        \* what each doorbell row is
    generation, \* its claim_count
    asking,     \* who has a claim request in flight
    granted,    \* the claims the API has made for them, not yet heard of
    registry,   \* pendingRetries: the claim whose entry is under the row's id
    wire,       \* requests about claims that have no answer yet
    lost,       \* claims whose request went unanswered for good
    version,    \* the version drain
    stage,      \* how far the shutdown is
    awaited,    \* the runs it aborted and waits for
    standing,   \* runs whose lock is gone, told to stop for that
    flush       \* the requests it waits for

gateVars == <<gate, ghosts, slots>>
fatVars == <<count, raised, lease, heard>>
rowVars == <<row, generation, asking, granted, registry, wire, lost>>
podVars == <<version, stage, awaited, standing, flush>>
vars == <<gateVars, fatVars, rowVars, podVars, pc, detours>>

Draining == version \/ stage # "up"
Alive == stage # "exited"
Running == {"run", "parked", "resume"}

Init ==
    /\ gate = NewGate /\ ghosts = 0 /\ slots = {}
    /\ pc = [j \in Jobs |-> IF j \in Fat THEN "stream" ELSE "none"]
    /\ count = [f \in Fat |-> 0]
    /\ raised = [f \in Fat |-> "none"]
    /\ lease = [f \in Fat |-> "none"]
    /\ heard = {} /\ detours = 0
    /\ row = [r \in Rows |-> "queued"]
    /\ generation = [r \in Rows |-> 0]
    /\ asking = {} /\ granted = {}
    /\ registry = [r \in Rows |-> 0]
    /\ wire = {} /\ lost = {}
    /\ version = FALSE /\ stage = "up" /\ awaited = {} /\ standing = {} /\ flush = {}

-----------------------------------------------------------------------------
(* The gate and who is behind it. *)

\* The gate becomes g.  A grant to an abandoned waiter is a slot somebody must
\* still give back (raceGateAgainstStop).
GateIs(g) ==
    /\ gate' = g
    /\ ghosts' = IF Len(g.waiters) < Len(gate.waiters) /\ Head(gate.waiters) = Abandoned
                 THEN ghosts + 1 ELSE ghosts

\* Mutant: a delivery that never got its slot gives one back.
LeaveAnyway(j) == GateIs(Release(gate)) /\ slots' = slots \ {j}

\* The finally of runDelivery: the slot goes back if this delivery holds one.
Leave(j) ==
    IF j \in slots
    THEN GateIs(Release(gate)) /\ slots' = slots \ {j}
    ELSE UNCHANGED gateVars

Waits(j) == pc[j] = "wait" /\ j \in ToSet(gate.waiters)
Granted(j) == pc[j] = "wait" /\ j \notin ToSet(gate.waiters)

\* Mutant: the slot granted to an abandoned waiter stays taken.
KeepAbandonedSlot ==
    /\ Alive /\ ghosts > 0
    /\ ghosts' = ghosts - 1
    /\ UNCHANGED <<gate, slots, fatVars, rowVars, podVars, pc, detours>>

\* acquired.then(release): the abandoned grant is given back.
ReleaseAbandoned ==
    LET g == Release(gate)
        again == Len(g.waiters) < Len(gate.waiters) /\ Head(gate.waiters) = Abandoned
    IN  /\ Alive /\ ghosts > 0
        /\ gate' = g
        /\ ghosts' = IF again THEN ghosts ELSE ghosts - 1
        /\ UNCHANGED <<slots, fatVars, rowVars, podVars, pc, detours>>

-----------------------------------------------------------------------------
(* A fat message, up to its slot. *)

\* Mutant: the stream keeps no count.
AlwaysAgain(n) == "stream"

\* After a nak the stream delivers again, unless the budget is spent.
AfterNak(n) == IF n < MAX_DELIVER THEN "stream" ELSE "dropped"

\* Mutant: refused whenever there is no room.
CanAlwaysRefuse(n) == TRUE

canRefuse(n) == n <= SURPLUS_REFUSALS /\ n < POISON - 1

Deliver(f) ==
    /\ Alive /\ pc[f] = "stream"
    /\ count' = [count EXCEPT ![f] = @ + 1]

RefuseDraining(f) ==
    /\ Deliver(f) /\ Draining
    /\ pc' = [pc EXCEPT ![f] = AfterNak(count'[f])]
    /\ heard' = heard \cup {f}
    /\ UNCHANGED <<gateVars, raised, lease, rowVars, podVars, detours>>

RefuseSurplus(f) ==
    /\ Deliver(f) /\ ~Draining
    /\ ~Admissible(gate) /\ canRefuse(count'[f])
    /\ pc' = [pc EXCEPT ![f] = AfterNak(count'[f])]
    /\ UNCHANGED <<gateVars, raised, lease, heard, rowVars, podVars, detours>>

\* Kept: a plain delivery queues for a slot, a leased one first asks for its row.
Admit(f) ==
    /\ Deliver(f) /\ ~Draining
    /\ Admissible(gate) \/ ~canRefuse(count'[f])
    /\ IF f \in Leased
       THEN pc' = [pc EXCEPT ![f] = "accept"] /\ UNCHANGED gateVars
       ELSE pc' = [pc EXCEPT ![f] = "wait"] /\ GateIs(Acquire(gate, f)) /\ UNCHANGED slots
    /\ UNCHANGED <<raised, lease, heard, rowVars, podVars, detours>>

\* preGateLease and armPreGate, on the answer of the row's lease.
Accepted(f) ==
    /\ Alive /\ pc[f] = "accept"
    /\ lease' = [lease EXCEPT ![f] = "held"]
    /\ \/ /\ pc' = [pc EXCEPT ![f] = "wait"]
          /\ GateIs(Acquire(gate, f)) /\ UNCHANGED <<slots, raised>>
       \/ /\ pc' = [pc EXCEPT ![f] = "settle"]          \* already told to stop
          /\ raised' = [raised EXCEPT ![f] = "cancelling"] /\ UNCHANGED gateVars
    /\ UNCHANGED <<count, heard, rowVars, podVars, detours>>

\* The row is over, or the answer is a refusal, or there is no answer and the
\* lease may have been granted.
NotAccepted(f) ==
    /\ Alive /\ pc[f] = "accept"
    /\ \/ pc' = [pc EXCEPT ![f] = "done"] /\ UNCHANGED <<lease, heard>>
       \/ /\ pc' = [pc EXCEPT ![f] = AfterNak(count[f])]
          /\ heard' = heard \cup {f}
          /\ \E known \in {lease[f], "forgotten"} : lease' = [lease EXCEPT ![f] = known]
    /\ UNCHANGED <<gateVars, count, raised, rowVars, podVars, detours>>

\* The pre-gate heartbeat learns that the run must stop.  A delivery still in the
\* queue stops waiting and leaves its place there; one already granted goes on and
\* finds the stop raised.
RaiseStop(f) ==
    /\ Alive /\ pc[f] = "wait" /\ f \in Leased /\ raised[f] = "none"
    /\ \E why \in {"cancelling", "gone", "superseded"} :
         /\ raised' = [raised EXCEPT ![f] = why]
         /\ lease' = [lease EXCEPT ![f] = IF why = "cancelling" THEN @ ELSE "none"]
    /\ IF Waits(f)
       THEN /\ pc' = [pc EXCEPT ![f] = "settle"]
            /\ gate' = [gate EXCEPT !.waiters = [i \in 1 .. Len(@) |-> IF @[i] = f THEN Abandoned ELSE @[i]]]
       ELSE UNCHANGED <<pc, gate>>
    /\ UNCHANGED <<ghosts, slots, count, heard, rowVars, podVars, detours>>

\* The slot has come.  The drain is looked at again, then the stop.
Proceed(f) ==
    /\ Alive /\ Granted(f)
    /\ IF Draining /\ raised[f] = "none"
       THEN /\ heard' = heard \cup {f}
            /\ IF f \in Leased
               THEN /\ pc' = [pc EXCEPT ![f] = "release"]
                    /\ slots' = slots \cup {f}
                    /\ UNCHANGED <<gate, ghosts>>
               ELSE /\ pc' = [pc EXCEPT ![f] = AfterNak(count[f])]
                    /\ GateIs(Release(gate))
                    /\ UNCHANGED slots
       ELSE /\ slots' = slots \cup {f}
            /\ pc' = [pc EXCEPT ![f] = IF raised[f] = "none" THEN "check" ELSE "settle"]
            /\ heard' = IF raised[f] = "none" THEN heard \cup {f} ELSE heard
            /\ UNCHANGED <<gate, ghosts>>
    /\ UNCHANGED <<count, raised, lease, rowVars, podVars, detours>>

\* settleStopped: a cancelled run gets its event, and keeps its message if that fails.
SettleStopped(f) ==
    /\ Alive /\ pc[f] = "settle"
    /\ \/ /\ raised[f] \in {"cancelling", "gone"}
          /\ pc' = [pc EXCEPT ![f] = "done"] /\ lease' = [lease EXCEPT ![f] = "none"]
          /\ Leave(f) /\ UNCHANGED heard
       \/ /\ raised[f] = "cancelling"
          /\ pc' = [pc EXCEPT ![f] = "release"] /\ UNCHANGED <<lease, gateVars>>
          /\ heard' = heard \cup {f}
       \/ /\ raised[f] = "superseded"
          /\ pc' = [pc EXCEPT ![f] = AfterNak(count[f])] /\ UNCHANGED lease
          /\ Leave(f) /\ heard' = heard \cup {f}
    /\ raised' = [raised EXCEPT ![f] = "none"]
    /\ UNCHANGED <<count, rowVars, podVars, detours>>

\* Mutant: the message is given back without waiting for its lease to be.
NakFirst(f) ==
    /\ Alive /\ pc[f] = "release"
    /\ pc' = [pc EXCEPT ![f] = AfterNak(count[f])]
    /\ Leave(f)
    /\ UNCHANGED <<fatVars, rowVars, podVars, detours>>

\* The release of the lease is answered, or given up on; only then the nak.
ReleaseThenNak(f) ==
    /\ Alive /\ pc[f] = "release"
    /\ \E left \in {"none", IF lease[f] = "held" THEN "forgotten" ELSE "none"} :
            lease' = [lease EXCEPT ![f] = left]
    /\ pc' = [pc EXCEPT ![f] = AfterNak(count[f])]
    /\ Leave(f)
    /\ UNCHANGED <<count, raised, heard, rowVars, podVars, detours>>

-----------------------------------------------------------------------------
(* handleResolvedRequest on a fat delivery. *)

\* The session is gone, or the task is resolved as failed at the guard.
FinishAtGuard(f) ==
    /\ Alive /\ pc[f] = "check"
    /\ pc' = [pc EXCEPT ![f] = "done"]
    /\ lease' = [lease EXCEPT ![f] = "none"]
    /\ Leave(f)
    /\ UNCHANGED <<count, raised, heard, rowVars, podVars, detours>>

\* At the guard: resolving it failed, or, on the last delivery, the lock names this
\* very message and it is left unsettled.  Neither gives the lease back.
NotResolved(f) ==
    /\ Alive /\ pc[f] = "check" /\ count[f] >= POISON
    /\ pc' = [pc EXCEPT ![f] = AfterNak(count[f])]
    /\ lease' = [lease EXCEPT ![f] = IF @ = "held" THEN "forgotten" ELSE @]
    /\ Leave(f)
    /\ UNCHANGED <<count, raised, heard, rowVars, podVars, detours>>

\* The lock is held, in this process or elsewhere.
DeferForLock(f) ==
    /\ Alive /\ pc[f] = "check" /\ count[f] < MAX_DELIVER
    /\ pc' = [pc EXCEPT ![f] = "release"]
    /\ UNCHANGED <<gateVars, fatVars, rowVars, podVars, detours>>

StartFat(f) ==
    /\ Alive /\ pc[f] = "check" /\ count[f] <= POISON
    /\ pc' = [pc EXCEPT ![f] = "run"]
    /\ UNCHANGED <<gateVars, fatVars, rowVars, podVars, detours>>

FinishFat(f) ==
    /\ Alive /\ pc[f] = "run"
    /\ pc' = [pc EXCEPT ![f] = "done"]
    /\ lease' = [lease EXCEPT ![f] = "none"]
    /\ Leave(f)
    /\ UNCHANGED <<count, raised, heard, rowVars, podVars, detours>>

\* nakAfterAttempt, of a failed attempt or of one the shutdown has aborted.
RetryFat(f) ==
    /\ Alive /\ pc[f] = "run" /\ f \notin standing
    /\ pc' = [pc EXCEPT ![f] = "release"]
    /\ UNCHANGED <<gateVars, fatVars, rowVars, podVars, detours>>

\* replayPendingCallback, before anything else of the run: the stored callback
\* cannot be looked up.  The message goes back with its lease left to lapse.
ReplayUnread(f) ==
    /\ Alive /\ pc[f] = "run" /\ f \notin standing
    /\ pc' = [pc EXCEPT ![f] = AfterNak(count[f])]
    /\ lease' = [lease EXCEPT ![f] = IF @ = "held" THEN "forgotten" ELSE @]
    /\ Leave(f)
    /\ UNCHANGED <<count, raised, heard, rowVars, podVars, detours>>

-----------------------------------------------------------------------------
(* Any run waiting for something outside (whileInState). *)

ParkRun(j) ==
    /\ Alive /\ pc[j] = "run" /\ detours < MaxDetours
    /\ pc' = [pc EXCEPT ![j] = "parked"]
    /\ detours' = detours + 1
    /\ GateIs(Park(gate)) /\ UNCHANGED slots
    /\ UNCHANGED <<fatVars, rowVars, podVars>>

UnparkRun(j) ==
    /\ Alive /\ pc[j] = "parked"
    /\ pc' = [pc EXCEPT ![j] = "resume"]
    /\ GateIs(Unpark(gate, j)) /\ UNCHANGED slots
    /\ UNCHANGED <<fatVars, rowVars, podVars, detours>>

ResumeRun(j) ==
    /\ Alive /\ pc[j] = "resume" /\ j \notin ToSet(gate.resuming)
    /\ pc' = [pc EXCEPT ![j] = "run"]
    /\ UNCHANGED <<gateVars, fatVars, rowVars, podVars, detours>>

-----------------------------------------------------------------------------
(* Any run whose lock is lost. *)

\* The keep-alive or the self-fence aborts the run, unless the shutdown was first.
LoseLock(j) ==
    /\ Alive /\ pc[j] \in Running /\ j \notin awaited \cup standing
    /\ detours < MaxDetours /\ detours' = detours + 1
    /\ standing' = standing \cup {j}
    /\ UNCHANGED <<gateVars, fatVars, rowVars, version, stage, awaited, flush, pc>>

\* handleLeaseLost: nothing is settled and nothing is sent.  A message comes again
\* when its ack wait is over, a claim is left to lapse.
StandDown(j) ==
    /\ Alive /\ pc[j] = "run" /\ j \in standing
    /\ pc' = [pc EXCEPT ![j] = IF j \in Fat THEN AfterNak(count[j]) ELSE "done"]
    /\ lease' = [f \in Fat |-> IF f = j /\ lease[f] = "held" THEN "forgotten" ELSE lease[f]]
    /\ standing' = standing \ ({j} \ awaited)
    /\ Leave(j)
    /\ UNCHANGED <<count, raised, heard, rowVars, version, stage, awaited, flush, detours>>

-----------------------------------------------------------------------------
(* Claims: the claim-next loop and doorbell wakeups. *)

\* A slot first, then the claim.  A wakeup with no room is acknowledged and forgotten.
Ask(k) ==
    /\ ~Draining /\ k \notin asking /\ Admissible(gate)
    /\ asking' = asking \cup {k}
    /\ GateIs(Acquire(gate, k)) /\ UNCHANGED slots
    /\ UNCHANGED <<fatVars, row, generation, granted, registry, wire, lost,
                   podVars, pc, detours>>

\* The API's side: takeClaim.
ClaimServed(k, r) ==
    /\ Alive /\ k \in asking /\ \A g \in granted : g[1] # k
    /\ row[r] = "queued" /\ generation[r] < MaxClaims
    /\ row' = [row EXCEPT ![r] = "held"]
    /\ generation' = [generation EXCEPT ![r] = @ + 1]
    /\ granted' = granted \cup {<<k, <<r, generation'[r]>>>>}
    /\ UNCHANGED <<gateVars, fatVars, asking, registry, wire, lost, podVars, pc,
                   detours>>

\* The answer: from here on the claim has its own delivery under the same slot.
ClaimArrives(k, c) ==
    /\ Alive /\ <<k, c>> \in granted
    /\ granted' = granted \ {<<k, c>>} /\ asking' = asking \ {k}
    /\ pc' = [pc EXCEPT ![c] = "check"]
    /\ slots' = slots \cup {c}
    /\ UNCHANGED <<gate, ghosts, fatVars, row, generation, registry, wire, lost,
                   podVars, detours>>

\* Nothing to claim, or no answer to a claim that was served or not.
ClaimMissed(k) ==
    /\ Alive /\ k \in asking
    /\ asking' = asking \ {k}
    /\ LET missed == {g \in granted : g[1] = k}
       IN  granted' = granted \ missed /\ lost' = lost \cup {g[2] : g \in missed}
    /\ GateIs(Release(gate)) /\ UNCHANGED slots
    /\ UNCHANGED <<fatVars, row, generation, registry, wire, podVars, pc, detours>>

\* The session is gone: settled without waiting, failed and waited for.
FailDeleted(c) ==
    /\ Alive /\ pc[c] = "check"
    /\ pc' = [pc EXCEPT ![c] = "failing"]
    /\ wire' = wire \cup {<<c, "settle">>, <<c, "fail">>}
    /\ UNCHANGED <<gateVars, fatVars, row, generation, asking, granted, registry,
                   lost, podVars, detours>>

FailAnswered(c) ==
    /\ Alive /\ pc[c] = "failing" /\ <<c, "fail">> \notin wire
    /\ pc' = [pc EXCEPT ![c] = "done"]
    /\ Leave(c)
    /\ UNCHANGED <<fatVars, rowVars, podVars, detours>>

\* The lock admits one run of a row at a time.
StartClaimed(c) ==
    /\ Alive /\ pc[c] = "check"
    /\ \A d \in Claims : d[1] = c[1] => pc[d] \notin Running
    /\ pc' = [pc EXCEPT ![c] = "run"]
    /\ UNCHANGED <<gateVars, fatVars, rowVars, podVars, detours>>

\* settleRetry with a delay: the entry under the row's id is this claim's from now
\* on.  An attempt that had failed when the shutdown came backs off too, and is the
\* flush's to hand back.
BackOff(c) ==
    /\ Alive
    /\ pc[c] = "check" \/ (pc[c] = "run" /\ c \notin standing)
    /\ pc' = [pc EXCEPT ![c] = "backoff"]
    /\ registry' = [registry EXCEPT ![c[1]] = c[2]]
    /\ awaited' = awaited \ {c}
    /\ Leave(c)
    /\ UNCHANGED <<fatVars, row, generation, asking, granted, wire, lost,
                   version, stage, standing, flush, detours>>

\* The timer of a backoff: whatever entry is under the row's id goes.
TimerFires(c) ==
    /\ Alive /\ pc[c] = "backoff"
    /\ pc' = [pc EXCEPT ![c] = "done"]
    /\ registry' = [registry EXCEPT ![c[1]] = 0]
    /\ wire' = wire \cup {<<c, "release">>}
    /\ UNCHANGED <<gateVars, fatVars, row, generation, asking, granted, lost,
                   podVars, detours>>

\* nak(0) at the end of a run that the shutdown aborted.
HandBackNow(c) ==
    /\ Alive /\ pc[c] = "run" /\ c \in awaited \ standing
    /\ pc' = [pc EXCEPT ![c] = "done"]
    /\ registry' = [registry EXCEPT ![c[1]] = 0]
    /\ wire' = wire \cup {<<c, "release">>}
    /\ Leave(c)
    /\ UNCHANGED <<fatVars, row, generation, asking, granted, lost, podVars, detours>>

\* ack(): the terminal event has closed the row, the settle is on its way.
FinishClaimed(c) ==
    /\ Alive /\ pc[c] = "run"
    /\ pc' = [pc EXCEPT ![c] = "done"]
    /\ row' = [row EXCEPT ![c[1]] = IF generation[c[1]] = c[2] THEN "ended" ELSE @]
    /\ wire' = wire \cup {<<c, "settle">>}
    /\ Leave(c)
    /\ UNCHANGED <<fatVars, generation, asking, granted, registry, lost, podVars,
                   detours>>

\* term(): the row was closed under the run.
TermClaimed(c) ==
    /\ Alive /\ pc[c] = "run" /\ row[c[1]] = "ended" /\ c \notin standing
    /\ pc' = [pc EXCEPT ![c] = "done"]
    /\ wire' = wire \cup {<<c, "fail">>}
    /\ Leave(c)
    /\ UNCHANGED <<fatVars, row, generation, asking, granted, registry, lost,
                   podVars, detours>>

\* The API serves a request about a claim and answers; it is fenced by the claim.
Answer(m) ==
    LET c == m[1]
        held == row[c[1]] = "held" /\ generation[c[1]] = c[2]
    IN  /\ Alive /\ m \in wire
        /\ wire' = wire \ {m}
        /\ row' = [row EXCEPT ![c[1]] =
                     CASE held /\ m[2] = "release" -> "queued"
                       [] held /\ m[2] = "fail"    -> "ended"
                       [] OTHER                    -> @]
        /\ UNCHANGED <<gateVars, fatVars, generation, asking, granted, registry,
                       lost, podVars, pc, detours>>

\* The sender gives up on a request that was never served.
GiveUp(m) ==
    /\ Alive /\ m \in wire /\ detours < MaxDetours /\ detours' = detours + 1
    /\ wire' = wire \ {m}
    /\ lost' = lost \cup {m[1]}
    /\ UNCHANGED <<gateVars, fatVars, row, generation, asking, granted, registry,
                   podVars, pc>>

\* Nobody heartbeats the claim: its lease lapses and the sweeper requeues the row.
Lapse(r) ==
    /\ Alive /\ row[r] = "held"
    /\ pc[<<r, generation[r]>>] \notin Running
    /\ row' = [row EXCEPT ![r] = "queued"]
    /\ UNCHANGED <<gateVars, fatVars, generation, asking, granted, registry,
                   wire, lost, podVars, pc, detours>>

\* A Stop or a reaper closes the row under its holder.
CloseRow(r) ==
    /\ Alive /\ row[r] = "held"
    /\ row' = [row EXCEPT ![r] = "ended"]
    /\ UNCHANGED <<gateVars, fatVars, generation, asking, granted, registry,
                   wire, lost, podVars, pc, detours>>

-----------------------------------------------------------------------------
(* Draining and shutting down. *)

\* The fleet wants another version, and later this one again.
VersionDrain ==
    /\ Alive
    /\ version' = ~version
    /\ UNCHANGED <<gateVars, fatVars, rowVars, stage, awaited, standing, flush, pc, detours>>

\* beginShutdown, up to its first await: the executing runs are aborted.
BeginShutdown ==
    /\ stage = "up"
    /\ stage' = "awaiting"
    /\ awaited' = {j \in Jobs : pc[j] \in Running}
    /\ UNCHANGED <<gateVars, fatVars, rowVars, version, standing, flush, pc, detours>>

\* The runs are over: flushPendingRetries fires what backs off.
FlushPendingRetries ==
    LET waiting == {<<r, registry[r]>> : r \in {r \in Rows : registry[r] # 0}}
    IN  /\ stage = "awaiting"
        /\ \A j \in awaited : pc[j] \notin Running \cup {"release"}
        /\ stage' = "flushing"
        /\ pc' = [j \in Jobs |-> IF j \in waiting THEN "done" ELSE pc[j]]
        /\ registry' = [r \in Rows |-> 0]
        /\ flush' = waiting \X {"release"}
        /\ wire' = wire \cup flush'
        /\ UNCHANGED <<gateVars, fatVars, row, generation, asking, granted, lost,
                       version, awaited, standing, detours>>

\* Mutant: what is already on the wire is not waited for.
AwaitNothing ==
    /\ stage = "flushing" /\ flush \cap wire = {}
    /\ stage' = "settling"
    /\ flush' = {}
    /\ UNCHANGED <<gateVars, fatVars, rowVars, version, awaited, standing, pc, detours>>

\* Then the releases that had already left; a fail is not among them.
AwaitReleases ==
    /\ stage = "flushing" /\ flush \cap wire = {}
    /\ stage' = "settling"
    /\ flush' = {m \in wire : m[2] # "fail"}
    /\ UNCHANGED <<gateVars, fatVars, rowVars, version, awaited, standing, pc, detours>>

Exit ==
    /\ stage = "settling" /\ flush \cap wire = {}
    /\ stage' = "exited"
    /\ UNCHANGED <<gateVars, fatVars, rowVars, version, awaited, standing, flush, pc, detours>>

-----------------------------------------------------------------------------
\* What ends an await of a fat delivery that the pod has kept.
FatProgress(f) ==
    \/ Accepted(f) \/ NotAccepted(f) \/ Proceed(f) \/ SettleStopped(f) \/ ReleaseThenNak(f)
    \/ FinishAtGuard(f) \/ NotResolved(f) \/ DeferForLock(f)
    \/ StartFat(f) \/ FinishFat(f) \/ RetryFat(f) \/ ReplayUnread(f) \/ StandDown(f)

ClaimProgress(c) ==
    \/ FailDeleted(c) \/ FailAnswered(c) \/ StartClaimed(c) \/ BackOff(c) \/ TimerFires(c)
    \/ HandBackNow(c) \/ FinishClaimed(c) \/ TermClaimed(c) \/ StandDown(c)

ClaimRequestProgress(k) ==
    \/ \E r \in Rows : ClaimServed(k, r)
    \/ \E c \in Claims : ClaimArrives(k, c)
    \/ ClaimMissed(k)

Shutdown == FlushPendingRetries \/ AwaitReleases \/ Exit

Next ==
    \/ \E f \in Fat : RefuseDraining(f) \/ RefuseSurplus(f) \/ Admit(f) \/ RaiseStop(f) \/ FatProgress(f)
    \/ \E c \in Claims : ClaimProgress(c)
    \/ \E j \in Jobs : ParkRun(j) \/ UnparkRun(j) \/ ResumeRun(j) \/ LoseLock(j)
    \/ \E k \in Askers : Ask(k) \/ ClaimRequestProgress(k)
    \/ \E m \in wire : Answer(m) \/ GiveUp(m)
    \/ \E r \in Rows : Lapse(r) \/ CloseRow(r)
    \/ ReleaseAbandoned \/ VersionDrain \/ BeginShutdown \/ Shutdown

Spec == Init /\ [][Next]_vars

\* Every await ends: requests are answered or time out, what a parked run waits for
\* is bounded, runs end, promises that are resolved run their continuations.
\* Nothing obliges the stream to deliver, anybody to stop a run, or the pod to drain.
Fairness ==
    /\ \A f \in Fat : WF_vars(FatProgress(f))
    /\ \A c \in Claims : WF_vars(ClaimProgress(c))
    /\ \A j \in Jobs : WF_vars(UnparkRun(j) \/ ResumeRun(j))
    /\ \A k \in Askers : WF_vars(ClaimRequestProgress(k))
    /\ WF_vars(\E m \in wire : Answer(m) \/ GiveUp(m))
    /\ WF_vars(ReleaseAbandoned)
    /\ WF_vars(Shutdown)

FairSpec == Spec /\ Fairness

-----------------------------------------------------------------------------
Stops == {"none", "cancelling", "gone", "superseded"}
Places == {"stream", "dropped", "accept", "wait", "settle", "release", "none", "check", "failing",
           "run", "parked", "resume", "backoff", "done"}

\* Every delivery is at one of the awaits of the code, and counted within its budget.
TypeOK ==
    /\ gate \in [active : Nat, parked : Nat, waiters : Seq(Fat \cup {Abandoned}), resuming : Seq(Jobs)]
    /\ ghosts \in Nat /\ slots \subseteq Jobs
    /\ pc \in [Jobs -> Places]
    /\ count \in [Fat -> 0 .. MAX_DELIVER]
    /\ raised \in [Fat -> Stops]
    /\ lease \in [Fat -> {"none", "held", "forgotten"}]
    /\ heard \subseteq Fat /\ detours \in 0 .. MaxDetours
    /\ row \in [Rows -> {"queued", "held", "ended"}]
    /\ generation \in [Rows -> 0 .. MaxClaims]
    /\ asking \subseteq Askers /\ granted \subseteq asking \X Claims
    /\ registry \in [Rows -> 0 .. MaxClaims]
    /\ wire \subseteq Claims \X {"release", "settle", "fail"}
    /\ lost \subseteq Claims
    /\ version \in BOOLEAN
    /\ stage \in {"up", "awaiting", "flushing", "settling", "exited"}
    /\ awaited \subseteq Jobs /\ standing \subseteq Jobs
    /\ flush \subseteq Claims \X {"release", "settle", "fail"}

\* The runs that are executing, the deliveries a slot was granted to, the claims
\* asked for under a slot.
InSlot ==
    {j \in slots : pc[j] # "parked" /\ ~(pc[j] = "resume" /\ j \in ToSet(gate.resuming))}
        \cup {f \in Fat : Granted(f)}

(***************************************************************************)
(* The gate's counters are the truth: every slot it counts as taken is     *)
(* held by a run, a delivery, a claim request or an abandoned grant about  *)
(* to be given back, and every resident it counts as parked is a parked    *)
(* run.  A slot leaked by a stop, a drain or a failed claim would show     *)
(* here, and so would one given back twice                                 *)
(* (execution-gate.ts; runDelivery's finally; raceGateAgainstStop).        *)
(***************************************************************************)
SlotsAreAccountedFor ==
    /\ gate.active = Cardinality(InSlot) + Cardinality(asking) + ghosts
    /\ gate.parked = Cardinality({j \in Jobs : pc[j] = "parked"})

(***************************************************************************)
(* Capacity holds through every park and return: no more than MAX runs     *)
(* execute, no more than RESIDENT hold a sandbox, and nobody is left       *)
(* waiting beside a free place (ExecutionGate.wake).                       *)
(***************************************************************************)
CapacityIsKeptAndUsed ==
    /\ gate.active <= MAX
    /\ gate.active + gate.parked + Len(gate.resuming) <= RESIDENT
    /\ gate.resuming # << >> => gate.active = MAX
    /\ gate.waiters # << >> => ~Admissible(gate)

(***************************************************************************)
(* A message that is back on the stream has no lease of this pod's on its  *)
(* row, so the redelivery is not refused by the delivery before it: the    *)
(* release is answered before the nak of a drain, a stop, a held lock or a *)
(* failed attempt (runDelivery, settleStopped, deferForLockContention,     *)
(* nakAfterAttempt).  Outside are the requests that got no answer and the  *)
(* three ways the code gives a message back with its lease left to lapse:  *)
(* a guard whose resolution failed, a run whose stored callback could not  *)
(* be looked up (replayPendingCallback), and one that stood down.          *)
(***************************************************************************)
NakedMessageIsUnleased ==
    \A f \in Fat : pc[f] \in {"stream", "dropped"} => lease[f] # "held"

(***************************************************************************)
(* Refusals for lack of room cannot use a message up: one that the stream  *)
(* drops either reached the guard that reports it, or was naked for a      *)
(* reason nothing rations (a drain, a lease not obtained).                 *)
(* (SURPLUS_REFUSALS and canRefuse.)                                       *)
(***************************************************************************)
RefusalsNeverDropAMessage ==
    \A f \in Fat : pc[f] = "dropped" => f \in heard

(***************************************************************************)
(* A pod that has exited has handed back every claim whose run the         *)
(* shutdown aborted, unless the API did not answer: the immediate retry    *)
(* and the wait for releases in flight leave none behind (beginShutdown,   *)
(* flushPendingRetries).  Outside are the runs that had lost their lock    *)
(* when the signal came, which settle nothing (handleLeaseLost), and those *)
(* whose attempt had failed by then and backs off.                         *)
(***************************************************************************)
HandedBack(c) == row[c[1]] = "held" /\ generation[c[1]] = c[2] => c \in lost

ExitHandsBackRuns ==
    stage = "exited" => \A c \in (Claims \cap awaited) \ standing : HandedBack(c)

(***************************************************************************)
(* A pod told to stop does stop, whatever its runs wait for: those that    *)
(* are parked come back through the gate that the others leave.            *)
(***************************************************************************)
ShutdownEnds == stage = "awaiting" ~> stage = "exited"

(***************************************************************************)
(* A delivery the pod keeps beyond its room gets its turn: the gate hands  *)
(* slots over in order, and no new work overtakes the queue.               *)
(***************************************************************************)
KeptDeliveryIsServed ==
    \A f \in Fat : pc[f] = "wait" ~> (pc[f] # "wait" \/ stage = "exited")
=============================================================================
