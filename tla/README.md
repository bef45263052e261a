# TLA+ verification of PrimusClaw's run protocol

PrimusClaw is an agent platform. Its core is `src/claw/packages`: an **API**
that keeps sessions, turns and tasks in PostgreSQL, a fleet of **brains** that
execute turns, and **hands** that run tools in sandboxes. A turn costs money and
has side effects, so what must be right is which process is executing which
turn: that it is executed at all, by one brain at a time, under one row, that a
Stop ends it and that a brain which lost it cannot disturb its successor.

The models here are about that protocol: how a message becomes a turn, a turn a
row, a row a delivery and a delivery a run, and how each of them ends. They are translated from the source;
`PROJECT.json` maps each definition to the lines it stands for.

## Inventory

| component | state | operations | hard behaviour | what makes it correct |
|---|---|---|---|---|
| run claim (`api/src/tasks/run-claim.ts`, `routes/internal-runs.ts`) | `claw_tasks` row: status, lease_owner, lease_expires_at, claim_count, token hash, attempt ids, deadline | claim by id, claim-next, release, fail, settle, poison close | requests delayed, duplicated, sent by dead processes | only the current claim of a row can end it |
| run lease (`routes/internal-tasks.ts`) | the same row | renew, acquire, refuse | a heartbeat racing release, reclaim, settle, Stop | a settled or superseded attempt stays dead |
| chat run rows and Stop (`tasks/chat-run.ts`, `tasks/db.ts`) | the same row, `claw_sessions` | open, mark running, close, close duplicates, interrupt | two statements per Stop; rows of a replayed dispatch | one active row per turn; ended rows stay ended |
| sweeper (`tasks/sweeper.ts`) | the same rows | requeue lost or orphaned leases, reap queued, expired, lost | acts on evidence that may be stale | never takes a live run; every run ends |
| completion consumer (`events/consumer.ts`) | event stream position | close the row a completion names | redelivery, order | an old completion closes nothing new |
| brain worker (`brain/src/tasks`, `delivery`, `clients`) | in-memory run, timers, retry registry | claim, start, heartbeat, finish, retry, stand down, restart | crash at any point, 401s, timeouts | stops when told, gives back what it holds |
| task lock (`brain/src/tasks/lock.ts`) | NATS KV entry, in-memory proof of it | acquire, take over, refresh, self-fence, release | lost acks, clock differences, local forced release | one executor per session |
| session gate (`tasks/chat-run.ts`, `sessions/`, `events/consumer.ts`) | `agent_status`, `agent_gate_message_id`, `pending_drain_until`, `claw_pending_messages` | submit, park, drain, complete, roll back, hand back | crash between gate and row; two drains; late completions | one turn at a time; no message lost or run twice; a gate is never shut for ever |
| dispatch (`tasks/pending-dispatch.ts`, `run-dispatch.ts`, `dispatcher.ts`) | `dispatch_task_id`, run row, publish | reserve an id, open, publish, classify after a fault, refuse, abandon | an ambiguous publish; a retry of what was done | a retry neither repeats nor drops the turn |
| pod delivery (`brain/src/delivery`, `tasks/dispatch.ts`, `index.ts`) | deliveries held, execution slots, retry registry, drain state | refuse, keep, lease, settle, back off, flush, exit | stops racing slots; releases racing naks and the exit | no slot leaks; no lease left on a returned message; shutdown ends and hands runs back |
| execution gate (`brain/src/tasks/execution-gate.ts`) | active, parked, waiters, resuming | acquire, release, park, unpark | lost or double wake | capacity kept and used |
| task graphs (`tasks/scheduler.ts`, `dag-expander.ts`, `lifecycle.ts`) | node rows, virtual root, sandbox handle, stored callbacks | promote, cascade, aggregate, dispatch, finish, cancel, reap | leaderless replicas; late results; cancel in two statements | nodes follow their inputs once; endings final; every graph ends |
| lease timing (`protocol/src/run-lease.ts`) | none | arithmetic over settings | off-by-one at a boundary | a reaper never pre-empts a legitimate takeover |
| others | | | | assistant, GitHub review, remote agents, triggers, outbox, marketplace, auth, hands, the Go sandbox control plane and the Python memory service: see `PROJECT.json` for why each is outside |

Interaction: the API inserts a row and rings a doorbell (or brains poll
claim-next). A brain posts a claim; the API updates the row, reads the spec and
answers with it. The brain takes the task lock in NATS, runs the agent,
heartbeats `/lease`, publishes events to a stream the API consumes, and ends
with an event that closes the row plus a settle, fail or unclaim request. The
sweeper and the Stop button write the same rows behind the brain's back. In front of
the row is the session gate, which decides when a message may have one, and behind it
the pod's own machinery: the deliveries it holds, the slots they wait for and the
shutdown that must hand them back. Graph nodes are rows too, started by a scheduler
that every API replica runs.

## Modules

`RunClaim` is the protocol of a doorbell chat run.

* One variable per column of the row: `status`, `owner` (lease_owner), `lease`
  (none, live or lapsed), `token` (the generation whose token hash is stored,
  0 for none), `claims` (claim_count), `attempt` and `settled` (attempt_id and
  settled_attempt_id, named by the generation that opened them), `deadline`.
* `hydrating` holds the claims whose statement has matched but whose answer is
  not yet assembled; `work` is what each brain process is doing about a claim;
  `net` is what brains have sent and the API has not processed; `orphans` is the
  start-up hand-back requests not yet processed; `brain` is the process state;
  `stop` says which Stops have run the first of their two statements.
* One action per SQL statement, because that is the code's unit of atomicity:
  `TakeClaim` for the fenced UPDATE in `takeClaim`, `FinishExhausted`, `HandOut`
  and `HydrateFails` for the ways `finishClaim` can go on, `ReleaseClaim`,
  `FailHeldClaim`, `SettleFinishedClaim` for the holder's requests,
  `RenewRunLease` for the lease route (token check, UPDATE, classification and
  what the answer does to the run), `CloseChatRun` and `MarkChatRunRunning` for
  events, `InterruptUnstarted` and `CancelUnheldRuns` for Stop, one action per
  sweeper pass. `SetStatus` is `applyTaskStatusTransition`, the only writer of
  the status column, with the deadline stamp it makes.
* Time is nondeterministic: a live lease may lapse, a deadline may pass, at any
  moment. A sweep finds whatever is true when its statement runs. That covers
  every setting of leases, graces and sweep periods.
* Requests may be lost, answered late, or sent again after an answer was lost;
  events may be redelivered; a crash loses the process but nothing it has sent.
* The task lock is not part of this module (`TaskLock` is): a claimed run starts
  or is deferred nondeterministically, so nothing proved here depends on the lock.

`RunLifecycle` is the abstract specification: rows that wait, execute, are being
stopped or have ended, one occupied row per turn. `RunClaimProperties` states
the properties and the refinement mapping. `MCRunClaim` instantiates them for
TLC. The proofs are in `RunClaimProofs` (types, one active row, refinement,
fences) and `RunLifecycleProofs`.

Two identifications keep the state small. The code names an attempt by a random
id and a token by a hash; every claim opens one attempt under a new token, so the
generation names all three. A delivery pair of a claimed run is always (0, 0), so
the delivery conditions of the renewal hold for doorbell runs.

`TaskLock` is the lock a claimed run takes before it touches the workspace.

* `entry` is the KV entry of one gate key: the acquisition and the process it
  names, and for how long nobody has written it. A tombstone and a missing entry
  are both `Free`. `local` is what a process keeps in the maps `lockRevisions`,
  `lockAcquisitions` and `lockProvenAt`: the acquisition, whether its revision is
  the entry's, and how long ago it was last proved. Revisions are not numbers: all
  the code does with one is compare it with the entry's, so a flag says whether
  they agree, and every write clears the flag of everybody else.
* `active` is `activeAbort`; `phase` and `at` are where each attempt is and in which
  process; `proc` is the process state. An attempt acquires once, under a fresh
  acquisition id; a redelivered task is another attempt with the same `TaskOf`.
* `ops` holds the writes in flight. A create, update or delete is sent (by
  `BeginAcquire`, `Inspect`, `Renew`, `RenewalConflict`, `releaseTaskLock`, `Start`),
  stored or refused (`Store`) and answered (`Acquired`, `Renewed`, `Released`,
  `RenewalConflict`, ...), and the sender may stop waiting at any of these points.
  A write nobody waits for may be stored at any later time. A read is one step
  with the decision taken on it: every write that follows a read is a
  compare-and-set on the revision that was read, so what happens in between is
  what happens between the sending and the storing of that write.
* `Tick` advances every age. It waits for the timers that are due, which is how
  the client's timeout, the self-fence timer and the bucket TTL get their meaning.
  The keep-alive timer sends a renewal every `REFRESH` whether or not the last one has
  ended, so a renewal and an adoption of one run overlap where the timeouts let them.
  `READBACK` bounds how long a renewal waits to be refused and to have read the entry
  back: each of the two requests is answered or given up within the 5 s client timeout.
* `FinishRun`, `Interrupt`, `ForceRelease`, `Crash` and `Start` are the ends of a
  run: its own, a Stop, the timer that releases the lock of a run that ignores the
  Stop, the death of the process and the hand-back by the next one in its pod.

Assumed of the store: it applies the compare-and-set faithfully, drops an entry
unwritten for the TTL, and a process's one connection delivers in order, so a
write is served after what its process sent before and still waits for.
`AnswerLost` is the exception to the second half of that, at most `MaxLost` times.
A run told to stop counts as not working from that moment, and the timer that
tells it is assumed to fire on time; a run that ignores its abort is what
`ForceRelease` is about.

`TaskLockProperties` states the properties, `MCTaskLock` instantiates them.
The proofs are in `TaskLockProofs`: types, what is known of the entry and INV-13, then
mutual exclusion, then that a run stands down only when its lock is lost.

`LeaseTiming` is the arithmetic that decides when a silent run may be declared dead,
and the race it is about. The operators are the functions of `run-lease.ts` and
`task-consumer.ts`; the state machine is the reference they are checked against: the
redeliveries of one message after its worker died, with every jitter and every offset
of the last progress ack, lock refresh and lease renewal, against the lock's expiry and
the sweep. There is no clock: `due` and `verdict` say when the next delivery and the
reap are, and the earlier happens first. Only timings the startup check accepts
(`TimingAccepted`) are started from. `JitterIsAbsorbed` is what that check does not ask:
that no delivery which a shortened backoff can bring to a lock still held is put off past
the reap. `MCLeaseTiming` has TLC evaluate it for the timings of the run; the proofs are in
`LeaseTimingProofs`.

`ExecutionGate` is the pod's gate as operators from a gate to the next one, and
`PodDelivery`, which extends it, is the pod: fat messages from the stream to their slot
and their settlement (`pc` says at which await each delivery is), doorbell rows and their
numbered claims, the retry registry, the requests in flight, the version drain and the
stages of a shutdown. A place in the gate's queue whose delivery has stopped waiting is
`Abandoned`; `ghosts` counts the slots granted to such places and not yet given back.
`heard` and `lost` only record: who was given back for a reason that nothing rations, and
which requests were never answered. The task lock and the agent are nondeterministic: a
run may find its lock lost at any time (`LoseLock`) and then ends without settling or
sending anything (`StandDown`); `standing` says which runs are at that.
The proofs are in `PodDeliveryProofs`.

`SessionGate` is one session's gate, queue and turns. `agent_status`, `marker` and `claim`
are the session's columns; `queue`, `reserved` and `attempts` the pending rows; `row` the
run rows by message and run id; `events` and `processed` the completions. A request is at
`at[m]`, a drain at `drain[d].pc`: drains are run by a sender, by the consumer after a
completion and by the sweeper, and each statement is a step, so they interleave. A
message in `Reports` is sent by the server (`queueServerMessage`) and always queued; one
in `Unreadable` has sealed credentials that will not open; `Doorbell` and `Fat` say how the
runs of each may be dispatched. The row status "unconfirmed"
is `failed` with the reason `dispatch_unconfirmed`, which a retry treats differently from
a plain failure; "idle" stands for `idle` and `failed`. The status has a second writer:
a worker that is told to terminate (`taskInterrupted`), or that starts a run somebody had
before (`taskResumed`), sends a notice, and `handleStatusEvent` copies it onto the session
unless a later one was applied already, whoever has the gate. A Stop is its two statements:
`StopSession` closes queued doorbell rows and `CancelUnheldRuns` fat rows that were not
published, over which the dispatch under way then throws (`PublishRunStopped`,
`PublishPendingStopped`).

Faults, Stops and notices are bounded by `MaxFaults`, and so are the run
ids `newTaskId` mints for a message (`Ids`); `torn` records
that the code itself has given up one turn at a time: a drain died, outlived its
claim, could not tell what became of its publish or could not drop
what it had refused, or a turn that is live was reported interrupted. The two properties
about that exclude it. The proofs are in `SessionGateProofs` and `SessionGateExclusion`.

`TaskDag` is one graph: its rows, the ticks of every replica, the dispatches they start
(`work`, `late` once timed out, `sent` once published), the Brain's run of a node with its
stored callback, the reapers, external waits and the two statements of a cancel. All
nodes of a graph share one gate key in Brain, so one executes at a time, and a cancel
or a reaper that means one of them speaks to the root's address, which all answer to. (They
also answer to their session's, where a Stop of the session speaks; that is left out.)
A script that is handed over at a shutdown is published anew before its message is
acknowledged, so it may be in the stream twice. A reaper whose evidence is that nothing executes a row
is part of the normal course; one that closes a row somebody still executes counts as
a detour. `MCTaskDag` gives the graph. The proofs are in `TaskDagProofs`.

## Runs

| run | instance | states | shows |
|---|---|---|---|
| `RunClaimOne.cfg` | 1 row, 2 brains (symmetric), 2 claims, 2 requests in flight | 1.1 M | types, holder columns, ownership of generations, a live holder keeps its run |
| `RunClaimSiblings.cfg` | 2 rows of one turn (symmetric), 1 brain, ceiling above the claims | | one active row per turn; refinement of `RunLifecycle` |
| `RunClaimLiveness.cfg` | 1 row, 1 brain, ceiling 2, 3 claims, 3 requests in flight, each sent up to twice, fairness | 508 k | a settled attempt stays spent; every run ends |
| `TaskLockTakeover.cfg` | 2 deliveries of one task, 2 brains and a restart of one in its pod, 1 late write, clock difference 1 < `REFRESH` 2 | 2.3 M | types, mutual exclusion, a working run can prove its lock |
| `TaskLockRelease.cfg` | runs of 2 tasks, 2 brains, 1 forced release, 1 lost answer, an exchange as long as the refresh interval | 850 k | nobody's lock is removed from under it by another process; a run does not stand down over its own write |
| `LeaseTiming.cfg` | lock TTLs of 180, 300 and 450 s, budgets of 8 and 23 deliveries, every death, fairness | 183 k | no legitimate takeover is pre-empted; the run of a dead worker is settled; these timings absorb the jitter, one of 250 s does not |
| `PodDelivery.cfg` | 1 leased message, 1 doorbell row with 2 claims, 1 slot, 2 residents, 4 deliveries, 1 detour (a park, a lost lock or an unanswered request) | 2.5 M | slots, capacity, leases of returned messages, refusals, hand-back at exit |
| `PodLiveness.cfg` | 1 leased and 1 plain message, the same pod with 2 detours, fairness | 390 k | a shutdown ends; a kept delivery is served |
| `SessionGate.cfg` | 1 message dispatched either way, 1 report dispatched fat, 1 fault or notice | 2.3 M | no turn twice, one at a time, none lost, a live turn keeps its gate |
| `SessionGateLiveness.cfg` | 2 messages, 1 unreadable, 1 fault or notice, fairness | 125 k | the gate opens again; the queue is emptied |
| `TaskDag.cfg` | a -> c beside b, a script; 1 detour (a fault or a wait), cancels, fairness | 537 k | order, single publish, honest aggregation, final endings, sandbox, an end |
| `EveryGraphEnds.cfg` | the same, no detour, one node cancelled | | violated: see the finding |

Why the bounds are enough: every fence of the claim protocol compares a claim with the
row's current one, so two claims of a row (one stale, one current) are what a wrong fence
needs, with two brains when the owner matters. Three requests, in the liveness run, let a heartbeat, a
completion and a settle of one attempt meet. There the number of claims
exceeds the ceiling, so the bound on claims never stops the protocol before the code
does. Deadlock checking is off wherever the system may stop: a table whose rows have all
ended, a pod that has exited, a session with nothing to do.

For the lock the times are the smallest that keep the order the deployment's
settings have: self-fence < dead holder < TTL, a refresh interval between the first
two, and room for a refresh and a client timeout before any of them
(`LockAssumption`). In the release run an exchange may last as long as the refresh
interval, so that the next renewal is due while an adoption is still unanswered; in the
takeover run it ends before that. Two attempts are what mutual
exclusion needs; the theorems are about any number of them. One late write is enough for
each of create, takeover, renewal, adoption and delete to arrive after its sender
gave up. Deadlock is checked: time can always pass.

For the timing every quantity is a whole number of the 5 s backoff base. The TTLs are on
either side of the shipped one; 8 and 23 deliveries put the takeover in the rising and in
the capped part of the backoff. For the pod, one slot and two residents make every
delivery after the first wait, let a parked run's slot be taken and make it queue on its
return; a message and two claims contend for it in one run, two messages and a claim request in the
other; four deliveries leave one between the allowance of refusals and the guard. The parks,
lost locks and unanswered requests of a pod together are bounded by `MaxDetours`: one of any
kind in the first run, and two in the second, where a parked run can also lose its lock. For the session, two
messages are a turn and the one behind it, and three drains (sender, consumer, sweeper)
can be at work on them at once; one fault is what the code claims to survive.
`ParkedTurnIsAccountedFor` depends on that bound: with two faults, one of them a drain that
outlives its claim, TLC finds a message dropped (known divergences). The other safety
properties do not: they are proved for any number. The graph
has an edge, an independent sibling, a shared sandbox whose last user is downstream, a
node of each failure policy and a node that waits outside.

Fairness (`FairSpec`): the sweeper runs each pass on a timer; the API finishes a
claim it started (a dead API process is the case in which the release fails and
the row stays claimed, which the model includes); a request is processed or its
sender gives up; a run ends, because its deadline aborts it; and a lease nobody
renews lapses. Nothing obliges a brain to claim, to heartbeat or to restart, and
nobody has to press Stop.

For the pod, every await ends: requests are answered or time out, runs and the waits they
park for are bounded by deadlines, a resolved promise runs its continuation. The stream
need not deliver and nobody need drain. For the session, a request, a drain and a handler
go on unless a fault stops them, workers take what is on the queue or the stream and
report, a claim nobody holds lapses, completions and status events are redelivered until
processed, and the three sweeper passes come round. For the graph, the ticks of scheduler, resolver and
sweeper come round, dispatches go on, the Brain takes a waiting message when the gate is
free and its run ends, and a cancel finishes; one weak fairness condition on all of them
together is enough, because nothing in a graph repeats for ever. For the timing, deliveries and sweeps
happen. All of these are timers, the client's own timeouts or the code after an await.

## Findings

`every_graph_ends`: **cancelling one node strands the dependants of another.** The
interrupt of a graph's node goes to the root's address (`interruptKeyOf`), so it also
aborts whichever sibling is executing. The cancel closes the tail of the node it was
asked to cancel; the sibling's `agent_done`, "cancelled", closes only the sibling. Its
dependants wait for an input that will never complete, `cascadeFailures` and
`reapStuckDagRoots` look for failed nodes only, and the root stays `running`, against the
comment at `lifecycle.ts:461-462` that the tail is closed "so the virtual root can
eventually aggregate". The counterexample needs no fault. A session Stop
during a graph, and an API that dies between the two statements of a cancel, have the
same effect. `UnstoppedGraphEnds` shows that without such a cancel every graph ends.

## Known divergences

What the code does against what it says, met while modelling and not kept as runs of
their own.

In the claim protocol and the lock:

* **Stop is two statements.** `interruptSessionRuns` first cancels queued rows and
  then preparing and running ones, each in its own transaction. A release or a
  sweep that requeues a row between them moves it past both.
* **The hand-back may be late.** `reclaimPreviousIncarnation` abandons its request
  after ten seconds and the process goes on to claim; the request, still running,
  requeues by pod name, which is the new process's name too.
* **`markUnclaimable` has no fence.** Every other terminal close by a holder names
  the owner and generation; this one names the row. A claim handler slower than
  the lease plus the sweep closes its successor's run.
* **A superseded worker is answered 401.** The token is rotated or cleared when the
  row changes hands, so its heartbeat never reaches the classification that would
  tell it to stop, and it reads the 401 as unresolved. The task lock's fence and
  the run deadline are what end it.
* **A force-released run comes back.** The lock, its local record and the
  registration are keyed by the gate key and checked by process. A run that ignored
  its abort and ends later deletes the registration and the lock of whichever run
  of the key this process is executing by then.
* **A release forgets what is not its own.** `finishRun` unregisters the key before
  it awaits the release, so another run of the key can acquire while the release
  waits for an answer; the `finally` then forgets that run's record, against the
  comment that such an interleaving is structurally impossible.
* **Two renewals can meet.** The comment in `renewOverOwnCommittedWrite` says of a
  second conflict that "nothing of ours was in flight in between" (`lock.ts:713-714`). The
  keep-alive timer does not wait for the renewal before. When a refused renewal takes the
  whole interval to read the entry back, the next one is refused too, both adopt the same
  revision, and the later of the two takes the other's write for somebody else's. With
  `READBACK` = `REFRESH` TLC finds `StandsDownOnlyWhenLost` violated. The two requests have
  5 s each against an interval of 10 s, so it takes an event loop that lags as well.

In the pod:

* **Exit does not hand back everything.** A claim request in flight when the signal comes
  is not waited for, a run that starts after it is neither aborted nor waited for, and the
  timer of an earlier claim drops the registry entry of a later one, so the flush misses
  it; the comment on `beginShutdown` says "hand every run on this pod back". Nor does a
  run that had lost its lock when the signal came: it ends in `handleLeaseLost`, which
  sends nothing, and its row is claimed until the lease lapses. What
  `ExitHandsBackRuns` shows is that the runs the shutdown aborts are handed back.
* **Drains spend the budget.** A nak for a drain, or for a lease that was not obtained,
  is not rationed, so a message can be used up without reaching the guard, which the
  comment at `delivery/dispatch.ts:60-66` says it does "whatever else happens".
* **Some naks keep the lease.** `resolvePoisonedTask`, when the hand-off fails, and
  `replayPendingCallback`, when the stored callback cannot be read (`runner.ts:905-912`), nak
  without releasing the pre-gate lease; the redelivery waits until it lapses. A run that
  stands down leaves it as well, and gives its message back by silence.

In the session gate:

* **An interrupted turn does not keep its gate.** A worker that is told to terminate
  reports `taskInterrupted`, and `handleStatusEvent` (`consumer.ts:580-590`) sets
  `agent_status` to `interrupted` without asking for the marker or the rows. The turn goes
  on in another worker; until that one reports `taskResumed`, `submit-message.ts:324` parks
  nothing and the next message takes the gate beside it, although "a session runs one turn
  at a time, and `claw_sessions.agent_status` is the gate that says so"
  (`submit-message.ts:6-7`). Without the exception for it TLC finds both `OneTurnAtATime`
  and `LiveTurnKeepsItsGate` violated, with that one notice and no fault.
* **An interrupted session keeps its queue.** `drainOrphanedPendingMessages` takes sessions
  that are `idle` or `failed` (`sweeper.ts:2539`). One that is left `interrupted`, its run
  ended by a Stop or a reaper, keeps what is parked until a new message or completion
  drains it. `QueueIsDrained` excepts it, and is violated without the exception.
* **A failed session is drained.** The comment above `takeSessionGateIfUnowned` says that
  `failed` "is not a state `drainOrphanedPendingMessages` picks up either"
  (`chat-run.ts:2185-2187`); it is.
* **A drain can shut the gate behind an ended turn.** A drain publishes before it takes
  the gate. When the run is over and its completion processed in between, nothing is left
  that would release the gate but `reapStuckSessions`, an hour later, although
  `takeSessionGate` says that "the run it names exists and its completion is the releaser".
* **Two faults lose a message or a gate.** A drain that outlives its claim beside a failed
  publish can drop a doorbell message; a refusal that was announced and whose row could not be deleted is
  drained again. Both need what `torn` records.
* **An ambiguous fat publish may close unannounced.** The retry is dropped as a duplicate
  and the row is closed an hour later without an event.
* **A thrown drain is not retried by redelivery.** The comment says "bubble up so the outer
  event-consumer nak'd retry can rerun"; the redelivered completion finds the gate open
  and drains nothing, so the attempts of `BIND_MAX_ATTEMPTS` are sweeper ticks.

In the graphs: `reapStuckDagRoots` closes running nodes without an interrupt, though its
comment speaks of still-pending children, and a crash between its two statements leaves
nodes waiting under a failed root; nodes with the failure policy skip wait for that
reaper; a dispatch that timed out can fail a later dispatch of a resumed node; a stored
`wait_external` result that is replayed replaces a run.

In the timing: **the curve without jitter is not the upper edge.**
`resolveLockBlockedTakeover` sums backoffs without jitter, because "brain's jitter only
ever shortens a backoff" (`run-lease.ts:181-182`), and the reap grace has to outlast that
bound "so a run that can still be resumed is not closed first" (`run-lease.ts:248-249`). A
shortened backoff can land a delivery just before the lock expires, where the curve has it
land just after; it is then deferred once more, by up to 300 s, and when it comes back it
finds the row reaped. With `LockTtls = {50}`, `MaxDelivers = {23}` and `PROGRESS = 0` (a lock
TTL of 250 s, which the startup check accepts) TLC finds `TakeoverIsNeverPreempted` violated
in five states. It concerns runs whose lock is not taken over from a dead holder before it
expires (no claim, or `TASK_LOCK_DEAD_HOLDER_MS` off). With the shipped numbers otherwise,
`JitterIsAbsorbed` fails for TTLs of 115-120, 235-280, 350-360, 500-580 and 650-660 s (in
steps of 5 s), and with a budget of 8 deliveries for 115-120 and 190-200 s; it holds for
the shipped 300 s and for the TTLs of `LeaseTiming.cfg`, and where it holds the property is
proved.

In the lock and the claim protocol, further: a takeover compares the store's timestamp with the taker's
own clock, while the comment on `lockSelfFenceMs` speaks of the store's clock:
mutual exclusion needs the taker's clock to be ahead by less than the refresh
interval, and fails (in the model, with `Skew` = `REFRESH`) beyond it.
`StandsDownOnlyWhenLost` is checked without late writes: a timed-out adoption that
is stored after later writes of the same process, which takes a reconnect, makes a
second conflict inside one renewal although nobody else wrote, and the run stands
down for nothing. The comment above `closeNamedChatRun` says that a
doorbell completion carries no `run_claim`; `runIdentity` in the brain's runner
now sends it, and the model follows the code.

## Proofs

All theorems are about `Spec` for every value of the constants that satisfies the
module's assumption.

Of the claim protocol, from `ClaimAssumption` (`NoBrain` is no brain, the ceiling is
a positive number, the bounds are numbers) and no fact about the functions
`SessionOf` and `MessageOf`:

* `TypeCorrect`: `Spec => []TypeOK`, one lemma per group of actions.
* `OneActive` and `Refinement`: `OneActiveRowPerTurn` is inductive beside the
  types, because only a claim makes a row active and it tests the siblings. The
  refinement shows that a claim maps to `Take` and every other statement to a
  `Move` whose rows each follow an edge, or to a stutter.
* `Invariance`: the inductive invariant `IInv` is the conjunction of the types,
  `HolderColumnsAgree`, `OneBrainPerGeneration` and `SettledIsNotOpen` (the
  attempt a row has settled is not the one it has open). None is inductive alone:
  that an active row has an owner needs the release to clear all columns of
  exactly the rows it requeues; that a request of the current generation comes
  from the owner needs the renewal, which may write the owner, to be from the
  current generation; that a settled attempt is not open needs the renewal's
  guard and that attempts are named by generations not yet in the future.
* `HolderAgreement` and `GenerationOwnership` are invariants that follow;
  `LiveHolderIsSafe` and `SettledIsFinal` are action properties proved from it, action
  by action.
* `LifecycleTyped`, `OneHolder` and `FinalPhases` are what the abstract lifecycle
  itself guarantees, which the refinement carries to the protocol.

Of the task lock, from `LockAssumption` (the times are numbers and an exchange and a
refresh fit before a takeover and before the TTL) and no fact about `TaskOf` and
`PodOf`:

* `LockInvariance`: the inductive invariant `IInv` of `TaskLockProofs` says what a
  revision that is still current tells its bearer. A process that remembers it, or
  has a renewal or an adoption in flight, has its own entry; a takeover in flight
  names an entry that has been silent long enough, a release its own process's, a
  hand-back a dead process's. `LockTyped` and `ForeignLockSafe` (INV-13, for any
  number of forced releases, late writes and lost answers) follow: whoever replaces
  the entry bears such a revision.
* `ExclusionInvariance`, `WorkingRunProven` and `RunsExcludeEachOther`, under
  `Undisturbed`: nothing is released by force, no answer is lost alone, the taker's
  clock is ahead by less than a refresh interval, and two exchanges with the store
  fit before a takeover and before the TTL. The divergences above show that the first two are
  needed, the remark on clocks that the third is. Mutual exclusion follows at once
  from `WorksInTime` (a working run's attempt is the entry's, and the entry is no
  older than the proof, which is not past the fence). To keep that, the rest of
  `XInv` excludes every write that could move the entry under a working run:
  `Granted` (an answered create or takeover whose answer is on its way still holds
  the entry, and no delete is about to be stored), `Window` (a create that was sent
  before another attempt of its process went inside finds a young entry, so it can
  neither succeed nor turn into a takeover), `DeletesItsOwn`, `Alive` (a hand-back
  needs a dead process), `AgesFit` (an answer is no younger than the entry), and
  `Ordered` (the queue of a process is served in turn, so a delete is served before
  the create that was sent behind it).
* `StandsDownRightly`, under `Punctual`: no write is stored after its sender gave up on it,
  two exchanges fit before a takeover and before the TTL, and a refused renewal has read
  the entry back before the next is due (`READBACK < REFRESH`; the divergence above shows
  that it is needed). Answers may be lost and locks
  released by force any number of times; the property itself is about runs up to the first
  forced release, after which a process can execute two runs of the key and one of them
  drops the other's record (known divergences). `loseLock` is reached in two ways. A
  conflicting renewal reads the entry back and stands down only if it is not its own, so
  what is needed there is that the entry names the process its acquisition is from
  (`NamesItsSeat`). A conflicting adoption reads nothing, so it must be impossible while the
  entry is the run's: `RenewsItsOwn` says that an adoption whose revision is no longer the
  entry's is of an acquisition that no longer has the entry, and `RefusedAreStale` that a
  refused one has such a revision. To keep that, two writes of the run itself must not
  meet: a renewal may be sent while an adoption is under way, but it is served behind it,
  and no two adoptions are both still to be served (`InTurn`). And a process must
  not run two attempts of the key, whose renewals would share one memory (`OneRun`). That
  in turn needs the answers on their way (`GrantStands`) and what was asked before another
  attempt of the process came in (`AskedTooLate`: a create finds that attempt's young
  entry, a takeover finds the entry moved). The part that is true whatever was forced is
  `PInv`, the rest is `SInv`, `forced = 0 => ...`. Both were model-checked on the instance of
  `TaskLockRelease.cfg` first.

Of the lease timing, from `TimingAssumption` (the durations are numbers, the progress
interval is within the ack wait, a lock outlives a refresh) and for every setting of TTL and
budget the startup check accepts: `TypesHold` and `TakeoverComesFirst`, the latter of the
timings that satisfy `JitterIsAbsorbed`. The divergence above shows that a hypothesis of the
kind is needed; `SettingsThatAbsorb` proves it of two kinds of settings (a lock that expires
before the first redelivery, a sweeper tick as long as the longest backoff), TLC evaluates it for
the others. The invariant `TInv` adds to the types where the next delivery lies:
between the curve with every backoff at its shortest (`EarliestAt`) and the one without
jitter (`AttemptAt`), and, after the first, one backoff behind a delivery that met the lock
(`PutOff`). That delivery is one of those `JitterIsAbsorbed` is about, so the next one
precedes the sweep, which the derived grace puts behind `worstLockBlockedTakeover` and a
tick (`SweptLast`); a run reaped while its message is queued is therefore past the guard
(`ReapedIsPastGuard`).
The curves are recursive functions. That they exist and what they are bounded by is proved
without an induction rule, by looking at the least delivery that would be a counterexample
(`LeastNatural`, from the well-foundedness of the naturals).

Of the graphs, from `DagAssumption` and no fact about the shape of the graph (the code
refuses cycles, but these theorems do not need it to): `TypesHold`, `InputsComeFirst`,
`PublishedOnce`, `CompletedMeansComplete`, and the action properties `EndingsAreFinal` and
`SandboxIsStoppedLast`. The inductive invariant adds to the types what is still under way
behind a row. `BegunAfterInputs`: also of a row that has since failed, while a dispatch or a
message of it is about, because a late publish may still start it. `PublishingOnce`: a row
that a tick may take has no dispatch and no message, which is what makes the tick's guarded
UPDATE enough. `VerdictsAreTrue`: a verdict that was read and not yet written still holds,
because completed rows are final. `CancelledRootIsClosed`: between the two statements of a
root's cancel no row of the graph is open. `RunHasItsMessage` and `OnlyScriptsWait` close
the gaps between them.

Of the pod, from `GateAssumption` of `ExecutionGate` (there is a slot, and no fewer residents
than slots) and `DeliveryAssumption` (the sets are finite, messages are no claims, there are
three deliveries at least):
`TypesHold`, `NoSlotIsLeaked`, `OneWakeIsEnough`, `LeaseGoesFirst`, `RefusalsAreRationed` and
`ShutdownLeavesNoClaim`. The core is `GateInv`: `Books` says that the counters of the gate are
the cardinalities of what they count, that who waits in a queue is there once and at the
await where it waits, and that abandoned places belong to nobody; `Full` says that nobody
waits beside a free place. Between giving a slot back and the `wake` that passes it on the
gate is neither, so both are stated of a gate *value*: each action is followed through the
gate in the middle (`GivesBack`, then `WakeFills` and `WakeKeepsBooks`). A release frees one
slot, so one wake restores `Full`. `LeaseKept`, `HeardFirst`, `ClaimsAreNumbered`,
`RegistryBacksOff` and `ShutdownKept` carry the other theorems: where a lease may be held,
who may be given back for a reason that is not rationed, that a row's claim in this pod is
one generation, and where each claim awaited by the shutdown has got to. `LeaseGoesFirst`
is about the naks that release first: the three ways of leaving a lease to lapse are steps
of the pod that turn the lease into `forgotten`, and the theorem is that there are no others.

Of the session, from `GateAssumption`: `TypesHold` and `TurnRunsOnce`. A *candidate* of a
message is a run that executes, has executed, or has no row yet but is reserved or in the
hand of a drain about to open it. `OneCandidate` says that a message has one at most, that it
is the reserved one if there is one, and that a queued message without a reservation has
none. Every step but two only takes candidates away: opening the run of a message that took
the gate, which was not parked and so has no other, and minting an id, which happens only
where there is none, because `preparePendingHandoff` rotates a reservation only when the run
it names is `failed` or `unconfirmed`. `DrainOK` and `HandlerOK` say what a drain has in hand
at each step and that the consumer's drain serves the completion being handled; `QueueOK`
ties reservations to queue rows. It holds whatever drains do to one another, so it needs no
claim, no gate and no bound on faults.

What does need them is in `SessionGateExclusion`: `OneAtATime`, `LiveTurnHasItsGate` and
`ParkedIsAccountedFor`, of states in which nothing is torn (`OneTurnAtATime` and
`LiveTurnKeepsItsGate` say so themselves, the last theorem adds it as a hypothesis, without
which two faults break it). The invariant `XInv` is `~torn => Calm`, beside `IInv`:

* `ClaimIsHeld`, `HoldsItsRow`, `NoOtherIsLive`: the drain past its claim is the one that
  holds it, so there is one; it works on a queue row under the id reserved there; and until
  it takes the gate no turn is live but the one it hands off, because `Submit` sees the
  claim. That the session does not read running meanwhile would be too much to ask: a late
  `taskResumed` may say so.
* `QueuedIsInHand`, `PublishedOnce`, `SentOnce`: a queued message has an open run only while
  that drain is handing it off, so neither a refused nor a retried message has one; what is
  about to be published was not; and a message that took the gate itself has one run.
* `LiveIsKnown`: a live turn is the one the gate names, or is being handed off by that
  drain. Exclusion follows at once. To keep it, every release of the gate must miss a live
  turn, which is what the last three parts are for.
* `ReportedIsOver`: a turn with a published completion has no open run but the one the
  completion names, and none that could still be opened (`recordedHandoffState` never
  answers retryable once there is an event), so the handler that closes it releases nobody
  else's gate (`ReleasedIsOver`).
* `OwedWasOpened`: a gate is owed only by turns that had a run, so an offer cannot hit a
  message that has taken the gate and not opened its run yet.

`Accounted` adds that a drain about to take a message off the queue has something to show
for it already: the row it opened, or the event it published.

Only model-checked:

* liveness (`EveryRunEnds`, `DeadRunIsSettled`, `ShutdownEnds`, `KeptDeliveryIsServed`,
  `GateIsOpenedAgain`, `QueueIsDrained`, `UnstoppedGraphEnds` and the refuted
  `EveryGraphEnds`): fairness is outside the prover;
* `JitterIsAbsorbed` of a given timing beyond `SettingsThatAbsorb`: it is a sum of up to 23
  terms, which TLC evaluates;
* `ParkedTurnIsAccountedFor` of a session that is torn by its one fault.

## Plan

Every invariant and action property of the runs is stated by a theorem. Not begun: the
notification outbox, the triggers, the leader lock.

## Not modelled

* Claim protocol: the pairs of statements that close a row and then its never-claimed
  duplicates (`closeChatRun`, `reapLostLeases`) are one step each.
* Session gate: A2A sends and sandbox starts (which take the gate on their own), the
  A2A cancel, which writes `cancelled` onto the session (`routes/a2a.ts:1265`), session
  teardown, restored
  sessions, `forceIdleAfterInterrupt`, deletion of a session, review turns, uncounted bind
  attempts, generations of a drain claim, loss of the completion lock. An interrupted run
  stays running in the model while it is handed to another worker (`RunClaim` and
  `PodDelivery` have that path); the clocks of two workers agree on the order of their
  notices; rows that a Stop marks `cancelling` are not told from open ones;
  a completion is visible to `recordedHandoffState` as soon as it is published, while the
  code reads the events that were stored, which differs only after a torn drain;
  `BindRefused` opens, fails and announces its run in one step and leaves out the abandon
  without a row.
* Pod: finish-only deliveries of app runs, the number of deliveries held beyond the gate
  (only logged), the agent loop.
* Graphs: interrupts at the session's address (a Stop, the reapers of chat rows),
  admission ceilings, the sweep of orphaned handles, attempt tokens, the
  poison guard (in `PodDelivery`), app runs, deletion, the age limits of
  `cascadeFailures` and of the stuck root (any moment), `retryTask`, which refuses graph rows.
* The rest of the repository, about nine tenths of its lines, has no protocol state of
  its own or is data handling, third-party or vendored code: `PROJECT.json` lists each
  component with the reason.
