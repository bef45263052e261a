------------------------------ MODULE TaskDag ------------------------------
(***************************************************************************)
(* One task graph: its rows in claw_tasks, the scheduler ticks that every   *)
(* API replica runs without a leader, the dispatches those ticks start and *)
(* time out, the Brain run of one node, the sweeper's reapers, external    *)
(* waits and cancellation.                                                 *)
(*                                                                         *)
(* All nodes of a graph take the same gate key in Brain (the session's     *)
(* workspace, or the graph's root), so one of them executes at a time and  *)
(* the messages of the others are deferred; and a cancel or a reaper that  *)
(* means to interrupt one of them speaks to all, at the root's address.    *)
(* They answer to the session's address as well, where a Stop of the       *)
(* session and the reapers of its chat rows speak: those are left out.     *)
(***************************************************************************)
EXTENDS Naturals, FiniteSets

CONSTANTS
    Nodes,          \* dag_node_id of the execution nodes
    Deps,           \* depends_on: the nodes each node waits for
    Cascading,      \* nodes with on_failure = 'cascade_fail'
    Scripts,        \* script nodes without a sandbox; the ones that may wait
    LastUser,       \* handle_last_user of the graph's one sandbox handle
    Stops,          \* which stops the users of this instance issue
    NoNode,
    MaxDetours      \* bound on crashes, timeouts, failed and lost calls, and
                    \* wait_external results

ASSUME DagAssumption ==
    /\ IsFiniteSet(Nodes) /\ NoNode \notin Nodes
    /\ Deps \in [Nodes -> SUBSET Nodes]
    /\ Cascading \subseteq Nodes /\ Scripts \subseteq Nodes /\ LastUser \in Nodes
    /\ Stops \subseteq {"root", "node"}
    /\ MaxDetours \in Nat

VARIABLES
    status,     \* claw_tasks.status of each node's row
    root,       \* status of the virtual root's row
    lease,      \* lease_expires_at of a node's row: "none", "held", "lapsed"
    verdicts,   \* answers of aggregate queries whose write is to come
    disp,       \* how many dispatches of a node are at each stage
    msgs,       \* execution messages of a node in the stream
    outbox,     \* Brain's stored agent_done result of a node
    run,        \* the node Brain executes, and whether it was told to stop
    box,        \* the graph's sandbox: "none", "up", "stopped"
    req,        \* a cancel request between its statements
    stuck,      \* reapStuckDagRoots closed the root and not yet its nodes
    stopped,    \* a node was cancelled on its own; once is the bound
    detours     \* how much of MaxDetours is spent

vars == <<status, root, lease, verdicts, disp, msgs, outbox, run, box, req,
          stuck, stopped, detours>>

Terminal == {"completed", "failed", "cancelled"}
Executing == {"preparing", "running", "cancelling"}
Statuses == {"waiting_deps", "waiting_external", "queued"} \cup Executing \cup Terminal
Results == {"completed", "failed", "cancelled", "waiting_external"}

Stages == {"work", "late", "sent"}
NoDispatch == [stage \in Stages |-> 0]
NoReq == [kind |-> "none", node |-> NoNode]
Idle == [node |-> NoNode, aborted |-> FALSE]

\* Every row has a status of the schema, and nothing is acknowledged that the stream
\* does not hold.
TypeOK ==
    /\ status \in [Nodes -> Statuses]
    /\ root \in {"running"} \cup Terminal
    /\ lease \in [Nodes -> {"none", "held", "lapsed"}]
    /\ verdicts \subseteq Terminal
    /\ disp \in [Nodes -> [Stages -> Nat]]
    /\ msgs \in [Nodes -> Nat]
    /\ outbox \in [Nodes -> {"none"} \cup Results]
    /\ run \in [node : Nodes \cup {NoNode}, aborted : BOOLEAN]
    /\ box \in {"none", "up", "stopped"}
    /\ req \in [kind : {"none", "root", "node"}, node : Nodes \cup {NoNode}]
    /\ stuck \in BOOLEAN /\ stopped \in BOOLEAN
    /\ detours \in 0 .. MaxDetours

\* expandDag: the root's row is running, a node waits unless it has no input.
Init ==
    /\ status = [n \in Nodes |-> IF Deps[n] = {} THEN "queued" ELSE "waiting_deps"]
    /\ root = "running"
    /\ lease = [n \in Nodes |-> "none"]
    /\ verdicts = {}
    /\ disp = [n \in Nodes |-> NoDispatch]
    /\ msgs = [n \in Nodes |-> 0]
    /\ outbox = [n \in Nodes |-> "none"]
    /\ run = Idle
    /\ box = "none"
    /\ req = NoReq
    /\ stuck = FALSE /\ stopped = FALSE
    /\ detours = 0

-----------------------------------------------------------------------------
(* The one writer of claw_tasks.status. *)

\* The rows of `ns` whose status is one of `expected` move to `next`.
Transition(ns, expected, next) ==
    status' = [n \in Nodes |-> IF n \in ns /\ status[n] \in expected
                               THEN next ELSE status[n]]

\* Mutant: a status the schema spells otherwise.
CloseMisspelt(n) ==
    status' = [status EXCEPT ![n] = IF @ = "cancelling" THEN "canceled" ELSE "failed"]
\* A reaper's verdict: a row somebody stopped is cancelled, any other failed.
Close(n) ==
    status' = [status EXCEPT ![n] = IF @ = "cancelling" THEN "cancelled" ELSE "failed"]

Detour == detours < MaxDetours /\ detours' = detours + 1
Straight == detours' = detours

\* An interrupt at the root's address reaches whichever node executes, or is
\* lost: core NATS delivers at most once.
Interrupt ==
    run' \in {run, [run EXCEPT !.aborted = run.node # NoNode]}

\* listDownstream, and its closure.
Downstream(n) == {m \in Nodes : n \in Deps[m]}
Tail(n) ==
    LET reach[k \in 0 .. Cardinality(Nodes)] ==
            IF k = 0 THEN Downstream(n)
            ELSE reach[k - 1] \cup UNION {Downstream(m) : m \in reach[k - 1]}
    IN  reach[Cardinality(Nodes)]

-----------------------------------------------------------------------------
(* schedulerTick, on every replica. *)

\* Mutant: an input that has ended counts as delivered.
ReadyWhenEnded(n) ==
    status[n] = "waiting_deps" /\ \A d \in Deps[n] : status[d] \in Terminal
\* READY_PREDICATE_SQL.
Ready(n) ==
    status[n] = "waiting_deps" /\ \A d \in Deps[n] : status[d] = "completed"

promoteReadyTasks ==
    /\ \E n \in Nodes : Ready(n)
    /\ Transition({n \in Nodes : Ready(n)}, Statuses, "queued")
    /\ UNCHANGED <<root, lease, verdicts, disp, msgs, outbox, run, box, req, stuck, stopped, detours>>

\* One failed row of the loop.
cascadeFailures(n) ==
    /\ status[n] = "failed"
    /\ Transition(Downstream(n) \cap Cascading,
                  {"waiting_deps", "waiting_external", "queued"}, "failed")
    /\ status' # status
    /\ UNCHANGED <<root, lease, verdicts, disp, msgs, outbox, run, box, req, stuck, stopped, detours>>

\* Mutant: a cancelled node is not told from a completed one.
FailedOrCompleted ==
    IF \E n \in Nodes : status[n] = "failed" THEN "failed" ELSE "completed"
\* The verdict the aggregate query's columns give.
Aggregate ==
    CASE \E n \in Nodes : status[n] = "cancelled" -> "cancelled"
      [] \E n \in Nodes : status[n] = "failed" -> "failed"
      [] OTHER -> "completed"

aggregateSelect ==
    /\ root = "running"
    /\ \A n \in Nodes : status[n] \in Terminal
    /\ Aggregate \notin verdicts
    /\ verdicts' = verdicts \cup {Aggregate}
    /\ UNCHANGED <<status, root, lease, disp, msgs, outbox, run, box, req, stuck, stopped, detours>>

\* transitionStatus(root, ["running"], next).
aggregateWrite(v) ==
    /\ v \in verdicts
    /\ root' = IF root = "running" THEN v ELSE root
    /\ verdicts' = verdicts \ {v}
    /\ UNCHANGED <<status, lease, disp, msgs, outbox, run, box, req, stuck, stopped, detours>>

-----------------------------------------------------------------------------
(* dispatchTask under withDispatchTimeout, on whichever replica.  "work":    *)
(* rendering, binding, building; "sent": the message is in the stream and   *)
(* its ack is awaited; "late": the timeout has fired and the dispatch goes  *)
(* on by itself.                                                            *)

\* Mutant: a row another replica took is dispatched again.
TakesPrepared(n) == status[n] \in {"queued", "preparing"}
\* The rows the CAS into preparing takes.
Takes(n) == status[n] = "queued"

\* A dispatch of n leaves a stage: it ends, or goes on to another.
Ends(n, from) ==
    disp[n][from] > 0 /\ disp' = [disp EXCEPT ![n][from] = @ - 1]
GoesOn(n, from, to) ==
    disp[n][from] > 0 /\ disp' = [disp EXCEPT ![n][from] = @ - 1, ![n][to] = @ + 1]

DispatchReserve(n) ==
    /\ Takes(n)
    /\ Transition({n}, Statuses, "preparing")
    /\ disp' = [disp EXCEPT ![n]["work"] = @ + 1]
    /\ UNCHANGED <<root, lease, verdicts, msgs, outbox, run, box, req, stuck,
                   stopped, detours>>

DispatchPublish(n) ==
    /\ GoesOn(n, "work", "sent") \/ Ends(n, "late")
    /\ msgs' = [msgs EXCEPT ![n] = @ + 1]
    /\ UNCHANGED <<status, root, lease, verdicts, outbox, run, box, req, stuck,
                   stopped, detours>>

\* The publish is acknowledged; or its outcome is uncertain, and the row is
\* left open all the same (resolveDispatchFailure).
DispatchSettled(n) ==
    /\ Ends(n, "sent")
    /\ UNCHANGED <<status, root, lease, verdicts, msgs, outbox, run, box, req,
                   stuck, stopped, detours>>

\* resolveDispatchFailure of a dispatch that certainly published nothing: the
\* workspace could not be bound and the row is queued again, or it fails.
DispatchFails(n) ==
    /\ Ends(n, "work") \/ Ends(n, "late")
    /\ \E next \in {"queued", "failed"} : Transition({n}, {"preparing"}, next)
    /\ Detour
    /\ UNCHANGED <<root, lease, verdicts, msgs, outbox, run, box, req, stuck, stopped>>

\* withDispatchTimeout: the row fails, the dispatch is not stopped.
DispatchTimeout(n) ==
    /\ GoesOn(n, "work", "late") \/ Ends(n, "sent")
    /\ Transition({n}, {"preparing"}, "failed")
    /\ Detour
    /\ UNCHANGED <<root, lease, verdicts, msgs, outbox, run, box, req, stuck, stopped>>

\* A replica dies with some of the dispatches and verdicts under way.
ReplicaCrash ==
    /\ \E lost \in SUBSET {n \in Nodes : disp[n] # NoDispatch} :
          disp' = [n \in Nodes |-> IF n \in lost THEN NoDispatch ELSE disp[n]]
    /\ verdicts' \in SUBSET verdicts
    /\ <<disp', verdicts'>> # <<disp, verdicts>>
    /\ Detour
    /\ UNCHANGED <<status, root, lease, msgs, outbox, run, box, req, stuck, stopped>>

-----------------------------------------------------------------------------
(* applyAgentDone. *)

\* Mutant: a late result overrides the failure a reaper recorded.
OverridesFailure(res) ==
    IF res = "waiting_external"
    THEN {"running", "preparing", "queued"}
    ELSE {"running", "preparing", "cancelling", "waiting_external", "queued", "failed"}
\* The statuses a result may land on.
ExpectedBy(res) ==
    IF res = "waiting_external"
    THEN {"running", "preparing", "queued"}
    ELSE {"running", "preparing", "cancelling", "waiting_external", "queued"}

\* Mutant: the last user stops the sandbox whoever is still live.
StopsAtOnce(n) == n = LastUser
\* maybeStopHandlesForLastUser: no sibling of the last user is live.
MayStopHandle(n) ==
    n = LastUser /\ \A m \in Nodes \ {n} : status[m] \in Terminal

\* The row moves unless it has ended; the end of the handle's last user stops
\* the sandbox, unless an open terminal holds it or the stop fails.  The statements
\* are one step: what they ask is whether rows have ended, and those stay ended.
applyAgentDone(n, res) ==
    /\ Transition({n}, ExpectedBy(res), res)
    /\ IF status[n] \in ExpectedBy(res) /\ res \in Terminal
          /\ MayStopHandle(n) /\ box = "up"
       THEN box' \in {"up", "stopped"}
       ELSE box' = box

-----------------------------------------------------------------------------
(* The Brain run of a node. *)

\* The stream without the message that was acknowledged or terminated.
Acked(n) == [msgs EXCEPT ![n] = @ - 1]

\* runHandleTask with the gate taken and no stored result: the run starts.  A
\* run with a sandbox opens it.
StartRun(n) ==
    /\ run.node = NoNode /\ msgs[n] > 0 /\ outbox[n] = "none"
    /\ run' = [node |-> n, aborted |-> FALSE]
    /\ box' = IF n \in Scripts THEN box ELSE "up"
    /\ UNCHANGED <<status, root, lease, verdicts, disp, msgs, outbox, req, stuck, stopped, detours>>

\* The end of a run, with or without a result, ends its renewals.
EndRun(n) ==
    /\ run' = Idle
    /\ lease' = [lease EXCEPT ![n] = IF @ = "held" THEN "lapsed" ELSE @]

\* What became of a result: the callback reached the API, the message was
\* acknowledged, the stored copy deleted.  Each depends on the one before.
Delivered == [posted |-> TRUE, acked |-> TRUE, cleared |-> TRUE]
Deliveries ==
    {d \in [posted : BOOLEAN, acked : BOOLEAN, cleared : BOOLEAN] :
        (d.acked => d.posted) /\ (d.cleared => d.acked)}

Deliver(n, res, d) ==
    /\ IF d.posted THEN applyAgentDone(n, res) ELSE UNCHANGED <<status, box>>
    /\ msgs' = IF d.acked THEN Acked(n) ELSE msgs
    /\ outbox' = [outbox EXCEPT ![n] = IF d.cleared THEN "none" ELSE res]

\* replayPendingCallback: the stored result of an earlier execution is sent
\* again in place of a run.
ReplayCallback(n, d) ==
    /\ run.node = NoNode /\ msgs[n] > 0 /\ outbox[n] # "none"
    /\ Deliver(n, outbox[n], d)
    /\ IF d = Delivered THEN Straight ELSE Detour
    /\ UNCHANGED <<root, lease, verdicts, disp, run, req, stuck, stopped>>

\* The run ends and delivers its result; a script may wait for something
\* outside, and a run that was told to stop may end as cancelled.
FinishRun(n, res, d) ==
    /\ run.node = n
    /\ res = "cancelled" => run.aborted
    /\ res = "waiting_external" => n \in Scripts
    /\ IF d = Delivered /\ res # "waiting_external" THEN Straight ELSE Detour
    /\ EndRun(n)
    /\ Deliver(n, res, d)
    /\ UNCHANGED <<root, verdicts, disp, req, stuck, stopped>>

\* The renewal of a run with a sandbox.  A row it may not take any more ends
\* the run, and its message, without a result (handleRunRowTerminal).
LeaseTick(n) ==
    /\ run.node = n /\ n \notin Scripts
    /\ \/ /\ status[n] \in {"preparing", "running"} /\ lease[n] # "held"
          /\ lease' = [lease EXCEPT ![n] = "held"]
          /\ UNCHANGED <<run, msgs>>
       \/ /\ status[n] = "cancelling" /\ lease[n] = "held" /\ ~run.aborted
          /\ run' = [run EXCEPT !.aborted = TRUE]
          /\ UNCHANGED <<lease, msgs>>
       \/ /\ \/ status[n] \notin Executing
             \/ status[n] = "cancelling" /\ lease[n] # "held"
          /\ EndRun(n)
          /\ msgs' = Acked(n)
    /\ UNCHANGED <<status, root, verdicts, disp, outbox, box, req, stuck,
                   stopped, detours>>

\* postTaskRunning: best effort, and a CAS on preparing.
ReportRunning(n) ==
    /\ run.node = n /\ n \notin Scripts /\ status[n] = "preparing"
    /\ Transition({n}, {"preparing"}, "running")
    /\ UNCHANGED <<root, lease, verdicts, disp, msgs, outbox, run, box, req, stuck, stopped, detours>>

\* The Brain dies or hands the message back; it is delivered again.  A script is
\* handed over in a new message, and the ack of the old one may not land.
AttemptEnds ==
    /\ run.node # NoNode /\ Detour
    /\ EndRun(run.node)
    /\ \/ UNCHANGED msgs
       \/ run.node \in Scripts /\ msgs' = [msgs EXCEPT ![run.node] = @ + 1]
    /\ UNCHANGED <<status, root, verdicts, disp, outbox, box, req, stuck, stopped>>

\* A message that ran out of deliveries or of stream age.
LoseMessage(n) ==
    /\ msgs[n] > 0 /\ run.node # n /\ Detour
    /\ msgs' = Acked(n)
    /\ UNCHANGED <<status, root, lease, verdicts, disp, outbox, run, box, req,
                   stuck, stopped>>

-----------------------------------------------------------------------------
(* External waits. *)

resumeFromExternal(n) ==
    /\ status[n] = "waiting_external"
    /\ Transition({n}, {"waiting_external"}, "queued")
    /\ UNCHANGED <<root, lease, verdicts, disp, msgs, outbox, run, box, req, stuck, stopped, detours>>

\* A wait whose timeout is zero is never reaped; any other may be.
reapWaitExternal(n) ==
    /\ status[n] = "waiting_external"
    /\ Transition({n}, {"waiting_external"}, "failed")
    /\ UNCHANGED <<root, lease, verdicts, disp, msgs, outbox, run, box, req, stuck, stopped, detours>>

-----------------------------------------------------------------------------
(* The sweeper. *)

\* Nothing will execute the row, so that its timeout is a matter of time.
Abandoned(n) ==
    /\ run.node # n /\ msgs[n] = 0
    /\ disp[n]["work"] = 0

\* A row whose deadline has passed, or that no worker claimed; whatever runs
\* at the root's address is interrupted.
reapStaleTasks(n) ==
    /\ status[n] \in Executing
    /\ IF Abandoned(n) /\ lease[n] # "held" THEN Straight ELSE Detour
    /\ Close(n)
    /\ Interrupt
    /\ UNCHANGED <<root, lease, verdicts, disp, msgs, outbox, box, req, stuck, stopped>>

reapLostLeases(n) ==
    /\ status[n] \in Executing /\ lease[n] = "lapsed" /\ run.node # n
    /\ IF Abandoned(n) THEN Straight ELSE Detour
    /\ Close(n)
    /\ UNCHANGED <<root, lease, verdicts, disp, msgs, outbox, run, box, req, stuck, stopped>>

\* Mutant: only a graph with no open node is taken for stuck.
StuckWhenClosed ==
    /\ root = "running" /\ \E n \in Nodes : status[n] = "failed"
    /\ \A n \in Nodes : status[n] \in Terminal
\* A root with a failed node; that it is older than BRAIN_TASK_TIMEOUT_SEC may
\* come to hold at any moment.
RootIsStuck == root = "running" /\ \E n \in Nodes : status[n] = "failed"

\* reapStuckDagRoots, its two statements.
reapStuckRoot ==
    /\ RootIsStuck
    /\ root' = "failed" /\ stuck' = TRUE
    /\ UNCHANGED <<status, lease, verdicts, disp, msgs, outbox, run, box, req, stopped, detours>>

reapStuckNodes ==
    /\ stuck /\ stuck' = FALSE
    /\ \/ Straight /\ Transition(Nodes, Statuses \ Terminal, "failed")
       \/ Detour /\ UNCHANGED status
    /\ UNCHANGED <<root, lease, verdicts, disp, msgs, outbox, run, box, req, stopped>>

-----------------------------------------------------------------------------
(* cancelTask and Stop. *)

\* The root's branch: every open row of the graph in one statement.
CancelRoot ==
    /\ "root" \in Stops /\ req = NoReq
    /\ root = "running" \/ \E n \in Nodes : status[n] \notin Terminal
    /\ Transition(Nodes, Statuses \ Terminal, "cancelled")
    /\ root' = IF root = "running" THEN "cancelled" ELSE root
    /\ req' = [kind |-> "root", node |-> NoNode]
    /\ UNCHANGED <<lease, verdicts, disp, msgs, outbox, run, box, stuck,
                   stopped, detours>>

\* stopAllHandlesForDag, then the interrupt.
CancelRootRelease ==
    /\ req.kind = "root"
    /\ req' = NoReq
    /\ box' \in {box, IF box = "up" THEN "stopped" ELSE box}
    /\ Interrupt
    /\ UNCHANGED <<status, root, lease, verdicts, disp, msgs, outbox, stuck, stopped, detours>>

\* transitionCancellation: an executing row is parked for its worker to confirm.
CancelNode(n) ==
    /\ "node" \in Stops /\ req = NoReq /\ ~stopped
    /\ status[n] \notin Terminal \cup {"cancelling"}
    /\ status' = [status EXCEPT ![n] = IF @ \in {"preparing", "running"}
                                       THEN "cancelling" ELSE "cancelled"]
    /\ req' = [kind |-> "node", node |-> n]
    /\ stopped' = TRUE
    /\ UNCHANGED <<root, lease, verdicts, disp, msgs, outbox, run, box, stuck, detours>>

\* The node's tail is closed, and the interrupt goes to the root's address.
CancelTail ==
    /\ req.kind = "node"
    /\ req' = NoReq
    /\ Transition(Tail(req.node), {"waiting_deps", "waiting_external", "queued"},
                  "cancelled")
    /\ Interrupt
    /\ UNCHANGED <<root, lease, verdicts, disp, msgs, outbox, box, stuck,
                   stopped, detours>>

\* The API dies between the statements of a cancel.
CancelDies ==
    /\ req # NoReq /\ Detour
    /\ req' = NoReq
    /\ UNCHANGED <<status, root, lease, verdicts, disp, msgs, outbox, run, box,
                   stuck, stopped>>

-----------------------------------------------------------------------------
Node(n) ==
    \/ cascadeFailures(n)
    \/ DispatchReserve(n) \/ DispatchPublish(n) \/ DispatchSettled(n)
    \/ DispatchFails(n) \/ DispatchTimeout(n)
    \/ StartRun(n) \/ LeaseTick(n) \/ ReportRunning(n)
    \/ \E d \in Deliveries :
          ReplayCallback(n, d) \/ \E res \in Results : FinishRun(n, res, d)
    \/ LoseMessage(n)
    \/ resumeFromExternal(n) \/ reapWaitExternal(n)
    \/ reapStaleTasks(n) \/ reapLostLeases(n)
    \/ CancelNode(n)

Next ==
    \/ promoteReadyTasks
    \/ aggregateSelect \/ \E v \in Terminal : aggregateWrite(v)
    \/ ReplicaCrash
    \/ \E n \in Nodes : Node(n)
    \/ AttemptEnds
    \/ reapStuckRoot \/ reapStuckNodes
    \/ CancelRoot \/ CancelRootRelease \/ CancelTail \/ CancelDies

Spec == Init /\ [][Next]_vars

\* What the timers of every replica, its dispatches and the Brain do without a
\* fault: the ticks of scheduler, resolver and sweeper come round and go through
\* the rows; a dispatch goes on; a Brain takes up a waiting message when the
\* gate is free, and its run ends.
SchedulerTick ==
    \/ promoteReadyTasks \/ \E n \in Nodes : cascadeFailures(n)
    \/ aggregateSelect \/ \E v \in Terminal : aggregateWrite(v)
DispatchStep ==
    \E n \in Nodes : DispatchReserve(n) \/ DispatchPublish(n)
BrainStep ==
    \E n \in Nodes :
        \/ StartRun(n) \/ ReplayCallback(n, Delivered)
        \/ \E res \in Results : FinishRun(n, res, Delivered)
SweeperTick ==
    \/ \E n \in Nodes : Straight /\ (reapStaleTasks(n) \/ reapLostLeases(n))
    \/ reapStuckRoot \/ (Straight /\ reapStuckNodes)

\* Without a detour nothing comes back to where it was, so it is enough that one of
\* these is taken while one is possible.
Progress ==
    \/ SchedulerTick \/ DispatchStep \/ BrainStep \/ SweeperTick
    \/ \E n \in Nodes : resumeFromExternal(n)
    \/ CancelTail

FairSpec == Spec /\ WF_vars(Progress)

-----------------------------------------------------------------------------
(* What the graph promises. *)

\* A node is only queued, dispatched, executed or completed when every node it
\* depends on has completed: promoteReadyTasks and cascadeFailures run on every
\* replica while results, reapers and cancels move the inputs.
NodeFollowsItsInputs ==
    \A n \in Nodes :
        (status[n] \notin {"waiting_deps", "failed", "cancelled"} \/ run.node = n)
            => \A d \in Deps[n] : status[d] = "completed"

\* A node that never waits for something outside is published once, whichever
\* replicas tick and however often its dispatch was put back on the queue.
NodeIsPublishedOnce ==
    \A n \in Nodes \ Scripts :
        msgs[n] + disp[n]["work"] + disp[n]["late"] <= 1

\* A graph that reads completed has no failed or cancelled node in it.
CompletedGraphIsComplete ==
    root = "completed" => \A n \in Nodes : status[n] = "completed"

\* A row that has ended keeps its ending: no late result, timed-out dispatch,
\* stale verdicts, reaper or resumed wait writes over it.
EndedIsFinal ==
    [][/\ root \in Terminal => root' = root
       /\ \A n \in Nodes : status[n] \in Terminal => status'[n] = status[n]]_vars

\* The graph's sandbox is stopped only when none of its nodes is live.
SandboxOutlivesItsNodes ==
    [][box = "up" /\ box' = "stopped" => \A n \in Nodes : status'[n] \in Terminal]_vars

\* Every graph ends: the virtual root is aggregated, or closed by a reaper.
EveryGraphEnds == <>(root \in Terminal)

\* The same for the graphs of which no node is cancelled on its own.
UnstoppedGraphEnds == []~stopped => EveryGraphEnds
=============================================================================
