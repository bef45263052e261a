---------------------------- MODULE SessionGate ----------------------------
(***************************************************************************)
(* One session's gate and the queue behind it (api/src/tasks/chat-run.ts,  *)
(* sessions/submit-message.ts, sessions/drain-claim.ts,                    *)
(* tasks/pending-dispatch.ts, events/consumer.ts and the sweeper passes    *)
(* that give a gate back).                                                 *)
(*                                                                         *)
(* A session runs one turn at a time.  agent_status says whether it is     *)
(* taken, agent_gate_message_id by which turn.  A message that finds it    *)
(* free takes the gate, then opens its run row, then publishes.  One that  *)
(* finds it taken is parked, and a drain sends it on later: the drain      *)
(* publishes first and takes the gate last, under a claim on the session   *)
(* that new messages wait behind.  The completion of a turn gives the gate *)
(* back and drains; the sweeper does both for turns that end without one.  *)
(*                                                                         *)
(* agent_status has a second writer: a worker that is told to stop, or     *)
(* that starts a run somebody had before, says so, and the event consumer  *)
(* copies what it says onto the session, whoever has the gate.             *)
(*                                                                         *)
(* "idle" stands for idle and failed, which no statement here tells apart. *)
(* One statement of SQL, or one transaction, is one step.                  *)
(***************************************************************************)
EXTENDS Naturals, FiniteSets, SequencesExt

CONSTANTS
    Messages,           \* the messages sent to the session
    Unreadable,         \* those whose sealed credentials will not open again
    Reports,            \* those the server sends, to report work: they are always queued
    Doorbell, Fat,      \* those whose runs the doorbell gate may open for claiming,
                        \* and as fat messages
    Consumer, Sweeper,  \* the other two callers of a drain
    None,
    BIND_MAX_ATTEMPTS,
    MAX_DRAINS_PER_CALL,
    MaxFaults           \* bound on the faults, Stops and status events of a behaviour

ASSUME GateAssumption ==
    /\ Reports \subseteq Messages /\ Unreadable \subseteq Messages
    /\ Doorbell \cup Fat = Messages
    /\ {Consumer, Sweeper, None} \cap Messages = {}
    /\ Consumer # Sweeper /\ None \notin {Consumer, Sweeper}
    /\ BIND_MAX_ATTEMPTS \in Nat \ {0}
    /\ MAX_DRAINS_PER_CALL \in Nat \ {0}
    /\ MaxFaults \in Nat

\* The ids newTaskId mints for one message: one, and one more after a fault.  A bound
\* on what is minted: no behaviour within the faults needs more.
Ids == 1 .. MaxFaults + 1
Runs == Messages \X Ids
Drains == Messages \cup {Consumer, Sweeper}

\* The statuses dispatchTaskToBrain may open a run with.
Kinds(m) == {kind \in {"queued", "preparing"} :
                m \in (IF kind = "queued" THEN Doorbell ELSE Fat)}

VARIABLES
    agent_status, marker,   \* the gate: agent_gate_message_id is the marker
    claim,                  \* pending_drain_until: who holds the drain claim
    queue,                  \* claw_pending_messages, oldest first
    reserved,               \* dispatch_task_id of each message's queue row
    attempts,               \* bind_attempts of it
    row,                    \* the run rows: claw_tasks
    stream,                 \* fat messages on the task stream
    sent,                   \* messages whose publish the stream remembers
    events,                 \* exec_complete events published
    processed,              \* those of them with processed_at
    at,                     \* where the request that sends each message is
    drain,                  \* where each drain is
    handler,                \* the completion being handled, under the session's lock
    owed,                   \* turns whose gate a sweep or a Stop is about to offer back
    notices,                \* status events on their way to the consumer
    status_event_at,        \* the time of the latest one applied
    faults,                 \* faults, Stops and status events so far
    torn                    \* a turn may run outside the gate: see Tear

gateVars == <<agent_status, marker>>
queueVars == <<queue, reserved, attempts>>
rowVars == <<row, stream, sent>>
eventVars == <<events, processed>>
noticeVars == <<notices, status_event_at>>
vars == <<gateVars, claim, queueVars, rowVars, eventVars, at, drain, handler, owed, noticeVars,
          faults, torn>>

Off == [pc |-> "off", msg |-> None, run |-> 0, rounds |-> 0, took |-> FALSE]
NoEvent == [pc |-> "free", event |-> None]

\* The completion of a run, one that names no run, and one a drain publishes for a
\* turn it gives up on, under the id it had for the run.
Event(r) == [msg |-> r[1], run |-> r[2], refusal |-> FALSE]
Unnamed(m) == Event(<<m, 0>>)
Refusal(m, n) == [msg |-> m, run |-> n, refusal |-> TRUE]

\* newTaskId
Fresh(m) == 1 + Max({reserved[m]} \cup {n \in Ids : row[<<m, n>>] # "none"})

Open == {"queued", "preparing", "delivered", "running"}
\* "cancelled" and "stopped" are one status of the table, written by the two
\* statements of a Stop: the first closes doorbell rows and the second fat ones.
Terminal == {"ended", "cancelled", "stopped", "failed", "unconfirmed"}
RunsOf(m) == {m} \X Ids
OpenRuns == {r \in Runs : row[r] \in Open}
Reached(r) == row[r] \in {"running", "ended"}

Init ==
    /\ agent_status = "idle" /\ marker = None /\ claim = None
    /\ queue = <<>>
    /\ reserved = [m \in Messages |-> 0]
    /\ attempts = [m \in Messages |-> 0]
    /\ row = [r \in Runs |-> "none"]
    /\ stream = {} /\ sent = {}
    /\ events = {} /\ processed = {}
    /\ at = [m \in Messages |-> "new"]
    /\ drain = [d \in Drains |-> Off]
    /\ handler = NoEvent
    /\ owed = {} /\ faults = 0 /\ torn = FALSE
    /\ notices = {} /\ status_event_at = 0

----------------------------------------------------------------------------
(* What can go wrong, a bounded number of times.                           *)

Fault ==
    /\ faults < MaxFaults
    /\ faults' = faults + 1
    /\ UNCHANGED noticeVars

\* A fault after which a turn can be running that the gate does not know of: a
\* drain that died, or whose publish may have landed, or that outlived its claim,
\* or that refused a turn and could not take it off the queue.  handleStatusEvent
\* is the other way to one.
Tear ==
    /\ Fault
    /\ torn' = TRUE

NoFault == UNCHANGED <<faults, torn, noticeVars>>

----------------------------------------------------------------------------
(* The gate.                                                               *)

gateNamesEndedTurn ==
    /\ \E r \in Runs : r[1] = marker /\ row[r] \in Terminal
    /\ \A r \in Runs : r[1] = marker => row[r] \notin Open

gateIsStale(actor) ==
    /\ gateNamesEndedTurn
    /\ \A r \in OpenRuns : r[1] = actor

takeSessionGate(m) ==
    /\ agent_status' = "running"
    /\ marker' = m

CanTake(m) == marker \in {None, m} \/ gateIsStale(m)

OpenGate ==
    /\ agent_status' = "idle"
    /\ marker' = None

releaseSessionGateForTurn(m) ==
    IF marker = m THEN OpenGate ELSE UNCHANGED gateVars

\* Mutant: only occupancy is asked, not ownership.
LastRunByOccupancy(m) == \A r \in OpenRuns : r[1] = m

releaseSessionGateIfLastRun(m) ==
    /\ marker = m \/ gateNamesEndedTurn
    /\ \A r \in OpenRuns : r[1] = m

\* releaseSessionsOfLostRuns, releaseSessionGateIfUnoccupied
releaseSessionOfEndedTurn(m) ==
    /\ agent_status = "running"
    /\ marker = m \/ gateNamesEndedTurn
    /\ OpenRuns = {}

----------------------------------------------------------------------------
(* A message is sent.                                                      *)

Go(d, pc) ==
    LET rest == IF pc = "release" THEN [Off EXCEPT !.rounds = drain[d].rounds] ELSE drain[d]
    IN  drain' = [drain EXCEPT ![d] = [rest EXCEPT !.pc = pc]]

\* insertPendingMessage
Park(m) ==
    /\ queue' = Append(queue, m)
    /\ at' = [at EXCEPT ![m] = "parked"]

\* Mutant: the message does not look for a drain under way.
BusyIfRunning == agent_status = "running"

Busy == agent_status = "running" \/ claim # None

\* submitSessionMessage: the transaction.  A message parked while the gate is open
\* is drained by its own request.
Submit(m) ==
    /\ at[m] = "new" /\ m \notin Reports
    /\ IF Busy
       THEN /\ Park(m)
            /\ IF agent_status = "running" THEN UNCHANGED drain ELSE Go(m, "claim")
            /\ UNCHANGED gateVars
       ELSE /\ takeSessionGate(m)
            /\ at' = [at EXCEPT ![m] = "gated"]
            /\ UNCHANGED <<queue, drain>>
    /\ NoFault
    /\ UNCHANGED <<claim, reserved, attempts, rowVars, eventVars, handler, owed>>

\* queueServerMessage and drainSessionIfIdle: the queue is written whatever the
\* gate says, and the drain asks.
QueueReport(m) ==
    /\ at[m] = "new" /\ m \in Reports
    /\ Park(m)
    /\ Go(m, "claim")
    /\ NoFault
    /\ UNCHANGED <<gateVars, claim, reserved, attempts, rowVars, eventVars,
                   handler, owed>>

InSubmit == UNCHANGED <<claim, queueVars, eventVars, drain, handler, owed>>

\* dispatchTaskToBrain opens the row; the kind is the doorbell gate's to say.
OpenRun(m, kind) ==
    /\ at[m] = "gated"
    /\ row' = [row EXCEPT ![<<m, 1>>] = kind]
    /\ at' = [at EXCEPT ![m] = "opened"]
    /\ NoFault
    /\ UNCHANGED <<gateVars, stream, sent>> /\ InSubmit

\* The hard limit is passed once the row of a doorbell is in: discardRefusedRun.
DiscardRun(m) ==
    /\ at[m] = "opened" /\ row[<<m, 1>>] \notin {"preparing", "stopped"}
    /\ row' = [row EXCEPT ![<<m, 1>>] = IF @ = "queued" THEN "none" ELSE @]
    /\ at' = [at EXCEPT ![m] = IF row[<<m, 1>>] = "running" THEN "done" ELSE "rollback"]
    /\ NoFault
    /\ UNCHANGED <<gateVars, stream, sent>> /\ InSubmit

PublishRun(m) ==
    /\ at[m] = "opened" /\ row[<<m, 1>>] # "stopped"
    /\ IF row[<<m, 1>>] = "preparing"
       THEN /\ row' = [row EXCEPT ![<<m, 1>>] = "delivered"]
            /\ stream' = stream \cup {<<m, 1>>}
       ELSE UNCHANGED <<row, stream>>
    /\ at' = [at EXCEPT ![m] = "done"]
    /\ NoFault
    /\ UNCHANGED <<gateVars, sent>> /\ InSubmit

\* recordPublishState finds the row of a fat dispatch stopped, and throws: nothing
\* is published.
PublishRunStopped(m) ==
    /\ at[m] = "opened" /\ row[<<m, 1>>] = "stopped"
    /\ at' = [at EXCEPT ![m] = "rollback"]
    /\ NoFault
    /\ UNCHANGED <<gateVars, rowVars>> /\ InSubmit

\* The publish throws.  failChatRunDispatch closes a row nobody holds, unless a
\* fat message may have landed: then the row and the gate are left as they are.
PublishRunFails(m) ==
    /\ at[m] = "opened" /\ Fault
    /\ \/ /\ row' = [row EXCEPT ![<<m, 1>>] = IF @ \in {"queued", "preparing"} THEN "failed" ELSE @]
          /\ at' = [at EXCEPT ![m] = IF row[<<m, 1>>] = "running" THEN "done" ELSE "rollback"]
          /\ UNCHANGED stream
       \/ /\ row[<<m, 1>>] = "preparing"
          /\ stream' \in {stream, stream \cup {<<m, 1>>}}
          /\ at' = [at EXCEPT ![m] = "done"]
          /\ UNCHANGED row
    /\ UNCHANGED <<torn, gateVars, sent>> /\ InSubmit

\* The dispatch failed; or the client had gone, admission refused or the row could
\* not be opened, before there was one.
Rollback(m) ==
    /\ at[m] \in {"gated", "rollback"}
    /\ releaseSessionGateForTurn(m)
    /\ at' = [at EXCEPT ![m] = "done"]
    /\ NoFault
    /\ UNCHANGED rowVars /\ InSubmit

SenderCrash(m) ==
    /\ at[m] \in {"gated", "opened", "rollback"}
    /\ at' = [at EXCEPT ![m] = "done"]
    /\ Fault
    /\ UNCHANGED <<torn, gateVars, rowVars>> /\ InSubmit

----------------------------------------------------------------------------
(* A drain: withPendingDrainClaim and what it runs.                        *)

\* A drain that returns, and one that throws: only the first has its completion
\* marked done.
Return(d) ==
    /\ drain' = [drain EXCEPT ![d] = Off]
    /\ IF d = Consumer
       THEN /\ processed' = processed \cup {handler.event}
            /\ handler' = NoEvent
       ELSE UNCHANGED <<processed, handler>>

releaseClaim(d) == claim' = IF claim = d THEN None ELSE claim

Throw(d) ==
    /\ releaseClaim(d)
    /\ drain' = [drain EXCEPT ![d] = Off]
    /\ handler' = IF d = Consumer THEN NoEvent ELSE handler

takeClaim(d) ==
    /\ drain[d].pc = "claim"
    /\ IF agent_status # "running" /\ claim = None
       THEN /\ claim' = d
            /\ Go(d, "read")
            /\ UNCHANGED <<processed, handler>>
       ELSE Return(d) /\ UNCHANGED claim
    /\ NoFault
    /\ UNCHANGED <<gateVars, queueVars, rowVars, events, at, owed>>

\* The oldest of what users sent, or of all when they sent nothing.
Users == {i \in DOMAIN queue : queue[i] \notin Reports}
NextPending == queue[Min(IF Users # {} THEN Users ELSE DOMAIN queue)]

InDrain == UNCHANGED <<processed, at, handler, owed>>

\* Mutant: an empty queue is not noticed.
ReadRegardless(d) ==
    /\ drain[d].pc = "read"
    /\ drain' = [drain EXCEPT ![d].pc = "bind",
                             ![d].msg = IF queue = <<>> THEN None ELSE NextPending]
    /\ NoFault
    /\ UNCHANGED <<gateVars, claim, queueVars, rowVars, events>> /\ InDrain

ReadQueue(d) ==
    /\ drain[d].pc = "read"
    /\ drain' = [drain EXCEPT ![d].pc = IF queue = <<>> THEN "release" ELSE "bind",
                             ![d].msg = IF queue = <<>> THEN None ELSE NextPending]
    /\ NoFault
    /\ UNCHANGED <<gateVars, claim, queueVars, rowVars, events>> /\ InDrain

\* applyPendingCredentials: the turn is ended by a completion that names no run.
\* When that cannot be published the message stays where it is.
CredentialsUnreadable(d) ==
    LET m == drain[d].msg IN
    /\ drain[d].pc = "bind" /\ m \in Unreadable
    /\ \/ events' = events \cup {Refusal(m, 0)} /\ Go(d, "drop") /\ NoFault
       \/ UNCHANGED events /\ Go(d, "release") /\ Fault /\ UNCHANGED torn
    /\ UNCHANGED <<gateVars, claim, queueVars, rowVars>> /\ InDrain

\* bindRefusalIsFinal, and abandonPendingMessage once the attempts are spent; a
\* refusal that cannot be published is tried again, with a row of its own.  A
\* count past BIND_MAX_ATTEMPTS is kept at it: it is only ever compared with that.
BindRefused(d) ==
    LET m == drain[d].msg
        n == Fresh(m)
        stays == m \in ToSet(queue)
        final == attempts[m] + 1 >= BIND_MAX_ATTEMPTS /\ RunsOf(m) \cap OpenRuns = {}
    IN  /\ drain[d].pc = "bind" /\ m \notin Unreadable
        /\ attempts' = IF stays THEN [attempts EXCEPT ![m] = Min({@ + 1, BIND_MAX_ATTEMPTS})]
                       ELSE attempts
        /\ CASE ~stays ->
                   Go(d, "release") /\ NoFault /\ UNCHANGED <<claim, handler, row, events>>
             [] stays /\ ~final ->
                   Throw(d) /\ NoFault /\ UNCHANGED <<row, events>>
             [] stays /\ final ->
                   /\ n \in Ids
                   /\ row' = [row EXCEPT ![<<m, n>>] = "failed"]
                   /\ \/ /\ events' = events \cup {Refusal(m, n)}
                         /\ Go(d, "drop") /\ NoFault
                         /\ UNCHANGED <<claim, handler>>
                      \/ Throw(d) /\ Fault /\ UNCHANGED <<torn, events>>
        /\ UNCHANGED <<gateVars, queue, reserved, stream, sent, processed, at, owed>>

\* Mutant: every attempt mints an id of its own.
MintEveryTime(d) ==
    LET m == drain[d].msg
        n == Fresh(m)
    IN  /\ \/ drain[d].pc = "bind" /\ m \notin Unreadable
           \/ drain[d].pc = "reserve"
        /\ IF m \in ToSet(queue)
           THEN /\ reserved' = [reserved EXCEPT ![m] = n]
                /\ drain' = [drain EXCEPT ![d].pc = "classify", ![d].run = n]
           ELSE Go(d, "release") /\ UNCHANGED reserved
        /\ NoFault
        /\ UNCHANGED <<gateVars, claim, queue, attempts, rowVars, events>> /\ InDrain

\* The workspace is bound, and the row's dispatch_task_id read or set.
reserveDispatchTaskId(d) ==
    LET m == drain[d].msg
        n == IF reserved[m] = 0 THEN Fresh(m) ELSE reserved[m]
    IN  /\ \/ drain[d].pc = "bind" /\ m \notin Unreadable
           \/ drain[d].pc = "reserve"
        /\ IF m \in ToSet(queue)
           THEN /\ n \in Ids
                /\ reserved' = [reserved EXCEPT ![m] = n]
                /\ drain' = [drain EXCEPT ![d].pc = "classify", ![d].run = n]
           ELSE Go(d, "release") /\ UNCHANGED reserved
        /\ NoFault
        /\ UNCHANGED <<gateVars, claim, queue, attempts, rowVars, events>> /\ InDrain

\* Mutant: a run that failed counts as having had its turn.
FailedIsConsumed(m, n) ==
    CASE row[<<m, n>>] = "none" -> "absent"
      [] row[<<m, n>>] \in {"queued", "delivered", "running"} -> "open"
      [] row[<<m, n>>] = "preparing" -> "unsettled"
      [] row[<<m, n>>] \in Terminal -> "consumed"

recordedHandoffState(m, n) ==
    CASE row[<<m, n>>] = "none" -> "absent"
      [] row[<<m, n>>] \in {"queued", "delivered", "running"} -> "open"
      [] row[<<m, n>>] = "preparing" -> "unsettled"
      [] row[<<m, n>>] \in {"ended", "cancelled", "stopped"} -> "consumed"
      [] row[<<m, n>>] \in {"failed", "unconfirmed"} ->
            IF \/ \E r \in RunsOf(m) \ {<<m, n>>} : Reached(r) \/ row[r] \in {"cancelled", "stopped"}
               \/ \E e \in events : e.msg = m
            THEN "consumed" ELSE "retryable"

\* preparePendingHandoff.  Only a terminal run's reservation is ever rotated.
PrepareHandoff(d) ==
    LET m == drain[d].msg
        n == drain[d].run
        state == recordedHandoffState(m, n)
        mine == m \in ToSet(queue) /\ reserved[m] = n
    IN  /\ drain[d].pc = "classify"
        /\ Go(d, CASE state = "absent" -> "open"
                   [] state = "unsettled" -> "release"
                   [] state = "open" -> "delete"
                   [] state = "consumed" -> "forget"
                   [] state = "retryable" -> IF mine THEN "reserve" ELSE "release")
        /\ reserved' = IF state = "retryable" /\ mine THEN [reserved EXCEPT ![m] = 0] ELSE reserved
        /\ NoFault
        /\ UNCHANGED <<gateVars, claim, queue, attempts, rowVars, events>> /\ InDrain

\* The row is inserted under the reserved id, refused by the key while that id
\* has a row and by idx_tasks_chat_turn_unique while another of the turn is open.
OpenPending(d, kind) ==
    LET m == drain[d].msg
        n == drain[d].run
    IN  /\ drain[d].pc = "open"
        /\ IF row[<<m, n>>] = "none" /\ RunsOf(m) \cap OpenRuns = {}
           THEN /\ row' = [row EXCEPT ![<<m, n>>] = kind]
                /\ Go(d, "publish")
                /\ UNCHANGED <<claim, handler>>
           ELSE Throw(d) /\ UNCHANGED row
        /\ NoFault
        /\ UNCHANGED <<gateVars, queueVars, stream, sent, eventVars, at, owed>>

OpenPendingFails(d) ==
    /\ drain[d].pc = "open" /\ Fault
    /\ Throw(d)
    /\ UNCHANGED <<torn, gateVars, queueVars, rowVars, eventVars, at, owed>>

RejectPending(d) ==
    /\ drain[d].pc = "open"
    /\ Go(d, "refuse")
    /\ NoFault
    /\ UNCHANGED <<gateVars, claim, queueVars, rowVars, events>> /\ InDrain

\* discardRefusedRun, on the doorbell path
DiscardPending(d) ==
    LET r == <<drain[d].msg, drain[d].run>> IN
    /\ drain[d].pc = "publish" /\ row[r] \notin {"preparing", "stopped"}
    /\ row' = [row EXCEPT ![r] = IF @ = "queued" THEN "none" ELSE @]
    /\ Go(d, IF row[r] = "running" THEN "delete" ELSE "refuse")
    /\ NoFault
    /\ UNCHANGED <<gateVars, claim, queueVars, stream, sent, events>> /\ InDrain

\* Published under the message's own id, which the stream takes once: a second
\* copy is dropped, and its publish answers with the first one's sequence.
Landed(d) ==
    LET r == <<drain[d].msg, drain[d].run>> IN
    /\ sent' = sent \cup {r[1]}
    /\ stream' = IF row[r] = "preparing" /\ r[1] \notin sent THEN stream \cup {r} ELSE stream

PublishPending(d) ==
    LET r == <<drain[d].msg, drain[d].run>> IN
    /\ drain[d].pc = "publish" /\ row[r] # "stopped"
    /\ Landed(d)
    /\ row' = [row EXCEPT ![r] = IF @ = "preparing" THEN "delivered" ELSE @]
    /\ Go(d, "delete")
    /\ NoFault
    /\ UNCHANGED <<gateVars, claim, queueVars, events>> /\ InDrain

\* recordPublishState throws over a row that is stopped.
PublishPendingStopped(d) ==
    /\ drain[d].pc = "publish" /\ row[<<drain[d].msg, drain[d].run>>] = "stopped"
    /\ Throw(d)
    /\ NoFault
    /\ UNCHANGED <<gateVars, queueVars, rowVars, eventVars, at, owed>>

\* The publish throws.  A doorbell's row is closed unless a worker has it, which
\* is as good as a publish; a fat row only if the message certainly did not land.
PublishPendingFails(d) ==
    LET r == <<drain[d].msg, drain[d].run>> IN
    /\ drain[d].pc = "publish"
    /\ \/ /\ row[r] \notin {"preparing", "stopped"} /\ Fault /\ UNCHANGED torn
          /\ Landed(d) \/ UNCHANGED <<sent, stream>>
          /\ row' = [row EXCEPT ![r] = IF @ = "queued" THEN "failed" ELSE @]
          /\ IF row[r] = "running"
             THEN Go(d, "delete") /\ UNCHANGED <<claim, handler>>
             ELSE Throw(d)
       \/ /\ row[r] = "preparing" /\ Fault
          /\ row' = [row EXCEPT ![r] = "failed"]
          /\ Throw(d)
          /\ UNCHANGED <<torn, sent, stream>>
       \/ /\ row[r] = "preparing" /\ Tear
          /\ Landed(d) \/ UNCHANGED <<sent, stream>>
          /\ Throw(d)
          /\ UNCHANGED row
    /\ UNCHANGED <<gateVars, queueVars, eventVars, at, owed>>

DeleteRow(m) ==
    /\ queue' = IF m \in ToSet(queue) THEN RemoveAt(queue, CHOOSE i \in DOMAIN queue : queue[i] = m)
                ELSE queue
    /\ reserved' = [reserved EXCEPT ![m] = 0]
    /\ attempts' = [attempts EXCEPT ![m] = 0]

DeletePending(d) ==
    /\ drain[d].pc \in {"delete", "forget"}
    /\ DeleteRow(drain[d].msg)
    /\ Go(d, IF drain[d].pc = "delete" THEN "gate" ELSE "release")
    /\ NoFault
    /\ UNCHANGED <<gateVars, claim, rowVars, events>> /\ InDrain

GatePending(d) ==
    /\ drain[d].pc = "gate"
    /\ takeSessionGate(drain[d].msg)
    /\ Go(d, "release")
    /\ NoFault
    /\ UNCHANGED <<claim, queueVars, rowVars, events>> /\ InDrain

\* refusePendingAdmission reads the hand-off once more, names its turn on the gate
\* when a completion is coming that will release it, publishes that, and lets go.
RefusePending(d) ==
    LET state == recordedHandoffState(drain[d].msg, drain[d].run) IN
    /\ drain[d].pc = "refuse"
    /\ Go(d, CASE state = "open" -> "delete"
               [] state = "unsettled" -> "release"
               [] OTHER -> "name")
    /\ NoFault
    /\ UNCHANGED <<gateVars, claim, queueVars, rowVars, events>> /\ InDrain

NameRefusal(d) ==
    LET m == drain[d].msg
        takes == CanTake(m) /\ \A e \in events : e.msg # m
    IN  /\ drain[d].pc = "name"
        /\ IF takes THEN takeSessionGate(m) ELSE UNCHANGED gateVars
        /\ drain' = [drain EXCEPT ![d].pc = "announce", ![d].took = takes]
        /\ NoFault
        /\ UNCHANGED <<claim, queueVars, rowVars, events>> /\ InDrain

AnnounceRefusal(d) ==
    /\ drain[d].pc = "announce"
    /\ events' = events \cup {Refusal(drain[d].msg, drain[d].run)}
    /\ Go(d, "drop")
    /\ NoFault
    /\ UNCHANGED <<gateVars, claim, queueVars, rowVars>> /\ InDrain

AnnounceRefusalFails(d) ==
    /\ drain[d].pc = "announce" /\ Fault
    /\ IF drain[d].took THEN releaseSessionGateForTurn(drain[d].msg) ELSE UNCHANGED gateVars
    /\ Throw(d)
    /\ UNCHANGED <<torn, queueVars, rowVars, eventVars, at, owed>>

\* The queue row of a turn that has been refused; a delete that fails is let be.
DropPending(d) ==
    /\ drain[d].pc = "drop"
    /\ \/ DeleteRow(drain[d].msg) /\ NoFault
       \/ UNCHANGED queueVars /\ Tear
    /\ Go(d, "release")
    /\ UNCHANGED <<gateVars, claim, rowVars, events>> /\ InDrain

\* The last of the drains one call may run need not look again.
ReleaseDrain(d) ==
    /\ drain[d].pc = "release"
    /\ releaseClaim(d)
    /\ IF drain[d].rounds + 1 = MAX_DRAINS_PER_CALL
       THEN Return(d)
       ELSE Go(d, "recheck") /\ UNCHANGED <<processed, handler>>
    /\ NoFault
    /\ UNCHANGED <<gateVars, queueVars, rowVars, events, at, owed>>

\* hasQueuedMessage
Recheck(d) ==
    /\ drain[d].pc = "recheck"
    /\ IF queue = <<>>
       THEN Return(d)
       ELSE /\ drain' = [drain EXCEPT ![d] = [Off EXCEPT !.pc = "claim", !.rounds = drain[d].rounds + 1]]
            /\ UNCHANGED <<processed, handler>>
    /\ NoFault
    /\ UNCHANGED <<gateVars, claim, queueVars, rowVars, events, at, owed>>

\* The process a drain runs in dies: its claim stays until it lapses.
DrainCrash(d) ==
    /\ drain[d].pc # "off" /\ Tear
    /\ drain' = [drain EXCEPT ![d] = Off]
    /\ handler' = IF d = Consumer THEN NoEvent ELSE handler
    /\ UNCHANGED <<gateVars, claim, queueVars, rowVars, eventVars, at, owed>>

Abandoned == claim # None /\ drain[claim].pc \in {"off", "claim"}

ClaimLapses ==
    /\ Abandoned
    /\ claim' = None
    /\ NoFault
    /\ UNCHANGED <<gateVars, queueVars, rowVars, eventVars, at, drain, handler, owed>>

\* A drain takes longer than CLAIM_SECONDS.
ClaimLapsesEarly ==
    /\ claim # None /\ ~Abandoned /\ Tear
    /\ claim' = None
    /\ UNCHANGED <<gateVars, queueVars, rowVars, eventVars, at, drain, handler, owed>>

----------------------------------------------------------------------------
(* Completions: processCompletionEvent and handleComplete.                 *)

TurnProcessed(m) == \E e \in processed : e.msg = m

\* What resolveChatRunProvenance finds: an event names a row, or no row of a turn
\* (foreign), or nothing.
NamesRow(e) == e.run # 0 /\ row[<<e.msg, e.run>>] # "none"

SkipCompletion(e) ==
    /\ TurnProcessed(e.msg)
    /\ NamesRow(e) => row[<<e.msg, e.run>>] \notin Open

\* closeNamedChatRun, closeUnnamedChatRun
RowsClosedBy(e) ==
    IF e.run # 0 THEN {<<e.msg, e.run>>} \cap OpenRuns
    ELSE IF \E r \in RunsOf(e.msg) : row[r] \in Terminal THEN {}
    ELSE RunsOf(e.msg) \cap OpenRuns

BeginCompletion(e) ==
    /\ handler.pc = "free" /\ e \notin processed
    /\ IF SkipCompletion(e)
       THEN /\ processed' = processed \cup {e}
            /\ UNCHANGED <<row, handler>>
       ELSE /\ row' = [r \in Runs |-> IF r \notin RowsClosedBy(e) THEN row[r]
                                     ELSE IF Reached(r) THEN "ended" ELSE "failed"]
            /\ handler' = [pc |-> "release", event |-> e]
            /\ UNCHANGED processed
    /\ NoFault
    /\ UNCHANGED <<gateVars, claim, queueVars, stream, sent, events, at, drain, owed>>

\* The gate is given back by the turn that has it; only then is the queue drained.
ReleaseOnCompletion ==
    /\ handler.pc = "release"
    /\ IF releaseSessionGateIfLastRun(handler.event.msg)
       THEN /\ OpenGate
            /\ handler' = [handler EXCEPT !.pc = "drain"]
            /\ drain' = [drain EXCEPT ![Consumer] = [Off EXCEPT !.pc = "claim"]]
            /\ UNCHANGED processed
       ELSE /\ processed' = processed \cup {handler.event}
            /\ handler' = NoEvent
            /\ UNCHANGED <<gateVars, drain>>
    /\ NoFault
    /\ UNCHANGED <<claim, queueVars, rowVars, events, at, owed>>

HandlerCrash ==
    /\ handler.pc = "release" /\ Fault
    /\ handler' = NoEvent
    /\ UNCHANGED <<torn, gateVars, claim, queueVars, rowVars, eventVars, at,
                   drain, owed>>

----------------------------------------------------------------------------
(* Workers.  A doorbell row is claimed off the table; a fat row is reached  *)
(* only by its message, and a message whose row has ended is refused.      *)

Outside == UNCHANGED <<gateVars, claim, queueVars, processed, at, drain, handler>>

ClaimRun(r) ==
    /\ row[r] = "queued"
    /\ row' = [row EXCEPT ![r] = "running"]
    /\ NoFault
    /\ UNCHANGED <<stream, sent, events, owed>> /\ Outside

TakeMessage(r) ==
    /\ r \in stream
    /\ stream' = stream \ {r}
    /\ row' = [row EXCEPT ![r] = IF @ \in Open THEN "running" ELSE @]
    /\ NoFault
    /\ UNCHANGED <<sent, events, owed>> /\ Outside

Report(r) ==
    /\ row[r] = "running" /\ Event(r) \notin events
    /\ events' = events \cup {Event(r)}
    /\ NoFault
    /\ UNCHANGED <<rowVars, owed>> /\ Outside

----------------------------------------------------------------------------
(* The sweeper, and Stop.  Each closes rows first and offers their gates   *)
(* back afterwards.                                                        *)

\* A dispatch of the run is still under way: the sweeper's waits are far longer.
Dispatching(r) ==
    \/ r[2] = 1 /\ at[r[1]] = "opened"
    \/ \E d \in Drains : /\ drain[d].msg = r[1] /\ drain[d].run = r[2]
                         /\ drain[d].pc \in {"open", "publish", "delete", "gate"}

\* A turn is live while its request is about to open its run, and while its run
\* can still be executed: a fat row whose message is gone never will be.
LiveTurn(m) ==
    \/ at[m] = "gated"
    \/ \E r \in RunsOf(m) \cap OpenRuns :
          row[r] \in {"queued", "running"} \/ r \in stream \/ Dispatching(r)

CloseRun(r, as) ==
    /\ row' = [row EXCEPT ![r] = as]
    /\ owed' = owed \cup {r[1]}
    /\ UNCHANGED <<stream, sent>> /\ Outside

\* The worker is lost, or the queue wait ran out: the sweeper tells the session.
ReapRun(r) ==
    /\ \/ row[r] = "running" /\ Event(r) \notin events
       \/ row[r] = "queued" /\ ~Dispatching(r)
    /\ Fault /\ UNCHANGED torn
    /\ events' = events \cup {Unnamed(r[1])}
    /\ CloseRun(r, IF row[r] = "running" THEN "ended" ELSE "failed")

\* reapOrphanedFatRuns: no worker has taken the row in BRAIN_TASK_TIMEOUT_SEC.
ReapOrphanedFatRun(r) ==
    /\ row[r] \in {"preparing", "delivered"} /\ ~Dispatching(r)
    /\ IF r \in stream THEN Fault /\ UNCHANGED torn ELSE NoFault
    /\ UNCHANGED events
    /\ CloseRun(r, "unconfirmed")

\* Stop, its first statement: interruptUnstartedChatRuns.
StopSession ==
    LET unstarted == {r \in Runs : row[r] = "queued"} IN
    /\ unstarted # {}
    /\ row' = [r \in Runs |-> IF r \in unstarted THEN "cancelled" ELSE row[r]]
    /\ events' = events \cup {Event(r) : r \in unstarted}
    /\ owed' = owed \cup {r[1] : r \in unstarted}
    /\ Fault /\ UNCHANGED torn
    /\ UNCHANGED <<stream, sent>> /\ Outside

\* Its second, cancelUnheldRuns: a row that has not been published is closed, with
\* no word to the session and no look at the gate.  One that may have been is held:
\* it is marked cancelling, which is as open as it was, and left to its holder.  Not
\* told apart: a row that was published, nobody knows with what outcome, and is not
\* on the stream; the code keeps it.
CancelUnheldRuns ==
    LET unheld == {r \in Runs : row[r] = "preparing" /\ r \notin stream} IN
    /\ unheld # {}
    /\ row' = [r \in Runs |-> IF r \in unheld THEN "stopped" ELSE row[r]]
    /\ Fault /\ UNCHANGED torn
    /\ UNCHANGED <<stream, sent, events, owed>> /\ Outside

HandBack(m) ==
    /\ m \in owed
    /\ owed' = owed \ {m}
    /\ IF releaseSessionOfEndedTurn(m) THEN OpenGate ELSE UNCHANGED gateVars
    /\ NoFault
    /\ UNCHANGED <<claim, queueVars, rowVars, eventVars, at, drain, handler>>

\* The process dies with the offer still to make; each offer has a fault behind it.
HandBackLost(m) ==
    /\ m \in owed
    /\ owed' = owed \ {m}
    /\ NoFault
    /\ UNCHANGED <<rowVars, events>> /\ Outside

\* Mutant: nobody looks for queues left behind.
NeverDrainOrphans == FALSE /\ UNCHANGED vars

\* drainOrphanedPendingMessages
SweeperDrains ==
    /\ drain[Sweeper].pc = "off"
    /\ agent_status = "idle" /\ queue # <<>> /\ OpenRuns = {}
    /\ drain' = [drain EXCEPT ![Sweeper] = [Off EXCEPT !.pc = "claim"]]
    /\ NoFault
    /\ UNCHANGED <<gateVars, claim, queueVars, rowVars, eventVars, at, handler, owed>>

\* A request, a drain or a completion is at work on the session: none of them
\* lasts as long as SESSION_STUCK_TIMEOUT_SEC.
AtWork ==
    \/ \E m \in Messages : at[m] \in {"gated", "opened", "rollback"}
    \/ \E d \in Drains : drain[d].pc # "off"
    \/ events # processed \/ handler.pc # "free" \/ owed # {}

\* Mutant: there is no backstop.
NeverReapStuck == FALSE /\ UNCHANGED vars

reapStuckSessions ==
    /\ agent_status = "running" /\ ~AtWork
    /\ \A r \in OpenRuns : row[r] \in {"preparing", "delivered"} /\ r \notin stream
    /\ OpenGate
    /\ NoFault
    /\ UNCHANGED <<claim, queueVars, rowVars, eventVars, at, drain, handler, owed>>

----------------------------------------------------------------------------
(* The status a worker reports.  The run goes back to the queue, or its    *)
(* message to the stream, and on to another worker: here it is running all *)
(* the while.                                                              *)

\* The number of faults stands for Date.now(): it puts the events in their order.
SendNotice(r, status) ==
    /\ row[r] = "running" /\ Event(r) \notin events
    /\ faults < MaxFaults /\ faults' = faults + 1
    /\ notices' = notices \cup {[wallclock |-> faults + 1, status |-> status]}
    /\ UNCHANGED <<status_event_at, torn, rowVars, events, owed>> /\ Outside

\* The worker of the run was told to terminate.
taskInterrupted(r) == SendNotice(r, "interrupted")

\* The run is started by a worker that is not its first.
taskResumed(r) == SendNotice(r, "running")

\* An event older than the last one applied is dropped.  Neither the marker nor the
\* rows are asked: a live turn that was interrupted no longer shuts the gate.
handleStatusEvent(n) ==
    /\ notices' = notices \ {n}
    /\ IF n.wallclock > status_event_at
       THEN /\ agent_status' = n.status /\ status_event_at' = n.wallclock
            /\ torn' = (torn \/ (n.status = "interrupted" /\ \E m \in Messages : LiveTurn(m)))
       ELSE UNCHANGED <<agent_status, status_event_at, torn>>
    /\ UNCHANGED <<marker, faults, claim, queueVars, rowVars, eventVars, at, drain, handler, owed>>

----------------------------------------------------------------------------
DrainStep(d) ==
    \/ takeClaim(d) \/ ReadQueue(d) \/ CredentialsUnreadable(d)
    \/ BindRefused(d)
    \/ reserveDispatchTaskId(d) \/ PrepareHandoff(d)
    \/ \E kind \in Kinds(drain[d].msg) : OpenPending(d, kind)
    \/ RejectPending(d) \/ DiscardPending(d) \/ PublishPending(d) \/ PublishPendingStopped(d)
    \/ DeletePending(d) \/ GatePending(d)
    \/ RefusePending(d) \/ NameRefusal(d) \/ AnnounceRefusal(d) \/ DropPending(d)
    \/ ReleaseDrain(d) \/ Recheck(d)

DrainFault(d) ==
    OpenPendingFails(d) \/ PublishPendingFails(d)
    \/ AnnounceRefusalFails(d) \/ DrainCrash(d)

SendStep(m) ==
    \/ \E kind \in Kinds(m) : OpenRun(m, kind)
    \/ DiscardRun(m) \/ PublishRun(m) \/ PublishRunStopped(m) \/ Rollback(m)

SendFault(m) == PublishRunFails(m) \/ SenderCrash(m)

Next ==
    \/ \E m \in Messages :
          \/ Submit(m) \/ QueueReport(m)
          \/ SendStep(m) \/ SendFault(m)
          \/ HandBack(m) \/ HandBackLost(m)
    \/ \E d \in Drains : DrainStep(d) \/ DrainFault(d)
    \/ ClaimLapses \/ ClaimLapsesEarly
    \/ \E e \in events : BeginCompletion(e)
    \/ ReleaseOnCompletion \/ HandlerCrash
    \/ \E r \in Runs : ClaimRun(r) \/ TakeMessage(r) \/ Report(r)
                         \/ ReapRun(r) \/ ReapOrphanedFatRun(r)
                         \/ taskInterrupted(r) \/ taskResumed(r)
    \/ \E n \in notices : handleStatusEvent(n)
    \/ StopSession \/ CancelUnheldRuns \/ SweeperDrains \/ reapStuckSessions

Spec == Init /\ [][Next]_vars

FairSpec ==
    /\ Spec
    /\ \A m \in Messages : WF_vars(SendStep(m)) /\ WF_vars(HandBack(m))
    /\ \A d \in Drains : WF_vars(DrainStep(d))
    /\ WF_vars(ClaimLapses)
    /\ WF_vars(\E e \in events : BeginCompletion(e))
    /\ WF_vars(ReleaseOnCompletion)
    /\ WF_vars(\E n \in notices : handleStatusEvent(n))
    /\ \A r \in Runs : /\ WF_vars(ClaimRun(r) \/ TakeMessage(r) \/ Report(r))
                        /\ WF_vars(r \notin stream /\ ReapOrphanedFatRun(r))
    /\ WF_vars(SweeperDrains) /\ WF_vars(reapStuckSessions)

----------------------------------------------------------------------------
(* Properties.                                                             *)

\* Every variable has its type, and a drain holds what its step needs.
TypeOK ==
    /\ agent_status \in {"idle", "running", "interrupted"} /\ marker \in Messages \cup {None}
    /\ claim \in Drains \cup {None}
    /\ queue \in Seq(Messages) /\ IsInjective(queue)
    /\ reserved \in [Messages -> Ids \cup {0}]
    /\ attempts \in [Messages -> 0 .. BIND_MAX_ATTEMPTS]
    /\ row \in [Runs -> {"none"} \cup Open \cup Terminal]
    /\ stream \subseteq Runs /\ sent \subseteq Messages
    /\ events \subseteq [msg : Messages, run : Ids \cup {0}, refusal : BOOLEAN]
    /\ processed \subseteq events
    /\ at \in [Messages -> {"new", "parked", "gated", "opened", "rollback", "done"}]
    /\ \A d \in Drains : drain[d].pc \notin {"off", "claim", "read"} =>
          drain[d].pc \in {"release", "recheck"} \/ drain[d].msg \in Messages
    /\ handler \in [pc : {"free", "release", "drain"}, event : events \cup {None}]
    /\ owed \subseteq Messages /\ faults \in 0 .. MaxFaults /\ torn \in BOOLEAN
    /\ notices \subseteq [wallclock : 1 .. MaxFaults, status : {"running", "interrupted"}]
    /\ status_event_at \in 0 .. MaxFaults

\* A turn is executed at most once, however many drains, retries, crashes and
\* ambiguous publishes it took to send it on (pending-dispatch.ts).
NoTurnRunsTwice ==
    \A m \in Messages : Cardinality({r \in RunsOf(m) : Reached(r)}) <= 1

\* Unless a drain was torn (it died, outlived its claim, could not tell what became
\* of its publish or could not drop what it refused), or a live turn was reported
\* interrupted, which opens the gate beside it (consumer.ts, handleStatusEvent), a
\* session never has two live turns (drain-claim.ts).
OneTurnAtATime ==
    ~torn => Cardinality({m \in Messages : LiveTurn(m)}) <= 1

\* A message that leaves the queue has a run, or had one that a worker or Stop or
\* the sweeper ended, or its user has been told or is being told: it is never
\* dropped with nothing to show for it (pending-dispatch.ts).
ParkedTurnIsAccountedFor ==
    \A m \in Messages : at[m] = "parked" /\ m \notin ToSet(queue) =>
        \/ \E r \in RunsOf(m) : row[r] \in Open \cup {"ended", "cancelled", "stopped", "unconfirmed"}
        \/ \E e \in events : e.msg = m
        \/ \E d \in Drains : drain[d].msg = m /\ drain[d].pc \in {"refuse", "name", "announce"}

\* Nobody opens or takes over the gate of a turn that is live: not a late
\* completion, a rollback, a Stop or a sweep of another turn, nor a message or a
\* drain after a late word that a run was resumed (chat-run.ts).  Turns reported
\* interrupted are excepted, as above.
LiveTurnKeepsItsGate ==
    [][\A m \in Messages :
          marker = m /\ marker' # m /\ ~torn' => ~(LiveTurn(m) /\ LiveTurn(m)')]_vars

\* The gate is opened again, whatever died while it was shut and though a late word
\* that a run was resumed may shut it for no turn at all (reapStuckSessions).
GateIsOpenedAgain == agent_status = "running" ~> agent_status # "running"

\* What is parked leaves the queue in the end (drainOrphanedPendingMessages), unless
\* the session is left interrupted with no run to come: the sweep takes sessions that
\* are idle or failed, and such a queue waits for the next turn of its session.
QueueIsDrained ==
    queue # <<>> ~> (queue = <<>> \/ (agent_status = "interrupted" /\ OpenRuns = {}))
=============================================================================
