------------------------------ MODULE TaskLock ------------------------------
(***************************************************************************)
(* The lock that keeps two brains out of one workspace: one entry of the   *)
(* BRAIN_REGISTRY bucket (its key is a gate key; keys do not interact),    *)
(* what each process remembers about it, and the runs that work under it.  *)
(*                                                                         *)
(* A write to the store is sent, stored or refused, and answered, in three *)
(* steps; the sender may stop waiting at any of them, and what it stopped  *)
(* waiting for may still be stored much later.  A read is one step with    *)
(* the decision made on it, because every write that follows a read is a   *)
(* compare-and-set on the revision that was read.                          *)
(*                                                                         *)
(* Every run here is a claimed doorbell, so its lock names the task and    *)
(* may be taken over.  An attempt acquires once: a task that is delivered  *)
(* again is a new attempt with the same TaskOf.                            *)
(***************************************************************************)
EXTENDS Naturals, FiniteSets

CONSTANTS
    Attempts,       \* acquisitions (LockValue.acq), one per delivery of a task
    NoAttempt,      \* no acquisition
    TaskOf,         \* the task an attempt is a delivery of (LockValue.task)
    Procs,          \* brain processes (BRAIN_HOLDER_ID); none is started twice
    NoProc,         \* no process
    PodOf,          \* the pod a process runs in (LockValue.pod)
    TTL,            \* BRAIN_REGISTRY_TTL_MS
    DEAD,           \* TASK_LOCK_DEAD_HOLDER_MS
    REFRESH,        \* LOCK_REFRESH_INTERVAL_MS
    TIMEOUT,        \* the longest exchange with the store a client waits for
    READBACK,       \* the longest a renewal waits for its refusal and the entry read back
    Skew,           \* how far a taker's clock may be ahead of the store's
    MaxGone,        \* bound on writes whose sender no longer waits
    MaxForced,      \* bound on forced releases
    MaxLost         \* bound on answers lost while later ones get through

ASSUME LockAssumption ==
    /\ NoAttempt \notin Attempts
    /\ NoProc \notin Procs
    /\ TTL \in Nat /\ DEAD \in Nat /\ REFRESH \in Nat \ {0} /\ TIMEOUT \in Nat
    /\ READBACK \in Nat
    /\ Skew \in Nat /\ MaxGone \in Nat /\ MaxForced \in Nat /\ MaxLost \in Nat
    /\ REFRESH < DEAD /\ 2 * REFRESH <= TTL
    /\ TIMEOUT + REFRESH < DEAD /\ TIMEOUT + REFRESH < TTL

VARIABLES
    entry,          \* the stored lock, and for how long it has gone unwritten
    proc,           \* what each process is doing
    local,          \* what each process remembers of the lock
    active,         \* activeAbort: the attempt registered under the gate key
    phase, at,      \* where each attempt is, and in which process
    ops,            \* writes on their way to the store or back
    forced, lost    \* how much of the bounds is used up

vars == <<entry, proc, local, active, phase, at, ops, forced, lost>>

Ages == 0 .. TTL
Holders == Procs \cup {NoProc}
Acqs == Attempts \cup {NoAttempt}
Entries == [acq : Acqs, proc : Holders, age : Ages]
Memories == [acq : Acqs, current : BOOLEAN, unproven : Ages]
Phases == {"idle", "acquiring", "working", "stopping", "releasing", "done"}

Free == [acq |-> NoAttempt, proc |-> NoProc, age |-> 0]
Forgotten == [acq |-> NoAttempt, current |-> FALSE, unproven |-> 0]

\* A write: acq is the value's acquisition, by the attempt that asked for it,
\* turn its place among what its process is waiting for, current says that the
\* revision it names (or was answered with) is the entry's, age is how long ago
\* its value was stamped, gone that nobody waits for it.
Ops == [kind : {"create", "take", "renew", "adopt", "delete", "reclaim"},
        proc : Procs, acq : Acqs, by : Acqs, turn : Nat, current : BOOLEAN,
        age : Ages, res : {"sent", "ok", "conflict", "lost"}, gone : BOOLEAN]

TypeOK ==
    /\ entry \in Entries
    /\ proc \in [Procs -> {"new", "starting", "up", "dead"}]
    /\ local \in [Procs -> Memories]
    /\ active \in [Procs -> Acqs]
    /\ phase \in [Attempts -> Phases]
    /\ at \in [Attempts -> Holders]
    /\ ops \subseteq Ops
    /\ forced \in 0 .. MaxForced
    /\ lost \in 0 .. MaxLost

Init ==
    /\ entry = Free
    /\ proc = [p \in Procs |-> "new"]
    /\ local = [p \in Procs |-> Forgotten]
    /\ active = [p \in Procs |-> NoAttempt]
    /\ phase = [a \in Attempts |-> "idle"]
    /\ at = [a \in Attempts |-> NoProc]
    /\ ops = {}
    /\ forced = 0
    /\ lost = 0

-----------------------------------------------------------------------------
(* The local evidence.                                                     *)

Smaller(i, j) == IF i <= j THEN i ELSE j

lockProofDeadline == IF TTL - REFRESH >= REFRESH THEN TTL - REFRESH ELSE REFRESH

\* Mutant: the fence stays at the proof deadline.
FenceAtTtl == lockProofDeadline

lockSelfFence == Smaller(lockProofDeadline, DEAD - REFRESH)

lockPastSelfFence(p) ==
    local[p].acq # NoAttempt /\ local[p].unproven >= lockSelfFence

forgetLock(p) == local' = [local EXCEPT ![p] = Forgotten]

Working(a) == phase[a] = "working"

\* The run is told to stop; one that is already stopping stays so.
Abort(a) == phase' = [phase EXCEPT ![a] = IF @ = "working" THEN "stopping" ELSE @]

-----------------------------------------------------------------------------
(* The store.                                                              *)

Write(kind, p, acq, by, age) ==
    [kind |-> kind, proc |-> p, acq |-> acq, by |-> by, turn |-> 0,
     current |-> (kind # "create"), age |-> age, res |-> "sent", gone |-> FALSE]

Awaited(S, p) == {o \in S : o.proc = p /\ ~ o.gone}

\* The writes S with o after everything its process is already waiting for.
Sending(S, o) == S \cup {[o EXCEPT !.turn = Cardinality(Awaited(S, o.proc))]}

\* The writes in flight once nobody waits for o any more.
Without(o) ==
    {IF x \in Awaited(ops, o.proc) /\ x.turn > o.turn
     THEN [x EXCEPT !.turn = @ - 1] ELSE x : x \in ops \ {o}}

\* Once the entry has moved, nobody else's revision is current.
Stale(S) == {[o EXCEPT !.current = FALSE] : o \in S}
AllStale == [p \in Procs |-> [local[p] EXCEPT !.current = FALSE]]

Accepted(o) == IF o.kind = "create" THEN entry = Free ELSE o.current

\* Mutant: the value carries the holder where its acquisition belongs.
HolderAsAcq(o) ==
    IF o.kind \in {"delete", "reclaim"} THEN Free
    ELSE [acq |-> o.proc, proc |-> o.proc, age |-> 0]

Stored(o) ==
    IF o.kind \in {"delete", "reclaim"} THEN Free
    ELSE [acq |-> o.acq, proc |-> o.proc, age |-> 0]

Reply(o, res, current) ==
    IF o.gone THEN {} ELSE {[o EXCEPT !.res = res, !.current = current]}

\* A connection keeps its order: what a process sends is stored in the order
\* sent, and answered in that order, so a write is served once the process has
\* heard of, or given up on, everything it sent before.
Store(o) ==
    /\ o.res = "sent"
    /\ o.gone \/ \A x \in Awaited(ops, o.proc) : x.turn < o.turn => x.res = "lost"
    /\ IF Accepted(o)
       THEN /\ entry' = Stored(o)
            /\ local' = AllStale
            /\ ops' = Stale(ops \ {o}) \cup Reply(o, "ok", TRUE)
       ELSE /\ ops' = (ops \ {o}) \cup Reply(o, "conflict", FALSE)
            /\ UNCHANGED <<entry, local>>
    /\ UNCHANGED <<proc, active, phase, at, forced, lost>>

\* One answer is lost on its own; the process hears the ones after it.
AnswerLost(o) ==
    /\ ~ o.gone
    /\ o.res \in {"ok", "conflict"}
    /\ lost < MaxLost
    /\ lost' = lost + 1
    /\ ops' = (ops \ {o}) \cup {[o EXCEPT !.res = "lost"]}
    /\ UNCHANGED <<entry, proc, local, active, phase, at, forced>>

\* The bucket drops an entry nobody has written for TTL.
Expire ==
    /\ entry # Free
    /\ entry.age = TTL
    /\ entry' = Free
    /\ local' = AllStale
    /\ ops' = Stale(ops)
    /\ UNCHANGED <<proc, active, phase, at, forced, lost>>

\* What is left in flight when the client stops waiting for o.
Ownerless(o) == [o EXCEPT !.gone = TRUE, !.by = NoAttempt, !.turn = 0, !.age = 0]

Abandon(o) ==
    { Without(o) } \cup
    IF o.res = "sent" /\ Cardinality({x \in ops : x.gone}) < MaxGone
    THEN { Without(o) \cup {Ownerless(o)} } ELSE {}

Answered(o, res) == ~ o.gone /\ o.res = res /\ ops' = Without(o)
TimedOut(o) == ~ o.gone /\ ops' \in Abandon(o)

-----------------------------------------------------------------------------
(* Acquiring.                                                              *)

\* The gate key must not be registered in this process; the check is not atomic
\* with the acquisition, so two attempts of a process may both be acquiring.
BeginAcquire(a, p) ==
    /\ phase[a] = "idle"
    /\ proc[p] = "up"
    /\ active[p] = NoAttempt
    /\ phase' = [phase EXCEPT ![a] = "acquiring"]
    /\ at' = [at EXCEPT ![a] = p]
    /\ ops' = Sending(ops, Write("create", p, a, a, 0))
    /\ UNCHANGED <<entry, proc, local, active, forced, lost>>

deadHolderTakeover(a, p) ==
    /\ entry # Free
    /\ TaskOf[entry.acq] = TaskOf[a]
    /\ entry.proc # p
    /\ entry.age + Skew >= DEAD

\* acquireTaskLock's catch: look at the entry (the look itself may fail) and
\* take over a dead holder's; otherwise the delivery is deferred.
Inspect(o) ==
    \/ /\ deadHolderTakeover(o.acq, o.proc)
       /\ \E rest \in Abandon(o) :
              ops' = Sending(rest, Write("take", o.proc, o.acq, o.by, o.age))
       /\ UNCHANGED phase
    \/ /\ ops' \in Abandon(o)
       /\ phase' = [phase EXCEPT ![o.acq] = "done"]

\* create was refused, or the client stopped waiting for its answer.
CreateRefused(o) ==
    /\ o.kind = "create"
    /\ ~ o.gone
    /\ Inspect(o)
    /\ UNCHANGED <<entry, proc, local, active, at, forced, lost>>

TakeRefused(o) ==
    /\ o.kind = "take"
    /\ TimedOut(o)
    /\ phase' = [phase EXCEPT ![o.acq] = "done"]
    /\ UNCHANGED <<entry, proc, local, active, at, forced, lost>>

\* recordAcquired, then the run is registered and started.  The proof counts
\* from when the value was stamped, not from the answer.
Acquired(o) ==
    /\ o.kind \in {"create", "take"}
    /\ Answered(o, "ok")
    /\ local' = [local EXCEPT ![o.proc] =
           [acq |-> o.acq, current |-> o.current, unproven |-> o.age]]
    /\ active' = [active EXCEPT ![o.proc] = o.acq]
    /\ phase' = [phase EXCEPT ![o.acq] = "working"]
    /\ UNCHANGED <<entry, proc, at, forced, lost>>

-----------------------------------------------------------------------------
(* Holding.                                                                *)

\* The keep-alive timer of a run renews whatever the process remembers under
\* the key; with nothing remembered it does nothing.  It goes off every REFRESH,
\* whether or not the renewal before has ended.
Renew(a) ==
    /\ phase[a] \in {"working", "stopping"}
    /\ local[at[a]].acq # NoAttempt
    /\ \A o \in ops : o.by = a /\ o.kind \in {"renew", "adopt"} => o.age >= REFRESH
    /\ ops' = Sending(ops, [Write("renew", at[a], local[at[a]].acq, a, 0)
                                EXCEPT !.current = local[at[a]].current])
    /\ UNCHANGED <<entry, proc, local, active, phase, at, forced, lost>>

\* Mutant: a renewal counts from when it was answered.
ProvenNow(o) == 0

ProvenSince(o) == o.age

\* A renewal that landed, recorded while the memory is still its acquisition's.
Renewed(o) ==
    /\ o.kind \in {"renew", "adopt"}
    /\ Answered(o, "ok")
    /\ IF local[o.proc].acq = o.acq
       THEN /\ local' = [local EXCEPT ![o.proc] =
                   [@ EXCEPT !.current = o.current, !.unproven = ProvenSince(o)]]
            /\ UNCHANGED phase
       ELSE /\ UNCHANGED local
            /\ IF o.kind = "adopt" THEN Abort(o.by) ELSE UNCHANGED phase
    /\ UNCHANGED <<entry, proc, active, at, forced, lost>>

LoseLock(o) ==
    /\ IF local[o.proc].acq = o.acq THEN forgetLock(o.proc) ELSE UNCHANGED local
    /\ Abort(o.by)

\* Mutant: a conflict always means that somebody else has the lock.
NeverOurs(o) == FALSE

\* The entry is this very acquisition's, and so is the memory of it: it was
\* written by a renewal whose answer never came.
OwnCommittedWrite(o) ==
    local[o.proc].acq = o.acq /\ entry.proc = o.proc /\ entry.acq = o.acq

\* The revision moved: by our own hand, or the lock is lost.
RenewalConflict(o) ==
    /\ o.kind = "renew"
    /\ ~ o.gone
    /\ o.res = "conflict"
    /\ \/ /\ OwnCommittedWrite(o)
          /\ ops' = Sending(Without(o), Write("adopt", o.proc, o.acq, o.by, o.age))
          /\ UNCHANGED <<local, phase>>
       \/ /\ ~ OwnCommittedWrite(o)
          /\ ops' = Without(o)
          /\ LoseLock(o)
    /\ UNCHANGED <<entry, proc, active, at, forced, lost>>

AdoptionConflict(o) ==
    /\ o.kind = "adopt"
    /\ Answered(o, "conflict")
    /\ LoseLock(o)
    /\ UNCHANGED <<entry, proc, active, at, forced, lost>>

\* renewalFailed, for a write or a read-back that was not answered.
RenewalFailed(o) ==
    /\ o.kind \in {"renew", "adopt"}
    /\ TimedOut(o)
    /\ IF lockPastSelfFence(o.proc) THEN Abort(o.by) ELSE UNCHANGED phase
    /\ UNCHANGED <<entry, proc, local, active, at, forced, lost>>

\* The local timer beside the renewals.
SelfFence(a) ==
    /\ Working(a)
    /\ lockPastSelfFence(at[a])
    /\ Abort(a)
    /\ UNCHANGED <<entry, proc, local, active, at, ops, forced, lost>>

-----------------------------------------------------------------------------
(* Letting go.                                                             *)

\* Mutant: the release does not look at who holds the entry.
AnyEntry(p) == entry # Free

OwnEntry(p) == entry.proc = p

\* releaseTaskLock: a compare-and-delete of this process's entry, after which
\* the memory is dropped; nothing to delete, or nothing learned, drops it now.
releaseTaskLock(p, by) ==
    \/ /\ OwnEntry(p)
       /\ ops' = Sending(ops, Write("delete", p, entry.acq, by, 0))
       /\ UNCHANGED local
    \/ /\ forgetLock(p)
       /\ UNCHANGED ops

\* finishRun: the registration goes first, whoever's it is.
FinishRun(a) ==
    /\ phase[a] \in {"working", "stopping"}
    /\ active' = [active EXCEPT ![at[a]] = NoAttempt]
    /\ releaseTaskLock(at[a], a)
    /\ phase' = [phase EXCEPT ![a] = IF ops' = ops THEN "done" ELSE "releasing"]
    /\ UNCHANGED <<entry, proc, at, forced, lost>>

Released(o) ==
    /\ o.kind = "delete"
    /\ TimedOut(o)
    /\ forgetLock(o.proc)
    /\ phase' = [a \in Attempts |-> IF a = o.by THEN "done" ELSE phase[a]]
    /\ UNCHANGED <<entry, proc, active, at, forced, lost>>

\* Stop: the run is aborted, and is on its way out unless a tool call ignores it.
Interrupt(a) ==
    /\ Working(a)
    /\ active[at[a]] = a
    /\ Abort(a)
    /\ UNCHANGED <<entry, proc, local, active, at, ops, forced, lost>>

\* Stop's second timer, or the deletion of the session: the lock of a run that
\* may still be there is released for it.
ForceRelease(a) ==
    /\ phase[a] \in {"working", "stopping"}
    /\ active[at[a]] = a
    /\ forced < MaxForced
    /\ forced' = forced + 1
    /\ Abort(a)
    /\ active' = [active EXCEPT ![at[a]] = NoAttempt]
    /\ releaseTaskLock(at[a], NoAttempt)
    /\ UNCHANGED <<entry, proc, at, lost>>

-----------------------------------------------------------------------------
(* Processes and time.                                                     *)

\* releaseLocksOfPreviousIncarnation, before anything is claimed.  A pod runs
\* one process at a time.
Start(p) ==
    /\ proc[p] = "new"
    /\ \A q \in Procs : PodOf[q] = PodOf[p] => proc[q] \in {"new", "dead"}
    /\ \/ /\ entry # Free
          /\ PodOf[entry.proc] = PodOf[p]
          /\ proc' = [proc EXCEPT ![p] = "starting"]
          /\ ops' = Sending(ops, Write("reclaim", p, entry.acq, NoAttempt, 0))
       \/ /\ proc' = [proc EXCEPT ![p] = "up"]
          /\ UNCHANGED ops
    /\ UNCHANGED <<entry, local, active, phase, at, forced, lost>>

Reclaimed(o) ==
    /\ o.kind = "reclaim"
    /\ proc[o.proc] = "starting"
    /\ TimedOut(o)
    /\ proc' = [proc EXCEPT ![o.proc] = "up"]
    /\ UNCHANGED <<entry, local, active, phase, at, forced, lost>>

\* The process dies; some of what it sent may still be stored.
Crash(p) ==
    /\ proc[p] \in {"starting", "up"}
    /\ proc' = [proc EXCEPT ![p] = "dead"]
    /\ forgetLock(p)
    /\ active' = [active EXCEPT ![p] = NoAttempt]
    /\ phase' = [a \in Attempts |-> IF at[a] = p THEN "done" ELSE phase[a]]
    /\ LET mine == {o \in ops : o.proc = p}
           sent == {Ownerless(o) : o \in {x \in mine : x.res = "sent"}}
       IN \E kept \in SUBSET sent :
              /\ Cardinality({o \in ops \ mine : o.gone} \cup kept) <= MaxGone
              /\ ops' = (ops \ mine) \cup kept
    /\ UNCHANGED <<entry, at, forced, lost>>

Older(i) == Smaller(i + 1, TTL)

\* A clock tick.  It waits for the timers that are due: an exchange that has
\* taken too long is given up, a run past its fence is told to stop, an entry
\* past its TTL is dropped.
Tick ==
    /\ entry.age < TTL
    /\ \A o \in ops : ~ o.gone => o.age < TIMEOUT
    /\ \A o \in ops : ~ o.gone /\ o.kind = "renew" => o.age < READBACK
    /\ \A a \in Attempts : Working(a) => ~ lockPastSelfFence(at[a])
    /\ entry' = IF entry = Free THEN Free ELSE [entry EXCEPT !.age = @ + 1]
    /\ local' = [p \in Procs |-> IF local[p].acq = NoAttempt THEN local[p]
                                 ELSE [local[p] EXCEPT !.unproven = Older(@)]]
    /\ ops' = {IF o.gone THEN o ELSE [o EXCEPT !.age = @ + 1] : o \in ops}
    /\ UNCHANGED <<proc, active, phase, at, forced, lost>>

-----------------------------------------------------------------------------
StoreStep == \E o \in ops : Store(o) \/ AnswerLost(o)
AnswerStep ==
    \E o \in ops : \/ CreateRefused(o)
                   \/ TakeRefused(o)
                   \/ Acquired(o)
                   \/ Renewed(o)
                   \/ RenewalConflict(o)
                   \/ AdoptionConflict(o)
                   \/ RenewalFailed(o)
                   \/ Released(o)
                   \/ Reclaimed(o)
RunStep ==
    \E a \in Attempts : \/ \E p \in Procs : BeginAcquire(a, p)
                        \/ Renew(a)
                        \/ SelfFence(a)
                        \/ Interrupt(a)
                        \/ ForceRelease(a)
                        \/ FinishRun(a)
ProcStep == \E p \in Procs : Start(p) \/ Crash(p)

Next == StoreStep \/ AnswerStep \/ RunStep \/ ProcStep \/ Expire \/ Tick

Spec == Init /\ [][Next]_vars
=============================================================================
