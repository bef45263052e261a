---------------------------- MODULE LeaseTiming ----------------------------
(***************************************************************************)
(* When a run whose worker died may be declared dead.  Two clocks race     *)
(* from the death on: the queue gives the message to another worker again  *)
(* and again, which can resume the run as soon as the dead worker's lock   *)
(* has expired, and the reaper closes the row once the lease has been      *)
(* lapsed for a grace.  The grace is derived from the other timings so     *)
(* that the reaper loses; the startup check refuses timings under which it *)
(* could win.                                                              *)
(*                                                                         *)
(* Time is counted from the death in units of TASK_LOCK_NAK_BASE_MS (5 s); *)
(* every duration of the code's defaults is a whole number of units, so    *)
(* rounding to seconds loses nothing.  Nothing happens between two events, *)
(* so there is no clock variable: due and verdict say when the next        *)
(* delivery is and when the sweeper first looks past the grace, and the    *)
(* earlier one is taken first.                                             *)
(***************************************************************************)
EXTENDS Naturals, Integers, FiniteSetsExt

CONSTANTS
    ACK_WAIT,       \* TASK_CONSUMER_ACK_WAIT_MS
    NAK_CEILING,    \* TASK_LOCK_NAK_CEILING_MS
    LEASE_TTL,      \* RUN_LEASE_TTL_MS
    MAX_LEASE_TTL,  \* MAX_RUN_LEASE_TTL_MS
    HEARTBEAT,      \* RUN_LEASE_HEARTBEAT_MS
    TICK,           \* TASK_SWEEPER_TICK_MS
    REFRESH,        \* LOCK_REFRESH_INTERVAL_MS
    PROGRESS,       \* DELIVERY_HEARTBEAT_MS, between two progress acks
    LockTtls,       \* values of BRAIN_REGISTRY_TTL_MS to consider
    MaxDelivers     \* values of TASK_MAX_DELIVER to consider

ASSUME TimingAssumption ==
    /\ {ACK_WAIT, NAK_CEILING, LEASE_TTL, MAX_LEASE_TTL, HEARTBEAT, TICK, REFRESH} \subseteq Nat \ {0}
    /\ PROGRESS \in 0 .. ACK_WAIT
    /\ LockTtls \subseteq Nat \ {0} /\ MaxDelivers \subseteq Nat
    /\ \A ttl \in LockTtls : REFRESH <= ttl

-----------------------------------------------------------------------------
(* The arithmetic of protocol/src/run-lease.ts and task-consumer.ts. *)

MIN_TASK_MAX_DELIVER == 3
MAX_TASK_MAX_DELIVER == 100

\* The redelivery ceiling, and the delivery the poison guard steps in on.
resolveTaskDeliveryBudget(configured) ==
    Min({MAX_TASK_MAX_DELIVER, Max({MIN_TASK_MAX_DELIVER, configured})})

poisonDeliveryOf(maxDeliver) == resolveTaskDeliveryBudget(maxDeliver) - 1

\* The delay before the delivery after the n-th, with no jitter.  The exponent
\* is cut where the ceiling has long been reached.
Backoff(n) == Min({NAK_CEILING, 2 ^ (Min({n, 10}) - 1)})

\* lockContentionNakMs: jitter takes off up to a quarter.
lockContentionNak(n) == {d \in 1 .. Backoff(n) : 4 * d >= 3 * Backoff(n)}

effectiveRunLeaseTtl == Min({LEASE_TTL, MAX_LEASE_TTL})

\* Where the deliveries after a death on delivery died land, without jitter.
AttemptAt(died, maxDeliver) ==
    LET at[n \in (died + 1) .. maxDeliver] ==
            IF n = died + 1 THEN ACK_WAIT ELSE at[n - 1] + Backoff(n - 1)
    IN  at

\* The first of them that is not refused the lock, or the last one there is.
resolveLockBlockedTakeover(lockTtl, maxDeliver, died) ==
    LET at == AttemptAt(died, maxDeliver)
        n == Min({maxDeliver} \cup {k \in DOMAIN at : at[k] >= lockTtl})
    IN  [at |-> at[n], delivery |-> n,
         reachable |-> at[n] >= lockTtl /\ n <= poisonDeliveryOf(maxDeliver)]

\* The latest takeover over every death that still has one.
worstLockBlockedTakeover(lockTtl, maxDeliver) ==
    LET deaths == 1 .. Max({1, poisonDeliveryOf(maxDeliver) - 1})
        takeovers == {resolveLockBlockedTakeover(lockTtl, maxDeliver, d) : d \in deaths}
        reached == {t \in takeovers : t.reachable}
    IN  IF reached = {}
        THEN resolveLockBlockedTakeover(lockTtl, maxDeliver, 1)
        ELSE CHOOSE t \in reached : \A u \in reached : u.at <= t.at

\* LEASE_LOST_GRACE_SEC, when it is not overridden.
resolveLeaseReapGrace(lockTtl, maxDeliver) ==
    Max({1, worstLockBlockedTakeover(lockTtl, maxDeliver).at + TICK + HEARTBEAT
              - effectiveRunLeaseTtl})

\* runLeaseTimingProblems finds nothing wrong, so the API starts.
TimingAccepted(lockTtl, maxDeliver) ==
    LET verdict == effectiveRunLeaseTtl + resolveLeaseReapGrace(lockTtl, maxDeliver) - HEARTBEAT
        worst == worstLockBlockedTakeover(lockTtl, maxDeliver)
    IN  /\ 3 * HEARTBEAT <= effectiveRunLeaseTtl
        /\ verdict > ACK_WAIT
        /\ worst.reachable
        /\ verdict >= worst.at + TICK

-----------------------------------------------------------------------------
VARIABLES
    timing,     \* the configured lock TTL and redelivery ceiling
    died,       \* the delivery the worker died on
    delivery,   \* the next delivery of the message
    due,        \* when it happens
    lock,       \* when the dead worker's lock entry expires
    verdict,    \* the first sweep after its lease has been lapsed for the grace
    row,        \* what has become of the run's row
    message     \* what has become of the message

vars == <<timing, died, delivery, due, lock, verdict, row, message>>

RowStates == {"running", "reaped", "resumed", "resolved"}
MessageStates == {"queued", "taken", "stood_down", "resolved", "dropped"}

\* Mutant: the grace outlasts the first redelivery, not the takeover.
TimingsFromAckWait ==
    LET Derived(ttl, m) ==
            [lockTtl |-> ttl, maxDeliver |-> m,
             grace |-> Max({1, ACK_WAIT + TICK + HEARTBEAT - effectiveRunLeaseTtl})]
    IN  {t \in {Derived(ttl, resolveTaskDeliveryBudget(n)) : ttl \in LockTtls, n \in MaxDelivers} :
            TimingAccepted(t.lockTtl, t.maxDeliver)}

\* What the API derives once, at startup, from settings it does not refuse.
Timings ==
    LET Derived(ttl, m) ==
            [lockTtl |-> ttl, maxDeliver |-> m, grace |-> resolveLeaseReapGrace(ttl, m)]
    IN  {t \in {Derived(ttl, resolveTaskDeliveryBudget(n)) : ttl \in LockTtls, n \in MaxDelivers} :
            TimingAccepted(t.lockTtl, t.maxDeliver)}

Poison == poisonDeliveryOf(timing.maxDeliver)

\* The lease, the lock and the ack timer are counted from the last renewal of
\* each, which was up to one of its intervals before the death; the sweep that
\* reaps is up to one tick late.
Init ==
    /\ timing \in Timings
    /\ died \in 1 .. (Poison - 1)
    /\ delivery = died + 1
    /\ due \in (ACK_WAIT - PROGRESS) .. ACK_WAIT
    /\ lock \in (timing.lockTtl - REFRESH) .. timing.lockTtl
    /\ \E lapse \in (effectiveRunLeaseTtl - HEARTBEAT) .. effectiveRunLeaseTtl, late \in 1 .. TICK :
            verdict = lapse + timing.grace + late
    /\ row = "running"
    /\ message = "queued"

Delivered ==
    /\ message = "queued"
    /\ row = "running" => due <= verdict
    /\ UNCHANGED <<timing, died, lock, verdict>>

\* Mutant: the delivery budget is not looked at.
DeferForEver ==
    /\ Delivered
    /\ due < lock
    /\ \E wait \in lockContentionNak(delivery) : due' = due + wait
    /\ delivery' = delivery + 1
    /\ UNCHANGED <<row, message>>

\* The lock is still there.  Before the guard the delivery defers for the lock;
\* from the guard on it defers because the lock names this very message.
DeferForLock ==
    /\ Delivered
    /\ due < lock
    /\ delivery < timing.maxDeliver
    /\ \E wait \in lockContentionNak(delivery) : due' = due + wait
    /\ delivery' = delivery + 1
    /\ UNCHANGED <<row, message>>

\* The same on the last delivery, which is left unsettled: it does not come back.
LeaveUnsettled ==
    /\ Delivered
    /\ due < lock
    /\ delivery = timing.maxDeliver
    /\ message' = "dropped"
    /\ UNCHANGED <<delivery, due, row>>

\* The lock is free and the guard lets the delivery through, on its own threshold
\* as the last chance of a task that left no failed attempt behind.
TakeOver ==
    /\ Delivered
    /\ due >= lock
    /\ delivery <= Poison
    /\ IF row = "running"
       THEN row' = "resumed" /\ message' = "taken"
       ELSE row' = row /\ message' = "stood_down"
    /\ UNCHANGED <<delivery, due>>

\* Past the guard's threshold a free lock no longer helps.
ResolvePoisoned ==
    /\ Delivered
    /\ due >= lock
    /\ delivery > Poison
    /\ row' = IF row = "running" THEN "resolved" ELSE row
    /\ message' = "resolved"
    /\ UNCHANGED <<delivery, due>>

\* Mutant: a run whose message is gone is left to the message.
ReapQueued ==
    /\ row = "running"
    /\ message = "queued" /\ verdict < due
    /\ row' = "reaped"
    /\ UNCHANGED <<timing, died, delivery, due, lock, verdict, message>>

\* reapLostLeases, on the sweeper's tick.
Reap ==
    /\ row = "running"
    /\ message = "queued" => verdict < due
    /\ row' = "reaped"
    /\ UNCHANGED <<timing, died, delivery, due, lock, verdict, message>>

Next == DeferForLock \/ LeaveUnsettled \/ TakeOver \/ ResolvePoisoned \/ Reap

Spec == Init /\ [][Next]_vars

\* Deliveries and sweeps both go on by themselves.
FairSpec == Spec /\ WF_vars(Next)

-----------------------------------------------------------------------------
\* The budget is never exceeded: no delivery past max_deliver, nothing owed a negative time.
TypeOK ==
    /\ timing \in [lockTtl : LockTtls, maxDeliver : Nat, grace : Nat]
    /\ died \in 1 .. Poison - 1
    /\ delivery \in (died + 1) .. timing.maxDeliver
    /\ {due, lock, verdict} \subseteq Nat
    /\ row \in RowStates
    /\ message \in MessageStates

(***************************************************************************)
(* The reaper never closes a run that a redelivery could still resume: no  *)
(* delivery the guard lets through finds the lock free and the row closed  *)
(* (resolveLeaseReapGraceSec; api/src/tasks/sweeper.ts reapLostLeases).    *)
(***************************************************************************)
TakeoverIsNeverPreempted == message # "stood_down"

\* The same curve on the lower edge of every jitter.
EarliestAt(death, maxDeliver) ==
    LET at[n \in (death + 1) .. maxDeliver] ==
            IF n = death + 1 THEN ACK_WAIT - PROGRESS
            ELSE at[n - 1] + Min(lockContentionNak(n - 1))
    IN  at

(***************************************************************************)
(* What the startup check does not ask: that no delivery which a shortened *)
(* backoff can bring to a lock still held is put off past the sweep that   *)
(* reaps.  The curve without jitter may have that delivery find the lock   *)
(* free and so never take the step it costs.                               *)
(***************************************************************************)
JitterIsAbsorbed(lockTtl, maxDeliver) ==
    LET poison == poisonDeliveryOf(maxDeliver)
        worst == worstLockBlockedTakeover(lockTtl, maxDeliver)
    IN  \A death \in 1 .. (poison - 1) :
            LET earliest == EarliestAt(death, maxDeliver)
                latest == AttemptAt(death, maxDeliver)
            IN  \A n \in (death + 1) .. (poison - 1) :
                    earliest[n] < lockTtl =>
                        Min({latest[n], lockTtl - 1}) + Backoff(n) <= worst.at + TICK

(***************************************************************************)
(* Whatever happens to the message, the run of a dead worker is settled:   *)
(* resumed, resolved with an event, or closed by the reaper.               *)
(***************************************************************************)
DeadRunIsSettled == <>(row # "running")
=============================================================================
