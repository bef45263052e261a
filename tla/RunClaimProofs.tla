--------------------------- MODULE RunClaimProofs ---------------------------
(***************************************************************************)
(* The claim protocol's safety properties, for every number of rows,       *)
(* brains, claims, requests in flight and retries.                         *)
(***************************************************************************)
EXTENDS RunClaimProperties, TLAPS

-----------------------------------------------------------------------------
(* What the writers leave behind.                                          *)

\* applyTaskStatusTransition keeps status and deadline in range.
LEMMA SetStatusTyped ==
    ASSUME RowTypeOK, NEW new \in [Rows -> Statuses], SetStatus(new)
    PROVE  /\ status' \in [Rows -> Statuses]
           /\ deadline' \in [Rows -> {"none", "ahead", "past"}]
BY DEF RowTypeOK, SetStatus

\* Clearing the holder columns keeps them in range.
LEMMA ClearHolderTyped ==
    ASSUME RowTypeOK, NEW R, ClearHolder(R)
    PROVE  /\ owner' \in [Rows -> Brains \cup {NoBrain}]
           /\ lease' \in [Rows -> {"none", "live", "lapsed"}]
           /\ token' \in [Rows -> 0 .. MaxClaims]
BY ClaimAssumption DEF RowTypeOK, ClearHolder

\* Clearing attempt_id keeps it in range.
LEMMA ClearAttemptTyped ==
    ASSUME RowTypeOK, NEW R, ClearAttempt(R)
    PROVE  attempt' \in [Rows -> 0 .. MaxClaims]
BY ClaimAssumption DEF RowTypeOK, ClearAttempt

\* Moving a set of rows to a status gives every row a status.
LEMMA MovedTyped ==
    ASSUME RowTypeOK, NEW R, NEW s \in Statuses
    PROVE  Moved(R, s) \in [Rows -> Statuses]
BY DEF RowTypeOK, Moved

\* releaseClaim keeps the row's columns in range, matched or not.
LEMMA ReleaseTyped ==
    ASSUME RowTypeOK, NEW b, NEW r \in Rows, NEW gen, ReleaseClaim(b, r, gen)
    PROVE  RowTypeOK'
<1>1. CASE Held(b, r, gen) /\ status[r] \in CLOSEABLE
  <2>1. [status EXCEPT ![r] = Released(@)] \in [Rows -> Statuses]
    BY DEF RowTypeOK, Released, Statuses, CLOSEABLE, Terminal
  <2>2. /\ SetStatus([status EXCEPT ![r] = Released(@)])
        /\ ClearHolder({r}) /\ ClearAttempt({r}) /\ UNCHANGED <<claims, settled>>
    BY <1>1 DEF ReleaseClaim
  <2> QED BY <2>1, <2>2, SetStatusTyped, ClearHolderTyped, ClearAttemptTyped DEF RowTypeOK
<1>2. CASE ~ (Held(b, r, gen) /\ status[r] \in CLOSEABLE)
  BY <1>2 DEF ReleaseClaim, RowTypeOK, rowVars
<1> QED BY <1>1, <1>2

\* failExhaustedClaim and markUnclaimable keep the row's columns in range.
LEMMA CloseClaimTyped ==
    ASSUME RowTypeOK, NEW r \in Rows, FailExhaustedClaim(r) \/ MarkUnclaimable(r)
    PROVE  RowTypeOK'
<1>1. [status EXCEPT ![r] = "failed"] \in [Rows -> Statuses]
  BY DEF RowTypeOK, Statuses, Terminal
<1>2. CASE FailExhaustedClaim(r)
  BY <1>1, <1>2, SetStatusTyped, ClearHolderTyped, ClearAttemptTyped
  DEF RowTypeOK, FailExhaustedClaim
<1>3. CASE MarkUnclaimable(r) /\ status[r] \in CLAIMABLE
  BY <1>1, <1>3, SetStatusTyped, ClearHolderTyped DEF RowTypeOK, MarkUnclaimable
<1>4. CASE MarkUnclaimable(r) /\ status[r] \notin CLAIMABLE
  BY <1>4 DEF RowTypeOK, MarkUnclaimable, rowVars
<1> QED BY <1>2, <1>3, <1>4

\* A brain's phase change leaves a well-formed record.
LEMMA BecomeTyped ==
    ASSUME work \subseteq Work, NEW w \in work, NEW phase \in Phases, Become(w, phase)
    PROVE  work' \subseteq Work
BY DEF Become, Work

\* What a brain sends is a well-formed request.
LEMMA RequestTyped ==
    ASSUME NEW w \in Work, NEW kind \in Kinds
    PROVE  Request(w, kind) \in Requests
BY ClaimAssumption DEF Request, Work, Requests

\* An answer, a lost answer or a lost request leaves well-formed requests.
LEMMA UnansweredTyped ==
    ASSUME net \subseteq Requests, NEW m \in net, Answered(m) \/ Unanswered(m)
    PROVE  net' \subseteq Requests
<1>1. Again(m) \subseteq Requests
  <2>1. m \in Requests /\ MaxRetries \in Nat
    BY ClaimAssumption
  <2>2. CASE m.left > 0
    <3>1. m.left \in 0 .. MaxRetries /\ m.left - 1 \in 0 .. MaxRetries
      BY <2>1, <2>2 DEF Requests
    <3>2. [m EXCEPT !.left = m.left - 1] \in Requests
      BY <2>1, <3>1 DEF Requests
    <3> QED BY <2>2, <3>2 DEF Again
  <2>3. CASE ~ (m.left > 0)
    BY <2>3 DEF Again
  <2> QED BY <2>2, <2>3
<1> QED BY <1>1 DEF Answered, Unanswered

-----------------------------------------------------------------------------
(* Type correctness, one lemma per family of actions.                      *)

\* Claiming a row and finishing the claim.
LEMMA ClaimStepTyped ==
    ASSUME TypeOK, ClaimStep \/ FinishClaim \/ ClaimAnswerLost
    PROVE  TypeOK'
<1> USE ClaimAssumption
<1>1. ASSUME NEW b \in Brains, NEW r \in Rows, TakeClaim(b, r)
      PROVE  TypeOK'
  <2>1. claims[r] \in 0 .. MaxClaims /\ claims[r] + 1 \in 0 .. MaxClaims
        /\ claims[r] + 1 \in Gens
    BY <1>1 DEF TypeOK, RowTypeOK, TakeClaim, Gens
  <2>2. [status EXCEPT ![r] = "preparing"] \in [Rows -> Statuses]
    BY DEF TypeOK, RowTypeOK, Statuses, CLOSEABLE
  <2>3. RowTypeOK'
    <3>1. /\ status' \in [Rows -> Statuses]
          /\ deadline' \in [Rows -> {"none", "ahead", "past"}]
      BY <1>1, <2>2, SetStatusTyped DEF TypeOK, TakeClaim
    <3>2. /\ owner' \in [Rows -> Brains \cup {NoBrain}]
          /\ lease' \in [Rows -> {"none", "live", "lapsed"}]
          /\ attempt' \in [Rows -> 0 .. MaxClaims]
          /\ settled' \in [Rows -> 0 .. MaxClaims]
      BY <1>1 DEF TypeOK, RowTypeOK, TakeClaim
    <3>3. /\ token' \in [Rows -> 0 .. MaxClaims]
          /\ claims' \in [Rows -> 0 .. MaxClaims]
      BY <1>1, <2>1 DEF TypeOK, RowTypeOK, TakeClaim, NextGeneration
    <3> QED BY <3>1, <3>2, <3>3 DEF RowTypeOK
  <2> DEFINE opened == [brain |-> b, row |-> r, gen |-> claims[r] + 1, waiting |-> TRUE]
  <2>4. opened \in Hydration
    <3>1. TRUE \in BOOLEAN
      OBVIOUS
    <3> QED BY <2>1, <3>1, Zenon DEF Hydration
  <2>5. hydrating' = hydrating \cup {opened}
    BY <1>1 DEF TakeClaim, NextGeneration
  <2> HIDE DEF opened
  <2> QED BY <1>1, <2>3, <2>4, <2>5 DEF TypeOK, TakeClaim
<1>2. ASSUME NEW h \in hydrating, ClaimTimesOut(h)
      PROVE  TypeOK'
  <2>1. [h EXCEPT !.waiting = FALSE] \in Hydration
    BY <1>2 DEF TypeOK, Hydration
  <2> QED BY <1>2, <2>1 DEF TypeOK, RowTypeOK, ClaimTimesOut, rowVars
<1>3. ASSUME NEW h \in hydrating, FinishExhausted(h) \/ HydrateFails(h)
      PROVE  TypeOK'
  <2>1. h.row \in Rows
    BY DEF TypeOK, Hydration
  <2>2. RowTypeOK'
    <3>1. CASE FailExhaustedClaim(h.row) \/ MarkUnclaimable(h.row)
      BY <3>1, <2>1, CloseClaimTyped DEF TypeOK
    <3>2. CASE ReleaseClaim(h.brain, h.row, h.gen)
      BY <3>2, <2>1, ReleaseTyped DEF TypeOK
    <3>3. CASE UNCHANGED rowVars
      BY <3>3 DEF TypeOK, RowTypeOK, rowVars
    <3> QED BY <1>3, <3>1, <3>2, <3>3 DEF FinishExhausted, HydrateFails
  <2> QED BY <1>3, <2>2 DEF TypeOK, FinishExhausted, HydrateFails
<1>4. ASSUME NEW h \in hydrating, HandOut(h)
      PROVE  TypeOK'
  <2>1. [brain |-> h.brain, row |-> h.row, gen |-> h.gen, phase |-> "claimed"] \in Work
    BY DEF TypeOK, Hydration, Work, Phases
  <2> QED BY <1>4, <2>1 DEF TypeOK, RowTypeOK, HandOut, rowVars
<1> QED BY <1>1, <1>2, <1>3, <1>4
        DEF ClaimStep, FinishClaim, ClaimAnswerLost, ClaimRunById, ClaimNextRun

\* What a brain process does.
LEMMA BrainStepTyped ==
    ASSUME TypeOK, WorkStep \/ Heartbeat \/ BrainLifecycle \/ BrainReady
    PROVE  TypeOK'
<1>1. ASSUME NEW w \in work, RefuseClaim(w) \/ TermRun(w) \/ FireRetry(w)
      PROVE  TypeOK'
  <2>1. \A kind \in {"fail", "unclaim", "settle", "failed"} : Request(w, kind) \in Requests
    BY RequestTyped DEF TypeOK, Kinds, Terminal
  <2> QED BY <1>1, <2>1 DEF TypeOK, RowTypeOK, RefuseClaim, TermRun, FireRetry, Send,
                              BrainStep, rowVars
<1>2. ASSUME NEW w \in work, DeferForLockContention(w) \/ RetryRun(w)
      PROVE  TypeOK'
  <2>1. work' \subseteq Work
    BY <1>2, BecomeTyped DEF TypeOK, DeferForLockContention, RetryRun, Phases
  <2> QED BY <1>2, <2>1 DEF TypeOK, RowTypeOK, DeferForLockContention, RetryRun,
                            BrainStep, rowVars
<1>3. ASSUME NEW w \in work, StartRun(w)
      PROVE  TypeOK'
  <2>1. work' \subseteq Work
    BY <1>3, BecomeTyped DEF TypeOK, StartRun, Phases
  <2>2. Request(w, "started") \in Requests
    BY RequestTyped DEF TypeOK, Kinds
  <2> QED BY <1>3, <2>1, <2>2 DEF TypeOK, RowTypeOK, StartRun, Send, BrainStep, rowVars
<1>4. ASSUME NEW w \in work, LeaseHeartbeat(w)
      PROVE  TypeOK'
  <2>1. Request(w, "lease") \in Requests
    BY RequestTyped DEF TypeOK, Kinds
  <2> QED BY <1>4, <2>1 DEF TypeOK, RowTypeOK, LeaseHeartbeat, Send, BrainStep, rowVars
<1>5. ASSUME NEW w \in work, FinishRun(w)
      PROVE  TypeOK'
  <2>1. PICK outcome \in Terminal : Send({Request(w, outcome), Request(w, "settle")})
    BY <1>5 DEF FinishRun, Terminal
  <2>2. Request(w, outcome) \in Requests /\ Request(w, "settle") \in Requests
    BY RequestTyped DEF TypeOK, Kinds
  <2> QED BY <1>5, <2>1, <2>2 DEF TypeOK, RowTypeOK, FinishRun, Send, BrainStep, rowVars
<1>6. ASSUME NEW w \in work, StandDown(w)
      PROVE  TypeOK'
  BY <1>6 DEF TypeOK, RowTypeOK, StandDown, BrainStep, rowVars
<1>7. ASSUME NEW b \in Brains, Crash(b)
      PROVE  TypeOK'
  <2>1. \A h \in hydrating : [h EXCEPT !.waiting = FALSE] \in Hydration
    BY DEF TypeOK, Hydration
  <2>2. hydrating' \subseteq Hydration
    BY <1>7, <2>1 DEF TypeOK, Crash
  <2> QED BY <1>7, <2>2 DEF TypeOK, RowTypeOK, Crash, rowVars
<1>8. ASSUME NEW b \in Brains, Restart(b) \/ StartTaskDelivery(b)
      PROVE  TypeOK'
  BY <1>8 DEF TypeOK, RowTypeOK, Restart, StartTaskDelivery, rowVars
<1> QED BY <1>1, <1>2, <1>3, <1>4, <1>5, <1>6, <1>7, <1>8
        DEF WorkStep, Heartbeat, BrainLifecycle, BrainReady

\* The requests and events the API processes.
LEMMA ApiStepTyped ==
    ASSUME TypeOK, ApiStep \/ RequestLost \/ OrphanStep
    PROVE  TypeOK'
<1> USE ClaimAssumption
<1>0. ASSUME NEW m \in net
      PROVE  /\ m.row \in Rows /\ m.brain \in Brains /\ m.kind \in Kinds
             /\ m.gen \in 0 .. MaxClaims
  BY DEF TypeOK, Requests, Gens
<1>1. ASSUME NEW m \in net, RenewRunLease(m)
      PROVE  TypeOK'
  <2>1. ASSUME NEW phase \in Phases, Hear(m, phase)
        PROVE  work' \subseteq Work /\ net' \subseteq Requests
    <3>1. \A w \in work : [w EXCEPT !.phase = phase] \in Work
      BY DEF TypeOK, Work
    <3>2. work' \subseteq Work
      BY <2>1, <3>1 DEF TypeOK, Hear
    <3>3. net' \subseteq Requests
      BY <2>1, UnansweredTyped DEF TypeOK, Hear
    <3> QED BY <3>2, <3>3
  <2>2. work' \subseteq Work /\ net' \subseteq Requests
    BY <1>1, <2>1 DEF RenewRunLease, Refusal, Phases
  <2>3. RowTypeOK'
    <3>1. CASE UNCHANGED rowVars
      BY <3>1 DEF TypeOK, RowTypeOK, rowVars
    <3>2. CASE /\ owner' = [owner EXCEPT ![m.row] = m.brain]
               /\ lease' = [lease EXCEPT ![m.row] = "live"]
               /\ attempt' = [attempt EXCEPT ![m.row] = m.gen]
               /\ UNCHANGED <<status, token, claims, settled, deadline>>
      BY <1>0, <3>2 DEF TypeOK, RowTypeOK
    <3> QED BY <1>1, <3>1, <3>2 DEF RenewRunLease
  <2> QED BY <1>1, <2>2, <2>3 DEF TypeOK, RenewRunLease
<1>2. ASSUME NEW m \in net, Unclaim(m)
      PROVE  TypeOK'
  <2>1. RowTypeOK'
    BY <1>0, <1>2, ReleaseTyped DEF TypeOK, Unclaim
  <2>2. net' \subseteq Requests
    BY <1>2, UnansweredTyped DEF TypeOK, Unclaim, Processed
  <2> QED BY <1>2, <2>1, <2>2 DEF TypeOK, Unclaim, brainVars
<1>3. ASSUME NEW m \in net, FailHeldClaim(m)
      PROVE  TypeOK'
  <2>1. [status EXCEPT ![m.row] = "failed"] \in [Rows -> Statuses]
    BY DEF TypeOK, RowTypeOK, Statuses, Terminal
  <2>2. RowTypeOK'
    <3>1. CASE UNCHANGED rowVars
      BY <3>1 DEF TypeOK, RowTypeOK, rowVars
    <3>2. CASE /\ SetStatus([status EXCEPT ![m.row] = "failed"])
               /\ ClearHolder({m.row})
               /\ ClearAttempt({m.row})
               /\ UNCHANGED <<claims, settled>>
      BY <3>2, <2>1, SetStatusTyped, ClearHolderTyped, ClearAttemptTyped DEF TypeOK, RowTypeOK
    <3> QED BY <1>3, <3>1, <3>2 DEF FailHeldClaim
  <2>3. net' \subseteq Requests
    BY <1>3, UnansweredTyped DEF TypeOK, FailHeldClaim, Processed
  <2> QED BY <1>3, <2>2, <2>3 DEF TypeOK, FailHeldClaim, brainVars
<1>4. ASSUME NEW m \in net, SettleFinishedClaim(m)
      PROVE  TypeOK'
  <2>1. RowTypeOK'
    <3>1. CASE UNCHANGED rowVars
      BY <3>1 DEF TypeOK, RowTypeOK, rowVars
    <3>2. CASE /\ settled' = [settled EXCEPT
                      ![m.row] = IF attempt[m.row] = 0 THEN @ ELSE attempt[m.row]]
               /\ ClearAttempt({m.row})
               /\ UNCHANGED <<status, owner, lease, token, claims, deadline>>
      <4>1. settled' \in [Rows -> 0 .. MaxClaims]
        BY <1>0, <3>2 DEF TypeOK, RowTypeOK
      <4> QED BY <3>2, <4>1, ClearAttemptTyped DEF TypeOK, RowTypeOK
    <3> QED BY <1>4, <3>1, <3>2 DEF SettleFinishedClaim
  <2>2. net' \subseteq Requests
    BY <1>4, UnansweredTyped DEF TypeOK, SettleFinishedClaim, Processed
  <2> QED BY <1>4, <2>1, <2>2 DEF TypeOK, SettleFinishedClaim, brainVars
<1>5. ASSUME NEW m \in net, CloseChatRun(m)
      PROVE  TypeOK'
  <2>1. ASSUME NEW R
        PROVE  [Moved(R, "failed") EXCEPT ![m.row] = m.kind] \in [Rows -> Statuses]
    <3>1. "failed" \in Statuses /\ m.kind \in Statuses
      BY <1>5 DEF CloseChatRun, Statuses, Terminal
    <3> QED BY <3>1, MovedTyped DEF TypeOK
  <2>2. /\ status' \in [Rows -> Statuses]
        /\ deadline' \in [Rows -> {"none", "ahead", "past"}]
    BY <1>5, <2>1, SetStatusTyped DEF CloseChatRun, TypeOK, RowTypeOK
  <2>3. net' \subseteq Requests
    BY <1>5, UnansweredTyped DEF TypeOK, CloseChatRun, Processed
  <2> QED BY <1>5, <2>2, <2>3 DEF TypeOK, RowTypeOK, CloseChatRun, KeepHolder, brainVars
<1>6. ASSUME NEW m \in net, MarkChatRunRunning(m)
      PROVE  TypeOK'
  <2>1. ASSUME NEW R
        PROVE  Moved(R, "running") \in [Rows -> Statuses]
    BY MovedTyped DEF TypeOK, Statuses, CLOSEABLE
  <2>2. /\ status' \in [Rows -> Statuses]
        /\ deadline' \in [Rows -> {"none", "ahead", "past"}]
    BY <1>6, <2>1, SetStatusTyped DEF MarkChatRunRunning, TypeOK
  <2>3. net' \subseteq Requests
    BY <1>6, UnansweredTyped DEF TypeOK, MarkChatRunRunning, Processed
  <2> QED BY <1>6, <2>2, <2>3 DEF TypeOK, RowTypeOK, MarkChatRunRunning, KeepHolder, brainVars
<1>7. ASSUME NEW m \in net, Lose(m)
      PROVE  TypeOK'
  BY <1>7, UnansweredTyped DEF TypeOK, RowTypeOK, Lose, rowVars, brainVars
<1>8. ASSUME NEW b \in Brains, RequeueOrphaned(b)
      PROVE  TypeOK'
  <2>1. PICK R : SetStatus(Moved(R, "queued")) /\ ClearHolder(R) /\ ClearAttempt(R)
    BY <1>8 DEF RequeueOrphaned
  <2>2. Moved(R, "queued") \in [Rows -> Statuses]
    BY MovedTyped DEF TypeOK, Statuses, CLOSEABLE
  <2>3. RowTypeOK'
    BY <1>8, <2>1, <2>2, SetStatusTyped, ClearHolderTyped, ClearAttemptTyped
    DEF TypeOK, RowTypeOK, RequeueOrphaned
  <2> QED BY <1>8, <2>3 DEF TypeOK, RequeueOrphaned
<1> QED BY <1>1, <1>2, <1>3, <1>4, <1>5, <1>6, <1>7, <1>8
        DEF ApiStep, RequestLost, OrphanStep

\* Stop, the clock and the sweeper.
LEMMA SweepStepTyped ==
    ASSUME TypeOK, StopStep \/ ClockStep \/ SweepStep
    PROVE  TypeOK'
<1>1. ASSUME NEW s \in Sessions, InterruptUnstarted(s)
      PROVE  TypeOK'
  <2>1. ASSUME NEW R
        PROVE  Moved(R, "cancelled") \in [Rows -> Statuses]
    BY MovedTyped DEF TypeOK, Statuses, Terminal
  <2>2. /\ status' \in [Rows -> Statuses]
        /\ deadline' \in [Rows -> {"none", "ahead", "past"}]
    BY <1>1, <2>1, SetStatusTyped DEF InterruptUnstarted, TypeOK
  <2> QED BY <1>1, <2>2 DEF TypeOK, RowTypeOK, InterruptUnstarted, KeepHolder, brainVars
<1>2. ASSUME NEW s \in Sessions, CancelUnheldRuns(s)
      PROVE  TypeOK'
  <2> DEFINE new == [r \in Rows |-> IF SessionOf[r] = s /\ status[r] \in ACQUIRABLE
                                    THEN StoppedStatus(r) ELSE status[r]]
  <2>1. new \in [Rows -> Statuses]
    BY DEF TypeOK, RowTypeOK, StoppedStatus, Statuses, CLOSEABLE, Terminal
  <2>2. SetStatus(new)
    BY <1>2 DEF CancelUnheldRuns
  <2> HIDE DEF new
  <2>3. /\ status' \in [Rows -> Statuses]
        /\ deadline' \in [Rows -> {"none", "ahead", "past"}]
    BY <2>1, <2>2, SetStatusTyped DEF TypeOK
  <2> QED BY <1>2, <2>3 DEF TypeOK, RowTypeOK, CancelUnheldRuns, KeepHolder, brainVars
<1>3. ASSUME NEW r \in Rows, LeaseLapses(r) \/ DeadlinePasses(r)
      PROVE  TypeOK'
  BY <1>3 DEF TypeOK, RowTypeOK, LeaseLapses, DeadlinePasses, brainVars
<1>4. ASSUME NEW r \in Rows, RequeueLost(r)
      PROVE  TypeOK'
  <2>1. [status EXCEPT ![r] = "queued"] \in [Rows -> Statuses]
    BY DEF TypeOK, RowTypeOK, Statuses, CLOSEABLE
  <2>2. RowTypeOK'
    BY <1>4, <2>1, SetStatusTyped, ClearHolderTyped, ClearAttemptTyped
    DEF TypeOK, RowTypeOK, RequeueLost
  <2> QED BY <1>4, <2>2 DEF TypeOK, RequeueLost, brainVars
<1>5. ASSUME NEW r \in Rows, ReapExpiredQueued(r) \/ ReapExpiredDoorbell(r)
      PROVE  TypeOK'
  <2>1. [status EXCEPT ![r] = "failed"] \in [Rows -> Statuses]
    BY DEF TypeOK, RowTypeOK, Statuses, Terminal
  <2>2. RowTypeOK'
    BY <1>5, <2>1, SetStatusTyped, ClearHolderTyped
    DEF TypeOK, RowTypeOK, ReapExpiredQueued, ReapExpiredDoorbell, KeepHolder
  <2> QED BY <1>5, <2>2 DEF TypeOK, ReapExpiredQueued, ReapExpiredDoorbell, brainVars
<1>6. ASSUME NEW r \in Rows, ReapLostLease(r)
      PROVE  TypeOK'
  <2>1. ASSUME NEW R
        PROVE  [Moved(R, "failed") EXCEPT ![r] = "cancelled"] \in [Rows -> Statuses]
    BY MovedTyped DEF TypeOK, Statuses, Terminal
  <2>2. /\ status' \in [Rows -> Statuses]
        /\ deadline' \in [Rows -> {"none", "ahead", "past"}]
    BY <1>6, <2>1, SetStatusTyped DEF ReapLostLease, TypeOK
  <2> QED BY <1>6, <2>2 DEF TypeOK, RowTypeOK, ReapLostLease, KeepHolder, brainVars
<1> QED BY <1>1, <1>2, <1>3, <1>4, <1>5, <1>6
        DEF StopStep, ClockStep, SweepStep, SweepRow

\* Every column and every record in flight keeps the shape the schema and the
\* wire give it, through every statement, request and crash.
THEOREM TypeCorrect == Spec => []TypeOK
<1>1. Init => TypeOK
  BY ClaimAssumption DEF Init, TypeOK, RowTypeOK, Statuses, CLOSEABLE
<1>2. TypeOK /\ [Next]_vars => TypeOK'
  <2> SUFFICES ASSUME TypeOK, [Next]_vars PROVE TypeOK'
    OBVIOUS
  <2>1. CASE Next
    BY <2>1, ClaimStepTyped, BrainStepTyped, ApiStepTyped, SweepStepTyped DEF Next
  <2>2. CASE UNCHANGED vars
    BY <2>2 DEF TypeOK, RowTypeOK, vars, rowVars, brainVars
  <2> QED BY <2>1, <2>2
<1> QED BY <1>1, <1>2, PTL DEF Spec

-----------------------------------------------------------------------------
(* The claim protocol implements the lifecycle the run table promises, and *)
(* keeps one active row per turn.                                          *)


\* A status may become another without anybody claiming the row.
Legal(old, new) ==
    \/ new = old
    \/ old = "queued" /\ new \in Terminal
    \/ old \in ACQUIRABLE /\ new \in {"queued", "running", "cancelling"} \cup Terminal
    \/ old = "cancelling" /\ new \in Terminal

OnlyMoves ==
    /\ claims' = claims
    /\ \A r \in Rows : Legal(status[r], status'[r])

\* releaseClaim moves its row back to the queue, or closes a stopped one.
LEMMA ReleaseMoves ==
    ASSUME RowTypeOK, NEW b, NEW r \in Rows, NEW gen, ReleaseClaim(b, r, gen)
    PROVE  OnlyMoves
<1>1. CASE Held(b, r, gen) /\ status[r] \in CLOSEABLE
  BY <1>1 DEF RowTypeOK, ReleaseClaim, SetStatus, Released, CLOSEABLE, OnlyMoves, Legal,
              ACQUIRABLE, Terminal
<1>2. CASE ~ (Held(b, r, gen) /\ status[r] \in CLOSEABLE)
  BY <1>2 DEF ReleaseClaim, rowVars, OnlyMoves, Legal
<1> QED BY <1>1, <1>2

\* Every statement but a claim moves rows along the lifecycle's edges only.
LEMMA StepMoves ==
    ASSUME TypeOK, Next
    PROVE  OnlyMoves \/ \E b \in Brains, r \in Rows : TakeClaim(b, r)
<1> USE DEF OnlyMoves, Legal
<1>1. CASE ClaimStep
  BY <1>1 DEF ClaimStep, ClaimRunById, ClaimNextRun
<1>2. ASSUME NEW h \in hydrating, FinishExhausted(h) \/ HydrateFails(h)
      PROVE  OnlyMoves
  <2>1. h.row \in Rows
    BY DEF TypeOK, Hydration
  <2>2. CASE ReleaseClaim(h.brain, h.row, h.gen)
    BY <2>1, <2>2, ReleaseMoves DEF TypeOK
  <2>3. CASE FailExhaustedClaim(h.row)
    BY <2>1, <2>3 DEF TypeOK, RowTypeOK, FailExhaustedClaim, SetStatus, ACQUIRABLE, Terminal
  <2>4. CASE MarkUnclaimable(h.row)
    BY <2>1, <2>4 DEF TypeOK, RowTypeOK, MarkUnclaimable, SetStatus, CLAIMABLE, ACQUIRABLE,
                      Terminal, rowVars
  <2>5. CASE UNCHANGED rowVars
    BY <2>5 DEF rowVars
  <2> QED BY <1>2, <2>2, <2>3, <2>4, <2>5 DEF FinishExhausted, HydrateFails
<1>3. ASSUME NEW h \in hydrating, HandOut(h) \/ ClaimTimesOut(h)
      PROVE  OnlyMoves
  BY <1>3 DEF HandOut, ClaimTimesOut, rowVars
<1>4. CASE WorkStep \/ Heartbeat
  BY <1>4 DEF WorkStep, Heartbeat, RefuseClaim, DeferForLockContention, StartRun, FinishRun,
              RetryRun, StandDown, TermRun, FireRetry, LeaseHeartbeat, BrainStep, rowVars
<1>5. CASE BrainLifecycle \/ BrainReady
  BY <1>5 DEF BrainLifecycle, BrainReady, Crash, Restart, StartTaskDelivery, rowVars
<1>6. ASSUME NEW m \in net, RenewRunLease(m) \/ SettleFinishedClaim(m) \/ Lose(m)
      PROVE  OnlyMoves
  BY <1>6 DEF RenewRunLease, SettleFinishedClaim, Lose, rowVars
<1>7. ASSUME NEW m \in net, Unclaim(m) \/ FailHeldClaim(m) \/ CloseChatRun(m)
      PROVE  OnlyMoves
  <2>1. m.row \in Rows
    BY DEF TypeOK, Requests
  <2>2. CASE Unclaim(m)
    BY <2>1, <2>2, ReleaseMoves DEF TypeOK, Unclaim
  <2>3. CASE FailHeldClaim(m)
    BY <2>1, <2>3 DEF TypeOK, RowTypeOK, FailHeldClaim, SetStatus, ACQUIRABLE, Terminal, rowVars
  <2>4. CASE CloseChatRun(m)
    BY <2>1, <2>4 DEF TypeOK, RowTypeOK, CloseChatRun, DuplicateSiblings, SetStatus, Moved, CLOSEABLE, ACQUIRABLE,
                      Terminal
  <2> QED BY <1>7, <2>2, <2>3, <2>4
<1>8. ASSUME NEW m \in net, MarkChatRunRunning(m)
      PROVE  OnlyMoves
  BY <1>8 DEF TypeOK, RowTypeOK, MarkChatRunRunning, SetStatus, Moved, ACQUIRABLE
<1>9. ASSUME NEW b \in Brains, RequeueOrphaned(b)
      PROVE  OnlyMoves
  BY <1>9 DEF TypeOK, RowTypeOK, RequeueOrphaned, SetStatus, Moved
<1>10. ASSUME NEW s \in Sessions, InterruptUnstarted(s) \/ CancelUnheldRuns(s)
       PROVE  OnlyMoves
  BY <1>10 DEF TypeOK, RowTypeOK, InterruptUnstarted, CancelUnheldRuns, StoppedStatus, SetStatus,
               Moved, ACQUIRABLE, Terminal
<1>11. CASE ClockStep
  BY <1>11 DEF ClockStep, LeaseLapses, DeadlinePasses
<1>12. ASSUME NEW r \in Rows, SweepRow(r)
       PROVE  OnlyMoves
  BY <1>12 DEF TypeOK, RowTypeOK, SweepRow, RequeueLost, ReapExpiredQueued, ReapExpiredDoorbell,
               ReapLostLease, LostWhileStopping, UnclaimedSiblings, SetStatus, Moved, CLOSEABLE,
               ACQUIRABLE, Terminal
<1> QED BY <1>1, <1>2, <1>3, <1>4, <1>5, <1>6, <1>7, <1>8, <1>9, <1>10, <1>11, <1>12
        DEF Next, FinishClaim, ClaimAnswerLost, ApiStep, RequestLost, OrphanStep, StopStep,
            SweepStep

-----------------------------------------------------------------------------
\* At most one row of a turn is preparing, running or cancelling, however often
\* its dispatch was replayed: takeClaim is the only way in, and it looks first.
THEOREM OneActive == Spec => []OneActiveRowPerTurn
<1>1. Init => OneActiveRowPerTurn
  BY DEF Init, OneActiveRowPerTurn, RENEWABLE
<1>2. TypeOK /\ OneActiveRowPerTurn /\ [Next]_vars => OneActiveRowPerTurn'
  <2> SUFFICES ASSUME TypeOK, OneActiveRowPerTurn, [Next]_vars
               PROVE  OneActiveRowPerTurn'
    OBVIOUS
  <2>1. CASE OnlyMoves
    BY <2>1 DEF OnlyMoves, Legal, OneActiveRowPerTurn, ACQUIRABLE, RENEWABLE, Terminal
  <2>2. ASSUME NEW b \in Brains, NEW r \in Rows, TakeClaim(b, r)
        PROVE  OneActiveRowPerTurn'
    BY <2>2 DEF TypeOK, RowTypeOK, TakeClaim, SetStatus, Siblings, OneActiveRowPerTurn, RENEWABLE
  <2>3. CASE UNCHANGED vars
    BY <2>3 DEF vars, rowVars, OneActiveRowPerTurn
  <2> QED BY <2>1, <2>2, <2>3, StepMoves
<1> QED BY <1>1, <1>2, TypeCorrect, PTL DEF Spec

\* A claim is a Take of the lifecycle.
LEMMA ClaimIsTake ==
    ASSUME TypeOK, NEW b \in Brains, NEW r \in Rows, TakeClaim(b, r)
    PROVE  Lifecycle!Take(r)
<1>1. PhaseOfStatus(status[r]) \in {"waiting", "executing"}
  BY DEF TakeClaim, PhaseOfStatus, CLAIMABLE, ACQUIRABLE
<1>2. ASSUME NEW s \in Rows, PhaseOfStatus(status[s]) \in {"executing", "stopping"}, s # r
      PROVE  <<SessionOf[s], MessageOf[s]>> # <<SessionOf[r], MessageOf[r]>>
  <2>1. status[s] \in RENEWABLE
    BY <1>2 DEF PhaseOfStatus, ACQUIRABLE, RENEWABLE
  <2>2. s \notin Siblings(r)
    BY <2>1 DEF TakeClaim
  <2> QED BY <1>2, <2>2 DEF Siblings
<1>3. [q \in Rows |-> PhaseOfStatus(status'[q])] =
          [[q \in Rows |-> PhaseOfStatus(status[q])] EXCEPT ![r] = "executing"]
  BY DEF TypeOK, RowTypeOK, TakeClaim, SetStatus, PhaseOfStatus, ACQUIRABLE
<1>4. claims' = [claims EXCEPT ![r] = claims[r] + 1]
  BY DEF TakeClaim, NextGeneration
<1> QED BY <1>1, <1>2, <1>3, <1>4 DEF Lifecycle!Take, Lifecycle!Occupied

\* Every other statement is a Move of the lifecycle.
LEMMA MovesAreMove ==
    ASSUME OnlyMoves
    PROVE  Lifecycle!Move
<1>1. ASSUME NEW r \in Rows
      PROVE  /\ PhaseOfStatus(status'[r]) \in Lifecycle!RunPhases
             /\ \/ PhaseOfStatus(status'[r]) = PhaseOfStatus(status[r])
                \/ <<PhaseOfStatus(status[r]), PhaseOfStatus(status'[r])>> \in Lifecycle!Edges
  <2>1. Legal(status[r], status'[r])
    BY DEF OnlyMoves
  <2>2. PhaseOfStatus(status'[r]) \in Lifecycle!RunPhases
    BY DEF PhaseOfStatus, Lifecycle!RunPhases
  <2> QED BY <2>1, <2>2 DEF Legal, PhaseOfStatus, ACQUIRABLE, Terminal, Lifecycle!Edges
<1> QED BY <1>1 DEF OnlyMoves, Lifecycle!Move

\* Every behaviour of the claim protocol, with its crashes, replays, late
\* requests and sweeps, is a behaviour of the lifecycle.
THEOREM Refinement == Spec => ImplementsLifecycle
<1>1. Init => Lifecycle!Init
  <2> SUFFICES ASSUME Init PROVE Lifecycle!Init
    OBVIOUS
  <2>1. \A r \in Rows : PhaseOfStatus(status[r]) = "waiting"
    <3>1. TAKE r \in Rows
    <3>2. status[r] = "queued"
      BY DEF Init
    <3> QED BY <3>2 DEF PhaseOfStatus, ACQUIRABLE
  <2>2. [r \in Rows |-> PhaseOfStatus(status[r])] = [r \in Rows |-> "waiting"]
    BY <2>1
  <2> QED BY <2>2 DEF Init, Lifecycle!Init
<1>2. TypeOK /\ [Next]_vars => [Lifecycle!Next]_(Lifecycle!vars)
  <2> SUFFICES ASSUME TypeOK, [Next]_vars
               PROVE  [Lifecycle!Next]_(Lifecycle!vars)
    OBVIOUS
  <2>1. CASE OnlyMoves
    BY <2>1, MovesAreMove DEF Lifecycle!Next
  <2>2. ASSUME NEW b \in Brains, NEW r \in Rows, TakeClaim(b, r)
        PROVE  Lifecycle!Next
    BY <2>2, ClaimIsTake DEF Lifecycle!Next
  <2>3. CASE UNCHANGED vars
    BY <2>3 DEF vars, rowVars, Lifecycle!vars
  <2> QED BY <2>1, <2>2, <2>3, StepMoves
<1> QED BY <1>1, <1>2, TypeCorrect, PTL DEF Spec, ImplementsLifecycle, Lifecycle!Spec

-----------------------------------------------------------------------------
(* The fences of the claim protocol.  The inductive invariant joins the    *)
(* holder columns with what is in flight: the columns alone do not say     *)
(* whose heartbeat may rewrite lease_owner, and the flights alone do not   *)
(* say that an active row has an owner to compare to.                      *)

\* A settled generation is not the row's open attempt.
SettledIsNotOpen ==
    \A r \in Rows : settled[r] = claims[r] /\ claims[r] > 0 => attempt[r] # claims[r]

IInv ==
    /\ TypeOK
    /\ HolderColumnsAgree
    /\ OneBrainPerGeneration
    /\ SettledIsNotOpen

-----------------------------------------------------------------------------
(* Where a record in flight can come from.                                 *)

InFlight == hydrating \cup work \cup net

Same(x, y) == x.brain = y.brain /\ x.row = y.row /\ x.gen = y.gen

Copies(new, old) == \A x \in new : \E y \in old : Same(x, y)

\* Changing a claim's phase keeps whose, which and when.
LEMMA PhaseKeeps ==
    ASSUME NEW w \in Work, NEW phase
    PROVE  Same([w EXCEPT !.phase = phase], w)
BY DEF Work, Same

\* A claim whose caller stopped waiting keeps whose, which and when.
LEMMA WaitingKeeps ==
    ASSUME NEW h \in Hydration
    PROVE  Same([h EXCEPT !.waiting = FALSE], h)
BY DEF Hydration, Same

\* A request is about the claim it is sent for.
LEMMA RequestKeeps ==
    ASSUME NEW w, NEW kind
    PROVE  Same(Request(w, kind), w)
BY DEF Request, Same

\* A request sent again is about the same claim.
LEMMA AgainKeeps ==
    ASSUME net \subseteq Requests, NEW m \in net, Answered(m) \/ Unanswered(m)
    PROVE  Copies(net', net)
<1>1. m \in Requests
  OBVIOUS
<1>2. ASSUME NEW x \in Again(m)
      PROVE  Same(x, m)
  <2>1. x = [m EXCEPT !.left = m.left - 1]
    BY <1>2 DEF Again
  <2> QED BY <1>1, <2>1 DEF Requests, Same
<1> QED BY <1>2 DEF Answered, Unanswered, Copies, Same

\* Only a claim puts something in flight that was not there before.
LEMMA FlightStep ==
    ASSUME TypeOK, Next
    PROVE  Copies(InFlight', InFlight) \/ \E b \in Brains, r \in Rows : TakeClaim(b, r)
<1>1. CASE ClaimStep
  BY <1>1 DEF ClaimStep, ClaimRunById, ClaimNextRun
<1>2. ASSUME NEW h \in hydrating, FinishExhausted(h) \/ HydrateFails(h) \/ HandOut(h)
      PROVE  Copies(InFlight', InFlight)
  <2>1. net' = net /\ hydrating' \subseteq hydrating
    BY <1>2 DEF FinishExhausted, HydrateFails, HandOut
  <2>2. Copies(work', work \cup hydrating)
    BY <1>2 DEF FinishExhausted, HydrateFails, HandOut, Copies, Same
  <2> QED BY <2>1, <2>2 DEF Copies, InFlight, Same
<1>3. ASSUME NEW h \in hydrating, ClaimTimesOut(h)
      PROVE  Copies(InFlight', InFlight)
  <2>1. Copies(hydrating', hydrating)
    <3>1. ASSUME NEW x \in hydrating'
          PROVE  x \in hydrating \/ x = [h EXCEPT !.waiting = FALSE]
      BY <1>3 DEF ClaimTimesOut
    <3>2. Same([h EXCEPT !.waiting = FALSE], h)
      BY WaitingKeeps DEF TypeOK
    <3> QED BY <3>1, <3>2 DEF Copies, Same
  <2> QED BY <1>3, <2>1 DEF ClaimTimesOut, Copies, InFlight, Same
<1>4. ASSUME NEW w \in work, \/ RefuseClaim(w) \/ TermRun(w) \/ FireRetry(w) \/ StandDown(w)
                             \/ LeaseHeartbeat(w) \/ FinishRun(w)
      PROVE  Copies(InFlight', InFlight)
  <2>1. hydrating' = hydrating /\ work' \subseteq work
    BY <1>4 DEF RefuseClaim, TermRun, FireRetry, StandDown, LeaseHeartbeat, FinishRun, BrainStep
  <2>2. ASSUME NEW x \in net'
        PROVE  x \in net \/ \E kind : x = Request(w, kind)
    BY <1>4 DEF RefuseClaim, TermRun, FireRetry, StandDown, LeaseHeartbeat, FinishRun, Send
  <2>3. Copies(net', net \cup work)
    BY <2>2, RequestKeeps DEF Copies, Same
  <2> QED BY <2>1, <2>3 DEF Copies, InFlight, Same
<1>5. ASSUME NEW w \in work, DeferForLockContention(w) \/ RetryRun(w) \/ StartRun(w)
      PROVE  Copies(InFlight', InFlight)
  <2>1. hydrating' = hydrating
    BY <1>5 DEF DeferForLockContention, RetryRun, StartRun, BrainStep
  <2>2. PICK phase : Become(w, phase)
    BY <1>5 DEF DeferForLockContention, RetryRun, StartRun
  <2>3. Copies(work', work)
    <3>1. ASSUME NEW x \in work'
          PROVE  x \in work \/ x = [w EXCEPT !.phase = phase]
      BY <2>2 DEF Become
    <3>2. Same([w EXCEPT !.phase = phase], w)
      BY PhaseKeeps DEF TypeOK
    <3> QED BY <3>1, <3>2 DEF Copies, Same
  <2>4. Copies(net', net \cup work)
    <3>1. ASSUME NEW x \in net'
          PROVE  x \in net \/ x = Request(w, "started")
      BY <1>5 DEF DeferForLockContention, RetryRun, StartRun, Send
    <3> QED BY <3>1, RequestKeeps DEF Copies, Same
  <2> QED BY <2>1, <2>3, <2>4 DEF Copies, InFlight, Same
<1>6. ASSUME NEW b \in Brains, Crash(b) \/ Restart(b) \/ StartTaskDelivery(b)
      PROVE  Copies(InFlight', InFlight)
  <2>1. Copies(hydrating', hydrating)
    <3>1. ASSUME NEW x \in hydrating'
          PROVE  \E h \in hydrating : x = h \/ x = [h EXCEPT !.waiting = FALSE]
      BY <1>6 DEF Crash, Restart, StartTaskDelivery
    <3>2. \A h \in hydrating : Same([h EXCEPT !.waiting = FALSE], h)
      BY WaitingKeeps DEF TypeOK
    <3> QED BY <3>1, <3>2 DEF Copies, Same
  <2>2. net' = net /\ work' \subseteq work
    BY <1>6 DEF Crash, Restart, StartTaskDelivery
  <2> QED BY <2>1, <2>2 DEF Copies, InFlight, Same
<1>7. ASSUME NEW m \in net, RenewRunLease(m)
      PROVE  Copies(InFlight', InFlight)
  <2>1. PICK phase : Hear(m, phase)
    BY <1>7 DEF RenewRunLease
  <2>2. Copies(work', work)
    <3>1. ASSUME NEW x \in work'
          PROVE  \E w \in work : x = w \/ x = [w EXCEPT !.phase = phase]
      BY <2>1 DEF Hear
    <3>2. \A w \in work : Same([w EXCEPT !.phase = phase], w)
      BY PhaseKeeps DEF TypeOK
    <3> QED BY <3>1, <3>2 DEF Copies, Same
  <2>3. Copies(net', net)
    BY <2>1, AgainKeeps DEF TypeOK, Hear
  <2>4. hydrating' = hydrating
    BY <1>7 DEF RenewRunLease
  <2> QED BY <2>2, <2>3, <2>4 DEF Copies, InFlight, Same
<1>8. ASSUME NEW m \in net, \/ Unclaim(m) \/ FailHeldClaim(m) \/ SettleFinishedClaim(m)
                            \/ CloseChatRun(m) \/ MarkChatRunRunning(m) \/ Lose(m)
      PROVE  Copies(InFlight', InFlight)
  <2>1. Copies(net', net)
    BY <1>8, AgainKeeps DEF TypeOK, Unclaim, FailHeldClaim, SettleFinishedClaim, CloseChatRun,
                            MarkChatRunRunning, Lose, Processed
  <2>2. hydrating' = hydrating /\ work' = work
    BY <1>8 DEF Unclaim, FailHeldClaim, SettleFinishedClaim, CloseChatRun, MarkChatRunRunning,
                Lose, brainVars
  <2> QED BY <2>1, <2>2 DEF Copies, InFlight, Same
<1>9. CASE OrphanStep \/ StopStep \/ ClockStep \/ SweepStep
  <2>1. hydrating' = hydrating /\ work' = work /\ net' = net
    BY <1>9 DEF OrphanStep, StopStep, ClockStep, SweepStep, RequeueOrphaned, InterruptUnstarted,
                CancelUnheldRuns, LeaseLapses, DeadlinePasses, SweepRow, RequeueLost,
                ReapExpiredQueued, ReapExpiredDoorbell, ReapLostLease, brainVars
  <2> QED BY <2>1 DEF Copies, InFlight, Same
<1> QED BY <1>1, <1>2, <1>3, <1>4, <1>5, <1>6, <1>7, <1>8, <1>9
        DEF Next, FinishClaim, ClaimAnswerLost, WorkStep, Heartbeat, BrainLifecycle, BrainReady,
            ApiStep, RequestLost

-----------------------------------------------------------------------------
(* The holder columns.                                                     *)

\* releaseClaim leaves a queued row without a holder.
LEMMA ReleaseHolder ==
    ASSUME RowTypeOK, HolderColumnsAgree, NEW b, NEW r \in Rows, NEW gen, ReleaseClaim(b, r, gen)
    PROVE  HolderColumnsAgree'
<1>1. CASE Held(b, r, gen) /\ status[r] \in CLOSEABLE
  <2>1. /\ status' = [status EXCEPT ![r] = Released(status[r])]
        /\ ClearHolder({r}) /\ ClearAttempt({r}) /\ claims' = claims
    BY <1>1 DEF ReleaseClaim, SetStatus
  <2>2. /\ Released(status[r]) \notin RENEWABLE
        /\ owner'[r] = NoBrain /\ lease'[r] = "none" /\ token'[r] = 0 /\ attempt'[r] = 0
    BY <2>1 DEF Released, RENEWABLE, ClearHolder, ClearAttempt
  <2>3. \A q \in Rows \ {r} : /\ status'[q] = status[q] /\ owner'[q] = owner[q]
                              /\ lease'[q] = lease[q] /\ token'[q] = token[q]
                              /\ attempt'[q] = attempt[q]
    BY <2>1 DEF RowTypeOK, ClearHolder, ClearAttempt
  <2>4. status'[r] = Released(status[r])
    BY <2>1 DEF RowTypeOK
  <2> QED BY <2>1, <2>2, <2>3, <2>4 DEF HolderColumnsAgree
<1>2. CASE ~ (Held(b, r, gen) /\ status[r] \in CLOSEABLE)
  BY <1>2 DEF HolderColumnsAgree, ReleaseClaim, rowVars
<1> QED BY <1>1, <1>2

\* Every statement leaves the holder columns in agreement with the status.
LEMMA HolderStep ==
    ASSUME TypeOK, HolderColumnsAgree, Next
    PROVE  HolderColumnsAgree'
<1> USE ClaimAssumption DEF HolderColumnsAgree, RENEWABLE
<1>1. ASSUME NEW b \in Brains, NEW r \in Rows, TakeClaim(b, r)
      PROVE  HolderColumnsAgree'
  BY <1>1 DEF TypeOK, RowTypeOK, TakeClaim, SetStatus, NextGeneration
<1>2. ASSUME NEW h \in hydrating, FinishExhausted(h) \/ HydrateFails(h)
      PROVE  HolderColumnsAgree'
  <2>1. h.row \in Rows
    BY DEF TypeOK, Hydration
  <2>2. CASE ReleaseClaim(h.brain, h.row, h.gen)
    BY <2>1, <2>2, ReleaseHolder DEF TypeOK
  <2>3. CASE FailExhaustedClaim(h.row)
    BY <2>1, <2>3 DEF TypeOK, RowTypeOK, FailExhaustedClaim, SetStatus, ClearHolder, ClearAttempt
  <2>4. CASE MarkUnclaimable(h.row)
    BY <2>1, <2>4 DEF TypeOK, RowTypeOK, MarkUnclaimable, SetStatus, ClearHolder, rowVars
  <2>5. CASE UNCHANGED rowVars
    BY <2>5 DEF rowVars
  <2> QED BY <1>2, <2>2, <2>3, <2>4, <2>5 DEF FinishExhausted, HydrateFails
<1>3. CASE \/ \E h \in hydrating : HandOut(h) \/ ClaimTimesOut(h)
           \/ WorkStep \/ Heartbeat \/ BrainLifecycle \/ BrainReady \/ RequestLost
  BY <1>3 DEF HandOut, ClaimTimesOut, WorkStep, Heartbeat, RefuseClaim, DeferForLockContention,
              StartRun, FinishRun, RetryRun, StandDown, TermRun, FireRetry, LeaseHeartbeat,
              BrainStep, BrainLifecycle, BrainReady, Crash, Restart, StartTaskDelivery,
              RequestLost, Lose, rowVars
<1>4. ASSUME NEW m \in net, RenewRunLease(m)
      PROVE  HolderColumnsAgree'
  <2>1. m.row \in Rows /\ m.brain \in Brains
    BY DEF TypeOK, Requests
  <2>2. CASE UNCHANGED rowVars
    BY <2>2 DEF rowVars
  <2>3. CASE ~ UNCHANGED rowVars
    BY <1>4, <2>1, <2>3 DEF TypeOK, RowTypeOK, RenewRunLease, Renewable
  <2> QED BY <2>2, <2>3
<1>5. ASSUME NEW m \in net, Unclaim(m) \/ FailHeldClaim(m) \/ SettleFinishedClaim(m)
      PROVE  HolderColumnsAgree'
  <2>1. m.row \in Rows
    BY DEF TypeOK, Requests
  <2>2. CASE Unclaim(m)
    BY <2>1, <2>2, ReleaseHolder DEF TypeOK, Unclaim
  <2>3. CASE FailHeldClaim(m)
    BY <2>1, <2>3 DEF TypeOK, RowTypeOK, FailHeldClaim, SetStatus, ClearHolder, ClearAttempt,
                      rowVars
  <2>4. CASE SettleFinishedClaim(m)
    BY <2>1, <2>4 DEF TypeOK, RowTypeOK, SettleFinishedClaim, ClearAttempt, rowVars
  <2> QED BY <1>5, <2>2, <2>3, <2>4
<1>6. ASSUME NEW m \in net, CloseChatRun(m) \/ MarkChatRunRunning(m)
      PROVE  HolderColumnsAgree'
  <2>1. m.row \in Rows
    BY DEF TypeOK, Requests
  <2>2. CASE CloseChatRun(m)
    <3>1. \A r \in Rows : status'[r] = status[r] \/ status'[r] \in Terminal
      BY <2>1, <2>2 DEF TypeOK, RowTypeOK, CloseChatRun, SetStatus, Moved, Terminal
    <3>2. UNCHANGED <<owner, lease, token, attempt, claims>>
      BY <2>2 DEF CloseChatRun, KeepHolder
    <3> QED BY <3>1, <3>2 DEF Terminal
  <2>3. CASE MarkChatRunRunning(m)
    BY <2>1, <2>3 DEF TypeOK, RowTypeOK, MarkChatRunRunning, SetStatus, Moved, KeepHolder
  <2> QED BY <1>6, <2>2, <2>3
<1>7. CASE OrphanStep
  BY <1>7 DEF TypeOK, RowTypeOK, OrphanStep, RequeueOrphaned, SetStatus, Moved, ClearHolder,
              ClearAttempt
<1>8. CASE StopStep
  BY <1>8 DEF TypeOK, RowTypeOK, StopStep, InterruptUnstarted, CancelUnheldRuns, StoppedStatus,
              ACQUIRABLE, SetStatus, Moved, KeepHolder
<1>9. CASE ClockStep
  BY <1>9 DEF TypeOK, RowTypeOK, ClockStep, LeaseLapses, DeadlinePasses
<1>10. ASSUME NEW r \in Rows, SweepRow(r)
       PROVE  HolderColumnsAgree'
  <2>1. CASE RequeueLost(r)
    BY <2>1 DEF TypeOK, RowTypeOK, RequeueLost, SetStatus, ClearHolder, ClearAttempt
  <2>2. CASE ReapExpiredQueued(r) \/ ReapExpiredDoorbell(r)
    BY <2>2 DEF TypeOK, RowTypeOK, ReapExpiredQueued, ReapExpiredDoorbell, SetStatus, ClearHolder,
                KeepHolder
  <2>3. CASE ReapLostLease(r)
    BY <2>3 DEF TypeOK, RowTypeOK, ReapLostLease, SetStatus, Moved, KeepHolder
  <2> QED BY <1>10, <2>1, <2>2, <2>3 DEF SweepRow
<1> QED BY <1>1, <1>2, <1>3, <1>4, <1>5, <1>6, <1>7, <1>8, <1>9, <1>10
        DEF Next, ClaimStep, ClaimRunById, ClaimNextRun, FinishClaim, ClaimAnswerLost, ApiStep,
            SweepStep

-----------------------------------------------------------------------------
(* Whose generation it is.                                                 *)

\* Apart from a claim, a statement only ever takes a row's owner away: the one
\* heartbeat that may write lease_owner is the owner's.
LEMMA OwnerStep ==
    ASSUME IInv, Next
    PROVE  \/ \E b \in Brains, r \in Rows : TakeClaim(b, r)
           \/ \A r \in Rows : owner'[r] \in {owner[r], NoBrain}
<1> USE DEF IInv, TypeOK, RowTypeOK
<1>1. CASE ClaimStep
  BY <1>1 DEF ClaimStep, ClaimRunById, ClaimNextRun
<1>2. CASE FinishClaim
  BY <1>2 DEF FinishClaim, FinishExhausted, HydrateFails, HandOut, FailExhaustedClaim,
              MarkUnclaimable, ReleaseClaim, ClearHolder, rowVars
<1>3. CASE \/ ClaimAnswerLost \/ WorkStep \/ Heartbeat \/ BrainLifecycle \/ BrainReady
           \/ RequestLost
  BY <1>3 DEF ClaimAnswerLost, ClaimTimesOut, WorkStep, Heartbeat, RefuseClaim,
              DeferForLockContention, StartRun, FinishRun, RetryRun, StandDown, TermRun, FireRetry,
              LeaseHeartbeat, BrainStep, BrainLifecycle, BrainReady, Crash, Restart,
              StartTaskDelivery, RequestLost, Lose, rowVars
<1>4. ASSUME NEW m \in net, RenewRunLease(m)
      PROVE  \A r \in Rows : owner'[r] \in {owner[r], NoBrain}
  <2>1. m.row \in Rows
    BY DEF Requests
  <2>2. CASE UNCHANGED rowVars
    BY <2>2 DEF rowVars
  <2>3. CASE ~ UNCHANGED rowVars
    <3>1. Renewable(m) /\ owner' = [owner EXCEPT ![m.row] = m.brain]
      BY <1>4, <2>3 DEF RenewRunLease
    <3>2. owner[m.row] # NoBrain /\ m.gen = claims[m.row]
      BY <2>1, <3>1 DEF Renewable, HolderColumnsAgree
    <3>3. m.brain = owner[m.row]
      BY <3>2 DEF OneBrainPerGeneration
    <3> QED BY <2>1, <3>1, <3>3
  <2> QED BY <2>2, <2>3
<1>5. ASSUME NEW m \in net, \/ Unclaim(m) \/ FailHeldClaim(m) \/ SettleFinishedClaim(m)
                            \/ CloseChatRun(m) \/ MarkChatRunRunning(m)
      PROVE  \A r \in Rows : owner'[r] \in {owner[r], NoBrain}
  BY <1>5 DEF Unclaim, FailHeldClaim, SettleFinishedClaim, CloseChatRun, MarkChatRunRunning,
              ReleaseClaim, ClearHolder, KeepHolder, rowVars
<1>6. CASE OrphanStep \/ StopStep \/ ClockStep \/ SweepStep
  <2>1. \/ owner' = owner
        \/ \E R : ClearHolder(R)
    BY <1>6 DEF OrphanStep, StopStep, ClockStep, SweepStep, RequeueOrphaned, InterruptUnstarted,
                CancelUnheldRuns, LeaseLapses, DeadlinePasses, SweepRow, RequeueLost,
                ReapExpiredQueued, ReapExpiredDoorbell, ReapLostLease, KeepHolder
  <2> QED BY <2>1 DEF ClearHolder
<1> QED BY <1>1, <1>2, <1>3, <1>4, <1>5, <1>6 DEF Next, ApiStep

\* A generation stays with one brain through every step.
LEMMA GenerationStep ==
    ASSUME IInv, Next
    PROVE  OneBrainPerGeneration'
<1>1. \A x \in InFlight : x.row \in Rows /\ x.gen \in Nat /\ x.brain \in Brains
  BY ClaimAssumption DEF IInv, TypeOK, InFlight, Hydration, Work, Requests, Gens
<1>2. \A x \in InFlight :
          /\ x.gen <= claims[x.row]
          /\ x.gen = claims[x.row] /\ owner[x.row] # NoBrain => x.brain = owner[x.row]
  BY DEF IInv, OneBrainPerGeneration, InFlight
<1>3. ASSUME NEW b \in Brains, NEW r \in Rows, TakeClaim(b, r)
      PROVE  OneBrainPerGeneration'
  <2>1. claims[r] \in Nat
    BY ClaimAssumption DEF IInv, TypeOK, RowTypeOK
  <2>2. /\ claims'[r] = claims[r] + 1 /\ owner'[r] = b
        /\ \A q \in Rows \ {r} : claims'[q] = claims[q] /\ owner'[q] = owner[q]
    BY <1>3 DEF TakeClaim, NextGeneration, IInv, TypeOK, RowTypeOK
  <2>3. ASSUME NEW x \in InFlight
        PROVE  /\ x.gen <= claims'[x.row]
               /\ x.gen = claims'[x.row] /\ owner'[x.row] # NoBrain => x.brain = owner'[x.row]
    BY <1>1, <1>2, <2>1, <2>2
  <2> DEFINE opened == [brain |-> b, row |-> r, gen |-> claims[r] + 1, waiting |-> TRUE]
  <2>4. InFlight' = InFlight \cup {opened}
    BY <1>3 DEF TakeClaim, NextGeneration, InFlight
  <2>5. opened.brain = b /\ opened.row = r /\ opened.gen = claims[r] + 1
    OBVIOUS
  <2> HIDE DEF opened
  <2>6. /\ opened.gen <= claims'[opened.row]
        /\ opened.brain = owner'[opened.row]
    BY <2>1, <2>2, <2>5
  <2>7. \A x \in InFlight' :
            /\ x.gen <= claims'[x.row]
            /\ x.gen = claims'[x.row] /\ owner'[x.row] # NoBrain => x.brain = owner'[x.row]
    BY <2>3, <2>4, <2>6
  <2> QED BY <2>7 DEF OneBrainPerGeneration, InFlight
<1>4. CASE ~ \E b \in Brains, r \in Rows : TakeClaim(b, r)
  <2>1. claims' = claims
    BY <1>4, StepMoves DEF IInv, OnlyMoves
  <2>2. \A r \in Rows : owner'[r] \in {owner[r], NoBrain}
    BY <1>4, OwnerStep
  <2>3. ASSUME NEW x \in InFlight'
        PROVE  /\ x.gen <= claims'[x.row]
               /\ x.gen = claims'[x.row] /\ owner'[x.row] # NoBrain => x.brain = owner'[x.row]
    <3>1. PICK y \in InFlight : Same(x, y)
      BY <1>4, FlightStep DEF IInv, Copies
    <3> QED BY <1>1, <1>2, <2>1, <2>2, <3>1 DEF Same
  <2> QED BY <2>3 DEF OneBrainPerGeneration, InFlight
<1> QED BY <1>3, <1>4

-----------------------------------------------------------------------------
(* Settling.                                                               *)

\* What a statement does to settled_attempt_id and attempt_id.
AttemptKept(r) ==
    /\ settled'[r] = settled[r]
    /\ attempt'[r] \in {attempt[r], 0}
    /\ lease'[r] # "live" \/ lease[r] = "live"

AttemptRenewed(r) ==
    /\ settled'[r] = settled[r]
    /\ settled[r] # claims[r]
    /\ attempt'[r] = claims[r]

AttemptSettled(r) ==
    /\ attempt'[r] = 0
    /\ lease'[r] = lease[r]

\* Apart from a claim, a statement opens an attempt only by a heartbeat of a
\* generation that is not settled, and revives a lease only that way too.
LEMMA AttemptStep ==
    ASSUME IInv, Next, NEW r \in Rows
    PROVE  \/ \E b \in Brains, q \in Rows : TakeClaim(b, q)
           \/ AttemptKept(r) \/ AttemptRenewed(r) \/ AttemptSettled(r)
<1> USE DEF IInv, TypeOK, RowTypeOK, AttemptKept
<1>1. CASE ClaimStep
  BY <1>1 DEF ClaimStep, ClaimRunById, ClaimNextRun
<1>2. ASSUME settled' = settled,
             attempt' = attempt \/ \E R : ClearAttempt(R),
             lease' = lease \/ (\E R : ClearHolder(R))
                 \/ \E q \in Rows : lease' = [lease EXCEPT ![q] = "lapsed"]
      PROVE  AttemptKept(r)
  <2>1. attempt'[r] \in {attempt[r], 0}
    BY <1>2 DEF ClearAttempt
  <2>2. lease'[r] # "live" \/ lease[r] = "live"
    BY <1>2 DEF ClearHolder
  <2> QED BY <1>2, <2>1, <2>2
<1> DEFINE Quiet == /\ settled' = settled
                    /\ attempt' = attempt \/ \E R : ClearAttempt(R)
                    /\ lease' = lease \/ (\E R : ClearHolder(R))
                           \/ \E q \in Rows : lease' = [lease EXCEPT ![q] = "lapsed"]
<1>3. CASE FinishClaim
  <2>1. Quiet
    BY <1>3 DEF FinishClaim, FinishExhausted, HydrateFails, HandOut, FailExhaustedClaim,
                MarkUnclaimable, ReleaseClaim, rowVars
  <2> QED BY <1>2, <2>1
<1>4. CASE \/ ClaimAnswerLost \/ WorkStep \/ Heartbeat \/ BrainLifecycle \/ BrainReady
           \/ RequestLost
  BY <1>4 DEF ClaimAnswerLost, ClaimTimesOut, WorkStep, Heartbeat, RefuseClaim,
              DeferForLockContention, StartRun, FinishRun, RetryRun, StandDown, TermRun, FireRetry,
              LeaseHeartbeat, BrainStep, BrainLifecycle, BrainReady, Crash, Restart,
              StartTaskDelivery, RequestLost, Lose, rowVars
<1>5. ASSUME NEW m \in net, RenewRunLease(m)
      PROVE  AttemptKept(r) \/ AttemptRenewed(r)
  BY <1>5 DEF RenewRunLease, Renewable, AttemptRenewed, rowVars, Requests
<1>6. ASSUME NEW m \in net, SettleFinishedClaim(m)
      PROVE  AttemptKept(r) \/ AttemptSettled(r)
  BY <1>6 DEF SettleFinishedClaim, ClearAttempt, AttemptSettled, rowVars, Requests
<1>7. ASSUME NEW m \in net, \/ Unclaim(m) \/ FailHeldClaim(m) \/ CloseChatRun(m)
                            \/ MarkChatRunRunning(m)
      PROVE  AttemptKept(r)
  <2>1. Quiet
    BY <1>7 DEF Unclaim, FailHeldClaim, CloseChatRun, MarkChatRunRunning, ReleaseClaim, KeepHolder,
                rowVars
  <2> QED BY <1>2, <2>1
<1>8. CASE OrphanStep \/ StopStep \/ ClockStep \/ SweepStep
  <2>1. Quiet
    BY <1>8 DEF OrphanStep, StopStep, ClockStep, SweepStep, RequeueOrphaned, InterruptUnstarted,
                CancelUnheldRuns, LeaseLapses, DeadlinePasses, SweepRow, RequeueLost,
                ReapExpiredQueued, ReapExpiredDoorbell, ReapLostLease, KeepHolder
  <2> QED BY <1>2, <2>1
<1> QED BY <1>1, <1>3, <1>4, <1>5, <1>6, <1>7, <1>8 DEF Next, ApiStep

\* A settled generation is never the open attempt again.
LEMMA SettledStep ==
    ASSUME IInv, Next
    PROVE  SettledIsNotOpen'
<1>1. ASSUME NEW b \in Brains, NEW r \in Rows, TakeClaim(b, r)
      PROVE  SettledIsNotOpen'
  BY <1>1, ClaimAssumption DEF IInv, TypeOK, RowTypeOK, TakeClaim, NextGeneration, SettledIsNotOpen
<1>2. CASE ~ \E b \in Brains, r \in Rows : TakeClaim(b, r)
  <2>1. claims' = claims
    BY <1>2, StepMoves DEF IInv, OnlyMoves
  <2>2. \A r \in Rows : AttemptKept(r) \/ AttemptRenewed(r) \/ AttemptSettled(r)
    BY <1>2, AttemptStep
  <2>3. \A r \in Rows : claims[r] \in Nat
    BY ClaimAssumption DEF IInv, TypeOK, RowTypeOK
  <2> QED BY <2>1, <2>2, <2>3
          DEF IInv, SettledIsNotOpen, AttemptKept, AttemptRenewed, AttemptSettled
<1> QED BY <1>1, <1>2

\* The inductive invariant.
THEOREM Invariance == Spec => []IInv
<1>1. Init => IInv
  BY ClaimAssumption DEF Init, IInv, TypeOK, RowTypeOK, HolderColumnsAgree,
     OneBrainPerGeneration, SettledIsNotOpen, RENEWABLE, Statuses, CLOSEABLE
<1>2. IInv /\ TypeOK' /\ [Next]_vars => IInv'
  <2> SUFFICES ASSUME IInv, TypeOK', [Next]_vars PROVE IInv'
    OBVIOUS
  <2>1. CASE Next
    BY <2>1, HolderStep, GenerationStep, SettledStep DEF IInv
  <2>2. CASE UNCHANGED vars
    BY <2>2 DEF IInv, HolderColumnsAgree, OneBrainPerGeneration, SettledIsNotOpen, vars,
                rowVars, brainVars
  <2> QED BY <2>1, <2>2
<1> QED BY <1>1, <1>2, TypeCorrect, PTL DEF Spec

-----------------------------------------------------------------------------
(* The properties.                                                         *)

\* The holder columns agree with the status after every statement.
THEOREM HolderAgreement == Spec => []HolderColumnsAgree
<1>1. IInv => HolderColumnsAgree
  BY DEF IInv
<1> QED BY <1>1, Invariance, PTL

\* Whatever is done or sent for the current generation comes from its owner.
THEOREM GenerationOwnership == Spec => []OneBrainPerGeneration
<1>1. IInv => OneBrainPerGeneration
  BY DEF IInv
<1> QED BY <1>1, Invariance, PTL

\* A live row leaves the active statuses only through its own holder's request
\* or event, the handler still finishing its claim, or its pod's hand-back.
LEMMA LiveStep ==
    ASSUME IInv, Next, NEW r \in Rows,
           lease[r] = "live", status[r] \in RENEWABLE, status'[r] \notin RENEWABLE
    PROVE  OwnEnding(r)
<1> USE DEF IInv, TypeOK, RowTypeOK
<1>0. owner[r] # NoBrain
  BY DEF HolderColumnsAgree
<1>1. CASE ClaimStep
  BY <1>1 DEF ClaimStep, ClaimRunById, ClaimNextRun, TakeClaim, SetStatus, RENEWABLE
<1>2. ASSUME NEW h \in hydrating, FinishExhausted(h) \/ HydrateFails(h)
      PROVE  OwnEnding(r)
  <2>1. h.row = r
    BY <1>2 DEF FinishExhausted, HydrateFails, FailExhaustedClaim, MarkUnclaimable, ReleaseClaim,
                SetStatus, rowVars
  <2> QED BY <2>1 DEF OwnEnding
<1>3. CASE \/ \E h \in hydrating : HandOut(h) \/ ClaimTimesOut(h)
           \/ WorkStep \/ Heartbeat \/ BrainLifecycle \/ BrainReady \/ RequestLost
  BY <1>3 DEF HandOut, ClaimTimesOut, WorkStep, Heartbeat, RefuseClaim, DeferForLockContention,
              StartRun, FinishRun, RetryRun, StandDown, TermRun, FireRetry, LeaseHeartbeat,
              BrainStep, BrainLifecycle, BrainReady, Crash, Restart, StartTaskDelivery,
              RequestLost, Lose, rowVars
<1>4. ASSUME NEW m \in net, RenewRunLease(m) \/ SettleFinishedClaim(m) \/ MarkChatRunRunning(m)
      PROVE  OwnEnding(r)
  BY <1>4 DEF RenewRunLease, SettleFinishedClaim, MarkChatRunRunning, SetStatus, Moved, RENEWABLE,
              rowVars
<1>5. ASSUME NEW m \in net, Unclaim(m) \/ FailHeldClaim(m) \/ CloseChatRun(m)
      PROVE  OwnEnding(r)
  <2>1. m.row = r /\ m.gen = claims[r]
    <3>1. CASE Unclaim(m)
      BY <3>1 DEF Unclaim, ReleaseClaim, Held, SetStatus, rowVars
    <3>2. CASE FailHeldClaim(m)
      BY <3>2 DEF FailHeldClaim, Held, SetStatus, rowVars
    <3>3. CASE CloseChatRun(m)
      BY <3>3 DEF CloseChatRun, DuplicateSiblings, SetStatus, Moved
    <3> QED BY <1>5, <3>1, <3>2, <3>3
  <2>2. m.brain = owner[r]
    BY <1>0, <2>1 DEF OneBrainPerGeneration
  <2>3. m.kind \in {"unclaim", "fail"} \cup Terminal
    BY <1>5 DEF Unclaim, FailHeldClaim, CloseChatRun
  <2> QED BY <2>1, <2>2, <2>3 DEF OwnEnding
<1>6. ASSUME NEW b \in Brains, RequeueOrphaned(b)
      PROVE  OwnEnding(r)
  <2>1. b \in orphans /\ owner[r] = b
    BY <1>6 DEF RequeueOrphaned, SetStatus, Moved
  <2> QED BY <2>1 DEF OwnEnding
<1>7. CASE StopStep
  BY <1>0, <1>7 DEF StopStep, InterruptUnstarted, CancelUnheldRuns, StoppedStatus, SetStatus, Moved,
              RENEWABLE
<1>8. CASE ClockStep \/ SweepStep
  BY <1>8 DEF ClockStep, SweepStep, SweepRow, LeaseLapses, DeadlinePasses, RequeueLost,
              ReapExpiredQueued, ReapExpiredDoorbell, ReapLostLease, LostWhileStopping,
              UnclaimedSiblings, SetStatus,
              Moved, RENEWABLE
<1> QED BY <1>1, <1>2, <1>3, <1>4, <1>5, <1>6, <1>7, <1>8
        DEF Next, FinishClaim, ClaimAnswerLost, ApiStep, OrphanStep

\* While its lease is live nobody else takes a run away from its holder or
\* closes it underneath: not a late release, not a stale fail, not an old
\* completion, not a sweep.
THEOREM LiveHolderIsSafe == Spec => LiveHolderKeepsItsRun
<1> DEFINE Kept == \A r \in Rows :
        (lease[r] = "live" /\ status[r] \in RENEWABLE /\ status'[r] \notin RENEWABLE)
            => OwnEnding(r)
<1>1. IInv /\ [Next]_vars => [Kept]_vars
  BY LiveStep
<1> QED BY <1>1, Invariance, PTL DEF Spec, LiveHolderKeepsItsRun

\* A heartbeat that was in flight when its run was settled brings nothing back.
THEOREM SettledIsFinal == Spec => SettledAttemptIsSpent
<1> DEFINE Spent == \A r \in Rows :
        (settled[r] = claims[r] /\ claims'[r] = claims[r] /\ claims[r] > 0)
            => /\ attempt'[r] # claims[r]
               /\ ~ (lease[r] = "lapsed" /\ lease'[r] = "live")
<1>1. IInv /\ [Next]_vars => [Spent]_vars
  <2> SUFFICES ASSUME IInv, Next, NEW r \in Rows,
                      settled[r] = claims[r], claims'[r] = claims[r], claims[r] > 0
               PROVE  /\ attempt'[r] # claims[r]
                      /\ ~ (lease[r] = "lapsed" /\ lease'[r] = "live")
    OBVIOUS
  <2>1. claims[r] \in Nat /\ attempt[r] # claims[r]
    BY ClaimAssumption DEF IInv, TypeOK, RowTypeOK, SettledIsNotOpen
  <2>2. ASSUME NEW b \in Brains, NEW q \in Rows, TakeClaim(b, q)
        PROVE  attempt'[r] = attempt[r] /\ lease'[r] = lease[r]
    BY <2>1, <2>2, ClaimAssumption DEF IInv, TypeOK, RowTypeOK, TakeClaim, NextGeneration
  <2>3. CASE AttemptKept(r) \/ AttemptRenewed(r) \/ AttemptSettled(r)
    BY <2>1, <2>3 DEF AttemptKept, AttemptRenewed, AttemptSettled
  <2> QED BY <2>1, <2>2, <2>3, AttemptStep
<1> QED BY <1>1, Invariance, PTL DEF Spec, SettledAttemptIsSpent
=============================================================================
