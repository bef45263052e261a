----------------------- MODULE SessionGateExclusion -----------------------
(***************************************************************************)
(* A session has one live turn at a time, a live turn keeps its gate, and  *)
(* no parked message is dropped, for every number of messages and faults,  *)
(* as long as no drain is torn and no live turn is reported interrupted.   *)
(***************************************************************************)
EXTENDS SessionGateProofs

-----------------------------------------------------------------------------
(* The inductive invariant, of states in which nothing is torn.            *)

\* A drain that is past its claim, and one that has not yet shut the gate.
Past == Working \cup {"read", "release"}
Early == Past \ {"announce", "drop", "release"}

\* Where a drain has handed its message off and not yet taken the gate for it.
HandingOff == {"publish", "delete", "gate"}

\* The drain past its claim is the one that holds it.
ClaimIsHeld == \A d \in Drains : drain[d].pc \in Past <=> claim = d

\* It works on a message of the queue, under the id reserved for it.
HoldsItsRow ==
    \A d \in Drains :
        /\ drain[d].pc \in Working \ {"gate"} => drain[d].msg \in ToSet(queue)
        /\ drain[d].pc \in {"classify", "open", "publish", "delete", "refuse"} =>
              reserved[drain[d].msg] = drain[d].run

\* Until it has shut the gate no turn is live but the one it hands off: the status may
\* say that the session is running, when a worker did, and it need not be.
NoOtherIsLive ==
    \A d \in Drains : drain[d].pc \in Early =>
        \A m \in Messages : LiveTurn(m) => drain[d].msg = m /\ drain[d].pc \in HandingOff

\* A message in the queue has an open run only in the hand of a drain.
QueuedIsInHand ==
    \A m \in Messages, n \in Ids : m \in ToSet(queue) /\ row[<<m, n>>] \in Open =>
        \E d \in Drains : /\ drain[d].msg = m /\ drain[d].run = n
                          /\ drain[d].pc \in {"publish", "delete"}

\* What is about to be published was not.
PublishedOnce ==
    /\ \A d \in Drains : drain[d].pc = "publish" =>
          row[<<drain[d].msg, drain[d].run>>] # "delivered"
    /\ \A m \in Messages : at[m] = "opened" => row[<<m, 1>>] # "delivered"

\* A message that was not parked has one run, and none open when it is rolled back.
SentOnce ==
    \A m \in Messages, n \in Ids :
        /\ at[m] # "parked" /\ n # 1 => row[<<m, n>>] = "none"
        /\ at[m] = "rollback" => row[<<m, n>>] \notin Open

\* A live turn is named by the gate, or is being handed off.
LiveIsKnown ==
    \A m \in Messages : LiveTurn(m) =>
        \/ marker = m /\ agent_status = "running"
        \/ \E d \in Drains : drain[d].msg = m /\ drain[d].pc \in HandingOff

\* A turn whose completion was published has no open run but the one it names, and
\* none that could still be opened, unless its drain is dropping it.
Over(e) ==
    /\ at[e.msg] \notin {"new", "gated"}
    /\ \A n \in Ids : row[<<e.msg, n>>] \in Open => row[<<e.msg, n>>] = "running" /\ n = e.run
    /\ \/ \E d \in Drains : drain[d].msg = e.msg /\ drain[d].pc = "drop"
       \/ /\ e.msg \in ToSet(queue) => reserved[e.msg] # 0
          /\ \A n \in Ids : row[<<e.msg, n>>] = "none" => ~MayOpen(e.msg, n)

ReportedIsOver == \A e \in events : Over(e)

\* The completion that is about to release the gate has no open run left.
ReleasedIsOver ==
    handler.pc = "release" => \A n \in Ids : row[<<handler.event.msg, n>>] \notin Open

\* A gate is owed by turns that had a run.
OwedWasOpened == \A m \in owed : at[m] \notin {"new", "gated"}

Calm ==
    /\ ClaimIsHeld /\ HoldsItsRow /\ NoOtherIsLive /\ QueuedIsInHand /\ PublishedOnce /\ SentOnce
    /\ LiveIsKnown /\ ReportedIsOver /\ ReleasedIsOver /\ OwedWasOpened

XInv == ~torn => Calm

\* There is something to show for a turn: a run that is open or was ended, or a report.
Told(m) ==
    \/ \E n \in Ids : row[<<m, n>>] \in Open \cup {"ended", "cancelled", "stopped", "unconfirmed"}
    \/ \E e \in events : e.msg = m

\* So there is when a message leaves the queue, and before the drain takes it off.
Accounted ==
    /\ \A d \in Drains :
          drain[d].pc \in {"publish", "delete", "forget", "drop"} => Told(drain[d].msg)
    /\ \A m \in Messages : at[m] = "parked" /\ m \notin ToSet(queue) => Told(m)

AInv == ~torn => Accounted

-----------------------------------------------------------------------------
(* What a step does to the drains.                                         *)

\* The steps that are not a drain's.
Others ==
    \/ \E m \in Messages :
          \/ Submit(m) \/ QueueReport(m) \/ SendStep(m) \/ SendFault(m)
          \/ HandBack(m) \/ HandBackLost(m)
    \/ ClaimLapses \/ ClaimLapsesEarly
    \/ \E e \in events : BeginCompletion(e)
    \/ ReleaseOnCompletion \/ HandlerCrash
    \/ \E r \in Runs : ClaimRun(r) \/ TakeMessage(r) \/ Report(r)
                         \/ ReapRun(r) \/ ReapOrphanedFatRun(r)
    \/ StatusStep
    \/ StopSession \/ CancelUnheldRuns \/ SweeperDrains \/ reapStuckSessions

\* Where Go leaves a drain; the other drains are left alone.
LEMMA GoGives ==
    ASSUME DrainOK, NEW d \in Drains, NEW pc, Go(d, pc)
    PROVE  /\ drain'[d].pc = pc
           /\ pc # "release" => drain'[d].msg = drain[d].msg /\ drain'[d].run = drain[d].run
           /\ pc = "release" => drain'[d].msg = None
           /\ \A c \in Drains \ {d} : drain'[c] = drain[c]
<1>1. drain \in [Drains -> DrainType] /\ drain[d] \in DrainType
  BY DEF DrainOK
<1>2. CASE pc = "release"
  BY <1>1, <1>2 DEF Go, Off, DrainType
<1>3. CASE pc # "release"
  BY <1>1, <1>3 DEF Go, DrainType
<1> QED
  BY <1>2, <1>3

\* And where the end of a drain leaves it.
LEMMA OffGives ==
    ASSUME DrainOK, NEW d \in Drains, drain' = [drain EXCEPT ![d] = Off]
    PROVE  /\ drain'[d].pc = "off" /\ drain'[d].msg = None
           /\ \A c \in Drains \ {d} : drain'[c] = drain[c]
BY DEF DrainOK, Off

\* A step of a drain moves that drain alone, and no request.
LEMMA DrainFrame ==
    ASSUME IInv, NEW d \in Drains, DrainStep(d) \/ DrainFault(d)
    PROVE  /\ \A c \in Drains \ {d} : drain'[c] = drain[c]
           /\ at' = at /\ owed' = owed
<1>1. DrainOK /\ drain \in [Drains -> DrainType]
  BY DEF IInv, DrainOK
<1>2. at' = at /\ owed' = owed
  BY DEF DrainStep, DrainFault, takeClaim, ReadQueue, CredentialsUnreadable, BindRefused,
     reserveDispatchTaskId, PrepareHandoff, OpenPending, RejectPending, DiscardPending,
     PublishPending, PublishPendingStopped, DeletePending, GatePending, RefusePending,
     NameRefusal, AnnounceRefusal, DropPending, ReleaseDrain, Recheck, OpenPendingFails,
     PublishPendingFails, AnnounceRefusalFails, DrainCrash, InDrain
<1>3. \E v : drain' = [drain EXCEPT ![d] = v]
  <2>1. ASSUME NEW pc, Go(d, pc)
        PROVE  \E v : drain' = [drain EXCEPT ![d] = v]
    BY <2>1 DEF Go
  <2>2. CASE DrainFault(d)
    BY <2>1, <2>2 DEF DrainFault, OpenPendingFails, PublishPendingFails, AnnounceRefusalFails,
                      DrainCrash, Throw
  <2>3. CASE takeClaim(d) \/ ReleaseDrain(d) \/ Recheck(d)
    BY <2>1, <2>3 DEF takeClaim, ReleaseDrain, Recheck, Return
  <2>4. CASE BindRefused(d)
    BY <2>1, <2>4 DEF BindRefused, Throw
  <2>5. CASE \E kind \in Kinds(drain[d].msg) : OpenPending(d, kind)
    BY <2>1, <2>5 DEF OpenPending, Throw
  <2>6. CASE ReadQueue(d)
    BY <1>1, <2>6 DEF ReadQueue
  <2>7. CASE reserveDispatchTaskId(d)
    BY <1>1, <2>1, <2>7 DEF reserveDispatchTaskId
  <2>8. CASE NameRefusal(d)
    BY <1>1, <2>8 DEF NameRefusal
  <2>9. CASE CredentialsUnreadable(d) \/ PrepareHandoff(d) \/ RejectPending(d) \/ DiscardPending(d)
             \/ PublishPending(d) \/ DeletePending(d) \/ GatePending(d) \/ RefusePending(d)
             \/ AnnounceRefusal(d) \/ DropPending(d)
    BY <2>1, <2>9 DEF CredentialsUnreadable, PrepareHandoff, RejectPending, DiscardPending,
       PublishPending, DeletePending, GatePending, RefusePending, AnnounceRefusal, DropPending
  <2>10. CASE PublishPendingStopped(d)
    BY <2>10 DEF PublishPendingStopped, Throw
  <2> QED
    BY <2>2, <2>3, <2>4, <2>5, <2>6, <2>7, <2>8, <2>9, <2>10 DEF DrainStep
<1> QED
  BY <1>1, <1>2, <1>3

\* Two drains past the claim are one.
LEMMA OneDrain ==
    ASSUME ClaimIsHeld, NEW c \in Drains, NEW d \in Drains,
           drain[c].pc \in Past, drain[d].pc \in Past
    PROVE  c = d
BY DEF ClaimIsHeld

\* A drain takes the claim when it goes past it, and gives it back on its way out.
LEMMA DrainKeepsClaim ==
    ASSUME IInv, ClaimIsHeld, NEW d \in Drains, DrainStep(d) \/ DrainFault(d), ~torn'
    PROVE  /\ ClaimIsHeld'
           /\ drain[d].pc \in Past \cup {"claim", "recheck"}
<1> DEFINE Held == /\ drain[d].pc \in Past \cup {"claim", "recheck"}
                   /\ \/ claim' = claim /\ (drain'[d].pc \in Past <=> drain[d].pc \in Past)
                      \/ claim = None /\ claim' = d /\ drain'[d].pc \in Past
                      \/ /\ drain[d].pc \in Past /\ drain'[d].pc \notin Past
                         /\ claim' = IF claim = d THEN None ELSE claim
<1>1. DrainOK /\ drain \in [Drains -> DrainType] /\ drain[d] \in DrainType
  BY DEF IInv, DrainOK
<1>2. \A pc : Go(d, pc) => drain'[d].pc = pc
  BY <1>1, GoGives
<1>3. drain' = [drain EXCEPT ![d] = Off] => drain'[d].pc = "off"
  BY <1>1, OffGives
<1>4. Held
  <2> USE <1>2, <1>3 DEF Past, Working
  <2>1. CASE takeClaim(d)
    BY <2>1 DEF takeClaim, Return
  <2>2. CASE ReadQueue(d)
    BY <1>1, <2>2 DEF ReadQueue, DrainType
  <2>3. CASE CredentialsUnreadable(d) \/ RejectPending(d) \/ DiscardPending(d) \/ PublishPending(d)
             \/ DeletePending(d) \/ GatePending(d) \/ AnnounceRefusal(d) \/ DropPending(d)
    BY <2>3 DEF CredentialsUnreadable, RejectPending, DiscardPending, PublishPending,
                DeletePending, GatePending, AnnounceRefusal, DropPending
  <2>4. CASE BindRefused(d)
    BY <2>4 DEF BindRefused, Throw, releaseClaim
  <2>5. CASE reserveDispatchTaskId(d)
    <3>1. claim' = claim /\ drain[d].pc \in {"bind", "reserve"}
      BY <2>5 DEF reserveDispatchTaskId
    <3>2. drain'[d].pc \in {"classify", "release"}
      BY <1>1, <2>5 DEF reserveDispatchTaskId, DrainType
    <3> QED
      BY <3>1, <3>2
  <2>6. CASE PrepareHandoff(d)
    <3>1. drain[d].pc = "classify" /\ claim' = claim
      BY <2>6 DEF PrepareHandoff
    <3>2. drain[d].msg \in Messages /\ drain[d].run \in Ids
      BY <3>1, InHandKnown DEF IInv, WithRun
    <3>3. recordedHandoffState(drain[d].msg, drain[d].run)
            \in {"absent", "open", "unsettled", "consumed", "retryable"}
      BY <3>2, HandoffKnown DEF IInv, TypeOK
    <3>4. drain'[d].pc \in {"open", "release", "delete", "forget", "reserve"}
      BY <2>6, <3>3 DEF PrepareHandoff
    <3> QED
      BY <3>1, <3>4
  <2>7. CASE \E kind \in Kinds(drain[d].msg) : OpenPending(d, kind)
    BY <2>7 DEF OpenPending, Throw, releaseClaim
  <2>8. CASE RefusePending(d)
    BY <2>8 DEF RefusePending
  <2>9. CASE NameRefusal(d)
    BY <1>1, <2>9 DEF NameRefusal, DrainType
  <2>10. CASE ReleaseDrain(d)
    BY <2>10 DEF ReleaseDrain, releaseClaim, Return
  <2>11. CASE Recheck(d)
    BY <1>1, <2>11 DEF Recheck, Return, Off
  <2>12. CASE OpenPendingFails(d) \/ PublishPendingFails(d) \/ AnnounceRefusalFails(d)
              \/ PublishPendingStopped(d)
    BY <2>12 DEF OpenPendingFails, PublishPendingFails, AnnounceRefusalFails,
                 PublishPendingStopped, Throw, releaseClaim
  <2>13. CASE DrainCrash(d)
    BY <2>13 DEF DrainCrash, Tear
  <2> QED
    BY <2>1, <2>2, <2>3, <2>4, <2>5, <2>6, <2>7, <2>8, <2>9, <2>10, <2>11, <2>12, <2>13
       DEF DrainStep, DrainFault
<1>5. \A c \in Drains \ {d} : drain'[c] = drain[c]
  BY DrainFrame
<1>6. None \notin Drains
  BY Basics
<1> HIDE DEF Past
<1>7. ClaimIsHeld'
  <2> SUFFICES ASSUME NEW c \in Drains PROVE drain'[c].pc \in Past <=> claim' = c
    BY DEF ClaimIsHeld
  <2>1. CASE c = d
    BY <1>4, <1>6, <2>1 DEF ClaimIsHeld
  <2>2. CASE c # d
    BY <1>4, <1>5, <1>6, <2>2 DEF ClaimIsHeld
  <2> QED
    BY <2>1, <2>2
<1> QED
  BY <1>4, <1>7

\* The other steps touch neither a drain past its claim nor the claim: one that nobody
\* holds does not stay behind, so there is none to lapse.
LEMMA OthersKeepClaim ==
    ASSUME IInv, ClaimIsHeld, ~torn', Others
    PROVE  /\ ClaimIsHeld' /\ claim' = claim
           /\ \A c \in Drains : drain'[c] = drain[c]
                                \/ (drain[c].pc = "off" /\ drain'[c].pc = "claim"
                                     /\ drain'[c].msg = None)
<1>1. DrainOK /\ drain \in [Drains -> DrainType]
  BY DEF IInv, DrainOK
<1>2. ~ClaimLapsesEarly
  BY DEF ClaimLapsesEarly, Tear
<1>3. ~ClaimLapses
  <2> SUFFICES ASSUME ClaimLapses PROVE FALSE
    OBVIOUS
  <2>1. claim # None /\ drain[claim].pc \in {"off", "claim"}
    BY DEF ClaimLapses, Abandoned
  <2>2. claim \in Drains
    BY <2>1 DEF IInv, TypeOK
  <2> QED
    BY <2>1, <2>2 DEF ClaimIsHeld, Past, Working
<1>4. /\ claim' = claim
      /\ \/ drain' = drain
         \/ \E c \in Drains : /\ drain[c].pc = "off"
                              /\ drain' = [drain EXCEPT ![c] = [Off EXCEPT !.pc = "claim"]]
  <2>1. CASE \E m \in Messages : Submit(m) \/ QueueReport(m)
    <3> PICK m \in Messages : Submit(m) \/ QueueReport(m)
      BY <2>1
    <3>1. at[m] = "new" /\ claim' = claim /\ (drain' = drain \/ Go(m, "claim"))
      BY DEF Submit, QueueReport
    <3>2. m \in Drains /\ drain[m] = Off /\ drain[m].pc = "off"
      BY <1>1, <3>1, Basics DEF DrainOK, Fits
    <3> QED
      BY <3>1, <3>2 DEF Go
  <2>2. CASE \E m \in Messages : SendStep(m) \/ SendFault(m)
    BY <2>2 DEF SendStep, SendFault, OpenRun, DiscardRun, PublishRun, PublishRunStopped, Rollback,
       PublishRunFails, SenderCrash, InSubmit
  <2>3. CASE \/ \E m \in Messages : HandBack(m) \/ HandBackLost(m)
             \/ \E e \in events : BeginCompletion(e)
             \/ HandlerCrash
             \/ \E r \in Runs : ClaimRun(r) \/ TakeMessage(r) \/ Report(r)
                                  \/ ReapRun(r) \/ ReapOrphanedFatRun(r)
             \/ StatusStep \/ StopSession \/ CancelUnheldRuns \/ reapStuckSessions
    BY <2>3, StatusKeeps
       DEF HandBack, HandBackLost, BeginCompletion, HandlerCrash, ClaimRun, TakeMessage, Report,
           ReapRun, ReapOrphanedFatRun, CloseRun, StopSession, CancelUnheldRuns, reapStuckSessions,
           Outside
  <2>4. CASE ReleaseOnCompletion
    <3>1. handler.pc = "release" /\ drain[Consumer].pc = "off"
      BY <2>4 DEF ReleaseOnCompletion, IInv, HandlerOK
    <3> QED
      BY <2>4, <3>1, Basics DEF ReleaseOnCompletion
  <2>5. CASE SweeperDrains
    BY <2>5, Basics DEF SweeperDrains
  <2> QED
    BY <1>2, <1>3, <2>1, <2>2, <2>3, <2>4, <2>5 DEF Others
<1>5. \A c \in Drains : drain'[c] = drain[c]
                        \/ (drain[c].pc = "off" /\ drain'[c].pc = "claim" /\ drain'[c].msg = None)
  BY <1>1, <1>4 DEF Off
<1>6. ClaimIsHeld'
  BY <1>4, <1>5 DEF ClaimIsHeld, Past, Working
<1> QED
  BY <1>4, <1>5, <1>6

\* What HoldsItsRow asks of one drain.
RowHeld(d) ==
    /\ drain[d].pc \in Working \ {"gate"} => drain[d].msg \in ToSet(queue)
    /\ drain[d].pc \in {"classify", "open", "publish", "delete", "refuse"} =>
          reserved[drain[d].msg] = drain[d].run

\* A drain keeps the row it works on until it is done with it.
LEMMA DrainKeepsItsRow ==
    ASSUME IInv, NEW d \in Drains, RowHeld(d), DrainStep(d) \/ DrainFault(d), ~torn'
    PROVE  RowHeld(d)'
<1>1. /\ DrainOK /\ drain \in [Drains -> DrainType] /\ drain[d] \in DrainType
      /\ reserved \in [Messages -> Ids \cup {0}]
  BY DEF IInv, DrainOK, TypeOK
<1>2. \A pc : Go(d, pc) => /\ drain'[d].pc = pc
                           /\ pc # "release" => /\ drain'[d].msg = drain[d].msg
                                                /\ drain'[d].run = drain[d].run
  BY <1>1, GoGives
<1>3. drain' = [drain EXCEPT ![d] = Off] => drain'[d].pc = "off"
  BY <1>1, OffGives
<1> USE <1>2, <1>3 DEF RowHeld, Past, Working, queueVars
<1>4. CASE takeClaim(d)
  BY <1>1, <1>4 DEF takeClaim, Return
<1>5. CASE ReadQueue(d)
  <2>1. queue # <<>> => NextPending \in ToSet(queue)
    BY NextIsQueued DEF IInv, TypeOK
  <2>2. drain'[d].pc = (IF queue = <<>> THEN "release" ELSE "bind")
        /\ drain'[d].msg = (IF queue = <<>> THEN None ELSE NextPending)
    BY <1>1, <1>5 DEF ReadQueue, DrainType
  <2> QED
    BY <1>5, <2>1, <2>2 DEF ReadQueue
<1>6. CASE CredentialsUnreadable(d) \/ RejectPending(d) \/ DiscardPending(d) \/ PublishPending(d)
           \/ AnnounceRefusal(d) \/ GatePending(d)
  BY <1>6 DEF CredentialsUnreadable, RejectPending, DiscardPending, PublishPending,
              AnnounceRefusal, GatePending
<1>7. CASE DeletePending(d) \/ DropPending(d)
  BY <1>7 DEF DeletePending, DropPending
<1>8. CASE BindRefused(d)
  BY <1>8 DEF BindRefused, Throw
<1>9. CASE reserveDispatchTaskId(d)
  <2>1. drain[d].pc \in {"bind", "reserve"} /\ queue' = queue
    BY <1>9 DEF reserveDispatchTaskId
  <2>2. CASE drain[d].msg \in ToSet(queue)
    <3> DEFINE m == drain[d].msg
               n == IF reserved[m] = 0 THEN Fresh(m) ELSE reserved[m]
    <3>1. m \in Messages
      BY <2>1, InHandKnown DEF IInv
    <3>2. reserved' = [reserved EXCEPT ![m] = n]
          /\ drain' = [drain EXCEPT ![d].pc = "classify", ![d].run = n]
      BY <1>9, <2>2 DEF reserveDispatchTaskId
    <3> HIDE DEF n
    <3>3. reserved'[m] = n
      BY <1>1, <3>1, <3>2
    <3>4. drain'[d].pc = "classify" /\ drain'[d].run = n /\ drain'[d].msg = m
      BY <1>1, <3>2 DEF DrainType
    <3> QED
      BY <2>1, <2>2, <3>3, <3>4
  <2>3. CASE drain[d].msg \notin ToSet(queue)
    BY <1>9, <2>3 DEF reserveDispatchTaskId
  <2> QED
    BY <2>2, <2>3
<1>10. CASE PrepareHandoff(d)
  <2> DEFINE m == drain[d].msg
             state == recordedHandoffState(m, drain[d].run)
  <2>1. drain[d].pc = "classify" /\ queue' = queue
    BY <1>10 DEF PrepareHandoff
  <2>2. m \in Messages /\ drain[d].run \in Ids
    BY <2>1, InHandKnown DEF IInv, WithRun
  <2>3. state \in {"absent", "open", "unsettled", "consumed", "retryable"}
    BY <2>2, HandoffKnown DEF IInv, TypeOK
  <2>4. CASE state = "retryable"
    BY <1>10, <2>1, <2>4 DEF PrepareHandoff
  <2>5. CASE state # "retryable"
    BY <1>10, <2>1, <2>3, <2>5 DEF PrepareHandoff
  <2> QED
    BY <2>4, <2>5
<1>11. CASE \E kind \in Kinds(drain[d].msg) : OpenPending(d, kind)
  BY <1>11 DEF OpenPending, Throw
<1>12. CASE RefusePending(d)
  BY <1>12 DEF RefusePending
<1>13. CASE NameRefusal(d)
  <2>1. drain'[d].pc = "announce" /\ drain'[d].msg = drain[d].msg
    BY <1>1, <1>13 DEF NameRefusal, DrainType
  <2> QED
    BY <1>13, <2>1 DEF NameRefusal
<1>14. CASE ReleaseDrain(d)
  BY <1>14 DEF ReleaseDrain, Return
<1>15. CASE Recheck(d)
  <2>1. drain'[d].pc \in {"off", "claim"}
    BY <1>1, <1>15 DEF Recheck, Return, Off
  <2> QED
    BY <2>1
<1>16. CASE OpenPendingFails(d) \/ PublishPendingFails(d) \/ AnnounceRefusalFails(d)
            \/ PublishPendingStopped(d)
  BY <1>16 DEF OpenPendingFails, PublishPendingFails, AnnounceRefusalFails, PublishPendingStopped,
               Throw
<1>17. CASE DrainCrash(d)
  BY <1>17 DEF DrainCrash, Tear
<1> QED
  BY <1>4, <1>5, <1>6, <1>7, <1>8, <1>9, <1>10, <1>11, <1>12, <1>13, <1>14, <1>15, <1>16, <1>17
     DEF DrainStep, DrainFault

\* A drain that is not past its claim writes neither the queue nor the gate.
LEMMA OutsideItsClaim ==
    ASSUME IInv, NEW d \in Drains, DrainStep(d) \/ DrainFault(d), ~torn',
           drain[d].pc \in {"claim", "recheck"}
    PROVE  UNCHANGED <<gateVars, queueVars, rowVars, events, torn>>
<1>1. takeClaim(d) \/ Recheck(d)
  BY DEF DrainStep, DrainFault, takeClaim, ReadQueue, CredentialsUnreadable, BindRefused,
     reserveDispatchTaskId, PrepareHandoff, OpenPending, RejectPending, DiscardPending,
     PublishPending, PublishPendingStopped, DeletePending, GatePending, RefusePending,
     NameRefusal, AnnounceRefusal, DropPending, ReleaseDrain, Recheck, OpenPendingFails,
     PublishPendingFails, AnnounceRefusalFails, DrainCrash, Tear
<1> QED
  BY <1>1 DEF takeClaim, Recheck, NoFault, Return

\* So while nothing is torn every drain keeps its row.
LEMMA DrainKeepsRows ==
    ASSUME IInv, ClaimIsHeld, HoldsItsRow, NEW d \in Drains, DrainStep(d) \/ DrainFault(d), ~torn'
    PROVE  HoldsItsRow'
<1> SUFFICES ASSUME NEW c \in Drains PROVE RowHeld(c)'
  BY DEF HoldsItsRow, RowHeld
<1>1. RowHeld(c) /\ RowHeld(d)
  BY DEF HoldsItsRow, RowHeld
<1>2. CASE c = d
  BY <1>1, <1>2, DrainKeepsItsRow
<1>3. CASE c # d
  <2>1. drain'[c] = drain[c]
    BY <1>3, DrainFrame
  <2>2. CASE drain[c].pc \notin Past
    BY <2>1, <2>2 DEF RowHeld, Past, Working
  <2>3. CASE drain[c].pc \in Past
    <3>1. drain[d].pc \notin Past
      BY <1>3, <2>3, OneDrain
    <3>2. drain[d].pc \in {"claim", "recheck"}
      BY <3>1, DrainKeepsClaim
    <3>3. UNCHANGED queueVars
      BY <3>2, OutsideItsClaim
    <3> QED
      BY <1>1, <2>1, <3>3 DEF RowHeld, queueVars
  <2> QED
    BY <2>2, <2>3
<1> QED
  BY <1>2, <1>3

\* The other steps take nothing off the queue.
LEMMA OthersKeepRows ==
    ASSUME IInv, ClaimIsHeld, HoldsItsRow, ~torn', Others
    PROVE  HoldsItsRow'
<1>1. \A c \in Drains : drain'[c] = drain[c] \/ drain'[c].pc = "claim"
  BY OthersKeepClaim
<1>2. reserved' = reserved /\ ToSet(queue) \subseteq ToSet(queue')
  <2>1. CASE \E m \in Messages : Submit(m) \/ QueueReport(m)
    <3> PICK m \in Messages : Submit(m) \/ QueueReport(m)
      BY <2>1
    <3>1. at[m] = "new" /\ reserved' = reserved /\ row' = row /\ (Park(m) \/ queue' = queue)
      BY DEF Submit, QueueReport, rowVars
    <3> QED
      BY <3>1, QueueGains
  <2>2. CASE \E m \in Messages : SendStep(m) \/ SendFault(m)
    BY <2>2 DEF SendStep, SendFault, OpenRun, DiscardRun, PublishRun, PublishRunStopped, Rollback,
       PublishRunFails, SenderCrash, InSubmit, queueVars
  <2>3. CASE \/ \E m \in Messages : HandBack(m) \/ HandBackLost(m)
             \/ \E e \in events : BeginCompletion(e)
             \/ HandlerCrash \/ ReleaseOnCompletion \/ SweeperDrains
             \/ ClaimLapses \/ ClaimLapsesEarly
             \/ \E r \in Runs : ClaimRun(r) \/ TakeMessage(r) \/ Report(r)
                                  \/ ReapRun(r) \/ ReapOrphanedFatRun(r)
             \/ StatusStep \/ StopSession \/ CancelUnheldRuns \/ reapStuckSessions
    BY <2>3, StatusKeeps
       DEF HandBack, HandBackLost, BeginCompletion, HandlerCrash, ClaimRun, TakeMessage, Report,
           ReapRun, ReapOrphanedFatRun, CloseRun, StopSession, CancelUnheldRuns, reapStuckSessions,
           Outside, ReleaseOnCompletion, SweeperDrains, ClaimLapses, ClaimLapsesEarly, queueVars
  <2> QED
    BY <2>1, <2>2, <2>3 DEF Others
<1> QED
  BY <1>1, <1>2 DEF HoldsItsRow, Working

-----------------------------------------------------------------------------
(* What a step does to the runs.                                           *)

\* The drain d opens the run r, delivers it, or leaves it closed.
Opens(d, r) ==
    /\ drain[d].pc = "open" /\ drain'[d].pc = "publish"
    /\ drain'[d].msg = drain[d].msg /\ drain'[d].run = drain[d].run
    /\ r = <<drain[d].msg, drain[d].run>>
    /\ row[r] = "none" /\ row'[r] \in {"queued", "preparing"}

Delivers(d, r) ==
    /\ drain[d].pc = "publish" /\ drain'[d].pc = "delete"
    /\ r = <<drain[d].msg, drain[d].run>>
    /\ row[r] = "preparing" /\ row'[r] = "delivered"

Closes(d, r) ==
    /\ drain[d].pc \in {"bind", "publish"} /\ r[1] = drain[d].msg
    /\ row'[r] \notin Open
    /\ row'[r] = "none" => row[r] = "queued"

\* A drain opens a run to publish it, and either hands it off or leaves it closed.
LEMMA DrainRuns ==
    ASSUME IInv, PublishedOnce, NEW d \in Drains, DrainStep(d) \/ DrainFault(d), ~torn'
    PROVE  /\ \A r \in Runs : row'[r] = row[r] \/ Opens(d, r) \/ Delivers(d, r) \/ Closes(d, r)
           /\ drain'[d].pc = "publish" => Opens(d, <<drain[d].msg, drain[d].run>>)
           /\ drain[d].pc = "publish" =>
                 \/ /\ drain'[d].pc = "delete"
                    /\ drain'[d].msg = drain[d].msg /\ drain'[d].run = drain[d].run
                 \/ row'[<<drain[d].msg, drain[d].run>>] \notin Open
           /\ drain[d].pc = "delete" => drain[d].msg \notin ToSet(queue')
           /\ ToSet(queue') \subseteq ToSet(queue)
<1> DEFINE m == drain[d].msg
           n == drain[d].run
<1>1. /\ DrainOK /\ drain \in [Drains -> DrainType] /\ drain[d] \in DrainType
      /\ row \in [Runs -> {"none"} \cup Open \cup Terminal]
      /\ queue \in Seq(Messages) /\ IsInjective(queue)
      /\ drain[d].pc \in Working => m \in Messages
      /\ drain[d].pc \in WithRun => n \in Ids /\ <<m, n>> \in Runs
  BY InHandKnown, EventsTyped DEF IInv, DrainOK, TypeOK, WithRun
<1>2. \A pc : Go(d, pc) => /\ drain'[d].pc = pc
                           /\ pc # "release" => drain'[d].msg = m /\ drain'[d].run = n
  BY <1>1, GoGives
<1>3. drain' = [drain EXCEPT ![d] = Off] => drain'[d].pc = "off"
  BY <1>1, OffGives
<1> USE <1>2, <1>3 DEF Working, WithRun, rowVars, queueVars
<1>4. CASE row' = row /\ queue' = queue /\ drain'[d].pc # "publish"
           /\ drain[d].pc \notin {"publish", "delete"}
  BY <1>4
<1>5. CASE takeClaim(d) \/ CredentialsUnreadable(d) \/ RejectPending(d)
           \/ GatePending(d) \/ RefusePending(d) \/ AnnounceRefusal(d)
           \/ ReleaseDrain(d) \/ OpenPendingFails(d) \/ AnnounceRefusalFails(d)
  BY <1>4, <1>5 DEF takeClaim, Return, CredentialsUnreadable, RejectPending, GatePending,
     RefusePending, AnnounceRefusal, ReleaseDrain, OpenPendingFails, AnnounceRefusalFails, Throw
<1>6. CASE ReadQueue(d) \/ reserveDispatchTaskId(d) \/ NameRefusal(d) \/ Recheck(d)
  <2>1. CASE ReadQueue(d)
    BY <1>1, <1>4, <2>1 DEF ReadQueue, DrainType
  <2>2. CASE reserveDispatchTaskId(d)
    <3>1. drain'[d].pc # "publish"
      BY <1>1, <2>2 DEF reserveDispatchTaskId, DrainType
    <3> QED
      BY <1>4, <2>2, <3>1 DEF reserveDispatchTaskId
  <2>3. CASE NameRefusal(d)
    <3>1. drain'[d].pc # "publish"
      BY <1>1, <2>3 DEF NameRefusal, DrainType
    <3> QED
      BY <1>4, <2>3, <3>1 DEF NameRefusal
  <2>4. CASE Recheck(d)
    <3>1. drain'[d].pc # "publish"
      BY <1>1, <2>4 DEF Recheck, Return, Off
    <3> QED
      BY <1>4, <2>4, <3>1 DEF Recheck
  <2> QED
    BY <1>6, <2>1, <2>2, <2>3, <2>4
<1>7. CASE PrepareHandoff(d)
  <2>1. drain[d].pc = "classify" /\ queue' = queue /\ row' = row
    BY <1>7 DEF PrepareHandoff
  <2>2. recordedHandoffState(m, n) \in {"absent", "open", "unsettled", "consumed", "retryable"}
    BY <1>1, <2>1, HandoffKnown
  <2>3. drain'[d].pc # "publish"
    BY <1>7, <2>2 DEF PrepareHandoff
  <2> QED
    BY <1>4, <2>1, <2>3
<1>8. CASE DropPending(d) \/ DeletePending(d)
  <2>1. drain[d].pc \in {"drop", "delete", "forget"} /\ row' = row /\ DeleteRow(m)
    BY <1>8 DEF DropPending, DeletePending, Tear
  <2>2. drain'[d].pc # "publish"
    BY <1>8 DEF DropPending, DeletePending
  <2>3. ToSet(queue') = ToSet(queue) \ {m}
    BY <1>1, <2>1, DeleteDoes
  <2> QED
    BY <2>1, <2>2, <2>3
<1>9. CASE BindRefused(d)
  <2> DEFINE stays == m \in ToSet(queue)
             final == attempts[m] + 1 >= BIND_MAX_ATTEMPTS /\ RunsOf(m) \cap OpenRuns = {}
  <2>0. drain'[d].pc # "publish"
    <3>1. (~stays /\ Go(d, "release")) \/ (stays /\ Throw(d)) \/ (stays /\ final /\ Go(d, "drop"))
      BY <1>9 DEF BindRefused
    <3> QED
      BY <3>1 DEF Throw
  <2>1. drain[d].pc = "bind" /\ queue' = queue /\ drain'[d].pc # "publish"
    BY <1>9, <2>0 DEF BindRefused
  <2>2. row' = row \/ (Fresh(m) \in Ids /\ row' = [row EXCEPT ![<<m, Fresh(m)>>] = "failed"])
    BY <1>9 DEF BindRefused
  <2>3. ASSUME NEW r \in Runs, row'[r] # row[r]
        PROVE  Closes(d, r)
    <3>1. r = <<m, Fresh(m)>> /\ row'[r] = "failed"
      BY <1>1, <2>2, <2>3
    <3> QED
      BY <2>1, <3>1 DEF Closes, Open
  <2> QED
    BY <2>1, <2>3
<1>10. CASE \E kind \in Kinds(m) : OpenPending(d, kind)
  <2> PICK kind \in Kinds(m) : OpenPending(d, kind)
    BY <1>10
  <2>1. drain[d].pc = "open" /\ queue' = queue
    BY DEF OpenPending
  <2>2. CASE row[<<m, n>>] = "none" /\ RunsOf(m) \cap OpenRuns = {}
    <3>1. row' = [row EXCEPT ![<<m, n>>] = kind] /\ Go(d, "publish")
      BY <2>2 DEF OpenPending
    <3>2. Opens(d, <<m, n>>) /\ \A r \in Runs : r # <<m, n>> => row'[r] = row[r]
      BY <1>1, <2>1, <2>2, <3>1 DEF Opens, Kinds
    <3> QED
      BY <2>1, <3>2
  <2>3. CASE ~(row[<<m, n>>] = "none" /\ RunsOf(m) \cap OpenRuns = {})
    BY <1>4, <2>1, <2>3 DEF OpenPending, Throw
  <2> QED
    BY <2>2, <2>3
<1>11. CASE DiscardPending(d)
  <2>1. /\ drain[d].pc = "publish" /\ queue' = queue /\ drain'[d].pc # "publish"
        /\ row' = [row EXCEPT ![<<m, n>>] = IF @ = "queued" THEN "none" ELSE @]
    BY <1>11 DEF DiscardPending
  <2>2. /\ \A r \in Runs : r # <<m, n>> => row'[r] = row[r]
        /\ row'[<<m, n>>] = IF row[<<m, n>>] = "queued" THEN "none" ELSE row[<<m, n>>]
    BY <1>1, <2>1
  <2>3. row[<<m, n>>] \notin {"preparing", "delivered"}
    BY <1>11, <2>1 DEF DiscardPending, PublishedOnce
  <2> QED
    BY <1>11, <2>1, <2>2, <2>3 DEF DiscardPending, Closes, Open
<1>12. CASE PublishPending(d)
  <2>1. /\ drain[d].pc = "publish" /\ queue' = queue /\ Go(d, "delete")
        /\ row' = [row EXCEPT ![<<m, n>>] = IF @ = "preparing" THEN "delivered" ELSE @]
    BY <1>12 DEF PublishPending
  <2>2. /\ \A r \in Runs : r # <<m, n>> => row'[r] = row[r]
        /\ row'[<<m, n>>] = IF row[<<m, n>>] = "preparing" THEN "delivered" ELSE row[<<m, n>>]
    BY <1>1, <2>1
  <2> QED
    BY <2>1, <2>2 DEF Delivers
<1>13. CASE PublishPendingFails(d)
  <2>1. /\ drain[d].pc = "publish" /\ queue' = queue /\ drain'[d].pc # "publish"
        /\ \/ row' = [row EXCEPT ![<<m, n>>] = IF @ = "queued" THEN "failed" ELSE @]
              /\ row[<<m, n>>] # "preparing"
              /\ (row[<<m, n>>] = "running" => Go(d, "delete"))
           \/ row' = [row EXCEPT ![<<m, n>>] = "failed"]
    BY <1>13 DEF PublishPendingFails, Tear, Throw
  <2>2. row[<<m, n>>] # "delivered"
    BY <2>1 DEF PublishedOnce
  <2>3. /\ \A r \in Runs : r # <<m, n>> => row'[r] = row[r]
        /\ \/ /\ row'[<<m, n>>] = IF row[<<m, n>>] = "queued" THEN "failed" ELSE row[<<m, n>>]
              /\ row[<<m, n>>] # "preparing"
              /\ (row[<<m, n>>] = "running" => Go(d, "delete"))
           \/ row'[<<m, n>>] = "failed"
    BY <1>1, <2>1
  <2> QED
    BY <2>1, <2>2, <2>3 DEF Closes, Open
<1>14. CASE PublishPendingStopped(d)
  BY <1>14 DEF PublishPendingStopped, Throw, Open
<1>15. ~DrainCrash(d)
  BY DEF DrainCrash, Tear
<1> QED
  BY <1>5, <1>6, <1>7, <1>8, <1>9, <1>10, <1>11, <1>12, <1>13, <1>14, <1>15
     DEF DrainStep, DrainFault

\* What becomes of a run otherwise: its request opens or delivers it, a worker takes
\* it, or it is closed.
Sends(r) ==
    /\ at[r[1]] = "gated" /\ at'[r[1]] = "opened" /\ r[2] = 1
    /\ row'[r] \in {"queued", "preparing"}

SendDelivers(r) ==
    /\ at[r[1]] = "opened" /\ at'[r[1]] = "done" /\ r[2] = 1
    /\ row[r] = "preparing" /\ row'[r] = "delivered"

Taken(r) ==
    /\ row[r] = "queued" \/ (row[r] \in Open /\ r \in stream)
    /\ row'[r] = "running"

Ended(r) ==
    /\ row[r] \in Open /\ row'[r] \notin Open
    /\ row'[r] = "none" => at[r[1]] = "opened" /\ row[r] = "queued"
    /\ row'[r] = "failed" => at[r[1]] = "opened" \/ \E e \in events' : e.msg = r[1]

RunMoves(r) == row'[r] = row[r] \/ Sends(r) \/ SendDelivers(r) \/ Taken(r) \/ Ended(r)

\* And of the request that sends a message.
RequestMoves(m) ==
    \/ at'[m] = at[m]
    \/ at[m] = "new" /\ at'[m] = "gated"
    \/ at[m] = "new" /\ at'[m] = "parked" /\ m \in ToSet(queue')
    \/ at[m] = "gated" /\ at'[m] = "opened" /\ row'[<<m, 1>>] \in {"queued", "preparing"}
    \/ at[m] = "opened" /\ at'[m] = "rollback" /\ row'[<<m, 1>>] \notin Open
    \/ at[m] \in {"gated", "opened", "rollback"} /\ at'[m] = "done"

\* A request and its run move together.
LEMMA SendRuns ==
    ASSUME IInv, PublishedOnce, NEW m \in Messages,
           Submit(m) \/ QueueReport(m) \/ SendStep(m) \/ SendFault(m)
    PROVE  /\ \A r \in Runs : RunMoves(r)
           /\ \A k \in Messages : RequestMoves(k)
           /\ \A k \in ToSet(queue') : k \in ToSet(queue) \/ at[k] = "new"
           /\ ToSet(queue) \subseteq ToSet(queue')
<1>1. /\ row \in [Runs -> {"none"} \cup Open \cup Terminal]
      /\ at \in [Messages -> {"new", "parked", "gated", "opened", "rollback", "done"}]
      /\ <<m, 1>> \in Runs /\ row[<<m, 1>>] \in {"none"} \cup Open \cup Terminal
  BY EventsTyped, Basics DEF IInv, TypeOK
<1>2. CASE Submit(m) \/ QueueReport(m)
  <2>1. /\ at[m] = "new" /\ reserved' = reserved /\ row' = row
        /\ Park(m) \/ (queue' = queue /\ at' = [at EXCEPT ![m] = "gated"])
    BY <1>2 DEF Submit, QueueReport, rowVars
  <2>2. Park(m) => ToSet(queue') = ToSet(queue) \cup {m}
    BY <2>1, QueueGains
  <2>3. \A k \in Messages : RequestMoves(k)
    BY <1>1, <2>1, <2>2 DEF RequestMoves, Park
  <2> QED
    BY <2>1, <2>2, <2>3 DEF RunMoves
<1>3. CASE \E kind \in Kinds(m) : OpenRun(m, kind)
  <2> PICK kind \in Kinds(m) : OpenRun(m, kind)
    BY <1>3
  <2>1. /\ at[m] = "gated" /\ row' = [row EXCEPT ![<<m, 1>>] = kind]
        /\ at' = [at EXCEPT ![m] = "opened"] /\ queue' = queue
    BY DEF OpenRun, InSubmit, queueVars
  <2>2. /\ \A r \in Runs : r # <<m, 1>> => row'[r] = row[r]
        /\ row'[<<m, 1>>] \in {"queued", "preparing"}
        /\ \A k \in Messages : at'[k] = IF k = m THEN "opened" ELSE at[k]
    BY <1>1, <2>1 DEF Kinds
  <2> QED
    BY <2>1, <2>2 DEF RunMoves, RequestMoves, Sends
<1>4. CASE DiscardRun(m)
  <2>1. /\ at[m] = "opened" /\ row[<<m, 1>>] \notin {"preparing", "delivered"} /\ queue' = queue
        /\ row' = [row EXCEPT ![<<m, 1>>] = IF @ = "queued" THEN "none" ELSE @]
        /\ at' = [at EXCEPT ![m] = IF row[<<m, 1>>] = "running" THEN "done" ELSE "rollback"]
    BY <1>4 DEF DiscardRun, InSubmit, queueVars, PublishedOnce
  <2>2. /\ \A r \in Runs : r # <<m, 1>> => row'[r] = row[r]
        /\ row'[<<m, 1>>] = IF row[<<m, 1>>] = "queued" THEN "none" ELSE row[<<m, 1>>]
        /\ \A k \in Messages : k # m => at'[k] = at[k]
        /\ at'[m] = IF row[<<m, 1>>] = "running" THEN "done" ELSE "rollback"
    BY <1>1, <2>1
  <2>3. RunMoves(<<m, 1>>) /\ RequestMoves(m)
    BY <1>1, <2>1, <2>2 DEF RunMoves, RequestMoves, Ended, Open
  <2> QED
    BY <2>1, <2>2, <2>3 DEF RunMoves, RequestMoves
<1>5. CASE PublishRun(m)
  <2>1. /\ at[m] = "opened" /\ queue' = queue /\ at' = [at EXCEPT ![m] = "done"]
        /\ row' = IF row[<<m, 1>>] = "preparing" THEN [row EXCEPT ![<<m, 1>>] = "delivered"] ELSE row
    BY <1>5 DEF PublishRun, InSubmit, queueVars
  <2>2. /\ \A r \in Runs : r # <<m, 1>> => row'[r] = row[r]
        /\ row'[<<m, 1>>] = IF row[<<m, 1>>] = "preparing" THEN "delivered" ELSE row[<<m, 1>>]
        /\ \A k \in Messages : at'[k] = IF k = m THEN "done" ELSE at[k]
    BY <1>1, <2>1
  <2> QED
    BY <2>1, <2>2 DEF RunMoves, RequestMoves, SendDelivers
<1>6. CASE PublishRunFails(m)
  <2>1. /\ at[m] = "opened" /\ queue' = queue /\ row[<<m, 1>>] # "delivered"
        /\ \/ /\ row' = [row EXCEPT ![<<m, 1>>] = IF @ \in {"queued", "preparing"} THEN "failed" ELSE @]
              /\ at' = [at EXCEPT ![m] = IF row[<<m, 1>>] = "running" THEN "done" ELSE "rollback"]
           \/ row' = row /\ at' = [at EXCEPT ![m] = "done"]
    BY <1>6 DEF PublishRunFails, InSubmit, queueVars, PublishedOnce
  <2>2. CASE row' = row /\ at' = [at EXCEPT ![m] = "done"]
    BY <1>1, <2>1, <2>2 DEF RunMoves, RequestMoves
  <2>3. CASE /\ row' = [row EXCEPT ![<<m, 1>>] = IF @ \in {"queued", "preparing"} THEN "failed" ELSE @]
             /\ at' = [at EXCEPT ![m] = IF row[<<m, 1>>] = "running" THEN "done" ELSE "rollback"]
    <3>1. /\ \A r \in Runs : r # <<m, 1>> => row'[r] = row[r]
          /\ row'[<<m, 1>>] = IF row[<<m, 1>>] \in {"queued", "preparing"} THEN "failed"
                              ELSE row[<<m, 1>>]
          /\ \A k \in Messages : k # m => at'[k] = at[k]
          /\ at'[m] = IF row[<<m, 1>>] = "running" THEN "done" ELSE "rollback"
      BY <1>1, <2>3
    <3>2. RunMoves(<<m, 1>>) /\ RequestMoves(m)
      BY <1>1, <2>1, <3>1 DEF RunMoves, RequestMoves, Ended, Open
    <3> QED
      BY <2>1, <3>1, <3>2 DEF RunMoves, RequestMoves
  <2> QED
    BY <2>1, <2>2, <2>3
<1>7. CASE Rollback(m) \/ SenderCrash(m)
  <2>1. /\ at[m] \in {"gated", "opened", "rollback"} /\ queue' = queue /\ row' = row
        /\ at' = [at EXCEPT ![m] = "done"]
    BY <1>7 DEF Rollback, SenderCrash, InSubmit, queueVars, rowVars
  <2> QED
    BY <1>1, <2>1 DEF RunMoves, RequestMoves
<1>8. CASE PublishRunStopped(m)
  <2>1. /\ at[m] = "opened" /\ queue' = queue /\ row' = row /\ row[<<m, 1>>] = "stopped"
        /\ at' = [at EXCEPT ![m] = "rollback"]
    BY <1>8 DEF PublishRunStopped, InSubmit, queueVars, rowVars
  <2> QED
    BY <1>1, <2>1 DEF RunMoves, RequestMoves, Open
<1> QED
  BY <1>2, <1>3, <1>4, <1>5, <1>6, <1>7, <1>8 DEF SendStep, SendFault

\* So they do in every step that is not a drain's.
LEMMA OthersRuns ==
    ASSUME IInv, PublishedOnce, Others
    PROVE  /\ \A r \in Runs : RunMoves(r)
           /\ \A k \in Messages : RequestMoves(k)
           /\ \A k \in ToSet(queue') : k \in ToSet(queue) \/ at[k] = "new"
           /\ ToSet(queue) \subseteq ToSet(queue')
<1>1. row \in [Runs -> {"none"} \cup Open \cup Terminal]
  BY DEF IInv, TypeOK
<1>2. CASE \E m \in Messages : Submit(m) \/ QueueReport(m) \/ SendStep(m) \/ SendFault(m)
  BY <1>2, SendRuns
<1>3. CASE /\ at' = at /\ queue' = queue
           /\ \A r \in Runs : row'[r] = row[r] \/ Taken(r) \/ (Ended(r) /\ row'[r] # "none")
  BY <1>3 DEF RunMoves, RequestMoves
<1>4. CASE \/ \E m \in Messages : HandBack(m) \/ HandBackLost(m)
           \/ ClaimLapses \/ ClaimLapsesEarly \/ ReleaseOnCompletion \/ HandlerCrash
           \/ SweeperDrains \/ reapStuckSessions
           \/ StatusStep \/ \E r \in Runs : Report(r)
  BY <1>3, <1>4, StatusKeeps DEF HandBack, HandBackLost, ClaimLapses, ClaimLapsesEarly, ReleaseOnCompletion,
     HandlerCrash, SweeperDrains, reapStuckSessions, Report, Outside, rowVars, queueVars
<1>5. CASE \E e \in events : BeginCompletion(e)
  <2> PICK e \in events : BeginCompletion(e)
    BY <1>5
  <2>1. /\ at' = at /\ queue' = queue
        /\ \/ row' = row
           \/ row' = [r \in Runs |-> IF r \notin RowsClosedBy(e) THEN row[r]
                                    ELSE IF Reached(r) THEN "ended" ELSE "failed"]
    BY DEF BeginCompletion, queueVars
  <2>2. /\ \A r \in RowsClosedBy(e) : row[r] \in Open /\ r[1] = e.msg
        /\ events' = events
    BY DEF RowsClosedBy, OpenRuns, RunsOf, BeginCompletion
  <2>3. \A r \in Runs : row'[r] = row[r] \/ (Ended(r) /\ row'[r] # "none")
    BY <2>1, <2>2 DEF Ended, Open
  <2> QED
    BY <1>3, <2>1, <2>3
<1>6. CASE \E r \in Runs : ClaimRun(r) \/ TakeMessage(r)
  <2> PICK r \in Runs : ClaimRun(r) \/ TakeMessage(r)
    BY <1>6
  <2>1. /\ at' = at /\ queue' = queue
        /\ \/ row[r] = "queued" /\ row' = [row EXCEPT ![r] = "running"]
           \/ r \in stream /\ row' = [row EXCEPT ![r] = IF @ \in Open THEN "running" ELSE @]
    BY DEF ClaimRun, TakeMessage, Outside, queueVars
  <2>2. \A q \in Runs : row'[q] = row[q] \/ Taken(q)
    BY <1>1, <2>1 DEF Taken
  <2> QED
    BY <1>3, <2>1, <2>2
<1>7. CASE \E r \in Runs : ReapRun(r) \/ ReapOrphanedFatRun(r)
  <2> PICK r \in Runs : ReapRun(r) \/ ReapOrphanedFatRun(r)
    BY <1>7
  <2>1. /\ at' = at /\ queue' = queue /\ row[r] \in Open
        /\ \E as \in Terminal : /\ row' = [row EXCEPT ![r] = as]
                                /\ as = "failed" => Unnamed(r[1]) \in events'
    BY DEF ReapRun, ReapOrphanedFatRun, CloseRun, Outside, queueVars, Open, Terminal
  <2>2. \A q \in Runs : row'[q] = row[q] \/ (Ended(q) /\ row'[q] # "none")
    BY <1>1, <2>1 DEF Ended, Open, Terminal, Unnamed, Event
  <2> QED
    BY <1>3, <2>1, <2>2
<1>8. CASE StopSession
  <2>1. /\ at' = at /\ queue' = queue
        /\ \A r \in Runs : row'[r] = IF row[r] = "queued" THEN "cancelled" ELSE row[r]
    BY <1>1, <1>8 DEF StopSession, Outside, queueVars
  <2>2. \A q \in Runs : row'[q] = row[q] \/ (Ended(q) /\ row'[q] # "none")
    BY <1>1, <2>1 DEF Ended, Open
  <2> QED
    BY <1>3, <2>1, <2>2
<1>9. CASE CancelUnheldRuns
  <2>1. /\ at' = at /\ queue' = queue
        /\ \A r \in Runs : row'[r] = row[r] \/ (row[r] = "preparing" /\ row'[r] = "stopped")
    BY <1>1, <1>9 DEF CancelUnheldRuns, Outside, queueVars
  <2>2. \A q \in Runs : row'[q] = row[q] \/ (Ended(q) /\ row'[q] # "none")
    BY <1>1, <2>1 DEF Ended, Open
  <2> QED
    BY <1>3, <2>1, <2>2
<1> QED
  BY <1>2, <1>4, <1>5, <1>6, <1>7, <1>8, <1>9 DEF Others

-----------------------------------------------------------------------------
(* An open run is in the hand of whoever sends it on.                      *)

\* A drain keeps its message in the queue until it has handed it off.
LEMMA DrainKeepsHand ==
    ASSUME IInv, ClaimIsHeld, QueuedIsInHand, PublishedOnce, SentOnce,
           NEW d \in Drains, DrainStep(d) \/ DrainFault(d), ~torn'
    PROVE  QueuedIsInHand' /\ PublishedOnce' /\ SentOnce'
<1>1. \A c \in Drains \ {d} : drain'[c] = drain[c]
  BY DrainFrame
<1>2. at' = at
  BY DrainFrame
<1>3. \A r \in Runs : row'[r] = row[r] \/ Opens(d, r) \/ Delivers(d, r) \/ Closes(d, r)
  BY DrainRuns
<1>4. /\ drain'[d].pc = "publish" => Opens(d, <<drain[d].msg, drain[d].run>>)
      /\ drain[d].pc = "publish" =>
            \/ /\ drain'[d].pc = "delete"
               /\ drain'[d].msg = drain[d].msg /\ drain'[d].run = drain[d].run
            \/ row'[<<drain[d].msg, drain[d].run>>] \notin Open
      /\ drain[d].pc = "delete" => drain[d].msg \notin ToSet(queue')
      /\ ToSet(queue') \subseteq ToSet(queue)
  BY DrainRuns
<1>5. \A m \in Messages, n \in Ids : <<m, n>> \in Runs
  BY EventsTyped
<1>6. /\ drain[d].pc \in Working => drain[d].msg \in Messages /\ at[drain[d].msg] = "parked"
      /\ drain[d].pc \in WithRun => drain[d].run \in Ids
  BY InHandKnown DEF IInv
<1>7. QueuedIsInHand'
  <2> SUFFICES ASSUME NEW m \in Messages, NEW n \in Ids,
                      m \in ToSet(queue'), row'[<<m, n>>] \in Open
               PROVE  \E c \in Drains : /\ drain'[c].msg = m /\ drain'[c].run = n
                                        /\ drain'[c].pc \in {"publish", "delete"}
    BY DEF QueuedIsInHand
  <2>1. CASE row[<<m, n>>] \in Open
    <3>1. PICK c \in Drains : /\ drain[c].msg = m /\ drain[c].run = n
                              /\ drain[c].pc \in {"publish", "delete"}
      BY <1>4, <2>1 DEF QueuedIsInHand
    <3>2. CASE c = d
      BY <1>4, <3>1, <3>2
    <3>3. CASE c # d
      BY <1>1, <3>1, <3>3
    <3> QED
      BY <3>2, <3>3
  <2>2. CASE row[<<m, n>>] \notin Open
    <3>1. Opens(d, <<m, n>>)
      BY <1>3, <1>5, <2>2 DEF Delivers, Closes, Open
    <3> QED
      BY <3>1 DEF Opens
  <2> QED
    BY <2>1, <2>2
<1>8. \A c \in Drains : drain'[c].pc = "publish" => row'[<<drain'[c].msg, drain'[c].run>>] # "delivered"
  <2> SUFFICES ASSUME NEW c \in Drains, drain'[c].pc = "publish"
               PROVE  row'[<<drain'[c].msg, drain'[c].run>>] # "delivered"
    OBVIOUS
  <2>1. CASE c = d
    BY <1>4, <2>1 DEF Opens
  <2>2. CASE c # d
    <3>1. drain'[c] = drain[c] /\ drain[c].pc = "publish"
      BY <1>1, <2>2
    <3>2. drain[c].msg \in Messages /\ drain[c].run \in Ids
      BY <3>1, InHandKnown DEF IInv, Working, WithRun
    <3>3. drain[d].pc # "publish"
      BY <2>2, <3>1, OneDrain DEF Past, Working
    <3> QED
      BY <1>3, <1>5, <3>1, <3>2, <3>3 DEF PublishedOnce, Opens, Delivers, Closes, Open
  <2> QED
    BY <2>1, <2>2
<1>9. \A m \in Messages : at'[m] = "opened" => row'[<<m, 1>>] # "delivered"
  <2> SUFFICES ASSUME NEW m \in Messages, at[m] = "opened" PROVE row'[<<m, 1>>] # "delivered"
    BY <1>2
  <2>1. ~Opens(d, <<m, 1>>) /\ ~Delivers(d, <<m, 1>>) /\ ~Closes(d, <<m, 1>>)
    BY <1>6 DEF Opens, Delivers, Closes, Working
  <2> QED
    BY <1>3, <1>5, <2>1, Basics DEF PublishedOnce
<1>10. SentOnce'
  <2> SUFFICES ASSUME NEW m \in Messages, NEW n \in Ids
               PROVE  /\ at[m] # "parked" /\ n # 1 => row'[<<m, n>>] = "none"
                      /\ at[m] = "rollback" => row'[<<m, n>>] \notin Open
    BY <1>2 DEF SentOnce
  <2>1. at[m] # "parked" => row'[<<m, n>>] = row[<<m, n>>]
    BY <1>3, <1>5, <1>6 DEF Opens, Delivers, Closes, Working
  <2> QED
    BY <2>1 DEF SentOnce
<1> QED
  BY <1>7, <1>8, <1>9, <1>10 DEF PublishedOnce

\* Nor does another step come between a drain and the run it has in hand.
LEMMA OthersKeepHand ==
    ASSUME IInv, ClaimIsHeld, QueuedIsInHand, PublishedOnce, SentOnce, Others, ~torn'
    PROVE  QueuedIsInHand' /\ PublishedOnce' /\ SentOnce'
<1>1. \A c \in Drains : drain'[c] = drain[c] \/ (drain[c].pc = "off" /\ drain'[c].pc = "claim")
  BY OthersKeepClaim
<1>2. \A r \in Runs : RunMoves(r)
  BY OthersRuns
<1>3. \A m \in Messages : RequestMoves(m)
  BY OthersRuns
<1>4. \A m \in ToSet(queue') : m \in ToSet(queue) \/ at[m] = "new"
  BY OthersRuns
<1>5. \A m \in Messages, n \in Ids : <<m, n>> \in Runs /\ <<m, n>>[1] = m /\ <<m, n>>[2] = n
  BY EventsTyped
<1>6. \A m \in Messages : m \in ToSet(queue) => at[m] = "parked"
  BY DEF IInv, QueueOK
<1>7. \A m \in Messages, n \in Ids : at[m] \in {"new", "gated"} => row[<<m, n>>] = "none"
  BY DEF IInv, QueueOK
<1>8. QueuedIsInHand'
  <2> SUFFICES ASSUME NEW m \in Messages, NEW n \in Ids,
                      m \in ToSet(queue'), row'[<<m, n>>] \in Open
               PROVE  \E c \in Drains : /\ drain'[c].msg = m /\ drain'[c].run = n
                                        /\ drain'[c].pc \in {"publish", "delete"}
    BY DEF QueuedIsInHand
  <2>1. RunMoves(<<m, n>>) /\ at[m] \in {"parked", "new"}
    BY <1>2, <1>4, <1>5, <1>6
  <2>2. row[<<m, n>>] \in Open
    BY <1>5, <2>1 DEF RunMoves, Sends, SendDelivers, Taken, Ended, Open
  <2>3. m \in ToSet(queue)
    BY <1>4, <1>7, <2>2 DEF Open
  <2>4. PICK c \in Drains : /\ drain[c].msg = m /\ drain[c].run = n
                            /\ drain[c].pc \in {"publish", "delete"}
    BY <2>2, <2>3 DEF QueuedIsInHand
  <2> QED
    BY <1>1, <2>4
<1>9. \A c \in Drains : drain'[c].pc = "publish" => row'[<<drain'[c].msg, drain'[c].run>>] # "delivered"
  <2> SUFFICES ASSUME NEW c \in Drains, drain'[c].pc = "publish"
               PROVE  row'[<<drain'[c].msg, drain'[c].run>>] # "delivered"
    OBVIOUS
  <2> DEFINE m == drain[c].msg
             n == drain[c].run
  <2>1. drain'[c] = drain[c] /\ drain[c].pc = "publish"
    BY <1>1
  <2>2. m \in Messages /\ n \in Ids /\ at[m] = "parked"
    BY <2>1, InHandKnown DEF IInv, Working, WithRun
  <2>3. RunMoves(<<m, n>>) /\ row[<<m, n>>] # "delivered"
    BY <1>2, <1>5, <2>1, <2>2 DEF PublishedOnce
  <2> QED
    BY <1>5, <2>1, <2>2, <2>3 DEF RunMoves, Sends, SendDelivers, Taken, Ended, Open
<1>10. \A m \in Messages : at'[m] = "opened" => row'[<<m, 1>>] # "delivered"
  <2> SUFFICES ASSUME NEW m \in Messages, at'[m] = "opened" PROVE row'[<<m, 1>>] # "delivered"
    OBVIOUS
  <2>1. RequestMoves(m) /\ RunMoves(<<m, 1>>) /\ <<m, 1>>[1] = m
    BY <1>2, <1>3, <1>5, Basics
  <2> QED
    BY <2>1 DEF PublishedOnce, RequestMoves, RunMoves, Sends, SendDelivers, Taken, Ended, Open
<1>11. SentOnce'
  <2> SUFFICES ASSUME NEW m \in Messages, NEW n \in Ids
               PROVE  /\ at'[m] # "parked" /\ n # 1 => row'[<<m, n>>] = "none"
                      /\ at'[m] = "rollback" => row'[<<m, n>>] \notin Open
    BY DEF SentOnce
  <2>1. RequestMoves(m) /\ RunMoves(<<m, n>>) /\ <<m, n>>[1] = m /\ <<m, n>>[2] = n
    BY <1>2, <1>3, <1>5
  <2>2. at'[m] # "parked" => at[m] # "parked"
    BY <2>1 DEF RequestMoves
  <2>3. at'[m] # "parked" /\ n # 1 => row'[<<m, n>>] = "none"
    BY <2>1, <2>2 DEF SentOnce, RunMoves, Sends, SendDelivers, Taken, Ended, Open
  <2>4. at'[m] = "rollback" => row'[<<m, n>>] \notin Open
    BY <2>1, <2>3 DEF SentOnce, RequestMoves, RunMoves, Sends, SendDelivers, Taken, Ended, Open
  <2> QED
    BY <2>3, <2>4
<1> QED
  BY <1>8, <1>9, <1>10, <1>11 DEF PublishedOnce

-----------------------------------------------------------------------------
(* A turn that was reported is not opened again.                           *)

\* A drain reserves an id for a message that has none, and gives one back with the
\* queue row or when nothing was reported of the turn.
LEMMA DrainReserves ==
    ASSUME IInv, NEW d \in Drains, DrainStep(d) \/ DrainFault(d), ~torn'
    PROVE  /\ \A k \in Messages :
                 \/ reserved'[k] = reserved[k]
                 \/ reserved'[k] = 0 /\ k \notin ToSet(queue')
                 \/ reserved'[k] = 0 /\ \A e \in events : e.msg # k
                 \/ reserved[k] = 0 /\ k \in ToSet(queue)
           /\ \A k \in Messages, n \in Ids : InHand(k, n)' => InHand(k, n) \/ reserved'[k] = n
<1> DEFINE m == drain[d].msg
<1>1. /\ reserved \in [Messages -> Ids \cup {0}]
      /\ queue \in Seq(Messages) /\ IsInjective(queue)
      /\ row \in [Runs -> {"none"} \cup Open \cup Terminal]
      /\ drain[d].pc \in Working => m \in Messages
      /\ drain[d].pc \in WithRun => drain[d].run \in Ids
  BY InHandKnown DEF IInv, TypeOK
<1>2. CASE reserveDispatchTaskId(d) /\ m \in ToSet(queue)
  <2>1. /\ reserved[m] # 0 => reserved' = reserved
        /\ reserved' = [reserved EXCEPT ![m] = reserved'[m]]
        /\ m \in Messages
    BY <1>2, ReserveDoes
  <2>2. \A k \in Messages, n \in Ids : InHand(k, n)' => InHand(k, n) \/ (k = m /\ n = reserved'[k])
    BY <1>2, ReserveDoes
  <2>3. \A k \in Messages : k # m => reserved'[k] = reserved[k]
    BY <1>1, <2>1
  <2> QED
    BY <1>2, <2>1, <2>2, <2>3
<1>3. CASE ~(reserveDispatchTaskId(d) /\ m \in ToSet(queue))
  <2>1. NoneNew
    BY <1>3, DrainKeepsDrains
  <2>2. ASSUME NEW k \in Messages
        PROVE  \/ reserved'[k] = reserved[k]
               \/ reserved'[k] = 0 /\ k \notin ToSet(queue')
               \/ reserved'[k] = 0 /\ \A e \in events : e.msg # k
    <3>1. CASE DropPending(d) \/ DeletePending(d)
      <4>1. DeleteRow(m) /\ m \in Messages
        BY <1>1, <3>1 DEF DropPending, DeletePending, Tear, Working
      <4>2. ToSet(queue') = ToSet(queue) \ {m}
        BY <1>1, <4>1, DeleteDoes
      <4> QED
        BY <1>1, <4>1, <4>2 DEF DeleteRow
    <3>2. CASE PrepareHandoff(d)
      <4>1. drain[d].pc = "classify"
        BY <3>2 DEF PrepareHandoff
      <4>2. m \in Messages /\ drain[d].run \in Ids
        BY <1>1, <4>1 DEF Working, WithRun
      <4>3. reserved' = reserved \/ (reserved' = [reserved EXCEPT ![m] = 0]
                /\ recordedHandoffState(m, drain[d].run) = "retryable")
        BY <3>2 DEF PrepareHandoff
      <4>4. recordedHandoffState(m, drain[d].run) = "retryable" => \A e \in events : e.msg # m
        <5>1. recordedHandoffState(m, drain[d].run) = "retryable" =>
                row[<<m, drain[d].run>>] \in {"failed", "unconfirmed"}
          BY <1>1, <4>2, HandoffKnown
        <5> QED
          BY <5>1 DEF recordedHandoffState
      <4> QED
        BY <1>1, <4>2, <4>3, <4>4
    <3>3. CASE ~DropPending(d) /\ ~DeletePending(d) /\ ~PrepareHandoff(d)
      <4>1. reserved' = reserved
        BY <1>3, <3>3 DEF DrainStep, DrainFault, takeClaim, ReadQueue, CredentialsUnreadable,
           BindRefused, reserveDispatchTaskId, OpenPending, RejectPending, DiscardPending,
           PublishPending, PublishPendingStopped, GatePending, RefusePending, NameRefusal,
           AnnounceRefusal, ReleaseDrain, Recheck, OpenPendingFails, PublishPendingFails,
           AnnounceRefusalFails, DrainCrash, queueVars
      <4> QED
        BY <4>1
    <3> QED
      BY <3>1, <3>2, <3>3
  <2> QED
    BY <2>1, <2>2 DEF NoneNew
<1> QED
  BY <1>2, <1>3

\* A drain reports a turn it gives up on, and then drops its queue row.
LEMMA DrainReports ==
    ASSUME IInv, NEW d \in Drains, DrainStep(d) \/ DrainFault(d), ~torn'
    PROVE  /\ events \subseteq events'
           /\ \A e \in events' \ events :
                 /\ e.msg = drain[d].msg /\ drain'[d].msg = drain[d].msg
                 /\ drain[d].pc \in {"bind", "announce"} /\ drain'[d].pc = "drop"
           /\ drain[d].pc = "drop" =>
                 /\ drain[d].msg \notin ToSet(queue') /\ reserved'[drain[d].msg] = 0
                 /\ drain'[d].pc = "release"
           /\ handler' = handler \/ handler'.pc = "free"
<1> DEFINE m == drain[d].msg
<1>1. /\ DrainOK /\ drain[d] \in DrainType /\ reserved \in [Messages -> Ids \cup {0}]
      /\ queue \in Seq(Messages) /\ IsInjective(queue)
      /\ drain[d].pc \in Working => m \in Messages
  BY InHandKnown DEF IInv, TypeOK
<1>2. \A pc : Go(d, pc) => /\ drain'[d].pc = pc
                           /\ pc # "release" => drain'[d].msg = m
  BY <1>1, GoGives
<1>3. CASE CredentialsUnreadable(d) \/ AnnounceRefusal(d)
  BY <1>2, <1>3 DEF CredentialsUnreadable, AnnounceRefusal, Refusal, InDrain
<1>4. CASE BindRefused(d)
  <2>1. drain[d].pc = "bind"
    BY <1>4 DEF BindRefused
  <2>2. handler' = handler \/ handler'.pc = "free"
    <3> DEFINE stays == m \in ToSet(queue)
               final == attempts[m] + 1 >= BIND_MAX_ATTEMPTS /\ RunsOf(m) \cap OpenRuns = {}
    <3>1. handler' = handler \/ (stays /\ Throw(d))
      BY <1>4 DEF BindRefused
    <3> QED
      BY <3>1 DEF Throw, NoEvent
  <2>3. events' = events \/ (events' = events \cup {Refusal(m, Fresh(m))} /\ Go(d, "drop"))
    BY <1>4 DEF BindRefused
  <2> QED
    BY <1>2, <2>1, <2>2, <2>3 DEF Refusal
<1>5. CASE DropPending(d)
  <2>1. /\ drain[d].pc = "drop" /\ DeleteRow(m) /\ Go(d, "release")
        /\ events' = events /\ handler' = handler
    BY <1>5 DEF DropPending, Tear, InDrain
  <2>2. m \in Messages
    BY <1>1, <2>1 DEF Working
  <2>3. m \notin ToSet(queue') /\ reserved'[m] = 0
    BY <1>1, <2>1, <2>2, DeleteDoes DEF DeleteRow
  <2> QED
    BY <1>2, <2>1, <2>3
<1>6. CASE ~CredentialsUnreadable(d) /\ ~AnnounceRefusal(d) /\ ~BindRefused(d) /\ ~DropPending(d)
  BY <1>6 DEF DrainStep, DrainFault, takeClaim, ReadQueue, reserveDispatchTaskId, PrepareHandoff,
     OpenPending, RejectPending, DiscardPending, PublishPending, PublishPendingStopped,
     DeletePending, GatePending, RefusePending, NameRefusal, ReleaseDrain, Recheck,
     OpenPendingFails, PublishPendingFails, AnnounceRefusalFails, DrainCrash, Tear, InDrain,
     Return, Throw, NoEvent, eventVars
<1> QED
  BY <1>3, <1>4, <1>5, <1>6

\* A drain leaves over what is reported as over.
LEMMA DrainKeepsOver ==
    ASSUME IInv, ClaimIsHeld, HoldsItsRow, QueuedIsInHand, PublishedOnce, ReportedIsOver,
           NEW d \in Drains, DrainStep(d) \/ DrainFault(d), ~torn'
    PROVE  ReportedIsOver'
<1>1. at' = at /\ \A c \in Drains \ {d} : drain'[c] = drain[c]
  BY DrainFrame
<1>2. \A r \in Runs : row'[r] = row[r] \/ Opens(d, r) \/ Delivers(d, r) \/ Closes(d, r)
  BY DrainRuns
<1>3. ToSet(queue') \subseteq ToSet(queue)
  BY DrainRuns
<1>4. \A m \in Messages, n \in Ids : <<m, n>> \in Runs /\ <<m, n>>[1] = m /\ <<m, n>>[2] = n
  BY EventsTyped
<1>5. /\ drain[d].pc \in Working => drain[d].msg \in Messages /\ at[drain[d].msg] = "parked"
      /\ \A e \in events : e.msg \in Messages
  BY InHandKnown DEF IInv, TypeOK
<1>6. ASSUME NEW e \in events PROVE Over(e)'
  <2> DEFINE m == e.msg
  <2>1. Over(e) /\ m \in Messages
    BY <1>5 DEF ReportedIsOver
  <2>2. at'[m] \notin {"new", "gated"}
    BY <1>1, <2>1 DEF Over
  <2>3. ASSUME NEW n \in Ids, row'[<<m, n>>] \in Open
        PROVE  row'[<<m, n>>] = "running" /\ n = e.run
    <3>1. ~Opens(d, <<m, n>>)
      <4> SUFFICES ASSUME Opens(d, <<m, n>>) PROVE FALSE
        OBVIOUS
      <4>1. drain[d].pc = "open" /\ drain[d].msg = m /\ drain[d].run = n /\ row[<<m, n>>] = "none"
        BY DEF Opens
      <4>2. MayOpen(m, n)
        BY <4>1 DEF MayOpen, InHand
      <4>3. PICK c \in Drains : drain[c].msg = m /\ drain[c].pc = "drop"
        BY <2>1, <4>1, <4>2 DEF Over
      <4>4. c = d
        BY <4>1, <4>3, OneDrain DEF Past, Working
      <4> QED
        BY <4>1, <4>3, <4>4
    <3>2. row'[<<m, n>>] = row[<<m, n>>] \/ Delivers(d, <<m, n>>)
      BY <1>2, <1>4, <2>1, <2>3, <3>1 DEF Closes
    <3> QED
      BY <2>1, <2>3, <3>2 DEF Over, Delivers, Open
  <2>4. \/ \E c \in Drains : drain'[c].msg = m /\ drain'[c].pc = "drop"
        \/ /\ m \in ToSet(queue') => reserved'[m] # 0
           /\ \A n \in Ids : row'[<<m, n>>] = "none" => ~MayOpen(m, n)'
    <3>1. CASE \E c \in Drains : drain[c].msg = m /\ drain[c].pc = "drop"
      <4> PICK c \in Drains : drain[c].msg = m /\ drain[c].pc = "drop"
        BY <3>1
      <4>1. CASE c # d
        BY <1>1, <4>1
      <4>2. CASE c = d
        <5>1. m \notin ToSet(queue') /\ reserved'[m] = 0 /\ drain'[d].pc = "release"
          BY <4>2, DrainReports
        <5>2. \A b \in Drains \ {d} : drain[b].pc \notin {"classify", "open"}
          BY <4>2, OneDrain DEF Past, Working
        <5>3. \A n \in Ids : ~InHand(m, n)'
          BY <1>1, <5>1, <5>2 DEF InHand
        <5> QED
          BY <5>1, <5>3, Basics DEF MayOpen
      <4> QED
        BY <4>1, <4>2
    <3>2. CASE /\ m \in ToSet(queue) => reserved[m] # 0
               /\ \A n \in Ids : row[<<m, n>>] = "none" => ~MayOpen(m, n)
      <4>1. \/ reserved'[m] = reserved[m]
            \/ reserved'[m] = 0 /\ m \notin ToSet(queue')
        BY <2>1, <3>2, DrainReserves
      <4>2. ASSUME NEW n \in Ids, row'[<<m, n>>] = "none"
            PROVE  ~MayOpen(m, n)'
        <5>1. row[<<m, n>>] = "none"
          BY <1>2, <1>4, <2>1, <4>2 DEF Over, Opens, Delivers, Closes, Open
        <5>2. reserved[m] # n /\ ~InHand(m, n)
          BY <3>2, <5>1 DEF MayOpen
        <5>3. reserved'[m] # n
          BY <4>1, <5>2, Basics
        <5>4. InHand(m, n)' => InHand(m, n) \/ reserved'[m] = n
          BY <2>1, DrainReserves
        <5> QED
          BY <5>2, <5>3, <5>4 DEF MayOpen
      <4> QED
        BY <1>3, <3>2, <4>1, <4>2
    <3> QED
      BY <2>1, <3>1, <3>2 DEF Over
  <2> QED
    BY <2>2, <2>3, <2>4 DEF Over
<1>7. ASSUME NEW e \in events' \ events PROVE Over(e)'
  <2>1. /\ e.msg = drain[d].msg /\ drain'[d].msg = drain[d].msg
        /\ drain[d].pc \in {"bind", "announce"} /\ drain'[d].pc = "drop"
    BY <1>7, DrainReports
  <2>2. e.msg \in Messages /\ at'[e.msg] = "parked" /\ e.msg \in ToSet(queue)
    BY <1>1, <1>5, <2>1 DEF HoldsItsRow, Working
  <2>3. ASSUME NEW n \in Ids, row'[<<e.msg, n>>] \in Open
        PROVE  FALSE
    <3>1. row[<<e.msg, n>>] \in Open
      BY <1>2, <1>4, <2>1, <2>2, <2>3 DEF Opens, Delivers, Closes
    <3>2. PICK c \in Drains : drain[c].pc \in {"publish", "delete"}
      BY <2>2, <3>1 DEF QueuedIsInHand
    <3>3. c = d
      BY <2>1, <3>2, OneDrain DEF Past, Working
    <3> QED
      BY <2>1, <3>2, <3>3
  <2> QED
    BY <2>1, <2>2, <2>3 DEF Over
<1> QED
  BY <1>6, <1>7 DEF ReportedIsOver

\* What the other steps report is a run they end or that ends by itself: the only one
\* its message had.
LEMMA OthersReport ==
    ASSUME IInv, Others
    PROVE  /\ events \subseteq events' /\ reserved' = reserved
           /\ \A e \in events' \ events : \E r \in Runs :
                 /\ e.msg = r[1] /\ row[r] \in Open
                 /\ \/ row'[r] = "running" /\ e.run = r[2]
                    \/ row'[r] \in Terminal
           /\ \A m \in owed' \ owed : \E r \in Runs : r[1] = m /\ row[r] \in Open
<1>1. row \in [Runs -> {"none"} \cup Open \cup Terminal]
  BY DEF IInv, TypeOK
<1>2. CASE /\ events' = events /\ reserved' = reserved /\ owed' \subseteq owed
  BY <1>2
<1>3. CASE \E m \in Messages : Submit(m) \/ QueueReport(m) \/ SendStep(m) \/ SendFault(m)
  BY <1>2, <1>3 DEF Submit, QueueReport, SendStep, SendFault, OpenRun, DiscardRun, PublishRun,
     PublishRunStopped, Rollback, PublishRunFails, SenderCrash, InSubmit, queueVars, eventVars
<1>4. CASE \/ \E m \in Messages : HandBack(m) \/ HandBackLost(m)
           \/ ClaimLapses \/ ClaimLapsesEarly \/ ReleaseOnCompletion \/ HandlerCrash
           \/ SweeperDrains \/ reapStuckSessions
           \/ \E e \in events : BeginCompletion(e)
           \/ \E r \in Runs : ClaimRun(r) \/ TakeMessage(r)
           \/ CancelUnheldRuns \/ StatusStep
  BY <1>2, <1>4, StatusKeeps DEF CancelUnheldRuns, HandBack, HandBackLost, ClaimLapses, ClaimLapsesEarly, ReleaseOnCompletion,
     HandlerCrash, SweeperDrains, reapStuckSessions, BeginCompletion, ClaimRun, TakeMessage,
     Outside, queueVars, eventVars
<1>5. CASE \E r \in Runs : Report(r)
  <2> PICK r \in Runs : Report(r)
    BY <1>5
  <2>1. /\ events' = events \cup {Event(r)} /\ reserved' = reserved /\ owed' = owed
        /\ row[r] = "running" /\ row' = row
    BY DEF Report, Outside, queueVars, rowVars
  <2> QED
    BY <2>1 DEF Event, Open
<1>6. CASE \E r \in Runs : ReapRun(r)
  <2> PICK r \in Runs : ReapRun(r)
    BY <1>6
  <2>1. /\ events' = events \cup {Unnamed(r[1])} /\ reserved' = reserved /\ owed' = owed \cup {r[1]}
        /\ row[r] \in {"running", "queued"}
        /\ row' = [row EXCEPT ![r] = IF row[r] = "running" THEN "ended" ELSE "failed"]
    BY DEF ReapRun, CloseRun, Outside, queueVars
  <2>2. row'[r] \in Terminal /\ row[r] \in Open
    BY <1>1, <2>1 DEF Terminal, Open
  <2> QED
    BY <2>1, <2>2 DEF Unnamed, Event
<1>7. CASE \E r \in Runs : ReapOrphanedFatRun(r)
  <2> PICK r \in Runs : ReapOrphanedFatRun(r)
    BY <1>7
  <2>1. /\ events' = events /\ reserved' = reserved /\ owed' = owed \cup {r[1]}
        /\ row[r] \in Open
    BY DEF ReapOrphanedFatRun, CloseRun, Outside, queueVars, Open
  <2> QED
    BY <2>1
<1>8. CASE StopSession
  <2> DEFINE unstarted == {r \in Runs : row[r] = "queued"}
  <2>1. /\ events' = events \cup {Event(r) : r \in unstarted} /\ reserved' = reserved
        /\ owed' = owed \cup {r[1] : r \in unstarted}
        /\ row' = [r \in Runs |-> IF r \in unstarted THEN "cancelled" ELSE row[r]]
    BY <1>8 DEF StopSession, Outside, queueVars
  <2>2. \A r \in unstarted : r \in Runs /\ row'[r] \in Terminal /\ row[r] \in Open
    BY <2>1 DEF Terminal, Open
  <2> HIDE DEF unstarted
  <2> QED
    BY <2>1, <2>2 DEF Event
<1> QED
  BY <1>3, <1>4, <1>5, <1>6, <1>7, <1>8 DEF Others

\* The other steps leave over what is reported as over.
LEMMA OthersKeepOver ==
    ASSUME IInv, ClaimIsHeld, PublishedOnce, ReportedIsOver, Others, ~torn'
    PROVE  ReportedIsOver'
<1>1. \A c \in Drains : drain'[c] = drain[c] \/ (drain[c].pc = "off" /\ drain'[c].pc = "claim")
  BY OthersKeepClaim
<1>2. \A r \in Runs : RunMoves(r)
  BY OthersRuns
<1>3. \A m \in Messages : RequestMoves(m)
  BY OthersRuns
<1>4. \A m \in ToSet(queue') : m \in ToSet(queue) \/ at[m] = "new"
  BY OthersRuns
<1>5. \A m \in Messages, n \in Ids : <<m, n>> \in Runs /\ <<m, n>>[1] = m /\ <<m, n>>[2] = n
  BY EventsTyped
<1>6. \A m \in Messages, n \in Ids : MayOpen(m, n)' => MayOpen(m, n)
  <2>1. reserved' = reserved
    BY OthersReport
  <2> QED
    BY <1>1, <2>1 DEF MayOpen, InHand
<1>7. ASSUME NEW m \in Messages, at[m] \notin {"new", "gated"}
      PROVE  /\ at'[m] \notin {"new", "gated"} /\ reserved'[m] = reserved[m]
             /\ m \in ToSet(queue') => m \in ToSet(queue)
             /\ \A n \in Ids : /\ row'[<<m, n>>] \in Open => row[<<m, n>>] \in Open
                               /\ row'[<<m, n>>] = "none" => row[<<m, n>>] \in {"none", "queued"}
                               /\ row'[<<m, n>>] \in {"queued", "preparing"} =>
                                     row[<<m, n>>] = row'[<<m, n>>]
                               /\ row'[<<m, n>>] = "delivered" =>
                                     row[<<m, n>>] \in {"preparing", "delivered"}
  <2>1. RequestMoves(m) /\ reserved' = reserved
    BY <1>3, OthersReport
  <2>2. ASSUME NEW n \in Ids
        PROVE  /\ row'[<<m, n>>] \in Open => row[<<m, n>>] \in Open
               /\ row'[<<m, n>>] = "none" => row[<<m, n>>] \in {"none", "queued"}
               /\ row'[<<m, n>>] \in {"queued", "preparing"} => row[<<m, n>>] = row'[<<m, n>>]
               /\ row'[<<m, n>>] = "delivered" => row[<<m, n>>] \in {"preparing", "delivered"}
    <3>1. RunMoves(<<m, n>>) /\ <<m, n>>[1] = m
      BY <1>2, <1>5
    <3> QED
      BY <1>7, <3>1 DEF RunMoves, Sends, SendDelivers, Taken, Ended, Open
  <2> QED
    BY <1>4, <1>7, <2>1, <2>2 DEF RequestMoves
<1>8. ASSUME NEW e \in events PROVE Over(e)'
  <2> DEFINE m == e.msg
  <2>1. Over(e) /\ m \in Messages /\ at[m] \notin {"new", "gated"}
    BY DEF ReportedIsOver, IInv, TypeOK, Over
  <2>2. ASSUME NEW n \in Ids, row'[<<m, n>>] \in Open
        PROVE  row'[<<m, n>>] = "running" /\ n = e.run
    <3>1. row[<<m, n>>] = "running" /\ n = e.run
      BY <1>7, <2>1, <2>2 DEF Over
    <3> QED
      BY <1>7, <2>1, <2>2, <3>1 DEF Open
  <2>3. \/ \E c \in Drains : drain'[c].msg = m /\ drain'[c].pc = "drop"
        \/ /\ m \in ToSet(queue') => reserved'[m] # 0
           /\ \A n \in Ids : row'[<<m, n>>] = "none" => ~MayOpen(m, n)'
    <3>1. CASE \E c \in Drains : drain[c].msg = m /\ drain[c].pc = "drop"
      BY <1>1, <3>1
    <3>2. CASE /\ m \in ToSet(queue) => reserved[m] # 0
               /\ \A n \in Ids : row[<<m, n>>] = "none" => ~MayOpen(m, n)
      <4>1. \A n \in Ids : row[<<m, n>>] # "queued"
        BY <2>1 DEF Over, Open
      <4> QED
        BY <1>6, <1>7, <2>1, <3>2, <4>1
    <3> QED
      BY <2>1, <3>1, <3>2 DEF Over
  <2> QED
    BY <1>7, <2>1, <2>2, <2>3 DEF Over
<1>9. ASSUME NEW e \in events' \ events PROVE Over(e)'
  <2>1. PICK r \in Runs : /\ e.msg = r[1] /\ row[r] \in Open
                          /\ \/ row'[r] = "running" /\ e.run = r[2]
                             \/ row'[r] \in Terminal
    BY <1>9, OthersReport
  <2> DEFINE m == r[1]
             k == r[2]
  <2>2. m \in Messages /\ k \in Ids /\ r = <<m, k>>
    BY DEF Runs
  <2>3. at[m] \notin {"new", "gated"} /\ Candidate(m, k)
    BY <2>1, <2>2 DEF IInv, QueueOK, Open, Candidate
  <2>4. ASSUME NEW n \in Ids, row'[<<m, n>>] \in Open
        PROVE  row'[<<m, n>>] = "running" /\ n = e.run
    <3>1. Candidate(m, n)
      BY <1>7, <2>2, <2>3, <2>4 DEF Candidate
    <3>2. n = k
      BY <2>2, <2>3, <3>1 DEF IInv, OneCandidate
    <3> QED
      BY <2>1, <2>2, <2>4, <3>2 DEF Open, Terminal
  <2>5. m \in ToSet(queue') => reserved'[m] # 0
    BY <1>7, <2>2, <2>3 DEF IInv, OneCandidate
  <2>6. ASSUME NEW n \in Ids, row'[<<m, n>>] = "none", MayOpen(m, n)'
        PROVE  FALSE
    <3>1. MayOpen(m, n) /\ row[<<m, n>>] \in {"none", "queued"}
      BY <1>6, <1>7, <2>2, <2>3, <2>6
    <3>2. Candidate(m, n)
      BY <3>1 DEF Candidate, Open
    <3>3. n = k
      BY <2>2, <2>3, <3>2 DEF IInv, OneCandidate
    <3> QED
      BY <2>1, <2>2, <2>6, <3>3 DEF Terminal
  <2> QED
    BY <1>7, <2>1, <2>2, <2>3, <2>4, <2>5, <2>6 DEF Over
<1> QED
  BY <1>8, <1>9 DEF ReportedIsOver

\* The completion that releases the gate has closed its run, and nobody opens another.
LEMMA ReleasedStaysOver ==
    ASSUME IInv, HandlerOK', ReportedIsOver, ReportedIsOver', ReleasedIsOver, PublishedOnce, ~torn',
           Others \/ \E d \in Drains : DrainStep(d) \/ DrainFault(d)
    PROVE  ReleasedIsOver'
<1> SUFFICES ASSUME handler'.pc = "release", NEW n \in Ids, row'[<<handler'.event.msg, n>>] \in Open
             PROVE  FALSE
  BY DEF ReleasedIsOver
<1> DEFINE e == handler'.event
           m == e.msg
<1>1. row'[<<m, n>>] = "running" /\ n = e.run /\ e \in events'
  BY DEF HandlerOK, ReportedIsOver, Over
<1>2. CASE handler' = handler
  <2>1. e \in events /\ m \in Messages /\ <<m, n>> \in Runs /\ <<m, n>>[1] = m
    BY <1>2, EventsTyped DEF IInv, HandlerOK, TypeOK
  <2>2. row[<<m, n>>] \notin Open
    BY <1>2 DEF ReleasedIsOver
  <2>3. CASE Others
    <3>1. RunMoves(<<m, n>>)
      BY <2>1, <2>3, OthersRuns
    <3> QED
      BY <1>1, <2>2, <3>1 DEF RunMoves, Sends, SendDelivers, Taken, Ended, Open
  <2>4. CASE \E d \in Drains : DrainStep(d) \/ DrainFault(d)
    <3> PICK d \in Drains : DrainStep(d) \/ DrainFault(d)
      BY <2>4
    <3>1. row'[<<m, n>>] = row[<<m, n>>] \/ Opens(d, <<m, n>>) \/ Delivers(d, <<m, n>>)
          \/ Closes(d, <<m, n>>)
      BY <2>1, DrainRuns
    <3> QED
      BY <1>1, <2>2, <3>1 DEF Opens, Delivers, Closes, Open
  <2> QED
    BY <2>3, <2>4
<1>3. CASE handler' # handler
  <2>1. ~\E d \in Drains : DrainStep(d) \/ DrainFault(d)
    BY <1>3, DrainReports
  <2>2. PICK x \in events : BeginCompletion(x)
    <3>1. ~ReleaseOnCompletion
      <4>1. handler \in [pc : {"free", "release", "drain"}, event : events \cup {None}]
        BY DEF IInv, TypeOK
      <4> QED
        BY <4>1 DEF ReleaseOnCompletion, NoEvent
    <3>2. ~HandlerCrash
      BY DEF HandlerCrash, NoEvent
    <3>3. ~\E k \in Messages : Submit(k) \/ QueueReport(k) \/ SendStep(k) \/ SendFault(k)
      BY <1>3 DEF Submit, QueueReport, SendStep, SendFault, OpenRun, DiscardRun, PublishRun,
         PublishRunStopped, Rollback, PublishRunFails, SenderCrash, InSubmit
    <3>4. ~\/ \E k \in Messages : HandBack(k) \/ HandBackLost(k)
           \/ ClaimLapses \/ ClaimLapsesEarly \/ StopSession \/ CancelUnheldRuns \/ SweeperDrains
           \/ reapStuckSessions \/ StatusStep
           \/ \E r \in Runs : ClaimRun(r) \/ TakeMessage(r) \/ Report(r) \/ ReapRun(r)
                               \/ ReapOrphanedFatRun(r)
      BY <1>3, StatusKeeps DEF CancelUnheldRuns, HandBack, HandBackLost, ClaimLapses,
         ClaimLapsesEarly, ClaimRun, TakeMessage,
         Report, ReapRun, ReapOrphanedFatRun, CloseRun, StopSession, SweeperDrains,
         reapStuckSessions, Outside
    <3> QED
      BY <2>1, <3>1, <3>2, <3>3, <3>4 DEF Others
  <2>3. /\ handler' = [pc |-> "release", event |-> x]
        /\ row' = [r \in Runs |-> IF r \notin RowsClosedBy(x) THEN row[r]
                                 ELSE IF Reached(r) THEN "ended" ELSE "failed"]
    BY <1>3, <2>2 DEF BeginCompletion
  <2>4. e = x /\ m \in Messages /\ <<m, n>> \in Runs
    BY <2>3, EventsTyped DEF IInv, TypeOK
  <2>5. n # 0
    BY Basics
  <2>6. row[<<m, n>>] \in Open /\ <<m, n>> \notin RowsClosedBy(x)
    BY <1>1, <2>3, <2>4
  <2> QED
    BY <1>1, <2>4, <2>5, <2>6 DEF RowsClosedBy, OpenRuns
<1> QED
  BY <1>2, <1>3

\* A gate is owed only by turns whose run was closed.
LEMMA OwedStaysOpened ==
    ASSUME IInv, OwedWasOpened, PublishedOnce,
           Others \/ \E d \in Drains : DrainStep(d) \/ DrainFault(d)
    PROVE  OwedWasOpened'
<1>1. CASE \E d \in Drains : DrainStep(d) \/ DrainFault(d)
  BY <1>1, DrainFrame DEF OwedWasOpened
<1>2. CASE Others
  <2> SUFFICES ASSUME NEW m \in owed' PROVE at'[m] \notin {"new", "gated"}
    BY DEF OwedWasOpened
  <2>1. CASE m \in owed
    <3>1. m \in Messages /\ at[m] \notin {"new", "gated"}
      BY <2>1 DEF OwedWasOpened, IInv, TypeOK
    <3>2. RequestMoves(m)
      BY <1>2, <3>1, OthersRuns
    <3> QED
      BY <3>1, <3>2 DEF RequestMoves
  <2>2. CASE m \notin owed
    <3>1. PICK r \in Runs : r[1] = m /\ row[r] \in Open
      BY <1>2, <2>2, OthersReport
    <3>2. m \in Messages /\ r[2] \in Ids /\ r = <<m, r[2]>>
      BY <3>1 DEF Runs
    <3>3. at[m] \notin {"new", "gated"}
      BY <3>1, <3>2 DEF IInv, QueueOK, Open
    <3>4. RequestMoves(m)
      BY <1>2, <3>2, OthersRuns
    <3> QED
      BY <3>3, <3>4 DEF RequestMoves
  <2> QED
    BY <2>1, <2>2
<1> QED
  BY <1>1, <1>2

-----------------------------------------------------------------------------
(* A live turn is known.                                                   *)

\* How a drain comes by a run it hands off, and where it goes with it.
LEMMA DrainHands ==
    ASSUME IInv, NEW d \in Drains, DrainStep(d) \/ DrainFault(d), ~torn'
    PROVE  /\ drain'[d].pc \in {"open", "delete", "gate"} =>
                 drain'[d].msg = drain[d].msg /\ drain'[d].run = drain[d].run
           /\ drain'[d].pc = "open" => row' = row /\ row[<<drain[d].msg, drain[d].run>>] = "none"
           /\ drain'[d].pc = "delete" => \/ drain[d].pc = "publish"
                                         \/ /\ drain[d].pc \in {"classify", "refuse"}
                                            /\ row[<<drain[d].msg, drain[d].run>>] \in Open
           /\ drain'[d].pc = "gate" => drain[d].pc = "delete"
           /\ drain[d].pc = "publish" => queue' = queue
           /\ drain[d].pc = "delete" => drain'[d].pc = "gate"
           /\ drain[d].pc = "gate" => takeSessionGate(drain[d].msg) /\ drain'[d].pc = "release"
           /\ \A r \in stream' \ stream :
                 drain[d].pc = "publish" /\ r = <<drain[d].msg, drain[d].run>>
<1> DEFINE m == drain[d].msg
           n == drain[d].run
<1>1. /\ DrainOK /\ drain \in [Drains -> DrainType] /\ drain[d] \in DrainType
      /\ row \in [Runs -> {"none"} \cup Open \cup Terminal]
      /\ drain[d].pc \in Working => m \in Messages
      /\ drain[d].pc \in WithRun => n \in Ids
  BY InHandKnown DEF IInv, TypeOK, DrainOK
<1>2. \A pc : Go(d, pc) => /\ drain'[d].pc = pc
                           /\ pc # "release" => drain'[d].msg = m /\ drain'[d].run = n
  BY <1>1, GoGives
<1>3. drain' = [drain EXCEPT ![d] = Off] => drain'[d].pc = "off"
  BY <1>1, OffGives
<1>4. ASSUME drain[d].pc \in {"classify", "refuse"}
      PROVE  /\ recordedHandoffState(m, n) \in {"absent", "open", "unsettled", "consumed", "retryable"}
             /\ recordedHandoffState(m, n) = "open" => row[<<m, n>>] \in Open
             /\ recordedHandoffState(m, n) = "absent" => row[<<m, n>>] = "none"
  <2>1. m \in Messages /\ n \in Ids
    BY <1>1, <1>4 DEF Working, WithRun
  <2>2. row[<<m, n>>] \in {"none"} \cup Open \cup Terminal
    BY <1>1, <2>1, EventsTyped
  <2> QED
    BY <2>2 DEF recordedHandoffState, Open, Terminal
<1> USE <1>2, <1>3 DEF rowVars, queueVars
<1>5. CASE /\ stream' = stream /\ drain'[d].pc \notin {"open", "delete", "gate"}
           /\ drain[d].pc \notin {"publish", "delete", "gate"}
  BY <1>5
<1>6. CASE takeClaim(d) \/ CredentialsUnreadable(d) \/ RejectPending(d) \/ AnnounceRefusal(d)
           \/ DropPending(d) \/ ReleaseDrain(d) \/ OpenPendingFails(d) \/ AnnounceRefusalFails(d)
           \/ \E kind \in Kinds(m) : OpenPending(d, kind)
  BY <1>5, <1>6 DEF takeClaim, Return, CredentialsUnreadable, RejectPending, AnnounceRefusal,
     DropPending, ReleaseDrain, OpenPendingFails, AnnounceRefusalFails, OpenPending, Throw
<1>7. CASE ReadQueue(d)
  BY <1>1, <1>5, <1>7 DEF ReadQueue, DrainType
<1>8. CASE reserveDispatchTaskId(d)
  <2>1. drain'[d].pc \in {"classify", "release"}
    BY <1>1, <1>8 DEF reserveDispatchTaskId, DrainType
  <2> QED
    BY <1>5, <1>8, <2>1 DEF reserveDispatchTaskId
<1>9. CASE NameRefusal(d)
  <2>1. drain'[d].pc = "announce"
    BY <1>1, <1>9 DEF NameRefusal, DrainType
  <2> QED
    BY <1>5, <1>9, <2>1 DEF NameRefusal
<1>10. CASE Recheck(d)
  <2>1. drain'[d].pc \in {"off", "claim"}
    BY <1>1, <1>10 DEF Recheck, Return, Off
  <2> QED
    BY <1>5, <1>10, <2>1 DEF Recheck
<1>11. CASE BindRefused(d)
  <2> DEFINE stays == m \in ToSet(queue)
             final == attempts[m] + 1 >= BIND_MAX_ATTEMPTS /\ RunsOf(m) \cap OpenRuns = {}
  <2>1. (~stays /\ Go(d, "release")) \/ (stays /\ Throw(d)) \/ (stays /\ final /\ Go(d, "drop"))
    BY <1>11 DEF BindRefused
  <2>2. drain[d].pc = "bind" /\ stream' = stream
    BY <1>11 DEF BindRefused
  <2> QED
    BY <1>5, <2>1, <2>2 DEF Throw
<1>12. CASE PrepareHandoff(d)
  BY <1>4, <1>12 DEF PrepareHandoff
<1>13. CASE RefusePending(d)
  BY <1>4, <1>13 DEF RefusePending
<1>14. CASE DiscardPending(d) \/ PublishPending(d) \/ PublishPendingFails(d)
            \/ PublishPendingStopped(d)
  BY <1>14 DEF DiscardPending, PublishPending, PublishPendingFails, PublishPendingStopped, Landed,
               Throw
<1>15. CASE DeletePending(d) \/ GatePending(d)
  BY <1>15 DEF DeletePending, GatePending
<1>16. ~DrainCrash(d)
  BY DEF DrainCrash, Tear
<1> QED
  BY <1>6, <1>7, <1>8, <1>9, <1>10, <1>11, <1>12, <1>13, <1>14, <1>15, <1>16
     DEF DrainStep, DrainFault

\* A turn that a drain makes live is one it is about to publish.
LEMMA DrainLive ==
    ASSUME IInv, ClaimIsHeld, HoldsItsRow, QueuedIsInHand, PublishedOnce,
           NEW d \in Drains, DrainStep(d) \/ DrainFault(d), ~torn',
           NEW m \in Messages, LiveTurn(m)'
    PROVE  LiveTurn(m) \/ (drain'[d].msg = m /\ drain'[d].pc = "publish")
<1>1. at' = at /\ \A c \in Drains \ {d} : drain'[c] = drain[c]
  BY DrainFrame
<1>2. CASE at'[m] = "gated"
  BY <1>1, <1>2 DEF LiveTurn
<1>3. CASE at'[m] # "gated"
  <2>1. PICK r \in RunsOf(m) : /\ row'[r] \in Open
                               /\ row'[r] \in {"queued", "running"} \/ r \in stream' \/ Dispatching(r)'
    BY <1>3 DEF LiveTurn, OpenRuns
  <2>2. r \in Runs /\ r[1] = m /\ r[2] \in Ids /\ r = <<m, r[2]>>
    BY DEF RunsOf, Runs
  <2>3. row'[r] = row[r] \/ Opens(d, r) \/ Delivers(d, r)
    BY <2>1, <2>2, DrainRuns DEF Closes
  <2>4. CASE Opens(d, r)
    BY <2>2, <2>4 DEF Opens
  <2>5. ASSUME drain[d].pc \in {"publish", "delete", "gate"}, r = <<drain[d].msg, drain[d].run>>,
               row[r] \in Open
        PROVE  LiveTurn(m)
    <3>1. Dispatching(r)
      BY <2>5 DEF Dispatching
    <3> QED
      BY <2>2, <2>5, <3>1 DEF LiveTurn, OpenRuns
  <2>6. CASE Delivers(d, r)
    BY <2>5, <2>6 DEF Delivers, Open
  <2>7. CASE row'[r] = row[r]
    <3>1. CASE row'[r] \in {"queued", "running"} \/ r \in stream
      BY <2>1, <2>2, <2>7, <3>1 DEF LiveTurn, OpenRuns
    <3>2. CASE r \in stream' \ stream
      BY <2>1, <2>5, <2>7, <3>2, DrainHands
    <3>3. CASE Dispatching(r)'
      <4>1. CASE Dispatching(r)
        BY <2>1, <2>2, <2>7, <4>1 DEF LiveTurn, OpenRuns
      <4>2. CASE ~Dispatching(r)
        <5>1. /\ drain'[d].msg = r[1] /\ drain'[d].run = r[2]
              /\ drain'[d].pc \in {"open", "publish", "delete", "gate"}
          BY <1>1, <3>3, <4>2 DEF Dispatching
        <5>2. CASE drain'[d].pc = "publish"
          BY <2>2, <5>1, <5>2
        <5>3. CASE drain'[d].pc # "publish"
          <6>1. r = <<drain[d].msg, drain[d].run>>
            BY <2>2, <5>1, <5>3, DrainHands
          <6>2. drain'[d].pc # "open"
            BY <2>1, <2>7, <6>1, DrainHands DEF Open
          <6>3. drain'[d].pc \in {"delete", "gate"}
            BY <5>1, <5>3, <6>2
          <6>4. drain[d].pc \in {"publish", "delete", "classify", "refuse"}
            BY <6>3, DrainHands
          <6>5. ASSUME drain[d].pc \in {"classify", "refuse"} PROVE FALSE
            <7>1. m \in ToSet(queue)
              BY <2>2, <6>1, <6>5 DEF HoldsItsRow, Working
            <7>2. PICK c \in Drains : drain[c].pc \in {"publish", "delete"}
              BY <2>1, <2>2, <2>7, <7>1 DEF QueuedIsInHand
            <7>3. c = d
              BY <6>5, <7>2, OneDrain DEF Past, Working
            <7> QED
              BY <6>5, <7>2, <7>3
          <6> QED
            BY <2>1, <2>5, <2>7, <6>1, <6>4, <6>5
        <5> QED
          BY <5>2, <5>3
      <4> QED
        BY <4>1, <4>2
    <3> QED
      BY <2>1, <3>1, <3>2, <3>3
  <2> QED
    BY <2>3, <2>4, <2>6, <2>7
<1> QED
  BY <1>2, <1>3

\* Outside the drains a turn becomes live by taking the gate.
LEMMA OthersLive ==
    ASSUME IInv, ClaimIsHeld, PublishedOnce, Others, ~torn', NEW m \in Messages, LiveTurn(m)'
    PROVE  LiveTurn(m) \/ (at[m] = "new" /\ at'[m] = "gated")
<1>1. \A c \in Drains : drain'[c] = drain[c] \/ (drain[c].pc = "off" /\ drain'[c].pc = "claim")
  BY OthersKeepClaim
<1>2. RequestMoves(m)
  BY OthersRuns
<1>3. CASE at'[m] = "gated" \/ at[m] = "gated"
  BY <1>2, <1>3 DEF RequestMoves, LiveTurn
<1>4. CASE at'[m] # "gated" /\ at[m] # "gated"
  <2>1. PICK r \in RunsOf(m) : /\ row'[r] \in Open
                               /\ row'[r] \in {"queued", "running"} \/ r \in stream' \/ Dispatching(r)'
    BY <1>4 DEF LiveTurn, OpenRuns
  <2>2. r \in Runs /\ r[1] = m /\ r[2] \in Ids
    BY DEF RunsOf, Runs
  <2>3. ASSUME row[r] \in Open, row[r] \in {"queued", "running"} \/ r \in stream \/ Dispatching(r)
        PROVE  LiveTurn(m)
    BY <2>2, <2>3 DEF LiveTurn, OpenRuns
  <2>4. r \in stream' \ stream => at[m] = "opened" /\ r[2] = 1
    <3>1. CASE \E k \in Messages : PublishRun(k) \/ PublishRunFails(k)
      BY <2>2, <3>1 DEF PublishRun, PublishRunFails
    <3>2. CASE ~\E k \in Messages : PublishRun(k) \/ PublishRunFails(k)
      <4>1. stream' \subseteq stream
        <5>1. CASE StatusStep
          BY <5>1, StatusKeeps
        <5>2. CASE ~StatusStep
          BY <3>2, <5>2 DEF Others, Submit, QueueReport, SendStep, SendFault, OpenRun,
             DiscardRun, PublishRunStopped, Rollback, SenderCrash, HandBack, HandBackLost,
             ClaimLapses, ClaimLapsesEarly, BeginCompletion, ReleaseOnCompletion, HandlerCrash,
             ClaimRun, TakeMessage, Report, ReapRun, ReapOrphanedFatRun, CloseRun, StopSession,
             CancelUnheldRuns, SweeperDrains, reapStuckSessions, rowVars
        <5> QED
          BY <5>1, <5>2
      <4> QED
        BY <4>1
    <3> QED
      BY <3>1, <3>2
  <2>5. ASSUME at[m] = "opened", r[2] = 1, row[r] \in Open
        PROVE  LiveTurn(m)
    BY <2>2, <2>3, <2>5 DEF Dispatching
  <2>6. RunMoves(r)
    BY <2>2, OthersRuns
  <2>7. CASE SendDelivers(r)
    BY <2>2, <2>5, <2>7 DEF SendDelivers, Open
  <2>8. CASE Taken(r)
    BY <2>3, <2>8 DEF Taken, Open
  <2>9. CASE row'[r] = row[r]
    <3>1. CASE Dispatching(r)'
      <4>1. at'[m] = "opened" => at[m] = "opened"
        BY <1>2, <1>4 DEF RequestMoves
      <4>2. Dispatching(r)
        BY <1>1, <2>2, <3>1, <4>1 DEF Dispatching
      <4> QED
        BY <2>1, <2>3, <2>9, <4>2
    <3>2. CASE r \in stream' \ stream
      BY <2>1, <2>4, <2>5, <2>9, <3>2
    <3> QED
      BY <2>1, <2>3, <2>9, <3>1, <3>2
  <2> QED
    BY <1>4, <2>1, <2>2, <2>6, <2>7, <2>8, <2>9 DEF RunMoves, Sends, Ended
<1> QED
  BY <1>3, <1>4

\* Nobody but a drain touches the gate of a turn that is live and stays so.
LEMMA OthersKeepGate ==
    ASSUME IInv, ClaimIsHeld, SentOnce, LiveIsKnown, ReportedIsOver, ReleasedIsOver,
           OwedWasOpened, Others, ~torn',
           NEW m \in Messages, marker = m, LiveTurn(m), LiveTurn(m)'
    PROVE  marker' = m /\ agent_status' \in {agent_status, "running"}
<1>1. /\ at \in [Messages -> {"new", "parked", "gated", "opened", "rollback", "done"}]
      /\ \A n \in Ids : <<m, n>> \in Runs
  BY EventsTyped DEF IInv, TypeOK
<1>2. at[m] \in {"new", "gated"} => \A n \in Ids : row[<<m, n>>] = "none"
  BY DEF IInv, QueueOK
<1>3. \A r \in RunsOf(m) : r \in Runs /\ r[2] \in Ids /\ r = <<m, r[2]>>
  BY DEF RunsOf, Runs
<1>4. ASSUME OpenRuns = {} PROVE at[m] = "gated" /\ ~gateNamesEndedTurn
  <2>1. at[m] = "gated"
    BY <1>4 DEF LiveTurn
  <2>2. ~gateNamesEndedTurn
    <3> SUFFICES ASSUME gateNamesEndedTurn PROVE FALSE
      OBVIOUS
    <3>1. PICK r \in Runs : r[1] = m /\ row[r] \in Terminal
      BY DEF gateNamesEndedTurn
    <3> QED
      BY <1>2, <2>1, <3>1 DEF Runs, Terminal
  <2> QED
    BY <2>1, <2>2
<1>5. CASE \E k \in Messages : Submit(k)
  <2> PICK k \in Messages : Submit(k)
    BY <1>5
  <2>1. Busy
    <3> SUFFICES ASSUME ~Busy PROVE FALSE
      OBVIOUS
    <3>1. agent_status # "running" /\ claim = None
      BY DEF Busy
    <3>2. PICK c \in Drains : drain[c].pc \in HandingOff
      BY <3>1 DEF LiveIsKnown
    <3> QED
      BY <3>1, <3>2, Basics DEF ClaimIsHeld, HandingOff, Past, Working
  <2> QED
    BY <2>1 DEF Submit, gateVars
<1>6. CASE \E k \in Messages : Rollback(k)
  <2> PICK k \in Messages : Rollback(k)
    BY <1>6
  <2>1. CASE k = m
    <3>1. at[m] \in {"gated", "rollback"} /\ at'[m] = "done" /\ row' = row
      BY <1>1, <2>1 DEF Rollback, rowVars
    <3>2. \A n \in Ids : row'[<<m, n>>] \notin Open
      BY <1>2, <3>1 DEF SentOnce, Open
    <3> QED
      BY <1>3, <3>1, <3>2 DEF LiveTurn, OpenRuns
  <2>2. CASE k # m
    BY <2>2 DEF Rollback, releaseSessionGateForTurn, gateVars
  <2> QED
    BY <2>1, <2>2
<1>7. CASE ReleaseOnCompletion
  <2> DEFINE e == handler.event
  <2>1. CASE releaseSessionGateIfLastRun(e.msg)
    <3>1. handler.pc = "release" /\ e \in events /\ e.msg \in Messages
      BY <1>7 DEF ReleaseOnCompletion, IInv, HandlerOK, TypeOK
    <3>2. OpenRuns = {}
      <4> SUFFICES ASSUME NEW r \in OpenRuns PROVE FALSE
        OBVIOUS
      <4>1. r[1] = e.msg /\ r[2] \in Ids /\ r = <<e.msg, r[2]>> /\ row[r] \in Open
        BY <2>1 DEF releaseSessionGateIfLastRun, OpenRuns, Runs
      <4> QED
        BY <3>1, <4>1 DEF ReleasedIsOver
    <3>3. m = e.msg /\ at[m] = "gated"
      BY <1>4, <2>1, <3>2 DEF releaseSessionGateIfLastRun
    <3> QED
      BY <3>1, <3>3 DEF ReportedIsOver, Over
  <2>2. CASE ~releaseSessionGateIfLastRun(e.msg)
    BY <1>7, <2>2 DEF ReleaseOnCompletion, gateVars
  <2> QED
    BY <2>1, <2>2
<1>8. CASE \E k \in Messages : HandBack(k)
  <2> PICK k \in Messages : HandBack(k)
    BY <1>8
  <2>1. CASE releaseSessionOfEndedTurn(k)
    <3>1. OpenRuns = {} /\ (marker = k \/ gateNamesEndedTurn) /\ k \in owed
      BY <2>1 DEF releaseSessionOfEndedTurn, HandBack
    <3>2. m = k /\ at[m] = "gated"
      BY <1>4, <3>1
    <3> QED
      BY <3>1, <3>2 DEF OwedWasOpened
  <2>2. CASE ~releaseSessionOfEndedTurn(k)
    BY <2>2 DEF HandBack, gateVars
  <2> QED
    BY <2>1, <2>2
<1>9. CASE reapStuckSessions
  <2>1. /\ \A k \in Messages : at[k] \notin {"gated", "opened", "rollback"}
        /\ \A c \in Drains : drain[c].pc = "off"
        /\ \A r \in OpenRuns : row[r] \in {"preparing", "delivered"} /\ r \notin stream
    BY <1>9 DEF reapStuckSessions, AtWork
  <2>2. \A r \in RunsOf(m) : ~Dispatching(r)
    BY <1>3, <2>1 DEF Dispatching, RunsOf
  <2> QED
    BY <2>1, <2>2 DEF LiveTurn
<1>10. CASE \/ \E k \in Messages : \/ QueueReport(k) \/ DiscardRun(k) \/ PublishRun(k)
                                   \/ PublishRunStopped(k)
                                   \/ \E kind \in Kinds(k) : OpenRun(k, kind)
                                   \/ SendFault(k) \/ HandBackLost(k)
            \/ ClaimLapses \/ ClaimLapsesEarly
            \/ \E e \in events : BeginCompletion(e)
            \/ HandlerCrash \/ StopSession \/ CancelUnheldRuns \/ SweeperDrains
            \/ \E r \in Runs : taskInterrupted(r) \/ taskResumed(r)
            \/ \E r \in Runs : ClaimRun(r) \/ TakeMessage(r) \/ Report(r)
                                 \/ ReapRun(r) \/ ReapOrphanedFatRun(r)
  <2>1. UNCHANGED gateVars
    BY <1>10 DEF QueueReport, DiscardRun, PublishRun, PublishRunStopped, OpenRun, SendFault,
       PublishRunFails, SenderCrash, HandBackLost, ClaimLapses, ClaimLapsesEarly, BeginCompletion,
       HandlerCrash, StopSession, CancelUnheldRuns, SweeperDrains, ClaimRun, TakeMessage, Report,
       ReapRun, ReapOrphanedFatRun, CloseRun, taskInterrupted, taskResumed, SendNotice, Outside
  <2> QED
    BY <2>1 DEF gateVars
<1>11. CASE \E n \in notices : handleStatusEvent(n)
  <2> PICK n \in notices : handleStatusEvent(n)
    BY <1>11
  <2>1. n.status \in {"running", "interrupted"}
    BY DEF IInv, TypeOK
  <2>2. agent_status' # agent_status => agent_status' = n.status
    BY DEF handleStatusEvent
  <2>3. agent_status' # agent_status => n.status # "interrupted"
    BY Zenon DEF handleStatusEvent
  <2>4. marker' = m
    BY DEF handleStatusEvent
  <2> QED
    BY <2>1, <2>2, <2>3, <2>4
<1> QED
  BY <1>5, <1>6, <1>7, <1>8, <1>9, <1>10, <1>11 DEF Others, StatusStep, SendStep

\* Nor does a drain: it takes the gate for the turn it hands off or refuses, when none
\* is live but that one.
LEMMA DrainKeepsGate ==
    ASSUME IInv, ClaimIsHeld, HoldsItsRow, NoOtherIsLive, QueuedIsInHand,
           NEW d \in Drains, DrainStep(d) \/ DrainFault(d), ~torn',
           NEW m \in Messages, marker = m, LiveTurn(m)
    PROVE  marker' = m /\ agent_status' \in {agent_status, "running"}
<1>1. CASE UNCHANGED gateVars
  BY <1>1 DEF gateVars
<1>2. ASSUME drain[d].pc \in {"gate", "name"}
      PROVE  drain[d].pc = "gate" /\ drain[d].msg = m
  BY <1>2 DEF NoOtherIsLive, HandingOff, Early, Past, Working
<1>3. CASE GatePending(d)
  BY <1>2, <1>3 DEF GatePending, takeSessionGate
<1>4. ~NameRefusal(d)
  BY <1>2 DEF NameRefusal
<1>5. CASE AnnounceRefusalFails(d)
  <2>1. drain[d].pc = "announce"
    BY <1>5 DEF AnnounceRefusalFails
  <2>2. drain[d].msg \in Messages /\ at[drain[d].msg] = "parked"
        /\ drain[d].msg \in ToSet(queue)
    BY <2>1, InHandKnown DEF IInv, HoldsItsRow, Working
  <2>3. drain[d].msg # m
    <3> SUFFICES ASSUME drain[d].msg = m PROVE FALSE
      OBVIOUS
    <3>1. PICK r \in RunsOf(m) : row[r] \in Open
      BY <2>2 DEF LiveTurn, OpenRuns
    <3>2. r[2] \in Ids /\ r = <<m, r[2]>>
      BY DEF RunsOf
    <3>3. PICK c \in Drains : drain[c].pc \in {"publish", "delete"}
      BY <2>2, <3>1, <3>2 DEF QueuedIsInHand
    <3>4. c = d
      BY <2>1, <3>3, OneDrain DEF Past, Working
    <3> QED
      BY <2>1, <3>3, <3>4
  <2> QED
    BY <1>1, <1>5, <2>3 DEF AnnounceRefusalFails, releaseSessionGateForTurn
<1>6. CASE ~GatePending(d) /\ ~NameRefusal(d) /\ ~AnnounceRefusalFails(d)
  <2>1. UNCHANGED gateVars
    BY <1>6 DEF DrainStep, DrainFault, takeClaim, ReadQueue, CredentialsUnreadable, BindRefused,
       reserveDispatchTaskId, PrepareHandoff, OpenPending, RejectPending, DiscardPending,
       PublishPending, PublishPendingStopped, DeletePending, RefusePending, AnnounceRefusal,
       DropPending, ReleaseDrain, Recheck, OpenPendingFails, PublishPendingFails, DrainCrash
  <2> QED
    BY <1>1, <2>1
<1> QED
  BY <1>3, <1>4, <1>5, <1>6

\* A request that takes the gate finds it open and no drain under way.
LEMMA TakesFreeGate ==
    ASSUME IInv, Others, NEW m \in Messages, at[m] = "new", at'[m] = "gated"
    PROVE  takeSessionGate(m) /\ claim = None
<1>1. at \in [Messages -> {"new", "parked", "gated", "opened", "rollback", "done"}]
  BY DEF IInv, TypeOK
<1>2. PICK k \in Messages : Submit(k) \/ QueueReport(k) \/ SendStep(k) \/ SendFault(k)
  BY StatusKeeps DEF Others, HandBack, HandBackLost, ClaimLapses, ClaimLapsesEarly,
     BeginCompletion, ReleaseOnCompletion, HandlerCrash, ClaimRun, TakeMessage, Report, ReapRun,
     ReapOrphanedFatRun, CloseRun, StopSession, CancelUnheldRuns, SweeperDrains,
     reapStuckSessions, Outside
<1>3. k = m
  BY <1>1, <1>2 DEF Submit, QueueReport, SendStep, SendFault, OpenRun, DiscardRun, PublishRun,
     PublishRunStopped, Rollback, PublishRunFails, SenderCrash, Park
<1>4. Submit(m)
  BY <1>1, <1>2, <1>3 DEF QueueReport, SendStep, SendFault, OpenRun, DiscardRun, PublishRun,
     PublishRunStopped, Rollback, PublishRunFails, SenderCrash, Park
<1> QED
  BY <1>1, <1>4 DEF Submit, Park, Busy

\* A drain comes by its claim when the session is not running and nobody has it.
LEMMA DrainEnters ==
    ASSUME IInv, NEW d \in Drains, DrainStep(d) \/ DrainFault(d), ~torn',
           drain[d].pc \notin Early, drain'[d].pc \in Early
    PROVE  agent_status # "running" /\ claim = None
<1>1. DrainOK /\ drain \in [Drains -> DrainType] /\ drain[d] \in DrainType
  BY DEF IInv, DrainOK
<1>2. \A pc : Go(d, pc) => drain'[d].pc = pc
  BY <1>1, GoGives
<1>3. drain' = [drain EXCEPT ![d] = Off] => drain'[d].pc = "off"
  BY <1>1, OffGives
<1> USE DEF Early, Past, Working
<1>4. ~(AnnounceRefusal(d) \/ AnnounceRefusalFails(d) \/ DropPending(d) \/ ReleaseDrain(d)
        \/ DrainCrash(d))
  BY <1>2, <1>3 DEF AnnounceRefusal, AnnounceRefusalFails, DropPending, ReleaseDrain, DrainCrash,
     Return, Throw
<1>5. ~Recheck(d)
  BY <1>1, <1>3 DEF Recheck, Return, Off
<1>6. takeClaim(d)
  BY <1>4, <1>5 DEF DrainStep, DrainFault, ReadQueue, CredentialsUnreadable, BindRefused,
     reserveDispatchTaskId, PrepareHandoff, OpenPending, RejectPending, DiscardPending,
     PublishPending, PublishPendingStopped, DeletePending, GatePending, RefusePending, NameRefusal,
     OpenPendingFails, PublishPendingFails
<1> QED
  BY <1>3, <1>6 DEF takeClaim, Return

\* A turn that is live and in the queue is in the hand of the drain with the claim.
LEMMA LiveInQueueAfter ==
    ASSUME QueueOK', ClaimIsHeld', QueuedIsInHand', NEW m \in Messages, LiveTurn(m)',
           m \in ToSet(queue'), NEW d \in Drains, drain'[d].pc \in Past
    PROVE  drain'[d].msg = m /\ drain'[d].pc \in HandingOff
<1>1. at'[m] = "parked"
  BY DEF QueueOK
<1>2. PICK r \in RunsOf(m) : row'[r] \in Open
  BY <1>1 DEF LiveTurn, OpenRuns
<1>3. r[2] \in Ids /\ r = <<m, r[2]>>
  BY DEF RunsOf
<1>4. PICK c \in Drains : drain'[c].msg = m /\ drain'[c].pc \in {"publish", "delete"}
  BY <1>2, <1>3 DEF QueuedIsInHand
<1>5. c = d
  BY <1>4 DEF ClaimIsHeld, Past, Working
<1> QED
  BY <1>4, <1>5 DEF HandingOff

\* Until a drain has shut the gate no other turn becomes live beside its own.
LEMMA NoOtherBecomesLive ==
    ASSUME IInv, QueueOK', Calm, ClaimIsHeld', QueuedIsInHand', ~torn',
           Others \/ \E d \in Drains : DrainStep(d) \/ DrainFault(d)
    PROVE  NoOtherIsLive'
<1> USE DEF Calm
<1> SUFFICES ASSUME NEW c \in Drains, drain'[c].pc \in Early, NEW m \in Messages, LiveTurn(m)'
             PROVE  drain'[c].msg = m /\ drain'[c].pc \in HandingOff
  BY DEF NoOtherIsLive
<1>1. CASE m \in ToSet(queue')
  BY <1>1, LiveInQueueAfter DEF Early
<1>2. CASE m \notin ToSet(queue') /\ Others
  <2>1. drain'[c] = drain[c]
    BY <1>2, OthersKeepClaim DEF Early, Past, Working
  <2>2. claim # None
    BY <2>1, Basics DEF ClaimIsHeld, Early
  <2>3. LiveTurn(m)
    BY <1>2, <2>2, OthersLive, TakesFreeGate
  <2> QED
    BY <2>1, <2>3 DEF NoOtherIsLive
<1>3. CASE m \notin ToSet(queue') /\ \E d \in Drains : DrainStep(d) \/ DrainFault(d)
  <2> PICK d \in Drains : DrainStep(d) \/ DrainFault(d)
    BY <1>3
  <2>1. LiveTurn(m) \/ (drain'[d].msg = m /\ drain'[d].pc = "publish")
    BY DrainLive
  <2>2. CASE c = d /\ drain'[d].msg = m /\ drain'[d].pc = "publish"
    BY <2>2 DEF HandingOff
  <2>3. CASE c # d
    <3>1. drain'[c] = drain[c] /\ drain[c].pc \in Past
      BY <2>3, DrainFrame DEF Early
    <3>2. drain[d].pc \in {"claim", "recheck"}
      BY <2>3, <3>1, OneDrain, DrainKeepsClaim
    <3>3. drain'[d].pc # "publish"
      BY <3>2, DrainRuns DEF Opens
    <3> QED
      BY <2>1, <3>1, <3>3 DEF NoOtherIsLive
  <2>4. CASE c = d /\ LiveTurn(m)
    <3>1. drain[d].pc \in Early
      <4> SUFFICES ASSUME drain[d].pc \notin Early PROVE FALSE
        OBVIOUS
      <4>1. agent_status # "running" /\ claim = None
        BY <2>4, DrainEnters
      <4>2. PICK b \in Drains : drain[b].pc \in HandingOff
        BY <2>4, <4>1 DEF LiveIsKnown
      <4> QED
        BY <4>1, <4>2, Basics DEF ClaimIsHeld, HandingOff, Past, Working
    <3>2. drain[d].msg = m /\ drain[d].pc \in HandingOff
      BY <2>4, <3>1 DEF NoOtherIsLive
    <3>3. CASE drain[d].pc = "publish"
      BY <1>3, <3>2, <3>3, DrainHands DEF HoldsItsRow, Working
    <3>4. CASE drain[d].pc = "delete"
      BY <2>4, <3>2, <3>4, DrainHands DEF HandingOff
    <3>5. CASE drain[d].pc = "gate"
      BY <2>4, <3>5, DrainHands DEF Early
    <3> QED
      BY <3>2, <3>3, <3>4, <3>5 DEF HandingOff
  <2> QED
    BY <2>1, <2>2, <2>3, <2>4
<1> QED
  BY <1>1, <1>2, <1>3

\* A live turn stays known.
LEMMA LiveStaysKnown ==
    ASSUME IInv, QueueOK', Calm, QueuedIsInHand', ~torn',
           Others \/ \E d \in Drains : DrainStep(d) \/ DrainFault(d)
    PROVE  LiveIsKnown'
<1> USE DEF Calm
<1> SUFFICES ASSUME NEW m \in Messages, LiveTurn(m)'
             PROVE  \/ marker' = m /\ agent_status' = "running"
                    \/ \E c \in Drains : drain'[c].msg = m /\ drain'[c].pc \in HandingOff
  BY DEF LiveIsKnown
<1>1. CASE m \in ToSet(queue')
  <2>1. at'[m] = "parked"
    BY <1>1 DEF QueueOK
  <2>2. PICK r \in RunsOf(m) : row'[r] \in Open
    BY <2>1 DEF LiveTurn, OpenRuns
  <2>3. r[2] \in Ids /\ r = <<m, r[2]>>
    BY DEF RunsOf
  <2> QED
    BY <1>1, <2>2, <2>3 DEF QueuedIsInHand, HandingOff
<1>2. CASE m \notin ToSet(queue') /\ Others
  <2>1. CASE at[m] = "new" /\ at'[m] = "gated"
    BY <1>2, <2>1, TakesFreeGate DEF takeSessionGate
  <2>2. CASE LiveTurn(m)
    <3>1. CASE marker = m /\ agent_status = "running"
      BY <1>2, <2>2, <3>1, OthersKeepGate
    <3>2. CASE \E c \in Drains : drain[c].msg = m /\ drain[c].pc \in HandingOff
      <4>1. \A c \in Drains : drain'[c] = drain[c] \/ (drain[c].pc = "off" /\ drain'[c].pc = "claim")
        BY <1>2, OthersKeepClaim
      <4> QED
        BY <3>2, <4>1 DEF HandingOff
    <3> QED
      BY <2>2, <3>1, <3>2 DEF LiveIsKnown
  <2> QED
    BY <1>2, <2>1, <2>2, OthersLive
<1>3. CASE m \notin ToSet(queue') /\ \E d \in Drains : DrainStep(d) \/ DrainFault(d)
  <2> PICK d \in Drains : DrainStep(d) \/ DrainFault(d)
    BY <1>3
  <2>1. CASE drain'[d].msg = m /\ drain'[d].pc = "publish"
    BY <2>1 DEF HandingOff
  <2>2. CASE LiveTurn(m)
    <3>1. CASE marker = m /\ agent_status = "running"
      BY <2>2, <3>1, DrainKeepsGate
    <3>2. CASE \E c \in Drains : drain[c].msg = m /\ drain[c].pc \in HandingOff
      <4> PICK c \in Drains : drain[c].msg = m /\ drain[c].pc \in HandingOff
        BY <3>2
      <4>1. CASE c # d
        BY <4>1, DrainFrame
      <4>2. CASE c = d
        <5>1. CASE drain[d].pc = "publish"
          BY <1>3, <4>2, <5>1, DrainHands DEF HoldsItsRow, Working
        <5>2. CASE drain[d].pc = "delete"
          BY <4>2, <5>2, DrainHands DEF HandingOff
        <5>3. CASE drain[d].pc = "gate"
          BY <4>2, <5>3, DrainHands DEF takeSessionGate
        <5> QED
          BY <4>2, <5>1, <5>2, <5>3 DEF HandingOff
      <4> QED
        BY <4>1, <4>2
    <3> QED
      BY <2>2, <3>1, <3>2 DEF LiveIsKnown
  <2> QED
    BY <2>1, <2>2, DrainLive
<1> QED
  BY <1>1, <1>2, <1>3

-----------------------------------------------------------------------------
(* A message that leaves the queue is accounted for.                       *)

\* What a consumed hand-off leaves behind.
LEMMA ConsumedIsTold ==
    ASSUME row \in [Runs -> {"none"} \cup Open \cup Terminal], NEW m \in Messages, NEW n \in Ids,
           recordedHandoffState(m, n) = "consumed"
    PROVE  Told(m)
<1>1. row[<<m, n>>] \in {"none"} \cup Open \cup Terminal
  BY EventsTyped
<1>2. row[<<m, n>>] \in {"ended", "cancelled", "stopped", "failed", "unconfirmed"}
  BY <1>1 DEF recordedHandoffState, Open, Terminal
<1>3. CASE row[<<m, n>>] # "failed"
  BY <1>2, <1>3 DEF Told
<1>4. CASE row[<<m, n>>] = "failed"
  <2>1. \/ \E r \in RunsOf(m) : Reached(r) \/ row[r] \in {"cancelled", "stopped"}
        \/ \E e \in events : e.msg = m
    BY <1>4 DEF recordedHandoffState
  <2> QED
    BY <2>1 DEF Told, RunsOf, Reached, Open
<1> QED
  BY <1>3, <1>4

\* A drain has something to show for its message when it comes to take it off.
LEMMA DrainTells ==
    ASSUME IInv, NEW d \in Drains, DrainStep(d) \/ DrainFault(d), ~torn',
           drain[d].pc = "publish" => Told(drain[d].msg),
           drain'[d].pc \in {"publish", "delete", "forget", "drop"}
    PROVE  Told(drain[d].msg)'
<1> DEFINE m == drain[d].msg
           n == drain[d].run
<1>1. /\ DrainOK /\ drain \in [Drains -> DrainType] /\ drain[d] \in DrainType
      /\ row \in [Runs -> {"none"} \cup Open \cup Terminal]
      /\ drain[d].pc \in Working => m \in Messages
      /\ drain[d].pc \in WithRun => n \in Ids /\ <<m, n>> \in Runs
  BY InHandKnown, EventsTyped DEF IInv, TypeOK, DrainOK, WithRun
<1>2. \A pc : Go(d, pc) => /\ drain'[d].pc = pc
                           /\ pc # "release" => drain'[d].msg = m /\ drain'[d].run = n
  BY <1>1, GoGives
<1>3. drain' = [drain EXCEPT ![d] = Off] => drain'[d].pc = "off"
  BY <1>1, OffGives
<1> USE <1>2, <1>3 DEF rowVars, queueVars
<1>4. ~(takeClaim(d) \/ RejectPending(d) \/ GatePending(d) \/ DropPending(d) \/ ReleaseDrain(d)
        \/ OpenPendingFails(d) \/ AnnounceRefusalFails(d) \/ DeletePending(d)
        \/ PublishPendingStopped(d))
  BY DEF takeClaim, Return, RejectPending, GatePending, DropPending, ReleaseDrain,
     OpenPendingFails, AnnounceRefusalFails, DeletePending, PublishPendingStopped, Throw
<1>5. ~ReadQueue(d) /\ ~NameRefusal(d)
  BY <1>1 DEF ReadQueue, NameRefusal, DrainType
<1>6. ~reserveDispatchTaskId(d) /\ ~Recheck(d) /\ ~DrainCrash(d)
  <2>1. ~reserveDispatchTaskId(d)
    BY <1>1 DEF reserveDispatchTaskId, DrainType
  <2>2. ~Recheck(d)
    BY <1>1 DEF Recheck, Return, Off
  <2> QED
    BY <2>1, <2>2 DEF DrainCrash, Tear
<1>7. CASE CredentialsUnreadable(d) \/ AnnounceRefusal(d)
  <2>1. drain'[d].msg = m /\ \E k : Refusal(m, k) \in events'
    BY <1>7 DEF CredentialsUnreadable, AnnounceRefusal
  <2> QED
    BY <2>1 DEF Told, Refusal
<1>8. CASE BindRefused(d)
  <2> DEFINE stays == m \in ToSet(queue)
             final == attempts[m] + 1 >= BIND_MAX_ATTEMPTS /\ RunsOf(m) \cap OpenRuns = {}
  <2>1. (~stays /\ Go(d, "release")) \/ (stays /\ Throw(d))
        \/ (stays /\ final /\ Refusal(m, Fresh(m)) \in events' /\ Go(d, "drop"))
    BY <1>8 DEF BindRefused
  <2>2. Refusal(m, Fresh(m)) \in events' /\ drain'[d].msg = m
    BY <2>1 DEF Throw
  <2> QED
    BY <2>2 DEF Told, Refusal
<1>9. CASE PrepareHandoff(d) \/ RefusePending(d)
  <2>1. drain[d].pc \in {"classify", "refuse"} /\ row' = row /\ events' = events
    BY <1>9 DEF PrepareHandoff, RefusePending
  <2>2. m \in Messages /\ n \in Ids /\ row[<<m, n>>] \in {"none"} \cup Open \cup Terminal
    BY <1>1, <2>1 DEF Working, WithRun
  <2>3. recordedHandoffState(m, n) \in {"absent", "open", "unsettled", "consumed", "retryable"}
    BY <1>1, <2>2, HandoffKnown
  <2>4. recordedHandoffState(m, n) \in {"open", "consumed"}
    <3>1. CASE PrepareHandoff(d)
      BY <2>3, <3>1 DEF PrepareHandoff
    <3>2. CASE RefusePending(d)
      BY <2>3, <3>2 DEF RefusePending
    <3> QED
      BY <1>9, <3>1, <3>2
  <2>5. recordedHandoffState(m, n) = "open" => row[<<m, n>>] \in Open
    BY <2>2 DEF recordedHandoffState, Open, Terminal
  <2>6. Told(m)
    BY <1>1, <2>2, <2>4, <2>5, ConsumedIsTold DEF Told
  <2>7. drain'[d].msg = m
    BY <1>9 DEF PrepareHandoff, RefusePending
  <2> QED
    BY <2>1, <2>6, <2>7 DEF Told
<1>10. CASE \E kind \in Kinds(m) : OpenPending(d, kind)
  <2> PICK kind \in Kinds(m) : OpenPending(d, kind)
    BY <1>10
  <2>1. drain[d].pc = "open" /\ row' = [row EXCEPT ![<<m, n>>] = kind] /\ drain'[d].msg = m
    BY DEF OpenPending, Throw
  <2>2. n \in Ids /\ row'[<<m, n>>] \in Open
    BY <1>1, <2>1 DEF Working, WithRun, Kinds, Open
  <2> QED
    BY <2>1, <2>2 DEF Told
<1>11. CASE DiscardPending(d) \/ PublishPending(d) \/ PublishPendingFails(d)
  <2>1. /\ drain[d].pc = "publish" /\ events' = events
        /\ drain'[d].pc \in {"delete", "refuse", "off"}
        /\ drain'[d].pc = "delete" => drain'[d].msg = m
        /\ \/ row[<<m, n>>] = "running" /\ row' = [row EXCEPT ![<<m, n>>] = "running"]
           \/ row' = [row EXCEPT ![<<m, n>>] = IF @ = "preparing" THEN "delivered" ELSE @]
           \/ drain'[d].pc \in {"refuse", "off"}
    <3>1. CASE DiscardPending(d)
      BY <1>1, <3>1 DEF DiscardPending
    <3>2. CASE PublishPending(d)
      BY <1>1, <3>2 DEF PublishPending
    <3>3. CASE PublishPendingFails(d)
      BY <1>1, <3>3 DEF PublishPendingFails, Throw, eventVars
    <3> QED
      BY <1>11, <3>1, <3>2, <3>3
  <2>2. m \in Messages /\ n \in Ids /\ <<m, n>> \in Runs /\ Told(m)
    BY <1>1, <2>1 DEF Working, WithRun
  <2>3. \A k \in Ids : row'[<<m, k>>] = row[<<m, k>>] \/ row'[<<m, k>>] \in Open
    BY <1>1, <2>1, <2>2, EventsTyped DEF Open
  <2> QED
    BY <2>1, <2>2, <2>3 DEF Told
<1> QED
  BY <1>4, <1>5, <1>6, <1>7, <1>8, <1>9, <1>10, <1>11 DEF DrainStep, DrainFault

\* Only a drain that is done with a message takes it off the queue.
LEMMA DrainTakesOff ==
    ASSUME IInv, NEW d \in Drains, DrainStep(d) \/ DrainFault(d), ~torn',
           NEW m \in ToSet(queue) \ ToSet(queue')
    PROVE  drain[d].msg = m /\ drain[d].pc \in {"delete", "forget", "drop"}
<1>1. DeletePending(d) \/ DropPending(d)
  BY DEF DrainStep, DrainFault, takeClaim, ReadQueue, CredentialsUnreadable, BindRefused,
     reserveDispatchTaskId, PrepareHandoff, OpenPending, RejectPending, DiscardPending,
     PublishPending, PublishPendingStopped, GatePending, RefusePending, NameRefusal,
     AnnounceRefusal, ReleaseDrain, Recheck, OpenPendingFails, PublishPendingFails,
     AnnounceRefusalFails, DrainCrash, queueVars
<1>2. drain[d].pc \in {"delete", "forget", "drop"} /\ DeleteRow(drain[d].msg)
  BY <1>1 DEF DeletePending, DropPending, Tear
<1>3. drain[d].msg \in Messages
  BY <1>2, InHandKnown DEF IInv, Working
<1>4. ToSet(queue') = ToSet(queue) \ {drain[d].msg}
  BY <1>2, <1>3, DeleteDoes DEF IInv, TypeOK
<1> QED
  BY <1>2, <1>4

\* A drain that takes a message off the queue has something to show for it.
LEMMA DrainKeepsAccount ==
    ASSUME IInv, Calm, Accounted, NEW d \in Drains, DrainStep(d) \/ DrainFault(d), ~torn'
    PROVE  Accounted'
<1> USE DEF Calm
<1>1. at' = at /\ \A c \in Drains \ {d} : drain'[c] = drain[c]
  BY DrainFrame
<1>2. events \subseteq events'
  BY DrainReports
<1>3. \A r \in Runs : row'[r] = row[r] \/ Opens(d, r) \/ Delivers(d, r) \/ Closes(d, r)
  BY DrainRuns
<1>4. \A m \in Messages, n \in Ids : <<m, n>> \in Runs /\ <<m, n>>[1] = m
  BY EventsTyped
<1>5. ASSUME NEW m \in Messages, Told(m),
             drain[d].msg # m \/ drain[d].pc \notin {"bind", "open", "publish"}
      PROVE  Told(m)'
  <2>1. \A n \in Ids : row'[<<m, n>>] = row[<<m, n>>]
    BY <1>3, <1>4, <1>5 DEF Opens, Delivers, Closes
  <2> QED
    BY <1>2, <1>5, <2>1 DEF Told
<1>6. ASSUME NEW c \in Drains, drain'[c].pc \in {"publish", "delete", "forget", "drop"}
      PROVE  Told(drain[c].msg)'
  <2>1. CASE c = d
    BY <1>6, <2>1, DrainTells DEF Accounted
  <2>2. CASE c # d
    <3>1. drain'[c] = drain[c] /\ drain[c].msg \in Messages /\ Told(drain[c].msg)
          /\ drain[c].pc \in Past
      BY <1>1, <1>6, <2>2, InHandKnown DEF IInv, Accounted, Working, Past
    <3>2. drain[d].pc \notin {"bind", "open", "publish"}
      BY <2>2, <3>1, OneDrain DEF Past, Working
    <3>3. PICK k \in Messages : k = drain[c].msg
      BY <3>1
    <3>4. Told(k)'
      BY <1>5, <3>1, <3>2, <3>3
    <3> QED
      BY <3>1, <3>3, <3>4 DEF Told
  <2> QED
    BY <2>1, <2>2
<1>7. ASSUME NEW m \in Messages, at'[m] = "parked", m \notin ToSet(queue')
      PROVE  Told(m)'
  <2>1. CASE m \notin ToSet(queue)
    <3>1. Told(m)
      BY <1>1, <1>7, <2>1 DEF Accounted
    <3>2. drain[d].msg # m \/ drain[d].pc \notin {"bind", "open", "publish"}
      BY <2>1 DEF HoldsItsRow, Working
    <3> QED
      BY <1>5, <3>1, <3>2
  <2>2. CASE m \in ToSet(queue)
    <3>1. drain[d].msg = m /\ drain[d].pc \in {"delete", "forget", "drop"}
      BY <1>7, <2>2, DrainTakesOff
    <3> QED
      BY <1>5, <3>1 DEF Accounted
  <2> QED
    BY <2>1, <2>2
<1> QED
  BY <1>6, <1>7 DEF Accounted

\* The other steps leave something to show where there was.
LEMMA OthersKeepAccount ==
    ASSUME IInv, IInv', Calm, Accounted, Others, ~torn'
    PROVE  Accounted'
<1> USE DEF Calm
<1>1. \A c \in Drains : drain'[c] = drain[c] \/ (drain[c].pc = "off" /\ drain'[c].pc = "claim")
  BY OthersKeepClaim
<1>2. ASSUME NEW m \in Messages, at[m] = "parked", Told(m)
      PROVE  Told(m)'
  <2>1. CASE \E e \in events : e.msg = m
    BY <2>1, OthersReport DEF Told
  <2>2. CASE \E n \in Ids : row[<<m, n>>] \in Open \cup {"ended", "cancelled", "stopped", "unconfirmed"}
    <3> PICK n \in Ids : row[<<m, n>>] \in Open \cup {"ended", "cancelled", "stopped", "unconfirmed"}
      BY <2>2
    <3>1. RunMoves(<<m, n>>) /\ <<m, n>>[1] = m
      BY EventsTyped, OthersRuns
    <3>2. row'[<<m, n>>] \in {"none"} \cup Open \cup Terminal
      BY EventsTyped DEF IInv, TypeOK
    <3> QED
      BY <1>2, <3>1, <3>2 DEF RunMoves, Sends, SendDelivers, Taken, Ended, Told, Open, Terminal
  <2> QED
    BY <1>2, <2>1, <2>2 DEF Told
<1>3. ASSUME NEW c \in Drains, drain'[c].pc \in {"publish", "delete", "forget", "drop"}
      PROVE  Told(drain[c].msg)'
  <2>1. drain'[c] = drain[c] /\ Told(drain[c].msg)
    BY <1>1, <1>3 DEF Accounted
  <2>2. PICK k \in Messages : k = drain[c].msg /\ at[k] = "parked"
    BY <1>3, <2>1, InHandKnown DEF IInv, Working
  <2>3. Told(k)'
    BY <1>2, <2>1, <2>2
  <2> QED
    BY <2>1, <2>2, <2>3 DEF Told
<1>4. ASSUME NEW m \in Messages, at'[m] = "parked", m \notin ToSet(queue')
      PROVE  Told(m)'
  <2>1. ToSet(queue) \subseteq ToSet(queue')
    BY OthersRuns
  <2>2. at[m] = "parked"
    <3>1. RequestMoves(m)
      BY OthersRuns
    <3> QED
      BY <1>4, <3>1 DEF RequestMoves
  <2>3. Told(m)
    BY <1>4, <2>1, <2>2 DEF Accounted
  <2> QED
    BY <1>2, <2>2, <2>3
<1> QED
  BY <1>3, <1>4 DEF Accounted

-----------------------------------------------------------------------------
(* The theorems.                                                           *)

\* What is torn stays torn.
LEMMA TornStays ==
    ASSUME Others \/ \E d \in Drains : DrainStep(d) \/ DrainFault(d), ~torn'
    PROVE  ~torn
<1>1. CASE Others /\ ~StatusStep
  BY <1>1, Zenon DEF Others, Submit, QueueReport, SendStep, SendFault, OpenRun, DiscardRun,
     PublishRun, PublishRunStopped, Rollback, PublishRunFails, SenderCrash, HandBack,
     HandBackLost, ClaimLapses, ClaimLapsesEarly, BeginCompletion, ReleaseOnCompletion,
     HandlerCrash, ClaimRun, TakeMessage, Report, ReapRun, ReapOrphanedFatRun, StopSession,
     CancelUnheldRuns, SweeperDrains, reapStuckSessions, Tear, NoFault
<1>2. ASSUME NEW d \in Drains, DrainStep(d) \/ DrainFault(d)
      PROVE  ~torn
  <2>1. CASE CredentialsUnreadable(d)
    BY <2>1 DEF CredentialsUnreadable, NoFault
  <2>2. CASE BindRefused(d)
    BY <2>2 DEF BindRefused, NoFault
  <2>3. CASE PublishPendingFails(d)
    BY <2>3 DEF PublishPendingFails, Tear
  <2>4. CASE ~CredentialsUnreadable(d) /\ ~BindRefused(d) /\ ~PublishPendingFails(d)
    BY <1>2, <2>4, Zenon DEF DrainStep, DrainFault, takeClaim, ReadQueue,
       reserveDispatchTaskId, PrepareHandoff, OpenPending, RejectPending, DiscardPending,
       PublishPending, PublishPendingStopped, DeletePending, GatePending, RefusePending,
       NameRefusal, AnnounceRefusal, DropPending, ReleaseDrain, Recheck, OpenPendingFails,
       AnnounceRefusalFails, DrainCrash, Tear, NoFault
  <2> QED
    BY <2>1, <2>2, <2>3, <2>4
<1>3. CASE StatusStep
  BY <1>3, Zenon DEF StatusStep, taskInterrupted, taskResumed, SendNotice, handleStatusEvent
<1> QED
  BY <1>1, <1>2, <1>3

\* A session that is untouched is as calm as it was.
LEMMA CalmStands == Calm /\ UNCHANGED vars => Calm'
<1> SUFFICES ASSUME Calm, UNCHANGED vars PROVE Calm'
  OBVIOUS
<1> USE DEF Calm, vars, gateVars, queueVars, rowVars, eventVars
<1>1. ClaimIsHeld' /\ HoldsItsRow' /\ QueuedIsInHand' /\ PublishedOnce' /\ SentOnce'
  BY DEF ClaimIsHeld, HoldsItsRow, QueuedIsInHand, PublishedOnce, SentOnce
<1>2. LiveIsKnown' /\ NoOtherIsLive'
  BY DEF LiveIsKnown, NoOtherIsLive, LiveTurn, OpenRuns, Dispatching
<1>3. ReportedIsOver'
  BY DEF ReportedIsOver, Over, MayOpen, InHand
<1>4. ReleasedIsOver' /\ OwedWasOpened'
  BY DEF ReleasedIsOver, OwedWasOpened
<1> QED
  BY <1>1, <1>2, <1>3, <1>4

\* The session is calm at first: nothing has been sent.
LEMMA InitXInv == Init => XInv
<1> SUFFICES ASSUME Init PROVE Calm
  BY DEF XInv
<1>1. IInv
  BY InitIInv
<1>2. /\ \A d \in Drains : drain[d].pc = "off"
      /\ \A m \in Messages : at[m] = "new"
      /\ \A m \in Messages, n \in Ids : row[<<m, n>>] = "none"
      /\ OpenRuns = {} /\ claim = None /\ events = {} /\ owed = {} /\ handler.pc = "free"
  BY EventsTyped DEF Init, Off, NoEvent, OpenRuns, Open
<1>3. ClaimIsHeld /\ HoldsItsRow /\ NoOtherIsLive
  BY <1>2, Basics DEF ClaimIsHeld, HoldsItsRow, NoOtherIsLive, Early, Past, Working
<1>4. QueuedIsInHand /\ PublishedOnce /\ SentOnce
  BY <1>2 DEF QueuedIsInHand, PublishedOnce, SentOnce, Open
<1>5. LiveIsKnown
  BY <1>2 DEF LiveIsKnown, LiveTurn
<1>6. ReportedIsOver /\ ReleasedIsOver /\ OwedWasOpened
  BY <1>2 DEF ReportedIsOver, ReleasedIsOver, OwedWasOpened
<1> QED
  BY <1>3, <1>4, <1>5, <1>6 DEF Calm

\* Every step that tears nothing keeps it calm.
LEMMA NextXInv == IInv /\ IInv' /\ XInv /\ [Next]_vars => XInv'
<1> SUFFICES ASSUME IInv, IInv', XInv, [Next]_vars, ~torn' PROVE Calm'
  BY DEF XInv
<1>1. CASE UNCHANGED vars
  <2>1. ~torn
    BY <1>1, Zenon DEF vars
  <2> QED
    BY <1>1, <2>1, CalmStands DEF XInv
<1>2. CASE Others
  <2>1. Calm
    BY <1>2, TornStays DEF XInv
  <2> USE <1>2, <2>1 DEF Calm
  <2>2. ClaimIsHeld' /\ HoldsItsRow'
    BY OthersKeepClaim, OthersKeepRows
  <2>3. QueuedIsInHand' /\ PublishedOnce' /\ SentOnce'
    BY OthersKeepHand
  <2>4. ReportedIsOver'
    BY OthersKeepOver
  <2>5. ReleasedIsOver' /\ OwedWasOpened'
    BY <2>4, ReleasedStaysOver, OwedStaysOpened DEF IInv
  <2>6. LiveIsKnown' /\ NoOtherIsLive'
    BY <2>2, <2>3, LiveStaysKnown, NoOtherBecomesLive DEF IInv
  <2> QED
    BY <2>2, <2>3, <2>4, <2>5, <2>6
<1>3. CASE \E d \in Drains : DrainStep(d) \/ DrainFault(d)
  <2> PICK d \in Drains : DrainStep(d) \/ DrainFault(d)
    BY <1>3
  <2>1. Calm
    BY TornStays DEF XInv
  <2> USE <2>1 DEF Calm
  <2>2. ClaimIsHeld' /\ HoldsItsRow'
    BY DrainKeepsClaim, DrainKeepsRows
  <2>3. QueuedIsInHand' /\ PublishedOnce' /\ SentOnce'
    BY DrainKeepsHand
  <2>4. ReportedIsOver'
    BY DrainKeepsOver
  <2>5. ReleasedIsOver' /\ OwedWasOpened'
    BY <2>4, ReleasedStaysOver, OwedStaysOpened DEF IInv
  <2>6. LiveIsKnown' /\ NoOtherIsLive'
    BY <2>2, <2>3, LiveStaysKnown, NoOtherBecomesLive DEF IInv
  <2> QED
    BY <2>2, <2>3, <2>4, <2>5, <2>6
<1> QED
  BY <1>1, <1>2, <1>3 DEF Next, Others, StatusStep

\* So the session is calm for as long as nothing is torn.
LEMMA CalmUnlessTorn == Spec => []XInv
BY InitXInv, NextXInv, Invariance, PTL DEF Spec

\* Unless something is torn, or a live turn was reported interrupted (consumer.ts,
\* handleStatusEvent), a session has one live turn at most: it is the one the gate names,
\* or the one the drain with the claim hands off.
THEOREM OneAtATime == Spec => []OneTurnAtATime
<1>1. XInv => OneTurnAtATime
  <2> SUFFICES ASSUME Calm PROVE Cardinality({m \in Messages : LiveTurn(m)}) <= 1
    BY DEF XInv, OneTurnAtATime
  <2> DEFINE S == {m \in Messages : LiveTurn(m)}
  <2>1. \A m, k \in S : m = k
    <3> SUFFICES ASSUME NEW m \in S, NEW k \in S PROVE m = k
      OBVIOUS
    <3>1. \/ marker = m /\ agent_status = "running"
          \/ \E d \in Drains : drain[d].msg = m /\ drain[d].pc \in HandingOff
      BY DEF Calm, LiveIsKnown
    <3>2. \/ marker = k /\ agent_status = "running"
          \/ \E d \in Drains : drain[d].msg = k /\ drain[d].pc \in HandingOff
      BY DEF Calm, LiveIsKnown
    <3>3. \A d \in Drains : drain[d].pc \in HandingOff => drain[d].msg = m /\ drain[d].msg = k
      BY DEF Calm, NoOtherIsLive, HandingOff, Early, Past, Working
    <3> QED
      BY <3>1, <3>2, <3>3
  <2>2. CASE S = {}
    BY <2>2, FS_EmptySet
  <2>3. CASE S # {}
    <3>1. PICK m \in S : TRUE
      BY <2>3
    <3>2. S = {m}
      BY <2>1, <3>1
    <3>3. Cardinality({m}) = 1
      BY FS_Singleton
    <3> HIDE DEF S
    <3>4. Cardinality(S) <= 1
      BY <3>2, <3>3
    <3> QED
      BY <3>4 DEF S
  <2> QED
    BY <2>2, <2>3
<1> QED
  BY <1>1, CalmUnlessTorn, PTL

\* And nobody opens or takes over the gate it has: every release is either conditional
\* on the turn the gate names or on there being no open run, and a turn that has the
\* gate before its run is open has reported nothing and owes nothing.
THEOREM LiveTurnHasItsGate == Spec => LiveTurnKeepsItsGate
<1> DEFINE Kept == \A m \in Messages :
                      marker = m /\ marker' # m /\ ~torn' => ~(LiveTurn(m) /\ LiveTurn(m)')
<1>1. IInv /\ XInv /\ [Next]_vars => [Kept]_vars
  <2> SUFFICES ASSUME IInv, XInv, Next, NEW m \in Messages, marker = m, ~torn',
                      LiveTurn(m), LiveTurn(m)'
               PROVE  marker' = m
    OBVIOUS
  <2>1. Others \/ \E d \in Drains : DrainStep(d) \/ DrainFault(d)
    BY DEF Next, Others, StatusStep
  <2>2. Calm
    BY <2>1, TornStays DEF XInv
  <2>3. CASE Others
    BY <2>2, <2>3, OthersKeepGate DEF Calm
  <2>4. CASE \E d \in Drains : DrainStep(d) \/ DrainFault(d)
    BY <2>2, <2>4, DrainKeepsGate DEF Calm
  <2> QED
    BY <2>1, <2>3, <2>4
<1> QED
  BY <1>1, CalmUnlessTorn, Invariance, PTL DEF Spec, LiveTurnKeepsItsGate

\* Accounts are kept for as long as nothing is torn.
LEMMA AccountedUnlessTorn == Spec => []AInv
<1>1. Init => AInv
  <2> SUFFICES ASSUME Init PROVE Accounted
    BY DEF AInv
  <2> QED
    BY DEF Init, Off, Accounted
<1>2. IInv /\ IInv' /\ XInv /\ AInv /\ [Next]_vars => AInv'
  <2> SUFFICES ASSUME IInv, IInv', XInv, AInv, [Next]_vars, ~torn' PROVE Accounted'
    BY DEF AInv
  <2>1. CASE UNCHANGED vars
    <3>1. ~torn
      BY <2>1, Zenon DEF vars
    <3>2. Accounted
      BY <3>1 DEF AInv
    <3> QED
      BY <2>1, <3>2 DEF Accounted, Told, vars, queueVars, rowVars, eventVars
  <2>2. CASE Others \/ \E d \in Drains : DrainStep(d) \/ DrainFault(d)
    <3>1. Calm /\ Accounted
      BY <2>2, TornStays DEF XInv, AInv
    <3> QED
      BY <2>2, <3>1, OthersKeepAccount, DrainKeepsAccount
  <2> QED
    BY <2>1, <2>2 DEF Next, Others, StatusStep
<1> QED
  BY <1>1, <1>2, CalmUnlessTorn, Invariance, PTL DEF Spec

\* And unless something is torn a parked message that is off the queue has a run, or had
\* one that a worker, Stop or the sweeper ended, or was reported: a drain deletes its row
\* after the hand-off, and a refusal is published before the row is dropped.
THEOREM ParkedIsAccountedFor == Spec => [](~torn => ParkedTurnIsAccountedFor)
<1>1. AInv => (~torn => ParkedTurnIsAccountedFor)
  BY DEF AInv, Accounted, Told, ParkedTurnIsAccountedFor, RunsOf
<1> QED
  BY <1>1, AccountedUnlessTorn, PTL
=============================================================================
