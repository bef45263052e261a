------------------------- MODULE SessionGateProofs -------------------------
(***************************************************************************)
(* A turn of a session runs at most once, for every number of messages,    *)
(* drains and faults.                                                      *)
(***************************************************************************)
EXTENDS SessionGate, FiniteSetTheorems, SequenceTheorems, WellFoundedInduction, TLAPS

-----------------------------------------------------------------------------
(* The inductive invariant.                                                *)

\* Where a drain has a message in hand, and where it has none.
Working == {"bind", "reserve", "classify", "open", "publish", "delete", "forget", "gate",
            "refuse", "name", "announce", "drop"}
Resting == {"off", "claim", "read", "release", "recheck"}

\* Where it has an id for the message's run.
WithRun == Working \ {"bind", "drop"}

DrainType == [pc : Resting \cup Working, msg : Messages \cup {None}, run : Ids \cup {0},
              rounds : Nat, took : BOOLEAN]

\* What a drain has in hand where it is.
Fits(v) ==
    /\ v.pc \in Working => v.msg \in Messages /\ at[v.msg] = "parked"
    /\ v.pc \in Resting => v.msg = None
    /\ v.pc \in WithRun => v.run \in Ids
    /\ v.pc = "off" => v = Off

DrainOK ==
    /\ drain \in [Drains -> DrainType]
    /\ \A d \in Drains : Fits(drain[d])
    /\ \A m \in Messages : at[m] = "new" => drain[m].pc = "off"

\* The consumer's drain serves the completion being handled.
HandlerOK ==
    /\ handler.pc = "drain" <=> drain[Consumer].pc # "off"
    /\ handler.pc # "free" => handler.event \in events

\* What is in the queue was parked, only what is in the queue has a reservation, and
\* what was not sent yet has no run.
QueueOK ==
    \A m \in Messages :
        /\ m \in ToSet(queue) => at[m] = "parked"
        /\ m \notin ToSet(queue) => reserved[m] = 0
        /\ at[m] \in {"new", "gated"} => \A n \in Ids : row[<<m, n>>] = "none"

\* A drain may still open the run n of m: it has it in hand, or will find it reserved.
InHand(m, n) ==
    \E d \in Drains : drain[d].msg = m /\ drain[d].run = n /\ drain[d].pc \in {"classify", "open"}

MayOpen(m, n) == reserved[m] = n \/ InHand(m, n)

\* The runs of m that execute, have executed, or may come to.
Candidate(m, n) ==
    \/ row[<<m, n>>] \in Open \cup {"ended"}
    \/ row[<<m, n>>] = "none" /\ MayOpen(m, n)

\* A message has one candidate at most, the one it is reserved for; and none while a
\* new id may be minted for it.
OneCandidate ==
    \A m \in Messages :
        /\ \A n, k \in Ids : Candidate(m, n) /\ Candidate(m, k) => n = k
        /\ reserved[m] # 0 => \A n \in Ids : Candidate(m, n) => n = reserved[m]
        /\ m \in ToSet(queue) /\ reserved[m] = 0 => \A n \in Ids : ~Candidate(m, n)

\* No drain comes by a run it could open: only reserveDispatchTaskId does that.
NoneNew == \A m \in Messages, n \in Ids : InHand(m, n)' => InHand(m, n)

IInv == TypeOK /\ DrainOK /\ HandlerOK /\ QueueOK /\ OneCandidate

-----------------------------------------------------------------------------
(* The queue.                                                              *)

\* A set of naturals that is not empty has a least member, and it is its Min.
LEMMA MinIsIn ==
    ASSUME NEW S, S \subseteq Nat, S # {}
    PROVE  Min(S) \in S /\ \A y \in S : Min(S) =< y
<1>1. IsWellFoundedOn(OpToRel(<, Nat), Nat)
  BY NatLessThanWellFounded, Zenon
<1>2. PICK x \in S : \A y \in S : ~(<<y, x>> \in OpToRel(<, Nat))
  BY <1>1, WFMin, Zenon
<1>3. \A y \in S : ~(y < x)
  BY <1>2 DEF OpToRel
<1>4. \A y \in S : x =< y
  BY <1>3
<1> QED
  BY <1>4 DEF Min

\* Which message a drain reads: one of the queue.
LEMMA NextIsQueued ==
    ASSUME queue \in Seq(Messages), queue # <<>>
    PROVE  NextPending \in ToSet(queue) /\ NextPending \in Messages
<1> DEFINE S == IF Users # {} THEN Users ELSE DOMAIN queue
<1>1. DOMAIN queue = 1 .. Len(queue) /\ Len(queue) \in Nat /\ Len(queue) # 0
  BY EmptySeq
<1>2. S \subseteq DOMAIN queue /\ S \subseteq Nat /\ S # {}
  BY <1>1 DEF Users
<1>3. Min(S) \in S
  <2> HIDE DEF S
  <2> QED
    BY <1>2, MinIsIn
<1>4. Min(S) \in DOMAIN queue
  BY <1>2, <1>3
<1> QED
  BY <1>4 DEF NextPending, ToSet

\* A message that is parked comes last, and was not there.
LEMMA ParkDoes ==
    ASSUME queue \in Seq(Messages), IsInjective(queue), NEW m \in Messages,
           m \notin ToSet(queue), queue' = Append(queue, m)
    PROVE  /\ queue' \in Seq(Messages) /\ IsInjective(queue')
           /\ ToSet(queue') = ToSet(queue) \cup {m}
<1>1. /\ queue' \in Seq(Messages)
      /\ DOMAIN queue' = 1 .. Len(queue) + 1 /\ DOMAIN queue = 1 .. Len(queue)
      /\ Len(queue) \in Nat
      /\ \A i \in 1 .. Len(queue) : queue'[i] = queue[i]
      /\ queue'[Len(queue) + 1] = m
  BY AppendProperties
<1>2. \A i \in DOMAIN queue : queue[i] # m
  BY DEF ToSet
<1>3. IsInjective(queue')
  BY <1>1, <1>2 DEF IsInjective
<1>4. ToSet(queue') = ToSet(queue) \cup {m}
  BY <1>1 DEF ToSet
<1> QED
  BY <1>1, <1>3, <1>4

\* A row that is deleted leaves the queue, and the others stay.
LEMMA DeleteDoes ==
    ASSUME queue \in Seq(Messages), IsInjective(queue), NEW m \in Messages, DeleteRow(m)
    PROVE  /\ queue' \in Seq(Messages) /\ IsInjective(queue')
           /\ ToSet(queue') = ToSet(queue) \ {m}
<1>1. CASE m \notin ToSet(queue)
  BY <1>1 DEF DeleteRow
<1>2. CASE m \in ToSet(queue)
  <2> DEFINE i == CHOOSE j \in DOMAIN queue : queue[j] = m
  <2> DEFINE a == SubSeq(queue, 1, i - 1)
  <2> DEFINE b == SubSeq(queue, i + 1, Len(queue))
  <2>1. i \in DOMAIN queue /\ queue[i] = m
    BY <1>2 DEF ToSet
  <2>2. DOMAIN queue = 1 .. Len(queue) /\ Len(queue) \in Nat
    OBVIOUS
  <2>3. queue' = a \o b
    BY <1>2 DEF DeleteRow, RemoveAt
  <2> HIDE DEF i
  <2>4. /\ a \in Seq(Messages) /\ Len(a) = i - 1
        /\ \A j \in 1 .. i - 1 : a[j] = queue[j]
    BY <2>1, <2>2, SubSeqProperties
  <2>5. /\ b \in Seq(Messages) /\ Len(b) = Len(queue) - i
        /\ \A j \in 1 .. Len(queue) - i : b[j] = queue[i + j]
    BY <2>1, <2>2, SubSeqProperties
  <2> HIDE DEF a, b
  <2>6. /\ queue' \in Seq(Messages) /\ Len(queue') = Len(queue) - 1
        /\ \A j \in 1 .. Len(queue) - 1 : queue'[j] = IF j < i THEN queue[j] ELSE queue[j + 1]
    <3>1. /\ a \o b \in Seq(Messages) /\ Len(a \o b) = Len(a) + Len(b)
          /\ \A j \in 1 .. Len(a) + Len(b) :
                (a \o b)[j] = IF j <= Len(a) THEN a[j] ELSE b[j - Len(a)]
      BY <2>4, <2>5, ConcatProperties, Zenon
    <3>2. queue' \in Seq(Messages) /\ Len(queue') = Len(queue) - 1
      BY <2>1, <2>2, <2>3, <2>4, <2>5, <3>1
    <3>3. ASSUME NEW j \in 1 .. Len(queue) - 1
          PROVE  queue'[j] = IF j < i THEN queue[j] ELSE queue[j + 1]
      <4>1. queue'[j] = IF j <= i - 1 THEN a[j] ELSE b[j - (i - 1)]
        BY <2>1, <2>2, <2>3, <2>4, <2>5, <3>1
      <4>2. CASE j < i
        BY <2>1, <2>2, <2>4, <4>1, <4>2
      <4>3. CASE ~(j < i)
        <5>1. j - (i - 1) \in 1 .. Len(queue) - i /\ i + (j - (i - 1)) = j + 1
          BY <2>1, <2>2, <4>3
        <5> QED
          BY <2>1, <2>2, <2>5, <4>1, <4>3, <5>1
      <4> QED
        BY <4>2, <4>3
    <3> QED
      BY <3>2, <3>3
  <2>7. DOMAIN queue' = 1 .. Len(queue) - 1
    BY <2>6
  <2>8. IsInjective(queue')
    <3> SUFFICES ASSUME NEW j \in DOMAIN queue', NEW k \in DOMAIN queue', queue'[j] = queue'[k]
                 PROVE  j = k
      BY DEF IsInjective
    <3> DEFINE Was(x) == IF x < i THEN x ELSE x + 1
    <3>1. Was(j) \in DOMAIN queue /\ Was(k) \in DOMAIN queue
      BY <2>1, <2>2, <2>7
    <3>2. queue'[j] = queue[Was(j)] /\ queue'[k] = queue[Was(k)]
      BY <2>6, <2>7
    <3>3. Was(j) = Was(k)
      <4> HIDE DEF Was
      <4> QED
        BY <3>1, <3>2 DEF IsInjective
    <3> QED
      BY <2>1, <2>2, <2>7, <3>3
  <2>9. ASSUME NEW j \in DOMAIN queue'
        PROVE  queue'[j] \in ToSet(queue) \ {m}
    BY <2>1, <2>2, <2>6, <2>7 DEF IsInjective, ToSet
  <2>10. ASSUME NEW k \in DOMAIN queue, queue[k] # m
         PROVE  queue[k] \in ToSet(queue')
    <3>1. CASE k < i
      BY <2>1, <2>2, <2>6, <2>7, <3>1 DEF ToSet
    <3>2. CASE k > i
      <4>1. k - 1 \in DOMAIN queue' /\ queue'[k - 1] = queue[k]
        BY <2>1, <2>2, <2>6, <2>7, <3>2
      <4> QED
        BY <4>1 DEF ToSet
    <3> QED
      BY <2>1, <2>2, <2>10, <3>1, <3>2
  <2>11. ToSet(queue') = ToSet(queue) \ {m}
    BY <2>9, <2>10 DEF ToSet
  <2> QED
    BY <2>6, <2>8, <2>11
<1> QED
  BY <1>1, <1>2

-----------------------------------------------------------------------------
(* The drains.                                                             *)

USE GateAssumption

\* What is not a message, and where a drain rests.
LEMMA Basics ==
    /\ None \notin Messages /\ Consumer \notin Messages /\ Sweeper \notin Messages
    /\ Consumer # Sweeper /\ None # Consumer /\ None # Sweeper
    /\ None \notin Drains /\ Messages \subseteq Drains
    /\ Consumer \in Drains /\ Sweeper \in Drains
    /\ 1 \in Ids /\ 0 \notin Ids /\ Ids \subseteq Nat
    /\ Off \in DrainType /\ Off.pc = "off" /\ Off.msg = None /\ Off.run = 0 /\ Fits(Off)
<1>1. /\ None \notin Messages /\ Consumer \notin Messages /\ Sweeper \notin Messages
      /\ Consumer # Sweeper /\ None # Consumer /\ None # Sweeper
      /\ None \notin Drains /\ Messages \subseteq Drains
      /\ Consumer \in Drains /\ Sweeper \in Drains
  BY DEF GateAssumption, Drains
<1>2. 1 \in Ids /\ 0 \notin Ids /\ Ids \subseteq Nat
  BY DEF GateAssumption, Ids
<1>3. Off \in DrainType /\ Off.pc = "off" /\ Off.msg = None /\ Off.run = 0 /\ Fits(Off)
  BY DEF Off, DrainType, Fits, Working, Resting, WithRun
<1> QED
  BY <1>1, <1>2, <1>3

\* A drain at work takes a step.
LEMMA Moves ==
    ASSUME DrainOK, HandlerOK, NEW d \in Drains, drain[d].pc # "off",
           NEW v \in DrainType, Fits(v), v.pc # "off",
           drain' = [drain EXCEPT ![d] = v], at' = at,
           handler' = handler, events \subseteq events'
    PROVE  DrainOK' /\ HandlerOK'
<1>1. drain' \in [Drains -> DrainType] /\ drain'[d] = v
      /\ \A c \in Drains \ {d} : drain'[c] = drain[c]
  BY DEF DrainOK
<1>2. \A c \in Drains : Fits(drain[c])'
  <2> SUFFICES ASSUME NEW c \in Drains PROVE Fits(drain[c])'
    OBVIOUS
  <2>1. CASE c = d
    BY <1>1, <2>1 DEF Fits
  <2>2. CASE c # d
    BY <1>1, <2>2 DEF Fits, DrainOK
  <2> QED
    BY <2>1, <2>2
<1>3. \A m \in Messages : at'[m] = "new" => drain'[m].pc = "off"
  BY <1>1, Basics DEF DrainOK
<1>4. HandlerOK'
  BY <1>1, Basics DEF HandlerOK
<1> QED
  BY <1>1, <1>2, <1>3, <1>4 DEF DrainOK

\* A drain ends, and the completion it served with it.
LEMMA Ends ==
    ASSUME DrainOK, HandlerOK, NEW d \in Drains, drain' = [drain EXCEPT ![d] = Off], at' = at,
           handler' = IF d = Consumer THEN NoEvent ELSE handler, events \subseteq events'
    PROVE  DrainOK' /\ HandlerOK' /\ NoneNew
<1>1. drain' \in [Drains -> DrainType] /\ drain'[d] = Off
      /\ \A c \in Drains \ {d} : drain'[c] = drain[c]
  BY Basics DEF DrainOK
<1>2. \A c \in Drains : Fits(drain[c])'
  <2> SUFFICES ASSUME NEW c \in Drains PROVE Fits(drain[c])'
    OBVIOUS
  <2>1. CASE c = d
    BY <1>1, <2>1, Basics DEF Fits
  <2>2. CASE c # d
    BY <1>1, <2>2 DEF Fits, DrainOK
  <2> QED
    BY <2>1, <2>2
<1>3. \A m \in Messages : at'[m] = "new" => drain'[m].pc = "off"
  BY <1>1, Basics DEF DrainOK
<1>4. HandlerOK'
  <2>1. CASE d = Consumer
    BY <1>1, <2>1, Basics DEF HandlerOK, NoEvent
  <2>2. CASE d # Consumer
    BY <1>1, <2>2, Basics DEF HandlerOK
  <2> QED
    BY <2>1, <2>2
<1>5. NoneNew
  BY <1>1, Basics DEF NoneNew, InHand
<1> QED
  BY <1>1, <1>2, <1>3, <1>4, <1>5 DEF DrainOK

\* What Go leaves of a drain.
LEMMA Goes ==
    ASSUME DrainOK, HandlerOK, NEW d \in Drains, drain[d].pc # "off",
           NEW pc \in (Resting \cup Working) \ {"off"}, Go(d, pc), at' = at,
           pc \in Resting => pc = "release" \/ drain[d].pc \in Resting,
           pc \in Working => drain[d].pc \in Working,
           pc \in WithRun => drain[d].pc \in WithRun,
           pc \in {"classify", "open"} => drain[d].pc \in {"classify", "open"},
           handler' = handler, events \subseteq events'
    PROVE  DrainOK' /\ HandlerOK' /\ NoneNew
<1> DEFINE rest == IF pc = "release" THEN [Off EXCEPT !.rounds = drain[d].rounds] ELSE drain[d]
<1> DEFINE v == [rest EXCEPT !.pc = pc]
<1>1. drain' = [drain EXCEPT ![d] = v]
  BY DEF Go
<1>2. drain[d] \in DrainType /\ Fits(drain[d])
  BY DEF DrainOK
<1>3. /\ v \in DrainType /\ v.pc = pc
      /\ v.msg = (IF pc = "release" THEN None ELSE drain[d].msg)
      /\ v.run = (IF pc = "release" THEN 0 ELSE drain[d].run)
  <2>1. CASE pc = "release"
    BY <1>2, <2>1 DEF DrainType, Off
  <2>2. CASE pc # "release"
    BY <1>2, <2>2 DEF DrainType
  <2> QED
    BY <2>1, <2>2
<1> HIDE DEF v
<1>4. Fits(v)
  BY <1>2, <1>3 DEF Fits, Working, Resting, WithRun
<1>5. DrainOK' /\ HandlerOK'
  BY <1>1, <1>3, <1>4, Moves
<1>6. NoneNew
  <2>1. drain'[d] = v /\ \A c \in Drains \ {d} : drain'[c] = drain[c]
    BY <1>1 DEF DrainOK
  <2> QED
    BY <1>3, <2>1 DEF NoneNew, InHand
<1> QED
  BY <1>5, <1>6

\* The end of a drain that returns.
LEMMA Returns ==
    ASSUME DrainOK, HandlerOK, NEW d \in Drains, Return(d), at' = at, events' = events
    PROVE  DrainOK' /\ HandlerOK' /\ NoneNew
BY Ends DEF Return

\* The same for one that throws.
LEMMA Throws ==
    ASSUME DrainOK, HandlerOK, NEW d \in Drains, Throw(d), at' = at, events \subseteq events'
    PROVE  DrainOK' /\ HandlerOK' /\ NoneNew
BY Ends DEF Throw

\* A drain begins: for a message just parked, or for the sweeper.
LEMMA Starts ==
    ASSUME DrainOK, HandlerOK, NEW d \in Drains \ {Consumer}, drain[d].pc = "off",
           drain' = [drain EXCEPT ![d] = [Off EXCEPT !.pc = "claim"]],
           \A m \in Messages : at[m] = "parked" => at'[m] = "parked",
           \A m \in Messages : at'[m] = "new" => at[m] = "new" /\ m # d,
           handler' = handler, events' = events
    PROVE  DrainOK' /\ HandlerOK' /\ NoneNew
<1> DEFINE v == [Off EXCEPT !.pc = "claim"]
<1>1. v \in DrainType /\ v.pc = "claim" /\ v.msg = None
  BY Basics DEF DrainType, Off, Resting
<1> HIDE DEF v
<1>2. drain' \in [Drains -> DrainType] /\ drain'[d] = v
      /\ \A c \in Drains \ {d} : drain'[c] = drain[c]
  BY <1>1 DEF DrainOK, v
<1>3. \A c \in Drains : Fits(drain[c])'
  <2> SUFFICES ASSUME NEW c \in Drains PROVE Fits(drain[c])'
    OBVIOUS
  <2>1. CASE c = d
    BY <1>1, <1>2, <2>1 DEF Fits, Working, WithRun
  <2>2. CASE c # d
    BY <1>2, <2>2 DEF Fits, DrainOK
  <2> QED
    BY <2>1, <2>2
<1>4. \A m \in Messages : at'[m] = "new" => drain'[m].pc = "off"
  BY <1>2, Basics DEF DrainOK
<1>5. HandlerOK'
  BY <1>2, Basics DEF HandlerOK
<1>6. NoneNew
  BY <1>1, <1>2 DEF NoneNew, InHand
<1> QED
  BY <1>2, <1>3, <1>4, <1>5, <1>6 DEF DrainOK

\* A step that is no drain's.
LEMMA Stands ==
    ASSUME DrainOK, HandlerOK, drain' = drain,
           \A m \in Messages : at[m] = "parked" => at'[m] = "parked",
           \A m \in Messages : at'[m] = "new" => at[m] = "new",
           handler' = handler, events \subseteq events'
    PROVE  DrainOK' /\ HandlerOK' /\ NoneNew
<1>1. \A c \in Drains : Fits(drain[c])'
  BY DEF DrainOK, Fits
<1> QED
  BY <1>1 DEF DrainOK, HandlerOK, NoneNew, InHand

\* A row is in one of the states a hand-off is classified by, and only a run that is
\* over can be called retryable.
LEMMA HandoffKnown ==
    ASSUME row \in [Runs -> {"none"} \cup Open \cup Terminal], NEW m \in Messages, NEW n \in Ids
    PROVE  /\ recordedHandoffState(m, n)
                \in {"absent", "open", "unsettled", "consumed", "retryable"}
           /\ recordedHandoffState(m, n) = "retryable" =>
                row[<<m, n>>] \in {"failed", "unconfirmed"}
<1>1. row[<<m, n>>] \in {"none"} \cup Open \cup Terminal
  BY DEF Runs
<1> QED
  BY <1>1 DEF recordedHandoffState, Open, Terminal

\* What a drain with a message in hand knows of it.
LEMMA InHandKnown ==
    ASSUME DrainOK, NEW d \in Drains
    PROVE  /\ drain[d] \in DrainType
           /\ drain[d].pc \in Working => drain[d].msg \in Messages /\ at[drain[d].msg] = "parked"
           /\ drain[d].pc \in Resting => drain[d].msg = None
           /\ drain[d].pc \in WithRun => drain[d].run \in Ids
BY DEF DrainOK, Fits

\* A worker reports a status, or the consumer applies one.
StatusStep ==
    \/ \E r \in Runs : taskInterrupted(r) \/ taskResumed(r)
    \/ \E n \in notices : handleStatusEvent(n)

\* They touch nothing but the status.
LEMMA StatusKeeps ==
    ASSUME StatusStep
    PROVE  /\ marker' = marker /\ claim' = claim /\ queue' = queue /\ reserved' = reserved
           /\ attempts' = attempts /\ row' = row /\ stream' = stream /\ sent' = sent
           /\ events' = events /\ processed' = processed /\ at' = at /\ drain' = drain
           /\ handler' = handler /\ owed' = owed
BY DEF StatusStep, taskInterrupted, taskResumed, SendNotice, handleStatusEvent, Outside,
       gateVars, queueVars, rowVars, eventVars

-----------------------------------------------------------------------------
(* Each step leaves every drain with what it needs, and only a reservation  *)
(* gives a drain a run to open.                                            *)

\* The steps of a message's request.
LEMMA SendKeepsDrains ==
    ASSUME IInv, NEW m \in Messages,
           Submit(m) \/ QueueReport(m) \/ SendStep(m) \/ SendFault(m)
             \/ HandBack(m) \/ HandBackLost(m)
    PROVE  DrainOK' /\ HandlerOK' /\ NoneNew
<1> USE DEF IInv
<1>1. at \in [Messages -> {"new", "parked", "gated", "opened", "rollback", "done"}]
  BY DEF TypeOK
<1>2. ASSUME at[m] = "new", Go(m, "claim")
      PROVE  drain' = [drain EXCEPT ![m] = [Off EXCEPT !.pc = "claim"]]
  <2>1. drain[m] = Off
    BY <1>2, Basics DEF DrainOK, Fits
  <2> QED
    BY <1>2, <2>1 DEF Go
<1>3. at[m] = "new" => drain[m].pc = "off"
  BY DEF DrainOK
<1>4. m \in Drains \ {Consumer}
  BY Basics
<1>5. CASE Submit(m)
  <2>1. CASE drain' = drain
    BY <1>1, <1>5, <2>1, Stands DEF Submit, Park, NoFault, eventVars
  <2>2. CASE at[m] = "new" /\ Go(m, "claim") /\ Park(m)
    <3>1. drain' = [drain EXCEPT ![m] = [Off EXCEPT !.pc = "claim"]]
      BY <1>2, <2>2
    <3> QED
      BY <1>1, <1>3, <1>4, <1>5, <2>2, <3>1, Starts DEF Submit, Park, eventVars
  <2> QED
    BY <1>5, <2>1, <2>2 DEF Submit
<1>6. CASE QueueReport(m)
  <2>1. drain' = [drain EXCEPT ![m] = [Off EXCEPT !.pc = "claim"]]
    BY <1>2, <1>6 DEF QueueReport
  <2> QED
    BY <1>1, <1>3, <1>4, <1>6, <2>1, Starts DEF QueueReport, Park, eventVars
<1>7. CASE SendStep(m) \/ SendFault(m)
  <2>1. drain' = drain /\ handler' = handler /\ events' = events
    BY <1>7 DEF SendStep, SendFault, OpenRun, DiscardRun, PublishRun, PublishRunStopped, Rollback,
                PublishRunFails, SenderCrash, InSubmit, eventVars
  <2>2. \E a \in {"opened", "rollback", "done"} :
           at[m] \notin {"parked", "new"} /\ at' = [at EXCEPT ![m] = a]
    BY <1>7 DEF SendStep, SendFault, OpenRun, DiscardRun, PublishRun, PublishRunStopped, Rollback,
                PublishRunFails, SenderCrash
  <2> QED
    BY <1>1, <2>1, <2>2, Stands
<1>8. CASE HandBack(m) \/ HandBackLost(m)
  BY <1>8, Stands DEF HandBack, HandBackLost, eventVars, Outside
<1> QED
  BY <1>5, <1>6, <1>7, <1>8

\* Completions, workers, the sweeper, Stop and the lapse of a claim.
LEMMA OthersKeepDrains ==
    ASSUME IInv,
           \/ ClaimLapses \/ ClaimLapsesEarly
           \/ \E e \in events : BeginCompletion(e)
           \/ ReleaseOnCompletion \/ HandlerCrash
           \/ \E r \in Runs : ClaimRun(r) \/ TakeMessage(r) \/ Report(r)
                                \/ ReapRun(r) \/ ReapOrphanedFatRun(r)
           \/ StatusStep
           \/ StopSession \/ CancelUnheldRuns \/ SweeperDrains \/ reapStuckSessions
    PROVE  DrainOK' /\ HandlerOK' /\ NoneNew
<1> USE DEF IInv
<1>1. CASE \/ ClaimLapses \/ ClaimLapsesEarly
           \/ \E r \in Runs : ClaimRun(r) \/ TakeMessage(r) \/ Report(r)
                                \/ ReapRun(r) \/ ReapOrphanedFatRun(r)
           \/ StopSession \/ CancelUnheldRuns \/ reapStuckSessions
  <2>1. drain' = drain /\ handler' = handler /\ at' = at /\ events \subseteq events'
    BY <1>1 DEF ClaimLapses, ClaimLapsesEarly, ClaimRun, TakeMessage, Report, ReapRun,
                ReapOrphanedFatRun, CloseRun, StopSession, CancelUnheldRuns, reapStuckSessions,
                Outside, eventVars
  <2> QED
    BY <2>1, Stands
<1>2. CASE \E e \in events : BeginCompletion(e)
  <2> PICK e \in events : BeginCompletion(e)
    BY <1>2
  <2>1. handler.pc = "free" /\ drain' = drain /\ at' = at /\ events' = events
    BY DEF BeginCompletion
  <2>2. handler' = handler \/ handler' = [pc |-> "release", event |-> e]
    BY DEF BeginCompletion
  <2>3. CASE handler' = handler
    BY <2>1, <2>3, Stands
  <2>4. CASE handler' = [pc |-> "release", event |-> e]
    <3>1. \A c \in Drains : Fits(drain[c])'
      BY <2>1 DEF DrainOK, Fits
    <3>2. HandlerOK'
      BY <2>1, <2>4 DEF HandlerOK
    <3> QED
      BY <2>1, <3>1, <3>2 DEF DrainOK, NoneNew, InHand
  <2> QED
    BY <2>2, <2>3, <2>4
<1>3. CASE HandlerCrash
  <2>1. drain' = drain /\ at' = at /\ events' = events
        /\ handler.pc = "release" /\ handler' = NoEvent
    BY <1>3 DEF HandlerCrash, eventVars
  <2>2. \A c \in Drains : Fits(drain[c])'
    BY <2>1 DEF DrainOK, Fits
  <2>3. HandlerOK'
    BY <2>1 DEF HandlerOK, NoEvent
  <2> QED
    BY <2>1, <2>2, <2>3 DEF DrainOK, NoneNew, InHand
<1>4. CASE ReleaseOnCompletion
  <2>1. handler.pc = "release" /\ at' = at /\ events' = events
    BY <1>4 DEF ReleaseOnCompletion
  <2>2. CASE drain' = drain /\ handler' = NoEvent
    <3>1. \A c \in Drains : Fits(drain[c])'
      BY <2>1, <2>2 DEF DrainOK, Fits
    <3>2. HandlerOK'
      BY <2>1, <2>2 DEF HandlerOK, NoEvent
    <3> QED
      BY <2>1, <2>2, <3>1, <3>2 DEF DrainOK, NoneNew, InHand
  <2>3. CASE /\ handler' = [handler EXCEPT !.pc = "drain"]
             /\ drain' = [drain EXCEPT ![Consumer] = [Off EXCEPT !.pc = "claim"]]
    <3> DEFINE v == [Off EXCEPT !.pc = "claim"]
    <3>1. v \in DrainType /\ v.pc = "claim" /\ v.msg = None
      BY Basics DEF DrainType, Off, Resting
    <3> HIDE DEF v
    <3>2. drain' \in [Drains -> DrainType] /\ drain'[Consumer] = v
          /\ \A c \in Drains \ {Consumer} : drain'[c] = drain[c]
      BY <2>3, <3>1, Basics DEF DrainOK, v
    <3>3. \A c \in Drains : Fits(drain[c])'
      <4> SUFFICES ASSUME NEW c \in Drains PROVE Fits(drain[c])'
        OBVIOUS
      <4>1. CASE c = Consumer
        BY <3>1, <3>2, <4>1 DEF Fits, Working, WithRun
      <4>2. CASE c # Consumer
        BY <2>1, <3>2, <4>2 DEF Fits, DrainOK
      <4> QED
        BY <4>1, <4>2
    <3>4. \A m \in Messages : at'[m] = "new" => drain'[m].pc = "off"
      BY <2>1, <3>2, Basics DEF DrainOK
    <3>5. HandlerOK'
      <4>1. handler'.pc = "drain" /\ handler'.event = handler.event
        BY <2>1, <2>3
      <4> QED
        BY <2>1, <3>1, <3>2, <4>1 DEF HandlerOK
    <3>6. NoneNew
      BY <3>1, <3>2 DEF NoneNew, InHand
    <3> QED
      BY <3>2, <3>3, <3>4, <3>5, <3>6 DEF DrainOK
  <2> QED
    BY <1>4, <2>2, <2>3 DEF ReleaseOnCompletion
<1>5. CASE SweeperDrains
  BY <1>5, Starts, Basics DEF SweeperDrains, eventVars
<1>6. CASE StatusStep
  BY <1>6, StatusKeeps, Stands
<1> QED
  BY <1>1, <1>2, <1>3, <1>4, <1>5, <1>6

\* The steps of a drain, but for the one that takes a reservation in hand.
LEMMA DrainKeepsDrains ==
    ASSUME IInv, NEW d \in Drains, DrainStep(d) \/ DrainFault(d),
           ~(reserveDispatchTaskId(d) /\ drain[d].msg \in ToSet(queue))
    PROVE  DrainOK' /\ HandlerOK' /\ NoneNew
<1> USE DEF IInv
<1> DEFINE m == drain[d].msg
<1>0. /\ drain[d] \in DrainType
      /\ drain[d].pc \in Working => m \in Messages /\ at[m] = "parked"
      /\ drain[d].pc \in Resting => m = None
      /\ drain[d].pc \in WithRun => drain[d].run \in Ids
  BY InHandKnown
<1>1. CASE takeClaim(d)
  <2>1. CASE Return(d)
    BY <1>1, <2>1, Returns DEF takeClaim
  <2>2. CASE Go(d, "read") /\ handler' = handler
    BY <1>1, <2>2, Goes DEF takeClaim, Working, Resting, WithRun
  <2> QED
    BY <1>1, <2>1, <2>2 DEF takeClaim
<1>2. CASE ReadQueue(d)
  <2> DEFINE v == [drain[d] EXCEPT !.pc = IF queue = <<>> THEN "release" ELSE "bind",
                                   !.msg = IF queue = <<>> THEN None ELSE NextPending]
  <2>1. drain' = [drain EXCEPT ![d] = v]
    BY <1>2 DEF ReadQueue, DrainOK
  <2>2. queue # <<>> => NextPending \in ToSet(queue) /\ NextPending \in Messages
    BY NextIsQueued DEF TypeOK
  <2>3. /\ v \in DrainType
        /\ v.pc = IF queue = <<>> THEN "release" ELSE "bind"
        /\ v.msg = IF queue = <<>> THEN None ELSE NextPending
    BY <1>0, <2>2 DEF DrainType, Working, Resting
  <2> HIDE DEF v
  <2>4. Fits(v)
    BY <2>2, <2>3 DEF Fits, QueueOK, Working, Resting, WithRun
  <2>5. drain[d].pc # "off" /\ at' = at /\ handler' = handler /\ events' = events
    BY <1>2 DEF ReadQueue, InDrain
  <2>6. DrainOK' /\ HandlerOK'
    BY <2>1, <2>3, <2>4, <2>5, Moves
  <2>7. NoneNew
    <3>1. drain'[d] = v /\ \A c \in Drains \ {d} : drain'[c] = drain[c]
      BY <2>1 DEF DrainOK
    <3> QED
      BY <2>3, <3>1 DEF NoneNew, InHand
  <2> QED
    BY <2>6, <2>7
<1>3. CASE CredentialsUnreadable(d) \/ AnnounceRefusal(d) \/ DropPending(d) \/ GatePending(d)
           \/ RejectPending(d) \/ DeletePending(d) \/ DiscardPending(d) \/ PublishPending(d)
  <2>1. \E pc \in {"drop", "release", "refuse", "gate", "delete"} :
           /\ Go(d, pc)
           /\ drain[d].pc \in Working
           /\ pc \in WithRun => drain[d].pc \in WithRun
    BY <1>3 DEF CredentialsUnreadable, AnnounceRefusal, DropPending, GatePending, RejectPending,
                DeletePending, DiscardPending, PublishPending, Working, WithRun
  <2>2. handler' = handler /\ at' = at /\ events \subseteq events'
    BY <1>3 DEF CredentialsUnreadable, AnnounceRefusal, DropPending, GatePending, RejectPending,
                DeletePending, DiscardPending, PublishPending, InDrain
  <2> QED
    BY <2>1, <2>2, Goes DEF Working, Resting, WithRun
<1>4. CASE BindRefused(d)
  <2>1. drain[d].pc = "bind" /\ at' = at /\ events \subseteq events'
    BY <1>4 DEF BindRefused
  <2>2. \/ Go(d, "release") /\ handler' = handler
        \/ Go(d, "drop") /\ handler' = handler
        \/ Throw(d)
    BY <1>4 DEF BindRefused
  <2> QED
    BY <2>1, <2>2, Goes, Throws DEF Working, Resting, WithRun
<1>5. CASE reserveDispatchTaskId(d)
  <2>1. Go(d, "release") /\ handler' = handler /\ at' = at /\ events' = events
        /\ drain[d].pc \in {"bind", "reserve"}
    BY <1>5 DEF reserveDispatchTaskId, InDrain
  <2> QED
    BY <2>1, Goes DEF Working, Resting, WithRun
<1>6. CASE PrepareHandoff(d)
  <2>1. drain[d].pc = "classify" /\ handler' = handler /\ at' = at /\ events' = events
    BY <1>6 DEF PrepareHandoff, InDrain
  <2>2. m \in Messages /\ drain[d].run \in Ids
    BY <1>0, <2>1 DEF Working, WithRun
  <2>3. recordedHandoffState(m, drain[d].run)
          \in {"absent", "open", "unsettled", "consumed", "retryable"}
    BY <2>2, HandoffKnown DEF TypeOK
  <2>4. \E pc \in {"open", "release", "delete", "forget", "reserve"} : Go(d, pc)
    BY <1>6, <2>3 DEF PrepareHandoff
  <2> QED
    BY <2>1, <2>4, Goes DEF Working, Resting, WithRun
<1>7. CASE \E kind \in Kinds(drain[d].msg) : OpenPending(d, kind)
  <2>1. drain[d].pc = "open" /\ at' = at /\ events' = events
    BY <1>7 DEF OpenPending, eventVars
  <2>2. Throw(d) \/ (Go(d, "publish") /\ handler' = handler)
    BY <1>7 DEF OpenPending
  <2> QED
    BY <2>1, <2>2, Goes, Throws DEF Working, Resting, WithRun
<1>8. CASE RefusePending(d)
  <2>1. drain[d].pc = "refuse" /\ handler' = handler /\ at' = at /\ events' = events
    BY <1>8 DEF RefusePending, InDrain
  <2>2. \E pc \in {"release", "delete", "name"} : Go(d, pc)
    BY <1>8 DEF RefusePending
  <2> QED
    BY <2>1, <2>2, Goes DEF Working, Resting, WithRun
<1>9. CASE NameRefusal(d)
  <2>1. PICK takes \in BOOLEAN :
           drain' = [drain EXCEPT ![d].pc = "announce", ![d].took = takes]
    BY <1>9 DEF NameRefusal
  <2> DEFINE v == [drain[d] EXCEPT !.pc = "announce", !.took = takes]
  <2>2. drain' = [drain EXCEPT ![d] = v]
    BY <2>1 DEF DrainOK
  <2>3. v \in DrainType /\ v.pc = "announce" /\ v.msg = m /\ v.run = drain[d].run
    BY <1>0 DEF DrainType, Working
  <2> HIDE DEF v
  <2>4. drain[d].pc = "name" /\ at' = at /\ handler' = handler /\ events' = events
    BY <1>9 DEF NameRefusal, InDrain
  <2>5. Fits(v)
    BY <1>0, <2>3, <2>4 DEF Fits, Working, Resting, WithRun
  <2>6. DrainOK' /\ HandlerOK'
    BY <2>2, <2>3, <2>4, <2>5, Moves
  <2>7. NoneNew
    <3>1. drain'[d] = v /\ \A c \in Drains \ {d} : drain'[c] = drain[c]
      BY <2>2 DEF DrainOK
    <3> QED
      BY <2>3, <3>1 DEF NoneNew, InHand
  <2> QED
    BY <2>6, <2>7
<1>10. CASE ReleaseDrain(d)
  <2>1. drain[d].pc = "release" /\ at' = at /\ events' = events
    BY <1>10 DEF ReleaseDrain
  <2>2. Return(d) \/ (Go(d, "recheck") /\ handler' = handler)
    BY <1>10 DEF ReleaseDrain
  <2> QED
    BY <2>1, <2>2, Goes, Returns DEF Working, Resting, WithRun
<1>11. CASE Recheck(d)
  <2>1. drain[d].pc = "recheck" /\ at' = at /\ events' = events
    BY <1>11 DEF Recheck
  <2> DEFINE v == [Off EXCEPT !.pc = "claim", !.rounds = drain[d].rounds + 1]
  <2>2. CASE Return(d)
    BY <2>1, <2>2, Returns
  <2>3. CASE drain' = [drain EXCEPT ![d] = v] /\ handler' = handler
    <3>1. drain[d].rounds + 1 \in Nat
      BY <1>0 DEF DrainType
    <3>2. v \in DrainType /\ v.pc = "claim" /\ v.msg = None
      BY <3>1 DEF DrainType, Off, Resting
    <3> HIDE DEF v
    <3>3. Fits(v)
      BY <3>2 DEF Fits, Working, WithRun
    <3>4. DrainOK' /\ HandlerOK'
      BY <2>1, <2>3, <3>2, <3>3, Moves
    <3>5. drain'[d] = v /\ \A c \in Drains \ {d} : drain'[c] = drain[c]
      BY <2>3 DEF DrainOK
    <3> QED
      BY <3>2, <3>4, <3>5 DEF NoneNew, InHand
  <2> QED
    BY <1>11, <2>2, <2>3 DEF Recheck
<1>12. CASE OpenPendingFails(d) \/ AnnounceRefusalFails(d) \/ PublishPendingStopped(d)
  BY <1>12, Throws DEF OpenPendingFails, AnnounceRefusalFails, PublishPendingStopped, eventVars
<1>13. CASE PublishPendingFails(d)
  <2>1. drain[d].pc = "publish" /\ at' = at /\ events' = events
    BY <1>13 DEF PublishPendingFails, eventVars
  <2>2. Throw(d) \/ (Go(d, "delete") /\ handler' = handler)
    BY <1>13 DEF PublishPendingFails
  <2> QED
    BY <2>1, <2>2, Goes, Throws DEF Working, Resting, WithRun
<1>14. CASE DrainCrash(d)
  BY <1>14, Ends DEF DrainCrash, eventVars
<1> QED
  BY <1>1, <1>2, <1>3, <1>4, <1>5, <1>6, <1>7, <1>8, <1>9, <1>10, <1>11, <1>12, <1>13, <1>14
     DEF DrainStep, DrainFault

\* A drain takes in hand the run its message is reserved for, old or new.
LEMMA ReserveDoes ==
    ASSUME IInv, NEW d \in Drains, reserveDispatchTaskId(d), drain[d].msg \in ToSet(queue)
    PROVE  /\ DrainOK' /\ HandlerOK'
           /\ drain[d].msg \in Messages /\ reserved'[drain[d].msg] \in Ids
           /\ reserved[drain[d].msg] # 0 => reserved' = reserved
           /\ reserved' = [reserved EXCEPT ![drain[d].msg] = reserved'[drain[d].msg]]
           /\ \A m \in Messages, n \in Ids : InHand(m, n)' =>
                 InHand(m, n) \/ (m = drain[d].msg /\ n = reserved'[m])
<1> USE DEF IInv
<1> DEFINE m == drain[d].msg
           n == IF reserved[m] = 0 THEN Fresh(m) ELSE reserved[m]
           v == [drain[d] EXCEPT !.pc = "classify", !.run = n]
<1>1. /\ drain[d].pc \in {"bind", "reserve"} /\ n \in Ids
      /\ reserved' = [reserved EXCEPT ![m] = n]
      /\ drain' = [drain EXCEPT ![d] = v]
      /\ at' = at /\ handler' = handler /\ events' = events
  BY DEF reserveDispatchTaskId, InDrain, DrainOK
<1>2. /\ drain[d] \in DrainType /\ m \in Messages /\ at[m] = "parked"
  BY <1>1, InHandKnown DEF Working
<1>3. reserved \in [Messages -> Ids \cup {0}]
  BY DEF TypeOK
<1>4. reserved'[m] = n /\ (reserved[m] # 0 => reserved' = reserved)
  BY <1>1, <1>2, <1>3
<1> HIDE DEF n
<1>5. v \in DrainType /\ v.pc = "classify" /\ v.msg = m /\ v.run = n
  BY <1>1, <1>2 DEF DrainType, Working
<1> HIDE DEF v
<1>6. Fits(v)
  BY <1>1, <1>2, <1>5 DEF Fits, Working, Resting, WithRun
<1>7. DrainOK' /\ HandlerOK'
  BY <1>1, <1>5, <1>6, Moves
<1>8. drain'[d] = v /\ \A c \in Drains \ {d} : drain'[c] = drain[c]
  BY <1>1 DEF DrainOK
<1>9. \A p \in Messages, k \in Ids : InHand(p, k)' => InHand(p, k) \/ (p = m /\ k = n)
  BY <1>5, <1>8 DEF InHand
<1> QED
  BY <1>1, <1>2, <1>4, <1>7, <1>9

-----------------------------------------------------------------------------
(* Types.                                                                  *)

Statuses == {"none"} \cup Open \cup Terminal
NoticeType == [wallclock : 1 .. MaxFaults, status : {"running", "interrupted"}]
EventType == [msg : Messages, run : Ids \cup {0}, refusal : BOOLEAN]

\* TypeOK without the queue and the drains.
RestOK ==
    /\ agent_status \in {"idle", "running", "interrupted"} /\ marker \in Messages \cup {None}
    /\ claim \in Drains \cup {None}
    /\ reserved \in [Messages -> Ids \cup {0}]
    /\ attempts \in [Messages -> 0 .. BIND_MAX_ATTEMPTS]
    /\ row \in [Runs -> Statuses]
    /\ stream \subseteq Runs /\ sent \subseteq Messages
    /\ events \subseteq EventType /\ processed \subseteq events
    /\ at \in [Messages -> {"new", "parked", "gated", "opened", "rollback", "done"}]
    /\ handler \in [pc : {"free", "release", "drain"}, event : events \cup {None}]
    /\ owed \subseteq Messages /\ faults \in 0 .. MaxFaults /\ torn \in BOOLEAN
    /\ notices \subseteq NoticeType /\ status_event_at \in 0 .. MaxFaults

\* The events a step may publish.
LEMMA EventsTyped ==
    /\ \A r \in Runs : Event(r) \in EventType /\ r[1] \in Messages /\ r[2] \in Ids
    /\ \A m \in Messages : Unnamed(m) \in EventType
    /\ \A m \in Messages, n \in Ids \cup {0} : Refusal(m, n) \in EventType
    /\ \A m \in Messages, n \in Ids : <<m, n>> \in Runs
BY DEF Event, Unnamed, Refusal, EventType, Runs

\* A fault is counted within its bound.
LEMMA FaultTyped ==
    ASSUME faults \in 0 .. MaxFaults, torn \in BOOLEAN,
           notices \subseteq NoticeType, status_event_at \in 0 .. MaxFaults,
           (Fault /\ UNCHANGED torn) \/ Tear \/ NoFault
    PROVE  /\ faults' \in 0 .. MaxFaults /\ torn' \in BOOLEAN
           /\ notices' \subseteq NoticeType /\ status_event_at' \in 0 .. MaxFaults
<1>1. /\ faults' \in 0 .. MaxFaults
      /\ notices' \subseteq NoticeType /\ status_event_at' \in 0 .. MaxFaults
  BY DEF GateAssumption, Fault, Tear, NoFault, noticeVars
<1>2. torn' \in BOOLEAN
  BY Zenon DEF Fault, Tear, NoFault
<1> QED
  BY <1>1, <1>2

\* Every step of a drain keeps the types.
LEMMA DrainKeepsRest ==
    ASSUME IInv, NEW d \in Drains, DrainStep(d) \/ DrainFault(d)
    PROVE  RestOK'
<1> DEFINE m == drain[d].msg
<1>1. /\ drain[d].pc \in Working => m \in Messages
      /\ drain[d].pc \in WithRun => drain[d].run \in Ids
      /\ drain[d].pc \in WithRun => <<m, drain[d].run>> \in Runs
      /\ d = Consumer /\ drain[d].pc # "off" => handler.event \in events
  BY InHandKnown, EventsTyped DEF IInv, HandlerOK, WithRun
<1>2. RestOK
  BY DEF IInv, TypeOK, RestOK, Statuses, EventType, NoticeType
<1> USE <1>1, <1>2, EventsTyped
    DEF RestOK, Working, WithRun, gateVars, queueVars, rowVars, eventVars, InDrain
<1>3. CASE takeClaim(d)
  BY <1>3, FaultTyped DEF takeClaim, Return, NoEvent
<1>4. CASE ReadQueue(d)
  BY <1>4, FaultTyped DEF ReadQueue
<1>5. CASE CredentialsUnreadable(d)
  BY <1>5, FaultTyped DEF CredentialsUnreadable, Refusal
<1>6. CASE reserveDispatchTaskId(d)
  BY <1>6, FaultTyped DEF reserveDispatchTaskId
<1>7. CASE PrepareHandoff(d)
  BY <1>7, FaultTyped DEF PrepareHandoff
<1>8. CASE RejectPending(d)
  BY <1>8, FaultTyped DEF RejectPending
<1>9. CASE DiscardPending(d)
  BY <1>9, FaultTyped DEF DiscardPending, Statuses, Open, Terminal
<1>10. CASE PublishPending(d)
  BY <1>10, FaultTyped DEF PublishPending, Landed, Statuses, Open
<1>11. CASE DeletePending(d)
  BY <1>11, FaultTyped DEF DeletePending, DeleteRow
<1>12. CASE GatePending(d)
  BY <1>12, FaultTyped DEF GatePending, takeSessionGate
<1>13. CASE RefusePending(d)
  BY <1>13, FaultTyped DEF RefusePending
<1>14. CASE NameRefusal(d)
  BY <1>14, FaultTyped DEF NameRefusal, takeSessionGate
<1>15. CASE AnnounceRefusal(d)
  BY <1>15, FaultTyped DEF AnnounceRefusal, Refusal
<1>16. CASE DropPending(d)
  BY <1>16, FaultTyped DEF DropPending, DeleteRow
<1>17. CASE ReleaseDrain(d)
  BY <1>17, FaultTyped DEF ReleaseDrain, releaseClaim, Return, NoEvent
<1>18. CASE Recheck(d)
  BY <1>18, FaultTyped DEF Recheck, Return, NoEvent
<1>19. CASE OpenPendingFails(d)
  BY <1>19, FaultTyped DEF OpenPendingFails, Throw, releaseClaim, NoEvent
<1>20. CASE PublishPendingFails(d)
  BY <1>20, FaultTyped
     DEF PublishPendingFails, Landed, Statuses, Open, Terminal, Throw, releaseClaim, NoEvent
<1>21. CASE AnnounceRefusalFails(d)
  BY <1>21, FaultTyped
     DEF AnnounceRefusalFails, Throw, releaseClaim, NoEvent, releaseSessionGateForTurn, OpenGate
<1>22. CASE DrainCrash(d)
  BY <1>22, FaultTyped DEF DrainCrash, Tear, NoEvent
<1>23. CASE BindRefused(d)
  <2>1. /\ drain[d].pc = "bind" /\ m \in Messages
        /\ NoFault \/ (Fault /\ UNCHANGED torn)
        /\ UNCHANGED <<gateVars, queue, reserved, stream, sent, processed, at, owed>>
    BY <1>23 DEF BindRefused
  <2>2. attempts' \in [Messages -> 0 .. BIND_MAX_ATTEMPTS]
    <3>1. Min({attempts[m] + 1, BIND_MAX_ATTEMPTS}) \in 0 .. BIND_MAX_ATTEMPTS
      <4> DEFINE S == {attempts[m] + 1, BIND_MAX_ATTEMPTS}
      <4>1. S \subseteq Nat /\ S # {} /\ BIND_MAX_ATTEMPTS \in S
        BY <2>1 DEF GateAssumption
      <4> HIDE DEF S
      <4>2. Min(S) \in Nat /\ Min(S) =< BIND_MAX_ATTEMPTS
        BY <4>1, MinIsIn
      <4> QED
        BY <4>2 DEF GateAssumption, S
    <3>2. \/ attempts' = attempts
          \/ attempts' = [attempts EXCEPT ![m] = Min({attempts[m] + 1, BIND_MAX_ATTEMPTS})]
      BY <1>23 DEF BindRefused
    <3> QED
      BY <2>1, <3>1, <3>2
  <2>3. \/ UNCHANGED <<claim, handler, row, events>>
        \/ Throw(d) /\ UNCHANGED <<row, events>>
        \/ \E n \in Ids : /\ row' = [row EXCEPT ![<<m, n>>] = "failed"]
                           /\ events' = events \cup {Refusal(m, n)}
                           /\ UNCHANGED <<claim, handler>>
        \/ \E n \in Ids : row' = [row EXCEPT ![<<m, n>>] = "failed"] /\ Throw(d) /\ UNCHANGED events
    BY <1>23 DEF BindRefused
  <2>4. CASE UNCHANGED <<claim, handler, row, events>>
    BY <2>1, <2>2, <2>4, FaultTyped
  <2>5. CASE Throw(d) /\ UNCHANGED <<row, events>>
    BY <2>1, <2>2, <2>5, FaultTyped DEF Throw, releaseClaim, NoEvent
  <2>6. ASSUME NEW n \in Ids,
               /\ row' = [row EXCEPT ![<<m, n>>] = "failed"]
               /\ events' = events \cup {Refusal(m, n)}
               /\ UNCHANGED <<claim, handler>>
        PROVE  RestOK'
    <3>1. row' \in [Runs -> Statuses]
      BY <2>1, <2>6 DEF Statuses, Terminal
    <3> QED
      BY <2>1, <2>2, <2>6, <3>1, FaultTyped
  <2>7. ASSUME NEW n \in Ids,
               row' = [row EXCEPT ![<<m, n>>] = "failed"] /\ Throw(d) /\ UNCHANGED events
        PROVE  RestOK'
    <3>1. row' \in [Runs -> Statuses]
      BY <2>1, <2>7 DEF Statuses, Terminal
    <3> QED
      BY <2>1, <2>2, <2>7, <3>1, FaultTyped DEF Throw, releaseClaim, NoEvent
  <2> QED
    BY <2>3, <2>4, <2>5, <2>6, <2>7
<1>24. CASE \E kind \in Kinds(drain[d].msg) : OpenPending(d, kind)
  BY <1>24, FaultTyped DEF OpenPending, Throw, releaseClaim, NoEvent, Kinds, Statuses, Open
<1>25. CASE PublishPendingStopped(d)
  BY <1>25, FaultTyped DEF PublishPendingStopped, Throw, releaseClaim, NoEvent
<1> QED
  BY <1>3, <1>4, <1>5, <1>6, <1>7, <1>8, <1>9, <1>10, <1>11, <1>12, <1>13, <1>14,
     <1>15, <1>16, <1>17, <1>18, <1>19, <1>20, <1>21, <1>22, <1>23, <1>24, <1>25
     DEF DrainStep, DrainFault

\* So does every other step.
LEMMA OthersKeepRest ==
    ASSUME IInv,
           \/ \E m \in Messages :
                 \/ Submit(m) \/ QueueReport(m) \/ SendStep(m) \/ SendFault(m)
                 \/ HandBack(m) \/ HandBackLost(m)
           \/ ClaimLapses \/ ClaimLapsesEarly
           \/ \E e \in events : BeginCompletion(e)
           \/ ReleaseOnCompletion \/ HandlerCrash
           \/ \E r \in Runs : ClaimRun(r) \/ TakeMessage(r) \/ Report(r)
                                \/ ReapRun(r) \/ ReapOrphanedFatRun(r)
           \/ StatusStep
           \/ StopSession \/ CancelUnheldRuns \/ SweeperDrains \/ reapStuckSessions
    PROVE  RestOK'
<1>1. handler.pc # "free" => handler.event \in events
  BY DEF IInv, HandlerOK
<1>2. RestOK
  BY DEF IInv, TypeOK, RestOK, Statuses, EventType, NoticeType
<1> USE <1>1, <1>2, EventsTyped, FaultTyped, Basics
    DEF RestOK, gateVars, queueVars, rowVars, eventVars, InSubmit, Outside, OpenGate,
        takeSessionGate
<1>3. ASSUME NEW m \in Messages, Submit(m) \/ QueueReport(m)
      PROVE  RestOK'
  <2>1. CASE Submit(m)
    <3>1. agent_status' \in {agent_status, "running"} /\ marker' \in {marker, m}
          /\ at' \in {[at EXCEPT ![m] = "parked"], [at EXCEPT ![m] = "gated"]}
      BY <2>1 DEF Submit, Park
    <3> QED
      BY <2>1, <3>1 DEF Submit
  <2>2. CASE QueueReport(m)
    BY <2>2 DEF QueueReport, Park
  <2> QED
    BY <1>3, <2>1, <2>2
<1>4. ASSUME NEW m \in Messages, NEW kind \in Kinds(m), OpenRun(m, kind)
      PROVE  RestOK'
  BY <1>4 DEF OpenRun, Kinds, Statuses, Open
<1>5. ASSUME NEW m \in Messages, DiscardRun(m) \/ PublishRun(m) \/ PublishRunStopped(m)
      PROVE  RestOK'
  BY <1>5 DEF DiscardRun, PublishRun, PublishRunStopped, Statuses, Open
<1>6. ASSUME NEW m \in Messages, Rollback(m) \/ SenderCrash(m)
      PROVE  RestOK'
  BY <1>6 DEF Rollback, releaseSessionGateForTurn, SenderCrash
<1>7. ASSUME NEW m \in Messages, PublishRunFails(m)
      PROVE  RestOK'
  BY <1>7 DEF PublishRunFails, Statuses, Terminal
<1>8. ASSUME NEW m \in Messages, HandBack(m) \/ HandBackLost(m)
      PROVE  RestOK'
  BY <1>8 DEF HandBack, HandBackLost
<1>9. CASE ClaimLapses \/ ClaimLapsesEarly \/ SweeperDrains \/ reapStuckSessions
  BY <1>9 DEF ClaimLapses, ClaimLapsesEarly, SweeperDrains, reapStuckSessions
<1>10. ASSUME NEW e \in events, BeginCompletion(e)
       PROVE  RestOK'
  <2>1. row' \in [Runs -> Statuses]
    BY <1>10 DEF BeginCompletion, Statuses, Open, Terminal
  <2> QED
    BY <1>10, <2>1 DEF BeginCompletion
<1>11. CASE ReleaseOnCompletion \/ HandlerCrash
  <2>1. CASE HandlerCrash
    BY <2>1 DEF HandlerCrash, NoEvent
  <2>2. CASE ReleaseOnCompletion
    BY <2>2 DEF ReleaseOnCompletion, NoEvent
  <2> QED
    BY <1>11, <2>1, <2>2
<1>12. ASSUME NEW r \in Runs, ClaimRun(r) \/ TakeMessage(r) \/ Report(r)
       PROVE  RestOK'
  BY <1>12 DEF ClaimRun, TakeMessage, Report, Statuses, Open
<1>13. ASSUME NEW r \in Runs, ReapRun(r) \/ ReapOrphanedFatRun(r)
       PROVE  RestOK'
  BY <1>13 DEF ReapRun, ReapOrphanedFatRun, CloseRun, Statuses, Terminal
<1>14. CASE StopSession
  BY <1>14 DEF StopSession, Statuses, Terminal
<1>15. CASE CancelUnheldRuns
  BY <1>15 DEF CancelUnheldRuns, Statuses, Terminal
<1>16. CASE StatusStep
  <2>1. /\ agent_status' \in {"idle", "running", "interrupted"} /\ faults' \in 0 .. MaxFaults
        /\ notices' \subseteq NoticeType /\ status_event_at' \in 0 .. MaxFaults
    BY <1>16 DEF StatusStep, taskInterrupted, taskResumed, SendNotice, handleStatusEvent, NoticeType,
                 GateAssumption
  <2>2. torn' \in BOOLEAN
    BY <1>16, Zenon DEF StatusStep, taskInterrupted, taskResumed, SendNotice, handleStatusEvent
  <2> QED
    BY <1>16, <2>1, <2>2, StatusKeeps
<1> QED
  BY <1>3, <1>4, <1>5, <1>6, <1>7, <1>8, <1>9, <1>10, <1>11, <1>12, <1>13, <1>14, <1>15, <1>16
     DEF SendStep, SendFault

-----------------------------------------------------------------------------
(* The queue.                                                              *)

QueueTyped == queue \in Seq(Messages) /\ IsInjective(queue)

\* Steps that leave the queue, its reservations and the rows of what was not sent alone.
LEMMA QueueStands ==
    ASSUME QueueTyped, QueueOK, queue' = queue, reserved' = reserved,
           \A m \in Messages : at[m] = "parked" => at'[m] = "parked",
           \A m \in Messages : at'[m] \in {"new", "gated"} =>
               at[m] \in {"new", "gated"} /\ \A n \in Ids : row'[<<m, n>>] = row[<<m, n>>]
    PROVE  QueueTyped' /\ QueueOK'
BY DEF QueueTyped, QueueOK

\* A queue row is deleted, with its reservation.
LEMMA QueueLoses ==
    ASSUME IInv, NEW m \in Messages, DeleteRow(m), at' = at, row' = row
    PROVE  QueueTyped' /\ QueueOK'
<1>1. QueueTyped' /\ ToSet(queue') = ToSet(queue) \ {m}
  BY DeleteDoes DEF IInv, TypeOK, QueueTyped
<1>2. reserved' = [reserved EXCEPT ![m] = 0] /\ reserved \in [Messages -> Ids \cup {0}]
  BY DEF DeleteRow, IInv, TypeOK
<1> QED
  BY <1>1, <1>2 DEF QueueOK, IInv

\* A message is parked.
LEMMA QueueGains ==
    ASSUME IInv, NEW m \in Messages, at[m] = "new", Park(m), reserved' = reserved, row' = row
    PROVE  QueueTyped' /\ QueueOK' /\ ToSet(queue') = ToSet(queue) \cup {m}
<1>1. m \notin ToSet(queue)
  BY DEF IInv, QueueOK
<1>2. QueueTyped' /\ ToSet(queue') = ToSet(queue) \cup {m}
  BY <1>1, ParkDoes DEF IInv, TypeOK, QueueTyped, Park
<1>3. at \in [Messages -> {"new", "parked", "gated", "opened", "rollback", "done"}]
  BY DEF IInv, TypeOK
<1> QED
  BY <1>2, <1>3 DEF QueueOK, IInv, Park

\* A drain writes no row but that of the message in its hand, which was parked.
LEMMA DrainKeepsQueue ==
    ASSUME IInv, NEW d \in Drains, DrainStep(d) \/ DrainFault(d)
    PROVE  QueueTyped' /\ QueueOK'
<1> DEFINE m == drain[d].msg
<1>1. drain[d].pc \in Working => m \in Messages /\ at[m] = "parked"
  BY InHandKnown DEF IInv
<1>2. QueueTyped /\ QueueOK /\ reserved \in [Messages -> Ids \cup {0}]
      /\ row \in [Runs -> {"none"} \cup Open \cup Terminal]
  BY DEF IInv, TypeOK, QueueTyped
<1>3. at' = at
  BY DEF DrainStep, DrainFault, takeClaim, ReadQueue, CredentialsUnreadable, BindRefused,
         reserveDispatchTaskId, PrepareHandoff, OpenPending, RejectPending, DiscardPending,
         PublishPending, PublishPendingStopped, DeletePending, GatePending, RefusePending, NameRefusal, AnnounceRefusal,
         DropPending, ReleaseDrain, Recheck, OpenPendingFails, PublishPendingFails,
         AnnounceRefusalFails, DrainCrash, InDrain
<1>4. \A p \in Messages, n \in Ids :
         at[p] \in {"new", "gated"} => row'[<<p, n>>] = row[<<p, n>>]
  <2>1. CASE row' = row
    BY <2>1
  <2>2. ASSUME drain[d].pc \in Working, NEW n, NEW x, row' = [row EXCEPT ![<<m, n>>] = x]
        PROVE  \A p \in Messages, k \in Ids :
                  at[p] \in {"new", "gated"} => row'[<<p, k>>] = row[<<p, k>>]
    BY <1>1, <1>2, <2>2 DEF Runs
  <2>3. CASE BindRefused(d)
    BY <2>1, <2>2, <2>3 DEF BindRefused, Working
  <2>4. CASE \E kind \in Kinds(drain[d].msg) : OpenPending(d, kind)
    BY <2>1, <2>2, <2>4 DEF OpenPending, Working
  <2>5. CASE DiscardPending(d) \/ PublishPending(d) \/ PublishPendingFails(d)
    BY <2>1, <2>2, <2>5 DEF DiscardPending, PublishPending, PublishPendingFails, Working
  <2>6. CASE ~(BindRefused(d) \/ (\E kind \in Kinds(drain[d].msg) : OpenPending(d, kind))
               \/ DiscardPending(d) \/ PublishPending(d) \/ PublishPendingFails(d))
    <3>1. row' = row
      BY <2>6 DEF DrainStep, DrainFault, takeClaim, ReadQueue, CredentialsUnreadable,
         reserveDispatchTaskId, PrepareHandoff, RejectPending, DeletePending, GatePending,
         RefusePending, NameRefusal, AnnounceRefusal, DropPending, ReleaseDrain, Recheck,
         OpenPendingFails, AnnounceRefusalFails, PublishPendingStopped, DrainCrash, rowVars
    <3> QED
      BY <2>1, <3>1
  <2> QED
    BY <2>3, <2>4, <2>5, <2>6
<1>5. CASE DeletePending(d) \/ DropPending(d)
  <2>1. m \in Messages /\ row' = row
    BY <1>1, <1>5 DEF DeletePending, DropPending, Working, rowVars
  <2>2. DeleteRow(m) \/ UNCHANGED queueVars
    BY <1>5 DEF DeletePending, DropPending
  <2> QED
    BY <1>2, <1>3, <2>1, <2>2, QueueLoses, QueueStands DEF queueVars
<1>6. CASE reserveDispatchTaskId(d) \/ PrepareHandoff(d)
  <2>1. m \in Messages /\ queue' = queue
    BY <1>1, <1>6 DEF reserveDispatchTaskId, PrepareHandoff, Working
  <2>2. reserved' = reserved \/ \E n : m \in ToSet(queue) /\ reserved' = [reserved EXCEPT ![m] = n]
    BY <1>6 DEF reserveDispatchTaskId, PrepareHandoff
  <2> QED
    BY <1>2, <1>3, <1>4, <2>1, <2>2 DEF QueueTyped, QueueOK
<1>7. CASE ~(DeletePending(d) \/ DropPending(d) \/ reserveDispatchTaskId(d) \/ PrepareHandoff(d))
  <2>1. queue' = queue /\ reserved' = reserved
    BY <1>7 DEF DrainStep, DrainFault, takeClaim, ReadQueue, CredentialsUnreadable, BindRefused,
         OpenPending, RejectPending, DiscardPending, PublishPending, GatePending, RefusePending,
         NameRefusal, AnnounceRefusal, ReleaseDrain, Recheck, OpenPendingFails,
         PublishPendingFails, PublishPendingStopped, AnnounceRefusalFails, DrainCrash, queueVars
  <2> QED
    BY <1>2, <1>3, <1>4, <2>1, QueueStands
<1> QED
  BY <1>5, <1>6, <1>7

\* Every other step.
LEMMA OthersKeepQueue ==
    ASSUME IInv,
           \/ \E m \in Messages :
                 \/ Submit(m) \/ QueueReport(m) \/ SendStep(m) \/ SendFault(m)
                 \/ HandBack(m) \/ HandBackLost(m)
           \/ ClaimLapses \/ ClaimLapsesEarly
           \/ \E e \in events : BeginCompletion(e)
           \/ ReleaseOnCompletion \/ HandlerCrash
           \/ \E r \in Runs : ClaimRun(r) \/ TakeMessage(r) \/ Report(r)
                                \/ ReapRun(r) \/ ReapOrphanedFatRun(r)
           \/ StatusStep
           \/ StopSession \/ CancelUnheldRuns \/ SweeperDrains \/ reapStuckSessions
    PROVE  QueueTyped' /\ QueueOK'
<1>1. /\ QueueTyped /\ QueueOK /\ reserved \in [Messages -> Ids \cup {0}]
      /\ row \in [Runs -> {"none"} \cup Open \cup Terminal] /\ stream \subseteq Runs
      /\ at \in [Messages -> {"new", "parked", "gated", "opened", "rollback", "done"}]
  BY DEF IInv, TypeOK, QueueTyped
<1>2. \A m \in Messages, n \in Ids : at[m] \in {"new", "gated"} => row[<<m, n>>] = "none"
  BY <1>1 DEF QueueOK
<1>3. ASSUME NEW m \in Messages, Submit(m) \/ QueueReport(m)
      PROVE  QueueTyped' /\ QueueOK'
  <2>1. at[m] = "new" /\ reserved' = reserved /\ row' = row
    BY <1>3 DEF Submit, QueueReport, rowVars
  <2>2. Park(m) \/ (queue' = queue /\ at' = [at EXCEPT ![m] = "gated"])
    BY <1>3 DEF Submit, QueueReport
  <2> QED
    BY <1>1, <2>1, <2>2, QueueGains, QueueStands
<1>4. ASSUME NEW m \in Messages, SendStep(m) \/ SendFault(m)
      PROVE  QueueTyped' /\ QueueOK'
  <2>1. queue' = queue /\ reserved' = reserved
    BY <1>4 DEF SendStep, SendFault, OpenRun, DiscardRun, PublishRun, PublishRunStopped, Rollback,
                PublishRunFails, SenderCrash, InSubmit, queueVars
  <2>2. \E a \in {"opened", "rollback", "done"} :
           at[m] \notin {"parked", "new"} /\ at' = [at EXCEPT ![m] = a]
    BY <1>4 DEF SendStep, SendFault, OpenRun, DiscardRun, PublishRun, PublishRunStopped, Rollback,
                PublishRunFails, SenderCrash
  <2>3. row' = row \/ \E x : row' = [row EXCEPT ![<<m, 1>>] = x]
    BY <1>4 DEF SendStep, SendFault, OpenRun, DiscardRun, PublishRun, PublishRunStopped, Rollback,
                PublishRunFails, SenderCrash, rowVars
  <2>4. \A p \in Messages \ {m}, n \in Ids : row'[<<p, n>>] = row[<<p, n>>]
    BY <1>1, <2>3 DEF Runs
  <2> QED
    BY <1>1, <2>1, <2>2, <2>4, QueueStands
<1>5. CASE \/ \E m \in Messages : HandBack(m) \/ HandBackLost(m)
           \/ ClaimLapses \/ ClaimLapsesEarly \/ ReleaseOnCompletion \/ HandlerCrash
           \/ SweeperDrains \/ reapStuckSessions
           \/ StatusStep \/ \E r \in Runs : Report(r)
  <2>1. queue' = queue /\ reserved' = reserved /\ at' = at /\ row' = row
    BY <1>5, StatusKeeps DEF HandBack, HandBackLost, ClaimLapses, ClaimLapsesEarly, ReleaseOnCompletion,
         HandlerCrash, SweeperDrains, reapStuckSessions, Report, queueVars, rowVars, Outside
  <2> QED
    BY <1>1, <2>1, QueueStands
<1>6. ASSUME NEW e \in events, BeginCompletion(e)
      PROVE  QueueTyped' /\ QueueOK'
  <2>1. queue' = queue /\ reserved' = reserved /\ at' = at
    BY <1>6 DEF BeginCompletion, queueVars
  <2>2. \A r \in Runs : row[r] = "none" => row'[r] = row[r]
    BY <1>1, <1>6 DEF BeginCompletion, RowsClosedBy, OpenRuns, Open
  <2> QED
    BY <1>1, <1>2, <2>1, <2>2, QueueStands, EventsTyped
<1>7. CASE \/ \E r \in Runs : ClaimRun(r) \/ TakeMessage(r) \/ ReapRun(r) \/ ReapOrphanedFatRun(r)
           \/ StopSession \/ CancelUnheldRuns
  <2>1. queue' = queue /\ reserved' = reserved /\ at' = at
    BY <1>7 DEF ClaimRun, TakeMessage, ReapRun, ReapOrphanedFatRun, CloseRun, StopSession,
         CancelUnheldRuns, queueVars, Outside
  <2>2. \A r \in Runs : row[r] = "none" => row'[r] = row[r]
    BY <1>1, <1>7 DEF ClaimRun, TakeMessage, ReapRun, ReapOrphanedFatRun, CloseRun, StopSession,
         CancelUnheldRuns, Open
  <2> QED
    BY <1>1, <1>2, <2>1, <2>2, QueueStands, EventsTyped
<1> QED
  BY <1>3, <1>4, <1>5, <1>6, <1>7

-----------------------------------------------------------------------------
(* The runs of a message.                                                  *)

\* A step that makes nothing a candidate, reserves nothing and leaves nothing in the
\* queue without a reservation that still has a candidate.
LEMMA CandidatesShrink ==
    ASSUME OneCandidate,
           \A m \in Messages, n \in Ids : Candidate(m, n)' => Candidate(m, n),
           \A m \in Messages : reserved'[m] = 0 \/ reserved'[m] = reserved[m],
           \A m \in Messages : m \in ToSet(queue') /\ reserved'[m] = 0 =>
               \/ m \in ToSet(queue) /\ reserved[m] = 0
               \/ \A n \in Ids : ~Candidate(m, n)
    PROVE  OneCandidate'
<1> SUFFICES ASSUME NEW m \in Messages
             PROVE  /\ \A n, k \in Ids : Candidate(m, n)' /\ Candidate(m, k)' => n = k
                    /\ reserved'[m] # 0 => \A n \in Ids : Candidate(m, n)' => n = reserved'[m]
                    /\ m \in ToSet(queue') /\ reserved'[m] = 0 => \A n \in Ids : ~Candidate(m, n)'
  BY DEF OneCandidate
<1>1. \A n, k \in Ids : Candidate(m, n)' /\ Candidate(m, k)' => n = k
  BY DEF OneCandidate
<1>2. reserved'[m] # 0 => \A n \in Ids : Candidate(m, n)' => n = reserved'[m]
  BY DEF OneCandidate
<1>3. m \in ToSet(queue') /\ reserved'[m] = 0 => \A n \in Ids : ~Candidate(m, n)'
  BY DEF OneCandidate
<1> QED
  BY <1>1, <1>2, <1>3

\* What a step has to do to the rows for that.
LEMMA RowsShrink ==
    ASSUME NoneNew,
           \A m \in Messages : reserved'[m] = 0 \/ reserved'[m] = reserved[m],
           \A m \in Messages, n \in Ids :
               /\ row'[<<m, n>>] \in Open \cup {"ended"} => Candidate(m, n)
               /\ row'[<<m, n>>] = "none" => row[<<m, n>>] \in {"none"} \cup Open
    PROVE  \A m \in Messages, n \in Ids : Candidate(m, n)' => Candidate(m, n)
<1> SUFFICES ASSUME NEW m \in Messages, NEW n \in Ids, Candidate(m, n)'
             PROVE  Candidate(m, n)
  OBVIOUS
<1>1. CASE row'[<<m, n>>] \in Open \cup {"ended"}
  BY <1>1
<1>2. CASE row'[<<m, n>>] = "none" /\ MayOpen(m, n)'
  <2>1. MayOpen(m, n)
    <3>1. n # 0
      BY Basics
    <3>2. InHand(m, n)' => InHand(m, n)
      BY DEF NoneNew
    <3> QED
      BY <1>2, <3>1, <3>2 DEF MayOpen
  <2> QED
    BY <1>2, <2>1 DEF Candidate
<1> QED
  BY <1>1, <1>2 DEF Candidate

\* A step that leaves the queue and its reservations alone.
LEMMA RunsShrink ==
    ASSUME OneCandidate, NoneNew, queue' = queue, reserved' = reserved,
           \A m \in Messages, n \in Ids :
               /\ row'[<<m, n>>] \in Open \cup {"ended"} => Candidate(m, n)
               /\ row'[<<m, n>>] = "none" => row[<<m, n>>] \in {"none"} \cup Open
    PROVE  OneCandidate'
<1>1. \A m \in Messages, n \in Ids : Candidate(m, n)' => Candidate(m, n)
  BY RowsShrink
<1> QED
  BY <1>1, CandidatesShrink

\* What is not sent, or about to open its run, has no candidate.
LEMMA NoCandidateYet ==
    ASSUME IInv, NEW m \in Messages, at[m] \in {"new", "gated"}
    PROVE  \A n \in Ids : row[<<m, n>>] = "none" /\ ~Candidate(m, n) /\ reserved[m] = 0
<1>1. \A n \in Ids : row[<<m, n>>] = "none"
  BY DEF IInv, QueueOK
<1>2. m \notin ToSet(queue) /\ reserved[m] = 0
  BY DEF IInv, QueueOK
<1>3. \A d \in Drains : drain[d].msg = m => drain[d].pc \notin {"classify", "open"}
  BY InHandKnown DEF IInv, Working
<1> QED
  BY <1>1, <1>2, <1>3, Basics DEF Candidate, MayOpen, InHand, Open

\* The steps of a message's request.
LEMMA SendKeepsOne ==
    ASSUME IInv, NEW m \in Messages,
           Submit(m) \/ QueueReport(m) \/ SendStep(m) \/ SendFault(m)
             \/ HandBack(m) \/ HandBackLost(m)
    PROVE  OneCandidate'
<1>1. NoneNew
  BY SendKeepsDrains
<1>2. /\ OneCandidate /\ row \in [Runs -> {"none"} \cup Open \cup Terminal]
      /\ reserved \in [Messages -> Ids \cup {0}]
  BY DEF IInv, TypeOK
<1>3. CASE Submit(m) \/ QueueReport(m)
  <2>1. at[m] = "new" /\ reserved' = reserved /\ row' = row
    BY <1>3 DEF Submit, QueueReport, rowVars
  <2>2. \A p \in Messages, n \in Ids : Candidate(p, n)' => Candidate(p, n)
    BY <1>1, <2>1, RowsShrink DEF Candidate
  <2>3. ToSet(queue') \subseteq ToSet(queue) \cup {m}
    <3>1. Park(m) \/ queue' = queue
      BY <1>3 DEF Submit, QueueReport
    <3> QED
      BY <2>1, <3>1, QueueGains
  <2>4. \A n \in Ids : ~Candidate(m, n)
    BY <2>1, NoCandidateYet
  <2> QED
    BY <1>2, <2>1, <2>2, <2>3, <2>4, CandidatesShrink
<1>4. CASE HandBack(m) \/ HandBackLost(m)
  BY <1>1, <1>2, <1>4, RunsShrink DEF HandBack, HandBackLost, rowVars, queueVars, Outside, Candidate
<1>5. ASSUME NEW kind \in Kinds(m), OpenRun(m, kind)
      PROVE  OneCandidate'
  <2>1. at[m] = "gated" /\ row' = [row EXCEPT ![<<m, 1>>] = kind]
        /\ queue' = queue /\ reserved' = reserved
    BY <1>5 DEF OpenRun, InSubmit, queueVars
  <2>2. \A n \in Ids : row[<<m, n>>] = "none" /\ ~Candidate(m, n) /\ reserved[m] = 0
    BY <2>1, NoCandidateYet
  <2>3. m \notin ToSet(queue)
    BY <2>1 DEF IInv, QueueOK
  <2>4. \A p \in Messages, n \in Ids :
           /\ <<p, n>> # <<m, 1>> => row'[<<p, n>>] = row[<<p, n>>]
           /\ MayOpen(p, n)' => MayOpen(p, n)
    BY <1>1, <1>2, <2>1 DEF Runs, NoneNew, MayOpen
  <2>5. \A p \in Messages, n \in Ids : <<p, n>> # <<m, 1>> /\ Candidate(p, n)' => Candidate(p, n)
    BY <2>4 DEF Candidate
  <2>6. \A n \in Ids : Candidate(m, n)' => n = 1
    BY <2>2, <2>5
  <2>7. \A p \in Messages \ {m}, n \in Ids : Candidate(p, n)' => Candidate(p, n)
    BY <2>5
  <2>8. reserved[m] = 0
    BY <2>2, Basics
  <2> SUFFICES ASSUME NEW p \in Messages
               PROVE  /\ \A n, k \in Ids : Candidate(p, n)' /\ Candidate(p, k)' => n = k
                      /\ reserved'[p] # 0 => \A n \in Ids : Candidate(p, n)' => n = reserved'[p]
                      /\ p \in ToSet(queue') /\ reserved'[p] = 0 => \A n \in Ids : ~Candidate(p, n)'
    BY DEF OneCandidate
  <2>9. CASE p = m
    BY <2>1, <2>3, <2>6, <2>8, <2>9
  <2>10. CASE p # m
    BY <1>2, <2>1, <2>7, <2>10 DEF OneCandidate
  <2> QED
    BY <2>9, <2>10
<1>6. CASE DiscardRun(m) \/ PublishRun(m) \/ PublishRunStopped(m) \/ Rollback(m) \/ SendFault(m)
  <2>1. queue' = queue /\ reserved' = reserved
    BY <1>6 DEF SendFault, DiscardRun, PublishRun, PublishRunStopped, Rollback,
                PublishRunFails, SenderCrash,
                InSubmit, queueVars
  <2>2. \A r \in Runs : /\ row'[r] \in Open \cup {"ended"} => row[r] \in Open \cup {"ended"}
                        /\ row'[r] = "none" => row[r] \in {"none"} \cup Open
    BY <1>2, <1>6 DEF SendFault, DiscardRun, PublishRun, PublishRunStopped, Rollback,
                PublishRunFails, SenderCrash,
                      rowVars, Open
  <2> QED
    BY <1>1, <1>2, <2>1, <2>2, RunsShrink, EventsTyped DEF Candidate
<1> QED
  BY <1>3, <1>4, <1>5, <1>6 DEF SendStep

\* Completions, workers, the sweeper, Stop and the lapse of a claim.
LEMMA OthersKeepOne ==
    ASSUME IInv,
           \/ ClaimLapses \/ ClaimLapsesEarly
           \/ \E e \in events : BeginCompletion(e)
           \/ ReleaseOnCompletion \/ HandlerCrash
           \/ \E r \in Runs : ClaimRun(r) \/ TakeMessage(r) \/ Report(r)
                                \/ ReapRun(r) \/ ReapOrphanedFatRun(r)
           \/ StatusStep
           \/ StopSession \/ CancelUnheldRuns \/ SweeperDrains \/ reapStuckSessions
    PROVE  OneCandidate'
<1>1. NoneNew
  BY OthersKeepDrains
<1>2. OneCandidate /\ row \in [Runs -> {"none"} \cup Open \cup Terminal] /\ stream \subseteq Runs
  BY DEF IInv, TypeOK
<1>3. queue' = queue /\ reserved' = reserved
  BY StatusKeeps DEF ClaimLapses, ClaimLapsesEarly, BeginCompletion, ReleaseOnCompletion, HandlerCrash,
         ClaimRun, TakeMessage, Report, ReapRun, ReapOrphanedFatRun, CloseRun, StopSession,
         CancelUnheldRuns, SweeperDrains, reapStuckSessions, queueVars, Outside
<1>4. \A r \in Runs : /\ row'[r] \in Open \cup {"ended"} => row[r] \in Open \cup {"ended"}
                      /\ row'[r] = "none" => row[r] \in {"none"} \cup Open
  <2> SUFFICES ASSUME NEW q \in Runs
               PROVE  /\ row'[q] \in Open \cup {"ended"} => row[q] \in Open \cup {"ended"}
                      /\ row'[q] = "none" => row[q] \in {"none"} \cup Open
    OBVIOUS
  <2>1. CASE \E e \in events : BeginCompletion(e)
    BY <1>2, <2>1 DEF BeginCompletion, RowsClosedBy, OpenRuns, Reached, Open
  <2>2. CASE \E r \in Runs : ClaimRun(r) \/ TakeMessage(r)
    BY <1>2, <2>2 DEF ClaimRun, TakeMessage, Open
  <2>3. CASE \/ ClaimLapses \/ ClaimLapsesEarly \/ ReleaseOnCompletion \/ HandlerCrash
             \/ SweeperDrains \/ reapStuckSessions \/ StatusStep \/ \E r \in Runs : Report(r)
    BY <2>3, StatusKeeps DEF ClaimLapses, ClaimLapsesEarly, ReleaseOnCompletion, HandlerCrash, Report,
                SweeperDrains, reapStuckSessions, rowVars
  <2>4. CASE \E r \in Runs : ReapRun(r) \/ ReapOrphanedFatRun(r)
    BY <1>2, <2>4 DEF ReapRun, ReapOrphanedFatRun, CloseRun, Open
  <2>5. CASE StopSession \/ CancelUnheldRuns
    BY <1>2, <2>5 DEF StopSession, CancelUnheldRuns, Open
  <2> QED
    BY <2>1, <2>2, <2>3, <2>4, <2>5
<1> QED
  BY <1>1, <1>2, <1>3, <1>4, RunsShrink, EventsTyped DEF Candidate

\* The steps of a drain.  Taking a run in hand makes a candidate only of an id minted
\* for a message that has none.
LEMMA DrainKeepsOne ==
    ASSUME IInv, NEW d \in Drains, DrainStep(d) \/ DrainFault(d)
    PROVE  OneCandidate'
<1> DEFINE m == drain[d].msg
           n == drain[d].run
<1>1. /\ OneCandidate /\ row \in [Runs -> {"none"} \cup Open \cup Terminal]
      /\ reserved \in [Messages -> Ids \cup {0}]
      /\ queue \in Seq(Messages) /\ IsInjective(queue)
  BY DEF IInv, TypeOK
<1>2. /\ drain[d].pc \in Working => m \in Messages
      /\ drain[d].pc \in WithRun => n \in Ids /\ m \in Messages
  BY InHandKnown DEF IInv, WithRun
<1>3. CASE reserveDispatchTaskId(d) /\ m \in ToSet(queue)
  <2>1. /\ m \in Messages /\ reserved'[m] \in Ids
        /\ reserved[m] # 0 => reserved' = reserved
        /\ reserved' = [reserved EXCEPT ![m] = reserved'[m]]
        /\ \A p \in Messages, k \in Ids : InHand(p, k)' =>
              InHand(p, k) \/ (p = m /\ k = reserved'[p])
    BY <1>3, ReserveDoes
  <2>2. row' = row /\ queue' = queue
    BY <1>3 DEF reserveDispatchTaskId, rowVars
  <2>3. \A p \in Messages \ {m} : reserved'[p] = reserved[p]
    BY <1>1, <2>1
  <2>4. \A p \in Messages, k \in Ids :
           Candidate(p, k)' => Candidate(p, k) \/ (p = m /\ k = reserved'[m])
    <3> SUFFICES ASSUME NEW p \in Messages, NEW k \in Ids, Candidate(p, k)',
                        ~(p = m /\ k = reserved'[m])
                 PROVE  Candidate(p, k)
      OBVIOUS
    <3>1. MayOpen(p, k)' => MayOpen(p, k)
      BY <2>1, <2>3 DEF MayOpen
    <3> QED
      BY <2>2, <3>1 DEF Candidate
  <2>5. \A k \in Ids : Candidate(m, k) => k = reserved'[m]
    BY <1>1, <1>3, <2>1 DEF OneCandidate
  <2> SUFFICES ASSUME NEW p \in Messages
               PROVE  /\ \A j, k \in Ids : Candidate(p, j)' /\ Candidate(p, k)' => j = k
                      /\ reserved'[p] # 0 => \A k \in Ids : Candidate(p, k)' => k = reserved'[p]
                      /\ p \in ToSet(queue') /\ reserved'[p] = 0 => \A k \in Ids : ~Candidate(p, k)'
    BY DEF OneCandidate
  <2>6. CASE p = m
    BY <2>1, <2>4, <2>5, <2>6, Basics
  <2>7. CASE p # m
    BY <1>1, <2>2, <2>3, <2>4, <2>7 DEF OneCandidate
  <2> QED
    BY <2>6, <2>7
<1>4. CASE ~(reserveDispatchTaskId(d) /\ m \in ToSet(queue))
  <2>1. NoneNew
    BY <1>4, DrainKeepsDrains
  <2>2. CASE reserveDispatchTaskId(d)
    BY <1>1, <1>4, <2>1, <2>2, RunsShrink DEF reserveDispatchTaskId, rowVars, Candidate
  <2>3. CASE PrepareHandoff(d)
    <3>1. drain[d].pc = "classify" /\ row' = row /\ queue' = queue
      BY <2>3 DEF PrepareHandoff, rowVars
    <3>2. m \in Messages /\ n \in Ids
      BY <1>2, <3>1 DEF Working, WithRun
    <3>3. CASE reserved' = reserved
      BY <1>1, <2>1, <3>1, <3>3, RunsShrink DEF Candidate
    <3>4. CASE /\ reserved' = [reserved EXCEPT ![m] = 0] /\ reserved[m] = n
               /\ recordedHandoffState(m, n) = "retryable"
      <4>1. \A p \in Messages : reserved'[p] = IF p = m THEN 0 ELSE reserved[p]
        BY <1>1, <3>4
      <4>2. \A p \in Messages, k \in Ids : Candidate(p, k)' => Candidate(p, k)
        BY <2>1, <3>1, <4>1, RowsShrink DEF Candidate
      <4>3. row[<<m, n>>] \in {"failed", "unconfirmed"}
        BY <1>1, <3>2, <3>4, HandoffKnown
      <4>4. ~Candidate(m, n)
        BY <4>3 DEF Candidate, Open
      <4>5. \A k \in Ids : ~Candidate(m, k)
        BY <1>1, <3>2, <3>4, <4>4, Basics DEF OneCandidate
      <4> QED
        BY <1>1, <3>1, <4>1, <4>2, <4>5, CandidatesShrink
    <3> QED
      BY <2>3, <3>3, <3>4 DEF PrepareHandoff
  <2>4. CASE DeletePending(d) \/ DropPending(d)
    <3>1. m \in Messages /\ row' = row
      BY <1>2, <2>4 DEF DeletePending, DropPending, Working, rowVars
    <3>2. CASE DeleteRow(m)
      <4>1. ToSet(queue') = ToSet(queue) \ {m}
        BY <1>1, <3>1, <3>2, DeleteDoes
      <4>2. \A p \in Messages : reserved'[p] = IF p = m THEN 0 ELSE reserved[p]
        BY <1>1, <3>2 DEF DeleteRow
      <4>3. \A p \in Messages, k \in Ids : Candidate(p, k)' => Candidate(p, k)
        BY <2>1, <3>1, <4>2, RowsShrink DEF Candidate
      <4> QED
        BY <1>1, <4>1, <4>2, <4>3, CandidatesShrink
    <3>3. CASE UNCHANGED queueVars
      BY <1>1, <2>1, <3>1, <3>3, RunsShrink DEF queueVars, Candidate
    <3> QED
      BY <2>4, <3>2, <3>3 DEF DeletePending, DropPending
  <2>5. CASE \E kind \in Kinds(drain[d].msg) : OpenPending(d, kind)
    <3>1. drain[d].pc = "open" /\ queue' = queue /\ reserved' = reserved
      BY <2>5 DEF OpenPending, queueVars
    <3>2. m \in Messages /\ n \in Ids
      BY <1>2, <3>1 DEF Working, WithRun
    <3>3. \/ row' = row
          \/ row[<<m, n>>] = "none" /\ \E kind \in {"queued", "preparing"} :
                row' = [row EXCEPT ![<<m, n>>] = kind]
      BY <2>5 DEF OpenPending, Kinds
    <3>4. row[<<m, n>>] = "none" => Candidate(m, n)
      BY <3>1 DEF Candidate, MayOpen, InHand
    <3>5. \A p \in Messages, k \in Ids :
             /\ row'[<<p, k>>] \in Open \cup {"ended"} => Candidate(p, k)
             /\ row'[<<p, k>>] = "none" => row[<<p, k>>] \in {"none"} \cup Open
      <4>1. CASE row' = row
        BY <4>1 DEF Candidate
      <4>2. CASE row[<<m, n>>] = "none" /\ \E kind \in {"queued", "preparing"} :
                    row' = [row EXCEPT ![<<m, n>>] = kind]
        <5>1. \A p \in Messages, k \in Ids :
                 <<p, k>> # <<m, n>> => row'[<<p, k>>] = row[<<p, k>>]
          BY <1>1, <4>2 DEF Runs
        <5>2. row'[<<m, n>>] # "none"
          BY <1>1, <3>2, <4>2 DEF Runs
        <5> QED
          BY <3>4, <4>2, <5>1, <5>2 DEF Candidate
      <4> QED
        BY <3>3, <4>1, <4>2
    <3> QED
      BY <1>1, <2>1, <3>1, <3>5, RunsShrink
  <2>6. CASE ~(reserveDispatchTaskId(d) \/ PrepareHandoff(d) \/ DeletePending(d) \/ DropPending(d)
               \/ \E kind \in Kinds(drain[d].msg) : OpenPending(d, kind))
    <3>1. queue' = queue /\ reserved' = reserved
      BY <2>6 DEF DrainStep, DrainFault, takeClaim, ReadQueue, CredentialsUnreadable, BindRefused,
         RejectPending, DiscardPending, PublishPending, GatePending, RefusePending,
         NameRefusal, AnnounceRefusal, ReleaseDrain, Recheck, OpenPendingFails,
         PublishPendingFails, PublishPendingStopped, AnnounceRefusalFails, DrainCrash, queueVars
    <3>2. \A r \in Runs : /\ row'[r] \in Open \cup {"ended"} => row[r] \in Open \cup {"ended"}
                          /\ row'[r] = "none" => row[r] \in {"none"} \cup Open
      <4> SUFFICES ASSUME NEW q \in Runs
                   PROVE  /\ row'[q] \in Open \cup {"ended"} => row[q] \in Open \cup {"ended"}
                          /\ row'[q] = "none" => row[q] \in {"none"} \cup Open
        OBVIOUS
      <4>1. CASE BindRefused(d)
        BY <1>1, <4>1 DEF BindRefused, Open
      <4>2. CASE DiscardPending(d) \/ PublishPending(d)
        BY <1>1, <4>2 DEF DiscardPending, PublishPending, Open
      <4>3. CASE PublishPendingFails(d)
        BY <1>1, <4>3 DEF PublishPendingFails, Open
      <4>4. CASE ~(BindRefused(d) \/ DiscardPending(d) \/ PublishPending(d)
                   \/ PublishPendingFails(d))
        BY <2>6, <4>4 DEF DrainStep, DrainFault, takeClaim, ReadQueue, CredentialsUnreadable,
           RejectPending, GatePending, RefusePending, NameRefusal, AnnounceRefusal, ReleaseDrain,
           Recheck, OpenPendingFails, AnnounceRefusalFails, PublishPendingStopped, DrainCrash, rowVars
      <4> QED
        BY <4>1, <4>2, <4>3, <4>4
    <3> QED
      BY <1>1, <2>1, <3>1, <3>2, RunsShrink, EventsTyped DEF Candidate
  <2> QED
    BY <2>2, <2>3, <2>4, <2>5, <2>6
<1> QED
  BY <1>3, <1>4

-----------------------------------------------------------------------------
(* The theorems.                                                           *)

\* The parts of the invariant make up the whole.
LEMMA Together ==
    RestOK /\ QueueTyped /\ DrainOK => TypeOK
<1> SUFFICES ASSUME RestOK, QueueTyped, DrainOK PROVE TypeOK
  OBVIOUS
<1>1. \A d \in Drains : drain[d].pc \notin {"off", "claim", "read"} =>
         drain[d].pc \in {"release", "recheck"} \/ drain[d].msg \in Messages
  BY InHandKnown DEF DrainType, Working, Resting
<1> QED
  BY <1>1 DEF RestOK, QueueTyped, TypeOK, Statuses, EventType, NoticeType

\* The same of the next state.
LEMMA TogetherAfter ==
    RestOK' /\ QueueTyped' /\ DrainOK' => TypeOK'
BY Together, PTL

\* The invariant holds at first: nothing has been sent.
LEMMA InitIInv == Init => IInv
<1> SUFFICES ASSUME Init PROVE IInv
  OBVIOUS
<1>1. RestOK
  <2>1. torn \in BOOLEAN
    BY Zenon DEF Init
  <2>2. /\ attempts \in [Messages -> 0 .. BIND_MAX_ATTEMPTS]
        /\ faults \in 0 .. MaxFaults /\ status_event_at \in 0 .. MaxFaults
        /\ row \in [Runs -> Statuses]
        /\ reserved \in [Messages -> Ids \cup {0}]
        /\ at \in [Messages -> {"new", "parked", "gated", "opened", "rollback", "done"}]
    BY DEF Init, GateAssumption, Statuses
  <2>3. handler \in [pc : {"free", "release", "drain"}, event : events \cup {None}]
    BY DEF Init, NoEvent
  <2> QED
    BY <2>1, <2>2, <2>3 DEF Init, RestOK
<1>2. QueueTyped /\ ToSet(queue) = {}
  BY DEF Init, QueueTyped, IsInjective, ToSet
<1>3. DrainOK
  <2>1. \A d \in Drains : drain[d] = Off
    BY DEF Init
  <2>2. drain \in [Drains -> DrainType]
    BY Basics DEF Init
  <2> QED
    BY <2>1, <2>2, Basics DEF DrainOK, Fits
<1>4. HandlerOK
  BY Basics DEF Init, HandlerOK, NoEvent
<1>5. QueueOK
  BY <1>2, EventsTyped DEF Init, QueueOK
<1>6. OneCandidate
  <2>1. \A m \in Messages, n \in Ids : ~Candidate(m, n)
    BY EventsTyped, Basics DEF Init, Candidate, MayOpen, InHand, Open
  <2> QED
    BY <2>1 DEF OneCandidate
<1> QED
  BY <1>1, <1>2, <1>3, <1>4, <1>5, <1>6, Together DEF IInv

\* Every step keeps it.
LEMMA NextIInv == IInv /\ [Next]_vars => IInv'
<1> SUFFICES ASSUME IInv, [Next]_vars PROVE IInv'
  OBVIOUS
<1> DEFINE Sends == \E m \in Messages :
                       \/ Submit(m) \/ QueueReport(m) \/ SendStep(m) \/ SendFault(m)
                       \/ HandBack(m) \/ HandBackLost(m)
           Works == \E d \in Drains : DrainStep(d) \/ DrainFault(d)
           Other == \/ ClaimLapses \/ ClaimLapsesEarly
                    \/ \E e \in events : BeginCompletion(e)
                    \/ ReleaseOnCompletion \/ HandlerCrash
                    \/ \E r \in Runs : ClaimRun(r) \/ TakeMessage(r) \/ Report(r)
                                         \/ ReapRun(r) \/ ReapOrphanedFatRun(r)
                    \/ StatusStep
                    \/ StopSession \/ CancelUnheldRuns \/ SweeperDrains \/ reapStuckSessions
<1>1. Sends \/ Works \/ Other \/ UNCHANGED vars
  BY DEF Next, StatusStep
<1>2. CASE Sends
  <2>1. DrainOK' /\ HandlerOK' /\ OneCandidate'
    BY <1>2, SendKeepsDrains, SendKeepsOne
  <2>2. RestOK'
    BY <1>2, OthersKeepRest
  <2>3. QueueTyped' /\ QueueOK'
    BY <1>2, OthersKeepQueue
  <2> QED
    BY <2>1, <2>2, <2>3, TogetherAfter DEF IInv
<1>3. CASE Other
  <2>1. DrainOK' /\ HandlerOK' /\ OneCandidate'
    BY <1>3, OthersKeepDrains, OthersKeepOne
  <2>2. RestOK'
    BY <1>3, OthersKeepRest
  <2>3. QueueTyped' /\ QueueOK'
    BY <1>3, OthersKeepQueue
  <2> QED
    BY <2>1, <2>2, <2>3, TogetherAfter DEF IInv
<1>4. CASE Works
  <2> PICK d \in Drains : DrainStep(d) \/ DrainFault(d)
    BY <1>4
  <2>1. DrainOK' /\ HandlerOK'
    BY DrainKeepsDrains, ReserveDoes
  <2>2. RestOK' /\ QueueTyped' /\ QueueOK' /\ OneCandidate'
    BY DrainKeepsRest, DrainKeepsQueue, DrainKeepsOne
  <2> QED
    BY <2>1, <2>2, TogetherAfter DEF IInv
<1>5. CASE UNCHANGED vars
  <2>1. OneCandidate'
    BY <1>5 DEF vars, queueVars, rowVars, IInv, OneCandidate, Candidate, MayOpen, InHand
  <2>2. DrainOK' /\ HandlerOK' /\ QueueOK'
    BY <1>5 DEF vars, queueVars, rowVars, eventVars, IInv, DrainOK, Fits, HandlerOK, QueueOK
  <2>3. TypeOK'
    BY <1>5 DEF vars, gateVars, queueVars, rowVars, eventVars, noticeVars, IInv, TypeOK, OpenRuns
  <2> QED
    BY <2>1, <2>2, <2>3 DEF IInv
<1> QED
  BY <1>1, <1>2, <1>3, <1>4, <1>5

\* So it always holds.
LEMMA Invariance == Spec => []IInv
BY InitIInv, NextIInv, PTL DEF Spec

\* Every variable of the session keeps its type, and a drain past its read has a
\* message in hand until it lets go of it.
THEOREM TypesHold == Spec => []TypeOK
<1>1. IInv => TypeOK
  BY DEF IInv
<1> QED
  BY <1>1, Invariance, PTL

\* A turn is executed at most once: dispatch_task_id is only rotated once the run it
\* names is over without having run, so a message never has two runs that a worker
\* could take, in whatever order drains, crashes and publishes come.
THEOREM TurnRunsOnce == Spec => []NoTurnRunsTwice
<1>1. IInv => NoTurnRunsTwice
  <2> SUFFICES ASSUME IInv, NEW m \in Messages
               PROVE  Cardinality({r \in RunsOf(m) : Reached(r)}) <= 1
    BY DEF NoTurnRunsTwice
  <2> DEFINE S == {r \in RunsOf(m) : Reached(r)}
  <2>1. \A r, q \in S : r = q
    <3> SUFFICES ASSUME NEW r \in S, NEW q \in S PROVE r = q
      OBVIOUS
    <3>1. PICK n \in Ids, k \in Ids : r = <<m, n>> /\ q = <<m, k>>
      BY DEF RunsOf
    <3>2. Candidate(m, n) /\ Candidate(m, k)
      BY <3>1 DEF Reached, Candidate, Open
    <3> QED
      BY <3>1, <3>2 DEF IInv, OneCandidate
  <2>2. CASE S = {}
    BY <2>2, FS_EmptySet
  <2>3. CASE S # {}
    <3>1. PICK r \in S : TRUE
      BY <2>3
    <3>2. S = {r}
      BY <2>1, <3>1
    <3> QED
      BY <3>2, FS_Singleton
  <2> QED
    BY <2>2, <2>3
<1> QED
  BY <1>1, Invariance, PTL
=============================================================================
