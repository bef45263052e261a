--------------------------- MODULE TaskDagProofs ---------------------------
(***************************************************************************)
(* The safety properties of a task graph, for every graph, failure policy,  *)
(* choice of scripts and number of detours.                                 *)
(***************************************************************************)
EXTENDS TaskDag, TLAPS

-----------------------------------------------------------------------------
(* The inductive invariant.                                                *)

\* The message Brain executes stays in the stream until its run settles it.
RunHasItsMessage == run.node \in Nodes => msgs[run.node] > 0

\* The messages a node has and those that dispatches of it will still publish.
Publishing(n) == msgs[n] + disp[n]["work"] + disp[n]["late"]

\* A node that was released: also one whose row has since failed, while a dispatch or a
\* message of it is still about.
Begun(n) ==
    \/ status[n] \notin {"waiting_deps", "failed", "cancelled"}
    \/ run.node = n
    \/ Publishing(n) > 0

BegunAfterInputs ==
    \A n \in Nodes : Begun(n) => \A d \in Deps[n] : status[d] = "completed"

\* Only a script's row waits for something outside, and so is queued a second time.
OnlyScriptsWait ==
    \A n \in Nodes \ Scripts :
        status[n] # "waiting_external" /\ outbox[n] # "waiting_external"

\* A row that may be taken into preparing has no dispatch and no message.
PublishingOnce ==
    \A n \in Nodes \ Scripts :
        /\ Publishing(n) <= 1
        /\ status[n] \in {"waiting_deps", "queued"} => Publishing(n) = 0

\* A verdict that was read and not yet written still holds.
VerdictsAreTrue ==
    root = "completed" \/ "completed" \in verdicts
        => \A n \in Nodes : status[n] = "completed"

\* Between the two statements of a root's cancel no row of the graph is open.
CancelledRootIsClosed ==
    req.kind = "root" => \A n \in Nodes : status[n] \in Terminal

Parts ==
    /\ RunHasItsMessage
    /\ BegunAfterInputs
    /\ OnlyScriptsWait
    /\ PublishingOnce
    /\ VerdictsAreTrue
    /\ CancelledRootIsClosed

IInv == TypeOK /\ Parts

\* What EndedIsFinal says of a step.
Kept ==
    /\ root \in Terminal => root' = root
    /\ \A m \in Nodes : status[m] \in Terminal => status'[m] = status[m]

-----------------------------------------------------------------------------
\* The budget of detours stays within its bound.
LEMMA DetourTyped ==
    ASSUME detours \in 0 .. MaxDetours, Detour \/ Straight
    PROVE  detours' \in 0 .. MaxDetours
  BY DagAssumption DEF Detour, Straight

\* A dispatch moves between stages, and their counts stay natural numbers.
LEMMA DispatchTyped ==
    ASSUME NEW n \in Nodes, NEW from \in Stages, NEW to \in Stages,
           disp \in [Nodes -> [Stages -> Nat]], Ends(n, from) \/ GoesOn(n, from, to)
    PROVE  disp' \in [Nodes -> [Stages -> Nat]]
<1>1. disp[n] \in [Stages -> Nat]
  OBVIOUS
<1>2. CASE Ends(n, from)
  BY <1>1, <1>2 DEF Ends
<1>3. CASE GoesOn(n, from, to)
  BY <1>1, <1>3 DEF GoesOn
<1> QED
  BY <1>2, <1>3

\* Every step keeps the types.
LEMMA TypeStep ==
    ASSUME TypeOK, RunHasItsMessage, [Next]_vars
    PROVE  TypeOK'
<1> USE DagAssumption DEF TypeOK, RunHasItsMessage, Stages, Statuses, Executing,
       Terminal, Results
<1>1. CASE promoteReadyTasks
  BY <1>1 DEF promoteReadyTasks, Ready, Transition
<1>2. CASE aggregateSelect
  BY <1>2 DEF aggregateSelect, Aggregate
<1>3. ASSUME NEW v \in Terminal, aggregateWrite(v) PROVE TypeOK'
  BY <1>3 DEF aggregateWrite
<1>4. CASE ReplicaCrash
  BY <1>4 DEF ReplicaCrash, Detour, NoDispatch
<1>5. CASE AttemptEnds
  BY <1>5 DEF AttemptEnds, Detour, EndRun, Idle
<1>6. CASE reapStuckRoot
  BY <1>6 DEF reapStuckRoot, RootIsStuck
<1>7. CASE reapStuckNodes
  <2>1. detours' \in 0 .. MaxDetours
    BY <1>7, DetourTyped DEF reapStuckNodes
  <2>2. status' \in [Nodes -> Statuses]
    BY <1>7 DEF reapStuckNodes, Transition
  <2>3. stuck' \in BOOLEAN
    BY <1>7 DEF reapStuckNodes
  <2> QED
    BY <1>7, <2>1, <2>2, <2>3 DEF reapStuckNodes
<1>8. CASE CancelRoot
  BY <1>8 DEF CancelRoot, Transition, NoReq
<1>9. CASE CancelRootRelease
  BY <1>9 DEF CancelRootRelease, Interrupt, NoReq
<1>10. CASE CancelTail
  BY <1>10 DEF CancelTail, Interrupt, NoReq, Transition
<1>11. CASE CancelDies
  BY <1>11 DEF CancelDies, Detour, NoReq
<1>12. ASSUME NEW n \in Nodes, cascadeFailures(n) PROVE TypeOK'
  BY <1>12 DEF cascadeFailures, Transition
<1>13. ASSUME NEW n \in Nodes, DispatchReserve(n) PROVE TypeOK'
  BY <1>13 DEF DispatchReserve, Takes, Transition
<1>14. ASSUME NEW n \in Nodes, DispatchPublish(n) PROVE TypeOK'
  <2>1. disp' \in [Nodes -> [Stages -> Nat]]
    BY <1>14, DispatchTyped DEF DispatchPublish
  <2>2. msgs' \in [Nodes -> Nat]
    BY <1>14 DEF DispatchPublish
  <2> QED
    BY <1>14, <2>1, <2>2 DEF DispatchPublish
<1>15. ASSUME NEW n \in Nodes, DispatchSettled(n) PROVE TypeOK'
  BY <1>15 DEF DispatchSettled, Ends
<1>16. ASSUME NEW n \in Nodes, DispatchFails(n) PROVE TypeOK'
  <2>1. detours' \in 0 .. MaxDetours
    BY <1>16, DetourTyped DEF DispatchFails
  <2>2. disp' \in [Nodes -> [Stages -> Nat]]
    BY <1>16, DispatchTyped DEF DispatchFails
  <2> QED
    BY <1>16, <2>1, <2>2 DEF DispatchFails, Transition
<1>17. ASSUME NEW n \in Nodes, DispatchTimeout(n) PROVE TypeOK'
  <2>1. detours' \in 0 .. MaxDetours
    BY <1>17, DetourTyped DEF DispatchTimeout
  <2>2. disp' \in [Nodes -> [Stages -> Nat]]
    BY <1>17, DispatchTyped DEF DispatchTimeout
  <2> QED
    BY <1>17, <2>1, <2>2 DEF DispatchTimeout, Transition
<1>18. ASSUME NEW n \in Nodes, StartRun(n) PROVE TypeOK'
  BY <1>18 DEF StartRun
<1>19. ASSUME NEW n \in Nodes, LeaseTick(n) PROVE TypeOK'
  <2>1. msgs' \in [Nodes -> Nat]
    BY <1>19 DEF LeaseTick, RunHasItsMessage, Acked
  <2>2. lease' \in [Nodes -> {"none", "held", "lapsed"}]
    BY <1>19 DEF LeaseTick, EndRun
  <2>3. run' \in [node : Nodes \cup {NoNode}, aborted : BOOLEAN]
    <3>1. run' \in {run, [run EXCEPT !.aborted = TRUE], Idle}
      BY <1>19 DEF LeaseTick, EndRun
    <3>2. [run EXCEPT !.aborted = TRUE] \in [node : Nodes \cup {NoNode}, aborted : BOOLEAN]
      OBVIOUS
    <3>3. Idle \in [node : Nodes \cup {NoNode}, aborted : BOOLEAN]
      BY DEF Idle
    <3> QED
      BY <3>1, <3>2, <3>3
  <2> QED
    BY <1>19, <2>1, <2>2, <2>3 DEF LeaseTick
<1>20. ASSUME NEW n \in Nodes, ReportRunning(n) PROVE TypeOK'
  BY <1>20 DEF ReportRunning, Transition
<1>21. ASSUME NEW n \in Nodes, NEW d \in Deliveries, ReplayCallback(n, d) PROVE TypeOK'
  BY <1>21 DEF ReplayCallback, Deliver, Deliveries, applyAgentDone, Transition,
     ExpectedBy, MayStopHandle, Acked, Straight, Detour
<1>22. ASSUME NEW n \in Nodes, NEW d \in Deliveries, NEW res \in Results,
              FinishRun(n, res, d) PROVE TypeOK'
  BY <1>22 DEF FinishRun, Deliver, Deliveries, applyAgentDone, Transition, ExpectedBy,
     MayStopHandle, Acked, EndRun, Idle, Straight, Detour
<1>23. ASSUME NEW n \in Nodes, LoseMessage(n) PROVE TypeOK'
  BY <1>23 DEF LoseMessage, Detour, Acked
<1>24. ASSUME NEW n \in Nodes, resumeFromExternal(n) PROVE TypeOK'
  BY <1>24 DEF resumeFromExternal, Transition
<1>25. ASSUME NEW n \in Nodes, reapWaitExternal(n) PROVE TypeOK'
  BY <1>25 DEF reapWaitExternal, Transition
<1>26. ASSUME NEW n \in Nodes, reapStaleTasks(n) PROVE TypeOK'
  <2>1. detours' \in 0 .. MaxDetours
    BY <1>26, DetourTyped DEF reapStaleTasks
  <2>2. run' \in [node : Nodes \cup {NoNode}, aborted : BOOLEAN]
    BY <1>26 DEF reapStaleTasks, Interrupt
  <2> QED
    BY <1>26, <2>1, <2>2 DEF reapStaleTasks, Close
<1>27. ASSUME NEW n \in Nodes, reapLostLeases(n) PROVE TypeOK'
  BY <1>27 DEF reapLostLeases, Close, Straight, Detour
<1>28. ASSUME NEW n \in Nodes, CancelNode(n) PROVE TypeOK'
  BY <1>28 DEF CancelNode, NoReq
<1>29. CASE UNCHANGED vars
  BY <1>29 DEF vars
<1> QED
  BY <1>1, <1>2, <1>3, <1>4, <1>5, <1>6, <1>7, <1>8, <1>9, <1>10, <1>11, <1>12, <1>13,
     <1>14, <1>15, <1>16, <1>17, <1>18, <1>19, <1>20, <1>21, <1>22, <1>23, <1>24,
     <1>25, <1>26, <1>27, <1>28, <1>29 DEF Next, Node

\* No step changes the ending of a row, or of the root's.
LEMMA EndedStep ==
    ASSUME TypeOK, [Next]_vars
    PROVE  Kept
<1> USE DEF TypeOK, Kept, Stages, Statuses, Executing, Terminal, Results
<1>1. CASE promoteReadyTasks
  BY <1>1 DEF promoteReadyTasks, Ready, Transition
<1>2. CASE aggregateSelect
  BY <1>2 DEF aggregateSelect, Aggregate
<1>3. ASSUME NEW v \in Terminal, aggregateWrite(v) PROVE Kept
  BY <1>3 DEF aggregateWrite
<1>4. CASE ReplicaCrash
  BY <1>4 DEF ReplicaCrash, Detour, NoDispatch
<1>5. CASE AttemptEnds
  BY <1>5 DEF AttemptEnds, Detour, EndRun, Idle
<1>6. CASE reapStuckRoot
  BY <1>6 DEF reapStuckRoot, RootIsStuck
<1>7. CASE reapStuckNodes
  BY <1>7 DEF reapStuckNodes, Straight, Detour, Transition
<1>8. CASE CancelRoot
  BY <1>8 DEF CancelRoot, Transition, NoReq
<1>9. CASE CancelRootRelease
  BY <1>9 DEF CancelRootRelease, Interrupt, NoReq
<1>10. CASE CancelTail
  BY <1>10 DEF CancelTail, Interrupt, NoReq, Transition
<1>11. CASE CancelDies
  BY <1>11 DEF CancelDies, Detour, NoReq
<1>12. ASSUME NEW n \in Nodes, cascadeFailures(n) PROVE Kept
  BY <1>12 DEF cascadeFailures, Transition
<1>13. ASSUME NEW n \in Nodes, DispatchReserve(n) PROVE Kept
  BY <1>13 DEF DispatchReserve, Takes, Transition
<1>14. ASSUME NEW n \in Nodes, DispatchPublish(n) PROVE Kept
  BY <1>14 DEF DispatchPublish, GoesOn, Ends
<1>15. ASSUME NEW n \in Nodes, DispatchSettled(n) PROVE Kept
  BY <1>15 DEF DispatchSettled, Ends
<1>16. ASSUME NEW n \in Nodes, DispatchFails(n) PROVE Kept
  BY <1>16 DEF DispatchFails, Ends, Transition, Detour
<1>17. ASSUME NEW n \in Nodes, DispatchTimeout(n) PROVE Kept
  BY <1>17 DEF DispatchTimeout, Ends, GoesOn, Transition, Detour
<1>18. ASSUME NEW n \in Nodes, StartRun(n) PROVE Kept
  BY <1>18 DEF StartRun
<1>19. ASSUME NEW n \in Nodes, LeaseTick(n) PROVE Kept
  BY <1>19 DEF LeaseTick, EndRun, Idle, Acked
<1>20. ASSUME NEW n \in Nodes, ReportRunning(n) PROVE Kept
  BY <1>20 DEF ReportRunning, Transition
<1>21. ASSUME NEW n \in Nodes, NEW d \in Deliveries, ReplayCallback(n, d) PROVE Kept
  BY <1>21 DEF ReplayCallback, Deliver, Deliveries, applyAgentDone, Transition,
     ExpectedBy, MayStopHandle, Acked, Straight, Detour
<1>22. ASSUME NEW n \in Nodes, NEW d \in Deliveries, NEW res \in Results,
              FinishRun(n, res, d) PROVE Kept
  BY <1>22 DEF FinishRun, Deliver, Deliveries, applyAgentDone, Transition, ExpectedBy,
     MayStopHandle, Acked, EndRun, Idle, Straight, Detour
<1>23. ASSUME NEW n \in Nodes, LoseMessage(n) PROVE Kept
  BY <1>23 DEF LoseMessage, Detour, Acked
<1>24. ASSUME NEW n \in Nodes, resumeFromExternal(n) PROVE Kept
  BY <1>24 DEF resumeFromExternal, Transition
<1>25. ASSUME NEW n \in Nodes, reapWaitExternal(n) PROVE Kept
  BY <1>25 DEF reapWaitExternal, Transition
<1>26. ASSUME NEW n \in Nodes, reapStaleTasks(n) PROVE Kept
  BY <1>26 DEF reapStaleTasks, Close, Interrupt, Straight, Detour
<1>27. ASSUME NEW n \in Nodes, reapLostLeases(n) PROVE Kept
  BY <1>27 DEF reapLostLeases, Close, Straight, Detour
<1>28. ASSUME NEW n \in Nodes, CancelNode(n) PROVE Kept
  BY <1>28 DEF CancelNode, NoReq
<1>29. CASE UNCHANGED vars
  BY <1>29 DEF vars
<1> QED
  BY <1>1, <1>2, <1>3, <1>4, <1>5, <1>6, <1>7, <1>8, <1>9, <1>10, <1>11, <1>12, <1>13,
     <1>14, <1>15, <1>16, <1>17, <1>18, <1>19, <1>20, <1>21, <1>22, <1>23, <1>24,
     <1>25, <1>26, <1>27, <1>28, <1>29 DEF Next, Node

\* Every step keeps the other parts of the invariant.
LEMMA PartsStep ==
    ASSUME IInv, [Next]_vars
    PROVE  Parts'
<1>0. Kept
  BY EndedStep DEF IInv
<1> USE <1>0, DagAssumption DEF IInv, Parts, TypeOK, Kept, RunHasItsMessage,
       BegunAfterInputs, OnlyScriptsWait, PublishingOnce, VerdictsAreTrue,
       CancelledRootIsClosed, Begun, Publishing, Stages, Statuses, Executing,
       Terminal, Results
<1>1. CASE promoteReadyTasks
  BY <1>1 DEF promoteReadyTasks, Ready, Transition
<1>2. CASE aggregateSelect
  BY <1>2 DEF aggregateSelect, Aggregate
<1>3. ASSUME NEW v \in Terminal, aggregateWrite(v) PROVE Parts'
  BY <1>3 DEF aggregateWrite
<1>4. CASE ReplicaCrash
  <2>1. \A m \in Nodes : Publishing(m)' <= Publishing(m) /\ Publishing(m)' \in Nat
    BY <1>4 DEF ReplicaCrash, NoDispatch
  <2>2. UNCHANGED <<status, root, msgs, outbox, run, req>> /\ verdicts' \subseteq verdicts
    BY <1>4 DEF ReplicaCrash
  <2>3. BegunAfterInputs' /\ PublishingOnce'
    BY <2>1, <2>2
  <2> QED
    BY <2>2, <2>3
<1>5. CASE AttemptEnds
  BY <1>5 DEF AttemptEnds, Detour, EndRun, Idle
<1>6. CASE reapStuckRoot
  BY <1>6 DEF reapStuckRoot, RootIsStuck
<1>7. CASE reapStuckNodes
  BY <1>7 DEF reapStuckNodes, Straight, Detour, Transition
<1>8. CASE CancelRoot
  BY <1>8 DEF CancelRoot, Transition, NoReq
<1>9. CASE CancelRootRelease
  BY <1>9 DEF CancelRootRelease, Interrupt, NoReq
<1>10. CASE CancelTail
  BY <1>10 DEF CancelTail, Interrupt, NoReq, Transition
<1>11. CASE CancelDies
  BY <1>11 DEF CancelDies, Detour, NoReq
<1>12. ASSUME NEW n \in Nodes, cascadeFailures(n) PROVE Parts'
  BY <1>12 DEF cascadeFailures, Transition
<1>13. ASSUME NEW n \in Nodes, DispatchReserve(n) PROVE Parts'
  BY <1>13 DEF DispatchReserve, Takes, Transition
<1>14. ASSUME NEW n \in Nodes, DispatchPublish(n) PROVE Parts'
  BY <1>14 DEF DispatchPublish, GoesOn, Ends
<1>15. ASSUME NEW n \in Nodes, DispatchSettled(n) PROVE Parts'
  BY <1>15 DEF DispatchSettled, Ends
<1>16. ASSUME NEW n \in Nodes, DispatchFails(n) PROVE Parts'
  <2>1. /\ Publishing(n)' = Publishing(n) - 1 /\ Publishing(n) > 0
        /\ \A m \in Nodes \ {n} : Publishing(m)' = Publishing(m)
        /\ \A m \in Nodes : Publishing(m) \in Nat
    <3>1. CASE Ends(n, "work")
      BY <1>16, <3>1 DEF DispatchFails, Ends
    <3>2. CASE Ends(n, "late")
      BY <1>16, <3>2 DEF DispatchFails, Ends
    <3> QED
      BY <1>16, <3>1, <3>2 DEF DispatchFails
  <2> HIDE DEF Publishing
  <2>2. BegunAfterInputs'
    BY <1>16, <2>1 DEF DispatchFails, Transition
  <2>3. PublishingOnce'
    BY <1>16, <2>1 DEF DispatchFails, Transition
  <2>4. OnlyScriptsWait'
    BY <1>16 DEF DispatchFails, Transition
  <2>5. RunHasItsMessage' /\ VerdictsAreTrue' /\ CancelledRootIsClosed'
    BY <1>16 DEF DispatchFails
  <2> QED
    BY <2>2, <2>3, <2>4, <2>5
<1>17. ASSUME NEW n \in Nodes, DispatchTimeout(n) PROVE Parts'
  <2>1. \A m \in Nodes : Publishing(m)' = Publishing(m) /\ Publishing(m) \in Nat
    <3>1. CASE GoesOn(n, "work", "late")
      BY <1>17, <3>1 DEF DispatchTimeout, GoesOn
    <3>2. CASE Ends(n, "sent")
      BY <1>17, <3>2 DEF DispatchTimeout, Ends
    <3> QED
      BY <1>17, <3>1, <3>2 DEF DispatchTimeout
  <2> HIDE DEF Publishing
  <2>2. BegunAfterInputs'
    BY <1>17, <2>1 DEF DispatchTimeout, Transition
  <2>3. PublishingOnce'
    BY <1>17, <2>1 DEF DispatchTimeout, Transition
  <2>4. OnlyScriptsWait'
    BY <1>17 DEF DispatchTimeout, Transition
  <2>5. RunHasItsMessage' /\ VerdictsAreTrue' /\ CancelledRootIsClosed'
    BY <1>17 DEF DispatchTimeout
  <2> QED
    BY <2>2, <2>3, <2>4, <2>5
<1>18. ASSUME NEW n \in Nodes, StartRun(n) PROVE Parts'
  BY <1>18 DEF StartRun
<1>19. ASSUME NEW n \in Nodes, LeaseTick(n) PROVE Parts'
  <2>1. UNCHANGED <<status, root, verdicts, disp, outbox, req>>
    BY <1>19 DEF LeaseTick
  <2>2. CASE run'.node = run.node /\ msgs' = msgs
    BY <2>1, <2>2
  <2>3. CASE run'.node = NoNode /\ msgs' = Acked(n) /\ run.node = n
    BY <2>1, <2>3 DEF Acked
  <2> QED
    BY <1>19, <2>2, <2>3 DEF LeaseTick, EndRun, Idle
<1>20. ASSUME NEW n \in Nodes, ReportRunning(n) PROVE Parts'
  BY <1>20 DEF ReportRunning, Transition
<1>21. ASSUME NEW n \in Nodes, NEW d \in Deliveries, ReplayCallback(n, d) PROVE Parts'
  BY <1>21 DEF ReplayCallback, Deliver, Deliveries, applyAgentDone, Transition,
     ExpectedBy, MayStopHandle, Acked, Straight, Detour
<1>22. ASSUME NEW n \in Nodes, NEW d \in Deliveries, NEW res \in Results,
              FinishRun(n, res, d) PROVE Parts'
  BY <1>22 DEF FinishRun, Deliver, Deliveries, applyAgentDone, Transition, ExpectedBy,
     MayStopHandle, Acked, EndRun, Idle, Straight, Detour
<1>23. ASSUME NEW n \in Nodes, LoseMessage(n) PROVE Parts'
  BY <1>23 DEF LoseMessage, Detour, Acked
<1>24. ASSUME NEW n \in Nodes, resumeFromExternal(n) PROVE Parts'
  BY <1>24 DEF resumeFromExternal, Transition
<1>25. ASSUME NEW n \in Nodes, reapWaitExternal(n) PROVE Parts'
  BY <1>25 DEF reapWaitExternal, Transition
<1>26. ASSUME NEW n \in Nodes, reapStaleTasks(n) PROVE Parts'
  BY <1>26 DEF reapStaleTasks, Close, Interrupt, Straight, Detour
<1>27. ASSUME NEW n \in Nodes, reapLostLeases(n) PROVE Parts'
  BY <1>27 DEF reapLostLeases, Close, Straight, Detour
<1>28. ASSUME NEW n \in Nodes, CancelNode(n) PROVE Parts'
  BY <1>28 DEF CancelNode, NoReq
<1>29. CASE UNCHANGED vars
  BY <1>29 DEF vars
<1> QED
  BY <1>1, <1>2, <1>3, <1>4, <1>5, <1>6, <1>7, <1>8, <1>9, <1>10, <1>11, <1>12, <1>13,
     <1>14, <1>15, <1>16, <1>17, <1>18, <1>19, <1>20, <1>21, <1>22, <1>23, <1>24,
     <1>25, <1>26, <1>27, <1>28, <1>29 DEF Next, Node

\* A graph as expandDag leaves it satisfies the invariant.
LEMMA InitIInv == Init => IInv
<1> SUFFICES ASSUME Init PROVE IInv
  OBVIOUS
<1>1. TypeOK
  <2>1. status \in [Nodes -> Statuses] /\ disp \in [Nodes -> [Stages -> Nat]]
    BY DEF Init, NoDispatch, Statuses
  <2>2. run \in [node : Nodes \cup {NoNode}, aborted : BOOLEAN]
    BY DEF Init, Idle
  <2>3. req \in [kind : {"none", "root", "node"}, node : Nodes \cup {NoNode}]
    BY DEF Init, NoReq
  <2>4. /\ lease \in [Nodes -> {"none", "held", "lapsed"}]
        /\ msgs \in [Nodes -> Nat] /\ outbox \in [Nodes -> {"none"} \cup Results]
    BY DEF Init
  <2>5. stuck \in BOOLEAN /\ stopped \in BOOLEAN
    BY Zenon DEF Init
  <2>6. detours \in 0 .. MaxDetours
    BY DagAssumption DEF Init
  <2> QED
    BY <2>1, <2>2, <2>3, <2>4, <2>5, <2>6 DEF Init, TypeOK
<1>2. BegunAfterInputs /\ PublishingOnce
  BY DagAssumption DEF Init, BegunAfterInputs, Begun, PublishingOnce, Publishing,
     NoDispatch, Stages, Idle
<1> QED
  BY <1>1, <1>2, DagAssumption DEF Init, IInv, Parts, RunHasItsMessage, OnlyScriptsWait,
     VerdictsAreTrue, CancelledRootIsClosed, Idle, NoReq

\* Every state of every behaviour satisfies it.
LEMMA Invariance == Spec => []IInv
<1>1. ASSUME IInv, [Next]_vars PROVE IInv'
  BY <1>1, TypeStep, PartsStep DEF IInv, Parts
<1> QED
  BY InitIInv, <1>1, PTL DEF Spec

-----------------------------------------------------------------------------
(* The theorems.                                                           *)

\* Every row has a status of the schema, and no message is settled twice.
THEOREM TypesHold == Spec => []TypeOK
<1>1. IInv => TypeOK
  BY DEF IInv
<1> QED
  BY Invariance, <1>1, PTL

\* Whatever replicas, reapers and cancels do, a node is released, dispatched or executed
\* only after all its inputs have completed (promoteReadyTasks, cascadeFailures).
THEOREM InputsComeFirst == Spec => []NodeFollowsItsInputs
<1>1. IInv => NodeFollowsItsInputs
  BY DEF IInv, Parts, BegunAfterInputs, Begun, NodeFollowsItsInputs
<1> QED
  BY Invariance, <1>1, PTL

\* A node that does not wait outside is published at most once, by any number of replicas
\* and after any number of failed, timed-out and crashed dispatches (dispatchTask).
THEOREM PublishedOnce == Spec => []NodeIsPublishedOnce
<1>1. IInv => NodeIsPublishedOnce
  BY DEF IInv, Parts, PublishingOnce, Publishing, NodeIsPublishedOnce
<1> QED
  BY Invariance, <1>1, PTL

\* A root that reads completed has only completed nodes, although a replica writes the
\* verdict after other replicas have gone on (aggregateDagRoots).
THEOREM CompletedMeansComplete == Spec => []CompletedGraphIsComplete
<1>1. IInv => CompletedGraphIsComplete
  BY DEF IInv, Parts, VerdictsAreTrue, CompletedGraphIsComplete
<1> QED
  BY Invariance, <1>1, PTL

\* No late result, timed-out dispatch, stale verdict, reaper or resumed wait writes over
\* the ending of a row (applyTaskStatusTransition and its callers).
THEOREM EndingsAreFinal == Spec => EndedIsFinal
<1>1. ASSUME IInv, [Next]_vars PROVE Kept
  BY <1>1, EndedStep DEF IInv
<1>2. IInv /\ [Next]_vars
        => [/\ root \in Terminal => root' = root
            /\ \A n \in Nodes : status[n] \in Terminal => status'[n] = status[n]]_vars
  BY <1>1 DEF Kept
<1> QED
  BY Invariance, <1>2, PTL DEF Spec, EndedIsFinal

\* The graph's sandbox is stopped only in a step after which none of its nodes is live,
\* by the last user's result or by a cancel (maybeStopHandlesForLastUser,
\* stopAllHandlesForDag).
THEOREM SandboxIsStoppedLast == Spec => SandboxOutlivesItsNodes
<1> DEFINE Stop == box = "up" /\ box' = "stopped"
           Ended == \A n \in Nodes : status'[n] \in Terminal
<1>1. ASSUME IInv, Stop, NEW n \in Nodes, NEW res, NEW d \in Deliveries, Deliver(n, res, d)
      PROVE  Ended
  <2>1. /\ Transition({n}, ExpectedBy(res), res)
        /\ status[n] \in ExpectedBy(res) /\ res \in Terminal /\ MayStopHandle(n)
    BY <1>1 DEF Deliver, applyAgentDone
  <2> QED
    BY <2>1 DEF Transition, MayStopHandle
<1>2. ASSUME IInv, Stop, CancelRootRelease PROVE Ended
  BY <1>2 DEF IInv, Parts, CancelledRootIsClosed, CancelRootRelease
<1>3. ASSUME IInv, Stop, Next PROVE Ended
  <2>1. ASSUME NEW n \in Nodes, NEW d \in Deliveries, ReplayCallback(n, d) PROVE Ended
    BY <1>1, <1>3, <2>1 DEF ReplayCallback
  <2>2. ASSUME NEW n \in Nodes, NEW d \in Deliveries, NEW res \in Results,
               FinishRun(n, res, d)
        PROVE  Ended
    BY <1>1, <1>3, <2>2 DEF FinishRun
  <2>3. CASE CancelRootRelease
    BY <1>2, <1>3, <2>3
  <2>4. ASSUME NEW n \in Nodes, StartRun(n) PROVE FALSE
    BY <1>3, <2>4 DEF StartRun
  <2>5. CASE box' = box
    BY <1>3, <2>5
  <2> QED
    BY <1>3, <2>1, <2>2, <2>3, <2>4, <2>5
    DEF Next, Node, promoteReadyTasks, aggregateSelect, aggregateWrite, ReplicaCrash,
        AttemptEnds, reapStuckRoot, reapStuckNodes, CancelRoot, CancelTail, CancelDies,
        cascadeFailures, DispatchReserve, DispatchPublish, DispatchSettled, DispatchFails,
        DispatchTimeout, LeaseTick, ReportRunning, LoseMessage, resumeFromExternal,
        reapWaitExternal, reapStaleTasks, reapLostLeases, CancelNode
<1>4. IInv /\ [Next]_vars
        => [box = "up" /\ box' = "stopped" => \A n \in Nodes : status'[n] \in Terminal]_vars
  BY <1>3
<1> QED
  BY Invariance, <1>4, PTL DEF Spec, SandboxOutlivesItsNodes
=============================================================================
