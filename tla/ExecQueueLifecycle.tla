------------------------- MODULE ExecQueueLifecycle ------------------------
(***************************************************************************)
(* ExecQueue implements RunLifecycle: every step moves each row along the  *)
(* documented table, gives a pending row the outcome of its own process,   *)
(* or leaves it alone.                                                     *)
(***************************************************************************)
EXTENDS ExecQueueProofs

USE DEF durable, registry, drain, service, outside
USE RunsFinite, Sentinels

\* A declined run is not running, and a running one was started.
DeclinedInv == \A r \in Runs : /\ outcome[r] = "skipped" => phase[r] = "declined"
                               /\ status[r] = "running" => r \in spawned

\* skipUnrecorded ends a call for good, StartRun follows a start.
LEMMA DeclinedStep == ASSUME SafetyInv, DeclinedInv, [Next]_vars PROVE DeclinedInv'
<1>0. /\ phase \in [Runs -> Phases] /\ status \in [Runs -> Lifecycle!Statuses]
      /\ outcome \in [Runs -> Outcomes \cup {"none", "skipped"}]
      /\ spawned \in SUBSET Runs
  BY DEF SafetyInv, TypeOK
<1>1. ASSUME NEW r \in Runs, Call(r) PROVE DeclinedInv'
  <2>1. CASE Begin(r)
    BY <1>0, <2>1 DEF Begin, Goto, DeclinedInv
  <2>2. CASE Refuse(r)
    BY <1>0, <2>2 DEF Refuse, Answer, DeclinedInv
  <2>3. CASE Admit(r)
    BY <1>0, <2>3 DEF Admit, Goto, DeclinedInv
  <2>4. CASE Abandon(r)
    BY <1>0, <2>4 DEF Abandon, Answer, DeclinedInv
  <2>5. CASE Check(r)
    BY <1>0, <2>5 DEF Check, Return, Answer, Goto, DeclinedInv
  <2>6. CASE Route(r)
    BY <1>0, <2>6 DEF Route, Return, Answer, Goto, DeclinedInv
  <2>7. CASE Replay(r)
    BY <1>0, <2>7 DEF Replay, Return, Answer, GiveBack, ReleaseSlot,
       DeclinedInv
  <2>8. CASE Taken(r)
    BY <1>0, <2>8 DEF Taken, Return, Answer, GiveBack, ReleaseSlot, DeclinedInv
  <2>9. CASE EnqueueRefused(r)
    BY <1>0, <2>9 DEF EnqueueRefused, Return, Answer, Goto, DeclinedInv
  <2>10. CASE EnqueueCommit(r)
    BY <1>0, <2>10 DEF EnqueueCommit, InsertQueued, Goto, DeclinedInv
  <2>11. CASE EnqueueFails(r)
    BY <1>0, <2>11 DEF EnqueueFails, QueueErrors, Return, Answer, DeclinedInv
  <2>12. CASE EnqueueAmbiguous(r)
    BY <1>0, <2>12 DEF EnqueueAmbiguous, InsertQueued, QueueErrors, Return, Answer,
       DeclinedInv
  <2>13. CASE Enqueued(r)
    BY <1>0, <2>13 DEF Enqueued, Return, Answer, DeclinedInv
  <2>14. CASE SkipStored(r)
    BY <1>0, <2>14 DEF SkipStored, Return, Answer, DeclinedInv
  <2>15. CASE SkipFails(r)
    BY <1>0, <2>15 DEF SkipFails, Return, Answer, DeclinedInv
  <2>16. CASE RowStored(r)
    BY <1>0, <2>16 DEF RowStored, Goto, DeclinedInv
  <2>17. CASE RowKeyFails(r)
    BY <1>0, <2>17 DEF RowKeyFails, Return, Answer, ReleaseSlot, DeclinedInv
  <2>18. CASE RowDeferred(r)
    BY <1>0, <2>18 DEF RowDeferred, Goto, ReleaseSlot, DeclinedInv
  <2>19. CASE Launch(r)
    BY <1>0, <2>19 DEF Launch, DeclinedInv
  <2>20. CASE LaunchRefused(r)
    BY <1>0, <2>20 DEF LaunchRefused, RefusedStatus, Return, Answer, ReleaseSlot,
       DeclinedInv
  <2>21. CASE GiveUp(r)
    BY <1>0, <2>21 DEF GiveUp, Return, Answer, GiveBack, ReleaseSlot, DeclinedInv
  <2>22. QED BY <1>1, <2>1, <2>2, <2>3, <2>4, <2>5, <2>6, <2>7, <2>8, <2>9, <2>10,
     <2>11, <2>12, <2>13, <2>14, <2>15, <2>16, <2>17, <2>18, <2>19, <2>20, <2>21 DEF
     Call
<1>2. ASSUME NEW r \in Runs, Execution(r) PROVE DeclinedInv'
  <2>1. CASE Finish(r)
    BY <1>0, <2>1, OutcomesKnown DEF Finish, Goto, DeclinedInv
  <2>2. CASE Unregister(r)
    BY <1>0, <2>2 DEF Unregister, Goto, DeclinedInv
  <2>3. CASE Release(r)
    BY <1>0, <2>3 DEF Release, Goto, ReleaseSlot, DeclinedInv
  <2>4. CASE StoreRow(r)
    BY <1>0, <2>4 DEF StoreRow, Written, DeclinedInv
  <2>5. CASE StoreRunning(r)
    BY <1>0, <2>5 DEF StoreRunning, Written, DeclinedInv
  <2>6. CASE StoreTerminal(r)
    <3>1. outcome[r] # "running"
      BY <1>0, <2>6, OutcomesKnown
    <3>2. QED BY <1>0, <2>6, <3>1 DEF StoreTerminal, Written, DeclinedInv
  <2>7. QED BY <1>2, <2>1, <2>2, <2>3, <2>4, <2>5, <2>6 DEF Execution
<1>3. ASSUME DrainStep PROVE DeclinedInv'
  <2>1. CASE DrainWake
    BY <1>0, <2>1 DEF DrainWake, DeclinedInv
  <2>2. CASE DrainExit
    BY <1>0, <2>2 DEF DrainExit, DeclinedInv
  <2>3. CASE DrainSleep
    BY <1>0, <2>3 DEF DrainSleep, DeclinedInv
  <2>4. CASE DrainExpire
    BY <1>0, <2>4 DEF DrainExpire, EndQueued, Overdue, DeclinedInv
  <2>5. CASE DrainExpireFails
    BY <1>0, <2>5 DEF DrainExpireFails, EndQueued, Overdue, DeclinedInv
  <2>6. CASE DrainReserve
    BY <1>0, <2>6 DEF DrainReserve, DeclinedInv
  <2>7. CASE DrainAdmit
    BY <1>0, <2>7 DEF DrainAdmit, DeclinedInv
  <2>8. CASE DrainFails
    BY <1>0, <2>8 DEF DrainFails, StepBack, DeclinedInv
  <2>9. CASE DrainResync
    BY <1>0, <2>9 DEF DrainResync, StepBack, DeclinedInv
  <2>10. CASE DrainPick
    BY <1>0, <2>10 DEF DrainPick, NextItem, Turn, DeclinedInv
  <2>11. CASE DrainDrop
    BY <1>0, <2>11 DEF DrainDrop, EndQueued, StepBack, DeclinedInv
  <2>12. CASE DrainValidate
    BY <1>0, <2>12 DEF DrainValidate, DeclinedInv
  <2>13. CASE DrainDequeue
    BY <1>0, <2>13 DEF DrainDequeue, EndQueued, StepBack, DeclinedInv
  <2>14. CASE DrainLaunch
    <3>1. item \in Runs /\ phase[item] # "declined"
      BY <2>14 DEF DrainLaunch, SafetyInv, AdmissionInv, DrainItem, StartInv
    <3>2. QED BY <1>0, <2>14, <3>1 DEF DrainLaunch, RefusedStatus, DeclinedInv
  <2>15. QED BY <1>3, <2>1, <2>2, <2>3, <2>4, <2>5, <2>6, <2>7, <2>8, <2>9, <2>10,
     <2>11, <2>12, <2>13, <2>14 DEF DrainStep
<1>4. ASSUME NEW j \in Jobs, Registry(j) PROVE DeclinedInv'
  <2>1. CASE SetEnabled(j)
    BY <1>0, <2>1 DEF SetEnabled, Edit, EndQueued, DeclinedInv
  <2>2. CASE DeleteDefinition(j)
    BY <1>0, <2>2 DEF DeleteDefinition, Edit, EndQueued, DeclinedInv
  <2>3. CASE PutDefinition(j)
    BY <1>0, <2>3 DEF PutDefinition, Edit, DeclinedInv
  <2>4. CASE SyncRemoves(j)
    BY <1>0, <2>4 DEF SyncRemoves, Edit, DeclinedInv
  <2>5. QED BY <1>4, <2>1, <2>2, <2>3, <2>4 DEF Registry
<1>5. ASSUME Lifetime PROVE DeclinedInv'
  <2>1. CASE ResumeQueue
    BY <1>0, <2>1 DEF ResumeQueue, DeclinedInv
  <2>2. CASE Restart
    BY <1>0, <2>2 DEF Restart, DeclinedInv
  <2>3. CASE BeginShutdown
    BY <1>0, <2>3 DEF BeginShutdown, DeclinedInv
  <2>4. CASE ShutdownSnapshot
    BY <1>0, <2>4 DEF ShutdownSnapshot, DeclinedInv
  <2>5. CASE ShutdownDone
    BY <1>0, <2>5 DEF ShutdownDone, DeclinedInv
  <2>6. QED BY <1>5, <2>1, <2>2, <2>3, <2>4, <2>5 DEF Lifetime
<1>6. ASSUME NEW r \in Runs, Age(r) PROVE DeclinedInv'
  BY <1>0, <1>6 DEF Age, DeclinedInv
<1>7. ASSUME NEW r \in Runs, CancelQueued(r) PROVE DeclinedInv'
  BY <1>0, <1>7 DEF CancelQueued, EndQueued, DeclinedInv
<1>8. CASE Pace
  BY <1>0, <1>8 DEF Pace, DeclinedInv
<1>9. CASE UNCHANGED vars
  BY <1>0, <1>9 DEF vars, DeclinedInv
<1>10. QED BY <1>1, <1>2, <1>3, <1>4, <1>5, <1>6, <1>7, <1>8, <1>9 DEF Next

\* The moves of the lifecycle, spelled out.
LEMMA MoveTable ==
    /\ {"queued", "pending", "skipped"} \subseteq Lifecycle!Documented("none")
    /\ {"pending", "skipped", "stopped"} \subseteq Lifecycle!Documented("queued")
    /\ {"running", "failed", "skipped", "interrupted"} \subseteq Lifecycle!Documented("pending")
    /\ {"interrupted"} \cup Outcomes \subseteq Lifecycle!Documented("running")
BY OutcomesKnown DEF Lifecycle!Documented, Lifecycle!Inserted, Lifecycle!ProcessOutcomes

\* A step leaves every row alone, moves it along the documented lifecycle or gives
\* a pending row the outcome of its process.
Moving == \A r \in Runs : \/ status'[r] = status[r]
                          \/ status'[r] \in Lifecycle!Documented(status[r])
                          \/ status[r] = "pending" /\ status'[r] = outcome[r]

\* No statement moves a row against the guards of the store.
LEMMA MoveStep == ASSUME SafetyInv, DeclinedInv, [Next]_vars PROVE Moving
<1>0. status \in [Runs -> Lifecycle!Statuses]
  BY DEF SafetyInv, TypeOK
<1>00. \A r \in Runs : phase[r] \in {"enqueue", "skip", "slot"} => status[r] = "none"
  BY DEF SafetyInv, FreshInv, FreshPhases
<1>1. ASSUME NEW r \in Runs, Call(r) PROVE Moving
  <2>1. CASE Begin(r)
    BY <1>0, MoveTable, <2>1 DEF Begin, Goto, Moving
  <2>2. CASE Refuse(r)
    BY <1>0, MoveTable, <2>2 DEF Refuse, Answer, Moving
  <2>3. CASE Admit(r)
    BY <1>0, MoveTable, <2>3 DEF Admit, Goto, Moving
  <2>4. CASE Abandon(r)
    BY <1>0, MoveTable, <2>4 DEF Abandon, Answer, Moving
  <2>5. CASE Check(r)
    BY <1>0, MoveTable, <2>5 DEF Check, Return, Answer, Goto, Moving
  <2>6. CASE Route(r)
    BY <1>0, MoveTable, <2>6 DEF Route, Return, Answer, Goto, Moving
  <2>7. CASE Replay(r)
    BY <1>0, MoveTable, <2>7 DEF Replay, Return, Answer, GiveBack, ReleaseSlot,
       KeyReply, Moving
  <2>8. CASE Taken(r)
    BY <1>0, MoveTable, <2>8 DEF Taken, Return, Answer, GiveBack, ReleaseSlot, Moving
  <2>9. CASE EnqueueRefused(r)
    BY <1>0, MoveTable, <2>9 DEF EnqueueRefused, Return, Answer, Goto, Moving
  <2>10. CASE EnqueueCommit(r)
    BY <1>0, MoveTable, <2>10, <1>00 DEF EnqueueCommit, InsertQueued, Goto, Moving
  <2>11. CASE EnqueueFails(r)
    BY <1>0, MoveTable, <2>11 DEF EnqueueFails, QueueErrors, Return, Answer, Moving
  <2>12. CASE EnqueueAmbiguous(r)
    BY <1>0, MoveTable, <2>12, <1>00 DEF EnqueueAmbiguous, InsertQueued, QueueErrors,
       Return, Answer, Moving
  <2>13. CASE Enqueued(r)
    BY <1>0, MoveTable, <2>13 DEF Enqueued, Return, Answer, Moving
  <2>14. CASE SkipStored(r)
    BY <1>0, MoveTable, <2>14, <1>00 DEF SkipStored, Return, Answer, Moving
  <2>15. CASE SkipFails(r)
    BY <1>0, MoveTable, <2>15, <1>00 DEF SkipFails, Return, Answer, Moving
  <2>16. CASE RowStored(r)
    BY <1>0, MoveTable, <2>16, <1>00 DEF RowStored, Goto, Moving
  <2>17. CASE RowKeyFails(r)
    BY <1>0, MoveTable, <2>17, <1>00 DEF RowKeyFails, Return, Answer, ReleaseSlot,
       Moving
  <2>18. CASE RowDeferred(r)
    BY <1>0, MoveTable, <2>18, <1>00 DEF RowDeferred, Goto, ReleaseSlot, Moving
  <2>19. CASE Launch(r)
    BY <1>0, MoveTable, <2>19 DEF Launch, Moving
  <2>20. CASE LaunchRefused(r)
    BY <1>0, MoveTable, <2>20 DEF LaunchRefused, RefusedStatus, Return, Answer,
       ReleaseSlot, Moving
  <2>21. CASE GiveUp(r)
    BY <1>0, MoveTable, <2>21 DEF GiveUp, Return, Answer, GiveBack, ReleaseSlot,
       Moving
  <2>22. QED BY <1>1, <2>1, <2>2, <2>3, <2>4, <2>5, <2>6, <2>7, <2>8, <2>9, <2>10,
     <2>11, <2>12, <2>13, <2>14, <2>15, <2>16, <2>17, <2>18, <2>19, <2>20, <2>21 DEF
     Call
<1>2. ASSUME NEW r \in Runs, Execution(r) PROVE Moving
  <2>1. CASE Finish(r)
    BY <1>0, MoveTable, <2>1 DEF Finish, Goto, Moving
  <2>2. CASE Unregister(r)
    BY <1>0, MoveTable, <2>2 DEF Unregister, Goto, Moving
  <2>3. CASE Release(r)
    BY <1>0, MoveTable, <2>3 DEF Release, Goto, ReleaseSlot, Moving
  <2>4. CASE StoreRow(r)
    BY <1>0, MoveTable, <2>4 DEF StoreRow, Written, Moving
  <2>5. CASE StoreRunning(r)
    BY <1>0, MoveTable, <2>5 DEF StoreRunning, Written, Moving
  <2>6. CASE StoreTerminal(r)
    <3>1. outcome[r] \in Outcomes \cup {"skipped"}
      BY <2>6 DEF StoreTerminal, SafetyInv, TypeOK
    <3>2. status[r] = "running" => outcome[r] # "skipped"
      BY DEF DeclinedInv, SafetyInv, StartInv
    <3>3. QED BY <1>0, <2>6, <3>1, <3>2, MoveTable DEF StoreTerminal, Moving
  <2>7. QED BY <1>2, <2>1, <2>2, <2>3, <2>4, <2>5, <2>6 DEF Execution
<1>3. ASSUME DrainStep PROVE Moving
  <2>1. CASE DrainWake
    BY <1>0, MoveTable, <2>1 DEF DrainWake, Moving
  <2>2. CASE DrainExit
    BY <1>0, MoveTable, <2>2 DEF DrainExit, Moving
  <2>3. CASE DrainSleep
    BY <1>0, MoveTable, <2>3 DEF DrainSleep, Moving
  <2>4. CASE DrainExpire
    BY <1>0, MoveTable, <2>4 DEF DrainExpire, EndQueued, Overdue, Moving
  <2>5. CASE DrainExpireFails
    BY <1>0, MoveTable, <2>5 DEF DrainExpireFails, EndQueued, Overdue, Moving
  <2>6. CASE DrainReserve
    BY <1>0, MoveTable, <2>6 DEF DrainReserve, Moving
  <2>7. CASE DrainAdmit
    BY <1>0, MoveTable, <2>7 DEF DrainAdmit, Moving
  <2>8. CASE DrainFails
    BY <1>0, MoveTable, <2>8 DEF DrainFails, StepBack, Moving
  <2>9. CASE DrainResync
    BY <1>0, MoveTable, <2>9 DEF DrainResync, StepBack, Moving
  <2>10. CASE DrainPick
    BY <1>0, MoveTable, <2>10 DEF DrainPick, NextItem, Turn, Moving
  <2>11. CASE DrainDrop
    BY <1>0, MoveTable, <2>11 DEF DrainDrop, EndQueued, StepBack, Moving
  <2>12. CASE DrainValidate
    BY <1>0, MoveTable, <2>12 DEF DrainValidate, Moving
  <2>13. CASE DrainDequeue
    BY <1>0, MoveTable, <2>13 DEF DrainDequeue, EndQueued, StepBack, Moving
  <2>14. CASE DrainLaunch
    BY <1>0, MoveTable, <2>14 DEF DrainLaunch, RefusedStatus, ReleaseSlot, Moving
  <2>15. QED BY <1>3, <2>1, <2>2, <2>3, <2>4, <2>5, <2>6, <2>7, <2>8, <2>9, <2>10,
     <2>11, <2>12, <2>13, <2>14 DEF DrainStep
<1>4. ASSUME NEW j \in Jobs, Registry(j) PROVE Moving
  <2>1. CASE SetEnabled(j)
    BY <1>0, MoveTable, <2>1 DEF SetEnabled, Edit, EndQueued, Moving
  <2>2. CASE DeleteDefinition(j)
    BY <1>0, MoveTable, <2>2 DEF DeleteDefinition, Edit, EndQueued, Moving
  <2>3. CASE PutDefinition(j)
    BY <1>0, MoveTable, <2>3 DEF PutDefinition, Edit, Moving
  <2>4. CASE SyncRemoves(j)
    BY <1>0, MoveTable, <2>4 DEF SyncRemoves, Edit, Moving
  <2>5. QED BY <1>4, <2>1, <2>2, <2>3, <2>4 DEF Registry
<1>5. ASSUME Lifetime PROVE Moving
  <2>1. CASE ResumeQueue
    BY <1>0, MoveTable, <2>1 DEF ResumeQueue, Moving
  <2>2. CASE Restart
    <3>1. \A r \in Runs : status[r] = "queued" => r \in queue
      BY DEF SafetyInv, QueuedIffRow
    <3>2. QED BY <1>0, <2>2, <3>1, MoveTable DEF Restart, Moving
  <2>3. CASE BeginShutdown
    BY <1>0, MoveTable, <2>3 DEF BeginShutdown, Moving
  <2>4. CASE ShutdownSnapshot
    BY <1>0, MoveTable, <2>4 DEF ShutdownSnapshot, Moving
  <2>5. CASE ShutdownDone
    BY <1>0, MoveTable, <2>5 DEF ShutdownDone, Moving
  <2>6. QED BY <1>5, <2>1, <2>2, <2>3, <2>4, <2>5 DEF Lifetime
<1>6. ASSUME NEW r \in Runs, Age(r) PROVE Moving
  BY <1>0, MoveTable, <1>6 DEF Age, Moving
<1>7. ASSUME NEW r \in Runs, CancelQueued(r) PROVE Moving
  BY <1>0, MoveTable, <1>7 DEF CancelQueued, EndQueued, Moving
<1>8. CASE Pace
  BY <1>0, MoveTable, <1>8 DEF Pace, Moving
<1>9. CASE UNCHANGED vars
  BY <1>0, MoveTable, <1>9 DEF vars, Moving
<1>10. QED BY <1>1, <1>2, <1>3, <1>4, <1>5, <1>6, <1>7, <1>8, <1>9 DEF Next

\* The executor, the drain loop, the history writer, operators, crashes and
\* recovery together implement the run lifecycle.
THEOREM RefinesLifecycle == Spec => LifecycleRefined
<1>1. Init => DeclinedInv /\ Lifecycle!Init
  BY DEF Init, DeclinedInv, Lifecycle!Init
<1>2. SafetyInv /\ DeclinedInv /\ [Next]_vars => DeclinedInv'
  BY DeclinedStep
<1>3. SafetyInv /\ SafetyInv' /\ DeclinedInv /\ [Next]_vars => [Lifecycle!Next]_status
  <2> SUFFICES ASSUME SafetyInv, SafetyInv', DeclinedInv, [Next]_vars PROVE Lifecycle!Next
    OBVIOUS
  <2>1. status' \in [Runs -> Lifecycle!Statuses]
    BY DEF SafetyInv, TypeOK
  <2>2. QED BY <2>1, MoveStep DEF Moving, Lifecycle!Next, Lifecycle!Moves
<1>4. QED BY <1>1, <1>2, <1>3, Safety, PTL DEF Spec, LifecycleRefined, Lifecycle!Spec

=============================================================================
