-------------------------- MODULE ExecQueueProofs --------------------------
(***************************************************************************)
(* The safety invariant of ExecQueue is inductive.                         *)
(***************************************************************************)
EXTENDS ExecQueueCapacity

USE DEF durable, registry, drain, service, outside
USE RunsFinite, Sentinels

SafetyInv == /\ TypeOK /\ SlotsAccounted /\ AdmissionInv
             /\ BootInv /\ FreshInv /\ StartInv /\ QueuedIffRow

-----------------------------------------------------------------------------
\* The admission slot passes from holder to holder.
LEMMA AdmissionStep ==
    ASSUME TypeOK, AdmissionInv, BootInv, StartInv, [Next]_vars PROVE AdmissionInv'
<1>0. phase \in [Runs -> Phases] /\ queue \in SUBSET Runs
  BY DEF TypeOK
<1>1. ASSUME NEW r \in Runs, Call(r) PROVE AdmissionInv'
  <2>1. CASE Begin(r)
    BY <1>0, <2>1 DEF Begin, Goto, AdmissionInv, HolderPhases, DrainItem
  <2>2. CASE Refuse(r)
    BY <1>0, <2>2 DEF Refuse, Answer, AdmissionInv, HolderPhases, DrainItem
  <2>3. CASE Admit(r)
    BY <1>0, <2>3 DEF Admit, Goto, AdmissionInv, HolderPhases, DrainItem
  <2>4. CASE Abandon(r)
    BY <1>0, <2>4 DEF Abandon, Answer, AdmissionInv, HolderPhases, DrainItem
  <2>5. CASE Check(r)
    BY <1>0, <2>5 DEF Check, Return, Answer, Goto, AdmissionInv, HolderPhases,
       DrainItem
  <2>6. CASE Route(r)
    BY <1>0, <2>6 DEF Route, Return, Answer, Goto, AdmissionInv, HolderPhases,
       DrainItem
  <2>7. CASE Replay(r)
    BY <1>0, <2>7 DEF Replay, Return, Answer, GiveBack, ReleaseSlot, KeyReply,
       AdmissionInv, HolderPhases, DrainItem
  <2>8. CASE Taken(r)
    BY <1>0, <2>8 DEF Taken, Return, Answer, GiveBack, ReleaseSlot, AdmissionInv,
       HolderPhases, DrainItem
  <2>9. CASE EnqueueRefused(r)
    BY <1>0, <2>9 DEF EnqueueRefused, Return, Answer, Goto, AdmissionInv,
       HolderPhases, DrainItem
  <2>10. CASE EnqueueCommit(r)
    BY <1>0, <2>10 DEF EnqueueCommit, InsertQueued, Goto, AdmissionInv, HolderPhases,
       DrainItem
  <2>11. CASE EnqueueFails(r)
    BY <1>0, <2>11 DEF EnqueueFails, QueueErrors, Return, Answer, AdmissionInv,
       HolderPhases, DrainItem
  <2>12. CASE EnqueueAmbiguous(r)
    BY <1>0, <2>12 DEF EnqueueAmbiguous, InsertQueued, QueueErrors, Return, Answer,
       AdmissionInv, HolderPhases, DrainItem
  <2>13. CASE Enqueued(r)
    BY <1>0, <2>13 DEF Enqueued, Return, Answer, AdmissionInv, HolderPhases, DrainItem
  <2>14. CASE SkipStored(r)
    BY <1>0, <2>14 DEF SkipStored, Return, Answer, AdmissionInv, HolderPhases,
       DrainItem
  <2>15. CASE SkipFails(r)
    BY <1>0, <2>15 DEF SkipFails, Return, Answer, AdmissionInv, HolderPhases,
       DrainItem
  <2>16. CASE RowStored(r)
    BY <1>0, <2>16 DEF RowStored, Goto, AdmissionInv, HolderPhases, DrainItem
  <2>17. CASE RowKeyFails(r)
    BY <1>0, <2>17 DEF RowKeyFails, Return, Answer, ReleaseSlot, AdmissionInv,
       HolderPhases, DrainItem
  <2>18. CASE RowDeferred(r)
    BY <1>0, <2>18 DEF RowDeferred, Goto, ReleaseSlot, AdmissionInv, HolderPhases,
       DrainItem
  <2>19. CASE Launch(r)
    BY <1>0, <2>19 DEF Launch, AdmissionInv, HolderPhases, DrainItem
  <2>20. CASE LaunchRefused(r)
    BY <1>0, <2>20 DEF LaunchRefused, RefusedStatus, Return, Answer, ReleaseSlot,
       AdmissionInv, HolderPhases, DrainItem
  <2>21. CASE GiveUp(r)
    BY <1>0, <2>21 DEF GiveUp, Return, Answer, GiveBack, ReleaseSlot, AdmissionInv,
       HolderPhases, DrainItem
  <2>22. QED BY <1>1, <2>1, <2>2, <2>3, <2>4, <2>5, <2>6, <2>7, <2>8, <2>9, <2>10,
     <2>11, <2>12, <2>13, <2>14, <2>15, <2>16, <2>17, <2>18, <2>19, <2>20, <2>21 DEF
     Call
<1>2. ASSUME NEW r \in Runs, Execution(r) PROVE AdmissionInv'
  <2>1. CASE Finish(r)
    BY <1>0, <2>1 DEF Finish, Goto, AdmissionInv, HolderPhases, DrainItem
  <2>2. CASE Unregister(r)
    BY <1>0, <2>2 DEF Unregister, Goto, AdmissionInv, HolderPhases, DrainItem
  <2>3. CASE Release(r)
    BY <1>0, <2>3 DEF Release, Goto, ReleaseSlot, AdmissionInv, HolderPhases,
       DrainItem
  <2>4. CASE StoreRow(r)
    BY <1>0, <2>4 DEF StoreRow, Written, AdmissionInv, HolderPhases, DrainItem
  <2>5. CASE StoreRunning(r)
    BY <1>0, <2>5 DEF StoreRunning, Written, AdmissionInv, HolderPhases, DrainItem
  <2>6. CASE StoreTerminal(r)
    BY <1>0, <2>6 DEF StoreTerminal, Written, AdmissionInv, HolderPhases, DrainItem
  <2>7. QED BY <1>2, <2>1, <2>2, <2>3, <2>4, <2>5, <2>6 DEF Execution
<1>3. ASSUME DrainStep PROVE AdmissionInv'
  <2>1. CASE DrainWake
    BY <1>0, <2>1 DEF DrainWake, AdmissionInv, HolderPhases, DrainItem, Asleep
  <2>2. CASE DrainExit
    BY <1>0, <2>2 DEF DrainExit, AdmissionInv, HolderPhases, DrainItem, Asleep
  <2>3. CASE DrainSleep
    BY <1>0, <2>3 DEF DrainSleep, AdmissionInv, HolderPhases, DrainItem
  <2>4. CASE DrainExpire
    BY <1>0, <2>4 DEF DrainExpire, EndQueued, Overdue, AdmissionInv, HolderPhases,
       DrainItem
  <2>5. CASE DrainExpireFails
    BY <1>0, <2>5 DEF DrainExpireFails, EndQueued, Overdue, AdmissionInv,
       HolderPhases, DrainItem
  <2>6. CASE DrainReserve
    BY <1>0, <2>6 DEF DrainReserve, AdmissionInv, HolderPhases, DrainItem
  <2>7. CASE DrainAdmit
    BY <1>0, <2>7 DEF DrainAdmit, AdmissionInv, HolderPhases, DrainItem
  <2>8. CASE DrainFails
    BY <1>0, <2>8 DEF DrainFails, StepBack, AdmissionInv, HolderPhases, DrainItem
  <2>9. CASE DrainResync
    BY <1>0, <2>9 DEF DrainResync, StepBack, AdmissionInv, HolderPhases, DrainItem
  <2>10. CASE DrainPick
    BY <1>0, <2>10 DEF DrainPick, NextItem, Turn, AdmissionInv, HolderPhases,
       DrainItem
  <2>11. CASE DrainDrop
    BY <1>0, <2>11 DEF DrainDrop, EndQueued, StepBack, AdmissionInv, HolderPhases,
       DrainItem
  <2>12. CASE DrainValidate
    BY <1>0, <2>12 DEF DrainValidate, AdmissionInv, HolderPhases, DrainItem
  <2>13. CASE DrainDequeue
    BY <1>0, <2>13 DEF DrainDequeue, EndQueued, StepBack, AdmissionInv, HolderPhases,
       DrainItem
  <2>14. CASE DrainLaunch
    BY <1>0, <2>14 DEF DrainLaunch, RefusedStatus, ReleaseSlot, AdmissionInv,
       HolderPhases, DrainItem, StartInv
  <2>15. QED BY <1>3, <2>1, <2>2, <2>3, <2>4, <2>5, <2>6, <2>7, <2>8, <2>9, <2>10,
     <2>11, <2>12, <2>13, <2>14 DEF DrainStep
<1>4. ASSUME NEW j \in Jobs, Registry(j) PROVE AdmissionInv'
  <2>1. CASE SetEnabled(j)
    BY <1>0, <2>1 DEF SetEnabled, Edit, EndQueued, AdmissionInv, HolderPhases,
       DrainItem
  <2>2. CASE DeleteDefinition(j)
    BY <1>0, <2>2 DEF DeleteDefinition, Edit, EndQueued, AdmissionInv, HolderPhases,
       DrainItem
  <2>3. CASE PutDefinition(j)
    BY <1>0, <2>3 DEF PutDefinition, Edit, AdmissionInv, HolderPhases, DrainItem
  <2>4. CASE SyncRemoves(j)
    BY <1>0, <2>4 DEF SyncRemoves, Edit, AdmissionInv, HolderPhases, DrainItem
  <2>5. QED BY <1>4, <2>1, <2>2, <2>3, <2>4 DEF Registry
<1>5. ASSUME Lifetime PROVE AdmissionInv'
  <2>1. CASE ResumeQueue
    BY <1>0, <2>1 DEF ResumeQueue, AdmissionInv, HolderPhases, DrainItem, BootInv
  <2>2. CASE Restart
    BY <1>0, <2>2 DEF Restart, AdmissionInv, HolderPhases, DrainItem
  <2>3. CASE BeginShutdown
    BY <1>0, <2>3 DEF BeginShutdown, AdmissionInv, HolderPhases, DrainItem
  <2>4. CASE ShutdownSnapshot
    BY <1>0, <2>4 DEF ShutdownSnapshot, AdmissionInv, HolderPhases, DrainItem
  <2>5. CASE ShutdownDone
    BY <1>0, <2>5 DEF ShutdownDone, AdmissionInv, HolderPhases, DrainItem
  <2>6. QED BY <1>5, <2>1, <2>2, <2>3, <2>4, <2>5 DEF Lifetime
<1>6. ASSUME NEW r \in Runs, Age(r) PROVE AdmissionInv'
  BY <1>0, <1>6 DEF Age, AdmissionInv, HolderPhases, DrainItem
<1>7. ASSUME NEW r \in Runs, CancelQueued(r) PROVE AdmissionInv'
  BY <1>0, <1>7 DEF CancelQueued, EndQueued, AdmissionInv, HolderPhases, DrainItem
<1>8. CASE Pace
  BY <1>0, <1>8 DEF Pace, AdmissionInv, HolderPhases, DrainItem
<1>9. CASE UNCHANGED vars
  BY <1>0, <1>9 DEF vars, AdmissionInv, HolderPhases, DrainItem
<1>10. QED BY <1>1, <1>2, <1>3, <1>4, <1>5, <1>6, <1>7, <1>8, <1>9 DEF Next

\* Nothing but an [[init]] job is admitted before the queue is resumed.
LEMMA BootStep == ASSUME TypeOK, AdmissionInv, BootInv, [Next]_vars PROVE BootInv'
<1>0. phase \in [Runs -> Phases]
  BY DEF TypeOK
<1>1. ASSUME NEW r \in Runs, Call(r) PROVE BootInv'
  <2>1. CASE Begin(r)
    BY <1>0, <2>1 DEF Begin, Goto, BootInv, CallPhases
  <2>2. CASE Refuse(r)
    BY <1>0, <2>2 DEF Refuse, Answer, BootInv, CallPhases
  <2>3. CASE Admit(r)
    BY <1>0, <2>3 DEF Admit, Goto, BootInv, CallPhases
  <2>4. CASE Abandon(r)
    BY <1>0, <2>4 DEF Abandon, Answer, BootInv, CallPhases
  <2>5. CASE Check(r)
    BY <1>0, <2>5 DEF Check, Return, Answer, Goto, BootInv, CallPhases
  <2>6. CASE Route(r)
    BY <1>0, <2>6 DEF Route, Return, Answer, Goto, BootInv, CallPhases, Queueable
  <2>7. CASE Replay(r)
    BY <1>0, <2>7 DEF Replay, Return, Answer, GiveBack, ReleaseSlot, KeyReply,
       BootInv, CallPhases
  <2>8. CASE Taken(r)
    BY <1>0, <2>8 DEF Taken, Return, Answer, GiveBack, ReleaseSlot, BootInv,
       CallPhases
  <2>9. CASE EnqueueRefused(r)
    BY <1>0, <2>9 DEF EnqueueRefused, Return, Answer, Goto, BootInv, CallPhases
  <2>10. CASE EnqueueCommit(r)
    BY <1>0, <2>10 DEF EnqueueCommit, InsertQueued, Goto, BootInv, CallPhases
  <2>11. CASE EnqueueFails(r)
    BY <1>0, <2>11 DEF EnqueueFails, QueueErrors, Return, Answer, BootInv, CallPhases
  <2>12. CASE EnqueueAmbiguous(r)
    BY <1>0, <2>12 DEF EnqueueAmbiguous, InsertQueued, QueueErrors, Return, Answer,
       BootInv, CallPhases
  <2>13. CASE Enqueued(r)
    BY <1>0, <2>13 DEF Enqueued, Return, Answer, BootInv, CallPhases
  <2>14. CASE SkipStored(r)
    BY <1>0, <2>14 DEF SkipStored, Return, Answer, BootInv, CallPhases
  <2>15. CASE SkipFails(r)
    BY <1>0, <2>15 DEF SkipFails, Return, Answer, BootInv, CallPhases
  <2>16. CASE RowStored(r)
    BY <1>0, <2>16 DEF RowStored, Goto, BootInv, CallPhases
  <2>17. CASE RowKeyFails(r)
    BY <1>0, <2>17 DEF RowKeyFails, Return, Answer, ReleaseSlot, BootInv, CallPhases
  <2>18. CASE RowDeferred(r)
    BY <1>0, <2>18 DEF RowDeferred, Goto, ReleaseSlot, BootInv, CallPhases
  <2>19. CASE Launch(r)
    BY <1>0, <2>19 DEF Launch, BootInv, CallPhases
  <2>20. CASE LaunchRefused(r)
    BY <1>0, <2>20 DEF LaunchRefused, RefusedStatus, Return, Answer, ReleaseSlot,
       BootInv, CallPhases
  <2>21. CASE GiveUp(r)
    BY <1>0, <2>21 DEF GiveUp, Return, Answer, GiveBack, ReleaseSlot, BootInv,
       CallPhases
  <2>22. QED BY <1>1, <2>1, <2>2, <2>3, <2>4, <2>5, <2>6, <2>7, <2>8, <2>9, <2>10,
     <2>11, <2>12, <2>13, <2>14, <2>15, <2>16, <2>17, <2>18, <2>19, <2>20, <2>21 DEF
     Call
<1>2. ASSUME NEW r \in Runs, Execution(r) PROVE BootInv'
  <2>1. CASE Finish(r)
    BY <1>0, <2>1 DEF Finish, Goto, BootInv, CallPhases
  <2>2. CASE Unregister(r)
    BY <1>0, <2>2 DEF Unregister, Goto, BootInv, CallPhases
  <2>3. CASE Release(r)
    BY <1>0, <2>3 DEF Release, Goto, ReleaseSlot, BootInv, CallPhases
  <2>4. CASE StoreRow(r)
    BY <1>0, <2>4 DEF StoreRow, Written, BootInv, CallPhases
  <2>5. CASE StoreRunning(r)
    BY <1>0, <2>5 DEF StoreRunning, Written, BootInv, CallPhases
  <2>6. CASE StoreTerminal(r)
    BY <1>0, <2>6 DEF StoreTerminal, Written, BootInv, CallPhases
  <2>7. QED BY <1>2, <2>1, <2>2, <2>3, <2>4, <2>5, <2>6 DEF Execution
<1>3. ASSUME DrainStep PROVE BootInv'
  <2>1. CASE DrainWake
    BY <1>0, <2>1 DEF DrainWake, BootInv, CallPhases, Asleep
  <2>2. CASE DrainExit
    BY <1>0, <2>2 DEF DrainExit, BootInv, CallPhases
  <2>3. CASE DrainSleep
    BY <1>0, <2>3 DEF DrainSleep, BootInv, CallPhases
  <2>4. CASE DrainExpire
    BY <1>0, <2>4 DEF DrainExpire, EndQueued, Overdue, BootInv, CallPhases
  <2>5. CASE DrainExpireFails
    BY <1>0, <2>5 DEF DrainExpireFails, EndQueued, Overdue, BootInv, CallPhases
  <2>6. CASE DrainReserve
    BY <1>0, <2>6 DEF DrainReserve, BootInv, CallPhases
  <2>7. CASE DrainAdmit
    BY <1>0, <2>7 DEF DrainAdmit, BootInv, CallPhases
  <2>8. CASE DrainFails
    BY <1>0, <2>8 DEF DrainFails, StepBack, BootInv, CallPhases
  <2>9. CASE DrainResync
    BY <1>0, <2>9 DEF DrainResync, StepBack, BootInv, CallPhases
  <2>10. CASE DrainPick
    BY <1>0, <2>10 DEF DrainPick, NextItem, Turn, BootInv, CallPhases
  <2>11. CASE DrainDrop
    BY <1>0, <2>11 DEF DrainDrop, EndQueued, StepBack, BootInv, CallPhases
  <2>12. CASE DrainValidate
    BY <1>0, <2>12 DEF DrainValidate, BootInv, CallPhases
  <2>13. CASE DrainDequeue
    BY <1>0, <2>13 DEF DrainDequeue, EndQueued, StepBack, BootInv, CallPhases
  <2>14. CASE DrainLaunch
    BY <1>0, <2>14 DEF DrainLaunch, RefusedStatus, ReleaseSlot, BootInv, CallPhases
  <2>15. QED BY <1>3, <2>1, <2>2, <2>3, <2>4, <2>5, <2>6, <2>7, <2>8, <2>9, <2>10,
     <2>11, <2>12, <2>13, <2>14 DEF DrainStep
<1>4. ASSUME NEW j \in Jobs, Registry(j) PROVE BootInv'
  <2>1. CASE SetEnabled(j)
    BY <1>0, <2>1 DEF SetEnabled, Edit, EndQueued, BootInv, CallPhases
  <2>2. CASE DeleteDefinition(j)
    BY <1>0, <2>2 DEF DeleteDefinition, Edit, EndQueued, BootInv, CallPhases
  <2>3. CASE PutDefinition(j)
    BY <1>0, <2>3 DEF PutDefinition, Edit, BootInv, CallPhases
  <2>4. CASE SyncRemoves(j)
    BY <1>0, <2>4 DEF SyncRemoves, Edit, BootInv, CallPhases
  <2>5. QED BY <1>4, <2>1, <2>2, <2>3, <2>4 DEF Registry
<1>5. ASSUME Lifetime PROVE BootInv'
  <2>1. CASE ResumeQueue
    BY <1>0, <2>1 DEF ResumeQueue, BootInv, CallPhases
  <2>2. CASE Restart
    BY <1>0, <2>2 DEF Restart, BootInv, CallPhases
  <2>3. CASE BeginShutdown
    BY <1>0, <2>3 DEF BeginShutdown, BootInv, CallPhases
  <2>4. CASE ShutdownSnapshot
    BY <1>0, <2>4 DEF ShutdownSnapshot, BootInv, CallPhases
  <2>5. CASE ShutdownDone
    BY <1>0, <2>5 DEF ShutdownDone, BootInv, CallPhases
  <2>6. QED BY <1>5, <2>1, <2>2, <2>3, <2>4, <2>5 DEF Lifetime
<1>6. ASSUME NEW r \in Runs, Age(r) PROVE BootInv'
  BY <1>0, <1>6 DEF Age, BootInv, CallPhases
<1>7. ASSUME NEW r \in Runs, CancelQueued(r) PROVE BootInv'
  BY <1>0, <1>7 DEF CancelQueued, EndQueued, BootInv, CallPhases
<1>8. CASE Pace
  BY <1>0, <1>8 DEF Pace, BootInv, CallPhases
<1>9. CASE UNCHANGED vars
  BY <1>0, <1>9 DEF vars, BootInv, CallPhases
<1>10. QED BY <1>1, <1>2, <1>3, <1>4, <1>5, <1>6, <1>7, <1>8, <1>9 DEF Next

\* A call leaves no trace before its row.
LEMMA FreshStep ==
    ASSUME TypeOK, AdmissionInv, FreshInv, StartInv, [Next]_vars PROVE FreshInv'
<1>0. /\ phase \in [Runs -> Phases] /\ status \in [Runs -> Lifecycle!Statuses]
      /\ outcome \in [Runs -> Outcomes \cup {"none", "skipped"}]
  BY DEF TypeOK
<1>1. ASSUME NEW r \in Runs, Call(r) PROVE FreshInv'
  <2>1. CASE Begin(r)
    BY <1>0, <2>1 DEF Begin, Goto, FreshInv, FreshPhases
  <2>2. CASE Refuse(r)
    BY <1>0, <2>2 DEF Refuse, Answer, FreshInv, FreshPhases
  <2>3. CASE Admit(r)
    BY <1>0, <2>3 DEF Admit, Goto, FreshInv, FreshPhases
  <2>4. CASE Abandon(r)
    BY <1>0, <2>4 DEF Abandon, Answer, FreshInv, FreshPhases
  <2>5. CASE Check(r)
    BY <1>0, <2>5 DEF Check, Return, Answer, Goto, FreshInv, FreshPhases
  <2>6. CASE Route(r)
    BY <1>0, <2>6 DEF Route, Return, Answer, Goto, FreshInv, FreshPhases
  <2>7. CASE Replay(r)
    BY <1>0, <2>7 DEF Replay, Return, Answer, GiveBack, ReleaseSlot, KeyReply,
       FreshInv, FreshPhases
  <2>8. CASE Taken(r)
    BY <1>0, <2>8 DEF Taken, Return, Answer, GiveBack, ReleaseSlot, FreshInv,
       FreshPhases
  <2>9. CASE EnqueueRefused(r)
    BY <1>0, <2>9 DEF EnqueueRefused, Return, Answer, Goto, FreshInv, FreshPhases
  <2>10. CASE EnqueueCommit(r)
    BY <1>0, <2>10 DEF EnqueueCommit, InsertQueued, Goto, FreshInv, FreshPhases
  <2>11. CASE EnqueueFails(r)
    BY <1>0, <2>11 DEF EnqueueFails, QueueErrors, Return, Answer, FreshInv,
       FreshPhases
  <2>12. CASE EnqueueAmbiguous(r)
    BY <1>0, <2>12 DEF EnqueueAmbiguous, InsertQueued, QueueErrors, Return, Answer,
       FreshInv, FreshPhases
  <2>13. CASE Enqueued(r)
    BY <1>0, <2>13 DEF Enqueued, Return, Answer, FreshInv, FreshPhases
  <2>14. CASE SkipStored(r)
    BY <1>0, <2>14 DEF SkipStored, Return, Answer, FreshInv, FreshPhases
  <2>15. CASE SkipFails(r)
    BY <1>0, <2>15 DEF SkipFails, Return, Answer, FreshInv, FreshPhases
  <2>16. CASE RowStored(r)
    BY <1>0, <2>16 DEF RowStored, Goto, FreshInv, FreshPhases
  <2>17. CASE RowKeyFails(r)
    BY <1>0, <2>17 DEF RowKeyFails, Return, Answer, ReleaseSlot, FreshInv, FreshPhases
  <2>18. CASE RowDeferred(r)
    BY <1>0, <2>18 DEF RowDeferred, Goto, ReleaseSlot, FreshInv, FreshPhases
  <2>19. CASE Launch(r)
    BY <1>0, <2>19 DEF Launch, FreshInv, FreshPhases
  <2>20. CASE LaunchRefused(r)
    BY <1>0, <2>20 DEF LaunchRefused, RefusedStatus, Return, Answer, ReleaseSlot,
       FreshInv, FreshPhases
  <2>21. CASE GiveUp(r)
    BY <1>0, <2>21 DEF GiveUp, Return, Answer, GiveBack, ReleaseSlot, FreshInv,
       FreshPhases
  <2>22. QED BY <1>1, <2>1, <2>2, <2>3, <2>4, <2>5, <2>6, <2>7, <2>8, <2>9, <2>10,
     <2>11, <2>12, <2>13, <2>14, <2>15, <2>16, <2>17, <2>18, <2>19, <2>20, <2>21 DEF
     Call
<1>2. ASSUME NEW r \in Runs, Execution(r) PROVE FreshInv'
  <2>1. CASE Finish(r)
    BY <1>0, <2>1 DEF Finish, Goto, FreshInv, FreshPhases
  <2>2. CASE Unregister(r)
    BY <1>0, <2>2 DEF Unregister, Goto, FreshInv, FreshPhases
  <2>3. CASE Release(r)
    BY <1>0, <2>3 DEF Release, Goto, ReleaseSlot, FreshInv, FreshPhases
  <2>4. CASE StoreRow(r)
    BY <1>0, <2>4 DEF StoreRow, Written, FreshInv, FreshPhases
  <2>5. CASE StoreRunning(r)
    BY <1>0, <2>5 DEF StoreRunning, Written, FreshInv, FreshPhases
  <2>6. CASE StoreTerminal(r)
    BY <1>0, <2>6 DEF StoreTerminal, Written, FreshInv, FreshPhases
  <2>7. QED BY <1>2, <2>1, <2>2, <2>3, <2>4, <2>5, <2>6 DEF Execution
<1>3. ASSUME DrainStep PROVE FreshInv'
  <2>1. CASE DrainWake
    BY <1>0, <2>1 DEF DrainWake, FreshInv, FreshPhases
  <2>2. CASE DrainExit
    BY <1>0, <2>2 DEF DrainExit, FreshInv, FreshPhases
  <2>3. CASE DrainSleep
    BY <1>0, <2>3 DEF DrainSleep, FreshInv, FreshPhases
  <2>4. CASE DrainExpire
    BY <1>0, <2>4 DEF DrainExpire, EndQueued, Overdue, FreshInv, FreshPhases
  <2>5. CASE DrainExpireFails
    BY <1>0, <2>5 DEF DrainExpireFails, EndQueued, Overdue, FreshInv, FreshPhases
  <2>6. CASE DrainReserve
    BY <1>0, <2>6 DEF DrainReserve, FreshInv, FreshPhases
  <2>7. CASE DrainAdmit
    BY <1>0, <2>7 DEF DrainAdmit, FreshInv, FreshPhases
  <2>8. CASE DrainFails
    BY <1>0, <2>8 DEF DrainFails, StepBack, FreshInv, FreshPhases
  <2>9. CASE DrainResync
    BY <1>0, <2>9 DEF DrainResync, StepBack, FreshInv, FreshPhases
  <2>10. CASE DrainPick
    BY <1>0, <2>10 DEF DrainPick, NextItem, Turn, FreshInv, FreshPhases
  <2>11. CASE DrainDrop
    BY <1>0, <2>11 DEF DrainDrop, EndQueued, StepBack, FreshInv, FreshPhases
  <2>12. CASE DrainValidate
    BY <1>0, <2>12 DEF DrainValidate, FreshInv, FreshPhases
  <2>13. CASE DrainDequeue
    BY <1>0, <2>13 DEF DrainDequeue, EndQueued, StepBack, FreshInv, FreshPhases
  <2>14. CASE DrainLaunch
    BY <1>0, <2>14 DEF DrainLaunch, RefusedStatus, ReleaseSlot, FreshInv, FreshPhases,
       StartInv, AdmissionInv, DrainItem
  <2>15. QED BY <1>3, <2>1, <2>2, <2>3, <2>4, <2>5, <2>6, <2>7, <2>8, <2>9, <2>10,
     <2>11, <2>12, <2>13, <2>14 DEF DrainStep
<1>4. ASSUME NEW j \in Jobs, Registry(j) PROVE FreshInv'
  <2>1. CASE SetEnabled(j)
    <3>1. /\ \A r \in Runs : status[r] # "queued" => status'[r] = status[r]
          /\ UNCHANGED <<phase, outcome, late, spawned>>
      BY <1>0, <2>1 DEF SetEnabled, Edit, EndQueued
    <3>2. QED BY <3>1 DEF FreshInv
  <2>2. CASE DeleteDefinition(j)
    BY <1>0, <2>2 DEF DeleteDefinition, Edit, EndQueued, FreshInv, FreshPhases
  <2>3. CASE PutDefinition(j)
    BY <1>0, <2>3 DEF PutDefinition, Edit, FreshInv, FreshPhases
  <2>4. CASE SyncRemoves(j)
    BY <1>0, <2>4 DEF SyncRemoves, Edit, FreshInv, FreshPhases
  <2>5. QED BY <1>4, <2>1, <2>2, <2>3, <2>4 DEF Registry
<1>5. ASSUME Lifetime PROVE FreshInv'
  <2>1. CASE ResumeQueue
    BY <1>0, <2>1 DEF ResumeQueue, FreshInv, FreshPhases
  <2>2. CASE Restart
    BY <1>0, <2>2 DEF Restart, FreshInv, FreshPhases
  <2>3. CASE BeginShutdown
    BY <1>0, <2>3 DEF BeginShutdown, FreshInv, FreshPhases
  <2>4. CASE ShutdownSnapshot
    BY <1>0, <2>4 DEF ShutdownSnapshot, FreshInv, FreshPhases
  <2>5. CASE ShutdownDone
    BY <1>0, <2>5 DEF ShutdownDone, FreshInv, FreshPhases
  <2>6. QED BY <1>5, <2>1, <2>2, <2>3, <2>4, <2>5 DEF Lifetime
<1>6. ASSUME NEW r \in Runs, Age(r) PROVE FreshInv'
  BY <1>0, <1>6 DEF Age, FreshInv, FreshPhases
<1>7. ASSUME NEW r \in Runs, CancelQueued(r) PROVE FreshInv'
  BY <1>0, <1>7 DEF CancelQueued, EndQueued, FreshInv, FreshPhases
<1>8. CASE Pace
  BY <1>0, <1>8 DEF Pace, FreshInv, FreshPhases
<1>9. CASE UNCHANGED vars
  BY <1>0, <1>9 DEF vars, FreshInv, FreshPhases
<1>10. QED BY <1>1, <1>2, <1>3, <1>4, <1>5, <1>6, <1>7, <1>8, <1>9 DEF Next

\* A run is started once, by its call or by the drain loop.
LEMMA StartStep ==
    ASSUME TypeOK, AdmissionInv, FreshInv, StartInv, QueuedIffRow, [Next]_vars PROVE StartInv'
<1>0. phase \in [Runs -> Phases] /\ queue \in SUBSET Runs /\ spawned \in SUBSET Runs
  BY DEF TypeOK
<1>1. ASSUME NEW r \in Runs, Call(r) PROVE StartInv'
  <2>1. CASE Begin(r)
    BY <1>0, <2>1 DEF Begin, Goto, StartInv, AdmissionInv, HolderPhases, DrainItem,
       FreshInv, FreshPhases
  <2>2. CASE Refuse(r)
    BY <1>0, <2>2 DEF Refuse, Answer, StartInv, AdmissionInv, HolderPhases, DrainItem,
       FreshInv, FreshPhases
  <2>3. CASE Admit(r)
    BY <1>0, <2>3 DEF Admit, Goto, StartInv, AdmissionInv, HolderPhases, DrainItem,
       FreshInv, FreshPhases
  <2>4. CASE Abandon(r)
    BY <1>0, <2>4 DEF Abandon, Answer, StartInv, AdmissionInv, HolderPhases,
       DrainItem, FreshInv, FreshPhases
  <2>5. CASE Check(r)
    BY <1>0, <2>5 DEF Check, Return, Answer, Goto, StartInv, AdmissionInv,
       HolderPhases, DrainItem, FreshInv, FreshPhases
  <2>6. CASE Route(r)
    BY <1>0, <2>6 DEF Route, Return, Answer, Goto, StartInv, AdmissionInv,
       HolderPhases, DrainItem, FreshInv, FreshPhases
  <2>7. CASE Replay(r)
    <3>1. /\ phase' \in {[phase EXCEPT ![r] = p] : p \in {"done"}}
          /\ UNCHANGED <<queue, spawned, loop, item>> /\ phase[r] \in HolderPhases
      BY <2>7 DEF Replay, Return, Answer, HolderPhases
    <3>2. QED BY <1>0, <3>1 DEF StartInv, AdmissionInv, HolderPhases, DrainItem, FreshInv, FreshPhases
  <2>8. CASE Taken(r)
    <3>1. /\ phase' \in {[phase EXCEPT ![r] = p] : p \in {"done"}}
          /\ UNCHANGED <<queue, spawned, loop, item>> /\ phase[r] \in HolderPhases
      BY <2>8 DEF Taken, Return, Answer, HolderPhases
    <3>2. QED BY <1>0, <3>1 DEF StartInv, AdmissionInv, HolderPhases, DrainItem, FreshInv, FreshPhases
  <2>9. CASE EnqueueRefused(r)
    <3>1. PICK p \in {"done", "skip"} : phase' = [phase EXCEPT ![r] = p]
      BY <2>9 DEF EnqueueRefused, Return, Answer, Goto
    <3>2. phase[r] = "enqueue" /\ r \notin queue \cup spawned /\ UNCHANGED <<queue, spawned, loop, item>>
      BY <2>9 DEF EnqueueRefused, StartInv, FreshInv, FreshPhases
    <3>3. loop = "dequeued" => item \in Runs
      BY DEF AdmissionInv, DrainItem
    <3>4. QED BY <1>0, <3>1, <3>2, <3>3 DEF StartInv
  <2>10. CASE EnqueueCommit(r)
    BY <1>0, <2>10 DEF EnqueueCommit, InsertQueued, Goto, StartInv, AdmissionInv,
       HolderPhases, DrainItem, FreshInv, FreshPhases
  <2>11. CASE EnqueueFails(r)
    BY <1>0, <2>11 DEF EnqueueFails, QueueErrors, Return, Answer, StartInv,
       AdmissionInv, HolderPhases, DrainItem, FreshInv, FreshPhases
  <2>12. CASE EnqueueAmbiguous(r)
    <3>1. /\ phase[r] = "enqueue" /\ phase' = [phase EXCEPT ![r] = "done"]
          /\ queue' = queue \cup {r} /\ UNCHANGED <<spawned, loop, item>>
      BY <2>12 DEF EnqueueAmbiguous, InsertQueued, Return, Answer
    <3>2. r \notin queue \cup spawned
      BY <3>1 DEF StartInv, FreshInv, FreshPhases
    <3>3. loop = "dequeued" => item \in Runs /\ item # r
      BY <3>1 DEF AdmissionInv, DrainItem, StartInv
    <3>4. QED BY <1>0, <3>1, <3>2, <3>3 DEF StartInv
  <2>13. CASE Enqueued(r)
    BY <1>0, <2>13 DEF Enqueued, Return, Answer, StartInv, AdmissionInv, HolderPhases,
       DrainItem, FreshInv, FreshPhases
  <2>14. CASE SkipStored(r)
    BY <1>0, <2>14 DEF SkipStored, Return, Answer, StartInv, AdmissionInv,
       HolderPhases, DrainItem, FreshInv, FreshPhases
  <2>15. CASE SkipFails(r)
    BY <1>0, <2>15 DEF SkipFails, Return, Answer, StartInv, AdmissionInv,
       HolderPhases, DrainItem, FreshInv, FreshPhases
  <2>16. CASE RowStored(r)
    BY <1>0, <2>16 DEF RowStored, Goto, StartInv, AdmissionInv, HolderPhases,
       DrainItem, FreshInv, FreshPhases
  <2>17. CASE RowKeyFails(r)
    BY <1>0, <2>17 DEF RowKeyFails, Return, Answer, ReleaseSlot, StartInv,
       AdmissionInv, HolderPhases, DrainItem, FreshInv, FreshPhases
  <2>18. CASE RowDeferred(r)
    <3>1. PICK p \in {"declined", "launch"} : phase' = [phase EXCEPT ![r] = p]
      BY <2>18 DEF RowDeferred, Goto
    <3>2. phase[r] = "slot" /\ r \notin queue \cup spawned /\ UNCHANGED <<queue, spawned, loop, item>>
      BY <2>18 DEF RowDeferred, StartInv, FreshInv, FreshPhases
    <3>3. loop = "dequeued" => item \in Runs
      BY DEF AdmissionInv, DrainItem
    <3>4. QED BY <1>0, <3>1, <3>2, <3>3 DEF StartInv
  <2>19. CASE Launch(r)
    BY <1>0, <2>19 DEF Launch, StartInv, AdmissionInv, HolderPhases, DrainItem,
       FreshInv, FreshPhases
  <2>20. CASE LaunchRefused(r)
    BY <1>0, <2>20 DEF LaunchRefused, RefusedStatus, Return, Answer, ReleaseSlot,
       StartInv, AdmissionInv, HolderPhases, DrainItem, FreshInv, FreshPhases
  <2>21. CASE GiveUp(r)
    <3>1. /\ phase' \in {[phase EXCEPT ![r] = p] : p \in {"done"}}
          /\ UNCHANGED <<queue, spawned, loop, item>> /\ phase[r] \in HolderPhases
      BY <2>21 DEF GiveUp, Return, Answer, HolderPhases
    <3>2. QED BY <1>0, <3>1 DEF StartInv, AdmissionInv, HolderPhases, DrainItem, FreshInv, FreshPhases
  <2>22. QED BY <1>1, <2>1, <2>2, <2>3, <2>4, <2>5, <2>6, <2>7, <2>8, <2>9, <2>10,
     <2>11, <2>12, <2>13, <2>14, <2>15, <2>16, <2>17, <2>18, <2>19, <2>20, <2>21 DEF
     Call
<1>2. ASSUME NEW r \in Runs, Execution(r) PROVE StartInv'
  <2>1. CASE Finish(r)
    BY <1>0, <2>1 DEF Finish, Goto, StartInv
  <2>2. CASE Unregister(r)
    BY <1>0, <2>2 DEF Unregister, Goto, StartInv
  <2>3. CASE Release(r)
    BY <1>0, <2>3 DEF Release, Goto, ReleaseSlot, StartInv
  <2>4. CASE StoreRow(r)
    BY <1>0, <2>4 DEF StoreRow, Written, StartInv
  <2>5. CASE StoreRunning(r)
    BY <1>0, <2>5 DEF StoreRunning, Written, StartInv
  <2>6. CASE StoreTerminal(r)
    BY <1>0, <2>6 DEF StoreTerminal, Written, StartInv
  <2>7. QED BY <1>2, <2>1, <2>2, <2>3, <2>4, <2>5, <2>6 DEF Execution
<1>3. ASSUME DrainStep PROVE StartInv'
  <2>1. CASE DrainWake
    BY <1>0, <2>1 DEF DrainWake, StartInv, AdmissionInv, DrainItem
  <2>2. CASE DrainExit
    BY <1>0, <2>2 DEF DrainExit, StartInv, AdmissionInv, DrainItem
  <2>3. CASE DrainSleep
    BY <1>0, <2>3 DEF DrainSleep, StartInv, AdmissionInv, DrainItem
  <2>4. CASE DrainExpire
    BY <1>0, <2>4 DEF DrainExpire, EndQueued, Overdue, StartInv, AdmissionInv,
       DrainItem
  <2>5. CASE DrainExpireFails
    BY <1>0, <2>5 DEF DrainExpireFails, EndQueued, Overdue, StartInv, AdmissionInv,
       DrainItem
  <2>6. CASE DrainReserve
    BY <1>0, <2>6 DEF DrainReserve, StartInv, AdmissionInv, DrainItem
  <2>7. CASE DrainAdmit
    BY <1>0, <2>7 DEF DrainAdmit, StartInv, AdmissionInv, DrainItem
  <2>8. CASE DrainFails
    BY <1>0, <2>8 DEF DrainFails, StepBack, StartInv, AdmissionInv, DrainItem
  <2>9. CASE DrainResync
    BY <1>0, <2>9 DEF DrainResync, StepBack, StartInv, AdmissionInv, DrainItem
  <2>10. CASE DrainPick
    BY <1>0, <2>10 DEF DrainPick, NextItem, Turn, StartInv, AdmissionInv, DrainItem
  <2>11. CASE DrainDrop
    BY <1>0, <2>11 DEF DrainDrop, EndQueued, StepBack, StartInv, AdmissionInv,
       DrainItem
  <2>12. CASE DrainValidate
    BY <1>0, <2>12 DEF DrainValidate, StartInv, AdmissionInv, DrainItem
  <2>13. CASE DrainDequeue
    <3>1. item \in Runs /\ adm = Drain /\ UNCHANGED <<phase, spawned>>
      BY <2>13 DEF DrainDequeue, AdmissionInv, DrainItem
    <3>2. CASE status[item] = "queued"
      <4>1. item \in queue /\ phase[item] \in {"done", "dead"}
        BY <1>0, <3>1, <3>2 DEF QueuedIffRow, StartInv, AdmissionInv, HolderPhases
      <4>2. queue' = queue \ {item} /\ (loop' = "dequeued" => item' = item)
        BY <2>13, <3>2 DEF DrainDequeue, EndQueued, StepBack
      <4>3. QED BY <1>0, <3>1, <4>1, <4>2 DEF StartInv
    <3>3. CASE status[item] # "queued"
      <4>1. queue' = queue /\ loop' = "step"
        BY <2>13, <3>3 DEF DrainDequeue, StepBack
      <4>2. QED BY <3>1, <4>1 DEF StartInv
    <3>4. QED BY <3>2, <3>3
  <2>14. CASE DrainLaunch
    <3>1. item \in Runs /\ loop = "dequeued" /\ loop' = "step" /\ queue' = queue
      BY <2>14 DEF DrainLaunch, AdmissionInv, DrainItem
    <3>2. CASE Closing
      BY <2>14, <3>1, <3>2 DEF DrainLaunch, StartInv
    <3>3. CASE ~Closing
      <4>1. phase' = [phase EXCEPT ![item] = "live"] /\ spawned' = spawned \cup {item}
        BY <2>14, <3>3 DEF DrainLaunch
      <4>2. QED BY <1>0, <3>1, <4>1 DEF StartInv
    <3>4. QED BY <3>2, <3>3
  <2>15. QED BY <1>3, <2>1, <2>2, <2>3, <2>4, <2>5, <2>6, <2>7, <2>8, <2>9, <2>10,
     <2>11, <2>12, <2>13, <2>14 DEF DrainStep
<1>4. ASSUME NEW j \in Jobs, Registry(j) PROVE StartInv'
  <2>1. CASE SetEnabled(j)
    BY <1>0, <2>1 DEF SetEnabled, Edit, EndQueued, StartInv
  <2>2. CASE DeleteDefinition(j)
    BY <1>0, <2>2 DEF DeleteDefinition, Edit, EndQueued, StartInv
  <2>3. CASE PutDefinition(j)
    BY <1>0, <2>3 DEF PutDefinition, Edit, StartInv
  <2>4. CASE SyncRemoves(j)
    BY <1>0, <2>4 DEF SyncRemoves, Edit, StartInv
  <2>5. QED BY <1>4, <2>1, <2>2, <2>3, <2>4 DEF Registry
<1>5. ASSUME Lifetime PROVE StartInv'
  <2>1. CASE ResumeQueue
    BY <1>0, <2>1 DEF ResumeQueue, StartInv
  <2>2. CASE Restart
    BY <1>0, <2>2 DEF Restart, StartInv
  <2>3. CASE BeginShutdown
    BY <1>0, <2>3 DEF BeginShutdown, StartInv
  <2>4. CASE ShutdownSnapshot
    BY <1>0, <2>4 DEF ShutdownSnapshot, StartInv
  <2>5. CASE ShutdownDone
    BY <1>0, <2>5 DEF ShutdownDone, StartInv
  <2>6. QED BY <1>5, <2>1, <2>2, <2>3, <2>4, <2>5 DEF Lifetime
<1>6. ASSUME NEW r \in Runs, Age(r) PROVE StartInv'
  BY <1>0, <1>6 DEF Age, StartInv
<1>7. ASSUME NEW r \in Runs, CancelQueued(r) PROVE StartInv'
  BY <1>0, <1>7 DEF CancelQueued, EndQueued, StartInv
<1>8. CASE Pace
  BY <1>0, <1>8 DEF Pace, StartInv
<1>9. CASE UNCHANGED vars
  BY <1>0, <1>9 DEF vars, StartInv
<1>10. QED BY <1>1, <1>2, <1>3, <1>4, <1>5, <1>6, <1>7, <1>8, <1>9 DEF Next

\* The two tables change together.
LEMMA RowStep ==
    ASSUME TypeOK, AdmissionInv, FreshInv, StartInv, QueuedIffRow, [Next]_vars
    PROVE  QueuedIffRow'
<1>0. /\ phase \in [Runs -> Phases] /\ status \in [Runs -> Lifecycle!Statuses]
      /\ outcome \in [Runs -> Outcomes \cup {"none", "skipped"}] /\ queue \in SUBSET Runs
  BY DEF TypeOK
<1>1. ASSUME NEW r \in Runs, Call(r) PROVE QueuedIffRow'
  <2>1. CASE Begin(r)
    BY <1>0, <2>1 DEF Begin, Goto, QueuedIffRow
  <2>2. CASE Refuse(r)
    BY <1>0, <2>2 DEF Refuse, Answer, QueuedIffRow
  <2>3. CASE Admit(r)
    BY <1>0, <2>3 DEF Admit, Goto, QueuedIffRow
  <2>4. CASE Abandon(r)
    BY <1>0, <2>4 DEF Abandon, Answer, QueuedIffRow
  <2>5. CASE Check(r)
    BY <1>0, <2>5 DEF Check, Return, Answer, Goto, QueuedIffRow
  <2>6. CASE Route(r)
    BY <1>0, <2>6 DEF Route, Return, Answer, Goto, QueuedIffRow
  <2>7. CASE Replay(r)
    BY <1>0, <2>7 DEF Replay, Return, Answer, GiveBack, ReleaseSlot, KeyReply,
       QueuedIffRow
  <2>8. CASE Taken(r)
    BY <1>0, <2>8 DEF Taken, Return, Answer, GiveBack, ReleaseSlot, QueuedIffRow
  <2>9. CASE EnqueueRefused(r)
    BY <1>0, <2>9 DEF EnqueueRefused, Return, Answer, Goto, QueuedIffRow
  <2>10. CASE EnqueueCommit(r)
    BY <1>0, <2>10 DEF EnqueueCommit, InsertQueued, Goto, QueuedIffRow, FreshInv,
       FreshPhases
  <2>11. CASE EnqueueFails(r)
    BY <1>0, <2>11 DEF EnqueueFails, QueueErrors, Return, Answer, QueuedIffRow
  <2>12. CASE EnqueueAmbiguous(r)
    BY <1>0, <2>12 DEF EnqueueAmbiguous, InsertQueued, QueueErrors, Return, Answer,
       QueuedIffRow, FreshInv, FreshPhases
  <2>13. CASE Enqueued(r)
    BY <1>0, <2>13 DEF Enqueued, Return, Answer, QueuedIffRow
  <2>14. CASE SkipStored(r)
    BY <1>0, <2>14 DEF SkipStored, Return, Answer, QueuedIffRow, FreshInv, FreshPhases
  <2>15. CASE SkipFails(r)
    <3>1. queue' = queue /\ phase[r] = "skip"
      BY <2>15 DEF SkipFails
    <3>2. status' = status \/ status' = [status EXCEPT ![r] = "skipped"]
      BY <2>15 DEF SkipFails
    <3>3. status[r] # "queued" /\ r \notin queue
      BY <3>1 DEF QueuedIffRow, FreshInv, FreshPhases
    <3>4. QED BY <1>0, <3>1, <3>2, <3>3 DEF QueuedIffRow
  <2>16. CASE RowStored(r)
    BY <1>0, <2>16 DEF RowStored, Goto, QueuedIffRow, FreshInv, FreshPhases
  <2>17. CASE RowKeyFails(r)
    BY <1>0, <2>17 DEF RowKeyFails, Return, Answer, ReleaseSlot, QueuedIffRow,
       FreshInv, FreshPhases
  <2>18. CASE RowDeferred(r)
    BY <1>0, <2>18 DEF RowDeferred, Goto, ReleaseSlot, QueuedIffRow, FreshInv,
       FreshPhases
  <2>19. CASE Launch(r)
    BY <1>0, <2>19 DEF Launch, QueuedIffRow
  <2>20. CASE LaunchRefused(r)
    BY <1>0, <2>20 DEF LaunchRefused, RefusedStatus, Return, Answer, ReleaseSlot,
       QueuedIffRow, FreshInv, FreshPhases
  <2>21. CASE GiveUp(r)
    BY <1>0, <2>21 DEF GiveUp, Return, Answer, GiveBack, ReleaseSlot, QueuedIffRow
  <2>22. QED BY <1>1, <2>1, <2>2, <2>3, <2>4, <2>5, <2>6, <2>7, <2>8, <2>9, <2>10,
     <2>11, <2>12, <2>13, <2>14, <2>15, <2>16, <2>17, <2>18, <2>19, <2>20, <2>21 DEF
     Call
<1>2. ASSUME NEW r \in Runs, Execution(r) PROVE QueuedIffRow'
  <2>1. CASE Finish(r)
    BY <1>0, <2>1 DEF Finish, Goto, QueuedIffRow
  <2>2. CASE Unregister(r)
    BY <1>0, <2>2 DEF Unregister, Goto, QueuedIffRow
  <2>3. CASE Release(r)
    BY <1>0, <2>3 DEF Release, Goto, ReleaseSlot, QueuedIffRow
  <2>4. CASE StoreRow(r)
    BY <1>0, <2>4 DEF StoreRow, Written, QueuedIffRow
  <2>5. CASE StoreRunning(r)
    BY <1>0, <2>5 DEF StoreRunning, Written, QueuedIffRow
  <2>6. CASE StoreTerminal(r)
    BY <1>0, <2>6, OutcomesKnown DEF StoreTerminal, Written, QueuedIffRow
  <2>7. QED BY <1>2, <2>1, <2>2, <2>3, <2>4, <2>5, <2>6 DEF Execution
<1>3. ASSUME DrainStep PROVE QueuedIffRow'
  <2>1. CASE DrainWake
    BY <1>0, <2>1 DEF DrainWake, QueuedIffRow
  <2>2. CASE DrainExit
    BY <1>0, <2>2 DEF DrainExit, QueuedIffRow
  <2>3. CASE DrainSleep
    BY <1>0, <2>3 DEF DrainSleep, QueuedIffRow
  <2>4. CASE DrainExpire
    BY <1>0, <2>4 DEF DrainExpire, EndQueued, Overdue, QueuedIffRow
  <2>5. CASE DrainExpireFails
    BY <1>0, <2>5 DEF DrainExpireFails, EndQueued, Overdue, QueuedIffRow
  <2>6. CASE DrainReserve
    BY <1>0, <2>6 DEF DrainReserve, QueuedIffRow
  <2>7. CASE DrainAdmit
    BY <1>0, <2>7 DEF DrainAdmit, QueuedIffRow
  <2>8. CASE DrainFails
    BY <1>0, <2>8 DEF DrainFails, StepBack, QueuedIffRow
  <2>9. CASE DrainResync
    BY <1>0, <2>9 DEF DrainResync, StepBack, QueuedIffRow
  <2>10. CASE DrainPick
    BY <1>0, <2>10 DEF DrainPick, NextItem, Turn, QueuedIffRow
  <2>11. CASE DrainDrop
    BY <1>0, <2>11 DEF DrainDrop, EndQueued, StepBack, QueuedIffRow
  <2>12. CASE DrainValidate
    BY <1>0, <2>12 DEF DrainValidate, QueuedIffRow
  <2>13. CASE DrainDequeue
    <3>1. CASE status[item] = "queued"
      BY <1>0, <2>13, <3>1 DEF DrainDequeue, EndQueued, QueuedIffRow
    <3>2. CASE status[item] # "queued"
      BY <2>13, <3>2 DEF DrainDequeue, QueuedIffRow
    <3>3. QED BY <3>1, <3>2
  <2>14. CASE DrainLaunch
    BY <1>0, <2>14 DEF DrainLaunch, RefusedStatus, ReleaseSlot, QueuedIffRow,
       AdmissionInv, DrainItem
  <2>15. QED BY <1>3, <2>1, <2>2, <2>3, <2>4, <2>5, <2>6, <2>7, <2>8, <2>9, <2>10,
     <2>11, <2>12, <2>13, <2>14 DEF DrainStep
<1>4. ASSUME NEW j \in Jobs, Registry(j) PROVE QueuedIffRow'
  <2>1. CASE SetEnabled(j)
    <3>1. CASE UNCHANGED durable
      BY <3>1 DEF QueuedIffRow
    <3>2. CASE EndQueued(PerJob(j), "skipped")
      BY <1>0, <3>2 DEF EndQueued, QueuedIffRow
    <3>3. QED BY <2>1, <3>1, <3>2 DEF SetEnabled
  <2>2. CASE DeleteDefinition(j)
    BY <1>0, <2>2 DEF DeleteDefinition, Edit, EndQueued, QueuedIffRow
  <2>3. CASE PutDefinition(j)
    BY <1>0, <2>3 DEF PutDefinition, Edit, QueuedIffRow
  <2>4. CASE SyncRemoves(j)
    BY <1>0, <2>4 DEF SyncRemoves, Edit, QueuedIffRow
  <2>5. QED BY <1>4, <2>1, <2>2, <2>3, <2>4 DEF Registry
<1>5. ASSUME Lifetime PROVE QueuedIffRow'
  <2>1. CASE ResumeQueue
    BY <1>0, <2>1 DEF ResumeQueue, QueuedIffRow
  <2>2. CASE Restart
    BY <1>0, <2>2 DEF Restart, QueuedIffRow
  <2>3. CASE BeginShutdown
    BY <1>0, <2>3 DEF BeginShutdown, QueuedIffRow
  <2>4. CASE ShutdownSnapshot
    BY <1>0, <2>4 DEF ShutdownSnapshot, QueuedIffRow
  <2>5. CASE ShutdownDone
    BY <1>0, <2>5 DEF ShutdownDone, QueuedIffRow
  <2>6. QED BY <1>5, <2>1, <2>2, <2>3, <2>4, <2>5 DEF Lifetime
<1>6. ASSUME NEW r \in Runs, Age(r) PROVE QueuedIffRow'
  BY <1>0, <1>6 DEF Age, QueuedIffRow
<1>7. ASSUME NEW r \in Runs, CancelQueued(r) PROVE QueuedIffRow'
  BY <1>0, <1>7 DEF CancelQueued, EndQueued, QueuedIffRow
<1>8. CASE Pace
  BY <1>0, <1>8 DEF Pace, QueuedIffRow
<1>9. CASE UNCHANGED vars
  BY <1>0, <1>9 DEF vars, QueuedIffRow
<1>10. QED BY <1>1, <1>2, <1>3, <1>4, <1>5, <1>6, <1>7, <1>8, <1>9 DEF Next
-----------------------------------------------------------------------------
\* A fresh daemon with an empty database satisfies the invariant.
LEMMA InitSafe == Init => SafetyInv
<1> SUFFICES ASSUME Init PROVE SafetyInv
  OBVIOUS
<1>1. qon \in BOOLEAN
  BY ModesAreBoolean DEF Init
<1>2. TypeOK
  <2>1. wake \in BOOLEAN /\ paced \in BOOLEAN
    BY Zenon DEF Init
  <2>2. budget \in [Jobs -> BOOLEAN]
    BY DEF Init
  <2>3. /\ status \in [Runs -> Lifecycle!Statuses]
        /\ phase \in [Runs -> Phases]
        /\ reply \in [Runs -> Replies]
        /\ stage \in Stages /\ loop \in LoopStates
    BY DEF Init, Phases, Replies, Stages, LoopStates, Lifecycle!Statuses
  <2>4. slots \in 0..Capacity /\ depth \in Int /\ gone \in Nat /\ lastSeq \in Nat
    BY Limits DEF Init
  <2>5. /\ seq \in [Runs -> Nat] /\ served \in [Jobs -> Nat]
        /\ def \in [Jobs -> {"on", "off", "gone"}]
        /\ outcome \in [Runs -> Outcomes \cup {"none", "skipped"}]
        /\ req \in [Runs -> Requests]
    BY DEF Init
  <2>6. /\ queue \in SUBSET Runs /\ late \in SUBSET Runs /\ joins \in SUBSET Runs
        /\ aged \in SUBSET Runs /\ spawned \in SUBSET Runs
        /\ adm \in Runs \cup {NoRun, Drain} /\ item \in Runs \cup {NoRun}
    BY DEF Init
  <2>7. QED BY <1>1, <2>1, <2>2, <2>3, <2>4, <2>5, <2>6, Zenon DEF TypeOK
<1>3. SlotsAccounted
  <2>1. Owners = {}
    BY DEF Init, Owners, OwnerPhases
  <2>2. QED BY <2>1, FS_EmptySet DEF Init, SlotsAccounted, DrainHolds
<1>4. AdmissionInv /\ BootInv /\ FreshInv /\ StartInv /\ QueuedIffRow
  BY DEF Init, AdmissionInv, BootInv, FreshInv, StartInv, QueuedIffRow, HolderPhases,
     DrainItem, CallPhases
<1>5. QED BY <1>2, <1>3, <1>4 DEF SafetyInv

\* Every step of every actor preserves it.
LEMMA NextSafe == SafetyInv /\ [Next]_vars => SafetyInv'
BY TypeStep, SlotsStep, AdmissionStep, BootStep, FreshStep, StartStep, RowStep DEF SafetyInv

\* The inductive invariant holds in every reachable state, for every set of runs
\* and jobs, every limit and every environment.
THEOREM Safety == Spec => []SafetyInv
BY InitSafe, NextSafe, PTL DEF Spec

\* Types; in particular the number of slots in use never exceeds
\* scheduler.max_concurrent_runs and never falls below zero.
THEOREM TypeCorrect == Spec => []TypeOK
<1>1. SafetyInv => TypeOK
  BY DEF SafetyInv
<1>2. QED BY <1>1, Safety, PTL

\* No error path of trigger, launch, execute or drainStep leaks a slot or frees
\* one twice.
THEOREM CapacityAccounted == Spec => []SlotsAccounted
<1>1. SafetyInv => SlotsAccounted
  BY DEF SafetyInv
<1>2. QED BY <1>1, Safety, PTL

\* A run is queued exactly while it has a queue row, whatever statement fails
\* and wherever the daemon crashes.
THEOREM RowsAgree == Spec => []QueuedIffRow
<1>1. SafetyInv => QueuedIffRow
  BY DEF SafetyInv
<1>2. QED BY <1>1, Safety, PTL

\* A started run is never queued, admitted or about to be launched again.
THEOREM StartedOnce == Spec => []NeverReplayed
<1>1. SafetyInv => NeverReplayed
  BY DEF SafetyInv, StartInv, NeverReplayed, CallPhases, TypeOK
<1>2. QED BY <1>1, Safety, PTL
=============================================================================
