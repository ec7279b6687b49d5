------------------------- MODULE ExecQueueTheorems -------------------------
(***************************************************************************)
(* What follows from the safety invariant of ExecQueue: overlap policy,    *)
(* idempotency, scheduled occurrences and shutdown.  It is first shown     *)
(* what a step can do to the rows and to the executions; each property     *)
(* then needs no further case analysis over the actions.                   *)
(***************************************************************************)
EXTENDS ExecQueueProofs

USE DEF durable, registry, drain, service, outside
USE RunsFinite, Sentinels
-----------------------------------------------------------------------------
(***************************************************************************)
(* Rows                                                                    *)
(***************************************************************************)
\* A keyed run never has its row deferred: its key is stored with it.
LateInv == \A r \in late : ~Keyed(r)

\* A row is inserted alone, after the lookup of its key and of its occurrence, and
\* is never deleted.
Inserting ==
    /\ req' = req
    /\ \A r \in Runs :
          /\ status[r] # "none" => status'[r] # "none"
          /\ status[r] = "none" /\ status'[r] # "none" =>
                /\ KeyOwner(r) = {} /\ ~OccTaken(r)
                /\ \A q \in Runs \ {r} : status'[q] = status[q]
    /\ \A r \in late' : r \in late \/ ~Keyed(r)

\* Inserts of trigger, recordSkipped, EnqueueRun and the history writer.
LEMMA Rows == ASSUME SafetyInv, LateInv, [Next]_vars PROVE Inserting
<1>0. /\ status \in [Runs -> Lifecycle!Statuses] /\ late \in SUBSET Runs
      /\ phase \in [Runs -> Phases] /\ queue \in SUBSET Runs
  BY DEF SafetyInv, TypeOK
<1>1. ASSUME NEW r \in Runs, Call(r) PROVE Inserting
  <2>1. CASE Begin(r)
    BY <1>0, <2>1 DEF Begin, Goto, Inserting
  <2>2. CASE Refuse(r)
    BY <1>0, <2>2 DEF Refuse, Answer, Inserting
  <2>3. CASE Admit(r)
    BY <1>0, <2>3 DEF Admit, Goto, Inserting
  <2>4. CASE Abandon(r)
    BY <1>0, <2>4 DEF Abandon, Answer, Inserting
  <2>5. CASE Check(r)
    BY <1>0, <2>5 DEF Check, Return, Answer, Goto, Inserting
  <2>6. CASE Route(r)
    BY <1>0, <2>6 DEF Route, Return, Answer, Goto, Inserting
  <2>7. CASE Replay(r)
    BY <1>0, <2>7 DEF Replay, Return, Answer, GiveBack, ReleaseSlot,
       Inserting
  <2>8. CASE Taken(r)
    BY <1>0, <2>8 DEF Taken, Return, Answer, GiveBack, ReleaseSlot, Inserting
  <2>9. CASE EnqueueRefused(r)
    BY <1>0, <2>9 DEF EnqueueRefused, Return, Answer, Goto, Inserting
  <2>10. CASE EnqueueCommit(r)
    BY <1>0, <2>10 DEF EnqueueCommit, InsertQueued, Goto, Inserting
  <2>11. CASE EnqueueFails(r)
    BY <1>0, <2>11 DEF EnqueueFails, QueueErrors, Return, Answer, Inserting
  <2>12. CASE EnqueueAmbiguous(r)
    BY <1>0, <2>12 DEF EnqueueAmbiguous, InsertQueued, QueueErrors, Return, Answer,
       Inserting
  <2>13. CASE Enqueued(r)
    BY <1>0, <2>13 DEF Enqueued, Return, Answer, Inserting
  <2>14. CASE SkipStored(r)
    BY <1>0, <2>14 DEF SkipStored, Return, Answer, Inserting
  <2>15. CASE SkipFails(r)
    BY <1>0, <2>15 DEF SkipFails, Return, Answer, Inserting
  <2>16. CASE RowStored(r)
    BY <1>0, <2>16 DEF RowStored, Goto, Inserting
  <2>17. CASE RowKeyFails(r)
    <3>1. ~OccTaken(r)
      BY <2>17 DEF RowKeyFails, Keyed, OccTaken
    <3>2. QED BY <1>0, <2>17, <3>1 DEF RowKeyFails, Inserting
  <2>18. CASE RowDeferred(r)
    <3>1. KeyOwner(r) = {}
      BY <2>18 DEF RowDeferred, KeyOwner
    <3>2. QED BY <1>0, <2>18, <3>1 DEF RowDeferred, Inserting
  <2>19. CASE Launch(r)
    BY <1>0, <2>19 DEF Launch, Inserting
  <2>20. CASE LaunchRefused(r)
    BY <1>0, <2>20 DEF LaunchRefused, RefusedStatus, Return, Answer, ReleaseSlot,
       Inserting
  <2>21. CASE GiveUp(r)
    BY <1>0, <2>21 DEF GiveUp, Return, Answer, GiveBack, ReleaseSlot, Inserting
  <2>22. QED BY <1>1, <2>1, <2>2, <2>3, <2>4, <2>5, <2>6, <2>7, <2>8, <2>9, <2>10,
     <2>11, <2>12, <2>13, <2>14, <2>15, <2>16, <2>17, <2>18, <2>19, <2>20, <2>21 DEF
     Call
<1>2. ASSUME NEW r \in Runs, Execution(r) PROVE Inserting
  <2>1. CASE Finish(r)
    BY <1>0, <2>1 DEF Finish, Goto, Inserting
  <2>2. CASE Unregister(r)
    BY <1>0, <2>2 DEF Unregister, Goto, Inserting
  <2>3. CASE Release(r)
    BY <1>0, <2>3 DEF Release, Goto, ReleaseSlot, Inserting
  <2>4. CASE StoreRow(r)
    <3>1. KeyOwner(r) = {}
      BY <2>4 DEF StoreRow, LateInv, KeyOwner
    <3>2. QED BY <1>0, <2>4, <3>1 DEF StoreRow, Written, Inserting
  <2>5. CASE StoreRunning(r)
    BY <1>0, <2>5 DEF StoreRunning, Written, Inserting
  <2>6. CASE StoreTerminal(r)
    BY <1>0, <2>6 DEF StoreTerminal, Written, Inserting
  <2>7. QED BY <1>2, <2>1, <2>2, <2>3, <2>4, <2>5, <2>6 DEF Execution
<1>3. ASSUME DrainStep PROVE Inserting
  <2>1. CASE DrainWake
    BY <1>0, <2>1 DEF DrainWake, Inserting
  <2>2. CASE DrainExit
    BY <1>0, <2>2 DEF DrainExit, Inserting
  <2>3. CASE DrainSleep
    BY <1>0, <2>3 DEF DrainSleep, Inserting
  <2>4. CASE DrainExpire
    BY <1>0, <2>4 DEF DrainExpire, EndQueued, Overdue, Inserting
  <2>5. CASE DrainExpireFails
    BY <1>0, <2>5 DEF DrainExpireFails, EndQueued, Overdue, Inserting
  <2>6. CASE DrainReserve
    BY <1>0, <2>6 DEF DrainReserve, Inserting
  <2>7. CASE DrainAdmit
    BY <1>0, <2>7 DEF DrainAdmit, Inserting
  <2>8. CASE DrainFails
    BY <1>0, <2>8 DEF DrainFails, StepBack, Inserting
  <2>9. CASE DrainResync
    BY <1>0, <2>9 DEF DrainResync, StepBack, Inserting
  <2>10. CASE DrainPick
    BY <1>0, <2>10 DEF DrainPick, NextItem, Turn, Inserting
  <2>11. CASE DrainDrop
    BY <1>0, <2>11 DEF DrainDrop, EndQueued, StepBack, Inserting
  <2>12. CASE DrainValidate
    BY <1>0, <2>12 DEF DrainValidate, Inserting
  <2>13. CASE DrainDequeue
    BY <1>0, <2>13 DEF DrainDequeue, EndQueued, StepBack, Inserting
  <2>14. CASE DrainLaunch
    BY <1>0, <2>14 DEF DrainLaunch, RefusedStatus, ReleaseSlot, Inserting
  <2>15. QED BY <1>3, <2>1, <2>2, <2>3, <2>4, <2>5, <2>6, <2>7, <2>8, <2>9, <2>10,
     <2>11, <2>12, <2>13, <2>14 DEF DrainStep
<1>4. ASSUME NEW j \in Jobs, Registry(j) PROVE Inserting
  <2>1. CASE SetEnabled(j)
    BY <1>0, <2>1 DEF SetEnabled, Edit, EndQueued, Inserting
  <2>2. CASE DeleteDefinition(j)
    BY <1>0, <2>2 DEF DeleteDefinition, Edit, EndQueued, Inserting
  <2>3. CASE PutDefinition(j)
    BY <1>0, <2>3 DEF PutDefinition, Edit, Inserting
  <2>4. CASE SyncRemoves(j)
    BY <1>0, <2>4 DEF SyncRemoves, Edit, Inserting
  <2>5. QED BY <1>4, <2>1, <2>2, <2>3, <2>4 DEF Registry
<1>5. ASSUME Lifetime PROVE Inserting
  <2>1. CASE ResumeQueue
    BY <1>0, <2>1 DEF ResumeQueue, Inserting
  <2>2. CASE Restart
    BY <1>0, <2>2 DEF Restart, Inserting
  <2>3. CASE BeginShutdown
    BY <1>0, <2>3 DEF BeginShutdown, Inserting
  <2>4. CASE ShutdownSnapshot
    BY <1>0, <2>4 DEF ShutdownSnapshot, Inserting
  <2>5. CASE ShutdownDone
    BY <1>0, <2>5 DEF ShutdownDone, Inserting
  <2>6. QED BY <1>5, <2>1, <2>2, <2>3, <2>4, <2>5 DEF Lifetime
<1>6. ASSUME NEW r \in Runs, Age(r) PROVE Inserting
  BY <1>0, <1>6 DEF Age, Inserting
<1>7. ASSUME NEW r \in Runs, CancelQueued(r) PROVE Inserting
  BY <1>0, <1>7 DEF CancelQueued, EndQueued, Inserting
<1>8. CASE Pace
  BY <1>0, <1>8 DEF Pace, Inserting
<1>9. CASE UNCHANGED vars
  BY <1>0, <1>9 DEF vars, Inserting
<1>10. QED BY <1>1, <1>2, <1>3, <1>4, <1>5, <1>6, <1>7, <1>8, <1>9 DEF Next

-----------------------------------------------------------------------------
(***************************************************************************)
(* Starts and stops                                                        *)
(***************************************************************************)
\* A row that has to exist before its run may start: it carries the key, or the
\* job opted out of running without one.
NeedsRow(r) == Keyed(r) \/ JobOf(r) \in HistSkipJobs

\* A run is registered by its call or by the drain loop, alone, giving admission
\* back and not after shutdown began; how one gets there.
Starting ==
    /\ \A r \in Runs : phase'[r] \in ActivePhases /\ phase[r] \notin ActivePhases =>
          /\ phase[r] = "launch" \/ (loop = "dequeued" /\ item = r)
          /\ ~Closing /\ adm' = NoRun
          /\ \A q \in Runs \ {r} : phase'[q] = phase[q]
    /\ \A r \in Runs : phase'[r] = "launch" =>
          phase[r] = "launch" \/ (phase[r] = "slot" /\ (NeedsRow(r) => status'[r] # "none"))
    /\ \A r \in Runs : phase'[r] = "slot" => phase[r] \in {"slot", "route"}
    /\ \A r \in Runs : phase'[r] = "route" => phase[r] = "route" \/ ~Overlaps(r)
    /\ \A r \in Runs : r \in spawned' =>
          r \in spawned \/ phase[r] = "launch" \/ (loop = "dequeued" /\ item = r)

\* The drain loop validates the item it picked and dequeues the item it validated.
Draining ==
    /\ loop' \in {"valid", "dequeued"} =>
          item' = item /\ (loop \in {"valid", "dequeued"} \/ ~Overlaps(item))
    /\ loop' = "dequeued" => loop = "dequeued" \/ status'[item] # "none"

\* Registrations come from launch.
LEMMA Starts == ASSUME SafetyInv, [Next]_vars PROVE Starting
<1>0. phase \in [Runs -> Phases] /\ spawned \in SUBSET Runs /\ item \in Runs \cup {NoRun}
  BY DEF SafetyInv, TypeOK
<1>00. status \in [Runs -> Lifecycle!Statuses]
  BY DEF SafetyInv, TypeOK
<1>1. ASSUME NEW r \in Runs, Call(r) PROVE Starting
  <2>1. CASE Begin(r)
    BY <1>0, <2>1 DEF Begin, Goto, Starting, ActivePhases
  <2>2. CASE Refuse(r)
    BY <1>0, <2>2 DEF Refuse, Answer, Starting, ActivePhases
  <2>3. CASE Admit(r)
    BY <1>0, <2>3 DEF Admit, Goto, Starting, ActivePhases
  <2>4. CASE Abandon(r)
    BY <1>0, <2>4 DEF Abandon, Answer, Starting, ActivePhases
  <2>5. CASE Check(r)
    BY <1>0, <2>5 DEF Check, Return, Answer, Goto, Starting, ActivePhases
  <2>6. CASE Route(r)
    BY <1>0, <2>6 DEF Route, Return, Answer, Goto, Starting, ActivePhases
  <2>7. CASE Replay(r)
    BY <1>0, <2>7 DEF Replay, Return, Answer, GiveBack, ReleaseSlot,
       Starting, ActivePhases
  <2>8. CASE Taken(r)
    BY <1>0, <2>8 DEF Taken, Return, Answer, GiveBack, ReleaseSlot, Starting,
       ActivePhases
  <2>9. CASE EnqueueRefused(r)
    BY <1>0, <2>9 DEF EnqueueRefused, Return, Answer, Goto, Starting, ActivePhases
  <2>10. CASE EnqueueCommit(r)
    BY <1>0, <2>10 DEF EnqueueCommit, InsertQueued, Goto, Starting, ActivePhases
  <2>11. CASE EnqueueFails(r)
    BY <1>0, <2>11 DEF EnqueueFails, QueueErrors, Return, Answer, Starting,
       ActivePhases
  <2>12. CASE EnqueueAmbiguous(r)
    BY <1>0, <2>12 DEF EnqueueAmbiguous, InsertQueued, QueueErrors, Return, Answer,
       Starting, ActivePhases
  <2>13. CASE Enqueued(r)
    BY <1>0, <2>13 DEF Enqueued, Return, Answer, Starting, ActivePhases
  <2>14. CASE SkipStored(r)
    BY <1>0, <2>14 DEF SkipStored, Return, Answer, Starting, ActivePhases
  <2>15. CASE SkipFails(r)
    BY <1>0, <2>15 DEF SkipFails, Return, Answer, Starting, ActivePhases
  <2>16. CASE RowStored(r)
    BY <1>0, <2>16, <1>00 DEF RowStored, Goto, Starting, ActivePhases
  <2>17. CASE RowKeyFails(r)
    BY <1>0, <2>17 DEF RowKeyFails, Return, Answer, ReleaseSlot, Starting,
       ActivePhases
  <2>18. CASE RowDeferred(r)
    BY <1>0, <2>18, <1>00 DEF RowDeferred, Goto, ReleaseSlot, Starting, ActivePhases,
       NeedsRow
  <2>19. CASE Launch(r)
    BY <1>0, <2>19 DEF Launch, Starting, ActivePhases
  <2>20. CASE LaunchRefused(r)
    BY <1>0, <2>20 DEF LaunchRefused, RefusedStatus, Return, Answer, ReleaseSlot,
       Starting, ActivePhases
  <2>21. CASE GiveUp(r)
    BY <1>0, <2>21 DEF GiveUp, Return, Answer, GiveBack, ReleaseSlot, Starting,
       ActivePhases
  <2>22. QED BY <1>1, <2>1, <2>2, <2>3, <2>4, <2>5, <2>6, <2>7, <2>8, <2>9, <2>10,
     <2>11, <2>12, <2>13, <2>14, <2>15, <2>16, <2>17, <2>18, <2>19, <2>20, <2>21 DEF
     Call
<1>2. ASSUME NEW r \in Runs, Execution(r) PROVE Starting
  <2>1. CASE Finish(r)
    BY <1>0, <2>1 DEF Finish, Goto, Starting, ActivePhases
  <2>2. CASE Unregister(r)
    BY <1>0, <2>2 DEF Unregister, Goto, Starting, ActivePhases
  <2>3. CASE Release(r)
    BY <1>0, <2>3 DEF Release, Goto, ReleaseSlot, Starting, ActivePhases
  <2>4. CASE StoreRow(r)
    BY <1>0, <2>4 DEF StoreRow, Written, Starting, ActivePhases
  <2>5. CASE StoreRunning(r)
    BY <1>0, <2>5 DEF StoreRunning, Written, Starting, ActivePhases
  <2>6. CASE StoreTerminal(r)
    BY <1>0, <2>6 DEF StoreTerminal, Written, Starting, ActivePhases
  <2>7. QED BY <1>2, <2>1, <2>2, <2>3, <2>4, <2>5, <2>6 DEF Execution
<1>3. ASSUME DrainStep PROVE Starting
  <2>1. CASE DrainWake
    BY <1>0, <2>1 DEF DrainWake, Starting, ActivePhases
  <2>2. CASE DrainExit
    BY <1>0, <2>2 DEF DrainExit, Starting, ActivePhases
  <2>3. CASE DrainSleep
    BY <1>0, <2>3 DEF DrainSleep, Starting, ActivePhases
  <2>4. CASE DrainExpire
    BY <1>0, <2>4 DEF DrainExpire, EndQueued, Overdue, Starting, ActivePhases
  <2>5. CASE DrainExpireFails
    BY <1>0, <2>5 DEF DrainExpireFails, EndQueued, Overdue, Starting, ActivePhases
  <2>6. CASE DrainReserve
    BY <1>0, <2>6 DEF DrainReserve, Starting, ActivePhases
  <2>7. CASE DrainAdmit
    BY <1>0, <2>7 DEF DrainAdmit, Starting, ActivePhases
  <2>8. CASE DrainFails
    BY <1>0, <2>8 DEF DrainFails, StepBack, Starting, ActivePhases
  <2>9. CASE DrainResync
    BY <1>0, <2>9 DEF DrainResync, StepBack, Starting, ActivePhases
  <2>10. CASE DrainPick
    BY <1>0, <2>10 DEF DrainPick, NextItem, Turn, Starting, ActivePhases
  <2>11. CASE DrainDrop
    BY <1>0, <2>11 DEF DrainDrop, EndQueued, StepBack, Starting, ActivePhases
  <2>12. CASE DrainValidate
    BY <1>0, <2>12 DEF DrainValidate, Starting, ActivePhases
  <2>13. CASE DrainDequeue
    BY <1>0, <2>13 DEF DrainDequeue, EndQueued, StepBack, Starting, ActivePhases
  <2>14. CASE DrainLaunch
    BY <1>0, <2>14 DEF DrainLaunch, RefusedStatus, ReleaseSlot, Starting, ActivePhases
  <2>15. QED BY <1>3, <2>1, <2>2, <2>3, <2>4, <2>5, <2>6, <2>7, <2>8, <2>9, <2>10,
     <2>11, <2>12, <2>13, <2>14 DEF DrainStep
<1>4. ASSUME NEW j \in Jobs, Registry(j) PROVE Starting
  <2>1. CASE SetEnabled(j)
    BY <1>0, <2>1 DEF SetEnabled, Edit, EndQueued, Starting, ActivePhases
  <2>2. CASE DeleteDefinition(j)
    BY <1>0, <2>2 DEF DeleteDefinition, Edit, EndQueued, Starting, ActivePhases
  <2>3. CASE PutDefinition(j)
    BY <1>0, <2>3 DEF PutDefinition, Edit, Starting, ActivePhases
  <2>4. CASE SyncRemoves(j)
    BY <1>0, <2>4 DEF SyncRemoves, Edit, Starting, ActivePhases
  <2>5. QED BY <1>4, <2>1, <2>2, <2>3, <2>4 DEF Registry
<1>5. ASSUME Lifetime PROVE Starting
  <2>1. CASE ResumeQueue
    BY <1>0, <2>1 DEF ResumeQueue, Starting, ActivePhases
  <2>2. CASE Restart
    BY <1>0, <2>2 DEF Restart, Starting, ActivePhases
  <2>3. CASE BeginShutdown
    BY <1>0, <2>3 DEF BeginShutdown, Starting, ActivePhases
  <2>4. CASE ShutdownSnapshot
    BY <1>0, <2>4 DEF ShutdownSnapshot, Starting, ActivePhases
  <2>5. CASE ShutdownDone
    BY <1>0, <2>5 DEF ShutdownDone, Starting, ActivePhases
  <2>6. QED BY <1>5, <2>1, <2>2, <2>3, <2>4, <2>5 DEF Lifetime
<1>6. ASSUME NEW r \in Runs, Age(r) PROVE Starting
  BY <1>0, <1>6 DEF Age, Starting, ActivePhases
<1>7. ASSUME NEW r \in Runs, CancelQueued(r) PROVE Starting
  BY <1>0, <1>7 DEF CancelQueued, EndQueued, Starting, ActivePhases
<1>8. CASE Pace
  BY <1>0, <1>8 DEF Pace, Starting, ActivePhases
<1>9. CASE UNCHANGED vars
  BY <1>0, <1>9 DEF vars, Starting, ActivePhases
<1>10. QED BY <1>1, <1>2, <1>3, <1>4, <1>5, <1>6, <1>7, <1>8, <1>9 DEF Next

\* Items come from nextItem and pass the checks of startQueued.
LEMMA Drains == ASSUME SafetyInv, [Next]_vars PROVE Draining
<1>0. /\ status \in [Runs -> Lifecycle!Statuses] /\ item \in Runs \cup {NoRun}
      /\ loop \in DrainItem => item \in Runs
  BY DEF SafetyInv, TypeOK, AdmissionInv
<1>1. ASSUME NEW r \in Runs, Call(r) PROVE Draining
  <2>1. CASE Begin(r)
    BY <1>0, <2>1 DEF Begin, Goto, Draining
  <2>2. CASE Refuse(r)
    BY <1>0, <2>2 DEF Refuse, Answer, Draining
  <2>3. CASE Admit(r)
    BY <1>0, <2>3 DEF Admit, Goto, Draining
  <2>4. CASE Abandon(r)
    BY <1>0, <2>4 DEF Abandon, Answer, Draining
  <2>5. CASE Check(r)
    BY <1>0, <2>5 DEF Check, Return, Answer, Goto, Draining
  <2>6. CASE Route(r)
    BY <1>0, <2>6 DEF Route, Return, Answer, Goto, Draining
  <2>7. CASE Replay(r)
    BY <1>0, <2>7 DEF Replay, Return, Answer, GiveBack, ReleaseSlot,
       Draining
  <2>8. CASE Taken(r)
    BY <1>0, <2>8 DEF Taken, Return, Answer, GiveBack, ReleaseSlot, Draining
  <2>9. CASE EnqueueRefused(r)
    BY <1>0, <2>9 DEF EnqueueRefused, Return, Answer, Goto, Draining
  <2>10. CASE EnqueueCommit(r)
    BY <1>0, <2>10 DEF EnqueueCommit, InsertQueued, Goto, Draining
  <2>11. CASE EnqueueFails(r)
    BY <1>0, <2>11 DEF EnqueueFails, QueueErrors, Return, Answer, Draining
  <2>12. CASE EnqueueAmbiguous(r)
    BY <1>0, <2>12 DEF EnqueueAmbiguous, InsertQueued, QueueErrors, Return, Answer,
       Draining
  <2>13. CASE Enqueued(r)
    BY <1>0, <2>13 DEF Enqueued, Return, Answer, Draining
  <2>14. CASE SkipStored(r)
    BY <1>0, <2>14 DEF SkipStored, Return, Answer, Draining
  <2>15. CASE SkipFails(r)
    BY <1>0, <2>15 DEF SkipFails, Return, Answer, Draining
  <2>16. CASE RowStored(r)
    BY <1>0, <2>16 DEF RowStored, Goto, Draining
  <2>17. CASE RowKeyFails(r)
    BY <1>0, <2>17 DEF RowKeyFails, Return, Answer, ReleaseSlot, Draining
  <2>18. CASE RowDeferred(r)
    BY <1>0, <2>18 DEF RowDeferred, Goto, ReleaseSlot, Draining
  <2>19. CASE Launch(r)
    BY <1>0, <2>19 DEF Launch, Draining
  <2>20. CASE LaunchRefused(r)
    BY <1>0, <2>20 DEF LaunchRefused, RefusedStatus, Return, Answer, ReleaseSlot,
       Draining
  <2>21. CASE GiveUp(r)
    BY <1>0, <2>21 DEF GiveUp, Return, Answer, GiveBack, ReleaseSlot, Draining
  <2>22. QED BY <1>1, <2>1, <2>2, <2>3, <2>4, <2>5, <2>6, <2>7, <2>8, <2>9, <2>10,
     <2>11, <2>12, <2>13, <2>14, <2>15, <2>16, <2>17, <2>18, <2>19, <2>20, <2>21 DEF
     Call
<1>2. ASSUME NEW r \in Runs, Execution(r) PROVE Draining
  <2>1. CASE Finish(r)
    BY <1>0, <2>1 DEF Finish, Goto, Draining
  <2>2. CASE Unregister(r)
    BY <1>0, <2>2 DEF Unregister, Goto, Draining
  <2>3. CASE Release(r)
    BY <1>0, <2>3 DEF Release, Goto, ReleaseSlot, Draining
  <2>4. CASE StoreRow(r)
    BY <1>0, <2>4 DEF StoreRow, Written, Draining
  <2>5. CASE StoreRunning(r)
    BY <1>0, <2>5 DEF StoreRunning, Written, Draining
  <2>6. CASE StoreTerminal(r)
    BY <1>0, <2>6 DEF StoreTerminal, Written, Draining
  <2>7. QED BY <1>2, <2>1, <2>2, <2>3, <2>4, <2>5, <2>6 DEF Execution
<1>3. ASSUME DrainStep PROVE Draining
  <2>1. CASE DrainWake
    BY <1>0, <2>1 DEF DrainWake, Draining
  <2>2. CASE DrainExit
    BY <1>0, <2>2 DEF DrainExit, Draining
  <2>3. CASE DrainSleep
    BY <1>0, <2>3 DEF DrainSleep, Draining
  <2>4. CASE DrainExpire
    BY <1>0, <2>4 DEF DrainExpire, EndQueued, Overdue, Draining
  <2>5. CASE DrainExpireFails
    BY <1>0, <2>5 DEF DrainExpireFails, EndQueued, Overdue, Draining
  <2>6. CASE DrainReserve
    BY <1>0, <2>6 DEF DrainReserve, Draining
  <2>7. CASE DrainAdmit
    BY <1>0, <2>7 DEF DrainAdmit, Draining
  <2>8. CASE DrainFails
    BY <1>0, <2>8 DEF DrainFails, StepBack, Draining
  <2>9. CASE DrainResync
    BY <1>0, <2>9 DEF DrainResync, StepBack, Draining
  <2>10. CASE DrainPick
    BY <1>0, <2>10 DEF DrainPick, NextItem, Turn, Draining
  <2>11. CASE DrainDrop
    BY <1>0, <2>11 DEF DrainDrop, EndQueued, StepBack, Draining
  <2>12. CASE DrainValidate
    BY <1>0, <2>12 DEF DrainValidate, Draining, Stale
  <2>13. CASE DrainDequeue
    BY <1>0, <2>13 DEF DrainDequeue, EndQueued, StepBack, Draining, DrainItem
  <2>14. CASE DrainLaunch
    BY <1>0, <2>14 DEF DrainLaunch, RefusedStatus, ReleaseSlot, Draining
  <2>15. QED BY <1>3, <2>1, <2>2, <2>3, <2>4, <2>5, <2>6, <2>7, <2>8, <2>9, <2>10,
     <2>11, <2>12, <2>13, <2>14 DEF DrainStep
<1>4. ASSUME NEW j \in Jobs, Registry(j) PROVE Draining
  <2>1. CASE SetEnabled(j)
    BY <1>0, <2>1 DEF SetEnabled, Edit, EndQueued, Draining
  <2>2. CASE DeleteDefinition(j)
    BY <1>0, <2>2 DEF DeleteDefinition, Edit, EndQueued, Draining
  <2>3. CASE PutDefinition(j)
    BY <1>0, <2>3 DEF PutDefinition, Edit, Draining
  <2>4. CASE SyncRemoves(j)
    BY <1>0, <2>4 DEF SyncRemoves, Edit, Draining
  <2>5. QED BY <1>4, <2>1, <2>2, <2>3, <2>4 DEF Registry
<1>5. ASSUME Lifetime PROVE Draining
  <2>1. CASE ResumeQueue
    BY <1>0, <2>1 DEF ResumeQueue, Draining, SafetyInv, BootInv
  <2>2. CASE Restart
    BY <1>0, <2>2 DEF Restart, Draining
  <2>3. CASE BeginShutdown
    BY <1>0, <2>3 DEF BeginShutdown, Draining
  <2>4. CASE ShutdownSnapshot
    BY <1>0, <2>4 DEF ShutdownSnapshot, Draining
  <2>5. CASE ShutdownDone
    BY <1>0, <2>5 DEF ShutdownDone, Draining
  <2>6. QED BY <1>5, <2>1, <2>2, <2>3, <2>4, <2>5 DEF Lifetime
<1>6. ASSUME NEW r \in Runs, Age(r) PROVE Draining
  BY <1>0, <1>6 DEF Age, Draining
<1>7. ASSUME NEW r \in Runs, CancelQueued(r) PROVE Draining
  BY <1>0, <1>7 DEF CancelQueued, EndQueued, Draining
<1>8. CASE Pace
  BY <1>0, <1>8 DEF Pace, Draining
<1>9. CASE UNCHANGED vars
  BY <1>0, <1>9 DEF vars, Draining
<1>10. QED BY <1>1, <1>2, <1>3, <1>4, <1>5, <1>6, <1>7, <1>8, <1>9 DEF Next

\* Shutdown takes its snapshot at one instant, and an exited daemon does nothing.
Stopping ==
    /\ stage' = "joining" => \/ stage = "joining" /\ joins' = joins
                             \/ \A r \in Runs : phase'[r] \in ActivePhases => r \in joins'
    /\ stage' = "exited" =>
          \/ /\ stage = "exited"
             /\ \A r \in Runs : phase'[r] \in CallPhases => phase[r] \in CallPhases
             /\ loop' # "off" => loop # "off"
          \/ /\ stage = "joining" /\ phase' = phase /\ loop' = "off"
             /\ \A r \in joins : phase[r] \notin ActivePhases
             /\ \A r \in Runs : phase[r] \notin CallPhases

\* Shutdown, seen by every step.
LEMMA Stops == ASSUME SafetyInv, [Next]_vars PROVE Stopping
<1>0. phase \in [Runs -> Phases] /\ joins \in SUBSET Runs
  BY DEF SafetyInv, TypeOK
<1>1. ASSUME NEW r \in Runs, Call(r) PROVE Stopping
  <2>1. CASE Begin(r)
    BY <1>0, <2>1 DEF Begin, Goto, Stopping, CallPhases
  <2>2. CASE Refuse(r)
    BY <1>0, <2>2 DEF Refuse, Answer, Stopping, CallPhases
  <2>3. CASE Admit(r)
    BY <1>0, <2>3 DEF Admit, Goto, Stopping, CallPhases
  <2>4. CASE Abandon(r)
    BY <1>0, <2>4 DEF Abandon, Answer, Stopping, CallPhases
  <2>5. CASE Check(r)
    BY <1>0, <2>5 DEF Check, Return, Answer, Goto, Stopping, CallPhases
  <2>6. CASE Route(r)
    BY <1>0, <2>6 DEF Route, Return, Answer, Goto, Stopping, CallPhases
  <2>7. CASE Replay(r)
    BY <1>0, <2>7 DEF Replay, Return, Answer, GiveBack, ReleaseSlot,
       Stopping, CallPhases
  <2>8. CASE Taken(r)
    BY <1>0, <2>8 DEF Taken, Return, Answer, GiveBack, ReleaseSlot, Stopping,
       CallPhases
  <2>9. CASE EnqueueRefused(r)
    BY <1>0, <2>9 DEF EnqueueRefused, Return, Answer, Goto, Stopping, CallPhases
  <2>10. CASE EnqueueCommit(r)
    BY <1>0, <2>10 DEF EnqueueCommit, InsertQueued, Goto, Stopping, CallPhases
  <2>11. CASE EnqueueFails(r)
    BY <1>0, <2>11 DEF EnqueueFails, QueueErrors, Return, Answer, Stopping, CallPhases
  <2>12. CASE EnqueueAmbiguous(r)
    BY <1>0, <2>12 DEF EnqueueAmbiguous, InsertQueued, QueueErrors, Return, Answer,
       Stopping, CallPhases
  <2>13. CASE Enqueued(r)
    BY <1>0, <2>13 DEF Enqueued, Return, Answer, Stopping, CallPhases, Closing
  <2>14. CASE SkipStored(r)
    BY <1>0, <2>14 DEF SkipStored, Return, Answer, Stopping, CallPhases
  <2>15. CASE SkipFails(r)
    BY <1>0, <2>15 DEF SkipFails, Return, Answer, Stopping, CallPhases
  <2>16. CASE RowStored(r)
    BY <1>0, <2>16 DEF RowStored, Goto, Stopping, CallPhases
  <2>17. CASE RowKeyFails(r)
    BY <1>0, <2>17 DEF RowKeyFails, Return, Answer, ReleaseSlot, Stopping, CallPhases
  <2>18. CASE RowDeferred(r)
    BY <1>0, <2>18 DEF RowDeferred, Goto, ReleaseSlot, Stopping, CallPhases
  <2>19. CASE Launch(r)
    BY <1>0, <2>19 DEF Launch, Stopping, CallPhases, Closing
  <2>20. CASE LaunchRefused(r)
    BY <1>0, <2>20 DEF LaunchRefused, RefusedStatus, Return, Answer, ReleaseSlot,
       Stopping, CallPhases
  <2>21. CASE GiveUp(r)
    BY <1>0, <2>21 DEF GiveUp, Return, Answer, GiveBack, ReleaseSlot, Stopping,
       CallPhases
  <2>22. QED BY <1>1, <2>1, <2>2, <2>3, <2>4, <2>5, <2>6, <2>7, <2>8, <2>9, <2>10,
     <2>11, <2>12, <2>13, <2>14, <2>15, <2>16, <2>17, <2>18, <2>19, <2>20, <2>21 DEF
     Call
<1>2. ASSUME NEW r \in Runs, Execution(r) PROVE Stopping
  <2>1. CASE Finish(r)
    BY <1>0, <2>1 DEF Finish, Goto, Stopping, CallPhases
  <2>2. CASE Unregister(r)
    BY <1>0, <2>2 DEF Unregister, Goto, Stopping, CallPhases
  <2>3. CASE Release(r)
    BY <1>0, <2>3 DEF Release, Goto, ReleaseSlot, Stopping, CallPhases
  <2>4. CASE StoreRow(r)
    BY <1>0, <2>4 DEF StoreRow, Written, Stopping, CallPhases
  <2>5. CASE StoreRunning(r)
    BY <1>0, <2>5 DEF StoreRunning, Written, Stopping, CallPhases
  <2>6. CASE StoreTerminal(r)
    BY <1>0, <2>6 DEF StoreTerminal, Written, Stopping, CallPhases
  <2>7. QED BY <1>2, <2>1, <2>2, <2>3, <2>4, <2>5, <2>6 DEF Execution
<1>3. ASSUME DrainStep PROVE Stopping
  <2>1. CASE DrainWake
    BY <1>0, <2>1 DEF DrainWake, Stopping, CallPhases, Asleep, Closing
  <2>2. CASE DrainExit
    BY <1>0, <2>2 DEF DrainExit, Stopping, CallPhases
  <2>3. CASE DrainSleep
    BY <1>0, <2>3 DEF DrainSleep, Stopping, CallPhases
  <2>4. CASE DrainExpire
    BY <1>0, <2>4 DEF DrainExpire, EndQueued, Overdue, Stopping, CallPhases
  <2>5. CASE DrainExpireFails
    BY <1>0, <2>5 DEF DrainExpireFails, EndQueued, Overdue, Stopping, CallPhases
  <2>6. CASE DrainReserve
    BY <1>0, <2>6 DEF DrainReserve, Stopping, CallPhases
  <2>7. CASE DrainAdmit
    BY <1>0, <2>7 DEF DrainAdmit, Stopping, CallPhases
  <2>8. CASE DrainFails
    BY <1>0, <2>8 DEF DrainFails, StepBack, Stopping, CallPhases
  <2>9. CASE DrainResync
    BY <1>0, <2>9 DEF DrainResync, StepBack, Stopping, CallPhases
  <2>10. CASE DrainPick
    BY <1>0, <2>10 DEF DrainPick, NextItem, Turn, Stopping, CallPhases
  <2>11. CASE DrainDrop
    BY <1>0, <2>11 DEF DrainDrop, EndQueued, StepBack, Stopping, CallPhases
  <2>12. CASE DrainValidate
    BY <1>0, <2>12 DEF DrainValidate, Stopping, CallPhases
  <2>13. CASE DrainDequeue
    BY <1>0, <2>13 DEF DrainDequeue, EndQueued, StepBack, Stopping, CallPhases
  <2>14. CASE DrainLaunch
    BY <1>0, <2>14 DEF DrainLaunch, RefusedStatus, ReleaseSlot, Stopping, CallPhases,
       Closing
  <2>15. QED BY <1>3, <2>1, <2>2, <2>3, <2>4, <2>5, <2>6, <2>7, <2>8, <2>9, <2>10,
     <2>11, <2>12, <2>13, <2>14 DEF DrainStep
<1>4. ASSUME NEW j \in Jobs, Registry(j) PROVE Stopping
  <2>1. CASE SetEnabled(j)
    BY <1>0, <2>1 DEF SetEnabled, Edit, EndQueued, Stopping, CallPhases
  <2>2. CASE DeleteDefinition(j)
    BY <1>0, <2>2 DEF DeleteDefinition, Edit, EndQueued, Stopping, CallPhases
  <2>3. CASE PutDefinition(j)
    BY <1>0, <2>3 DEF PutDefinition, Edit, Stopping, CallPhases
  <2>4. CASE SyncRemoves(j)
    BY <1>0, <2>4 DEF SyncRemoves, Edit, Stopping, CallPhases
  <2>5. QED BY <1>4, <2>1, <2>2, <2>3, <2>4 DEF Registry
<1>5. ASSUME Lifetime PROVE Stopping
  <2>1. CASE ResumeQueue
    BY <1>0, <2>1 DEF ResumeQueue, Stopping, CallPhases
  <2>2. CASE Restart
    BY <1>0, <2>2 DEF Restart, Stopping, CallPhases
  <2>3. CASE BeginShutdown
    BY <1>0, <2>3 DEF BeginShutdown, Stopping, CallPhases
  <2>4. CASE ShutdownSnapshot
    BY <1>0, <2>4 DEF ShutdownSnapshot, Stopping, CallPhases, ActivePhases
  <2>5. CASE ShutdownDone
    BY <1>0, <2>5 DEF ShutdownDone, Stopping, CallPhases
  <2>6. QED BY <1>5, <2>1, <2>2, <2>3, <2>4, <2>5 DEF Lifetime
<1>6. ASSUME NEW r \in Runs, Age(r) PROVE Stopping
  BY <1>0, <1>6 DEF Age, Stopping, CallPhases
<1>7. ASSUME NEW r \in Runs, CancelQueued(r) PROVE Stopping
  BY <1>0, <1>7 DEF CancelQueued, EndQueued, Stopping, CallPhases
<1>8. CASE Pace
  BY <1>0, <1>8 DEF Pace, Stopping, CallPhases
<1>9. CASE UNCHANGED vars
  BY <1>0, <1>9 DEF vars, Stopping, CallPhases
<1>10. QED BY <1>1, <1>2, <1>3, <1>4, <1>5, <1>6, <1>7, <1>8, <1>9 DEF Next

-----------------------------------------------------------------------------
(***************************************************************************)
(* The invariants                                                          *)
(***************************************************************************)
NoneActive(j) == \A q \in Runs : phase[q] \in ActivePhases => JobOf(q) # j

\* Whoever decided to start a run of an overlap-skip job still finds it idle.
OverlapInv ==
    /\ \A r \in Runs : phase[r] \in {"route", "slot", "launch"} /\ JobOf(r) \in SkipJobs =>
          NoneActive(JobOf(r))
    /\ loop \in {"valid", "dequeued"} /\ JobOf(item) \in SkipJobs => NoneActive(JobOf(item))
    /\ \A q, r \in Runs : (/\ phase[q] \in ActivePhases /\ phase[r] \in ActivePhases
                           /\ JobOf(q) = JobOf(r) /\ JobOf(r) \in SkipJobs) => q = r

\* Rows are unique per key and per scheduled occurrence.
UniqueInv ==
    \A q, r \in Runs : status[q] # "none" /\ status[r] # "none" =>
        /\ Keyed(q) /\ Keyed(r) /\ req[q].tag = req[r].tag => q = r
        /\ req[r].trigger = "schedule" /\ req[q] = req[r] => q = r

\* A run that needs its row has it when it starts.
RecordedInv ==
    /\ \A r \in Runs : (r \in spawned \/ phase[r] = "launch") /\ NeedsRow(r) => status[r] # "none"
    /\ loop = "dequeued" => status[item] # "none"

\* While shutdown waits, whoever is registered is waited for.
JoinInv == /\ stage = "joining" => \A r \in Runs : phase[r] \in ActivePhases => r \in joins
           /\ JoinedBeforeExit

PolicyInv == SafetyInv /\ LateInv /\ OverlapInv /\ UniqueInv /\ RecordedInv /\ JoinInv

\* The overlap decision survives until registration: only a holder of admission
\* registers a run.
LEMMA OverlapStep == ASSUME SafetyInv, SafetyInv', LateInv, OverlapInv, [Next]_vars
                     PROVE  OverlapInv'
<1>1. Starting /\ Draining /\ req' = req
  BY Starts, Drains, Rows DEF Inserting
<1>2. \A r \in Runs : JobOf(r)' = JobOf(r)
  BY <1>1 DEF JobOf
<1>3. CASE \E r \in Runs : phase'[r] \in ActivePhases /\ phase[r] \notin ActivePhases
  <2>1. PICK r \in Runs : phase'[r] \in ActivePhases /\ phase[r] \notin ActivePhases
    BY <1>3
  <2>2. /\ phase[r] = "launch" \/ (loop = "dequeued" /\ item = r)
        /\ adm' = NoRun
        /\ \A q \in Runs \ {r} : phase'[q] = phase[q]
    BY <1>1, <2>1 DEF Starting
  <2>3. /\ \A q \in Runs : phase'[q] \notin {"route", "slot", "launch"}
        /\ loop' \notin {"valid", "dequeued"}
    BY <2>2 DEF SafetyInv, AdmissionInv, HolderPhases, DrainItem
  <2>4. JobOf(r) \in SkipJobs => NoneActive(JobOf(r))
    BY <2>2 DEF OverlapInv
  <2>5. ASSUME NEW q \in Runs, q # r, phase'[q] \in ActivePhases, JobOf(r) \in SkipJobs
        PROVE  JobOf(q) # JobOf(r)
    BY <2>2, <2>4, <2>5 DEF NoneActive
  <2>6. ASSUME NEW p \in Runs, NEW q \in Runs, phase'[p] \in ActivePhases,
               phase'[q] \in ActivePhases, JobOf(p) = JobOf(q), JobOf(q) \in SkipJobs
        PROVE  p = q
    <3>1. CASE p = r
      BY <2>5, <2>6, <3>1
    <3>2. CASE q = r
      BY <2>5, <2>6, <3>2
    <3>3. CASE p # r /\ q # r
      BY <2>2, <2>6, <3>3 DEF OverlapInv
    <3>4. QED BY <3>1, <3>2, <3>3
  <2>7. QED BY <1>1, <2>3, <2>6 DEF OverlapInv, JobOf
<1>4. CASE \A r \in Runs : phase'[r] \in ActivePhases => phase[r] \in ActivePhases
  <2>1. \A j : NoneActive(j) => NoneActive(j)'
    BY <1>2, <1>4 DEF NoneActive
  <2>2. ASSUME NEW r \in Runs, ~Overlaps(r), JobOf(r) \in SkipJobs PROVE NoneActive(JobOf(r))
    BY <2>2 DEF Overlaps, Active, NoneActive
  <2>3. ASSUME NEW r \in Runs, phase'[r] \in {"route", "slot", "launch"}, JobOf(r) \in SkipJobs
        PROVE  NoneActive(JobOf(r))
    BY <1>1, <2>2, <2>3 DEF OverlapInv, Starting
  <2>4. ASSUME loop' \in {"valid", "dequeued"}, JobOf(item') \in SkipJobs
        PROVE  NoneActive(JobOf(item')) /\ item' \in Runs
    <3>1. item' = item /\ item' \in Runs
      BY <1>1, <2>4 DEF Draining, SafetyInv, AdmissionInv, DrainItem
    <3>2. QED BY <1>1, <2>2, <2>4, <3>1 DEF OverlapInv, Draining
  <2>5. /\ \A r \in Runs : phase'[r] \in {"route", "slot", "launch"} /\ JobOf(r)' \in SkipJobs =>
              NoneActive(JobOf(r))'
        /\ loop' \in {"valid", "dequeued"} /\ JobOf(item)' \in SkipJobs => NoneActive(JobOf(item))'
    <3>1. JobOf(item)' = JobOf(item')
      BY <1>1 DEF JobOf
    <3>2. QED BY <1>2, <2>1, <2>3, <2>4, <3>1 DEF NoneActive
  <2>6. ASSUME NEW p \in Runs, NEW q \in Runs, phase'[p] \in ActivePhases,
               phase'[q] \in ActivePhases, JobOf(p)' = JobOf(q)', JobOf(q)' \in SkipJobs
        PROVE  p = q
    BY <1>2, <1>4, <2>6 DEF OverlapInv
  <2>7. QED BY <2>5, <2>6 DEF OverlapInv
<1>5. QED BY <1>3, <1>4

\* A row is inserted only where the lookups found none.
LEMMA UniqueStep == ASSUME SafetyInv, LateInv, UniqueInv, [Next]_vars PROVE UniqueInv'
<1>1. Inserting
  BY Rows
<1>2. \A r \in Runs : Keyed(r)' = Keyed(r)
  BY <1>1 DEF Inserting, Keyed
<1>3. SUFFICES ASSUME NEW q \in Runs, NEW r \in Runs, q # r,
                      status'[q] # "none", status'[r] # "none"
               PROVE  /\ ~(Keyed(q) /\ Keyed(r) /\ req[q].tag = req[r].tag)
                      /\ ~(req[r].trigger = "schedule" /\ req[q] = req[r])
  BY <1>1, <1>2 DEF UniqueInv, Inserting
<1>4. CASE status[q] # "none" /\ status[r] # "none"
  BY <1>3, <1>4 DEF UniqueInv
<1>5. CASE status[q] = "none"
  <2>1. KeyOwner(q) = {} /\ ~OccTaken(q) /\ status[r] # "none"
    BY <1>1, <1>3, <1>5 DEF Inserting
  <2>2. QED BY <1>3, <2>1 DEF KeyOwner, OccTaken
<1>6. CASE status[r] = "none"
  <2>1. KeyOwner(r) = {} /\ ~OccTaken(r) /\ status[q] # "none"
    BY <1>1, <1>3, <1>6 DEF Inserting
  <2>2. QED BY <1>3, <2>1 DEF KeyOwner, OccTaken
<1>7. QED BY <1>4, <1>5, <1>6

\* A run that needs its row is launched after the row was stored.
LEMMA RecordedStep == ASSUME SafetyInv, LateInv, RecordedInv, [Next]_vars PROVE RecordedInv'
<1>1. Inserting /\ Starting /\ Draining
  BY Rows, Starts, Drains
<1>2. \A r \in Runs : NeedsRow(r)' = NeedsRow(r)
  BY <1>1 DEF Inserting, NeedsRow, Keyed, JobOf
<1>3. ASSUME NEW r \in Runs, r \in spawned' \/ phase'[r] = "launch", NeedsRow(r)
      PROVE  status'[r] # "none"
  BY <1>1, <1>3 DEF RecordedInv, Inserting, Starting
<1>4. ASSUME loop' = "dequeued" PROVE status'[item'] # "none"
  <2>1. item' = item /\ (loop = "dequeued" \/ status'[item] # "none")
    BY <1>1, <1>4 DEF Draining
  <2>2. loop = "dequeued" => item \in Runs
    BY DEF SafetyInv, AdmissionInv, DrainItem
  <2>3. QED BY <1>1, <2>1, <2>2 DEF RecordedInv, Inserting
<1>5. QED BY <1>2, <1>3, <1>4 DEF RecordedInv

\* Nothing is registered once shutdown has begun.
LEMMA JoinStep == ASSUME SafetyInv, JoinInv, [Next]_vars PROVE JoinInv'
<1>1. Starting /\ Stopping
  BY Starts, Stops
<1>2. ASSUME Closing, NEW r \in Runs, phase'[r] \in ActivePhases PROVE phase[r] \in ActivePhases
  BY <1>1, <1>2 DEF Starting
<1>3. ASSUME stage' = "joining", NEW r \in Runs, phase'[r] \in ActivePhases PROVE r \in joins'
  BY <1>1, <1>2, <1>3 DEF Stopping, JoinInv, Closing
<1>4. ASSUME stage' = "exited"
      PROVE  /\ \A r \in Runs : phase'[r] \notin CallPhases \cup ActivePhases
             /\ loop' = "off"
  BY <1>1, <1>2, <1>4 DEF Stopping, JoinInv, JoinedBeforeExit, Closing
<1>5. QED BY <1>3, <1>4 DEF JoinInv, JoinedBeforeExit

\* The invariant holds initially and is inductive.
LEMMA PolicyInit == Init => PolicyInv
<1> SUFFICES ASSUME Init PROVE PolicyInv
  OBVIOUS
<1>1. SafetyInv
  BY InitSafe
<1>2. LateInv /\ UniqueInv /\ RecordedInv
  BY DEF Init, LateInv, UniqueInv, RecordedInv
<1>3. OverlapInv
  <2>1. loop = "off" /\ \A r \in Runs : phase[r] = "idle"
    BY DEF Init
  <2>2. QED BY <2>1 DEF OverlapInv, ActivePhases
<1>4. JoinInv
  BY DEF Init, JoinInv, JoinedBeforeExit
<1>5. QED BY <1>1, <1>2, <1>3, <1>4 DEF PolicyInv

\* Every step preserves it.
LEMMA PolicyNext == PolicyInv /\ [Next]_vars => PolicyInv'
<1> SUFFICES ASSUME PolicyInv, [Next]_vars PROVE PolicyInv'
  OBVIOUS
<1>1. SafetyInv /\ SafetyInv'
  BY NextSafe DEF PolicyInv
<1>2. LateInv'
  <2>1. Inserting
    BY Rows DEF PolicyInv
  <2>2. late \in SUBSET Runs /\ late' \in SUBSET Runs
    BY <1>1 DEF SafetyInv, TypeOK
  <2>3. QED BY <2>1, <2>2 DEF PolicyInv, LateInv, Inserting, Keyed
<1>3. OverlapInv' /\ UniqueInv' /\ RecordedInv' /\ JoinInv'
  BY <1>1, OverlapStep, UniqueStep, RecordedStep, JoinStep DEF PolicyInv
<1>4. QED BY <1>1, <1>2, <1>3 DEF PolicyInv

-----------------------------------------------------------------------------
\* The invariant behind the theorems below.
THEOREM Policy == Spec => []PolicyInv
BY PolicyInit, PolicyNext, PTL DEF Spec

\* on_overlap = "skip": a job never has two registered runs, for any number of
\* callers, slots and queued items.
THEOREM OverlapRespected == Spec => []OverlapSkip
<1>1. PolicyInv => OverlapSkip
  <2> SUFFICES ASSUME PolicyInv, NEW j \in SkipJobs PROVE Cardinality(Active(j)) <= 1
    BY DEF OverlapSkip
  <2>1. CASE Active(j) = {}
    BY <2>1, FS_EmptySet
  <2>2. CASE Active(j) # {}
    <3>1. PICK r \in Active(j) : TRUE
      BY <2>2
    <3>2. Active(j) = {r}
      BY <3>1 DEF Active, PolicyInv, OverlapInv
    <3>3. QED BY <3>2, FS_Singleton
  <2>3. QED BY <2>1, <2>2
<1>2. QED BY <1>1, Policy, PTL

\* One idempotency key starts at most one run, across retries of the client,
\* failed statements and crashes.
THEOREM OneRunPerKey == Spec => []IdempotentOnce
<1>1. PolicyInv => IdempotentOnce
  <2>1. PolicyInv => spawned \in SUBSET Runs
    BY DEF PolicyInv, SafetyInv, TypeOK
  <2>2. QED BY <2>1 DEF PolicyInv, RecordedInv, UniqueInv, IdempotentOnce, NeedsRow
<1>2. QED BY <1>1, Policy, PTL

\* A scheduled occurrence of a job that opted out of running without its row is
\* started at most once, whatever the database does.
THEOREM OneRunPerOccurrence == Spec => []OccurrenceOnce
<1>1. PolicyInv => OccurrenceOnce
  <2>1. PolicyInv => spawned \in SUBSET Runs
    BY DEF PolicyInv, SafetyInv, TypeOK
  <2>2. QED BY <2>1 DEF PolicyInv, RecordedInv, UniqueInv, OccurrenceOnce, NeedsRow, JobOf
<1>2. QED BY <1>1, Policy, PTL

\* When Shutdown returns no registered run, call or drain loop is left.
THEOREM NothingLeftBehind == Spec => []JoinedBeforeExit
<1>1. PolicyInv => JoinedBeforeExit
  BY DEF PolicyInv, JoinInv
<1>2. QED BY <1>1, Policy, PTL

=============================================================================
