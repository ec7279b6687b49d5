------------------------- MODULE ExecQueueCapacity -------------------------
(***************************************************************************)
(* ExecQueue for every number of runs, jobs, slots and every environment:  *)
(* the parts of the inductive invariant, and the proof that every step     *)
(* keeps the types and accounts for the capacity slots.                    *)
(***************************************************************************)
EXTENDS ExecQueue, FiniteSetTheorems, TLAPS

\* Phases in which a call holds the admission slot, and those before any row.
HolderPhases == {"admitted", "route", "enqueue", "enqueued", "skip", "slot", "launch"}
FreshPhases  == {"idle", "begun", "admitted", "route", "enqueue", "skip", "slot"}
DrainItem    == {"picked", "valid", "dequeued"}

\* The admission slot has one holder, and the drain loop has an item exactly
\* while it works on one.
AdmissionInv ==
    /\ \A r \in Runs : phase[r] \in HolderPhases <=> adm = r
    /\ loop \in DrainItem \cup {"held"} <=> adm = Drain
    /\ item \in Runs <=> loop \in DrainItem

\* A call that has not reached the database yet has left no trace.
FreshInv == \A r \in Runs : phase[r] \in FreshPhases =>
                /\ status[r] = "none"
                /\ outcome[r] = "none"
                /\ r \notin late \cup spawned

\* A started run is in execution or past it, a queued one has not been started
\* and nobody but the drain loop will start it.
StartInv ==
    /\ \A r \in spawned : phase[r] \in {"live", "ended", "freed", "done", "dead"}
    /\ \A r \in queue : phase[r] \in {"enqueued", "done", "dead"} /\ r \notin spawned
    /\ loop = "dequeued" => /\ phase[item] \in {"done", "dead"}
                            /\ item \notin queue \cup spawned

\* Until the queue is resumed the drain loop is off and only [[init]] jobs, which
\* are never queued, are admitted.
BootInv == stage = "init" =>
    /\ loop = "off" /\ gone = 0
    /\ \A r \in Runs : phase[r] \in CallPhases =>
          req[r].trigger = "startup" /\ phase[r] \notin {"enqueue", "enqueued"}

-----------------------------------------------------------------------------
USE DEF durable, registry, drain, service, outside
USE RunsFinite, Sentinels, Limits, OutcomesKnown, ModesAreBoolean

\* Sets of runs are finite, so the counts the code keeps are numbers.
LEMMA Counts == ASSUME NEW S \in SUBSET Runs
                PROVE  IsFiniteSet(S) /\ Cardinality(S) \in Nat
<1>1. IsFiniteSet(S)
  BY FS_Subset
<1>2. QED BY <1>1, FS_CardinalityType

\* A finite set with a member has a positive cardinality; the drain loop's
\* reservation is a slot too.  So whoever releases a slot finds one taken.
LEMMA SlotTaken ==
    ASSUME TypeOK, SlotsAccounted
    PROVE  /\ \A r \in Runs : phase[r] \in OwnerPhases => slots >= 1
           /\ loop \in DrainHolds => slots >= 1
<1>1. IsFiniteSet(Owners) /\ Cardinality(Owners) \in Nat
  BY Counts DEF Owners
<1>2. ASSUME NEW r \in Runs, phase[r] \in OwnerPhases PROVE Cardinality(Owners) >= 1
  <2>1. Owners # {}
    BY <1>2 DEF Owners
  <2>2. QED BY <2>1, <1>1, FS_EmptySet
<1>3. QED BY <1>1, <1>2 DEF SlotsAccounted, TypeOK

\* Every step keeps the types; slots stays within 0..Capacity because a release
\* is made by an owner.
LEMMA TypeStep == ASSUME TypeOK, SlotsAccounted, AdmissionInv, [Next]_vars PROVE TypeOK'
<1>1. ASSUME NEW r \in Runs, Call(r) PROVE TypeOK'
  <2>1. CASE Begin(r)
    BY <2>1 DEF Begin, Goto, TypeOK, Phases, CallPhases, ActivePhases, Replies,
       Stages, LoopStates, Asleep, DrainHolds, Lifecycle!Statuses, Lifecycle!Terminal,
       Lifecycle!ProcessOutcomes
  <2>2. CASE Refuse(r)
    BY <2>2 DEF Refuse, Answer, TypeOK, Phases, CallPhases, ActivePhases, Replies,
       Stages, LoopStates, Asleep, DrainHolds, Lifecycle!Statuses, Lifecycle!Terminal,
       Lifecycle!ProcessOutcomes
  <2>3. CASE Admit(r)
    BY <2>3 DEF Admit, Goto, TypeOK, Phases, CallPhases, ActivePhases, Replies,
       Stages, LoopStates, Asleep, DrainHolds, Lifecycle!Statuses, Lifecycle!Terminal,
       Lifecycle!ProcessOutcomes
  <2>4. CASE Abandon(r)
    BY <2>4 DEF Abandon, Answer, TypeOK, Phases, CallPhases, ActivePhases, Replies,
       Stages, LoopStates, Asleep, DrainHolds, Lifecycle!Statuses, Lifecycle!Terminal,
       Lifecycle!ProcessOutcomes
  <2>5. CASE Check(r)
    BY <2>5 DEF Check, Return, Answer, Goto, TypeOK, Phases, CallPhases, ActivePhases,
       Replies, Stages, LoopStates, Asleep, DrainHolds, Lifecycle!Statuses,
       Lifecycle!Terminal, Lifecycle!ProcessOutcomes
  <2>6. CASE Route(r)
    BY <2>6 DEF Route, Return, Answer, Goto, TypeOK, Phases, CallPhases, ActivePhases,
       Replies, Stages, LoopStates, Asleep, DrainHolds, Lifecycle!Statuses,
       Lifecycle!Terminal, Lifecycle!ProcessOutcomes
  <2>7. CASE Replay(r)
    <3>1. slots' \in 0..Capacity
      BY <2>7, SlotTaken DEF Replay, GiveBack, ReleaseSlot, TypeOK, OwnerPhases
    <3>2. wake' \in BOOLEAN
      BY Zenon, <2>7 DEF Replay, GiveBack, ReleaseSlot, TypeOK
    <3>3. QED
      BY <2>7, <3>1, <3>2 DEF Replay, Return, Answer, KeyReply, TypeOK, Phases,
         CallPhases, ActivePhases, Replies, Stages, LoopStates, Asleep, DrainHolds,
         Lifecycle!Statuses, Lifecycle!Terminal, Lifecycle!ProcessOutcomes
  <2>8. CASE Taken(r)
    <3>1. slots' \in 0..Capacity
      BY <2>8, SlotTaken DEF Taken, GiveBack, ReleaseSlot, TypeOK, OwnerPhases
    <3>2. wake' \in BOOLEAN
      BY ZenonT(60), <2>8 DEF Taken, GiveBack, ReleaseSlot, TypeOK
    <3>3. QED
      BY <2>8, <3>1, <3>2 DEF Taken, Return, Answer, KeyReply, TypeOK, Phases,
         CallPhases, ActivePhases, Replies, Stages, LoopStates, Asleep, DrainHolds,
         Lifecycle!Statuses, Lifecycle!Terminal, Lifecycle!ProcessOutcomes
  <2>9. CASE EnqueueRefused(r)
    BY <2>9 DEF EnqueueRefused, Return, Answer, Goto, TypeOK, Phases, CallPhases,
       ActivePhases, Replies, Stages, LoopStates, Asleep, DrainHolds,
       Lifecycle!Statuses, Lifecycle!Terminal, Lifecycle!ProcessOutcomes
  <2>10. CASE EnqueueCommit(r)
    BY <2>10 DEF EnqueueCommit, InsertQueued, Goto, TypeOK, Phases, CallPhases,
       ActivePhases, Replies, Stages, LoopStates, Asleep, DrainHolds,
       Lifecycle!Statuses, Lifecycle!Terminal, Lifecycle!ProcessOutcomes
  <2>11. CASE EnqueueFails(r)
    BY <2>11 DEF EnqueueFails, QueueErrors, Return, Answer, TypeOK, Phases,
       CallPhases, ActivePhases, Replies, Stages, LoopStates, Asleep, DrainHolds,
       Lifecycle!Statuses, Lifecycle!Terminal, Lifecycle!ProcessOutcomes
  <2>12. CASE EnqueueAmbiguous(r)
    BY <2>12 DEF EnqueueAmbiguous, InsertQueued, QueueErrors, Return, Answer, TypeOK,
       Phases, CallPhases, ActivePhases, Replies, Stages, LoopStates, Asleep,
       DrainHolds, Lifecycle!Statuses, Lifecycle!Terminal, Lifecycle!ProcessOutcomes
  <2>13. CASE Enqueued(r)
    <3>1. wake' \in BOOLEAN /\ loop' \in LoopStates
      BY ZenonT(60), <2>13 DEF Enqueued, TypeOK, LoopStates
    <3>2. /\ Return(r, "queued") /\ depth' = depth + 1
          /\ UNCHANGED <<durable, registry, slots, item, gone, paced, served, service, outside>>
      BY <2>13 DEF Enqueued
    <3>3. QED
      BY <3>1, <3>2 DEF Return, Answer, TypeOK, Phases, CallPhases, ActivePhases,
         Replies, Stages, LoopStates, Asleep, DrainHolds, Lifecycle!Statuses,
         Lifecycle!Terminal, Lifecycle!ProcessOutcomes
  <2>14. CASE SkipStored(r)
    BY <2>14 DEF SkipStored, Return, Answer, TypeOK, Phases, CallPhases, ActivePhases,
       Replies, Stages, LoopStates, Asleep, DrainHolds, Lifecycle!Statuses,
       Lifecycle!Terminal, Lifecycle!ProcessOutcomes
  <2>15. CASE SkipFails(r)
    BY <2>15 DEF SkipFails, Return, Answer, TypeOK, Phases, CallPhases, ActivePhases,
       Replies, Stages, LoopStates, Asleep, DrainHolds, Lifecycle!Statuses,
       Lifecycle!Terminal, Lifecycle!ProcessOutcomes
  <2>16. CASE RowStored(r)
    BY <2>16 DEF RowStored, Goto, TypeOK, Phases, CallPhases, ActivePhases, Replies,
       Stages, LoopStates, Asleep, DrainHolds, Lifecycle!Statuses, Lifecycle!Terminal,
       Lifecycle!ProcessOutcomes
  <2>17. CASE RowKeyFails(r)
    BY <2>17, SlotTaken DEF RowKeyFails, Return, Answer, ReleaseSlot, TypeOK, Phases,
       CallPhases, ActivePhases, Replies, Stages, LoopStates, Asleep, DrainHolds,
       Lifecycle!Statuses, Lifecycle!Terminal, Lifecycle!ProcessOutcomes, OwnerPhases
  <2>18. CASE RowDeferred(r)
    <3>1. status' \in [Runs -> Lifecycle!Statuses] /\ late' \in SUBSET Runs
      BY <2>18 DEF RowDeferred, TypeOK, Lifecycle!Statuses
    <3>2. slots' \in 0..Capacity
      BY <2>18, SlotTaken DEF RowDeferred, ReleaseSlot, TypeOK, OwnerPhases
    <3>3. wake' \in BOOLEAN
      BY ZenonT(60), <2>18 DEF RowDeferred, ReleaseSlot, TypeOK
    <3>4. /\ phase' \in [Runs -> Phases] /\ reply' \in [Runs -> Replies]
          /\ adm' \in Runs \cup {NoRun, Drain}
          /\ outcome' \in [Runs -> Outcomes \cup {"none", "skipped"}]
      BY <2>18 DEF RowDeferred, Goto, TypeOK, Phases, CallPhases, Replies
    <3>5. QED BY <2>18, <3>1, <3>2, <3>3, <3>4 DEF RowDeferred, TypeOK
  <2>19. CASE Launch(r)
    BY <2>19 DEF Launch, TypeOK, Phases, CallPhases, ActivePhases, Replies, Stages,
       LoopStates, Asleep, DrainHolds, Lifecycle!Statuses, Lifecycle!Terminal,
       Lifecycle!ProcessOutcomes
  <2>20. CASE LaunchRefused(r)
    BY <2>20, SlotTaken DEF LaunchRefused, RefusedStatus, Return, Answer, ReleaseSlot,
       TypeOK, Phases, CallPhases, ActivePhases, Replies, Stages, LoopStates, Asleep,
       DrainHolds, Lifecycle!Statuses, Lifecycle!Terminal, Lifecycle!ProcessOutcomes,
       OwnerPhases
  <2>21. CASE GiveUp(r)
    <3>1. slots' \in 0..Capacity
      BY <2>21, SlotTaken DEF GiveUp, GiveBack, ReleaseSlot, TypeOK, OwnerPhases
    <3>2. wake' \in BOOLEAN
      BY ZenonT(60), <2>21 DEF GiveUp, GiveBack, ReleaseSlot, TypeOK
    <3>3. QED
      BY <2>21, <3>1, <3>2 DEF GiveUp, Return, Answer, KeyReply, TypeOK, Phases,
         CallPhases, ActivePhases, Replies, Stages, LoopStates, Asleep, DrainHolds,
         Lifecycle!Statuses, Lifecycle!Terminal, Lifecycle!ProcessOutcomes
  <2>22. QED BY <1>1, <2>1, <2>2, <2>3, <2>4, <2>5, <2>6, <2>7, <2>8, <2>9, <2>10,
     <2>11, <2>12, <2>13, <2>14, <2>15, <2>16, <2>17, <2>18, <2>19, <2>20, <2>21 DEF
     Call
<1>2. ASSUME NEW r \in Runs, Execution(r) PROVE TypeOK'
  <2>1. CASE Finish(r)
    BY <2>1 DEF Finish, Goto, TypeOK, Phases, CallPhases, ActivePhases, Replies,
       Stages, LoopStates, Asleep, DrainHolds, Lifecycle!Statuses, Lifecycle!Terminal,
       Lifecycle!ProcessOutcomes
  <2>2. CASE Unregister(r)
    BY <2>2 DEF Unregister, Goto, TypeOK, Phases, CallPhases, ActivePhases, Replies,
       Stages, LoopStates, Asleep, DrainHolds, Lifecycle!Statuses, Lifecycle!Terminal,
       Lifecycle!ProcessOutcomes
  <2>3. CASE Release(r)
    BY <2>3, SlotTaken DEF Release, Goto, ReleaseSlot, TypeOK, Phases, CallPhases,
       ActivePhases, Replies, Stages, LoopStates, Asleep, DrainHolds,
       Lifecycle!Statuses, Lifecycle!Terminal, Lifecycle!ProcessOutcomes, OwnerPhases
  <2>4. CASE StoreRow(r)
    BY <2>4 DEF StoreRow, Written, TypeOK, Phases, CallPhases, ActivePhases, Replies,
       Stages, LoopStates, Asleep, DrainHolds, Lifecycle!Statuses, Lifecycle!Terminal,
       Lifecycle!ProcessOutcomes
  <2>5. CASE StoreRunning(r)
    BY <2>5 DEF StoreRunning, Written, TypeOK, Phases, CallPhases, ActivePhases,
       Replies, Stages, LoopStates, Asleep, DrainHolds, Lifecycle!Statuses,
       Lifecycle!Terminal, Lifecycle!ProcessOutcomes
  <2>6. CASE StoreTerminal(r)
    <3>1. outcome[r] \in Lifecycle!Statuses
      BY ZenonT(60), <2>6 DEF StoreTerminal, TypeOK, Lifecycle!Statuses, Lifecycle!Terminal,
         Lifecycle!ProcessOutcomes
    <3>2. QED BY <2>6, <3>1 DEF StoreTerminal, Written, TypeOK
  <2>7. QED BY <1>2, <2>1, <2>2, <2>3, <2>4, <2>5, <2>6 DEF Execution
<1>3. ASSUME DrainStep PROVE TypeOK'
  <2>1. CASE DrainWake
    <3>1. wake' \in BOOLEAN
      BY Zenon, <2>1 DEF DrainWake, TypeOK
    <3>2. loop' \in LoopStates
      BY <2>1 DEF DrainWake, LoopStates
    <3>3. UNCHANGED <<durable, registry, phase, adm, slots, depth, item, gone, paced,
                      served, service, outside, reply>>
      BY <2>1 DEF DrainWake
    <3>4. QED BY <3>1, <3>2, <3>3 DEF TypeOK
  <2>2. CASE DrainExit
    BY <2>2 DEF DrainExit, TypeOK, Phases, CallPhases, ActivePhases, Replies, Stages,
       LoopStates, Asleep, DrainHolds, Lifecycle!Statuses, Lifecycle!Terminal,
       Lifecycle!ProcessOutcomes
  <2>3. CASE DrainSleep
    BY <2>3 DEF DrainSleep, TypeOK, Phases, CallPhases, ActivePhases, Replies, Stages,
       LoopStates, Asleep, DrainHolds, Lifecycle!Statuses, Lifecycle!Terminal,
       Lifecycle!ProcessOutcomes
  <2>4. CASE DrainExpire
    <3>1. PICK X \in Overdue : EndQueued(X, "skipped") /\ gone' = Cardinality(X)
      BY <2>4 DEF DrainExpire
    <3>2. X \in SUBSET Runs
      BY <3>1 DEF Overdue, TypeOK
    <3>3. gone' \in Nat
      BY <3>1, <3>2, Counts
    <3>4. /\ status' \in [Runs -> Lifecycle!Statuses] /\ queue' \in SUBSET Runs
          /\ seq' \in [Runs -> Nat] /\ lastSeq' \in Nat
      BY <3>1 DEF EndQueued, TypeOK, Lifecycle!Statuses, Lifecycle!Terminal
    <3>5. loop' \in LoopStates
      BY <2>4 DEF DrainExpire, LoopStates
    <3>6. QED BY <2>4, <3>3, <3>4, <3>5 DEF DrainExpire, TypeOK
  <2>5. CASE DrainExpireFails
    BY <2>5 DEF DrainExpireFails, EndQueued, Overdue, TypeOK, Phases, CallPhases,
       ActivePhases, Replies, Stages, LoopStates, Asleep, DrainHolds,
       Lifecycle!Statuses, Lifecycle!Terminal, Lifecycle!ProcessOutcomes
  <2>6. CASE DrainReserve
    BY <2>6 DEF DrainReserve, TypeOK, Phases, CallPhases, ActivePhases, Replies,
       Stages, LoopStates, Asleep, DrainHolds, Lifecycle!Statuses, Lifecycle!Terminal,
       Lifecycle!ProcessOutcomes
  <2>7. CASE DrainAdmit
    BY <2>7 DEF DrainAdmit, TypeOK, Phases, CallPhases, ActivePhases, Replies, Stages,
       LoopStates, Asleep, DrainHolds, Lifecycle!Statuses, Lifecycle!Terminal,
       Lifecycle!ProcessOutcomes
  <2>8. CASE DrainFails
    BY <2>8, SlotTaken DEF DrainFails, StepBack, TypeOK, Phases, CallPhases,
       ActivePhases, Replies, Stages, LoopStates, Asleep, DrainHolds,
       Lifecycle!Statuses, Lifecycle!Terminal, Lifecycle!ProcessOutcomes
  <2>9. CASE DrainResync
    <3>1. depth' \in Int
      BY <2>9, Counts DEF DrainResync, TypeOK
    <3>2. slots' \in 0..Capacity
      BY <2>9, SlotTaken DEF DrainResync, StepBack, TypeOK, DrainHolds
    <3>3. loop' \in LoopStates /\ item' \in Runs \cup {NoRun} /\ adm' \in Runs \cup {NoRun, Drain}
      BY <2>9 DEF DrainResync, StepBack, TypeOK, LoopStates
    <3>4. QED BY <2>9, <3>1, <3>2, <3>3 DEF DrainResync, TypeOK
  <2>10. CASE DrainPick
    <3>1. PICK i \in queue : item' = i /\ served' = Turn(JobOf(i))
      BY <2>10 DEF DrainPick
    <3>2. i \in Runs /\ JobOf(i) \in Jobs /\ Cardinality(Jobs) \in Nat
      BY ZenonT(60), RequestShape, JobsFinite, FS_CardinalityType DEF TypeOK, JobOf
    <3>3. served' \in [Jobs -> Nat]
      BY <3>1, <3>2 DEF Turn, TypeOK
    <3>4. loop' \in LoopStates
      BY <2>10 DEF DrainPick, LoopStates, DrainHolds
    <3>5. QED BY <2>10, <3>1, <3>2, <3>3, <3>4 DEF DrainPick, TypeOK
  <2>11. CASE DrainDrop
    BY <2>11, SlotTaken DEF DrainDrop, EndQueued, StepBack, TypeOK, Phases,
       CallPhases, ActivePhases, Replies, Stages, LoopStates, Asleep, DrainHolds,
       Lifecycle!Statuses, Lifecycle!Terminal, Lifecycle!ProcessOutcomes
  <2>12. CASE DrainValidate
    BY <2>12 DEF DrainValidate, TypeOK, Phases, CallPhases, ActivePhases, Replies,
       Stages, LoopStates, Asleep, DrainHolds, Lifecycle!Statuses, Lifecycle!Terminal,
       Lifecycle!ProcessOutcomes
  <2>13. CASE DrainDequeue
    BY <2>13, SlotTaken DEF DrainDequeue, EndQueued, StepBack, TypeOK, Phases,
       CallPhases, ActivePhases, Replies, Stages, LoopStates, Asleep, DrainHolds,
       Lifecycle!Statuses, Lifecycle!Terminal, Lifecycle!ProcessOutcomes
  <2>14. CASE DrainLaunch
    <3>1. item \in Runs
      BY <2>14 DEF DrainLaunch, AdmissionInv, DrainItem
    <3>2. status' \in [Runs -> Lifecycle!Statuses]
      BY <2>14, <3>1 DEF DrainLaunch, RefusedStatus, TypeOK, Lifecycle!Statuses,
         Lifecycle!Terminal, Lifecycle!ProcessOutcomes
    <3>3. slots' \in 0..Capacity
      BY <2>14, SlotTaken DEF DrainLaunch, ReleaseSlot, TypeOK, DrainHolds
    <3>4. wake' \in BOOLEAN
      BY ZenonT(60), <2>14 DEF DrainLaunch, ReleaseSlot, TypeOK
    <3>5. phase' \in [Runs -> Phases] /\ spawned' \in SUBSET Runs
      BY <2>14, <3>1 DEF DrainLaunch, TypeOK, Phases, ActivePhases
    <3>6. loop' \in LoopStates /\ paced' \in BOOLEAN
      BY <2>14 DEF DrainLaunch, LoopStates
    <3>7. QED BY <2>14, <3>2, <3>3, <3>4, <3>5, <3>6 DEF DrainLaunch, TypeOK
  <2>15. QED BY <1>3, <2>1, <2>2, <2>3, <2>4, <2>5, <2>6, <2>7, <2>8, <2>9, <2>10,
     <2>11, <2>12, <2>13, <2>14 DEF DrainStep
<1>4. ASSUME NEW j \in Jobs, Registry(j) PROVE TypeOK'
  <2>1. CASE SetEnabled(j)
    BY <2>1 DEF SetEnabled, Edit, EndQueued, TypeOK, Phases, CallPhases, ActivePhases,
       Replies, Stages, LoopStates, Asleep, DrainHolds, Lifecycle!Statuses,
       Lifecycle!Terminal, Lifecycle!ProcessOutcomes
  <2>2. CASE DeleteDefinition(j)
    BY <2>2 DEF DeleteDefinition, Edit, EndQueued, TypeOK, Phases, CallPhases,
       ActivePhases, Replies, Stages, LoopStates, Asleep, DrainHolds,
       Lifecycle!Statuses, Lifecycle!Terminal, Lifecycle!ProcessOutcomes
  <2>3. CASE PutDefinition(j)
    BY <2>3 DEF PutDefinition, Edit, TypeOK, Phases, CallPhases, ActivePhases,
       Replies, Stages, LoopStates, Asleep, DrainHolds, Lifecycle!Statuses,
       Lifecycle!Terminal, Lifecycle!ProcessOutcomes
  <2>4. CASE SyncRemoves(j)
    BY <2>4 DEF SyncRemoves, Edit, TypeOK, Phases, CallPhases, ActivePhases, Replies,
       Stages, LoopStates, Asleep, DrainHolds, Lifecycle!Statuses, Lifecycle!Terminal,
       Lifecycle!ProcessOutcomes
  <2>5. QED BY <1>4, <2>1, <2>2, <2>3, <2>4 DEF Registry
<1>5. ASSUME Lifetime PROVE TypeOK'
  <2>1. CASE ResumeQueue
    <3>1. depth' \in Int
      BY <2>1, Counts DEF ResumeQueue, TypeOK
    <3>2. wake' \in BOOLEAN
      BY Zenon, <2>1 DEF ResumeQueue, TypeOK
    <3>3. loop' \in LoopStates /\ stage' \in Stages
      BY <2>1 DEF ResumeQueue, TypeOK, LoopStates, Stages
    <3>4. QED BY ZenonT(60), <2>1, <3>1, <3>2, <3>3 DEF ResumeQueue, TypeOK
  <2>2. CASE Restart
    <3>1. status' \in [Runs -> Lifecycle!Statuses]
      BY <2>2 DEF Restart, TypeOK, Lifecycle!Statuses, Lifecycle!Terminal,
         Lifecycle!ProcessOutcomes
    <3>2. phase' \in [Runs -> Phases] /\ loop' \in LoopStates /\ stage' \in Stages
      BY <2>2 DEF Restart, Phases, LoopStates, Stages
    <3>3. wake' \in BOOLEAN /\ paced' \in BOOLEAN /\ qon' \in BOOLEAN
      BY Zenon, <2>2 DEF Restart
    <3>4. QED BY <2>2, <3>1, <3>2, <3>3 DEF Restart, TypeOK
  <2>3. CASE BeginShutdown
    BY <2>3 DEF BeginShutdown, TypeOK, Phases, CallPhases, ActivePhases, Replies,
       Stages, LoopStates, Asleep, DrainHolds, Lifecycle!Statuses, Lifecycle!Terminal,
       Lifecycle!ProcessOutcomes
  <2>4. CASE ShutdownSnapshot
    BY <2>4 DEF ShutdownSnapshot, TypeOK, Phases, CallPhases, ActivePhases, Replies,
       Stages, LoopStates, Asleep, DrainHolds, Lifecycle!Statuses, Lifecycle!Terminal,
       Lifecycle!ProcessOutcomes
  <2>5. CASE ShutdownDone
    BY <2>5 DEF ShutdownDone, TypeOK, Phases, CallPhases, ActivePhases, Replies,
       Stages, LoopStates, Asleep, DrainHolds, Lifecycle!Statuses, Lifecycle!Terminal,
       Lifecycle!ProcessOutcomes
  <2>6. QED BY <1>5, <2>1, <2>2, <2>3, <2>4, <2>5 DEF Lifetime
<1>6. ASSUME NEW r \in Runs, Age(r) PROVE TypeOK'
  BY <1>6 DEF Age, TypeOK, Phases, CallPhases, ActivePhases, Replies, Stages,
     LoopStates, Asleep, DrainHolds, Lifecycle!Statuses, Lifecycle!Terminal,
     Lifecycle!ProcessOutcomes
<1>7. ASSUME NEW r \in Runs, CancelQueued(r) PROVE TypeOK'
  <2>1. status' \in [Runs -> Lifecycle!Statuses]
    <3>1. "stopped" \in Lifecycle!Statuses
      BY DEF Lifecycle!Statuses, Lifecycle!Terminal, Lifecycle!ProcessOutcomes
    <3>2. QED BY <1>7, <3>1 DEF CancelQueued, EndQueued, TypeOK
  <2>2. queue' \in SUBSET Runs /\ seq' \in [Runs -> Nat] /\ lastSeq' \in Nat /\ depth' \in Int
    BY <1>7 DEF CancelQueued, EndQueued, TypeOK
  <2>3. UNCHANGED <<registry, phase, adm, slots, wake, drain, service, outside, reply>>
    BY <1>7 DEF CancelQueued
  <2>4. QED BY <2>1, <2>2, <2>3 DEF TypeOK
<1>8. CASE Pace
  <2>1. paced' \in BOOLEAN
    BY Zenon, <1>8 DEF Pace
  <2>2. UNCHANGED <<durable, registry, phase, adm, slots, depth, wake, loop, item, gone,
                    served, service, outside, reply>>
    BY <1>8 DEF Pace
  <2>3. QED BY <2>1, <2>2 DEF TypeOK
<1>9. CASE UNCHANGED vars
  BY <1>9 DEF vars, TypeOK, Phases, CallPhases, ActivePhases, Replies, Stages,
     LoopStates, Asleep, DrainHolds, Lifecycle!Statuses, Lifecycle!Terminal,
     Lifecycle!ProcessOutcomes
<1>10. QED BY <1>1, <1>2, <1>3, <1>4, <1>5, <1>6, <1>7, <1>8, <1>9 DEF Next

-----------------------------------------------------------------------------
(***************************************************************************)
(* Accounting of capacity: how a step may change the owners, the loop's    *)
(* reservation and the count together, and that no step leaks a slot.      *)
(***************************************************************************)
\* A set of runs grows by one member.
LEMMA AddOne == ASSUME NEW S \in SUBSET Runs, NEW r \in Runs, r \notin S
                PROVE  Cardinality(S \cup {r}) = Cardinality(S) + 1
BY Counts, FS_AddElement

\* A set of runs loses one member.
LEMMA DropOne == ASSUME NEW S \in SUBSET Runs, NEW r \in S
                 PROVE  Cardinality(S \ {r}) = Cardinality(S) - 1
BY Counts, FS_RemoveElement

\* The slot reserved by the drain loop.
Holds == IF loop \in DrainHolds THEN 1 ELSE 0

\* A step that touches neither the owners nor the reservation.
LEMMA SlotsKept ==
    ASSUME SlotsAccounted, Owners' = Owners, slots' = slots, Holds' = Holds
    PROVE  SlotsAccounted'
BY DEF SlotsAccounted, Holds

\* A run becomes an owner with the slot it takes (trigger).
LEMMA SlotsGained ==
    ASSUME SlotsAccounted, NEW r \in Runs, r \notin Owners, Owners' = Owners \cup {r},
           slots' = slots + 1, Holds' = Holds
    PROVE  SlotsAccounted'
<1>1. Cardinality(Owners') = Cardinality(Owners) + 1
  BY AddOne DEF Owners
<1>2. Cardinality(Owners) \in Nat
  BY Counts DEF Owners
<1>3. QED BY <1>1, <1>2 DEF SlotsAccounted, Holds

\* An owner releases its slot (releaseSlot).
LEMMA SlotsLost ==
    ASSUME SlotsAccounted, NEW r \in Owners, Owners' = Owners \ {r},
           slots' = slots - 1, Holds' = Holds
    PROVE  SlotsAccounted'
<1>1. Cardinality(Owners') = Cardinality(Owners) - 1
  BY DropOne DEF Owners
<1>2. Cardinality(Owners) \in Nat
  BY Counts DEF Owners
<1>3. QED BY <1>1, <1>2 DEF SlotsAccounted, Holds

\* The loop takes its reservation or gives it back.
LEMMA SlotsMoved ==
    ASSUME SlotsAccounted, Owners' = Owners, slots' = slots + (Holds' - Holds)
    PROVE  SlotsAccounted'
<1>1. Cardinality(Owners) \in Nat
  BY Counts DEF Owners
<1>2. QED BY <1>1 DEF SlotsAccounted, Holds

\* No step leaks or invents a slot.
LEMMA SlotsStep ==
    ASSUME TypeOK, SlotsAccounted, AdmissionInv, BootInv, StartInv, [Next]_vars
    PROVE  SlotsAccounted'
<1>0. phase \in [Runs -> Phases] /\ slots \in Nat
  BY Limits DEF TypeOK
<1>1. ASSUME NEW r \in Runs, Call(r) PROVE SlotsAccounted'
  <2>1. CASE Begin(r)
    <3>1. Owners' = Owners /\ slots' = slots /\ Holds' = Holds
      BY <1>0, <2>1 DEF Begin, Goto, Owners, OwnerPhases, Holds, DrainHolds
    <3>2. QED BY <3>1, SlotsKept
  <2>2. CASE Refuse(r)
    <3>1. Owners' = Owners /\ slots' = slots /\ Holds' = Holds
      BY <1>0, <2>2 DEF Refuse, Answer, Owners, OwnerPhases, Holds, DrainHolds
    <3>2. QED BY <3>1, SlotsKept
  <2>3. CASE Admit(r)
    <3>1. Owners' = Owners /\ slots' = slots /\ Holds' = Holds
      BY <1>0, <2>3 DEF Admit, Goto, Owners, OwnerPhases, Holds, DrainHolds
    <3>2. QED BY <3>1, SlotsKept
  <2>4. CASE Abandon(r)
    <3>1. Owners' = Owners /\ slots' = slots /\ Holds' = Holds
      BY <1>0, <2>4 DEF Abandon, Answer, Owners, OwnerPhases, Holds, DrainHolds
    <3>2. QED BY <3>1, SlotsKept
  <2>5. CASE Check(r)
    <3>1. Owners' = Owners /\ slots' = slots /\ Holds' = Holds
      BY <1>0, <2>5 DEF Check, Return, Answer, Goto, Owners, OwnerPhases, Holds, DrainHolds
    <3>2. QED BY <3>1, SlotsKept
  <2>6. CASE Route(r)
    <3>1. CASE slots' = slots
      <4>1. Owners' = Owners /\ slots' = slots /\ Holds' = Holds
        BY <1>0, <2>6, <3>1 DEF Route, Return, Answer, Goto, Owners, OwnerPhases, Holds,
           DrainHolds
      <4>2. QED BY <4>1, SlotsKept
    <3>2. CASE ~(slots' = slots)
      <4>1. r \notin Owners /\ Owners' = Owners \cup {r} /\ slots' = slots + 1 /\ Holds' = Holds
        BY <1>0, <2>6, <3>2 DEF Route, Return, Answer, Goto, Owners, OwnerPhases, Holds
      <4>2. QED BY <4>1, SlotsGained
    <3>3. QED BY <3>1, <3>2
  <2>7. CASE Replay(r)
    <3>1. CASE phase[r] = "slot"
      <4>1. r \in Owners /\ Owners' = Owners \ {r} /\ slots' = slots - 1 /\ Holds' = Holds
        BY <1>0, <2>7, <3>1 DEF Replay, Return, Answer, GiveBack, ReleaseSlot, Owners,
           OwnerPhases, Holds
      <4>2. QED BY <4>1, SlotsLost
    <3>2. CASE ~(phase[r] = "slot")
      <4>1. Owners' = Owners /\ slots' = slots /\ Holds' = Holds
        BY <1>0, <2>7, <3>2 DEF Replay, Return, Answer, GiveBack, ReleaseSlot, Owners,
           OwnerPhases, Holds, DrainHolds
      <4>2. QED BY <4>1, SlotsKept
    <3>3. QED BY <3>1, <3>2
  <2>8. CASE Taken(r)
    <3>1. CASE phase[r] = "slot"
      <4>1. r \in Owners /\ Owners' = Owners \ {r} /\ slots' = slots - 1 /\ Holds' = Holds
        BY <1>0, <2>8, <3>1 DEF Taken, Return, Answer, GiveBack, ReleaseSlot, Owners, OwnerPhases,
           Holds
      <4>2. QED BY <4>1, SlotsLost
    <3>2. CASE ~(phase[r] = "slot")
      <4>1. Owners' = Owners /\ slots' = slots /\ Holds' = Holds
        BY <1>0, <2>8, <3>2 DEF Taken, Return, Answer, GiveBack, ReleaseSlot, Owners, OwnerPhases,
           Holds, DrainHolds
      <4>2. QED BY <4>1, SlotsKept
    <3>3. QED BY <3>1, <3>2
  <2>9. CASE EnqueueRefused(r)
    <3>1. Owners' = Owners /\ slots' = slots /\ Holds' = Holds
      BY <1>0, <2>9 DEF EnqueueRefused, Return, Answer, Goto, Owners, OwnerPhases, Holds,
         DrainHolds
    <3>2. QED BY <3>1, SlotsKept
  <2>10. CASE EnqueueCommit(r)
    <3>1. Owners' = Owners /\ slots' = slots /\ Holds' = Holds
      BY <1>0, <2>10 DEF EnqueueCommit, InsertQueued, Goto, Owners, OwnerPhases, Holds,
         DrainHolds
    <3>2. QED BY <3>1, SlotsKept
  <2>11. CASE EnqueueFails(r)
    <3>1. Owners' = Owners /\ slots' = slots /\ Holds' = Holds
      BY <1>0, <2>11 DEF EnqueueFails, QueueErrors, Return, Answer, Owners, OwnerPhases,
         Holds, DrainHolds
    <3>2. QED BY <3>1, SlotsKept
  <2>12. CASE EnqueueAmbiguous(r)
    <3>1. Owners' = Owners /\ slots' = slots /\ Holds' = Holds
      BY <1>0, <2>12 DEF EnqueueAmbiguous, InsertQueued, QueueErrors, Return, Answer,
         Owners, OwnerPhases, Holds, DrainHolds
    <3>2. QED BY <3>1, SlotsKept
  <2>13. CASE Enqueued(r)
    <3>1. Owners' = Owners /\ slots' = slots /\ Holds' = Holds
      BY <1>0, <2>13 DEF Enqueued, Return, Answer, Owners, OwnerPhases, Holds, DrainHolds
    <3>2. QED BY <3>1, SlotsKept
  <2>14. CASE SkipStored(r)
    <3>1. Owners' = Owners /\ slots' = slots /\ Holds' = Holds
      BY <1>0, <2>14 DEF SkipStored, Return, Answer, Owners, OwnerPhases, Holds, DrainHolds
    <3>2. QED BY <3>1, SlotsKept
  <2>15. CASE SkipFails(r)
    <3>1. Owners' = Owners /\ slots' = slots /\ Holds' = Holds
      BY <1>0, <2>15 DEF SkipFails, Return, Answer, Owners, OwnerPhases, Holds, DrainHolds
    <3>2. QED BY <3>1, SlotsKept
  <2>16. CASE RowStored(r)
    <3>1. Owners' = Owners /\ slots' = slots /\ Holds' = Holds
      BY <1>0, <2>16 DEF RowStored, Goto, Owners, OwnerPhases, Holds, DrainHolds
    <3>2. QED BY <3>1, SlotsKept
  <2>17. CASE RowKeyFails(r)
    <3>1. r \in Owners /\ Owners' = Owners \ {r} /\ slots' = slots - 1 /\ Holds' = Holds
      BY <1>0, <2>17 DEF RowKeyFails, Return, Answer, ReleaseSlot, Owners, OwnerPhases,
         Holds
    <3>2. QED BY <3>1, SlotsLost
  <2>18. CASE RowDeferred(r)
    <3>1. CASE JobOf(r) \in HistSkipJobs
      <4>1. r \in Owners /\ Owners' = Owners \ {r} /\ slots' = slots - 1 /\ Holds' = Holds
        BY <1>0, <2>18, <3>1 DEF RowDeferred, Goto, ReleaseSlot, Owners, OwnerPhases, Holds
      <4>2. QED BY <4>1, SlotsLost
    <3>2. CASE ~(JobOf(r) \in HistSkipJobs)
      <4>1. Owners' = Owners /\ slots' = slots /\ Holds' = Holds
        BY <1>0, <2>18, <3>2 DEF RowDeferred, Goto, ReleaseSlot, Owners, OwnerPhases, Holds,
           DrainHolds
      <4>2. QED BY <4>1, SlotsKept
    <3>3. QED BY <3>1, <3>2
  <2>19. CASE Launch(r)
    <3>1. Owners' = Owners /\ slots' = slots /\ Holds' = Holds
      BY <1>0, <2>19 DEF Launch, Owners, OwnerPhases, Holds, DrainHolds
    <3>2. QED BY <3>1, SlotsKept
  <2>20. CASE LaunchRefused(r)
    <3>1. r \in Owners /\ Owners' = Owners \ {r} /\ slots' = slots - 1 /\ Holds' = Holds
      BY <1>0, <2>20 DEF LaunchRefused, RefusedStatus, Return, Answer, ReleaseSlot, Owners,
         OwnerPhases, Holds
    <3>2. QED BY <3>1, SlotsLost
  <2>21. CASE GiveUp(r)
    <3>1. CASE phase[r] = "slot"
      <4>1. r \in Owners /\ Owners' = Owners \ {r} /\ slots' = slots - 1 /\ Holds' = Holds
        BY <1>0, <2>21, <3>1 DEF GiveUp, Return, Answer, GiveBack, ReleaseSlot, Owners,
           OwnerPhases, Holds
      <4>2. QED BY <4>1, SlotsLost
    <3>2. CASE ~(phase[r] = "slot")
      <4>1. Owners' = Owners /\ slots' = slots /\ Holds' = Holds
        BY <1>0, <2>21, <3>2 DEF GiveUp, Return, Answer, GiveBack, ReleaseSlot, Owners,
           OwnerPhases, Holds, DrainHolds
      <4>2. QED BY <4>1, SlotsKept
    <3>3. QED BY <3>1, <3>2
  <2>22. QED BY <1>1, <2>1, <2>2, <2>3, <2>4, <2>5, <2>6, <2>7, <2>8, <2>9, <2>10,
     <2>11, <2>12, <2>13, <2>14, <2>15, <2>16, <2>17, <2>18, <2>19, <2>20, <2>21 DEF
     Call
<1>2. ASSUME NEW r \in Runs, Execution(r) PROVE SlotsAccounted'
  <2>1. CASE Finish(r)
    <3>1. Owners' = Owners /\ slots' = slots /\ Holds' = Holds
      BY <1>0, <2>1 DEF Finish, Goto, Owners, OwnerPhases, Holds, DrainHolds
    <3>2. QED BY <3>1, SlotsKept
  <2>2. CASE Unregister(r)
    <3>1. Owners' = Owners /\ slots' = slots /\ Holds' = Holds
      BY <1>0, <2>2 DEF Unregister, Goto, Owners, OwnerPhases, Holds, DrainHolds
    <3>2. QED BY <3>1, SlotsKept
  <2>3. CASE Release(r)
    <3>1. r \in Owners /\ Owners' = Owners \ {r} /\ slots' = slots - 1 /\ Holds' = Holds
      BY <1>0, <2>3 DEF Release, Goto, ReleaseSlot, Owners, OwnerPhases, Holds
    <3>2. QED BY <3>1, SlotsLost
  <2>4. CASE StoreRow(r)
    <3>1. Owners' = Owners /\ slots' = slots /\ Holds' = Holds
      BY <1>0, <2>4 DEF StoreRow, Written, Owners, OwnerPhases, Holds, DrainHolds
    <3>2. QED BY <3>1, SlotsKept
  <2>5. CASE StoreRunning(r)
    <3>1. Owners' = Owners /\ slots' = slots /\ Holds' = Holds
      BY <1>0, <2>5 DEF StoreRunning, Written, Owners, OwnerPhases, Holds, DrainHolds
    <3>2. QED BY <3>1, SlotsKept
  <2>6. CASE StoreTerminal(r)
    <3>1. Owners' = Owners /\ slots' = slots /\ Holds' = Holds
      BY <1>0, <2>6 DEF StoreTerminal, Written, Owners, OwnerPhases, Holds, DrainHolds
    <3>2. QED BY <3>1, SlotsKept
  <2>7. QED BY <1>2, <2>1, <2>2, <2>3, <2>4, <2>5, <2>6 DEF Execution
<1>3. ASSUME DrainStep PROVE SlotsAccounted'
  <2>1. CASE DrainWake
    <3>1. Owners' = Owners /\ slots' = slots /\ Holds' = Holds
      BY <1>0, <2>1 DEF DrainWake, Asleep, Owners, OwnerPhases, Holds, DrainHolds
    <3>2. QED BY <3>1, SlotsKept
  <2>2. CASE DrainExit
    <3>1. Owners' = Owners /\ slots' = slots /\ Holds' = Holds
      BY <1>0, <2>2 DEF DrainExit, Asleep, Owners, OwnerPhases, Holds, DrainHolds
    <3>2. QED BY <3>1, SlotsKept
  <2>3. CASE DrainSleep
    <3>1. Owners' = Owners /\ slots' = slots /\ Holds' = Holds
      BY <1>0, <2>3 DEF DrainSleep, Owners, OwnerPhases, Holds, DrainHolds
    <3>2. QED BY <3>1, SlotsKept
  <2>4. CASE DrainExpire
    <3>1. Owners' = Owners /\ slots' = slots /\ Holds' = Holds
      BY <1>0, <2>4 DEF DrainExpire, EndQueued, Overdue, Owners, OwnerPhases, Holds,
         DrainHolds
    <3>2. QED BY <3>1, SlotsKept
  <2>5. CASE DrainExpireFails
    <3>1. Owners' = Owners /\ slots' = slots /\ Holds' = Holds
      BY <1>0, <2>5 DEF DrainExpireFails, EndQueued, Overdue, Owners, OwnerPhases, Holds,
         DrainHolds
    <3>2. QED BY <3>1, SlotsKept
  <2>6. CASE DrainReserve
    <3>1. Owners' = Owners /\ slots' = slots + (Holds' - Holds)
      BY <1>0, <2>6 DEF DrainReserve, Owners, OwnerPhases, Holds, DrainHolds
    <3>2. QED BY <3>1, SlotsMoved
  <2>7. CASE DrainAdmit
    <3>1. Owners' = Owners /\ slots' = slots /\ Holds' = Holds
      BY <1>0, <2>7 DEF DrainAdmit, Owners, OwnerPhases, Holds, DrainHolds
    <3>2. QED BY <3>1, SlotsKept
  <2>8. CASE DrainFails
    <3>1. Owners' = Owners /\ slots' = slots + (Holds' - Holds)
      BY <1>0, <2>8 DEF DrainFails, StepBack, Owners, OwnerPhases, Holds, DrainHolds
    <3>2. QED BY <3>1, SlotsMoved
  <2>9. CASE DrainResync
    <3>1. Owners' = Owners /\ slots' = slots + (Holds' - Holds)
      BY <1>0, <2>9 DEF DrainResync, StepBack, Owners, OwnerPhases, Holds, DrainHolds
    <3>2. QED BY <3>1, SlotsMoved
  <2>10. CASE DrainPick
    <3>1. Owners' = Owners /\ slots' = slots /\ Holds' = Holds
      BY <1>0, <2>10 DEF DrainPick, NextItem, Turn, Owners, OwnerPhases, Holds, DrainHolds
    <3>2. QED BY <3>1, SlotsKept
  <2>11. CASE DrainDrop
    <3>1. Owners' = Owners /\ slots' = slots + (Holds' - Holds)
      BY <1>0, <2>11 DEF DrainDrop, EndQueued, StepBack, Owners, OwnerPhases, Holds,
         DrainHolds
    <3>2. QED BY <3>1, SlotsMoved
  <2>12. CASE DrainValidate
    <3>1. Owners' = Owners /\ slots' = slots /\ Holds' = Holds
      BY <1>0, <2>12 DEF DrainValidate, Owners, OwnerPhases, Holds, DrainHolds
    <3>2. QED BY <3>1, SlotsKept
  <2>13. CASE DrainDequeue
    <3>1. Owners' = Owners /\ slots' = slots + (Holds' - Holds)
      BY <1>0, <2>13 DEF DrainDequeue, EndQueued, StepBack, Owners, OwnerPhases, Holds,
         DrainHolds
    <3>2. QED BY <3>1, SlotsMoved
  <2>14. CASE DrainLaunch
    <3>1. item \in Runs /\ item \notin Owners /\ Holds = 1 /\ Holds' = 0
      BY <2>14 DEF DrainLaunch, AdmissionInv, StartInv, DrainItem, Owners, OwnerPhases, Holds,
         DrainHolds
    <3>2. CASE Closing
      <4>1. Owners' = Owners /\ slots' = slots + (Holds' - Holds)
        BY <1>0, <2>14, <3>1, <3>2 DEF DrainLaunch, ReleaseSlot, Owners
      <4>2. QED BY <4>1, SlotsMoved
    <3>3. CASE ~Closing
      <4>1. Owners' = Owners \cup {item} /\ slots' = slots
        BY <1>0, <2>14, <3>1, <3>3 DEF DrainLaunch, Owners, OwnerPhases
      <4>2. Cardinality(Owners') = Cardinality(Owners) + 1 /\ Cardinality(Owners) \in Nat
        BY <3>1, <4>1, AddOne, Counts DEF Owners
      <4>3. QED BY <3>1, <4>1, <4>2 DEF SlotsAccounted, Holds
    <3>4. QED BY <3>2, <3>3
  <2>15. QED BY <1>3, <2>1, <2>2, <2>3, <2>4, <2>5, <2>6, <2>7, <2>8, <2>9, <2>10,
     <2>11, <2>12, <2>13, <2>14 DEF DrainStep
<1>4. ASSUME NEW j \in Jobs, Registry(j) PROVE SlotsAccounted'
  <2>1. CASE SetEnabled(j)
    <3>1. Owners' = Owners /\ slots' = slots /\ Holds' = Holds
      BY ZenonT(60), <1>0, <2>1 DEF SetEnabled, Edit, EndQueued, Owners, OwnerPhases, Holds, DrainHolds
    <3>2. QED BY <3>1, SlotsKept
  <2>2. CASE DeleteDefinition(j)
    <3>1. Owners' = Owners /\ slots' = slots /\ Holds' = Holds
      BY <1>0, <2>2 DEF DeleteDefinition, Edit, EndQueued, Owners, OwnerPhases, Holds,
         DrainHolds
    <3>2. QED BY <3>1, SlotsKept
  <2>3. CASE PutDefinition(j)
    <3>1. Owners' = Owners /\ slots' = slots /\ Holds' = Holds
      BY <1>0, <2>3 DEF PutDefinition, Edit, Owners, OwnerPhases, Holds, DrainHolds
    <3>2. QED BY <3>1, SlotsKept
  <2>4. CASE SyncRemoves(j)
    <3>1. Owners' = Owners /\ slots' = slots /\ Holds' = Holds
      BY <1>0, <2>4 DEF SyncRemoves, Edit, Owners, OwnerPhases, Holds, DrainHolds
    <3>2. QED BY <3>1, SlotsKept
  <2>5. QED BY <1>4, <2>1, <2>2, <2>3, <2>4 DEF Registry
<1>5. ASSUME Lifetime PROVE SlotsAccounted'
  <2>1. CASE ResumeQueue
    <3>1. Owners' = Owners /\ slots' = slots /\ Holds' = Holds
      BY ZenonT(60), <1>0, <2>1 DEF ResumeQueue, BootInv, Owners, OwnerPhases, Holds, DrainHolds
    <3>2. QED BY <3>1, SlotsKept
  <2>2. CASE Restart
    <3>1. Owners' = {} /\ slots' = 0 /\ Holds' = 0
      BY ZenonT(60), <2>2 DEF Restart, Owners, OwnerPhases, Holds, DrainHolds
    <3>2. QED BY <3>1, FS_EmptySet DEF SlotsAccounted, Holds
  <2>3. CASE BeginShutdown
    <3>1. Owners' = Owners /\ slots' = slots /\ Holds' = Holds
      BY <1>0, <2>3 DEF BeginShutdown, Owners, OwnerPhases, Holds, DrainHolds
    <3>2. QED BY <3>1, SlotsKept
  <2>4. CASE ShutdownSnapshot
    <3>1. Owners' = Owners /\ slots' = slots /\ Holds' = Holds
      BY <1>0, <2>4 DEF ShutdownSnapshot, Owners, OwnerPhases, Holds, DrainHolds
    <3>2. QED BY <3>1, SlotsKept
  <2>5. CASE ShutdownDone
    <3>1. Owners' = Owners /\ slots' = slots /\ Holds' = Holds
      BY ZenonT(60), <1>0, <2>5 DEF ShutdownDone, Owners, OwnerPhases, Holds, DrainHolds
    <3>2. QED BY <3>1, SlotsKept
  <2>6. QED BY <1>5, <2>1, <2>2, <2>3, <2>4, <2>5 DEF Lifetime
<1>6. ASSUME NEW r \in Runs, Age(r) PROVE SlotsAccounted'
  <2>1. Owners' = Owners /\ slots' = slots /\ Holds' = Holds
    BY ZenonT(60), <1>0, <1>6 DEF Age, Owners, OwnerPhases, Holds, DrainHolds
  <2>2. QED BY <2>1, SlotsKept
<1>7. ASSUME NEW r \in Runs, CancelQueued(r) PROVE SlotsAccounted'
  <2>1. Owners' = Owners /\ slots' = slots /\ Holds' = Holds
    BY ZenonT(60), <1>0, <1>7 DEF CancelQueued, EndQueued, Owners, OwnerPhases, Holds, DrainHolds
  <2>2. QED BY <2>1, SlotsKept
<1>8. CASE Pace
  <2>1. Owners' = Owners /\ slots' = slots /\ Holds' = Holds
    BY ZenonT(60), <1>0, <1>8 DEF Pace, Owners, OwnerPhases, Holds, DrainHolds
  <2>2. QED BY <2>1, SlotsKept
<1>9. CASE UNCHANGED vars
  BY <1>0, <1>9, SlotsKept DEF vars, Owners, Holds
<1>10. QED BY <1>1, <1>2, <1>3, <1>4, <1>5, <1>6, <1>7, <1>8, <1>9 DEF Next
=============================================================================
