------------------------------ MODULE ExecQueue ------------------------------
(***************************************************************************)
(* Admission, capacity and the durable execution queue of the executor     *)
(* (internal/executor/executor.go, queue.go; internal/store/queue.go;      *)
(* ADR-9), with shutdown, crash and restart.                               *)
(*                                                                         *)
(* Every trigger call owns the run id it would create, so a call and its   *)
(* run are one element of Runs: phase[r] is where the goroutine working on *)
(* r stands, status[r] is what the runs table says of it.  Two threads of  *)
(* control share the state with the callers: the drain loop and the        *)
(* operator (registry edits, cancellation, shutdown).                      *)
(*                                                                         *)
(* History writes (row, running and terminal state of a launched run) are  *)
(* only ordered here: they happen at some point after the fact, or never.  *)
(***************************************************************************)
EXTENDS Integers, FiniteSets

CONSTANTS
    Runs,           \* run identifiers, one per trigger call
    Jobs,           \* job definitions (a name keeps its definition_id for ever)
    Requests,       \* what a call may ask for: records [job, trigger, tag]
    SkipJobs,       \* jobs with on_overlap = "skip"
    HistSkipJobs,   \* jobs with on_history_unavailable = "skip"
    Capacity,       \* scheduler.max_concurrent_runs
    MaxItems,       \* queue.max_items
    MaxPerJob,      \* queue.max_per_job
    ExpireBatch,    \* queueExpireBatch
    QueueModes,     \* values queue.enabled may have at a start
    Budgets,        \* whether an edited definition still allows a pending retry
    Outcomes,       \* what the executions end in
    World,          \* what the environment does (see Happens)
    NoTag,          \* no idempotency key and no occurrence
    NoRun,          \* nobody
    Drain           \* the drain loop as holder of the admission slot

Triggers == {"schedule", "manual", "retry", "startup"}

ASSUME RunsFinite == IsFiniteSet(Runs)
ASSUME Sentinels == NoRun \notin Runs /\ Drain \notin Runs /\ NoRun # Drain
ASSUME Limits == /\ Capacity \in Nat \ {0}
                 /\ MaxItems \in Nat \ {0}
                 /\ MaxPerJob \in Nat \ {0}
                 /\ ExpireBatch \in Nat \ {0}
ASSUME JobsFinite == IsFiniteSet(Jobs)
ASSUME RequestShape == \A q \in Requests : q.job \in Jobs /\ q.trigger \in Triggers
ASSUME ModesAreBoolean == QueueModes \subseteq BOOLEAN /\ Budgets \subseteq BOOLEAN

ASSUME OutcomesKnown ==
    /\ Outcomes \subseteq {"succeeded", "failed", "timeout", "stopped", "interrupted"}
    /\ "failed" \in Outcomes

VARIABLES
    \* durable: the metadata database
    status,     \* status[r]: runs.status, "none" when there is no row
    queue,      \* exec_queue: the run ids that have a queue row
    seq,        \* exec_queue.seq of a queued run
    lastSeq,    \* AUTOINCREMENT high-water mark of exec_queue
    def,        \* def[j]: "on", "off" (disabled) or "gone" (soft-deleted)
    budget,     \* budget[j]: definition j still allows the attempt retried
    \* volatile: the executor
    phase,      \* phase[r]: where the call or the execution of r stands
    adm,        \* holder of the one-slot admission semaphore
    slots,      \* capacity slots taken
    depth,      \* queueState.depth, the in-memory mirror of the row count
    wake,       \* queueState.wake holds a token
    loop,       \* where the drain loop stands
    item,       \* the queue item the drain loop is working on
    gone,       \* items it has expired but not yet deducted from depth
    paced,      \* drain_rate does not yet allow the next start
    served,     \* served[j]: recency rank of j's last turn, 0 for never
    late,       \* runs whose row waits for the history writer
    qon,        \* queue.enabled of this daemon process
    stage,      \* life of the daemon process
    joins,      \* runs Shutdown waits for
    \* the world outside
    req,        \* req[r]: what call r asks for
    outcome,    \* how the process of r ended, "none" until then
    aged,       \* queued runs whose expires_us has passed
    reply,      \* what call r returned to its caller
    spawned     \* runs whose process was ever started

durable  == <<status, queue, seq, lastSeq>>
registry == <<def, budget>>
drain    == <<loop, item, gone, paced, served>>
service  == <<late, qon, stage, joins>>
outside  == <<req, outcome, aged, spawned>>
vars     == <<durable, registry, phase, adm, slots, depth, wake, drain, service,
              outside, reply>>

Lifecycle == INSTANCE RunLifecycle WITH ended <- outcome

(***************************************************************************)
(* The environment: "crash" kills and restarts the daemon, "shutdown"      *)
(* stops it in order, "registry" edits definitions, "expire" lets queued   *)
(* items age, "cancel" stops queued runs and lets callers give up,         *)
(* "unavailable" makes a statement fail, "ambiguous" makes one fail after  *)
(* it committed, "enqueueAmbiguous" does that to the enqueue, "bootFails"  *)
(* lets the recovery or the queue count of a start fail (both are only     *)
(* logged).                                                                *)
(***************************************************************************)
Happens(what) == what \in World

\* Phases of a trigger call, of a run holding a registration, of a slot owner.
CallPhases   == {"begun", "admitted", "route", "enqueue", "enqueued", "skip",
                 "slot", "launch"}
ActivePhases == {"live", "ended"}
OwnerPhases  == {"slot", "launch", "live", "ended", "freed"}
Phases       == {"idle", "done", "declined", "dead", "freed"}
                    \cup CallPhases \cup ActivePhases

Replies == {"none", "started", "queued", "skipped", "existing", "conflict",
            "full", "unavailable", "capacity", "error", "shutdown", "disabled"}

DrainHolds == {"slot", "held", "picked", "valid", "dequeued"}
Asleep     == {"idle", "timer", "full"}
LoopStates == {"off", "step", "expired"} \cup Asleep \cup DrainHolds
Stages     == {"init", "serving", "closing", "joining", "exited"}

Closing    == stage \in {"closing", "joining", "exited"}
JobOf(r)   == req[r].job
Active(j)  == {q \in Runs : phase[q] \in ActivePhases /\ JobOf(q) = j}
PerJob(j)  == {q \in queue : JobOf(q) = j}

\* Jobs with on_overlap = "skip" that already have a registered run.
Overlaps(r) == JobOf(r) \in SkipJobs /\ Active(JobOf(r)) # {}

Queueable(r) == qon /\ req[r].trigger \in {"schedule", "manual", "retry"}

\* The live idempotency reservation of r's key, and the unique index on
\* scheduled occurrences.
Keyed(r)    == req[r].trigger = "manual" /\ req[r].tag # NoTag
\* Mutant: a key is forgotten once its run has ended.
KeyOwnerActive(r) == {q \in Runs : /\ Keyed(r) /\ Keyed(q) /\ req[q].tag = req[r].tag
                                   /\ status[q] \in {"queued", "pending", "running"}}

KeyOwner(r) == {q \in Runs : /\ Keyed(r) /\ Keyed(q)
                             /\ status[q] # "none" /\ req[q].tag = req[r].tag}
\* Mutant: the unique index covers only rows that have not ended.
OccTakenActive(r) == /\ req[r].trigger = "schedule"
                     /\ \E q \in Runs \ {r} : /\ req[q] = req[r]
                                             /\ status[q] \in {"queued", "pending", "running"}

OccTaken(r) == /\ req[r].trigger = "schedule"
               /\ \E q \in Runs \ {r} : status[q] # "none" /\ req[q] = req[r]

\* Replay of the run that owns the key, or a conflict when the key is bound to
\* another target.
KeyReply(r) == IF \E q \in KeyOwner(r) : JobOf(q) # JobOf(r)
               THEN "conflict" ELSE "existing"

TypeOK ==
    /\ status \in [Runs -> Lifecycle!Statuses]
    /\ queue \in SUBSET Runs
    /\ seq \in [Runs -> Nat]
    /\ lastSeq \in Nat
    /\ def \in [Jobs -> {"on", "off", "gone"}]
    /\ budget \in [Jobs -> BOOLEAN]
    /\ phase \in [Runs -> Phases]
    /\ adm \in Runs \cup {NoRun, Drain}
    /\ slots \in 0..Capacity
    /\ depth \in Int
    /\ wake \in BOOLEAN
    /\ loop \in LoopStates
    /\ item \in Runs \cup {NoRun}
    /\ gone \in Nat
    /\ paced \in BOOLEAN
    /\ served \in [Jobs -> Nat]
    /\ late \in SUBSET Runs
    /\ qon \in BOOLEAN
    /\ stage \in Stages
    /\ joins \in SUBSET Runs
    /\ req \in [Runs -> Requests]
    /\ outcome \in [Runs -> Outcomes \cup {"none", "skipped"}]
    /\ aged \in SUBSET Runs
    /\ reply \in [Runs -> Replies]
    /\ spawned \in SUBSET Runs

Init ==
    /\ status = [r \in Runs |-> "none"]
    /\ queue = {}
    /\ seq = [r \in Runs |-> 0]
    /\ lastSeq = 0
    /\ def = [j \in Jobs |-> "on"]
    /\ budget = [j \in Jobs |-> TRUE]
    /\ phase = [r \in Runs |-> "idle"]
    /\ adm = NoRun
    /\ slots = 0
    /\ depth = 0
    /\ wake = FALSE
    /\ loop = "off"
    /\ item = NoRun
    /\ gone = 0
    /\ paced = FALSE
    /\ served = [j \in Jobs |-> 0]
    /\ late = {}
    /\ qon \in QueueModes
    /\ stage = "init"
    /\ joins = {}
    /\ req \in [Runs -> Requests]
    /\ outcome = [r \in Runs |-> "none"]
    /\ aged = {}
    /\ reply = [r \in Runs |-> "none"]
    /\ spawned = {}
-----------------------------------------------------------------------------
(***************************************************************************)
(* A trigger call                                                          *)
(***************************************************************************)
Goto(r, p)   == phase' = [phase EXCEPT ![r] = p] /\ UNCHANGED reply
Answer(r, a) == /\ phase' = [phase EXCEPT ![r] = "done"]
                /\ reply' = [reply EXCEPT ![r] = a]

\* Mutant: a return that keeps the admission slot.
ReturnHolding(r, a) == Answer(r, a) /\ UNCHANGED adm

\* The deferred release of the admission slot on every return.
Return(r, a) == Answer(r, a) /\ adm' = NoRun

\* Mutants: the slot is given back twice; the drain loop is not told.
ReleaseTwice  == slots' = slots - 2 /\ wake' = (wake \/ depth > 0)
ReleaseSilent == slots' = slots - 1 /\ UNCHANGED wake

\* releaseSlot: frees a slot and wakes the drain loop when items are waiting.
ReleaseSlot == slots' = slots - 1 /\ wake' = (wake \/ depth > 0)

InFlight == {r \in Runs : phase[r] \in CallPhases \cup ActivePhases \cup {"freed"}}

\* An [[init]] job did not succeed: the start is given up.
InitFailed == \E r \in Runs : /\ req[r].trigger = "startup" /\ outcome[r] # "succeeded"
                              /\ phase[r] \in {"done", "declined"}

\* The caller loads an enabled definition and registers with shutdown.  The
\* [[init]] jobs run one after another before the queue is resumed; every other
\* trigger comes later.
Begin(r) ==
    /\ phase[r] = "idle" /\ def[JobOf(r)] = "on"
    /\ IF req[r].trigger = "startup" THEN stage = "init" /\ InFlight = {} /\ ~InitFailed
                                     ELSE stage = "serving"
    /\ Goto(r, "begun")
    /\ UNCHANGED <<durable, registry, adm, slots, depth, wake, drain, service, outside>>

\* A call that finds the daemon closing, or whose definition is disabled,
\* returns an error and has no effect.
Refuse(r) ==
    /\ phase[r] = "idle" /\ req[r].trigger # "startup"
    /\ \/ stage \in {"closing", "joining"} /\ Answer(r, "shutdown")
       \/ stage = "serving" /\ def[JobOf(r)] = "off" /\ Answer(r, "disabled")
    /\ UNCHANGED <<durable, registry, adm, slots, depth, wake, drain, service, outside>>

\* acquireAdmission: a free slot is taken without looking at shutdown; a call
\* that has to wait gives up when shutdown begins or its caller does.
Admit(r) ==
    /\ phase[r] = "begun" /\ adm = NoRun
    /\ adm' = r
    /\ Goto(r, "admitted")
    /\ UNCHANGED <<durable, registry, slots, depth, wake, drain, service, outside>>

Abandon(r) ==
    /\ phase[r] = "begun" /\ adm # NoRun
    /\ \/ Closing /\ Answer(r, "shutdown")
       \/ Happens("cancel") /\ Answer(r, "error")
    /\ UNCHANGED <<durable, registry, adm, slots, depth, wake, drain, service, outside>>

\* Under admission: shutdown is checked again, then the job's overlap policy.
Check(r) ==
    /\ phase[r] = "admitted"
    /\ \/ Closing /\ Return(r, "shutdown")
       \/ ~Closing /\ Overlaps(r) /\ Goto(r, "skip") /\ UNCHANGED adm
       \/ ~Closing /\ ~Overlaps(r) /\ Goto(r, "route") /\ UNCHANGED adm
    /\ UNCHANGED <<durable, registry, slots, depth, wake, drain, service, outside>>

\* Mutant: a free slot is taken whatever waits in the queue.
RouteOvertakes(r) ==
    /\ phase[r] = "route"
    /\ \/ slots < Capacity /\ slots' = slots + 1 /\ Goto(r, "slot")
       \/ slots = Capacity /\ Goto(r, IF Queueable(r) THEN "enqueue" ELSE "skip") /\ UNCHANGED slots
    /\ UNCHANGED <<durable, registry, adm, depth, wake, drain, service, outside>>

\* Newer work never overtakes queued work: a queueable trigger joins a
\* non-empty queue even when a slot is free.
Route(r) ==
    /\ phase[r] = "route"
    /\ \/ Queueable(r) /\ (depth > 0 \/ slots = Capacity)
          /\ Goto(r, "enqueue") /\ UNCHANGED <<adm, slots>>
       \/ ~(Queueable(r) /\ depth > 0) /\ slots < Capacity
          /\ slots' = slots + 1 /\ Goto(r, "slot") /\ UNCHANGED adm
       \/ ~Queueable(r) /\ slots = Capacity /\ req[r].trigger = "retry"
          /\ Return(r, "capacity") /\ UNCHANGED slots
       \/ ~Queueable(r) /\ slots = Capacity /\ req[r].trigger # "retry"
          /\ Goto(r, "skip") /\ UNCHANGED <<adm, slots>>
    /\ UNCHANGED <<durable, registry, depth, wake, drain, service, outside>>

\* Mutant: an early return that forgets the slot.
GiveBackNothing(r) == UNCHANGED <<slots, wake>>

\* The slot a call gives back when it returns without launching.
GiveBack(r) == IF phase[r] = "slot" THEN ReleaseSlot ELSE UNCHANGED <<slots, wake>>

\* AdmitIdempotentRun and EnqueueRun answer with the run that owns the key.
Replay(r) ==
    /\ phase[r] \in {"enqueue", "skip", "slot"} /\ KeyOwner(r) # {}
    /\ Return(r, KeyReply(r)) /\ GiveBack(r)
    /\ UNCHANGED <<durable, registry, depth, drain, service, outside>>

\* The caller's context ends: seen under admission before anything is done, or by
\* a statement, which then has no effect.
GiveUp(r) ==
    /\ phase[r] \in {"admitted", "enqueue", "skip", "slot"} /\ Happens("cancel")
    /\ Return(r, "error") /\ GiveBack(r)
    /\ UNCHANGED <<durable, registry, depth, drain, service, outside>>

\* Mutant: the limits are compared after the row is counted in.
QueueRefusesLate(r) == \/ JobOf(r) \in SkipJobs /\ PerJob(JobOf(r)) # {}
                       \/ Cardinality(queue) > MaxItems
                       \/ Cardinality(PerJob(JobOf(r))) > MaxPerJob

QueueRefuses(r) == \/ JobOf(r) \in SkipJobs /\ PerJob(JobOf(r)) # {}
                   \/ Cardinality(queue) >= MaxItems
                   \/ Cardinality(PerJob(JobOf(r))) >= MaxPerJob

\* The unique index refuses a second row for a scheduled occurrence; the call
\* answers with the run that has it.
Taken(r) ==
    /\ phase[r] \in {"enqueue", "skip", "slot"} /\ OccTaken(r)
    /\ phase[r] = "enqueue" => ~QueueRefuses(r)
    /\ Return(r, "existing") /\ GiveBack(r)
    /\ UNCHANGED <<durable, registry, depth, drain, service, outside>>

\* EnqueueRun refuses: a second queued item of an overlap-skip job, or a limit.
EnqueueRefused(r) ==
    /\ phase[r] = "enqueue" /\ KeyOwner(r) = {} /\ QueueRefuses(r)
    /\ IF \/ JobOf(r) \in SkipJobs /\ PerJob(JobOf(r)) # {}
          \/ req[r].trigger = "schedule"
       THEN Goto(r, "skip") /\ UNCHANGED adm
       ELSE Return(r, IF req[r].trigger = "retry" THEN "capacity" ELSE "full")
    /\ UNCHANGED <<durable, registry, slots, depth, wake, drain, service, outside>>

\* The run row and the queue row, in one transaction.
InsertQueued(r) ==
    /\ KeyOwner(r) = {} /\ ~OccTaken(r) /\ ~QueueRefuses(r)
    /\ status' = [status EXCEPT ![r] = "queued"]
    /\ queue' = queue \cup {r}
    /\ lastSeq' = lastSeq + 1
    /\ seq' = [seq EXCEPT ![r] = lastSeq + 1]

EnqueueCommit(r) ==
    /\ phase[r] = "enqueue"
    /\ InsertQueued(r)
    /\ Goto(r, "enqueued")
    /\ UNCHANGED <<registry, adm, slots, depth, wake, drain, service, outside>>

\* Mutant: the call is acknowledged before the row is known to be stored.
QueueErrorsSwallowed(r) == {"queued"}

QueueErrors(r) == IF req[r].trigger = "retry" THEN {"capacity"} ELSE {"unavailable"}

EnqueueFails(r) ==
    /\ phase[r] = "enqueue" /\ Happens("unavailable")
    /\ \E a \in QueueErrors(r) : Return(r, a)
    /\ UNCHANGED <<durable, registry, slots, depth, wake, drain, service, outside>>

\* The commit took effect and still reported an error.  A scheduled call may
\* then find its own row and report it as an existing run.
EnqueueAmbiguous(r) ==
    /\ phase[r] = "enqueue" /\ Happens("enqueueAmbiguous")
    /\ InsertQueued(r)
    /\ \E a \in QueueErrors(r) \cup
               (IF req[r].trigger = "schedule" THEN {"existing"} ELSE {}) : Return(r, a)
    /\ UNCHANGED <<registry, slots, depth, wake, drain, service, outside>>

\* Mutants: the loop is not started; a call that meets shutdown after the commit
\* reports an error.
EnqueuedUnarmed(r) ==
    /\ phase[r] = "enqueued" /\ depth' = depth + 1 /\ Return(r, "queued")
    /\ UNCHANGED <<durable, registry, slots, wake, drain, service, outside>>
EnqueuedDenied(r) ==
    /\ phase[r] = "enqueued" /\ depth' = depth + 1
    /\ wake' = TRUE /\ loop' = IF loop = "off" THEN "step" ELSE loop
    /\ Return(r, IF Closing THEN "shutdown" ELSE "queued")
    /\ UNCHANGED <<durable, registry, slots, item, gone, paced, served, service, outside>>

\* After the commit: the mirror is raised, the drain loop started and woken.
Enqueued(r) ==
    /\ phase[r] = "enqueued"
    /\ depth' = depth + 1
    /\ IF Closing THEN UNCHANGED <<wake, loop>>
       ELSE wake' = TRUE /\ loop' = IF loop = "off" THEN "step" ELSE loop
    /\ Return(r, "queued")
    /\ UNCHANGED <<durable, registry, slots, item, gone, paced, served, service, outside>>

\* recordSkipped: a declined trigger leaves a skipped row; without the database
\* the row is handed to the history writer if that has room, or the keyed call
\* reports the error.  The failed insert may have committed.
SkipStored(r) ==
    /\ phase[r] = "skip" /\ KeyOwner(r) = {} /\ ~OccTaken(r)
    /\ status' = [status EXCEPT ![r] = "skipped"]
    /\ Return(r, "skipped")
    /\ UNCHANGED <<queue, seq, lastSeq, registry, slots, depth, wake, drain, service, outside>>

SkipFails(r) ==
    /\ phase[r] = "skip" /\ Happens("unavailable")
    /\ \/ UNCHANGED status
       \/ Happens("ambiguous") /\ KeyOwner(r) = {} /\ ~OccTaken(r)
          /\ status' = [status EXCEPT ![r] = "skipped"]
    /\ \/ Keyed(r) /\ Return(r, "error") /\ UNCHANGED late
       \/ ~Keyed(r) /\ Return(r, "skipped")
          /\ late' \in {late, IF Closing THEN late ELSE late \cup {r}}
    /\ UNCHANGED <<queue, seq, lastSeq, registry, slots, depth, wake, drain, qon, stage,
                   joins, outside>>

\* With a slot: the pending row is stored and the run may be launched.
RowStored(r) ==
    /\ phase[r] = "slot" /\ KeyOwner(r) = {} /\ ~OccTaken(r)
    /\ status' = [status EXCEPT ![r] = "pending"]
    /\ Goto(r, "launch")
    /\ UNCHANGED <<queue, seq, lastSeq, registry, adm, slots, depth, wake, drain,
                   service, outside>>

\* A keyed admission needs its row; on an error the call gives the slot back.
RowKeyFails(r) ==
    /\ phase[r] = "slot" /\ Keyed(r) /\ Happens("unavailable")
    /\ \/ UNCHANGED status
       \/ Happens("ambiguous") /\ KeyOwner(r) = {}
          /\ status' = [status EXCEPT ![r] = "pending"]
    /\ Return(r, "error") /\ ReleaseSlot
    /\ UNCHANGED <<queue, seq, lastSeq, registry, depth, drain, service, outside>>

\* Execution first: without the database the run is launched and its row is
\* deferred (dropped when the writer is full), unless the job opted out.  The
\* failed insert may have committed.
RowDeferred(r) ==
    /\ phase[r] = "slot" /\ ~Keyed(r) /\ Happens("unavailable")
    /\ \/ UNCHANGED status /\ late' \in {late, IF Closing THEN late ELSE late \cup {r}}
       \/ Happens("ambiguous") /\ ~OccTaken(r) /\ ~Closing
          /\ status' = [status EXCEPT ![r] = "pending"] /\ late' = late \cup {r}
    /\ IF JobOf(r) \in HistSkipJobs
       THEN /\ phase' = [phase EXCEPT ![r] = "declined"]
            /\ reply' = [reply EXCEPT ![r] = "skipped"]
            /\ outcome' = [outcome EXCEPT ![r] = "skipped"]
            /\ adm' = NoRun /\ ReleaseSlot
       ELSE Goto(r, "launch") /\ UNCHANGED <<outcome, adm, slots, wake>>
    /\ UNCHANGED <<queue, seq, lastSeq, registry, depth, drain, qon, stage, joins,
                   req, aged, spawned>>

\* Mutant: registration does not look at closing.
LaunchUnchecked(r) ==
    /\ phase[r] = "launch"
    /\ phase' = [phase EXCEPT ![r] = "live"]
    /\ reply' = [reply EXCEPT ![r] = "started"]
    /\ spawned' = spawned \cup {r} /\ adm' = NoRun
    /\ UNCHANGED <<durable, registry, slots, depth, wake, drain, service, req, outcome, aged>>

\* Registration and shutdown exclude each other under Service.mu.
Launch(r) ==
    /\ phase[r] = "launch" /\ ~Closing
    /\ phase' = [phase EXCEPT ![r] = "live"]
    /\ reply' = [reply EXCEPT ![r] = "started"]
    /\ spawned' = spawned \cup {r}
    /\ adm' = NoRun
    /\ UNCHANGED <<durable, registry, slots, depth, wake, drain, service, req, outcome, aged>>

\* A run refused at registration: its deferred row is dropped, a stored row is
\* finished as failed/start_error when the database takes it.
RefusedStatus(r) ==
    \/ status[r] = "pending" /\ status' = [status EXCEPT ![r] = "failed"]
    \/ (status[r] # "pending" \/ Happens("unavailable")) /\ UNCHANGED status

\* Mutant: a refused launch keeps its slot.
LaunchRefusedLeaks(r) ==
    /\ phase[r] = "launch" /\ Closing
    /\ RefusedStatus(r) /\ late' = late \ {r} /\ Return(r, "shutdown")
    /\ UNCHANGED <<queue, seq, lastSeq, registry, slots, depth, wake, drain, qon, stage, joins,
                   outside>>

LaunchRefused(r) ==
    /\ phase[r] = "launch" /\ Closing
    /\ RefusedStatus(r)
    /\ late' = late \ {r}
    /\ Return(r, "shutdown") /\ ReleaseSlot
    /\ UNCHANGED <<queue, seq, lastSeq, registry, depth, drain, qon, stage, joins, outside>>
-----------------------------------------------------------------------------
(***************************************************************************)
(* Execution and its history                                               *)
(***************************************************************************)
\* The process ends, or could not be started at all (failed/start_error).
Finish(r) ==
    /\ phase[r] = "live"
    /\ \E o \in Outcomes :
          /\ o = "failed" \/ status[r] = "running" \/ Happens("unavailable")
          /\ outcome' = [outcome EXCEPT ![r] = o]
    /\ Goto(r, "ended")
    /\ UNCHANGED <<durable, registry, adm, slots, depth, wake, drain, service, req,
                   aged, spawned>>

\* execute's deferred cleanup: first the registration, then the slot.  While
\* the database works the terminal state was stored before.
Unregister(r) ==
    /\ phase[r] = "ended"
    /\ status[r] \in Lifecycle!Terminal \/ Happens("unavailable")
    /\ Goto(r, "freed")
    /\ UNCHANGED <<durable, registry, adm, slots, depth, wake, drain, service, outside>>

Release(r) ==
    /\ phase[r] = "freed"
    /\ Goto(r, "done") /\ ReleaseSlot
    /\ UNCHANGED <<durable, registry, adm, depth, drain, service, outside>>

\* The history of r, written inline or by the background writer: the row, the
\* running state, the terminal state, each after the one before.  What is still
\* deferred when the daemon exits is abandoned.
Written == <<queue, seq, lastSeq, registry, phase, adm, slots, depth, wake, drain,
             qon, stage, joins, outside, reply>>

StoreRow(r) ==
    /\ r \in late /\ stage # "exited"
    /\ IF status[r] = "none" /\ ~OccTaken(r)
       THEN status' = [status EXCEPT ![r] =
                          IF phase[r] = "done" /\ r \notin spawned THEN "skipped"
                                                                   ELSE "pending"]
       ELSE UNCHANGED status
    /\ late' = late \ {r}
    /\ UNCHANGED Written

StoreRunning(r) ==
    /\ r \in spawned /\ status[r] = "pending" /\ stage # "exited"
    /\ \/ phase[r] = "live"
       \/ phase[r] \in {"ended", "freed", "done"} /\ Happens("unavailable")
    /\ status' = [status EXCEPT ![r] = "running"]
    /\ UNCHANGED <<Written, late>>

\* Mutant: the terminal UPDATE without its status guard.
StoreTerminalUnguarded(r) ==
    /\ outcome[r] # "none"
    /\ status' = [status EXCEPT ![r] = outcome[r]]
    /\ UNCHANGED <<Written, late>>

StoreTerminal(r) ==
    /\ outcome[r] # "none" /\ status[r] \in {"pending", "running"} /\ stage # "exited"
    /\ status' = [status EXCEPT ![r] = outcome[r]]
    /\ UNCHANGED <<Written, late>>
-----------------------------------------------------------------------------
(***************************************************************************)
(* The drain loop                                                          *)
(***************************************************************************)
\* Mutants: the DELETE on exec_queue, or the UPDATE on runs, is missing.
EndQueuedKeepsRow(X, s) ==
    /\ status' = [r \in Runs |-> IF r \in X /\ status[r] = "queued" THEN s ELSE status[r]]
    /\ UNCHANGED <<queue, seq, lastSeq>>
EndQueuedKeepsStatus(X, s) == queue' = queue \ X /\ UNCHANGED <<status, seq, lastSeq>>

\* Ends the queued runs of X in one transaction with the given status.
EndQueued(X, s) ==
    /\ status' = [r \in Runs |-> IF r \in X /\ status[r] = "queued" THEN s ELSE status[r]]
    /\ queue' = queue \ X
    /\ seq' = [r \in Runs |-> IF r \in X THEN 0 ELSE seq[r]]
    /\ UNCHANGED lastSeq

\* Mutant: the reservation is kept on the way out.
StepBackHolding(l) == /\ adm' = IF adm = Drain THEN NoRun ELSE adm
                      /\ loop' = l /\ item' = NoRun /\ UNCHANGED slots

\* The loop gives its slot and admission back without a wake-up: it is the one
\* that would be woken.
StepBack(l) == /\ slots' = slots - 1
               /\ adm' = IF adm = Drain THEN NoRun ELSE adm
               /\ loop' = l /\ item' = NoRun

\* Asleep until woken ("idle"), until a rate-limit or backoff instant ("timer")
\* or, for want of a slot, until the next expiry ("full").
DrainWake ==
    /\ loop \in Asleep /\ ~Closing
    /\ \/ wake /\ wake' = FALSE
       \/ (loop = "timer" \/ (loop = "full" /\ aged \cap queue # {})) /\ UNCHANGED wake
    /\ loop' = "step"
    /\ UNCHANGED <<durable, registry, phase, adm, slots, depth, item, gone, paced,
                   served, service, outside, reply>>

\* Mutant: a sleeping loop does not listen to shutdown.
DrainExitAwake ==
    /\ loop = "step" /\ Closing
    /\ loop' = "off"
    /\ UNCHANGED <<durable, registry, phase, adm, slots, depth, wake, item, gone,
                   paced, served, service, outside, reply>>

DrainExit ==
    /\ loop \in Asleep \cup {"step"} /\ Closing
    /\ loop' = "off"
    /\ UNCHANGED <<durable, registry, phase, adm, slots, depth, wake, item, gone,
                   paced, served, service, outside, reply>>

DrainSleep ==
    /\ loop = "step" /\ depth <= 0
    /\ loop' = "idle"
    /\ UNCHANGED <<durable, registry, phase, adm, slots, depth, wake, item, gone,
                   paced, served, service, outside, reply>>

\* ExpireQueued takes the items whose expiry has passed, at most a batch, in
\* one transaction and without admission.
Overdue == LET E == aged \cap queue
           IN  {X \in SUBSET E : \/ X = E /\ Cardinality(E) <= ExpireBatch
                                 \/ Cardinality(X) = ExpireBatch}

DrainExpire ==
    /\ loop = "step" /\ depth > 0
    /\ \E X \in Overdue : EndQueued(X, "skipped") /\ gone' = Cardinality(X)
    /\ loop' = "expired"
    /\ UNCHANGED <<registry, phase, adm, slots, depth, wake, item, paced, served,
                   service, outside, reply>>

\* The statement fails, or its commit reports an error after all: the loop
\* backs off and deducts nothing.
DrainExpireFails ==
    /\ loop = "step" /\ depth > 0
    /\ \/ (Happens("unavailable") \/ Closing) /\ UNCHANGED durable
       \/ Happens("ambiguous") /\ \E X \in Overdue : EndQueued(X, "skipped")
    /\ loop' = "timer"
    /\ UNCHANGED <<registry, phase, adm, slots, depth, wake, item, gone, paced,
                   served, service, outside, reply>>

\* Deducts what expired, then reserves a slot or goes to sleep until the next
\* rate-limit or expiry instant (no timer when the table is empty after all).
DrainReserve ==
    /\ loop = "expired"
    /\ depth' = depth - gone /\ gone' = 0
    /\ \/ /\ gone = ExpireBatch
          /\ loop' = "step" /\ UNCHANGED slots
       \/ /\ gone # ExpireBatch /\ depth - gone <= 0
          /\ loop' = "idle" /\ UNCHANGED slots
       \/ /\ gone # ExpireBatch /\ depth - gone > 0 /\ paced
          /\ loop' = "timer" /\ UNCHANGED slots
       \/ /\ gone # ExpireBatch /\ depth - gone > 0 /\ ~paced /\ slots = Capacity
          /\ loop' \in (IF queue = {} THEN {"idle"} ELSE {"full"})
                          \cup {l \in {"timer"} : Happens("unavailable")}
          /\ UNCHANGED slots
       \/ /\ gone # ExpireBatch /\ depth - gone > 0 /\ ~paced /\ slots < Capacity
          /\ loop' = "slot" /\ slots' = slots + 1
    /\ UNCHANGED <<durable, registry, phase, adm, wake, item, paced, served, service,
                   outside, reply>>

DrainAdmit ==
    /\ loop = "slot" /\ adm = NoRun
    /\ adm' = Drain /\ loop' = "held"
    /\ UNCHANGED <<durable, registry, phase, slots, depth, wake, item, gone, paced,
                   served, service, outside, reply>>

\* Shutdown, or an error before anything was committed: the item stays queued.
DrainFails ==
    /\ \/ loop = "slot" /\ adm # NoRun /\ Closing
       \/ loop \in {"held", "picked", "valid"} /\ (Closing \/ Happens("unavailable"))
    /\ StepBack("timer")
    /\ UNCHANGED <<durable, registry, phase, depth, wake, gone, paced, served, service,
                   outside, reply>>

\* nextItem found no row: the mirror drifted, and is counted again.
DrainResync ==
    /\ loop = "held" /\ ~Closing /\ queue = {}
    /\ depth' = Cardinality(queue)
    /\ StepBack("step")
    /\ UNCHANGED <<durable, registry, phase, wake, gone, paced, served, service, outside,
                   reply>>

\* Mutant: the turn is fair, the age is not looked at.
NextItemAnyAge(i) == i \in queue /\ \A q \in queue : served[JobOf(i)] <= served[JobOf(q)]

\* The head of the least recently served definition, ties by age.
NextItem(i) == /\ i \in queue
               /\ \A q \in queue :
                     \/ served[JobOf(i)] < served[JobOf(q)]
                     \/ served[JobOf(i)] = served[JobOf(q)] /\ seq[i] <= seq[q]

\* Recency ranks instead of an ever-growing tick: j becomes the most recent.
Turn(j) == [k \in Jobs |-> IF k = j THEN Cardinality(Jobs)
                           ELSE IF served[k] > served[j] THEN served[k] - 1
                           ELSE served[k]]

DrainPick ==
    /\ loop = "held" /\ ~Closing
    /\ \E i \in queue : NextItem(i) /\ item' = i /\ served' = Turn(JobOf(i))
    /\ loop' = "picked"
    /\ UNCHANGED <<durable, registry, phase, adm, slots, depth, wake, gone, paced, service,
                   outside, reply>>

\* Mutant: the overlap policy is not checked again when an item is started.
StaleNoOverlap(i) == \/ status[i] # "queued" \/ i \in aged \/ def[JobOf(i)] # "on"
                     \/ req[i].trigger = "retry" /\ ~budget[JobOf(i)]

\* startQueued's checks against the current definition.
Stale(i) == \/ status[i] # "queued"
            \/ i \in aged
            \/ def[JobOf(i)] # "on"
            \/ req[i].trigger = "retry" /\ ~budget[JobOf(i)]
            \/ Overlaps(i)

DrainDrop ==
    /\ loop = "picked" /\ Stale(item)
    /\ EndQueued({item}, "skipped")
    /\ \/ depth' = depth - 1 /\ StepBack("step")
       \/ Happens("ambiguous") /\ UNCHANGED depth /\ StepBack("timer")
    /\ UNCHANGED <<registry, phase, wake, gone, paced, served, service, outside, reply>>

DrainValidate ==
    /\ loop = "picked" /\ ~Stale(item) /\ ~Closing
    /\ loop' = "valid"
    /\ UNCHANGED <<durable, registry, phase, adm, slots, depth, wake, item, gone, paced,
                   served, service, outside, reply>>

\* DequeueRun: the guarded UPDATE to pending and the removal of the queue row,
\* in one transaction; nothing to start when the run was ended elsewhere.
DrainDequeue ==
    /\ loop = "valid"
    /\ \/ /\ status[item] = "queued"
          /\ EndQueued({item}, "pending")
          /\ \/ loop' = "dequeued" /\ UNCHANGED <<adm, slots, item>>
             \/ Happens("ambiguous") /\ StepBack("timer")
          /\ UNCHANGED depth
       \/ /\ status[item] # "queued"
          /\ depth' = depth - 1
          /\ StepBack("step")
          /\ UNCHANGED durable
    /\ UNCHANGED <<registry, phase, wake, gone, paced, served, service, outside, reply>>

\* The slot now belongs to the run; a launch refused by shutdown spends it.
DrainLaunch ==
    /\ loop = "dequeued"
    /\ IF Closing
       THEN /\ RefusedStatus(item) /\ ReleaseSlot
            /\ UNCHANGED <<phase, spawned>>
       ELSE /\ phase' = [phase EXCEPT ![item] = "live"]
            /\ spawned' = spawned \cup {item}
            /\ UNCHANGED <<status, slots, wake>>
    /\ depth' = depth - 1
    /\ paced' = TRUE
    /\ adm' = NoRun /\ loop' = "step" /\ item' = NoRun
    /\ UNCHANGED <<queue, seq, lastSeq, registry, gone, served, service, req, outcome,
                   aged, reply>>

\* Time: the drain rate allows the next start; a queued item reaches its expiry.
Pace ==
    /\ paced
    /\ paced' = FALSE
    /\ UNCHANGED <<durable, registry, phase, adm, slots, depth, wake, loop, item, gone,
                   served, service, outside, reply>>

Age(r) ==
    /\ Happens("expire") /\ r \in queue \ aged
    /\ aged' = aged \cup {r}
    /\ UNCHANGED <<durable, registry, phase, adm, slots, depth, wake, drain, service, req,
                   outcome, spawned, reply>>
-----------------------------------------------------------------------------
(***************************************************************************)
(* The operator                                                            *)
(***************************************************************************)
\* Stop on a queued run holds the admission slot around CancelQueued.
CancelQueued(r) ==
    /\ Happens("cancel") /\ stage = "serving" /\ adm = NoRun /\ r \in queue
    /\ EndQueued({r}, "stopped")
    /\ \/ depth' = depth - 1
       \/ Happens("ambiguous") /\ UNCHANGED depth
    /\ UNCHANGED <<registry, phase, adm, slots, wake, drain, service, outside, reply>>

\* Mutant: an edit also corrects depth for the rows it may have ended.
EditCounts(j, d, b) ==
    /\ Happens("registry") /\ stage = "serving"
    /\ def' = [def EXCEPT ![j] = d] /\ budget' = [budget EXCEPT ![j] = b]
    /\ depth' = IF d = "on" THEN depth ELSE depth - Cardinality(PerJob(j))
    /\ UNCHANGED <<phase, adm, slots, wake, drain, service, outside, reply>>

\* Disabling or deleting a definition ends its queued runs in the same
\* transaction; depth is left to the drain loop's resync.
Edit(j, d, b) == /\ Happens("registry") /\ stage = "serving"
                 /\ def' = [def EXCEPT ![j] = d]
                 /\ budget' = [budget EXCEPT ![j] = b]
                 /\ UNCHANGED <<phase, adm, slots, depth, wake, drain, service, outside, reply>>

SetEnabled(j) ==
    /\ def[j] # "gone"
    /\ \/ Edit(j, "on", budget[j]) /\ UNCHANGED durable
       \/ Edit(j, "off", budget[j]) /\ EndQueued(PerJob(j), "skipped")

DeleteDefinition(j) ==
    /\ def[j] # "gone"
    /\ Edit(j, "gone", budget[j]) /\ EndQueued(PerJob(j), "skipped")

\* Creating, updating or importing keeps the name's definition_id, sets enabled
\* and the retry limit as given and leaves the queue alone; so does the removal
\* of a definition from the configuration.
PutDefinition(j) == \E d \in {"on", "off"}, b \in Budgets : Edit(j, d, b) /\ UNCHANGED durable
SyncRemoves(j)   == def[j] # "gone" /\ Edit(j, "gone", budget[j]) /\ UNCHANGED durable

BeginShutdown ==
    /\ \/ stage = "serving" /\ Happens("shutdown")
       \/ /\ stage = "init" /\ (Happens("shutdown") \/ InitFailed)
          /\ \A r \in Runs : phase[r] \notin CallPhases
    /\ stage' = "closing"
    /\ UNCHANGED <<durable, registry, phase, adm, slots, depth, wake, drain, late, qon, joins,
                   outside, reply>>

\* Shutdown stops and joins the runs registered at one instant after closing
\* was set, then waits for the calls in flight and the background loops.
ShutdownSnapshot ==
    /\ stage = "closing"
    /\ joins' = {r \in Runs : phase[r] \in ActivePhases}
    /\ stage' = "joining"
    /\ UNCHANGED <<durable, registry, phase, adm, slots, depth, wake, drain, late, qon,
                   outside, reply>>

ShutdownDone ==
    /\ stage = "joining"
    /\ \A r \in joins : phase[r] \notin ActivePhases \cup {"freed"}
    /\ \A r \in Runs : phase[r] \notin CallPhases
    /\ loop = "off"
    /\ stage' = "exited"
    /\ UNCHANGED <<durable, registry, phase, adm, slots, depth, wake, drain, late, qon, joins,
                   outside, reply>>

\* The daemon process ends, by a crash at any point or after a shutdown, and is
\* started again: memory is gone, recovery ends the runs that were under way,
\* queued rows survive.  The queue may be configured differently now.
Restart ==
    /\ stage = "exited" \/ Happens("crash")
    /\ \E fails \in {Happens("bootFails"), FALSE} :
          status' = [r \in Runs |->
                        IF /\ ~fails
                           /\ \/ status[r] \in {"pending", "running"}
                              \/ status[r] = "queued" /\ r \notin queue
                        THEN "interrupted" ELSE status[r]]
    /\ phase' = [r \in Runs |-> IF phase[r] = "idle" THEN "idle" ELSE "dead"]
    /\ adm' = NoRun /\ slots' = 0 /\ depth' = 0 /\ wake' = FALSE
    /\ loop' = "off" /\ item' = NoRun /\ gone' = 0 /\ paced' = FALSE
    /\ served' = [j \in Jobs |-> 0]
    /\ late' = {} /\ qon' \in QueueModes /\ stage' = "init" /\ joins' = {}
    /\ outcome' = [r \in Runs |-> "none"]
    /\ UNCHANGED <<queue, seq, lastSeq, registry, req, aged, spawned, reply>>

\* Mutant: the rows of an earlier process are counted only when one is enqueued.
ResumeQueueUncounted ==
    /\ stage = "init" /\ InFlight = {} /\ stage' = "serving"
    /\ UNCHANGED <<durable, registry, phase, adm, slots, depth, wake, drain, late, qon, joins,
                   outside, reply>>

\* After the [[init]] jobs: ResumeQueue counts the rows and arms the loop, then
\* the scheduler and the API start.  A failed count is only logged.
ResumeQueue ==
    /\ stage = "init" /\ InFlight = {} /\ ~InitFailed
    /\ \/ /\ depth' = Cardinality(queue)
          /\ wake' = (queue # {})
          /\ loop' = IF queue # {} THEN "step" ELSE "off"
       \/ Happens("bootFails") /\ UNCHANGED <<depth, wake, loop>>
    /\ stage' = "serving"
    /\ UNCHANGED <<durable, registry, phase, adm, slots, item, gone, paced, served, late,
                   qon, joins, outside, reply>>
-----------------------------------------------------------------------------
Call(r) == \/ Begin(r) \/ Refuse(r) \/ Admit(r) \/ Abandon(r) \/ Check(r) \/ Route(r)
           \/ Replay(r) \/ Taken(r)
           \/ EnqueueRefused(r) \/ EnqueueCommit(r) \/ EnqueueFails(r)
           \/ EnqueueAmbiguous(r) \/ Enqueued(r)
           \/ SkipStored(r) \/ SkipFails(r)
           \/ RowStored(r) \/ RowKeyFails(r) \/ RowDeferred(r)
           \/ Launch(r) \/ LaunchRefused(r) \/ GiveUp(r)

Execution(r) == \/ Finish(r) \/ Unregister(r) \/ Release(r)
                \/ StoreRow(r) \/ StoreRunning(r) \/ StoreTerminal(r)

DrainStep == \/ DrainWake \/ DrainExit \/ DrainSleep
             \/ DrainExpire \/ DrainExpireFails \/ DrainReserve
             \/ DrainAdmit \/ DrainFails \/ DrainResync \/ DrainPick
             \/ DrainDrop \/ DrainValidate \/ DrainDequeue \/ DrainLaunch

Registry(j) == SetEnabled(j) \/ DeleteDefinition(j) \/ PutDefinition(j) \/ SyncRemoves(j)

Lifetime == \/ ResumeQueue \/ Restart
            \/ BeginShutdown \/ ShutdownSnapshot \/ ShutdownDone

Next == \/ \E r \in Runs : Call(r) \/ Execution(r) \/ Age(r) \/ CancelQueued(r)
        \/ DrainStep \/ Pace
        \/ \E j \in Jobs : Registry(j)
        \/ Lifetime

Spec == Init /\ [][Next]_vars

(***************************************************************************)
(* Fairness: a goroutine that can run does, the database answers, every    *)
(* process ends (by itself, its timeout or the stop sequence) and clocks   *)
(* advance.  Nothing forces a call to arrive, an operator to act or the    *)
(* daemon to be restarted.                                                 *)
(***************************************************************************)
FairSpec == /\ Spec
            /\ \A r \in Runs : /\ WF_vars(phase[r] # "idle" /\ Call(r))
                               /\ WF_vars(Execution(r))
            /\ WF_vars(DrainStep) /\ WF_vars(Pace)
            /\ WF_vars(ResumeQueue) /\ WF_vars(ShutdownSnapshot) /\ WF_vars(ShutdownDone)
-----------------------------------------------------------------------------
(***************************************************************************)
(* Properties                                                              *)
(***************************************************************************)
Owners == {r \in Runs : phase[r] \in OwnerPhases}

\* Capacity is never leaked or freed twice: the slots taken are those of the
\* calls and runs that own one and of the drain loop's reservation, on every
\* error path of trigger, launch, execute and drainStep.
SlotsAccounted == slots = Cardinality(Owners) + IF loop \in DrainHolds THEN 1 ELSE 0

\* runs.status and exec_queue agree after every transaction: a run is queued
\* exactly while it has a queue row, so no queued run is unreachable for the
\* drain loop and no row points at a run that moved on.
QueuedIffRow == \A r \in Runs : r \in queue <=> status[r] = "queued"

\* on_overlap = "skip": a job never has two registered runs, although queued
\* items are validated long after they were admitted and the drain loop and the
\* trigger calls launch concurrently.
OverlapSkip == \A j \in SkipJobs : Cardinality(Active(j)) <= 1

\* A started run is never started again: it has no queue row, no call is about
\* to launch it and the drain loop is not about to, also after a crash between
\* DequeueRun and launch (DequeueRun: "no longer replayable").
NeverReplayed == \A r \in spawned : /\ r \notin queue
                                    /\ phase[r] \notin {"idle"} \cup CallPhases
                                    /\ loop = "dequeued" => item # r

Refusals == {"full", "unavailable", "capacity", "shutdown", "disabled", "skipped",
             "existing", "conflict", "error"}

\* An answer is binding: a run reported queued has its row, one reported started
\* was started, and a call that was refused, skipped or answered with another
\* run leaves nothing behind that would still be executed.
AnswersBind == \A r \in Runs : /\ reply[r] = "queued" => status[r] # "none"
                               /\ reply[r] = "started" => r \in spawned
                               /\ reply[r] \in Refusals => r \notin queue \cup spawned

\* The mirror never hides a row: while the daemon serves and outside the short
\* window between a commit and its depth.Add, depth is at least the number of
\* queue rows ("depth mirrors its row count"), so a drain loop that trusts
\* depth <= 0 leaves nothing behind.
DepthCovers == stage = "serving" /\ (\A r \in Runs : phase[r] # "enqueued") =>
                   depth >= Cardinality(queue)

\* "Concurrent triggers cannot overshoot" the limits: queue.max_items,
\* queue.max_per_job and the one queued item of an overlap-skip job hold whatever
\* was enqueued, resumed after a crash or acknowledged in doubt.
QueueBounded == /\ Cardinality(queue) <= MaxItems
                /\ \A j \in Jobs : /\ Cardinality(PerJob(j)) <= MaxPerJob
                                   /\ j \in SkipJobs => Cardinality(PerJob(j)) <= 1

\* No wake-up is lost: a loop asleep for want of work or of a slot, while there
\* are rows and a free slot, has a token waiting or an enqueue about to send one
\* (releaseSlot and enqueue signal a loop that may only just have decided to
\* sleep).
NoLostWake == loop \in {"idle", "full"} /\ queue # {} /\ slots < Capacity =>
                  wake \/ Closing \/ \E r \in Runs : phase[r] = "enqueued"

\* "Newer work never overtakes queued work": a queueable call that was given a
\* slot found the queue table empty, and it still is when the run is launched.
NoOvertake == \A r \in Runs : phase[r] \in {"slot", "launch"} /\ Queueable(r) => queue = {}

\* FIFO within a definition: the run that DequeueRun turns pending is the
\* oldest queued run of its definition.
DequeueFIFO == [][\A r \in queue \ queue' : status'[r] = "pending" =>
                     \A q \in PerJob(JobOf(r)) : seq[r] <= seq[q]]_vars

\* Shutdown's one snapshot is enough: when it returns no process is left behind
\* and no call or loop can still register one ("either joined by shutdown or
\* refused here").
JoinedBeforeExit == stage = "exited" => /\ \A r \in Runs : phase[r] \notin CallPhases \cup ActivePhases
                                        /\ loop = "off"

\* on_history_unavailable = "skip": two calls for one scheduled occurrence of
\* such a job start it at most once, whatever the database and crashes do.
OccurrenceOnce == \A r, q \in spawned :
    r # q /\ req[r] = req[q] /\ req[r].trigger = "schedule" => JobOf(r) \notin HistSkipJobs

\* Calls with one idempotency key start at most one run between them, whether it
\* was launched at once, queued, or refused with an error and repeated.
IdempotentOnce == \A r, q \in spawned :
    Keyed(r) /\ Keyed(q) /\ req[r].tag = req[q].tag => r = q

\* The stored status only moves along the documented lifecycle, with one
\* exception: a pending row may take the status its own process ended in.  No
\* late write, recovery or queue transaction moves a row back or sideways.
LifecycleRefined == Lifecycle!Spec

\* docs/architecture.md: of a pending run the allowed next states are "running,
\* failed(start_error), stopped, interrupted, skipped, missed", "enforced by
\* guarded UPDATEs in the store".
DocumentedLifecycle == Lifecycle!DocumentedSpec

\* Every queued run leaves the queue (started, dropped or cancelled) unless the
\* daemon is stopped first: no wake-up is lost between releaseSlot, enqueue,
\* ResumeQueue and the sleeping loop, also with a depth that drifted.
Drained == \A r \in Runs : (r \in queue /\ stage = "serving") ~> (r \notin queue \/ Closing)

\* Every call is answered and a shutdown ends: the admission slot, the capacity
\* and the loops never wait for each other in a circle.
Answered        == \A r \in Runs : phase[r] \in CallPhases ~> phase[r] \notin CallPhases
ShutdownEnds    == stage = "closing" ~> stage = "exited"

\* "ErrQueueUnavailable means the queue could not be persisted; nothing was
\* queued": a call answered that way has left no queue row.
UnavailableQueuesNothing == \A r \in Runs : reply[r] = "unavailable" => r \notin queue

\* ADR-9: at a full queue "schedule/retry callers get a terminal
\* skipped/queue_full run row".  Capacity is the only other reason to put a
\* retry off, and with the queue on it leads to the queue.
RetryFullSkipped == \A r \in Runs :
    qon /\ req[r].trigger = "retry" /\ reply[r] = "capacity" => status[r] = "skipped"
=============================================================================
