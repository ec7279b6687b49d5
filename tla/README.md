# minicrond in TLA+

A verification development for minicrond, a cron scheduler and worker supervisor
written in Go. It models the parts whose correctness depends on the order of
concurrent or failing steps, checks them with TLC on small instances and proves
the central facts with TLAPS for every instance. Paths below are relative to
`src/`.

## 1. The system

One daemon process, one SQLite metadata database, a log tier beside it.

| Part | Source | State | Operations |
|---|---|---|---|
| Trigger admission, execution queue | `internal/executor/{executor,queue}.go`, `internal/store/queue.go` | capacity channel, one-slot admission channel, `active`/`byJob`, `queueState` (depth, wake, served, nextStart); tables `runs`, `exec_queue`, `idempotency` | `trigger`, `enqueue`, `launch`, `execute`, `drainStep`, `startQueued`, `Stop`, `ResumeQueue`, `BeginShutdown`, `Shutdown` |
| Run lifecycle | `internal/store/store.go`, `internal/model/model.go` | `runs.status` | `CreateRun`, `AdmitIdempotentRun`, `EnqueueRun`, `DequeueRun`, `StartRun`, `FinishRunWithUsage`, `Recover` |
| History writer (ADR-16) | `internal/executor/{finalizer,storage}.go` | spool of unfinished writes, `health.down` | `spool`, `spooled`, `writeHistory`, `finalizePass` |
| Retry scheduler | `internal/executor/retries.go` | heap of due retries | `scheduleRetry`, `addRetry`, `retryStep` |
| Process execution | `internal/executor/executor.go` | process group, cause of the stop | `executeRun`, `stopGroup`, `classify`, `CleanupRecovered` |
| Worker supervisor | `internal/supervisor` | loops, holds, epochs, failures; `worker_state` | `Reload`, `StartDefinition`, `Stop`, `Restart`, `loop`, `persistExhaustion` |
| Scheduler | `internal/scheduler` | timetable, `schedule_state` (anchor, last, next) | `Reload`, `runPass`, `overdue`, `nextFire` |
| Alerts | `internal/alerts`, `internal/daemon/alert_*.go`, `internal/store/alert*.go` | bounded queue, parked observations | `Notify`, `batch`, `park`, `flush`, `Close` |
| Logs | `internal/logstore`, `internal/logdb`, `internal/daemon/diskbudget.go` | active files, chunks, claims, archive, budget | `Open`, `Seal`, archiver, `Sync`, deletion, budget |
| Read admission | `internal/api/readlimit.go` | gate counters, shared metrics result | `acquire`, `metricsShare.get` |
| Daemon | `internal/daemon/daemon.go` | lock, services, maintenance loops | boot, `Reload`, `runShutdown`, retention |
| API, configuration, CLI, web | `internal/api`, `internal/config`, `cmd`, `web` | none of their own | requests to the parts above |

How they interact: the scheduler, the HTTP API, the retry scheduler and the boot
sequence call `trigger`. It takes the admission slot, decides (skip, queue, start)
and either launches a goroutine that owns a capacity slot until the process has
ended, or stores a queue row for the drain loop, which goes through the same
admission. Ends of runs go to the history writer, alerts, retries and the
supervisor. Operators edit definitions while all of that runs. The daemon may be
killed at any statement and is started again over the same tables.

What makes it hard:

- a decision (overlap, depth, closing) is read in one critical section and acted
  on in another; only the admission slot ties them together;
- the in-memory depth of the queue follows the table late, and some
  transactions change the table without it;
- a one-token wake channel against a loop that is just deciding to sleep;
- one capacity slot handed from call to run to deferred cleanup over many
  return paths;
- statements that fail, or fail after taking effect; execution goes on without
  the database and its history is written later;
- crashes between any two statements, recovery that may itself fail;
- shutdown that begins between any two steps of everybody else.

The full list, with the line where each bites, is `hazards` in `PROJECT.json`.

## 2. Modules

| Module | Role |
|---|---|
| `RunLifecycle` | Abstract specification: how `runs.status` of a row may move; beside it, the documented table. |
| `ExecQueue` | Trigger calls, execution queue, drain loop, registry edits, shutdown, crash and boot. |
| `MCExecQueue` | Small instances for TLC. |
| `ExecQueueCapacity` | Parts of the inductive invariant; types and slot accounting of every step. |
| `ExecQueueProofs` | The safety invariant is inductive; first theorems. |
| `ExecQueueTheorems` | Overlap, uniqueness and shutdown theorems. |
| `ExecQueueLifecycle` | `ExecQueue` implements `RunLifecycle`. |

### ExecQueue

An element of `Runs` is a trigger call and the run it creates. `req[r]` fixes what
the call asks for: job, trigger (`schedule`, `manual`, `retry`, `startup`) and a tag,
which is the idempotency key of a manual call or the occurrence of a scheduled
one. A job name stands for its `definition_id`.

| Variable | Code |
|---|---|
| `status`, `queue`, `seq`, `lastSeq` | `runs.status`, `exec_queue` and its autoincrement `seq` |
| `def`, `budget` | the definition is enabled, disabled, gone; its `retries` still allow the attempt |
| `phase[r]` | program counter of the call, then of `execute` |
| `adm`, `slots` | the `admission` and `capacity` channels |
| `depth`, `wake`, `loop`, `item`, `gone`, `paced`, `served` | `queueState`, and where `queueLoop`/`drainStep` stands |
| `late` | runs whose row waits in the history spool |
| `qon`, `stage`, `joins` | `queue.enabled`, life of the process, Shutdown's snapshot |
| `outcome`, `aged`, `reply`, `spawned` | how a process ended, expired items, answers given, processes ever started |

An action is the code between two points at which another goroutine can act or
the process can die: a channel operation, a transaction, a critical section of
`Service.mu`. Four actions join neighbouring operations:

- `ReleaseSlot` frees the slot, reads `depth` and sends the wake token. In between,
  whoever raises `depth` sends a token itself and whoever lowers it makes the
  token spare; `NoLostWake` is stated for the point after the token.
- `Enqueued` raises `depth`, starts the loop and sends the token. The sender holds
  admission throughout, so the loop can look earlier but starts nothing.
- `StepBack` frees admission and the slot; the code frees admission first. A call
  in between finds the slot taken, as it does while the loop holds a slot and has
  not yet been admitted.
- `CancelQueued` takes admission, commits and lowers `depth`. While it waits or has
  committed nobody else is admitted, and a `depth` that is high for a moment costs
  the loop one pass.

A call goes `begun` (registered with shutdown), `admitted`, then by
policy to `enqueue`/`enqueued`, `skip`, or `slot`/`launch`; a run is `live`, `ended`
(process gone, cleanup pending), `freed` (unregistered, slot not yet released),
`done`. `Execution` writes the three parts of a run's history in order, whenever
the database allows. The drain loop goes `step`, `expired`, `slot`, `held`, `picked`,
`valid`, `dequeued` and sleeps as `idle` (until woken), `timer` (rate limit, backoff)
or `full` (until woken or the next expiry).

`World` selects the environment: crashes, orderly shutdown, registry edits,
expiry, cancellation (of queued runs by operators, of calls by callers), failing
statements, statements that fail after they took effect, failing boot steps.

Abstractions: a definition's kind, `on_overlap` and `on_history_unavailable` are
fixed per job (`SkipJobs`, `HistSkipJobs`), so an edit changes whether it is enabled and whether
a retry is still within its budget, nothing else; `served` keeps recency ranks
instead of ever-growing ticks;
`queue.max_bytes`, the window of 64 heads, the clearing of `served` above 4096
entries, the 24 h life of a key and worker definitions (they take no slot and are
never queued) are left out; a full history spool is the choice to drop the row,
and is not combined with an insert that failed after committing; the deadline
that makes Shutdown kill and abandon runs is left out, so a shutdown waits.

## 3. What is checked

Every run explores all interleavings of its instance. Two jobs (one
`on_overlap = "skip"` and `on_history_unavailable = "skip"`, one neither), three calls
and one slot are the smallest instance in which a running, a queued and a
deciding call coexist; one queue place per job (`queue_crash`, `queue_faults`,
`queue_shutdown`) makes the limits reachable. `queue_overlap` needs four calls and
two slots, because with one slot capacity alone prevents an overlap. Calls are interchangeable, so safety runs use symmetry.

| Run | Environment | Shows |
|---|---|---|
| `queue_crash` | crash, failing and ambiguous statements, failing boot | slots are accounted for, tables agree, nothing is started twice, an opted-out occurrence starts once, `ExecQueue` implements `RunLifecycle` |
| `queue_faults` | crash, failing and ambiguous statements, truthful enqueue | answers bind, depth covers the rows, one run per key |
| `queue_operator` | edits, expiry, cancellation | the same accounting under edits; no overtaking, no lost wake-up, FIFO per definition |
| `queue_overlap` | crash, queue on or off at each start | never two registered runs of an overlap-skip job |
| `queue_shutdown` | orderly shutdown at any point, restart | nothing outlives shutdown; a call answered `queued` has its row or was ended on the record; the queue's limits hold, also over rows of the process before |
| `queue_live` | shutdown, fair scheduling | every queued run leaves the queue, every call is answered, shutdown ends |
| `queue_live_edits` | edits, fair scheduling | the queue is emptied although depth drifts |
| `queue_ambiguous` | an enqueue that commits and reports an error | disagreement, see below |
| `lifecycle_table` | failing statements | disagreement, see below |
| `queue_retry_full` | nothing fails, one queue place per job | disagreement, see below |

Deadlock checking is off in these runs: when all calls of an instance have been
made and answered the daemon rests.

Fairness (`FairSpec`): weak fairness of every started call, every execution and its
history, the drain loop, the pacing clock, resume and shutdown. Goroutines are
scheduled, statements have timeouts, processes end by themselves, by their
timeout or by the stop sequence. Nothing forces a call to arrive, an operator to
act or a stopped daemon to be started. The liveness runs contain no failing
statements: a database that fails forever drains nothing.

Each property has a mutant in `PROJECT.json`: a plausible change of the code under
which TLC reports that property violated in the same run.

### Disagreements with the documentation

`internal/executor/executor.go:150` says of `ErrQueueUnavailable` "nothing was
queued". `enqueue` returns it for any unrecognised error of `EnqueueRun`, also for
one reported by the commit after it took effect. `queue_ambiguous` reaches a call
answered that way with its row in `exec_queue`. `depth` is not raised then, so the
row waits for the next enqueue or start; and a repeated call without a key makes
a second run. `DepthCovers` and `AnswersBind` are therefore claimed only where an
enqueue reports truthfully.

`docs/architecture.md:58` lets a pending row become running, failed(start_error),
stopped, interrupted, skipped or missed, and line 62 calls the table enforced by
guarded UPDATEs. The UPDATE of `FinishRunWithUsage` (`internal/store/store.go:734`)
accepts a pending row for any terminal status. When the running state could be
neither stored nor spooled (`internal/executor/finalizer.go:69`) the row is still
pending at the end of the process; `lifecycle_table` moves it to succeeded.
`RunLifecycle!Spec` therefore allows, beyond the table, exactly this: a pending row
takes the outcome of its own process. `RunLifecycle!DocumentedSpec` is the table.

`docs/adr/0009-durable-execution-queue.md:59` and `docs/operations.md:261` say that
a retry at a full queue is recorded as skipped with `queue_full`. `enqueue` returns
`errCapacity` for a retry instead (`internal/executor/queue.go:133`), and the retry
is tried again later. `queue_retry_full` reaches the answer without a row.

## 4. What is proved

For every finite set of runs and jobs, every capacity and limit and every `World`:

- `TypeCorrect`: `TypeOK`, with `slots \in 0..Capacity`;
- `CapacityAccounted`: `SlotsAccounted`;
- `RowsAgree`: `QueuedIffRow`;
- `StartedOnce`: `NeverReplayed`;
- `OverlapRespected`: `OverlapSkip`;
- `OneRunPerKey`: `IdempotentOnce`;
- `OneRunPerOccurrence`: `OccurrenceOnce`;
- `NothingLeftBehind`: `JoinedBeforeExit`;
- `RefinesLifecycle`: `LifecycleRefined`, the refinement of `RunLifecycle`.

Assumptions on the constants: `Runs` and `Jobs` are finite, the sentinels are not
runs, limits are natural numbers, a request names a job and a known trigger,
outcomes are process outcomes. TLC evaluates them in every run.

None is inductive. `SafetyInv` (`ExecQueueCapacity`, `ExecQueueProofs`) adds what the
first four rest on. `AdmissionInv`:
the admission slot has exactly one holder among the calls and the drain loop, and
the loop has an item exactly while it works on one; this is what makes a release
of a slot find one taken. `FreshInv`: a call that has not reached the database has
no row, no outcome, no deferred write and no process, so storing its row cannot
disturb another state. `StartInv`: started runs are in execution or past it, queued
ones were never started, and an item between dequeue and launch is neither.
`BootInv`: before the queue is resumed the loop is off and only [[init]] jobs are
admitted. `SlotsAccounted` is kept by four small lemmas on how a step may change
the owners, the loop's reservation and the counter together. The proof that a
step preserves each part has one case per action.

`ExecQueueTheorems` first summarises what any step may do: insert a row (`Rows`),
move a call towards a start (`Starts`), move the drain loop (`Drains`), move the
stage of the daemon (`Stops`). The policies then follow from the summaries.
`OverlapInv`: whoever has decided to start an overlap-skip job holds admission and
still finds the job idle when it registers the run, so a second decision cannot
come between. `UniqueInv` and `LateInv`: rows are inserted after their key and
occurrence were looked up, and a keyed row is never deferred. `RecordedInv`: a run
whose policy needs a row has one before it starts. `JoinInv`: after Shutdown took
its snapshot, whoever is registered is in it. In `ExecQueueLifecycle`, `DeclinedInv`
says that a declined run never ran, and `MoveStep` that each action moves a row
along `RunLifecycle!Moves` or not at all: an edge of the documented table, or from
pending to the outcome the executor decided for that run.

Only model-checked: liveness (out of the prover's reach), and the properties of
section 3 not listed here.

## 5. Plan

In order; each with its runs, mutants and the theorems within reach.

1. `RunHistory`: spool, merging, bound, writer passes, `health.down`; refines
   `RunLifecycle`; liveness (history is eventually stored once the database is
   back).
2. `Supervisor`: loops, holds, epochs, exhaustion, reload/start/stop/restart.
3. `Scheduler`: passes, watermark and run in separate statements, catch-up
   policies, relaxed commits and power loss, reload.
4. `Retries`: heap bound, capacity reschedule, evidence, definition changes.
5. `Execution`: stop cause, grace, kill, classification, recovered groups.
6. `Alerts`: dispatcher accounting and Close; parked observations.
7. `LogArchive`: claims, seal, archive commit and unlink, overflow, budget.
8. `ReadGate`: admission of reads and shared metrics.
9. `Daemon`: boot, reload, shutdown order, retention as a composition.
10. Proofs: order and depth of the queue, binding answers; then the invariants
   of the modules above.

## 6. Not modelled

Request parsing, rendering, the CLI and the web interface; configuration
parsing; the contents of logs, environments and commands; SQLite itself, whose
transactions are atomic steps that may fail before or after they take effect.
Wall-clock durations appear only as "has passed".
