---------------------------- MODULE RunLifecycle ----------------------------
(***************************************************************************)
(* What may happen to the status column of a row of the runs table, for    *)
(* every run at once.  It is the abstract specification of the executor:   *)
(* whatever trigger calls, the drain loop, the history writer, the         *)
(* operator and a restart do, a row only ever moves along these edges.     *)
(*                                                                         *)
(* The documented table (docs/architecture.md, "Run lifecycle") is         *)
(* narrower than the guarded UPDATE statements of internal/store.  Spec is *)
(* what the code keeps to, DocumentedSpec is the table.                    *)
(***************************************************************************)
CONSTANT Runs            \* run identifiers

VARIABLES
    status,              \* status[r]: the stored status, "none" without a row
    ended                \* ended[r]: what the executor decided r ends in, once it has

\* What an execution may end in: by classify, or "interrupted" by Recover.
ProcessOutcomes == {"succeeded", "failed", "timeout", "stopped", "interrupted"}

Terminal == ProcessOutcomes \cup {"skipped", "missed"}

Statuses == {"none", "queued", "pending", "running"} \cup Terminal

\* Statuses a row can be inserted with: EnqueueRun, CreateRun and
\* AdmitIdempotentRun (pending, skipped and missed rows).
Inserted == {"queued", "pending", "skipped", "missed"}

\* The documented table.  Of a pending row it allows "failed" as start_error;
\* the end reason is not part of the model.
Documented(s) ==
    CASE s = "none"    -> Inserted
      [] s = "queued"  -> {"pending", "skipped", "stopped"}
      [] s = "pending" -> {"running", "failed", "stopped", "interrupted", "skipped", "missed"}
      [] s = "running" -> ProcessOutcomes
      [] OTHER         -> {}

\* FinishRunWithUsage accepts a pending row as well as a running one, so a run
\* whose running state was never stored takes the status its process ended in.
Moves(r) == Documented(status[r]) \cup {e \in {ended[r]} : status[r] = "pending"}

Init == status = [r \in Runs |-> "none"]

\* One statement may move several rows (ExpireQueued, Recover, the drop of a
\* disabled definition's queue).
Next ==
    /\ status' \in [Runs -> Statuses]
    /\ \A r \in Runs : status'[r] = status[r] \/ status'[r] \in Moves(r)

Spec == Init /\ [][Next]_status

DocumentedNext == \A r \in Runs : status'[r] = status[r] \/ status'[r] \in Documented(status[r])

DocumentedSpec == Init /\ [][DocumentedNext]_status

=============================================================================
