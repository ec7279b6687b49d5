---------------------------- MODULE MCExecQueue ----------------------------
(***************************************************************************)
(* Instances of ExecQueue for TLC: two jobs, "backup" (on_overlap = skip,  *)
(* on_history_unavailable = skip) and "report" (both default), and calls   *)
(* drawn from a few requests.                                              *)
(***************************************************************************)
EXTENDS ExecQueue, TLC

Ask(j, t, g) == [job |-> j, trigger |-> t, tag |-> g]

MCJobs     == {"backup", "report"}
OneJob     == {"report"}
MCSkipJobs == {"backup"}

\* Manual calls of both.
Mixed == {Ask("backup", "manual", NoTag), Ask("report", "manual", NoTag)}

\* An occurrence of each, possibly asked for twice.
Occurrences == {Ask("backup", "schedule", "noon"), Ask("report", "schedule", "noon")}

\* One key used for both jobs.
Tagged == {Ask("backup", "schedule", "noon"), Ask("report", "manual", "key"),
           Ask("backup", "manual", "key")}

\* Every trigger.
Kinds == {Ask("report", "manual", NoTag), Ask("report", "retry", NoTag),
          Ask("report", "startup", NoTag), Ask("backup", "schedule", "noon")}

\* The other job alone, by its retry or by hand.
Retried == {Ask("report", "retry", NoTag)}
Manual == {Ask("report", "manual", NoTag)}

RunSymmetry == Permutations(Runs)

\* What the environment does in each run.
CrashWorld     == {"crash", "unavailable", "ambiguous", "enqueueAmbiguous", "bootFails"}
PowerWorld     == {"crash"}
FaultWorld     == {"crash", "unavailable", "ambiguous"}
OperatorWorld  == {"registry", "expire", "cancel"}
ShutdownWorld  == {"shutdown"}
RegistryWorld  == {"registry"}
AmbiguousWorld == {"enqueueAmbiguous"}
FailingWorld   == {"unavailable"}
QuietWorld     == {}
=============================================================================
