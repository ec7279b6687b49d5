CONSTANTS
    Runs = {r1, r2, r3}
    Jobs <- OneJob
    Requests <- Retried
    SkipJobs = {}
    HistSkipJobs = {}
    Capacity = 1
    MaxItems = 2
    MaxPerJob = 1
    ExpireBatch = 1
    QueueModes = {TRUE}
    Budgets = {TRUE}
    Outcomes = {"failed"}
    World <- QuietWorld
    NoTag = NoTag
    NoRun = NoRun
    Drain = Drain
SYMMETRY RunSymmetry
SPECIFICATION Spec
INVARIANT RetryFullSkipped
CHECK_DEADLOCK FALSE
