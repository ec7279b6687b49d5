CONSTANTS
    Runs = {r1, r2, r3}
    Jobs <- OneJob
    Requests <- Manual
    SkipJobs = {}
    HistSkipJobs = {}
    Capacity = 1
    MaxItems = 2
    MaxPerJob = 2
    ExpireBatch = 1
    QueueModes = {TRUE}
    Budgets = {TRUE}
    Outcomes = {"succeeded", "failed"}
    World <- FailingWorld
    NoTag = NoTag
    NoRun = NoRun
    Drain = Drain
SYMMETRY RunSymmetry
SPECIFICATION Spec
PROPERTY DocumentedLifecycle
CHECK_DEADLOCK FALSE
