CONSTANTS
    Runs = {r1, r2, r3}
    Jobs <- MCJobs
    Requests <- Tagged
    SkipJobs <- MCSkipJobs
    HistSkipJobs <- MCSkipJobs
    Capacity = 1
    MaxItems = 2
    MaxPerJob = 1
    ExpireBatch = 2
    QueueModes = {TRUE}
    Budgets = {TRUE}
    Outcomes = {"succeeded", "failed"}
    World <- FaultWorld
    NoTag = NoTag
    NoRun = NoRun
    Drain = Drain
SYMMETRY RunSymmetry
SPECIFICATION Spec
INVARIANTS
    AnswersBind
    DepthCovers
    IdempotentOnce
