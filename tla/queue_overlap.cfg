CONSTANTS
    Runs = {r1, r2, r3, r4}
    Jobs <- MCJobs
    Requests <- Mixed
    SkipJobs <- MCSkipJobs
    HistSkipJobs <- MCSkipJobs
    Capacity = 2
    MaxItems = 2
    MaxPerJob = 2
    ExpireBatch = 1
    QueueModes = {TRUE, FALSE}
    Budgets = {TRUE}
    Outcomes = {"failed"}
    World <- PowerWorld
    NoTag = NoTag
    NoRun = NoRun
    Drain = Drain
SYMMETRY RunSymmetry
SPECIFICATION Spec
INVARIANT OverlapSkip
