CONSTANTS
    Runs = {r1, r2, r3}
    Jobs <- MCJobs
    Requests <- Mixed
    SkipJobs <- MCSkipJobs
    HistSkipJobs <- MCSkipJobs
    Capacity = 1
    MaxItems = 2
    MaxPerJob = 2
    ExpireBatch = 1
    QueueModes = {TRUE}
    Budgets = {TRUE}
    Outcomes = {"failed"}
    World <- OperatorWorld
    NoTag = NoTag
    NoRun = NoRun
    Drain = Drain
SYMMETRY RunSymmetry
SPECIFICATION Spec
INVARIANTS
    SlotsAccounted
    QueuedIffRow
    DepthCovers
    NoOvertake
    NoLostWake
PROPERTY DequeueFIFO
CHECK_DEADLOCK FALSE
