CONSTANTS
    Runs = {r1, r2, r3}
    Jobs <- MCJobs
    Requests <- Occurrences
    SkipJobs <- MCSkipJobs
    HistSkipJobs <- MCSkipJobs
    Capacity = 1
    MaxItems = 2
    MaxPerJob = 1
    ExpireBatch = 2
    QueueModes = {TRUE}
    Budgets = {TRUE}
    Outcomes = {"succeeded", "failed"}
    World <- CrashWorld
    NoTag = NoTag
    NoRun = NoRun
    Drain = Drain
SYMMETRY RunSymmetry
SPECIFICATION Spec
INVARIANTS
    TypeOK
    SlotsAccounted
    QueuedIffRow
    NeverReplayed
    OccurrenceOnce
PROPERTY LifecycleRefined
