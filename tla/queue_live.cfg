CONSTANTS
    Runs = {r1, r2, r3}
    Jobs <- OneJob
    Requests <- Manual
    SkipJobs = {}
    HistSkipJobs = {}
    Capacity = 1
    MaxItems = 2
    MaxPerJob = 2
    ExpireBatch = 1
    QueueModes = {TRUE}
    Budgets = {TRUE}
    Outcomes = {"failed"}
    World <- ShutdownWorld
    NoTag = NoTag
    NoRun = NoRun
    Drain = Drain
SPECIFICATION FairSpec
PROPERTIES
    Drained
    Answered
    ShutdownEnds
CHECK_DEADLOCK FALSE
