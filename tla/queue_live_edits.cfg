CONSTANTS
    Runs = {r1, r2, r3}
    Jobs <- OneJob
    Requests <- Retried
    SkipJobs = {}
    HistSkipJobs = {}
    Capacity = 1
    MaxItems = 2
    MaxPerJob = 2
    ExpireBatch = 1
    QueueModes = {TRUE}
    Budgets = {FALSE}
    Outcomes = {"failed"}
    World <- RegistryWorld
    NoTag = NoTag
    NoRun = NoRun
    Drain = Drain
SPECIFICATION FairSpec
PROPERTY Drained
CHECK_DEADLOCK FALSE
