CONSTANTS
    Runs = {r1, r2, r3}
    Jobs <- MCJobs
    Requests <- Kinds
    SkipJobs <- MCSkipJobs
    HistSkipJobs <- MCSkipJobs
    Capacity = 1
    MaxItems = 2
    MaxPerJob = 1
    ExpireBatch = 1
    QueueModes = {TRUE, FALSE}
    Budgets = {TRUE}
    Outcomes = {"succeeded", "failed"}
    World <- ShutdownWorld
    NoTag = NoTag
    NoRun = NoRun
    Drain = Drain
SYMMETRY RunSymmetry
SPECIFICATION Spec
INVARIANTS
    SlotsAccounted
    AnswersBind
    QueueBounded
    JoinedBeforeExit
CHECK_DEADLOCK FALSE
