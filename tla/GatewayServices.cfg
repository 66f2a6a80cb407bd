SPECIFICATION Spec
CONSTANTS
    Targets = {t1, t2}
    WakePriorities = {1, 3}
    MaxHandlers = 2
    MaxRequests = 3
    MaxBusy = 1
    MaxThrows = 1
    Dispatchers = {d1, d2}
    MaxReplies = 2
    MaxRestartRequests = 2
    MaxProcessSignals = 1
    MaxStartFailures = 1
    MaxExpiries = 1
    ApprovalIds = {i1, i2}
    ApprovalRequests = {r1, r2}
    NoRequest = NoRequest
    MaxRuns = 2
    SopSessions = {x1}
    StepCount = 3
    ExactSkills = {1, 3}
    ToolCalls = {c1, c2}
    NoSop = NoSop
    MaxRowFaults = 1
    MaxSopRestarts = 2
INVARIANTS
    WakesKept
    OneWakeLoop
    IdleIsReliable
    RestartSeesReplies
    CoalescingIsBacked
    ShutdownHasOwner
    AllowOnceRunsOnce
    RecordKeepsAnswer
    PipelineInStep
    UndecidedIsReachable
PROPERTIES
    WakesEventuallyServed
    RequestsEventuallyRestart
    RequestersEventuallyAnswered
\* A stopped gateway, and one in which nothing is requested any more, stays as it is.
CHECK_DEADLOCK FALSE
