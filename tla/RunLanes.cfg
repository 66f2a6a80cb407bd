\* A heartbeat and a cron job of one session, and a user run with a lane timeout in another.
SPECIFICATION LanesFairSpec
CONSTANTS
    user = user
    heartbeat = heartbeat
    cronJob = cronJob
    NoLane = NoLane
    Lanes <- MCLanes
    ProbeLanes = {}
    Waiters = {}
    CallerPriorities = {}
    MaxEntries = 7
    MaxConcurrency = 2
    MaxGeneration = 0
    Jobs = {user, heartbeat, cronJob}
    JobOf <- TwoSessions
    Configs <- OneThenTwo
    MaxSuspensions = 1
INVARIANTS OneRunPerSession
PROPERTIES JobsEventuallyEnd
CHECK_DEADLOCK FALSE
