\* A run with a lane timeout and a second one of the same session.
SPECIFICATION LanesSpec
CONSTANTS
    user = user
    heartbeat = heartbeat
    cronJob = cronJob
    NoLane = NoLane
    Lanes <- MCLanes
    ProbeLanes = {}
    Waiters = {}
    CallerPriorities = {}
    MaxEntries = 4
    MaxConcurrency = 2
    MaxGeneration = 0
    Jobs = {user, heartbeat}
    JobOf <- SameSessionTimed
    Configs <- JustOne
    MaxSuspensions = 0
INVARIANTS OneRunPerSession
CHECK_DEADLOCK FALSE
