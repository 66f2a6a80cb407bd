\* A normal and a probe lane, tasks that hang, a waitForActiveTasks call, a reset.
SPECIFICATION FairSpec
CONSTANTS
    NoLane = NoLane
    Lanes = {main, probe}
    ProbeLanes = {probe}
    Waiters = {w1}
    CallerPriorities = {0}
    MaxEntries = 2
    MaxConcurrency = 2
    MaxGeneration = 1
INVARIANTS WaiterHasReason
PROPERTIES DrainedMeansIdle QueuedEventuallyLeaves WaiterEventuallyAnswered
