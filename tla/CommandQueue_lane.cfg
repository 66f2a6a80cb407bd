\* One lane, three entries of mixed priority: slots, resets, stranding.
SPECIFICATION Spec
CONSTANTS
    NoLane = NoLane
    Lanes = {main}
    ProbeLanes = {}
    Waiters = {}
    CallerPriorities <- AllPriorities
    MaxEntries = 3
    MaxConcurrency = 2
    MaxGeneration = 1
INVARIANTS ActiveIsCurrent QueuedExactlyOnce NoStrandedWork
PROPERTIES StartsWithinCap
