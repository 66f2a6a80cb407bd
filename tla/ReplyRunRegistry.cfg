\* Two sessions, successive operations that are ended more than once.
SPECIFICATION Spec
CONSTANTS
    k1 = k1
    k2 = k2
    Keys = {k1, k2}
    IdsOf <- MCIdsOf
    Ops = {o1, o2, o3}
    Handles = {h1}
    Waiters = {w1}
    None = None
SYMMETRY Symmetry
INVARIANTS OwnsKeyUntilCleared IndexFollowsRuns OldIdsStillWait WaitersWaitForARun AbortReachesBackend
