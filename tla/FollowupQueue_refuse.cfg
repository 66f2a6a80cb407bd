\* The "new" policy: redelivery, aborts, failures, clears and mode changes.
SPECIFICATION MixSpec
CONSTANTS
    a = a
    b = b
    c = c
    g = g
    u = u
    e = e
    NoRoute = NoRoute
    Unroutable = Unroutable
    Messages = {a, b, c, g, u, e}
    Mixes = {{a, c, e}, {a, b, c}, {a, b, g}, {a, b, u}}
    RoomEvents = {e}
    RouteOf <- MCRouteOf
    AuthOf <- MCAuthOf
    Settings <- RefuseNew
    Offers <- AnySettings
    Drains = {d1, d2}
    MaxMains = 1
    MaxFailures = 1
    MaxClears = 1
INVARIANTS NothingLost AnsweredOnce LifecyclesComplete BatchesHomogeneous OneDrainPerQueue
CHECK_DEADLOCK FALSE
