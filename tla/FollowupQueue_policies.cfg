\* Every overflow policy; nothing is cleared.
SPECIFICATION FairMixSpec
CONSTANTS
    a = a
    b = b
    c = c
    g = g
    u = u
    e = e
    NoRoute = NoRoute
    Unroutable = Unroutable
    Messages = {a, b, c, e}
    Mixes = {{a, b, c}, {a, b, e}}
    RoomEvents = {e}
    RouteOf <- MCRouteOf
    AuthOf <- MCAuthOf
    Settings <- AllPolicies
    Offers <- EachPolicy
    Drains = {d1}
    MaxMains = 1
    MaxFailures = 1
    MaxClears = 0
INVARIANTS NeverStranded EvictedComplete
PROPERTIES QueueEmptiesAgain
CHECK_DEADLOCK FALSE
