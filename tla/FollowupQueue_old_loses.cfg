\* Drop the oldest, followup mode.
SPECIFICATION MixSpec
CONSTANTS
    a = a
    b = b
    c = c
    g = g
    u = u
    e = e
    NoRoute = NoRoute
    Unroutable = Unroutable
    Messages = {a, b, c}
    Mixes = {{a, b, c}}
    RoomEvents = {}
    RouteOf <- MCRouteOf
    AuthOf <- MCAuthOf
    Settings <- DropOld
    Offers <- AnySettings
    Drains = {d1, d2}
    MaxMains = 1
    MaxFailures = 0
    MaxClears = 0
INVARIANTS NothingLost
CHECK_DEADLOCK FALSE
