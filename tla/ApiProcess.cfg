CONSTANTS
    q1 = q1
    q2 = q2
    q3 = q3
    q4 = q4
    u1 = u1
    u2 = u2
    s1 = s1
    s2 = s2
    s3 = s3
    General = General
    Requests = {q1, q2, q3, q4}
    Limit = 2
    Ttl = 2
    MaxDelay = 1
    MaxTime = 4
    Users = {u1, u2}
    Sockets = {s1, s2, s3}
    Rooms = {General}
    UserOf <- MCUserOf
    HistoryCap = 1
    MaxPerWindow = 1
    Window = 1
    Delay = 1
    ClockEnd = 2
    MaxMessages = 1
SPECIFICATION MCSpec
SYMMETRY MCSymmetry
INVARIANTS ThrottleHolds PresenceExplained
CHECK_DEADLOCK FALSE
