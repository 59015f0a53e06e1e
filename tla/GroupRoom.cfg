SPECIFICATION MCSpec
CONSTANTS
    u1 = u1
    u2 = u2
    u3 = u3
    s1 = s1
    s2 = s2
    s3 = s3
    s4 = s4
    c1 = c1
    c2 = c2
    r1 = r1
    r2 = r2
    None = None
    Users = {u1, u2, u3}
    Sockets = {s1, s2, s3, s4}
    SocketUser <- Owner
    Conversations = {c1, c2}
    Rooms = {r1, r2}
    Capacity = 2
    MaxRevision = 3
    MaxCommands = 5
    MaxFaults = 1
INVARIANTS SeatsAreExclusive RoomsFollowMembership CleanupFreesSeat
PROPERTIES RoomsOnlyAdvance StaleRoomsEnd
CHECK_DEADLOCK FALSE
