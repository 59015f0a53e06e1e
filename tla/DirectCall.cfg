SPECIFICATION Spec
CONSTANTS
    u1 = u1
    u2 = u2
    u3 = u3
    a1 = a1
    b1 = b1
    b2 = b2
    c3 = c3
    d1 = d1
    d2 = d2
    d3 = d3
    k1 = k1
    k2 = k2
    None = None
    Users <- Pair
    Sockets <- PairSockets
    Devices <- MCDevices
    SocketUser <- PairUser
    SocketDevice <- PairDevice
    CallIds <- MCCallIds
    AdmissionTTL = 1
    RingTTL = 1
    EndedTTL = 2
    ActiveTTL = 3
    Callers = {a1}
    Frail = {a1}
    GroupUsers = {u2}
    Punctual = TRUE
SYMMETRY CallSymmetry
INVARIANTS ReservationIsLive NoDoubleBooking
PROPERTIES FirstAcceptWins CleanupEndsCalls
