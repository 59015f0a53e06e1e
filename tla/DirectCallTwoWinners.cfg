SPECIFICATION Spec
CONSTANTS
    u1 = u1
    u2 = u2
    u3 = u3
    a1 = a1
    b1 = b1
    b2 = b2
    c3 = c3
    d1 = d1
    d2 = d2
    d3 = d3
    k1 = k1
    k2 = k2
    None = None
    Users <- Trio
    Sockets <- TrioSockets
    Devices <- MCDevices
    SocketUser <- TrioUser
    SocketDevice <- TrioDevice
    CallIds <- MCCallIds
    AdmissionTTL = 1
    RingTTL = 1
    EndedTTL = 2
    ActiveTTL = 3
    Callers = {a1, c3}
    Frail = {}
    GroupUsers = {}
    Punctual = FALSE
SYMMETRY TrioSymmetry
INVARIANTS NoDoubleBooking
