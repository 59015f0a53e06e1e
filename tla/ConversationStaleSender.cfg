SPECIFICATION Spec
CONSTANTS
    u1 = u1
    u2 = u2
    u3 = u3
    k1 = k1
    k2 = k2
    h1 = h1
    h2 = h2
    None = None
    Users <- MCUsers
    ClientIds <- MCClientIds
    Handlers <- MCHandlers
    MaxGroupMembers = 2
    MaxMessages = 3
    MaxRevision = 4
SYMMETRY Symmetry
CHECK_DEADLOCK FALSE
PROPERTIES SendsSerializeWithRemoval
