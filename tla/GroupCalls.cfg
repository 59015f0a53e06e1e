SPECIFICATION MCSpec
CONSTANTS
    peer1 = peer1
    peer2 = peer2
    Conversations = {}
    MaxCalls = 0
    MaxCaptures = 0
    Switches = 0
    EarlyCancel = FALSE
    MaxRooms = 2
    MaxRev = 2
    MaxGen = 4
    MaxEffort = 2
    Drops = TRUE
    Lossy = TRUE
    Refusals = TRUE
    EarlyEnds = TRUE
    FullEnds = TRUE
    Races = TRUE
INVARIANT CallsAgree
PROPERTIES RoomHolds NothingIsForgotten
CHECK_DEADLOCK FALSE
