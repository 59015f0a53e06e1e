SPECIFICATION Spec
CONSTANTS
    chat1 = chat1
    Conversations = {chat1}
    MaxCalls = 1
    MaxGen = 2
    MaxCaptures = 3
    MaxEffort = 2
    Switches = 2
    Drops = FALSE
    EarlyCancel = FALSE
INVARIANT TracksStop
CHECK_DEADLOCK FALSE
