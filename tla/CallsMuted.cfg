SPECIFICATION Spec
CONSTANTS
    chat1 = chat1
    Conversations = {chat1}
    MaxCalls = 1
    MaxGen = 3
    MaxCaptures = 3
    MaxEffort = 3
    Switches = 1
    Drops = FALSE
    EarlyCancel = FALSE
INVARIANT MutedIsSilent
CHECK_DEADLOCK FALSE
