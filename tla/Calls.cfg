SPECIFICATION MCSpec
CONSTANTS
    chat1 = chat1
    chat2 = chat2
    Conversations = {chat1, chat2}
    MaxCalls = 2
    MaxGen = 4
    MaxCaptures = 3
    MaxEffort = 3
    Switches = 1
    Drops = TRUE
    EarlyCancel = TRUE
INVARIANTS MediaIsOwned CallsStayOver NobodyIsStranded
PROPERTY OlderFailuresAreFenced
CHECK_DEADLOCK FALSE
