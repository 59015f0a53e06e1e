SPECIFICATION MCSpec
CONSTANTS
    MaxFaults = 3
    MaxRequests = 2
    chat1 = chat1
    Chats = {chat1}
    Retries = 1
    MaxPages = 1
    MaxEffort = 3
    tip1 = tip1
    tip2 = tip2
    tip3 = tip3
INVARIANTS OneConnection ReadyIsEarned ListAgrees
PROPERTIES Reopens NewestSpeaks ImplementsConnection NewestListWins HomeSettles
CHECK_DEADLOCK FALSE
