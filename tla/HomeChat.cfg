SPECIFICATION MCSpec
CONSTANTS
    chat1 = chat1
    chat2 = chat2
    mine1 = mine1
    theirs1 = theirs1
    theirs2 = theirs2
    Chats = {chat1, chat2}
    Mine = {mine1}
    Theirs = {theirs1, theirs2}
    Page = 1
    Rejects = TRUE
    MaxSeq = 2
    Others = TRUE
    Calls = TRUE
    MaxTokens = 3
    MaxChoices = 3
    MaxPages = 3
    MaxRevision = 3
    MaxRequests = 3
    MaxEffort = 4
INVARIANTS ChatAgrees ReadsAgree SessionAgrees
PROPERTIES  GroupFollowsMembership
CHECK_DEADLOCK FALSE
