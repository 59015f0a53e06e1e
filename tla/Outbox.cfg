SPECIFICATION MCSpec
CONSTANTS
    r1 = r1
    r2 = r2
    None = None
    Replicas <- MCReplicas
    Events <- MCEvents
    BatchSize = 2
    ClaimTTL = 2
    EventTTL = 1
    Prompt = TRUE
    Frail = {r1}
    MaxFaults = 2
INVARIANTS HeadClaimHolds NothingIsMissed
PROPERTIES NotifiedBeforeProcessed QueuesServe
