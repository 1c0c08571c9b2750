SPECIFICATION Spec
CONSTANTS
    Threads = {t1, t2}
    TokenRequests = {read, write}
    Life = 3
    AssumedLife = 2
    Margin = 1
    Horizon = 2
    MaxTokenFaults = 1
    MaxRotations = 1
    Requests = {q1, q2, q3}
    Bodies <- MCBodies
    NotJson <- MCNotJson
    Dirty <- MCDirty
    Capacity = 2
    MaxProxyFaults = 2
INVARIANTS
    CacheIsSound
    TokenFitsRequest
    ForwardedIsClean
    AnswerTellsWhatHappened
SYMMETRY MCSymmetry
CHECK_DEADLOCK FALSE
