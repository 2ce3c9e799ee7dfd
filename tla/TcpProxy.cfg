SPECIFICATION FairSpec
CONSTANTS
    c1 = c1
    c2 = c2
    Conns = {c1, c2}
    NumListeners = 1
    On <- BothOnOne
    Blocked = {c2}
    Flagged = {c1}
    ServerFirst = {c2}
    RedisAnswers = TRUE
    MaxInspect = 1
    MaxChunks = 2
    None = None
INVARIANT RecordIsFinal
PROPERTY KilledConnectionEnds
