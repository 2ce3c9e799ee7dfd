SPECIFICATION ConsoleFairSpec
CONSTANTS
    DbTypes = {"mysql", "postgres", "redis", "oracle"}
    Slots = {s1, s2}
    Collections = {c1}
    Keys = {1}
    MaxRequests = 3
    MaxEvents = 1
INVARIANTS MaskedIsNotShown RefusedIsNotStored LoadingHasReader
PROPERTIES ShellAnswers
CHECK_DEADLOCK FALSE
