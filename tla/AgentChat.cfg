SPECIFICATION FairSpec
CONSTANTS
    Files = {f1, f2}
    Outside = {f2}
    Present = {f2}
    Commands = {c1, c2}
    Disguised = {c2}
    Slots = {1, 2}
    MaxIterations = 2
    MaxRequests = 2
    MaxWrites = 3
    MaxEvents = 1
INVARIANTS ConsentIsGiven NoCommandLoop LoopsAreCounted
PROPERTIES SinglePatchIsUndone RequestsEnd
CHECK_DEADLOCK FALSE
