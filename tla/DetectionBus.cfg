SPECIFICATION FairSpec
CONSTANTS
    Handlers = {h1, h2}
    Incidents = {g1}
    Sources = {a}
    Traffic <- MCTraffic
    Modes = {TRUE, FALSE}
    Scored = {"dga"}
    MaxQueue = 1
    MaxBatch = 1
CHECK_DEADLOCK FALSE
INVARIANT
    EngineHolderRuns
PROPERTY
    IntegratedEmissionsEnd
