SPECIFICATION FairSpec
CONSTANTS
    Conns = {c1, u1}
    Client <- LowPort
    Server <- TwoServers
    Ssh = {c1}
    Udp = {u1}
    Retransmits = TRUE
    MaxPackets = 2
    MaxFlows = 1
    MaxCompleted = 1
    MaxSessions = 1
    MaxOut = 1
    IdleTimeout = 1
    PendingTTL = 1
    None = None
CHECK_DEADLOCK FALSE
INVARIANT SessionUsedOnce
PROPERTY EveryHalfLeaves
