SPECIFICATION MCSpec
CONSTANTS
    Ids = {1, 2}
    Emails = {e}
    Clients = {c1, c2}
    Desks = {d}
    Asked = {"admin"}
    Codes = {1, 2}
    MaxRequests = 3
    MaxCrashes = 1
    Tokens = {t}
    Machines = {m1, m2}
    MaxNodes = 2
    Lists = {k}
    Dashboards = {b}
    Latest = 2
    MaxEvents = 3
    MaxReboots = 1
SYMMETRY Symmetry
INVARIANTS TokenServesOnce RevokedIsSilent ShownIsStored
PROPERTIES ProofIsFresh OldPasswordIsDead
CHECK_DEADLOCK FALSE
