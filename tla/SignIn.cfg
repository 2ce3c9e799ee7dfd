SPECIFICATION MCSpec
CONSTANTS
    Openings <- MCOpenings
    Threshold = 1
    LoginMax = 2
    RegisterMax = 1
    MaxAttempts = 2
    MaxMistakes = 2
    MaxFaults = 1
    j1 = j1
    j2 = j2
    Jobs = {j1, j2}
    NoBuild = NoBuild
    Upgrades <- MCUpgrades
    Countdown = 1
    MaxPresses = 1
    MaxLosses = 1
INVARIANT SelectionIsOffered
PROPERTY PeopleGetIn
CHECK_DEADLOCK FALSE
