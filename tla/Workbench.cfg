SPECIFICATION EditorFairSpec
CONSTANTS
    d1 = d1
    d2 = d2
    f1 = f1
    f2 = f2
    Deps = {d1, d2}
    Files = {f1, f2}
    Markdown = {f2}
    Secrets = {2}
    Calls = {1, 2}
    First = d1
    Uploads <- TwoWorkspaces
    MaxCalls = 3
    MaxClicks = 1
    MaxText = 3
INVARIANTS TabsAreDistinct
PROPERTIES RenameLosesNothing SavingEnds
CHECK_DEADLOCK FALSE
