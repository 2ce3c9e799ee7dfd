SPECIFICATION MCSpec
CONSTANTS
    Stages = {"catalogue"}
    Jobs = {j1}
    MaxBuilds = 1
    MaxCrashes = 1
    Archives <- MCArchives
    Subfolders <- MCSubfolders
    Additions = {"bun.lockb"}
    Injections = {"mongoose", "lodash"}
    MaxSpawns = 2
    EnvVars <- MCEnvVars
    MaxVars = 2
    Selectable = {"none", "mysql", "mssql"}
    MaxStarts = 2
PROPERTY RespawnedAsBuilt
CHECK_DEADLOCK FALSE
