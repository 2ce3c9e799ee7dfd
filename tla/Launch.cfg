SPECIFICATION MCFairSpec
CONSTANTS
    Stages = {"pipeline", "provision", "catalogue"}
    Jobs = {j1}
    MaxBuilds = 1
    MaxCrashes = 1
    Archives <- MCArchives
    Subfolders <- MCSubfolders
    Additions = {"bun.lockb"}
    Injections = {"mongoose", "lodash"}
    MaxSpawns = 2
    EnvVars <- MCEnvVars
    MaxVars = 2
    Selectable = {"none", "mysql", "mssql"}
    MaxStarts = 2
INVARIANTS PausedIffPending ListedIsOnDisk
    EnvNamesDatabases ReadyAfterBuild SpecificFirst CommandFitsImage
PROPERTIES PipelineEnds ImplementsBuildLife SpawnedAsBuilt
CHECK_DEADLOCK FALSE
