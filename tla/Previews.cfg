SPECIFICATION FairSpec
CONSTANTS Jobs={j1}
Ports={p1}
Tasks={t1,t2}
MaxRunning=1
MaxRestarts=1
None=None
INVARIANTS EntryIsWatched FlagHasHolder
PROPERTIES SpawnSettles DeathIsNoticed
CHECK_DEADLOCK FALSE
