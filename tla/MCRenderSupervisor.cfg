SPECIFICATION FairSpec
CONSTANTS
    r1 = r1
    r2 = r2
    Migrators <- TwoContainers
    Last = 2
    MaxCrashes = 1
CHECK_DEADLOCK FALSE
INVARIANTS
    AppliedOnceInOrder
    ServesOnlyMigrated
    StopIsOrderly
PROPERTY
    EveryContainerSettles
