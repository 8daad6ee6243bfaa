SPECIFICATION FairSpec
CONSTANTS
    j1 = j1
    s1 = s1
    w1 = w1
    w2 = w2
    w3 = w3
    NoWorker = NoWorker
    NoJob = NoJob
    Jobs <- OneJob
    Sources <- OneSource
    SourceOf <- OfOneSource
    PageCount <- TwoPages
    MaxPages = 2
    Workers <- TwoWorkers
    RetryLimit = 1
    MaxRetries = 1
    MaxExits = 1
    MaxTimeouts = 1
    MaxFaults = 1
    MaxFailures = 3
    MaxMishaps = 3
INVARIANTS
    OpenAttemptIsTheLease
    TypeOK
    CompletedJobIsWhole
    ProgressIsNotManufactured
PROPERTIES
    LeaseFencesTheJob
    ImplementsLifecycle
    CompletedPagesAreDurable
    EveryJobSettles
