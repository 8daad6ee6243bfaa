SPECIFICATION FairSpec
CONSTANTS
    r1 = r1
    r2 = r2
    c1 = c1
    d1 = d1
    w1 = w1
    j1 = j1
    Source = Source
    Index = Index
    Retries <- TwoRetries
    Creations <- OneCreation
    Deliveries <- OneDelivery
    Commits <- OneCommit
    OldJobs <- OneJob
    JobOf <- OfEach
    MaxInterrupts = 1
CHECK_DEADLOCK FALSE
INVARIANT TypeOK
PROPERTIES
    EveryCallIsAnswered
    SourceIsRevived
