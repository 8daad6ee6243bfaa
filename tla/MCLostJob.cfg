SPECIFICATION Spec
CONSTANTS
    j1 = j1
    s1 = s1
    w1 = w1
    w2 = w2
    w3 = w3
    NoWorker = NoWorker
    NoJob = NoJob
    Jobs <- OneJob
    Sources <- OneSource
    SourceOf <- OfOneSource
    PageCount <- OnePage
    MaxPages = 1
    Workers <- ThreeWorkers
    RetryLimit = 1
    MaxRetries = 0
    MaxExits = 2
    MaxTimeouts = 0
    MaxFaults = 0
    MaxFailures = 0
    MaxMishaps = 2
INVARIANTS NoJobIsLost
