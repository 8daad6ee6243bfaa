SPECIFICATION Spec
CONSTANTS
    c1 = c1
    c2 = c2
    c3 = c3
    NoCall = NoCall
    Calls <- ThreeCalls
    Backends = {"local", "s3"}
    MaxExits = 1
    MaxFaults = 1
SYMMETRY AnyCall
CHECK_DEADLOCK FALSE
INVARIANTS
    TypeOK
    CommittedPairIsStored
    LoneCallSucceeds
    StagingIsEmptied
    TornOnlyByAWriter
    FinalObjectsAreWhole
