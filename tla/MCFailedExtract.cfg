SPECIFICATION Spec
CONSTANTS
    e1 = e1
    e2 = e2
    e3 = e3
    i1 = i1
    i2 = i2
    Hole = Hole
    Extracts <- ThreeExtracts
    Images <- TwoImages
    TTL = 1
    MaxTime = 2
    MaxFaults = 1
SYMMETRY AnyCall
CHECK_DEADLOCK FALSE
INVARIANT
    FailedExtractRetainsNothing
