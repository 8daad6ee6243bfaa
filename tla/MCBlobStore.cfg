SPECIFICATION Spec
CONSTANTS
    u1 = u1
    u2 = u2
    g1 = g1
    canonical = canonical
    derived = derived
    NoPut = NoPut
    Uploads <- TwoUploads
    Pages <- OnePage
    Keys <- BothKeys
    KeyOf <- KeyOfPut
    Backends = {"local", "s3"}
    MaxExits = 1
    MaxFaults = 1
    MaxStalls = 1
SYMMETRY AnyUpload
CHECK_DEADLOCK FALSE
INVARIANTS
    ObjectsAreWhole
    UploadFailsByItself
    StagingIsLeftClean
PROPERTY
    ImplementsVault
