SPECIFICATION Spec
CONSTANTS
    u1 = u1
    u2 = u2
    g1 = g1
    canonical = canonical
    derived = derived
    NoPut = NoPut
    Uploads <- TwoUploads
    Pages <- OnePage
    Keys <- BothKeys
    KeyOf <- KeyOfPut
    Backends = {"s3"}
    MaxExits = 0
    MaxFaults = 1
    MaxStalls = 0
CHECK_DEADLOCK FALSE
PROPERTY CleanupFailsNoUpload
