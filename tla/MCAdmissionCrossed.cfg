SPECIFICATION FairSpec
CONSTANTS
    r1 = r1
    r2 = r2
    r3 = r3
    r4 = r4
    a = a
    b = b
    ka = ka
    kb = kb
    u1 = u1
    lock1 = lock1
    lock2 = lock2
    lock3 = lock3
    lock4 = lock4
    NoKey = NoKey
    Nobody = Nobody
    Objects <- Contents
    Keys <- TwoKeys
    UserJobs <- OneUserJob
    Requests <- ThreeCalls
    Locks <- TwoLocks
    ObjectOf <- CrossedObject
    KeyOf <- CrossedKey
    PrintOf <- CrossedPrint
    LockOf <- CrossedLocks
    MaxInterrupts = 1
CHECK_DEADLOCK FALSE
PROPERTIES EveryCallIsAnswered
