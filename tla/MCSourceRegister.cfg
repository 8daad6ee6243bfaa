SPECIFICATION Spec
CONSTANTS
    f1 = f1
    f2 = f2
    x1 = x1
    c1 = c1
    s1 = s1
    NoCustodian = NoCustodian
    Founders <- TwoFounders
    Slugs <- OneSlug
    Deliveries <- ThreeDeliveries
    Readers <- OneReader
    ClientOf <- Addresses
    Clients <- OneClient
    PageSize = 1
    Limit = 3
    Span = 2
    MaxTime = 2
SYMMETRY AnyFounder
CHECK_DEADLOCK FALSE
INVARIANTS
    NoSourceIsSkipped
    CustodianHasItsCorpus
    AtMostLimitPerSpan
PROPERTY
    ImplementsSlidingWindow
