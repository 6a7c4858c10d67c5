CONSTANTS
    Callers = {c1, c2}
    Tenants = {t1, t2, t3}
    MaxVersion = 2
    Values = {v1, v2, invalid}
    Configs = {g1, g2}
    DecodeError = DecodeError
    NoConfig = NoConfig
    NoCall = NoCall
    NoCaller = NoCaller
    Size = 2
    t1 = t1
    t2 = t2
    t3 = t3
    v1 = v1
    v2 = v2
    invalid = invalid
    g1 = g1
    g2 = g2
    DecodeOf <- MCDecodeOf
    Sends <- MCSends
SPECIFICATION FairSpec
INVARIANTS
    TypeOK
    Transparent
    MapMatchesList
    OneVersionPerTenant
    Bounded
PROPERTIES
    ReturnsTheStored
    Implements
    EveryCallReturns
    RemovedForAReason
    KeepsRecency
