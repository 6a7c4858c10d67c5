CONSTANTS
    Callers = {c1, c2}
    Tenants = {t1}
    MaxVersion = 1
    Values = {v1, v2, invalid}
    Configs = {g1, g2}
    DecodeError = DecodeError
    NoConfig = NoConfig
    NoCall = NoCall
    NoRequest = NoRequest
    NoCheck = NoCheck
    Nodes = {n1}
    MaxRows = 1
    t1 = t1
    t2 = t2
    v1 = v1
    v2 = v2
    invalid = invalid
    g1 = g1
    g2 = g2
    DecodeOf <- MCDecodeOf
    Sends <- MCSends
SPECIFICATION Spec
CHECK_DEADLOCK FALSE
INVARIANTS
    CheckIncluded
