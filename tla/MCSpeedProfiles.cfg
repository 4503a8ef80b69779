SPECIFICATION FairSpec
CONSTANTS
    r1 = r1
    r2 = r2
    k1 = k1
    k2 = k2
    Requests = {r1, r2}
    Keys = {k1, k2}
    Known = {k1}
    Never = Never
    NoKey = NoKey
    TTL = 2
    Patience = 1
    MaxTime = 3
    MaxChanges = 1
    MaxFaults = 1
INVARIANTS
    TypeOK
    ServedIsFresh
PROPERTIES
    RequestsEnd
