SPECIFICATION BlockSpec
CONSTANTS
    l1 = l1
    l2 = l2
    l3 = l3
    v1 = v1
    v2 = v2
    Unknown = Unknown
    Tows = {v1}
    Locks = {l2}
    LockMile <- MCLockMile
    User = 5
    Miles = {1, 9}
    Speeds = {6}
    PerHour = 2
    Typical <- MCTypical
    Early <- MCEarly
    UnderWay = 2
    ReckonFor = 2
    MaxBoats = 2
    Cuts = {0, 4}
    Big = 4
    Med <- MCMed
    Late <- MCLate
    Multicut = 1
    Shuttle = 1
    Window = 4
    Slack = 1
    LiveFor = 1
    Passing = 1
    Abreast = 2
    MaxHops = 2
    MaxTime = 5
    MaxStored = 3
    MaxHeard = 1
INVARIANT StaleNeverHides
