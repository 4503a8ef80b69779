SPECIFICATION BlockSpec
CONSTANTS
    l1 = l1
    l2 = l2
    l3 = l3
    v1 = v1
    v2 = v2
    Unknown = Unknown
    Tows = {v1, v2}
    Locks = {l2, l3}
    LockMile <- MCLockMile
    User = 5
    Miles = {1, 7, 9}
    Speeds = {6}
    PerHour = 2
    Typical <- MCTypical
    Early <- MCEarly
    UnderWay = 2
    ReckonFor = 2
    MaxBoats = 2
    Cuts = {0, 4}
    Big = 4
    Med <- MCMed
    Late <- MCLate
    Multicut = 1
    Shuttle = 1
    Window = 4
    Slack = 0
    LiveFor = 1
    Passing = 1
    Abreast = 2
    MaxHops = 2
    MaxTime = 3
    MaxStored = 3
    MaxHeard = 2
CONSTRAINT Bound
SYMMETRY Fleet
INVARIANTS
    BlockTypeOK
    OneEntryPerPassage
    BlocksInOrder
    HeardIsUsed
    DueIsAnswered
