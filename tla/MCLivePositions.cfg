SPECIFICATION Spec
CONSTANTS
    l1 = l1
    l2 = l2
    v1 = v1
    v2 = v2
    NoRow = NoRow
    Vessels = {v1, v2}
    Locks = {l1, l2}
    Miles = {5, 15}
    Speeds = {0, 3}
    LockMile <- MCLockMile
    LegTime <- MCLegTime
    Pace = 3
    MinSpeed = 3
    Receiver = 12
    Radius = 2
    Anonymous = {v2}
    Fresh = 1
    DeadReckon = 2
    ProjectFor = 6
    Grace = 1
    Patience = 1
    Ahead = 0
    Lag = 1
    MaxTime = 5
    MaxReports = 1
    MaxDepartures = 1
INVARIANTS
    TypeOK
    NeverLiveAndProjected
    NobodyLost
    MarkerNeverGoesBack
