SPECIFICATION Spec
CONSTANTS
    Unknown = Unknown
    PerHour = 12
    Waypoints = {8476, 8152, 8114, 7969, 7910, 7820, 7733, 7675, 7600, 7528, 7381}
    Bridge = 7910
    LockMile = 7969
    TerminalFrom = 7890
    TerminalTo = 7913
    Typical <- MCTypical
    Measured <- MCMeasured
    FullModel <- MCFullModel
    DirectModel <- MCDirectModel
    LiveFor = 1
    ReckonFor = 24
    MinSpeed = 6
    Froms = {8400, 8000, 7940, 7380}
    Speeds = {5, 6, 18}
    Delays = {0, 1, 24, 25}
    Start = 25
    MaxTime = 26
    MaxHeard = 2
INVARIANTS
    TypeOK
    BandsInOrder
    RecentIsUsed
    CheckpointsInOrder
