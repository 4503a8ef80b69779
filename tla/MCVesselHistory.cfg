SPECIFICATION ReplaySpec
CONSTANTS
    tow = tow
    Boats = {tow}
    Double = {tow}
    NameOf <- MCNameOf
    Home <- MCHome
    LockCount = 4
    Tow = tow
    Vessel = tow
    SimLocks <- MCSimLocks
    Covered <- MCCovered
    Window = 7
    Cadence = 2
    MaxPoints = 2
    Dedup = 2
    MaxLeg = 3
    RoundTrip = 2
    Onward = 3
    MaxTime = 9
    MaxLockages = 5
    MaxFixes = 4
CONSTRAINT Bound
INVARIANTS
    PointsKeepUp
    LegsAreReal
    LegsAreShown
    EveryProfileIsRight
