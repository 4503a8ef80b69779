SPECIFICATION Spec
CONSTANTS
    big = big
    small = small
    r1 = r1
    r2 = r2
    None = None
    Boats = {big, small}
    Double = {big}
    NameOf <- MCNameOf
    Big = {big}
    Home <- MCHome
    LockCount = 2
    Requests = {r1, r2}
    MinSamples = 1
    MaxGap = 2
    TTL = 1
    MaxTime = 2
    MaxLockages = 3
SYMMETRY Users
INVARIANTS
    TypeOK
    ServedIsRecent
    TimesAreReal
