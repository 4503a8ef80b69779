SPECIFICATION PulseSpec
CONSTANTS
    big = big
    medium = medium
    yacht = yacht
    Tows = {big, medium, yacht}
    Recreational = {yacht}
    Barges <- MCBarges
    NoTow = NoTow
    Fleets <- MCFleets
    NoFleet = NoFleet
    Rests <- MCRests
    Never = Never
    Grace = 1
    Long = 2
    Pending = {2}
    Delays = {30}
    MaxTime = 2
    MaxSightings = 2
    MaxPolls = 1
INVARIANTS
    PulseTypeOK
    WhoIsInsideIsShown
    BusyIsExplained
    WorseIsNeverCalmer
