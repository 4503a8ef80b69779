SPECIFICATION FairSpec
CONSTANTS
    r1 = r1
    r2 = r2
    b1 = b1
    b2 = b2
    b3 = b3
    x1 = x1
    y1 = y1
    x2 = x2
    y2 = y2
    o1 = o1
    k1 = k1
    m1 = m1
    v1 = v1
    v2 = v2
    l1 = l1
    cabin = cabin
    NoRow = NoRow
    NoSubject = NoSubject
    NoBatch = NoBatch
    Events = {x1, y1, x2, y2, o1}
    Subjects = {v1, v2}
    Batches = {b1, b2}
    Sources = {cabin}
    Requests = {r1, r2}
    BatchEvents <- MCCrossBatchEvents
    BatchSource <- MCBatchSource
    EventType <- MCEventType
    Subject <- MCSubject
    ObservedAt <- MCObservedAt
    Malformed = {}
    Signed = {b1, b2}
    MaxEvents = 3
    MaxFuture = 1
    MaxClockSkew = 1
    PruneAges = {}
    MaxTime = 0
    MaxFaults = 1
PROPERTIES
    KeepsLedger
    Delivered
    RequestsEnd
