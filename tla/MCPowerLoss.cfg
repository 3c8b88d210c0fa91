CONSTANTS
    r1 = r1
    v1 = v1
    Records <- MCRecords
    Values <- MCValues
    EventIds <- MCEventIds
    NoValue = NoValue
    MaxEvents = 3
    MaxLosses = 2
SPECIFICATION PowerSpec
INVARIANTS
    DispatchedWasReceived
    CurrentUnlessToldOfLost
\* Every event is settled and on the disk: nothing is left to do.
CHECK_DEADLOCK FALSE
