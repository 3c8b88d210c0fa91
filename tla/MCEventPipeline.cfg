CONSTANTS
    r1 = r1
    v1 = v1
    Records <- MCRecords
    Values <- MCValues
    EventIds <- MCEventIds
    NoValue = NoValue
    MaxRows = 2
    BatchSizes = {1, 2}
    MaxRetry = 2
    MaxFaults = 1
    MaxTime = 1
SPECIFICATION SpecAll
INVARIANTS
    AttemptsAccounted
    InOrderIfStampedInOrder
    MetricsMatchTable
    ReplicaWasTrue
    CurrentOnceDispatched
PROPERTIES
    ImplementsAtLeastOnce
    EventuallyConsistent
