CONSTANTS
    r1 = r1
    other = other
    v1 = v1
    Records <- MCRecords
    Owned <- MCOwned
    Values <- MCValues
    EventIds <- MCEventIds
    NoValue = NoValue
    Current = 3
    Versions <- MCVersions
    WrittenAs <- MCWrittenAs
    Registries <- MCRegistries
    OccurredAt <- MCOccurredAt
    Broken = Broken
    BatchSize = 2
    MaxRuns = 2
SPECIFICATION Spec
INVARIANTS
    HandedInStableOrder
\* Every replay has ended and the trail is full: nothing is left to do.
CHECK_DEADLOCK FALSE
