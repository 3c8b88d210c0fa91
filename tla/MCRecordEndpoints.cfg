CONSTANTS
    r1 = r1
    r2 = r2
    v1 = v1
    Records <- MCRecords
    Values <- MCValues
    NoValue = NoValue
    EventIds <- MCEventIds
    NumCalls = 3
    Bodies <- MCBodies
    MaxFaults = 1
SPECIFICATION Spec
INVARIANTS
    RowMatchesTrail
    AnswersMatchTrail
\* Every call has been answered or lost: nothing is left to do.
CHECK_DEADLOCK FALSE
