CONSTANTS
    k1 = k1
    v1 = v1
    k2 = k2
    Keys <- MCKeys
    Contents <- MCContents
    NumCalls = 3
    NoRow = NoRow
    NoCall = NoCall
    NoOp = NoOp
    NoOutcome = NoOutcome
    MaxFaults = 1
SPECIFICATION Spec
INVARIANTS
    ResultsMatchLog
    AgesInOrder
PROPERTIES
    ImplementsAtomicKV
\* Every request has been answered: nothing is left to do.
CHECK_DEADLOCK FALSE
