CONSTANTS
    r1 = r1
    r2 = r2
    v1 = v1
    v2 = v2
    q1 = q1
    q2 = q2
    q3 = q3
    Records <- MCRecords
    Values <- MCValues
    EventIds <- MCRequests
    NoValue = NoValue
    NoRequest = NoRequest
    NoEvent = NoEvent
    MaxFaults = 1
SPECIFICATION FairSpec
INVARIANTS
    TypeOK
    TablesAgree
    AuditChain
    HonestAnswers
PROPERTIES
    ImplementsRecordLog
    EveryRequestAnswered
\* Every request has been answered: nothing is left to do.
CHECK_DEADLOCK FALSE
