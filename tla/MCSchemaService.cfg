CONSTANTS
    a1 = a1
    a2 = a2
    w1 = w1
    w2 = w2
    s1 = s1
    s2 = s2
    d1 = d1
    d2 = d2
    Admins <- MCAdmins
    Writers <- MCWriters
    Schemas <- MCSchemas
    Docs <- MCDocs
    Satisfies <- MCSatisfies
    NoSchema = NoSchema
    MaxFaults = 1
SPECIFICATION Spec
INVARIANTS
    FreshAfterQuietChange
    JudgedByCommittedSchema
\* Every call has returned: nothing is left to do.
CHECK_DEADLOCK FALSE
