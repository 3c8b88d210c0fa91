CONSTANTS
    c1 = c1
    c2 = c2
    c3 = c3
    Calls <- MCCalls
    Scopes <- MCScopes
    Lists <- MCLists
    NoCall = NoCall
    MaxFaults = 2
SYMMETRY MCSymmetry
SPECIFICATION Spec
INVARIANTS
    OkMeansAllApplied
    OwnListUnlessReused
    AppliedOnceWhenQuiet
\* Every call has been answered or lost: nothing is left to do.
CHECK_DEADLOCK FALSE
