CONSTANTS
    r1 = r1
    r2 = r2
    Requests <- MCRequests
    Tenants <- MCTenants
    NoTenant = NoTenant
    Nobody = Nobody
    NumMigrations = 2
    MaxRuns = 2
    MaxFaults = 2
    Letters <- MCLetters
    Slash = "/"
    Idempotency <- MCIdempotency
    Collections <- MCCollections
    Ids <- MCIds
    AskedPrefixes <- MCAskedPrefixes
    Operations <- MCOperations
    Tokens <- MCTokens
    ItemKeys <- MCItemKeys
    ItemCategories <- MCItemCategories
SPECIFICATION Spec
INVARIANTS
    DispatcherHasDatabase
    KeysApart
    ListingExact
PROPERTIES
    OnlyLateRequestsLost
    ServedAsConfigured
    StartsAndStops
\* The program has been started as often as the bound allows.
CHECK_DEADLOCK FALSE
