CONSTANTS
    Texts <- MCTexts
    Substring <- MCSubstring
    NumKeys = 4
    Categories <- MCCategories
    Rows <- MCRows
    NoRow = NoRow
    Starts <- MCStarts
    MaxPath = 4
    DefaultLimit = 1
    MaxLimit = 2
    MaxChanges = 2
SPECIFICATION ListingSpec
INVARIANTS
    SteadyRowsListed
    ListedInOrder
    SplitAtDots
    ValidFilterServed
\* The client has read the empty page or was refused.
CHECK_DEADLOCK FALSE
