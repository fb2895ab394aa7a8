SPECIFICATION Spec
CONSTANTS
    IntBits = 5
    CharBits = 3
    Mantissa = 3
    Order <- MCOrder
    StrictOrder <- MCStrictOrder
    Programs <- MCPrograms
    Elements <- MCElements
    Indices <- MCIndices
    MemberIds = {1, 2}
    Ranges <- MCRanges
    Amounts <- MCAmounts
    Quirks = {"map_put"}
    MaxObjects = 3
    MaxSize = 2
    MaxVersion = 1
    Reach = 3
CHECK_DEADLOCK FALSE
INVARIANT NoStaleElement
