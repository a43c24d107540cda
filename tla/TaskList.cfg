\* Three tasks, two changes, pages of one, two and (past what fits) fifteen.
CONSTANTS
    Keys <- MCKeys
    LabelsOf <- MCLabelsOf
    FilterSets <- MCFilterSets
    Limits <- MCLimits
    Starts <- MCStarts
    NoInteger = NoInteger
    sortSlice <- MCSortSlice
    DefaultLimit = 2
    Width = 5
    MaxClock = 2
    MaxChanges = 2
    MaxRequests = 5
SPECIFICATION Spec
INVARIANTS
    TypeOK
    NothingMissed
    RepeatsExplained
    PagesInOrder
