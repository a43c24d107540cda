\* A start with the largest limit.
CONSTANTS
    Keys <- MCKeys
    LabelsOf <- MCLabelsOf
    FilterSets <- MCFilterSets
    Limits <- MCBigLimits
    Starts <- MCAnyStarts
    NoInteger = NoInteger
    sortSlice <- MCSortSlice
    DefaultLimit = 2
    Width = 5
    MaxClock = 2
    MaxChanges = 2
    MaxRequests = 5
SPECIFICATION Spec
INVARIANT PageInRange
