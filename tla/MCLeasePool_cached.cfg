SPECIFICATION Spec
CONSTANTS
    a = a
    b = b
    c = c
    CorrIDs <- MCCorrIDs
    Last = 2
    Workers = 1
    Free = Free
    CachedReads = TRUE
    MaxLag = 3
    MaxFaults = 1
SYMMETRY MCSymmetry
PROPERTIES
    OnlyHolderReleases
