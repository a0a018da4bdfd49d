SPECIFICATION MCOwnSpec
CONSTANTS
    a = a
    b = b
    c = c
    CorrIDs <- MCCorrIDs
    Last = 2
    Workers = 3
    Free = Free
    CachedReads = TRUE
    MaxLag = 2
    MaxFaults = 1
INVARIANTS
    TypeOK
    GrantBacked
    DistinctGrants
    OneLeasePerCorrID
PROPERTIES
    ImplementsIdAuthority
    OnlyHolderReleases
