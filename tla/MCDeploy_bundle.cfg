CONSTANTS
    Txns = {t1, t2}
    LastObject = 3
    Networks <- MCNetworks
    Attachments <- MCAttachments
    Stages <- MCStages
    Corrs <- MCCorrs
    Requests <- MCRequests
    Finalized = {1}
    MaxFaults = 2
    Reported <- MCReports
    MaxReports = 1
    None = None
SPECIFICATION FairSpec
INVARIANTS TypeOK FailureAccountsForAll AclSecondRefused ReportsAreWhole
PROPERTY TransactionEnds
CHECK_DEADLOCK FALSE
