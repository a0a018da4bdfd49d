CONSTANTS
    Txns = {t1, t2}
    LastObject = 3
    Networks <- MCNetworks
    Attachments <- MCAttachments
    Stages <- MCStages
    Corrs <- MCCorrs
    Requests <- MCThread
    Finalized = {1}
    MaxFaults = 2
    Reported <- MCOwnReports
    MaxReports = 1
    None = None
SPECIFICATION FairSpec
PROPERTY RollbackSparesSubmitted
CHECK_DEADLOCK FALSE
