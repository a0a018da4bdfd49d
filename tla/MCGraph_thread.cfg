CONSTANTS
    Streams = {s1}
    Texts <- MCTexts
    MaxTurns = 5
    MaxInterp = 2
    MaxCorr = 3
    MAX_ITERATIONS = 3
    Attempts = 3
    Mishaps = {"model", "slow", "crash", "deadline", "outage", "unread"}
    MaxFaults = 2
    None = None
SPECIFICATION FairSpec
INVARIANTS TypeOK SubmittedWasApproved DeclinedIsFinal RemovalConfirmed SubmissionReady
PROPERTY TurnEnds
CHECK_DEADLOCK FALSE
