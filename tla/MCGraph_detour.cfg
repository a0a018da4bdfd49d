CONSTANTS
    Streams = {s1}
    Texts <- MCDetour
    MaxTurns = 4
    MaxInterp = 1
    MaxCorr = 1
    MAX_ITERATIONS = 3
    Attempts = 3
    Mishaps = {}
    MaxFaults = 0
    None = None
SPECIFICATION Spec
INVARIANT ConfirmationSubmits
CHECK_DEADLOCK FALSE
