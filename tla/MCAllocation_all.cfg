CONSTANTS
    Nodes = {1, 2, 3}
    Ports = {1}
    Tags <- MCTags
    Site <- MCSite
    Requests <- MCRequests
    Scenes <- MCScenes
    CorrOf <- MCCorrOf
    Procs = {p1, p2}
    Last <- MCLast
    Served <- MCServed
    MaxSends <- MCMaxSends
    LeaseFallback = TRUE
    MaxFaults = 1
    None = None
SPECIFICATION FairSpec
INVARIANTS TypeOK SRv6Honoured IssuedIsHeld RepeatIsIdentical NothingLeftOver LateCausesKnown ClarificationEnds
PROPERTY CallReturns
CHECK_DEADLOCK FALSE
