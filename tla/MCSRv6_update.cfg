SPECIFICATION FairSpec
CONSTANTS
    s1 = s1
    s2 = s2
    None = None
    Nodes <- MCNodes
    Ports <- MCPorts
    Spines <- MCSpines
    FirstSpine = s1
    Specs <- MCAll
    MaxGen = 2
    Deletable = FALSE
    StaleGet = FALSE
    Mishaps = {"gate"}
    MaxMishaps = 1
PROPERTIES
    ReadyExact
    NoRequeueStorm
CHECK_DEADLOCK FALSE
