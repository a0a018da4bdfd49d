SPECIFICATION FairSpec
CONSTANTS
    s1 = s1
    s2 = s2
    None = None
    Nodes <- MCNodes
    Ports <- MCPorts
    Spines <- MCSpines
    FirstSpine = s1
    Specs <- MCPortSteered
    MaxGen = 2
    Deletable = FALSE
    StaleGet = FALSE
    Mishaps = {"reject", "drift", "pinloss", "gate", "crash", "break", "locator"}
    MaxMishaps = 2
PROPERTIES
    EventuallyReady
CHECK_DEADLOCK FALSE
