SPECIFICATION Spec
CONSTANTS
    s1 = s1
    s2 = s2
    None = None
    Nodes <- MCNodes
    Ports <- MCPorts
    Spines <- MCSpines
    FirstSpine = s1
    Specs <- MCPorts2
    MaxGen = 3
    Deletable = FALSE
    StaleGet = FALSE
    Mishaps = {}
    MaxMishaps = 0
INVARIANTS
    AppliedIsHashed
CHECK_DEADLOCK FALSE
