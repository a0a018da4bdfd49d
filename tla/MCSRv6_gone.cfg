SPECIFICATION FairSpec
CONSTANTS
    s1 = s1
    s2 = s2
    None = None
    Nodes <- MCNodes
    Ports <- MCPorts
    Spines <- MCSpines
    FirstSpine = s1
    Specs <- MCPlainSteered
    MaxGen = 1
    Deletable = TRUE
    StaleGet = TRUE
    Mishaps = {"api", "claim", "pool", "release", "reject", "error", "probe", "crash", "drift", "pinloss", "locator", "failover", "break", "gate"}
    MaxMishaps = 1
INVARIANTS
    ClaimsGuarded
PROPERTIES
    DeletionCompletes
CHECK_DEADLOCK FALSE
