SPECIFICATION Spec
CONSTANTS
    s1 = s1
    s2 = s2
    None = None
    Nodes <- MCNodes
    Ports <- MCPorts
    Spines <- MCSpines
    FirstSpine = s1
    Specs <- MCPlainSteered
    MaxGen = 2
    Deletable = TRUE
    StaleGet = TRUE
    Mishaps = {"api", "claim", "pool", "release", "reject", "error", "probe", "crash", "drift", "pinloss", "failover"}
    MaxMishaps = 2
ACTION_CONSTRAINTS
    OwnPatchesSeen
    HoldsStill
INVARIANTS
    TypeOK
    ClaimsGuarded
    RecordedIdsHeld
PROPERTIES
    ReadyOnDevice
CHECK_DEADLOCK FALSE
