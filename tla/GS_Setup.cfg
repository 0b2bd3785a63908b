SPECIFICATION Spec
CONSTANTS
    Equipment = {e1}
    Points = {v1, v2}
    Starter = v1
    Connection = {n1, n2}
    NoSum = NoSum
    MaxCommands = 1
    Page = {p1}
    MaxConfigs = 2
    MaxScans = 2
    ScanPage = {p1}
    NamesScans = TRUE
    PlanEvent = {e1, e2}
    Gateway = {g1, g2}
    Unsupported = {g2}
    Runner = {x1, x2}
    MaxDeaths = 1
INVARIANTS
    DeployedWasReadLive
    LateResultsConcludeNothing
    
PROPERTIES
    RunLeavesDeploying
    ScansAreSettled
    ReconciliationEnds
CHECK_DEADLOCK FALSE
