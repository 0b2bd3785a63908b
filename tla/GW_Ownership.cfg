SPECIFICATION GatewaySpec
CONSTANTS
    MaxGeneration = 2
    Releaser = {r1}
    Equipment = {e1, e2}
    DeviceName = {n1, n2}
    MaxTenure = 2
    MaxQueued = 1
INVARIANTS
    ActivatedCanConnect
    
PROPERTIES
    RevokedOnlyAfterReset
CHECK_DEADLOCK FALSE
