SPECIFICATION FairSpec
CONSTANTS
    c1 = c1
    k1 = k1
    Command <- Cmd
    Key <- Keys
    KeyOf <- OneKey
    Readiness <- Ready
    OpOf <- AsWrite
    NeedsApproval <- Cmd
    Audited <- Cmd
    MaxAttempts = 1
    MaxEpoch = 2
    Responses <- FewAnswers
    TimeoutsChecked = TRUE
INVARIANTS ApprovedBeforeSent
PROPERTIES ImplementsPermits DispatchSettles
CHECK_DEADLOCK FALSE
