SPECIFICATION Spec
CONSTANTS
    c1 = c1
    k1 = k1
    Command <- Cmd
    Key <- Keys
    KeyOf <- OneKey
    Readiness <- Ready
    OpOf <- AsRestart
    NeedsApproval <- NoCommand
    Audited <- NoCommand
    MaxAttempts = 3
    MaxEpoch = 2
    Responses <- ActionAnswers
    TimeoutsChecked = FALSE
PROPERTIES NoRetryAfterAmbiguity
CHECK_DEADLOCK FALSE
