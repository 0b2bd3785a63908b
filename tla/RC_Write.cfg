SPECIFICATION Spec
CONSTANTS
    c1 = c1
    k1 = k1
    Command <- Cmd
    Key <- Keys
    KeyOf <- OneKey
    Readiness <- Ready
    OpOf <- AsWrite
    NeedsApproval <- NoCommand
    Audited <- NoCommand
    MaxAttempts = 2
    MaxEpoch = 2
    Responses <- WriteAnswers
    TimeoutsChecked = FALSE
INVARIANTS NoStrandedCommand
PROPERTIES  ReceiptNeverRegresses WriteNeedsLiveKey
CHECK_DEADLOCK FALSE
