SPECIFICATION Spec
CONSTANTS
    MaxGeneration = 2
    Releaser = {r1}
PROPERTIES ReleasedHoldsNoCredential
CHECK_DEADLOCK FALSE
