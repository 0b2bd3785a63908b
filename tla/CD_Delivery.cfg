SPECIFICATION FairSpec
CONSTANTS
    MaxRevision = 2
    Dispatcher = {d1}
PROPERTIES ImplementsRegister ConfigSettles
CHECK_DEADLOCK FALSE
