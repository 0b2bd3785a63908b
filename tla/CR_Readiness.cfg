SPECIFICATION Spec
CONSTANTS
    Key = {k1, k2}
    MaxEpoch = 2
    Assessment = {a1, a2}
    MaxRevision = 2
SYMMETRY Symmetry
INVARIANTS ActiveKeysWereCommissioned PolicyListsActivatedKeys
PROPERTIES NewEpochRevokesAllKeys
CHECK_DEADLOCK FALSE
