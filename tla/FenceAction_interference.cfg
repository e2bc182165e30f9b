CONSTANTS
    NPlugs = 2
    Interference = TRUE
    Retries = {0, 1}
    Timeouts = {0, 2}
    Options <- MCOptions
SPECIFICATION Spec
INVARIANT TypeOK
PROPERTY KeepsContract
