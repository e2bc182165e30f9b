CONSTANTS
    NPlugs = 2
    Interference = FALSE
    Retries = {0, 2}
    Timeouts = {0, 2}
    Options <- MCOptions
SPECIFICATION FairSpec
INVARIANTS FencedTogether StaysOff
PROPERTIES OnOnlyAfterDark FencedIsReported Termination
