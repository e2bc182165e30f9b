SPECIFICATION SbdSpec
CONSTANTS
    NPlugs = 1
    Options <- MCOptions
    Interference = FALSE
    Devices <- MCDevices
    Sites <- MCSites
    MCTimeouts = {0, 1}
    Runs = 2
INVARIANTS CycleIsTrue OffIsTrueWhenSeen
PROPERTIES SbdTerminates
