CONSTANTS
    Nodes = {1, 2}
    NDevs = 2
    Agents = {"scsi", "mpath"}
    Runs = {"on", "off"}
    Formed = {TRUE, FALSE}
    MayFail = {1}
    MaxRuns = 2
SPECIFICATION FairSpec
INVARIANTS TypeOK FencedUntilItRegisters KeepsAccess
PROPERTY FencedIsRebooted
CHECK_DEADLOCK FALSE
