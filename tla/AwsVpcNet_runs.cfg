SPECIFICATION Spec
CONSTANTS
    Procs = {"p", "q"}
    NNics = 2
    Home <- MCHome
    Setups <- MCSetups
    MaxStarts = 3
    MaxFaults = 2
    MaxPolls = 2
    max_retries = 2
INVARIANTS OffIsSeparated OnIsHome GroupsWhole HomeKept
CHECK_DEADLOCK FALSE
