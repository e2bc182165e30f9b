SPECIFICATION Spec
CONSTANTS
    Procs = {"o", "m", "n"}
    Scenarios <- AllScenarios
    NNics = 2
    MAX_RETRY = 2
    MaxPolls = 2
    MaxFaults = 1
INVARIANTS FencedNeverTalks BackupIntact
PROPERTIES ComesBack
