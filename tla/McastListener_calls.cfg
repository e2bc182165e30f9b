SPECIFICATION Spec
CONSTANTS
    Hosts = {a}
    Daemons = {s, t}
    Ops = {"off"}
    Seqnos = {1, 2}
    Attempts = 2
    Copies = 1
    Calls = 2
INVARIANTS TypeOK OwnAnswer ActsOnce
CHECK_DEADLOCK FALSE
