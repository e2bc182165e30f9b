CONSTANTS
    Nodes = {1, 2}
    VMs = {1}
    Transient = {}
    InitUp = {1, 2}
    Asks = {"on", "reboot", "status"}
    MaxRequests = 2
    MaxCrashes = 0
    MaxMoves = 0
    MaxStarts = 0
    MaxLists = 0
    Lossy = {"store"}
    Uri <- OneUri
SPECIFICATION FairSpec
INVARIANTS TypeOK SomeNodeReplies
PROPERTY WaitingIsServed
CHECK_DEADLOCK FALSE
