CONSTANTS
    Nodes = {1, 2, 3}
    VMs = {1}
    Transient = {}
    InitUp = {1, 2, 3}
    Asks = {"off"}
    MaxRequests = 1
    MaxCrashes = 1
    MaxMoves = 0
    MaxStarts = 1
    MaxLists = 0
    Lossy = {"reply"}
    Uri <- OneUri
SPECIFICATION Spec
INVARIANTS OffIsTrueUntilJoin OneReplyUntilJoin KnowsAll
CHECK_DEADLOCK FALSE
