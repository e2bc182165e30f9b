CONSTANTS
    Nodes = {1, 2}
    VMs = {1}
    Transient = {1}
    InitUp = {1, 2}
    Asks = {"off"}
    MaxRequests = 2
    MaxCrashes = 0
    MaxMoves = 1
    MaxStarts = 0
    MaxLists = 1
    Lossy = {"req"}
    Uri <- OneUri
SPECIFICATION Spec
INVARIANT AnswersOwnRequest
CHECK_DEADLOCK FALSE
