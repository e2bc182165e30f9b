SPECIFICATION RunSpec
CONSTANTS
    NPlugs = 2
    Options <- MCOptions
    Interference = FALSE
    Agents <- PortAgents
    Inputs <- GoodInput
INVARIANTS ReportsTruth NoFaultNoFailure
