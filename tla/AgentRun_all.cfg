SPECIFICATION RunSpec
CONSTANTS
    NPlugs = 1
    Options <- MCOptions
    Interference = FALSE
    Agents <- AllAgents
    Inputs <- AllInputs
INVARIANTS ReportsTruth  DelayHonoured AcceptedCanLogIn PortFitsPath
PROPERTIES SwitchesRightWay
