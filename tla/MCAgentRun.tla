----------------------------- MODULE MCAgentRun -----------------------------
EXTENDS AgentRun

\* Bounds: two retries of a power on, two polls before the power timeout.
MCOptions ==
    {o \in [action : Actions, method : {"onoff", "cycle"},
            fns : {"async", "sync", "none"}, cycleFn : BOOLEAN, lists : BOOLEAN,
            noStatus : BOOLEAN, forceOn : {FALSE}, retryOn : {2}, powerTimeout : {2}] :
        /\ o.action \in _get_available_actions(o)
        /\ o.method = "cycle" => o.action = "reboot"}

AllAgents == DOMAIN Table

\* All sets of options that the agent knows; with several plugs, a set that is
\* enough for every agent.
AllInputs ==
    [a \in Agents |->
        SUBSET (UserOptions \cap CompleteOpt(Table[a].main.device_opt))
        \cup {{"ipaddr", "login", "passwd", "port", "ssl", "managed"}}]
GoodInput == [a \in Agents |-> {{"ipaddr", "login", "passwd", "port", "secure", "managed"}}]

\* Only these can be given several plugs.
PortAgents == {a \in AllAgents : "port" \in Table[a].main.device_opt}
=============================================================================
