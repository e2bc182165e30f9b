------------------------------- MODULE MCSbd -------------------------------
EXTENDS Sbd

CONSTANT MCTimeouts       \* values of --power-timeout

\* Bounds: one retry of the cycle, and at most two polls before the timeout.
MCOptions ==
    {o \in [action : Actions, method : {"onoff", "cycle"}, fns : {"async"}, cycleFn : {TRUE},
            lists : {TRUE}, noStatus : {FALSE}, forceOn : {FALSE}, retryOn : {1},
            powerTimeout : MCTimeouts] :
        o.method = "cycle" => o.action = "reboot"}

\* Three devices, of which the agent reaches the first ones: all the cases up
\* to a permutation of the devices.
MCDevices == 1 .. 3
MCSites ==
    {s \in [reach : {1 .. n : n \in 0 .. 3}, sight : SUBSET MCDevices,
            crashdump : BOOLEAN, slow : BOOLEAN] :
        /\ s.crashdump => ~s.slow
        /\ \A d, e \in MCDevices :
            d < e /\ (d \in s.reach <=> e \in s.reach) /\ e \in s.sight => d \in s.sight}
=============================================================================
