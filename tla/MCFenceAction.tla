--------------------------- MODULE MCFenceAction ---------------------------
(***************************************************************************)
(* FenceAction for TLC: the combinations of arguments of fence_action that *)
(* the agents use (agents/*/fence_*.py), with small retry counts and       *)
(* timeouts.                                                               *)
(***************************************************************************)
EXTENDS FenceAction, TLC

CONSTANTS Retries,      \* values of --retry-on
          Timeouts      \* values of --power-timeout

\* o with every action the agent offers and every retry count and timeout.
Family(o) ==
    {p \in [action : Actions, method : o.method, fns : {o.fns},
            cycleFn : {o.cycleFn}, lists : {o.lists}, noStatus : {o.noStatus},
            forceOn : {o.forceOn}, retryOn : Retries, powerTimeout : Timeouts] :
        p.action \in _get_available_actions(p)}

Base == [method |-> {"onoff"}, fns |-> "async", cycleFn |-> FALSE, lists |-> TRUE,
         noStatus |-> FALSE, forceOn |-> FALSE]

MCOptions ==
    UNION {Family(o) : o \in {
        Base,                                                     \* fence_apc
        [Base EXCEPT !.method = {"onoff", "cycle"}, !.cycleFn = TRUE,
                     !.lists = FALSE],                            \* fence_ipmilan
        [Base EXCEPT !.forceOn = TRUE],                           \* fence_scsi
        [Base EXCEPT !.fns = "sync"],                             \* fence_ovm
        [Base EXCEPT !.fns = "sync", !.noStatus = TRUE, !.lists = FALSE], \* fence_heuristics_ping
        [Base EXCEPT !.method = {"cycle"}, !.fns = "none", !.cycleFn = TRUE,
                     !.noStatus = TRUE, !.lists = FALSE]}}        \* fence_rcd_serial
=============================================================================
