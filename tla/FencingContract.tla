-------------------------- MODULE FencingContract --------------------------
(***************************************************************************)
(* What a fence agent promises to the cluster (doc/FenceAgentAPI.md,       *)
(* "Agent Operations and Return Values"), with no device, retry or timeout *)
(* in it.  The agent gathers evidence about the plugs of one node, one     *)
(* plug at a time, and answers once with an exit code.  Code 0 has to be   *)
(* backed by the evidence held at that instant; code 1 needs none.         *)
(***************************************************************************)
EXTENDS Integers

CONSTANT Plugs          \* the plugs that power the node

VARIABLES request,      \* what the cluster asked for, see Requests
          evidence,     \* evidence[p]: the last thing learnt about plug p
          answer        \* the exit code, or -1 while the agent is running

contractVars == <<request, evidence, answer>>

\* "reset" is a reboot by the method "cycle", which nothing verifies.
Requests == {"on", "off", "reboot", "reset", "status", "other"}

Evidence == {"none", "on", "off", "error", "cycled"}

\* The evidence that exit code 0 or 2 has to rest on.
Backed(r, code, e) ==
    /\ r \in {"off", "reboot"} /\ code = 0 => \A p \in Plugs : e[p] = "off"
    /\ r = "reset" /\ code = 0 => \A p \in Plugs : e[p] = "cycled"
    /\ r = "on" /\ code = 0 => \E p \in Plugs : e[p] = "on"
    /\ r = "status" /\ code = 0 => \E p \in Plugs : e[p] = "on"
    /\ code = 2 => r = "status" /\ \A p \in Plugs : e[p] = "off"

ContractInit ==
    /\ request \in Requests
    /\ evidence = [p \in Plugs |-> "none"]
    /\ answer = -1

\* The agent learns, or forgets, something about one plug.
Learn ==
    /\ answer = -1
    /\ \E p \in Plugs, v \in Evidence : evidence' = [evidence EXCEPT ![p] = v]
    /\ UNCHANGED <<request, answer>>

\* The agent answers, on the evidence it has, a last observation included.
Answer ==
    /\ answer = -1
    /\ \/ evidence' = evidence
       \/ \E p \in Plugs, v \in Evidence : evidence' = [evidence EXCEPT ![p] = v]
    /\ answer' \in 0 .. 2
    /\ Backed(request, answer', evidence')
    /\ UNCHANGED request

ContractNext == Learn \/ Answer

ContractSpec == ContractInit /\ [][ContractNext]_contractVars
=============================================================================
