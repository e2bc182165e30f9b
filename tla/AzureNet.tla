------------------------------ MODULE AzureNet ------------------------------
(***************************************************************************)
(* fence_azure_arm with --network-fencing (agents/azure_arm and            *)
(* lib/azure_fence): an off moves every network interface of the machine   *)
(* into the fence subnet, asks for power off and reports success as soon   *)
(* as the interfaces are there, without waiting for the machine to stop.   *)
(* The monitor of the agent looks for machines that have stopped since,    *)
(* moves their interfaces back and starts them.                            *)
(*                                                                         *)
(* Several processes of the agent run against one machine.  The home       *)
(* subnet of an interface is kept in a tag of the interface.  Every call   *)
(* of the cloud is one step, and every one may fail.                       *)
(***************************************************************************)
EXTENDS Integers

CONSTANTS Procs,       \* agent processes, each started again and again
          Scenarios,   \* what the processes do: their --action, "off" (or reboot),
                       \* "on", "monitor" or "none"; bound: starts of the others
                       \* than monitors, together
          NNics,       \* network interfaces of the machine
          MAX_RETRY,   \* attempts to update an interface
          MaxPolls,    \* polls before --power-timeout
          MaxFaults    \* bound: processes that die and interfaces that are skipped

Nics == 1 .. NNics

ASSUME AzureNetAssumption ==
    /\ Scenarios \subseteq [does : [Procs -> {"off", "on", "monitor", "none"}], starts : Nat]
    /\ NNics \in Nat \ {0} /\ MAX_RETRY \in Nat \ {0}
    /\ MaxPolls \in Nat \ {0} /\ MaxFaults \in Nat

VARIABLES
    nic,       \* cloud: nic[n].subnet, and nic[n].tag, the subnet it came from
    denies,    \* cloud: the fence subnet exists and its rules deny everything
    vm,        \* cloud: power state of the machine
    boot,      \* cloud: incarnation of the machine, counted from 1
    does,      \* does[p]: the --action of process p
    pc,        \* pc[p]: the next call of the process
    at,        \* at[p]: loop variable over the interfaces
    allIn,     \* allIn[p]: allNICOK of get_network_state
    copy,      \* copy[p]: the interface as last read
    tries,     \* tries[p]: attempts for this interface
    polls,     \* polls[p]: polls made, 0 while the initial status is read
    starts,    \* starts left
    faults,    \* faults so far
    fenced,    \* history: the incarnations for which an off was reported
    hurt       \* history: "crossed" when processes got in each other's way, "torn"
               \* when one left the interfaces half moved, "cut" when one ended
               \* before it switched the machine

cloudVars == <<nic, denies, vm, boot>>
procVars  == <<does, pc, at, allIn, copy, tries, polls, starts>>
vars      == <<cloudVars, procVars, faults, fenced, hurt>>

Alive == vm \in {"starting", "running", "stopping"}

\* Process p moves interfaces or is about to switch the machine.
Busy(p) == pc[p] \in {"get", "put", "switch"}

----------------------------------------------------------------------------
(* A process.                                                              *)

\* The next call of process p is at label l, which starts a loop over the
\* interfaces.
Loop(p, l) ==
    /\ pc' = [pc EXCEPT ![p] = l]
    /\ at' = [at EXCEPT ![p] = 1]
    /\ allIn' = [allIn EXCEPT ![p] = TRUE]
    /\ tries' = [tries EXCEPT ![p] = 0]
    /\ UNCHANGED <<does, copy, starts>>

\* The process ends, and can be started again.
End(p) == Loop(p, "idle") /\ polls' = [polls EXCEPT ![p] = 0]

\* main is started; a monitor runs check_unfence, the others fence_action.  Two
\* offs at a time are not told apart by the tags.
Start(p) ==
    /\ pc[p] = "idle" /\ does[p] # "none"
    /\ IF does[p] = "monitor" THEN UNCHANGED starts
       ELSE starts > 0 /\ starts' = starts - 1
    /\ pc' = [pc EXCEPT ![p] = "net"]
    /\ hurt' = IF \E q \in Procs \ {p} : does[p] = "off" /\ does[q] = "off" /\ pc[q] # "idle"
               THEN hurt \cup {"crossed"} ELSE hurt
    /\ UNCHANGED <<does, at, allIn, copy, tries, polls, cloudVars, faults, fenced>>

\* Process p begins to move the interfaces.  It crosses another one that does so,
\* and an on crosses a machine that has not stopped.
Move(p) ==
    /\ Loop(p, "get") /\ UNCHANGED polls
    /\ hurt' = IF \/ \E q \in Procs \ {p} : Busy(q)
                  \/ does[p] = "on" /\ vm # "stopped"
               THEN hurt \cup {"crossed"} ELSE hurt

\* get_power_status has returned s to fence_action.  An off that is reported
\* concerns the incarnation that is alive, if there is one.
StatusIs(p, s) ==
    IF s = does[p]
    THEN /\ End(p)
         /\ fenced' = IF s = "off" /\ Alive THEN fenced \cup {boot} ELSE fenced
         /\ UNCHANGED hurt
    ELSE /\ IF polls[p] = 0 THEN Move(p)
            ELSE /\ IF polls[p] < MaxPolls
                    THEN Loop(p, "net") /\ polls' = [polls EXCEPT ![p] = @ + 1]
                    ELSE End(p)
                 /\ UNCHANGED hurt
         /\ UNCHANGED fenced

\* allNICOK after the last interface.
NetworkOff(p, in) == allIn[p] /\ in

\* One interface of get_network_state, called by get_power_status for on and
\* off, and by check_unfence for a monitor.
get_network_state(p) ==
    /\ pc[p] = "net"
    /\ LET in == denies /\ nic[at[p]].subnet = "fence"
           off == NetworkOff(p, in)
       IN IF at[p] < NNics
          THEN /\ at' = [at EXCEPT ![p] = @ + 1]
               /\ allIn' = [allIn EXCEPT ![p] = @ /\ in]
               /\ UNCHANGED <<does, pc, copy, tries, polls, starts, fenced, hurt>>
          ELSE IF does[p] = "monitor"
          THEN /\ IF off THEN Loop(p, "power") ELSE Loop(p, "idle")
               /\ UNCHANGED <<polls, fenced, hurt>>
          ELSE IF off THEN StatusIs(p, "off")
          ELSE Loop(p, "power") /\ UNCHANGED <<polls, fenced, hurt>>
    /\ UNCHANGED <<cloudVars, faults>>

\* Mutant: a machine on its way down counts as stopped.
PowerOff_early(p) == vm # "running"

\* Mutant: the word for a stopped machine is not known.
PowerOff_never(p) == does[p] = "on" /\ vm # "running"

\* get_power_status once the network is not the answer: for off and monitor
\* only a stopped machine is off, for on everything that does not run.
PowerOff(p) == IF does[p] = "on" THEN vm # "running" ELSE vm = "stopped"

\* The power state is read.
get_power_status(p) ==
    /\ pc[p] = "power"
    /\ IF does[p] = "monitor"
       THEN /\ IF PowerOff(p) THEN Move(p) ELSE Loop(p, "idle") /\ UNCHANGED <<polls, hurt>>
            /\ UNCHANGED fenced
       ELSE StatusIs(p, IF PowerOff(p) THEN "off" ELSE "on")
    /\ UNCHANGED <<cloudVars, faults>>

\* set_network_state: interface at[p] is read.
nic_get(p) ==
    /\ pc[p] = "get"
    /\ pc' = [pc EXCEPT ![p] = "put"]
    /\ copy' = [copy EXCEPT ![p] = nic[at[p]]]
    /\ UNCHANGED <<does, at, allIn, tries, polls, starts, cloudVars, faults, fenced, hurt>>

\* After the last interface the machine is powered off or started.
NextNic(p) ==
    /\ IF at[p] < NNics
       THEN pc' = [pc EXCEPT ![p] = "get"] /\ at' = [at EXCEPT ![p] = @ + 1]
       ELSE pc' = [pc EXCEPT ![p] = "switch"] /\ at' = [at EXCEPT ![p] = 1]
    /\ tries' = [tries EXCEPT ![p] = 0]
    /\ UNCHANGED <<does, allIn, copy, polls, starts>>

\* Mutant: the fence subnet is kept as the home of the interface.
Blocked_late(c) == [subnet |-> "fence", tag |-> "fence"]

\* What "block" and "unblock" make of the interface that was read.
Blocked(c)   == [subnet |-> "fence", tag |-> c.subnet]
Unblocked(c) == [subnet |-> c.tag, tag |-> "none"]

\* create_or_update with the interface as read and changed.
nic_put(p) ==
    /\ pc[p] = "put"
    /\ IF does[p] = "off" THEN denies ELSE copy[p].tag # "none"
    /\ nic' = [nic EXCEPT ![at[p]] =
                  IF does[p] = "off" THEN Blocked(copy[p]) ELSE Unblocked(copy[p])]
    /\ NextNic(p)
    /\ UNCHANGED <<denies, vm, boot, faults, fenced, hurt>>

\* A fence subnet without its rules, or an interface without any tag, ends the
\* process with fail_usage.
nic_unusable(p) ==
    /\ pc[p] = "put"
    /\ IF does[p] = "off" THEN ~denies ELSE copy[p].tag = "none"
    /\ End(p)
    /\ UNCHANGED <<cloudVars, faults, fenced, hurt>>

\* An interface that has other tags only: the KeyError is logged, the next
\* interface is tried.
nic_untagged(p) ==
    /\ pc[p] = "put" /\ does[p] # "off" /\ copy[p].tag = "none"
    /\ NextNic(p)
    /\ UNCHANGED <<cloudVars, faults, fenced, hurt>>

\* A CloudError: the interface is read and changed again, up to MAX_RETRY times.
nic_cloud_error(p) ==
    /\ pc[p] \in {"get", "put"} /\ tries[p] + 1 < MAX_RETRY
    /\ pc' = [pc EXCEPT ![p] = "get"]
    /\ tries' = [tries EXCEPT ![p] = @ + 1]
    /\ UNCHANGED <<does, at, allIn, copy, polls, starts, cloudVars, faults, fenced, hurt>>

\* Any other exception at once, and the last CloudError: the interface is left as
\* it is and the next one is tried.
nic_skipped(p) ==
    /\ pc[p] \in {"get", "put"} /\ faults < MaxFaults
    /\ NextNic(p)
    /\ faults' = faults + 1 /\ hurt' = hurt \cup {"torn"}
    /\ UNCHANGED <<cloudVars, fenced>>

\* do_vm_power_off and do_vm_start: the operation is accepted, and not waited for.
\* The cloud refuses to start a machine that is stopping (an exception).
set_power_status(p) ==
    /\ pc[p] = "switch"
    /\ \/ /\ does[p] = "off"
          /\ vm' = IF Alive THEN "stopping" ELSE vm
          /\ UNCHANGED boot
       \/ /\ does[p] # "off" /\ vm = "stopped"
          /\ vm' = "starting" /\ boot' = boot + 1
       \/ does[p] # "off" /\ vm # "stopped" /\ UNCHANGED <<vm, boot>>
    /\ IF does[p] = "monitor" \/ (does[p] = "on" /\ vm = "stopping") THEN End(p)
       ELSE Loop(p, "net") /\ polls' = [polls EXCEPT ![p] = 1]
    /\ UNCHANGED <<nic, denies, faults, fenced, hurt>>

\* The process ends at any call: with fail_usage when the network or the power
\* state is not read, with an exception when the machine is not read or not
\* switched, or because it is killed.
Dies(p) ==
    /\ pc[p] # "idle" /\ faults < MaxFaults
    /\ End(p)
    /\ faults' = faults + 1
    /\ hurt' = hurt \cup (IF pc[p] \in {"get", "put"} THEN {"torn"}
                         ELSE IF pc[p] = "switch" THEN {"cut"} ELSE {})
    /\ UNCHANGED <<cloudVars, fenced>>

Process(p) ==
    \/ get_network_state(p) \/ get_power_status(p) \/ nic_get(p) \/ nic_put(p)
    \/ nic_unusable(p) \/ nic_untagged(p) \/ nic_cloud_error(p) \/ nic_skipped(p)
    \/ set_power_status(p)

----------------------------------------------------------------------------
(* The cloud (external).                                                   *)

MachineStops ==
    /\ vm = "stopping" /\ vm' = "stopped"
    /\ UNCHANGED <<nic, denies, boot, procVars, faults, fenced, hurt>>

MachineBoots ==
    /\ vm = "starting" /\ vm' = "running"
    /\ UNCHANGED <<nic, denies, boot, procVars, faults, fenced, hurt>>

----------------------------------------------------------------------------

Init ==
    /\ nic = [n \in Nics |-> [subnet |-> "home", tag |-> "none"]]
    /\ denies \in BOOLEAN
    /\ vm = "running" /\ boot = 1
    /\ pc = [p \in Procs |-> "idle"]
    /\ at = [p \in Procs |-> 1]
    /\ allIn = [p \in Procs |-> TRUE]
    /\ copy = [p \in Procs |-> [subnet |-> "home", tag |-> "none"]]
    /\ tries = [p \in Procs |-> 0]
    /\ polls = [p \in Procs |-> 0]
    /\ \E s \in Scenarios : does = s.does /\ starts = s.starts
    /\ faults = 0 /\ fenced = {} /\ hurt = {}

Next == \/ \E p \in Procs : Start(p) \/ Process(p) \/ Dies(p)
        \/ MachineStops \/ MachineBoots

\* The cloud carries out what it has accepted; processes run and the cluster
\* calls the monitor again and again.
Fairness ==
    /\ WF_vars(MachineStops) /\ WF_vars(MachineBoots)
    /\ \A p \in Procs :
          /\ WF_vars(Process(p))
          /\ WF_vars(does[p] = "monitor" /\ Start(p))

Spec == Init /\ [][Next]_vars /\ Fairness

----------------------------------------------------------------------------
(* Properties.                                                             *)

\* The values that the variables take.
TypeOK ==
    /\ nic \in [Nics -> [subnet : {"home", "fence"}, tag : {"none", "home", "fence"}]]
    /\ vm \in {"running", "stopping", "stopped", "starting"}
    /\ boot \in Nat \ {0} /\ fenced \subseteq 1 .. boot
    /\ pc \in [Procs -> {"idle", "net", "power", "get", "put", "switch"}]
    /\ at \in [Procs -> Nics] /\ allIn \in [Procs -> BOOLEAN]
    /\ tries \in [Procs -> 0 .. MAX_RETRY - 1] /\ polls \in [Procs -> 0 .. MaxPolls]

\* An incarnation of the machine for which an off was reported, and which has
\* not stopped yet, never gets its network back: neither by the monitor, which
\* checks network and power one after the other and acts later, nor by an off
\* that was reported from interfaces read one after the other.  Calls that fail
\* and processes that die do not change that, as long as none leaves interfaces
\* half moved, no two processes move interfaces at a time and no two offs overlap.
FencedNeverTalks ==
    hurt \subseteq {"cut"} /\ Alive /\ boot \in fenced => \A n \in Nics : nic[n].subnet = "fence"

\* An interface in the fence subnet remembers its way home, under the same
\* conditions: no later off overwrites the tag, and no process writes back an old
\* copy.
BackupIntact ==
    hurt \subseteq {"cut"} => \A n \in Nics : nic[n].subnet = "fence" => nic[n].tag = "home"

\* The machine comes back with all its interfaces once nobody fences it any
\* more, although the off that stopped it is not followed by an on; whatever
\* calls fail, as long as they are not those that move or switch it.
ComesBack ==
    <>(hurt # {}) \/ <>[](vm = "running" /\ \A n \in Nics : nic[n].subnet = "home")
=============================================================================
