-------------------------------- MODULE Sbd --------------------------------
(***************************************************************************)
(* fence_sbd (agents/sbd), with run_commands of lib/fencing.py.py: a node  *)
(* is fenced by a message in its slot of shared disks.  The agent runs the *)
(* sbd tool, one process per disk to read, one for all disks to write, and *)
(* run_commands waits for a majority of them, for all of them, or for the  *)
(* timeout.  The control of fence_action is the one of FenceAction, with   *)
(* one plug; power[1] is the node.                                         *)
(*                                                                         *)
(* The agent's host and the node may each reach some of the disks only,    *)
(* and a process may hang for ever.  A run that fails is followed by       *)
(* another one, as the cluster does it.                                    *)
(***************************************************************************)
EXTENDS FenceAction, FiniteSets

CONSTANTS Devices,     \* --devices
          Sites,       \* what the hosts reach and how the agent is configured
          Runs         \* bound: runs of the agent, one after the other

ASSUME SbdAssumption ==
    /\ Sites \subseteq [reach : SUBSET Devices, sight : SUBSET Devices,
                       crashdump : BOOLEAN, slow : BOOLEAN]
    /\ NPlugs = 1 /\ Runs \in Nat \ {0} /\ IsFiniteSet(Devices) /\ Devices # {}

VARIABLES
    crashdump,   \* --crashdump
    checked,     \* main: the devices checked so far
    call,        \* the sbd command that run_commands runs, or "none"
    proc,        \* proc[q]: what the process for the devices q has come to
    age,         \* the age of the call: below 5 s, above, or past the timeout
    sent,        \* the devices that the message of this call is written to
    slot,        \* disks: slot[d], the message for the node
    reach,       \* the devices that the agent's host reaches
    sight,       \* the devices that the node reaches
    slow,        \* power_timeout <= msgwait, of which main only warns
    runs         \* runs left

callVars == <<call, proc, age, sent>>
siteVars == <<crashdump, reach, sight, slow>>
sbdVars  == <<siteVars, checked, callVars, slot, runs>>

Messages == {"clear", "off", "reset", "crashdump"}

Majority(S) == 2 * Cardinality(S) > Cardinality(Devices)

----------------------------------------------------------------------------
(* run_commands.                                                           *)

\* The processes of a command, each with the devices that it is given.
generate_sbd_command(command) ==
    IF command \in {"list", "dump"} THEN {{d} : d \in Devices} ELSE {Devices}

Procs == DOMAIN proc

\* The processes are started.
Popen(command, procs) ==
    /\ call = "none"
    /\ call' = command
    /\ proc' = [q \in procs |-> "alive"]
    /\ age' = "young" /\ sent' = {}

\* gone and alive at the end of a pass: check_gone has noticed what has ended.
\* (One that ends later in the same pass is as if it ended after the pass.)
gone  == {q \in Procs : proc[q] # "alive"}
alive == Procs \ gone

\* "a positive result from more than half is fine".
Quorate ==
    /\ Cardinality(gone) > Cardinality(alive)
    /\ 2 * Cardinality({q \in gone : proc[q] # "bad"}) > Cardinality(Procs)

\* Mutant: the call is only left with an answer.
Enough_answers == alive = {} \/ (age # "young" /\ Quorate)

\* The breaks of the loop.
Enough == alive = {} \/ (age # "young" /\ (Quorate \/ age = "expired"))

\* The status handed over: the best one of the processes that are gone, and
\* fail(EC_TIMED_OUT) when there are none.
Status == IF gone = {} THEN "none"
          ELSE IF \E q \in gone : proc[q] # "bad" THEN "ok" ELSE "failed"

\* run_commands returns; the rest of its processes are killed.
Returning == call # "none" /\ Enough
Kill == call' = "none" /\ proc' = <<>> /\ age' = "young" /\ sent' = {}

----------------------------------------------------------------------------
(* The agent.                                                              *)

\* main leaves it to sbd to look at the devices for reboot, off and list.
MainChecks == opt.action \notin {"reboot", "off", "list"}

\* main, before fence_action: check_sbd_device for one device.
check_sbd_device ==
    /\ pc = "main" /\ MainChecks /\ call = "none"
    /\ \E d \in Devices \ checked :
          /\ checked' = checked \cup {d}
          /\ \/ Popen("check", {{d}}) /\ UNCHANGED <<vars, slot>>
             \/ d \notin reach /\ Exit(1)    \* it is no path, or no block device
                  /\ UNCHANGED <<action, deviceVars, seen, allOff, quit, callVars, slot>>
    /\ UNCHANGED <<siteVars, runs>>

\* get_sbd_header_timeout, for the sake of a warning.
get_sbd_header_timeout ==
    /\ pc = "main" /\ (MainChecks => checked = Devices)
    /\ Popen("dump", generate_sbd_command("dump"))
    /\ UNCHANGED <<vars, siteVars, checked, slot, runs>>

\* The message for --action, of set_power_status and reboot_cycle.
Message == IF action = "on" THEN "clear"
           ELSE IF crashdump THEN "crashdump"
           ELSE IF action = "off" THEN "off" ELSE "reset"

\* A callback calls run_commands.
send_sbd_message ==
    /\ pc \in {"set", "cycle"}
    /\ Popen(Message, generate_sbd_command("message"))
    /\ UNCHANGED <<vars, siteVars, checked, slot, runs>>

get_node_list ==
    /\ pc \in {"status", "poll", "list"}
    /\ Popen("list", generate_sbd_command("list"))
    /\ UNCHANGED <<vars, siteVars, checked, slot, runs>>

translate_status(m) ==
    IF m = "clear" THEN "on" ELSE IF m \in {"off", "reset"} THEN "off" ELSE "error"

\* Mutant: a node that is not found is off.
get_power_status_missing ==
    {translate_status(proc[q]) : q \in {r \in gone : proc[r] # "bad"}}
        \cup (IF \E q \in gone : proc[q] = "bad" THEN {"off"} ELSE {})

\* What get_power_status may make of the lines: the last line about the node
\* wins, in no particular order of the devices; no line, or a device that is
\* not readable and cuts the list short, may leave the node unknown.
get_power_status ==
    {translate_status(proc[q]) : q \in {r \in gone : proc[r] # "bad"}}
        \cup (IF \E q \in gone : proc[q] = "bad" THEN {"error"} ELSE {})

\* Mutant: a message that some device has taken is a success.
Delivered_some == Status = "ok" \/ sent # {}

\* "not bool(return_code)" of reboot_cycle.
Delivered == Status = "ok"

\* The call returns to main or to the callback, and that to its caller.
CallReturns ==
    /\ Returning
    /\ IF Status = "none"
       THEN Exit(1) /\ UNCHANGED <<action, seen>>
       ELSE \/ call = "check" /\ UNCHANGED <<agentVars, seen>>
            \/ /\ call = "check" /\ Status = "failed"     \* "NOT dumped"
               /\ Exit(1) /\ UNCHANGED <<action, seen>>
            \/ /\ call = "dump"
               /\ pc' = "start"
               /\ UNCHANGED <<opt, action, plug, attempt, polls, acc, status, success, result, seen>>
            \/ pc = "list" /\ Exit(0) /\ UNCHANGED <<action, seen>>
            \/ \E reading \in get_power_status : ReadPlug(reading)
            \/ CommandSent                                \* its value is not used
            \/ /\ pc = "cycle"
               /\ Note(plug, IF Delivered THEN "cycled" ELSE "none")
               /\ LoopTail(Delivered, 1 + opt.retryOn, CycleReturned(success /\ Delivered))
    /\ Kill
    /\ UNCHANGED <<deviceVars, allOff, quit, siteVars, checked, slot, runs>>

\* fence_action, between the calls.
FenceActionStep ==
    /\ fence_action_start \/ fence_action_decide
    /\ pc' = "done" => pc = "decide"           \* get_node_list is given
    /\ UNCHANGED <<allOff, quit, sbdVars>>

Agent_sbd == \/ check_sbd_device \/ get_sbd_header_timeout \/ send_sbd_message
             \/ get_node_list \/ CallReturns \/ FenceActionStep

----------------------------------------------------------------------------
(* The sbd tool, the disks, the node, time and the cluster (external).     *)

\* The node will stop: it sees a message, or has lost the majority of its
\* devices.
Doomed == power[1] = "on" /\ (~Majority(sight) \/ \E d \in sight : slot[d] # "clear")

\* The message is written to one device.
Write(d) ==
    /\ call \in Messages /\ proc[Devices] = "alive"
    /\ d \in reach \ sent
    /\ sent' = sent \cup {d}
    /\ slot' = [slot EXCEPT ![d] = call]
    /\ UNCHANGED <<vars, siteVars, checked, call, proc, age, runs>>

\* The process that writes ends after msgwait, which is long enough for the
\* node to stop.  It succeeds with the majority of the devices.
Written ==
    /\ call \in Messages /\ proc[Devices] = "alive"
    /\ sent = {} \/ call = "clear" \/ ~Doomed
    /\ \/ Majority(sent) /\ proc' = [proc EXCEPT ![Devices] = "good"]
       \/ reach # Devices /\ ~Majority(sent) /\ proc' = [proc EXCEPT ![Devices] = "bad"]
    /\ UNCHANGED <<vars, siteVars, checked, call, age, sent, slot, runs>>

\* A process that reads ends; list prints the message in the slot.
Read ==
    /\ call \in {"check", "dump", "list"}
    /\ \E q \in Procs, d \in Devices :
          /\ q = {d} /\ proc[q] = "alive"
          /\ proc' = [proc EXCEPT ![q] = IF d \notin reach THEN "bad"
                                         ELSE IF call = "list" THEN slot[d] ELSE "good"]
    /\ UNCHANGED <<vars, siteVars, checked, call, age, sent, slot, runs>>

\* Time passes; it may run out when there is a power timeout.  The node acts
\* within the timeout, unless slow.
Clock ==
    /\ call # "none" /\ (Doomed => slow)
    /\ \/ age = "young" /\ age' = "old"
       \/ age = "old" /\ opt.powerTimeout > 0 /\ age' = "expired"
    /\ UNCHANGED <<vars, siteVars, checked, call, proc, sent, slot, runs>>

NodeStops ==
    /\ Doomed
    /\ power' = [power EXCEPT ![1] = "off"] /\ allOff' = TRUE
    /\ UNCHANGED <<agentVars, cmd, seen, quit, sbdVars>>

\* It comes back, and clears its slots, when it has seen no "off".
NodeBoots ==
    /\ power[1] = "off" /\ Majority(sight)
    /\ \A d \in sight : slot[d] # "off"
    /\ power' = [power EXCEPT ![1] = "on"]
    /\ slot' = [d \in Devices |-> IF d \in sight THEN "clear" ELSE slot[d]]
    /\ UNCHANGED <<agentVars, cmd, seen, allOff, quit, siteVars, checked, callVars, runs>>

\* The agent is started with the options o.
Started(o) ==
    /\ opt' = o /\ pc' = "main" /\ action' = o.action
    /\ plug' = 1 /\ attempt' = 1 /\ polls' = 0
    /\ acc' = "off" /\ status' = "none" /\ success' = TRUE /\ result' = -1

\* The cluster fences again when that has failed.
Retry ==
    /\ pc = "done" /\ result = 1 /\ runs > 0 /\ (Doomed => slow)
    /\ opt.action \in {"off", "reboot"}
    /\ \E o \in Options : o.action \in {"off", "reboot"} /\ Started(o)
    /\ runs' = runs - 1 /\ checked' = {}
    /\ allOff' = Dark(power)
    /\ UNCHANGED <<deviceVars, seen, quit, siteVars, callVars, slot>>

----------------------------------------------------------------------------

SbdInit ==
    /\ opt \in Options
    /\ pc = "main" /\ action = opt.action
    /\ plug = 1 /\ attempt = 1 /\ polls = 0
    /\ acc = "off" /\ status = "none" /\ success = TRUE /\ result = -1
    /\ power \in [Plugs -> {"on", "off"}]
    /\ cmd = [p \in Plugs |-> "none"] /\ seen = [p \in Plugs |-> "none"]
    /\ allOff = Dark(power) /\ quit = FALSE     \* quit is not kept here
    /\ \E s \in Sites : /\ reach = s.reach /\ sight = s.sight
                       /\ crashdump = s.crashdump /\ slow = s.slow
    /\ checked = {}
    /\ call = "none" /\ proc = <<>> /\ age = "young" /\ sent = {}
    /\ \E m \in {"clear", "off"} :
          /\ m = "clear" \/ power[1] = "off"
          /\ slot = [d \in Devices |-> m]
    /\ runs = Runs - 1

SbdDone == pc = "done" /\ UNCHANGED <<vars, sbdVars>>

SbdNext ==
    \/ Agent_sbd
    \/ \E d \in Devices : Write(d)
    \/ Written \/ Read \/ Clock \/ NodeStops \/ NodeBoots \/ Retry \/ SbdDone

\* The agent and the clock run, and the node acts on a message; nothing makes
\* a process of sbd end.
SbdFairness ==
    /\ WF_<<vars, sbdVars>>(Agent_sbd)
    /\ WF_<<vars, sbdVars>>(Clock)
    /\ WF_<<vars, sbdVars>>(NodeStops)

SbdSpec == SbdInit /\ [][SbdNext]_<<vars, sbdVars>> /\ SbdFairness

----------------------------------------------------------------------------
(* Properties.                                                             *)

\* The values that the variables take.
SbdTypeOK ==
    /\ opt \in Options /\ pc \in {"main", "start", "decide", "done"} \cup (Callbacks \ {"sync"})
    /\ status \in {"none", "on", "off"} /\ result \in -1 .. 2
    /\ seen[1] \in Readings \cup {"none", "cycled"}
    /\ slot \in [Devices -> Messages]
    /\ call \in Messages \cup {"none", "check", "dump", "list"}
    /\ proc = <<>> \/ proc \in [Procs -> Messages \cup {"alive", "bad", "good"}]

\* A reboot by the method "cycle", the default of fence_sbd, is only reported
\* when the node has really stopped: whichever devices are lost for the agent
\* or for the node, and whenever run_commands gives up.
CycleIsTrue == Succeeded /\ Cycle => allOff

\* An off, and a reboot by off and on, read the message back and take it for
\* the state of the node.  The report is true when the node sees all devices
\* and acts within the timeout, however many devices the agent has lost, and
\* also when an earlier run was given up in the middle of a message.
OffIsTrueWhenSeen ==
    Succeeded /\ opt.action \in {"off", "reboot"} /\ sight = Devices /\ ~slow => allOff

\* With a power timeout the agent answers although all its processes hang.
SbdTerminates == opt.powerTimeout > 0 ~> pc = "done"

----------------------------------------------------------------------------
(* What documents and comments say, and the code does not do.              *)

\* main says for reboot and off that "we leave it to sbd to try and decide if
\* it was successful".  For off, set_power_status returns what sbd decided and
\* nobody looks at it: a message that sbd could write to a minority only is
\* read back from there, also when the node does not see that device.
OffIsTrue == Succeeded /\ opt.action = "off" /\ ~slow => allOff
=============================================================================
