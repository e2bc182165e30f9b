------------------------------ MODULE AgentRun ------------------------------
(***************************************************************************)
(* A run of an agent, from its input to its exit code: process_input and   *)
(* check_input, the steps of main, then fence_action with the agent's own  *)
(* callbacks, for every agent of the tables.  The control of fence_action  *)
(* and of its loops is the one of FenceAction; the callbacks, which are    *)
(* nondeterministic there, do here what the tables say.                    *)
(*                                                                         *)
(* The device answers a query with one of the words that the agent may     *)
(* meet.  A clear word tells the truth; behind any other word the machine  *)
(* may be on or off.                                                       *)
(***************************************************************************)
EXTENDS FenceAction, Options, Sequences, ShellAgents, SnmpAgents, CloudAgents, VmAgents

CONSTANTS Agents,         \* the agents that may be run
          Inputs          \* Inputs[a]: sets of options given to agent a

Table == ShellTable @@ SnmpTable @@ CloudTable @@ VmTable

\* Only an agent that has --plug can be given several plugs.
ASSUME AgentsAssumption ==
    /\ Agents \subseteq DOMAIN Table
    /\ Inputs \in [Agents -> SUBSET SUBSET UserOptions]
    /\ NPlugs > 1 => \A a \in Agents : "port" \in Table[a].main.device_opt

VARIABLES
    agent,         \* the agent run
    given,         \* the options given and how, while pc = "input"
    options,       \* keys of the options and port, in main and once main has failed
    step,          \* the step of main about to be taken, while pc = "main"
    missingAsOff,  \* --missing-as-off
    diag,          \* --action was diag, which main turns into a reboot
    uuids,         \* the plugs that are given as a UUID
    kept,          \* the machine that a global variable or --uuid names, or 0
    heard,         \* the status that main has read, for names = "once"
    delayed,       \* history: --delay has been waited for
    shown,         \* history: status of the machine in a list
    faulty,        \* history: the device was late, unclear or refused, or main met
                   \* a fault that is not the lack of one of the UserOptions
    guessed        \* history: an answer that is known to be taken for off

runVars == <<agent, given, options, step, missingAsOff, diag, uuids, kept, heard, delayed, shown, faulty, guessed>>
agentRunVars == <<vars, runVars>>

Row == Table[agent]
Has(name) == name \in Row.main.device_opt

\* given and options are forgotten when nothing reads them any more.
NoInput == [channel |-> "none", names |-> {}]
NoOptions == [has |-> {}, port |-> "forgotten"]

----------------------------------------------------------------------------
(* What the device says (external).                                        *)

SaysOn == {"on", "UP", "enabled", "answers", "running", "idle", "blocked", "paused", "no_state",
           "Online", "online", "RUNNING", "POWERED_ON", "poweredOn", "ACTIVE", "ON", "Running",
           "S0", "active", "up", "group_on"}
SaysOff == {"off", "DOWN", "disabled", "standby", "Disabled", "bound", "poweroff", "shut_off",
            "crashed", "Offline", "offline", "S5", "stopped", "deallocated", "exited", "created",
            "not_active", "Not_Activated", "STOPPED", "POWERED_OFF", "poweredOff", "Halted",
            "SHUTOFF", "OFF", "TERMINATED", "Stopped", "not_instantiated", "down", "group_off",
            "DELETED", "FAILED_TO_CREATE"}
Clear == SaysOn \cup SaysOff

\* The unclear answers that a callback takes for off.
TakenForOff ==
    [a \in {"ilo_mp", "ilo_ssh", "vbox", "lpar", "emerson", "ibmblade", "intelmodular",
            "cisco_mds", "ifmib", "ipdu", "apc_snmp", "lindypdu", "vmware", "ibmz"} |-> {"other"}]
    @@ [a \in {"vmware_rest", "vmware_vcloud", "ovm"} |-> {"SUSPENDED"}]
    @@ [a \in {"skalar", "skalar_graceful"} |->
            {"SUSPENDED", "ERROR", "CREATING", "NODE_OFFLINE", "STARTING"}]
    @@ [virsh |-> {"garbled", "no_state", "in_shutdown", "pmsuspended"},
        crosslink |-> {"garbled", "silent"}, amt |-> {"S3", "other"}, wti |-> {"group_other"},
        zvmip |-> {"absent", "error_reply"}, rhevm |-> {"no_status"},
        cisco_ucs |-> {"other", "missing", "mismatch"}, vmware_server1 |-> {"other", "absent"},
        vmware_soap |-> {"other", "suspended"}, nutanix_ahv |-> {"PAUSED"}]

\* The answer w has been read.
Hear(w) ==
    /\ faulty' = (faulty \/ w \notin Clear \/ \E p \in Plugs : cmd[p] # "none")
    /\ guessed' = (guessed \/ (agent \in DOMAIN TakenForOff /\ w \in TakenForOff[agent]))

\* The device may answer w about a machine whose power is pw.
MayAnswer(w, pw) == (w \in SaysOn => pw = "on") /\ (w \in SaysOff => pw = "off")

----------------------------------------------------------------------------
(* main, before fence_action.                                              *)

\* The option record o is one that the agent can be started with.
Fits(o) ==
    /\ o.action \in AcceptableActions(CompleteOpt(Row.main.device_opt))
    /\ o.fns = IF "sync" \in Row.main.fns THEN "sync"
               ELSE IF "set" \in Row.main.fns THEN "async" ELSE "none"
    /\ o.cycleFn = ("cycle" \in Row.main.fns \/ diag)
    /\ o.method = "cycle" => Has("method") \/ diag
    /\ diag => o.action = "reboot" /\ o.method = "cycle"
    /\ o.lists = Has("port")
    /\ o.noStatus = Has("no_status")
    /\ ~o.forceOn

\* process_input and check_input: the input is refused, or main goes on with
\* the options.  The record opt holds the ones that fence_action reads.
CheckInput ==
    /\ pc = "input"
    /\ LET device_opt == CompleteOpt(Row.main.device_opt)
           defaults   == Row.main.defaults
           avail      == AvailOpt(Row.main.device_opt)
           parsed     == process_input(given.names, avail)
           has        == _set_default_values(device_opt, defaults, parsed)
       IN /\ opt' \in {o \in Options : Fits(o)}
          /\ action' = opt'.action
          /\ IF /\ ParseAccepts(given.channel, given.names, avail)
                /\ ~_update_metadata_fails(device_opt, defaults)
                /\ _validate_input(device_opt, has, opt'.action)
             THEN /\ options' = [has |-> CheckedInput(has),
                                 port |-> DefaultPort(device_opt, defaults, parsed)]
                  /\ pc' = "main" /\ step' = 1 /\ UNCHANGED result
             ELSE /\ pc' = "done" /\ result' = 1
                  /\ UNCHANGED <<options, step>>
    /\ given' = NoInput
    /\ UNCHANGED <<plug, attempt, polls, acc, status, success, agent, missingAsOff, diag,
                   uuids, kept, heard, delayed, shown, faulty, guessed, deviceVars, seen>>

DelaySteps == {"run_delay", "fence_login", "FencingSnmp", "time_sleep"}

\* Steps that talk to nobody and cannot fail.
QuietSteps == {"none", "run_delay", "time_sleep", "monitor_returns", "validate_all",
               "set_ssh", "set_prompt"}

\* Step i of main.  fence_wti calls fence_login with --ssh only, and answers the
\* prompts of a telnet session itself.
StepAt(i) ==
    LET s == Row.main.steps[i]
    IN IF agent = "wti" /\ ("secure" \in options.has <=> s # "fence_login") THEN "none" ELSE s

\* The step that main is at.
Step == StepAt(step)

\* run_delay, which fence_login and FencingSnmp call first, waits for --delay
\* when --action is off or reboot; diag is not yet one.
run_delay(s) ==
    delayed' = \/ delayed
               \/ s \in DelaySteps /\ opt.action \in {"off", "reboot"} /\ ~diag

\* Two agents set options themselves after check_input.
Assigned(s) ==
    CASE s = "set_prompt" -> [options EXCEPT !.has = @ \cup {"cmd_prompt"}]
      [] s = "set_ssh" -> [has |-> options.has \cup {"secure", "ipport", "cmd_prompt"}, port |-> "22"]
      [] OTHER -> options

\* The next step of main, or the call of fence_action.
MainGoesOn ==
    /\ IF step < Len(Row.main.steps)
       THEN step' = step + 1 /\ options' = Assigned(Step) /\ UNCHANGED pc
       ELSE step' = step /\ options' = NoOptions /\ pc' = "start"
    /\ UNCHANGED <<opt, action, plug, attempt, polls, acc, status, success, result>>

\* Steps that look --plug up, as one plug, and cannot find a list of plugs.
OnePlugOnly(s) ==
    s \in {"check_plug", "plug_found"} /\ NPlugs > 1 /\ opt.action \notin {"list", "monitor"}

LoginGiven == {"login", "passwd"} \subseteq options.has

\* A step that an option is missing for ends the process,
Misses(s) ==
    \/ s = "fence_login" /\ ~CanLogIn(options.has)
    \/ s = "managed_given" /\ "managed" \notin options.has
    \/ s = "password_login" /\ ~LoginGiven
    \/ s = "prepare_command" /\ "passwd" \notin options.has
    \/ s = "validate_input" /\ "login" \in options.has /\ "passwd" \notin options.has

\* or does so depending on the device and on the agent's own options.
MayMiss(s) ==
    \/ Misses(s)
    \/ /\ s \in {"plug_given", "drac_version"}
       /\ "port" \notin options.has /\ opt.action \notin {"list", "monitor"}
    \/ s \in {"prompts", "validate_input", "clouds_yaml", "azure_clients"} /\ ~LoginGiven

\* Steps that fail for no other reason.
LooksAtOptionsOnly == {"managed_given", "plug_given", "validate_input", "prepare_command"}

\* One step of main is done.
MainStep ==
    /\ pc = "main" /\ ~OnePlugOnly(Step) /\ ~Misses(Step)
    /\ LET s == Step
       IN /\ run_delay(s)
          /\ IF s = "monitor_returns" /\ opt.action = "monitor"
             THEN Exit(0) /\ options' = NoOptions /\ UNCHANGED <<action, step>>
             ELSE MainGoesOn
          /\ IF s = "plug_found" /\ Row.names = "once"
             THEN \E w \in DOMAIN Row.get :
                     /\ MayAnswer(w, power[1])
                     /\ heard' = w /\ Hear(w)
             ELSE UNCHANGED <<heard, faulty, guessed>>
    /\ UNCHANGED <<agent, given, missingAsOff, diag, uuids, kept, shown, deviceVars, seen>>

\* An option is missing, a login is refused, a device is not reached, a file is
\* not found: the step ends the process.  One agent also needs --plug for a list
\* and a monitor.
MainStepFails ==
    /\ pc = "main"
    /\ LET s == Step
       IN /\ s \notin QuietSteps
          /\ s \in LooksAtOptionsOnly => MayMiss(s)
          /\ run_delay(s)
          /\ faulty' = (faulty \/ ~(\/ MayMiss(s)
                                    \/ OnePlugOnly(s)
                                    \/ s = "plug_found" /\ opt.action \in {"list", "monitor"}))
    /\ Exit(1)
    /\ UNCHANGED <<action, agent, given, options, step, missingAsOff, diag, uuids, kept, heard,
                   shown, guessed, deviceVars, seen>>

----------------------------------------------------------------------------
(* The callbacks.                                                          *)

\* The machine that a query or a command reaches for the current plug.
Target ==
    CASE Row.names = "uuid"  -> IF plug \in uuids \/ kept = 0 THEN plug ELSE kept
      [] Row.names = "first" -> IF kept = 0 THEN plug ELSE kept
      [] Row.names = "last"  -> IF pc = "set" THEN kept ELSE plug
      [] OTHER -> plug

\* What the agent remembers of the machine it has just reached.
Remember ==
    kept' = IF Row.names \in {"first", "last"} \/ (Row.names = "uuid" /\ plug \in uuids)
            THEN Target ELSE kept

\* What a callback makes of the answer w.
Meaning(w) ==
    CASE Row.get[w] = "contrary" -> IF action = "on" THEN "off" ELSE "on"
      [] Row.get[w] = "missing"  -> IF missingAsOff THEN "off" ELSE "fail"
      [] OTHER -> Row.get[w]

\* The callback ends in an exception or in sys.exit.
Broken(how) ==
    IF how = "raise" /\ OnPortion THEN Exit(0) /\ action' = "reboot"
                                  ELSE Exit(1) /\ action' = action

\* get_power_fn: one query, and the loop goes on with its meaning.
Query ==
    /\ pc \in {"status", "poll"}
    /\ \E w \in DOMAIN Row.get :
          /\ IF Row.names = "once" THEN w = heard ELSE MayAnswer(w, power[Target])
          /\ Hear(w)
          /\ \/ Meaning(w) \in Readings /\ ReadPlug(Meaning(w))
             \/ Meaning(w) \in {"raise", "fail"} /\ Broken(Meaning(w)) /\ UNCHANGED seen
    /\ Remember
    /\ UNCHANGED <<agent, given, options, step, missingAsOff, diag, uuids, heard, delayed, shown, deviceVars>>

\* What --action asks of the device.
Asked == IF action = "on" THEN Row.set.on ELSE Row.set.off

\* set_power_fn: the device takes the command.
Command ==
    /\ pc = "set" /\ Asked # "exit"
    /\ CommandSent
    /\ cmd' = [cmd EXCEPT ![Target] = IF Asked = "soft" THEN "off" ELSE Asked]
    /\ Remember
    /\ UNCHANGED <<agent, given, options, step, missingAsOff, diag, uuids, heard, delayed, shown, faulty, guessed, power>>

\* The device refuses the command, or loses it.
CommandRefused ==
    /\ pc = "set"
    /\ \/ Asked # "exit" /\ CommandSent
       \/ Asked # "exit" /\ Row.set.refused \in {"raise", "fail"} /\ Broken(Row.set.refused)
             /\ UNCHANGED seen
       \/ Asked = "exit" /\ Broken("fail") /\ UNCHANGED seen
    /\ faulty' = (faulty \/ Asked \notin {"soft", "exit"})
    /\ Remember
    /\ UNCHANGED <<agent, given, options, step, missingAsOff, diag, uuids, heard, delayed, shown, guessed,
                   deviceVars>>

\* sync_set_power_fn: the job runs to its end, fails, or cannot be started.
SyncCommand ==
    /\ pc = "sync"
    /\ \/ /\ power' = [power EXCEPT ![Target] = action]
          /\ cmd' = [cmd EXCEPT ![Target] = "none"]
          /\ Note(plug, action)
          /\ LoopTail(TRUE, Attempts(action), SetReturned(success))
          /\ UNCHANGED faulty
       \/ /\ \E c \in {"none", action} : cmd' = [cmd EXCEPT ![Target] = c]
          /\ Note(plug, "none")
          /\ LoopTail(FALSE, Attempts(action), SetReturned(FALSE))
          /\ faulty' = TRUE /\ UNCHANGED power
       \/ Broken(Row.set.refused) /\ faulty' = TRUE /\ UNCHANGED <<deviceVars, seen>>
    /\ Remember
    /\ UNCHANGED <<agent, given, options, step, missingAsOff, diag, uuids, heard, delayed, shown, guessed>>

\* The value that reboot_cycle_fn returns for a command taken, or refused.
CycleValue(taken) ==
    LET v == IF taken THEN Row.cycle.taken ELSE Row.cycle.refused
    IN IF v # "unless_off" THEN v ELSE IF power[Target] = "off" THEN "true" ELSE "fail"

\* reboot_cycle_fn; an exception is caught, and counts as a failure.
CycleCommand ==
    /\ pc = "cycle"
    /\ \E taken \in BOOLEAN :
          /\ cmd' = IF taken /\ ~diag THEN [cmd EXCEPT ![Target] = "cycle"] ELSE cmd
          /\ faulty' = (faulty \/ ~taken)
          /\ IF CycleValue(taken) \in {"true", "false"}
             THEN LET ok == CycleValue(taken) = "true"
                  IN /\ Note(plug, IF ok THEN "cycled" ELSE "none")
                     /\ LoopTail(ok, 1 + opt.retryOn, CycleReturned(success /\ ok))
             ELSE CycleReturned(FALSE) /\ UNCHANGED seen
    /\ Remember
    /\ UNCHANGED <<agent, given, options, step, missingAsOff, diag, uuids, heard, delayed, shown, guessed, power>>

\* fence_action reaches its first callback.
Start ==
    /\ fence_action_start
    /\ Listing => (pc' = "list") = ("list" \in Row.main.fns)
    /\ UNCHANGED runVars

Decide ==
    /\ fence_action_decide
    /\ UNCHANGED runVars

\* What a list shows for the answer w: no line for a machine that is not there.
Line(w) ==
    CASE w = "absent" -> "none"
      [] Row.list[w] = "error" -> "unknown"
      [] OTHER -> Row.list[w]

\* get_outlet_list: the line of the machine, or the end of the process.
List ==
    /\ pc = "list"
    /\ \E w \in DOMAIN Row.list :
          /\ MayAnswer(w, power[1])
          /\ Hear(w)
          /\ IF Line(w) \in {"raise", "fail"}
             THEN Exit(1) /\ UNCHANGED shown
             ELSE Exit(0) /\ shown' = Line(w)
    /\ UNCHANGED <<action, agent, given, options, step, missingAsOff, diag, uuids, kept, heard,
                   delayed,
                   deviceVars, seen>>

\* The code that the process ends with: main passes the value of fence_action
\* to sys.exit, or forgets it.
ExitCode == IF Row.main.session = "dropped" /\ result = 2 THEN 0 ELSE result

AgentStep == \/ CheckInput \/ MainStep \/ MainStepFails \/ Start \/ Decide \/ List
             \/ Query \/ Command \/ CommandRefused \/ SyncCommand \/ CycleCommand

\* A power button: the machine goes to the other state (external).
DeviceToggles(p) ==
    /\ cmd[p] = "toggle"
    /\ power' = [power EXCEPT ![p] = IF power[p] = "on" THEN "off" ELSE "on"]
    /\ cmd' = [cmd EXCEPT ![p] = "none"]
    /\ UNCHANGED <<agentVars, seen>>

Device == \E p \in Plugs : DeviceActs(p) \/ DeviceCycles(p) \/ DeviceToggles(p)

----------------------------------------------------------------------------

RunInit ==
    /\ agent \in Agents
    /\ step = 0
    /\ missingAsOff \in {FALSE, Has("missing_as_off")}
    /\ diag \in {FALSE, Has("diag")}
    /\ uuids \in IF Row.names = "uuid" THEN SUBSET Plugs ELSE {{}}
    /\ kept = 0 /\ heard = "none" /\ delayed = FALSE /\ shown = "none"
    /\ faulty = FALSE /\ guessed = FALSE
    /\ given \in [channel : {"cmdline", "stdin"}, names : Inputs[agent]]
    /\ options = NoOptions
    /\ opt = <<>> /\ pc = "input" /\ action = "none"
    /\ plug = 1 /\ attempt = 1 /\ polls = 0
    /\ acc = "off" /\ status = "none" /\ success = TRUE /\ result = -1
    /\ power \in [Plugs -> {"on", "off"}]
    /\ cmd = [p \in Plugs |-> "none"]
    /\ seen = [p \in Plugs |-> "none"]
    /\ allOff = Dark(power) /\ quit = FALSE

\* quit, a history variable of FenceAction, is not used here.
RunNext ==
    \/ /\ AgentStep \/ (Device /\ UNCHANGED runVars)
       /\ allOff' = (allOff \/ Dark(power')) /\ UNCHANGED quit
    \/ Finished /\ UNCHANGED runVars

RunSpec == RunInit /\ [][RunNext]_agentRunVars

----------------------------------------------------------------------------
(* Properties.                                                             *)

\* The values that the variables take.
RunTypeOK ==
    /\ agent \in Agents
    /\ pc \in Callbacks \cup {"input", "main", "start", "decide", "done"}
    /\ pc # "input" => opt \in Options /\ action \in Actions
    /\ step \in 0 .. Len(Row.main.steps) /\ (pc = "main" => step # 0)
    /\ given.names \subseteq UserOptions
    /\ plug \in Plugs /\ kept \in 0 .. NPlugs
    /\ acc \in Readings /\ status \in {"none", "on", "off"}
    /\ shown \in {"none", "unknown", "on", "off"}
    /\ result \in -1 .. 2
    /\ cmd \in [Plugs -> {"none", "on", "off", "cycle", "toggle"}]
    /\ heard = "none" \/ heard \in DOMAIN Row.get

\* An agent that keeps the machine of one plug for the next ones, and reaches
\* one machine only: a UUID or the number of an outlet that is never reset.
MixesPlugs ==
    /\ NPlugs > 1
    /\ \/ agent \in {"ifmib", "ipdu", "apc_snmp", "eaton_snmp", "vmware_soap"}
       \/ agent \in {"virsh", "ironic", "xenapi", "nutanix_ahv"} /\ uuids \notin {{}, Plugs}

\* The one thing the cluster relies on, for every agent: a code 0 for off, for
\* the off portion of a reboot, a code 2 for status and an "off" in a list are
\* only given for machines that are off, whatever the device answers, refuses,
\* loses or does late.  The words in TakenForOff are all that the agents of the
\* tables take for off without knowing; --missing-as-off asks for such a guess,
\* and the agents of MixesPlugs read one machine for several plugs.
ReportsTruth ==
    pc = "done" /\ ~guessed /\ ~missingAsOff /\ ~MixesPlugs =>
        /\ result = 0 /\ opt.action = "off" => Dark(power)
        /\ result = 0 /\ opt.action = "reboot" /\ ~Cycle => allOff
        /\ result = 2 => Dark(power)
        /\ shown = "off" => power[1] = "off"

\* Requests that check_input accepts and main has refused: options that only
\* main, or its first command, asks for.
Insufficient ==
    /\ options # NoOptions
    /\ \/ agent = "cyberpower_ssh" /\ "secure" \notin options.has
       \/ agent = "lpar" /\ ~({"ipaddr", "managed"} \subseteq options.has)
       \/ agent \in {"drac5", "openstack"} /\ "port" \notin options.has
       \/ agent \in {"wti", "xenapi", "openstack", "ovm", "azure_arm", "vmware", "vmware_server1"}
             /\ ~LoginGiven

\* Requests that an agent cannot meet with a device that does all it is asked:
\* a list that ends in an error, a cycle function that uses a deleted object or
\* returns no value, a status that is made up, read once or not passed on, a
\* command that is none, and a shutdown that the machine may ignore.
Defective ==
    \/ agent \in {"cdu", "eaton_ssh"} /\ Listing
    \/ agent = "raritan_px3" /\ opt.action # "status"
    \/ agent \in {"docker", "nutanix_ahv"} /\ Cycle
    \/ agent \in {"gce_baremetal", "crosslink"} /\ opt.action \in {"on", "off", "reboot"}
    \/ agent \in {"gce_baremetal", "ecloud"} /\ opt.action = "status"
    \/ agent = "rcd_serial" /\ opt.method = "onoff"
    \/ agent = "skalar_graceful" /\ opt.action \in {"off", "reboot"}
    \/ agent \in {"rhevm", "vmware_rest", "cisco_mds", "raritan_px3"} /\ NPlugs > 1
    \/ MixesPlugs

\* Every other request that check_input lets pass succeeds when the device is
\* never late, unclear or unwilling and the options that the agent has for
\* itself are right, and a status tells on from off: check_input asks for what
\* main reads, main and the callbacks of an agent fit together and fit
\* fence_action, through all its loops and for every action.
NoFaultNoFailure ==
    pc = "done" /\ step > 0 /\ ~faulty /\ ~Defective /\ ~Insufficient =>
        /\ ExitCode # 1
        /\ opt.action = "status" => ExitCode = IF Dark(power) THEN 2 ELSE 0

AboutToLogIn == pc = "main" /\ Step = "fence_login"

\* What check_input and the defaults of main let pass is enough for the login:
\* no way of login that fence_login may take reads an option that is missing.
\* Three agents let pass too little: fence_cyberpower_ssh without --ssh takes the
\* way of telnet and has no --telnet-path, fence_lpar accepts --managed in place
\* of an address, and fence_wti, which needs no user and no password, accepts
\* --ssh without them.
AcceptedCanLogIn ==
    AboutToLogIn => \/ CanLogIn(options.has)
                    \/ agent = "cyberpower_ssh" /\ "secure" \notin options.has
                    \/ agent = "lpar" /\ "ipaddr" \notin options.has
                    \/ agent = "wti" /\ ~LoginGiven

\* A port that the user did not choose is the port of the way of login, which
\* is decided later and by other conditions.  fence_raritan_px3 goes to the
\* port of telnet with --ssh as well.
PortFitsPath ==
    AboutToLogIn /\ CanLogIn(options.has) /\ options.port # "given" =>
        CASE LoginPath(options.has) = "ssl" -> options.port = "443"
          [] LoginPath(options.has) = "telnet" -> options.port \in {"23", "own"}
          [] OTHER -> options.port = "22" \/ agent = "raritan_px3"

\* Two nodes that fence each other are kept apart by --delay: whatever main
\* does, the device gets no command for off or reboot before the delay is over
\* (diag, which main turns into a reboot after run_delay, is not delayed).
DelayHonoured ==
    pc \in {"set", "sync", "cycle"} /\ opt.action \in {"off", "reboot"} => delayed \/ diag

\* The agents that press a power button.
Buttons == {"ilo", "ilo2"}

\* A machine is only ever switched to the state that fence_action is at: before
\* a button is pressed the machine has been seen in the other state, no button
\* is pressed twice, and in a reboot no command of the off portion is left for
\* the on portion.  A device that is late, unclear or unwilling may break this
\* for a button, pressed again by a retry, and in a reboot; elsewhere a late or
\* repeated command does no harm.
SwitchesRightWay ==
    [][pc # "input" /\ ~Cycle /\ (~faulty' \/ (agent \notin Buttons /\ opt.action # "reboot")) =>
         \A p \in Plugs : power'[p] # power[p] => power'[p] = action]_agentRunVars

----------------------------------------------------------------------------
(* What documents say, and the code does not do.                           *)

\* fence_action splits --plug at --plug-separator and calls the callbacks for
\* every plug; a code 0 for off means that the node is off.  It fails for the
\* agents of MixesPlugs: see Target.
EveryPlugFenced ==
    pc = "done" /\ result = 0 /\ opt.action = "off" /\ ~guessed /\ ~missingAsOff => Dark(power)
=============================================================================
