---------------------------- MODULE FenceAction ----------------------------
(***************************************************************************)
(* fence_action() of lib/fencing.py.py, the function every Python agent    *)
(* ends in, run against a fencing device that obeys late, loses commands,  *)
(* answers "error" and breaks the connection.  One behaviour is one agent  *)
(* process, from the call of fence_action to its exit code.                *)
(*                                                                         *)
(* A call of an agent callback (get_power_fn, set_power_fn, ...) is one    *)
(* step; between two calls the device and other users of it may act.       *)
(***************************************************************************)
EXTENDS Integers

CONSTANTS NPlugs,         \* --plug names this many plugs
          Options,        \* the option records the agent may be started with
          Interference    \* whether someone else may switch the plugs

Plugs == 1 .. NPlugs

(***************************************************************************)
(* What the options and the arguments of fence_action decide:              *)
(*   fns       "async": set_power_fn and get_power_fn given; "sync":       *)
(*             sync_set_power_fn given, set_power_fn None; "none": neither *)
(*   cycleFn   reboot_cycle_fn given                                       *)
(*   lists     device_opt has "port", not "port_as_ip"                     *)
(*   noStatus, forceOn   device_opt has "no_status", "force_on"            *)
(*   powerTimeout = 0    no timeout, as --disable-timeout sets it          *)
(***************************************************************************)
Actions == {"on", "off", "reboot", "status", "monitor", "list"}

OptionSpace ==
    [action : Actions, method : {"onoff", "cycle"},
     fns : {"async", "sync", "none"}, cycleFn : BOOLEAN, lists : BOOLEAN,
     noStatus : BOOLEAN, forceOn : BOOLEAN, retryOn : Nat, powerTimeout : Nat]

\* _get_available_actions removes "status" from an agent without it.
_get_available_actions(o) == Actions \ (IF o.noStatus THEN {"status"} ELSE {})

ASSUME FenceActionAssumption ==
    /\ NPlugs \in Nat \ {0}
    /\ Options \subseteq {o \in OptionSpace : o.action \in _get_available_actions(o)}
    /\ Interference \in BOOLEAN

VARIABLES
    opt,       \* the options of this run
    pc,        \* the callback about to be called, or "done"
    action,    \* options["--action"], which a reboot overwrites
    plug,      \* loop variable of "for plug in plugs"
    attempt,   \* loop variable of "range(retry_attempts)", from 1
    polls,     \* loop variable of itertools.count: polls made this attempt
    acc,       \* "status" of get_multi_power_fn
    status,    \* "status" of fence_action, "none" for None
    success,   \* "success" of the sync and cycle loops
    result,    \* exit code of the process, -1 while it runs
    power,     \* device: power[p], what the plug really is
    cmd,       \* device: cmd[p], accepted and not carried out yet
    seen,      \* history: what the agent last learnt about each plug, with
               \* the on portion of a reboot left out
    allOff,    \* history: at some instant all plugs were off together
    quit       \* history: a callback left the process by fail() or fail_usage()

agentVars  == <<opt, pc, action, plug, attempt, polls, acc, status, success, result>>
deviceVars == <<power, cmd>>
vars       == <<agentVars, deviceVars, seen, allOff, quit>>

Callbacks == {"list", "status", "set", "poll", "sync", "cycle"}
Readings  == {"on", "off", "error"}

Cycle == /\ opt.action = "reboot"
         /\ opt.method = "cycle"
         /\ opt.cycleFn

\* Whether fence_action takes the list branch.
Listing == \/ opt.action = "list"
           \/ opt.action = "monitor" /\ opt.lists

\* The on portion of a reboot: fence_action sets --action to "on" itself.
OnPortion == opt.action = "reboot" /\ action = "on"

\* retry_attempts of the call of set_multi_power_fn for --action a.
Attempts(a) == IF opt.action = "on" THEN 1 + opt.retryOn
               ELSE IF opt.action = "reboot" /\ a = "on" THEN opt.retryOn ELSE 1

\* History: evidence about the plugs counts until the on portion starts.
Note(p, v) == seen' = IF OnPortion THEN seen ELSE [seen EXCEPT ![p] = v]

----------------------------------------------------------------------------
(* Control flow shared by the steps.                                       *)

\* The process ends; sys.exit(code) or a return to the agent's main.
Exit(code) ==
    /\ pc' = "done" /\ result' = code
    /\ UNCHANGED <<opt, plug, attempt, polls, acc, status, success>>

\* set_multi_power_fn: start of the loops for --action a, retries n > 0.
BeginSet(a) ==
    /\ pc' = IF opt.fns = "async" THEN "set" ELSE "sync"
    /\ action' = a
    /\ plug' = 1 /\ attempt' = 1 /\ polls' = 0 /\ acc' = "off" /\ success' = TRUE
    /\ UNCHANGED <<opt, status, result>>

\* set_multi_power_fn returns without calling anything.
Trivial(a) == opt.fns = "none" \/ Attempts(a) = 0

\* The on portion of a reboot: whatever it returns, the agent reports success.
StartOnPortion ==
    IF Trivial("on")
    THEN Exit(0) /\ action' = "reboot"
    ELSE BeginSet("on")

\* Mutant: a reboot goes on when its off portion has failed.
SetReturned_ignored(ok) ==
    \/ /\ opt.action # "reboot"
       /\ Exit(IF ok THEN 0 ELSE 1) /\ action' = action
    \/ /\ opt.action = "reboot" /\ action = "off"
       /\ StartOnPortion
    \/ /\ opt.action = "reboot" /\ action # "off"
       /\ Exit(0) /\ action' = "reboot"

\* What fence_action does with the value returned by set_multi_power_fn.
SetReturned(ok) ==
    \/ /\ opt.action # "reboot"
       /\ Exit(IF ok THEN 0 ELSE 1) /\ action' = action
    \/ /\ opt.action = "reboot" /\ action = "off"
       /\ IF ok THEN StartOnPortion ELSE Exit(1) /\ action' = action
    \/ /\ opt.action = "reboot" /\ action # "off"
       /\ Exit(0) /\ action' = "reboot"

\* The call of set_multi_power_fn for on and off: without the functions it
\* needs it returns False and the agent fails.
CallSet(a) ==
    IF Trivial(a) THEN Exit(1) /\ action' = a ELSE BeginSet(a)

----------------------------------------------------------------------------
(* The agent.                                                              *)

\* fence_action, up to its first callback.
fence_action_start ==
    /\ pc = "start"
    /\ \/ /\ Listing
          /\ \/ pc' = "list" /\ UNCHANGED result
             \/ pc' = "done" /\ result' = 0     \* no port, or no get_outlet_list
       \/ /\ ~Listing /\ opt.action = "monitor" /\ opt.noStatus
          /\ pc' = "done" /\ result' = 0
       \/ /\ ~Listing /\ ~(opt.action = "monitor" /\ opt.noStatus)
          /\ pc' = IF opt.noStatus THEN "decide" ELSE "status"
          /\ UNCHANGED result
    /\ plug' = 1 /\ acc' = "off"
    /\ UNCHANGED <<opt, action, attempt, polls, status, success, deviceVars, seen>>

\* get_outlet_list returned; the outlets are printed.
list_outlets ==
    /\ pc = "list"
    /\ Exit(0)
    /\ UNCHANGED <<action, deviceVars, seen>>

\* Mutant: the last plug decides alone.
Aggregate_last(sofar, reading) == reading

\* "if plug_status != 'off': status = plug_status".
Aggregate(sofar, reading) == IF reading # "off" THEN reading ELSE sofar

\* Mutant: a status that is neither on nor off is not refused.
StatusKnown_unchecked(s) ==
    /\ action' = action /\ pc' = "decide" /\ status' = s
    /\ UNCHANGED <<opt, plug, attempt, polls, acc, success, result>>

\* fence_action has its initial status s.
StatusKnown(s) ==
    /\ action' = action
    /\ IF s \in {"on", "off"}
       THEN /\ pc' = "decide" /\ status' = s
            /\ UNCHANGED <<opt, plug, attempt, polls, acc, success, result>>
       ELSE Exit(1)

\* Mutant: the count of polls starts again with every poll.
NextPoll_restarted == 0

\* itertools.count(1), which only matters under a timeout.
NextPoll == IF opt.powerTimeout > 0 THEN polls + 1 ELSE 0

\* The break of the polling loop, at the current poll.
TimedOut == opt.powerTimeout > 0 /\ polls + 1 >= opt.powerTimeout

\* async_set_multi_power_fn has polled once and got s.
Polled(s) ==
    IF s = action
    THEN SetReturned(TRUE)
    ELSE IF TimedOut
    THEN IF attempt < Attempts(action)
         THEN /\ pc' = "set" /\ attempt' = attempt + 1
              /\ plug' = 1 /\ polls' = 0 /\ acc' = "off"
              /\ UNCHANGED <<opt, action, status, success, result>>
         ELSE SetReturned(FALSE)
    ELSE /\ plug' = 1 /\ acc' = "off"
         /\ polls' = NextPoll
         /\ UNCHANGED <<opt, pc, action, attempt, status, success, result>>

\* get_power_fn has returned, for the initial status or for a poll.
ReadPlug(reading) ==
    /\ pc \in {"status", "poll"}
    /\ Note(plug, reading)
    /\ IF plug < NPlugs
       THEN /\ plug' = plug + 1 /\ acc' = Aggregate(acc, reading)
            /\ UNCHANGED <<opt, pc, action, attempt, polls, status, success, result>>
       ELSE IF pc = "status"
       THEN StatusKnown(Aggregate(acc, reading))
       ELSE Polled(Aggregate(acc, reading))

\* One iteration of get_multi_power_fn.
get_multi_power_fn ==
    /\ \E reading \in {power[plug], "error"} : ReadPlug(reading)
    /\ UNCHANGED deviceVars

\* Mutant: every power on is forced.
Already_forced == opt.action = status /\ status = "off"

\* "Success: Already ON" or "Already OFF"; force_on switches on all the same.
Already == opt.action = status /\ ~(status = "on" /\ opt.forceOn)

\* fence_action, from the known status to the next callback.
fence_action_decide ==
    /\ pc = "decide"
    /\ \/ Already /\ Exit(0) /\ action' = action
       \/ ~Already /\ opt.action \in {"on", "off"} /\ CallSet(opt.action)
       \/ /\ Cycle
          /\ pc' = "cycle" /\ plug' = 1 /\ attempt' = 1 /\ success' = TRUE
          /\ UNCHANGED <<opt, action, polls, acc, status, result>>
       \/ /\ opt.action = "reboot" /\ ~Cycle
          /\ IF status # "off" THEN CallSet("off") ELSE StartOnPortion
       \/ /\ opt.action = "status"
          /\ Exit(IF status = "off" THEN 2 ELSE 0) /\ action' = action
       \/ opt.action = "monitor" /\ Exit(0) /\ action' = action
    /\ UNCHANGED <<deviceVars, seen>>

\* set_power_fn has returned; its value is not used.
CommandSent ==
    /\ pc = "set"
    /\ Note(plug, "none")
    /\ IF plug < NPlugs
       THEN plug' = plug + 1 /\ UNCHANGED pc
       ELSE plug' = 1 /\ pc' = "poll"
    /\ polls' = 0 /\ acc' = "off"
    /\ UNCHANGED <<opt, action, attempt, status, success, result>>

\* One call of set_power_fn: the device accepts the command, or it is lost.
async_set_multi_power_fn ==
    /\ CommandSent
    /\ \E c \in {cmd[plug], action} : cmd' = [cmd EXCEPT ![plug] = c]
    /\ UNCHANGED power

\* The tail of the sync and cycle loops, after a call that returned ok;
\* returned is the step of the caller once the loops are over.
LoopTail(ok, retries, returned) ==
    IF ~ok /\ attempt < retries
    THEN /\ attempt' = attempt + 1
         /\ UNCHANGED <<opt, pc, action, plug, polls, acc, status, success, result>>
    ELSE IF plug < NPlugs
    THEN /\ plug' = plug + 1 /\ attempt' = 1 /\ success' = (success /\ ok)
         /\ UNCHANGED <<opt, pc, action, polls, acc, status, result>>
    ELSE returned

\* One call of sync_set_power_fn, which answers for the plug by itself.
sync_set_multi_power_fn ==
    /\ pc = "sync"
    /\ \E ok \in BOOLEAN :
          /\ IF ok THEN /\ power' = [power EXCEPT ![plug] = action]
                        /\ cmd' = [cmd EXCEPT ![plug] = "none"]
             ELSE /\ \E c \in {cmd[plug], action} : cmd' = [cmd EXCEPT ![plug] = c]
                  /\ UNCHANGED power
          /\ Note(plug, IF ok THEN action ELSE "none")
          /\ LoopTail(ok, Attempts(action), SetReturned(success /\ ok))

\* fence_action after multi_reboot_cycle_fn: fail(EC_TIMED_OUT) on failure.
CycleReturned(ok) == Exit(IF ok THEN 0 ELSE 1) /\ action' = action

\* One call of reboot_cycle_fn: TRUE means that the device took the command.
multi_reboot_cycle_fn ==
    /\ pc = "cycle"
    /\ \E ok \in BOOLEAN :
          /\ \E c \in {"cycle"} \cup (IF ok THEN {} ELSE {cmd[plug]}) :
                cmd' = [cmd EXCEPT ![plug] = c]
          /\ Note(plug, IF ok THEN "cycled" ELSE "none")
          /\ LoopTail(ok, 1 + opt.retryOn, CycleReturned(success /\ ok))
    /\ UNCHANGED power

\* A command the failing callback may have delivered before it failed.
HalfDone ==
    /\ \E c \in {cmd[plug]} \cup (IF pc \in {"set", "sync"} THEN {action}
                                  ELSE IF pc = "cycle" THEN {"cycle"} ELSE {}) :
          cmd' = [cmd EXCEPT ![plug] = c]
    /\ UNCHANGED <<power, seen>>

\* Mutant: "except Exception" is missing around the on portion.
callback_raises_uncaught ==
    /\ pc \in Callbacks
    /\ HalfDone
    /\ Exit(1) /\ action' = action

\* The callback raises an Exception (connection lost, timeout, any other):
\* swallowed in the on portion of a reboot, exit code 1 everywhere else.
callback_raises ==
    /\ pc \in Callbacks
    /\ HalfDone
    /\ IF OnPortion THEN Exit(0) /\ action' = "reboot"
                    ELSE Exit(1) /\ action' = action

\* The callback calls fail() or fail_usage(): SystemExit is no Exception.
callback_fails ==
    /\ pc \in Callbacks
    /\ HalfDone
    /\ Exit(1) /\ action' = action
    /\ quit' = TRUE

Agent == \/ /\ \/ fence_action_start \/ list_outlets \/ get_multi_power_fn
               \/ fence_action_decide \/ async_set_multi_power_fn
               \/ sync_set_multi_power_fn \/ multi_reboot_cycle_fn
               \/ callback_raises
            /\ UNCHANGED quit
         \/ callback_fails

----------------------------------------------------------------------------
(* The fencing device (external), and others who use it.                   *)

\* The device carries out the last command it accepted for plug p.
DeviceActs(p) ==
    /\ cmd[p] \in {"on", "off"}
    /\ power' = [power EXCEPT ![p] = cmd[p]]
    /\ cmd' = [cmd EXCEPT ![p] = "none"]
    /\ UNCHANGED <<agentVars, seen>>

\* A power cycle leaves the plug on.
DeviceCycles(p) ==
    /\ cmd[p] = "cycle"
    /\ power' = [power EXCEPT ![p] = "on"]
    /\ cmd' = [cmd EXCEPT ![p] = "none"]
    /\ UNCHANGED <<agentVars, seen>>

\* An operator or another node switches plug p.
Interfere(p) ==
    /\ Interference
    /\ \E v \in {"on", "off"} : power' = [power EXCEPT ![p] = v]
    /\ UNCHANGED <<agentVars, cmd, seen>>

Environment ==
    /\ \E p \in Plugs : DeviceActs(p) \/ DeviceCycles(p) \/ Interfere(p)
    /\ UNCHANGED quit

----------------------------------------------------------------------------

Dark(pw) == \A p \in Plugs : pw[p] = "off"

Init ==
    /\ opt \in Options
    /\ pc = "start" /\ action = opt.action
    /\ plug = 1 /\ attempt = 1 /\ polls = 0
    /\ acc = "off" /\ status = "none" /\ success = TRUE /\ result = -1
    /\ power \in [Plugs -> {"on", "off"}]
    /\ cmd = [p \in Plugs |-> "none"]
    /\ seen = [p \in Plugs |-> "none"]
    /\ allOff = Dark(power) /\ quit = FALSE

\* The process has ended and the device has nothing left to do.
Finished ==
    /\ pc = "done"
    /\ UNCHANGED vars

Next == \/ (Agent \/ Environment) /\ allOff' = (allOff \/ Dark(power'))
        \/ Finished

Spec == Init /\ [][Next]_vars

\* The agent process is scheduled, and every callback returns or raises: the
\* agents bound each exchange with the device by --shell-timeout.
FairSpec == Spec /\ WF_vars(Agent /\ allOff' = (allOff \/ Dark(power')))

----------------------------------------------------------------------------
(* Properties.                                                             *)

TypeOK ==
    /\ opt \in Options
    /\ pc \in Callbacks \cup {"start", "decide", "done"}
    /\ action \in Actions
    /\ plug \in Plugs
    /\ attempt \in Nat \ {0} /\ polls \in Nat
    /\ acc \in Readings /\ status \in {"none", "on", "off"}
    /\ success \in BOOLEAN /\ result \in -1 .. 2
    /\ power \in [Plugs -> {"on", "off"}]
    /\ cmd \in [Plugs -> {"none", "on", "off", "cycle"}]
    /\ seen \in [Plugs -> {"none", "on", "off", "error", "cycled"}]
    /\ allOff \in BOOLEAN /\ quit \in BOOLEAN

\* The process has ended with exit code 0.
Succeeded == pc = "done" /\ result = 0

\* The request of the cluster, in the terms of the contract.
Request == IF opt.action \in {"monitor", "list"} THEN "other"
           ELSE IF Cycle THEN "reset" ELSE opt.action

Contract == INSTANCE FencingContract
              WITH request <- Request, evidence <- seen, answer <- result

\* fence_action keeps the contract of doc/FenceAgentAPI.md whatever the device
\* does and whoever else switches it: an exit code 0 for off and for the off
\* portion of a reboot rests on a reading "off" of every plug that is later
\* than the last command for it, one for on or status on a plug read "on", and
\* a code 2 is only given for status, with every plug read "off".
KeepsContract == Contract!ContractSpec

\* A node with several power supplies is fenced only when all its plugs are off
\* at the same instant.  get_multi_power_fn reads them one after the other and
\* set_power_fn switches them one after the other; when nobody else switches
\* them, code 0 for off or for a reboot means that there was such an instant.
FencedTogether ==
    Succeeded /\ opt.action \in {"off", "reboot"} /\ ~Cycle /\ ~Interference
        => allOff

\* After a reported off no command that the device carries out late can bring
\* the node back.
StaysOff ==
    Succeeded /\ opt.action = "off" /\ ~Interference => Dark(power)

\* An off never switches a plug on, and a reboot switches none on before all of
\* them have been off together, retries, failures and late commands included.
OnOnlyAfterDark ==
    [][\A p \in Plugs :
         /\ opt.action \in {"off", "reboot"} /\ ~Cycle /\ ~Interference
         /\ power[p] = "off" /\ power'[p] = "on"
         => opt.action = "reboot" /\ allOff]_vars

\* Once the off portion of a reboot has fenced the node the agent reports
\* success: commands that are refused or lost, power timeouts, used up retries, a
\* plug that stays off and exceptions such as a broken connection in the on
\* portion all end in code 0.  Only a callback that itself leaves the process, by
\* fail() or fail_usage(), makes it 1.
FencedIsReported ==
    [][OnPortion /\ pc' = "done" /\ ~quit' => result' = 0]_vars

\* With a power timeout the agent answers, even when the device does nothing.
Termination == opt.powerTimeout > 0 ~> pc = "done"

----------------------------------------------------------------------------
(* What comments and documents say, and the code does not do.              *)

\* doc/FenceAgentAPI.md on reboot: "the on portion failing is a don't-care
\* case"; and the comment in fence_action.  It fails: see callback_fails
\* and FencedIsReported, which is what holds.
OnPortionIsDontCare == pc = "done" /\ OnPortion => result = 0
=============================================================================
