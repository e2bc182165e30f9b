----------------------------- MODULE SbdProofs -----------------------------
(***************************************************************************)
(* Proofs about Sbd for any number of devices, whatever part of them the   *)
(* agent and the node reach, for any options and any number of runs.       *)
(***************************************************************************)
EXTENDS Sbd, FiniteSetTheorems, TLAPS

Types ==
    /\ opt \in Options /\ power \in [Plugs -> {"on", "off"}]
    /\ slot \in [Devices -> Messages] /\ reach \subseteq Devices /\ sight \subseteq Devices
    /\ status \in {"none", "on", "off"} /\ sent \subseteq Devices
    /\ call \in Messages \cup {"none", "check", "dump", "list"}

\* Which callback makes which call.
Control ==
    /\ call \in {"check", "dump"} => pc = "main"
    /\ call = "list" => pc \in {"status", "poll", "list"}
    /\ call \in Messages => pc \in {"set", "cycle"} /\ DOMAIN proc = {Devices}
    /\ call = "none" => sent = {}
    /\ pc = "list" => Listing
    /\ pc = "cycle" => Cycle
    /\ opt.action # "reboot" => action = opt.action
    /\ pc \in {"set", "poll"} => action \in {"on", "off"}

\* allOff is kept from the start of the run on.
Remembered == power[1] = "off" => allOff

\* A reboot by the method "cycle": what the node sees of the message it keeps
\* seeing until it stops, and the process that writes ends after that.
Cycled ==
    Cycle =>
        /\ pc \in {"main", "start", "status", "decide", "cycle", "done"} /\ action = "reboot"
        /\ call # "clear"
        /\ ~allOff => \A d \in sent : slot[d] # "clear"
        /\ call \in Messages /\ proc[Devices] \notin {"alive", "bad"} => allOff
        /\ pc = "done" /\ result = 0 => allOff

\* The node sees all devices and is fast enough: it only runs with a message
\* in its slot while the message is being written, or after that was given up.
Obeyed ==
    sight = Devices /\ ~slow =>
        /\ Doomed => \/ call \in Messages \ {"clear"} /\ proc[Devices] = "alive" /\ sent # {}
                     \/ pc = "done" /\ result = 1
        /\ call = "list" => \A q \in DOMAIN proc : proc[q] \in {"off", "reset"} => allOff
        /\ status = "off" => allOff
        /\ opt.action = "reboot" /\ action = "on" => allOff
        /\ opt.action \in {"off", "reboot"} /\ pc = "done" /\ result = 0 => allOff

IInv == Types /\ Control /\ Remembered /\ Cycled /\ Obeyed

----------------------------------------------------------------------------
(* Steps of the agent after which no call is made.                         *)

\* The node sees and obeys every message.
Prompt == sight = Devices /\ ~slow

Still == UNCHANGED <<opt, power, allOff, crashdump, reach, sight, slow, slot>>

Moved ==
    /\ Still /\ call' = "none" /\ sent' = {} /\ status' \in {"none", "on", "off"}
    /\ pc' = "list" => Listing
    /\ pc' = "cycle" => Cycle
    /\ opt.action # "reboot" => action' = opt.action
    /\ pc' \in {"set", "poll"} => action' \in {"on", "off"}
    /\ Cycle => /\ pc' \in {"main", "start", "status", "decide", "cycle", "done"}
                /\ action' = "reboot"
                /\ pc' = "done" /\ result' = 0 => allOff
    /\ Prompt => /\ Doomed => pc' = "done" /\ result' = 1
                 /\ status' = "off" => allOff
                 /\ opt.action = "reboot" /\ action' = "on" => allOff
                 /\ opt.action \in {"off", "reboot"} /\ pc' = "done" /\ result' = 0 => allOff

LEMMA MovedKeeps ==
    ASSUME IInv, Moved
    PROVE  IInv'
<1>0. /\ Still /\ call' = "none" /\ sent' = {} /\ "none" \notin Messages
      /\ (Cycle <=> Cycle') /\ (Listing <=> Listing') /\ (Doomed <=> Doomed')
    BY DEF Moved, Messages, Cycle, Listing, Doomed, Majority, Still
<1>1. Types'
    BY <1>0 DEF IInv, Types, Moved, Still
<1>2. Control'
    BY <1>0 DEF IInv, Control, Moved, Still
<1>3. Remembered'
    BY <1>0 DEF IInv, Remembered, Still
<1>4. Cycled'
    BY <1>0 DEF IInv, Cycled, Moved, Still
<1>5. Obeyed'
    BY <1>0 DEF IInv, Obeyed, Moved, Still, Prompt
<1> QED BY <1>1, <1>2, <1>3, <1>4, <1>5 DEF IInv

\* The agent gives up.
LEMMA ExitMoves ==
    ASSUME IInv, Still, call' = "none", sent' = {}, Exit(1), action' = action
    PROVE  Moved
<1>1. pc' = "done" /\ result' = 1 /\ status' = status
    BY DEF Exit
<1> QED BY <1>1 DEF IInv, Types, Control, Cycled, Obeyed, Moved, Prompt

\* It goes on to another place, and knows no more of the node.
LEMMA GoesMoves ==
    ASSUME IInv, Still, call' = "none", sent' = {}, UNCHANGED <<action, status>>,
           Prompt => ~Doomed,
           pc' \in {"main", "start", "status", "decide", "set", "poll", "list", "cycle"},
           pc' = "list" => Listing,
           pc' = "cycle" => Cycle,
           pc' \in {"set", "poll"} => pc \in {"set", "poll"}
    PROVE  Moved
<1>1. ~(Cycle /\ Listing)
    BY DEF Cycle, Listing
<1>2. Cycle => /\ pc' \in {"main", "start", "status", "decide", "cycle"} /\ action' = "reboot"
    BY <1>1 DEF IInv, Cycled
<1> QED BY <1>2 DEF IInv, Types, Control, Obeyed, Moved, Prompt

\* The off portion of a reboot has ended: the on portion is next.
LEMMA OnPortionMoves ==
    ASSUME IInv, Still, call' = "none", sent' = {}, StartOnPortion,
           opt.action = "reboot", ~Cycle, Prompt => ~Doomed /\ allOff
    PROVE  Moved
<1>1. CASE Exit(0) /\ action' = "reboot"
    BY <1>1 DEF Exit, IInv, Types, Moved
<1>2. CASE BeginSet("on")
    BY <1>2 DEF BeginSet, IInv, Types, Moved
<1> QED BY <1>1, <1>2 DEF StartOnPortion

\* set_multi_power_fn has returned, TRUE only if the node was seen off when off
\* was asked for.
LEMMA SetReturnedMoves ==
    ASSUME IInv, Still, call' = "none", sent' = {}, NEW ok \in BOOLEAN, SetReturned(ok),
           pc = "poll", Prompt => ~Doomed, Prompt /\ ok /\ action = "off" => allOff
    PROVE  Moved
<1>0. ~Cycle /\ action \in {"on", "off"} /\ (opt.action # "reboot" => action = opt.action)
    BY DEF IInv, Cycled, Control
<1>1. CASE opt.action # "reboot" /\ Exit(IF ok THEN 0 ELSE 1) /\ action' = action
  <2>1. pc' = "done" /\ status' = status /\ (result' = 0 => ok)
      BY <1>1 DEF Exit
  <2> QED BY <1>0, <1>1, <2>1 DEF IInv, Types, Control, Obeyed, Moved, Prompt
<1>2. CASE opt.action = "reboot" /\ action = "off" /\ ok /\ StartOnPortion
    BY <1>0, <1>2, OnPortionMoves
<1>3. CASE opt.action = "reboot" /\ action = "off" /\ ~ok /\ Exit(1) /\ action' = action
    BY <1>3, ExitMoves
<1>4. CASE opt.action = "reboot" /\ action # "off" /\ Exit(0) /\ action' = "reboot"
  <2>1. pc' = "done" /\ status' = status
      BY <1>4 DEF Exit
  <2>2. Prompt => allOff
      BY <1>0, <1>4 DEF IInv, Obeyed, Prompt
  <2> QED BY <1>0, <1>4, <2>1, <2>2 DEF IInv, Types, Moved
<1> QED BY <1>1, <1>2, <1>3, <1>4 DEF SetReturned

\* get_power_status: off is only read where a message for the node was.
LEMMA ReadingMoves ==
    ASSUME IInv, Still, call' = "none", sent' = {}, call # "none", Prompt => ~Doomed,
           NEW reading \in get_power_status, ReadPlug(reading)
    PROVE  Moved
<1>0. pc \in {"status", "poll"} /\ call = "list"
    BY DEF ReadPlug, IInv, Types, Control
<1>1. reading = "off" /\ Prompt => allOff
  <2> SUFFICES ASSUME reading = "off", Prompt PROVE allOff
      OBVIOUS
  <2>1. PICK q \in gone : reading = translate_status(proc[q])
      BY DEF get_power_status
  <2>2. q \in DOMAIN proc /\ proc[q] \in {"off", "reset"}
      BY <2>1 DEF translate_status, gone, Procs
  <2> QED BY <1>0, <2>2 DEF IInv, Obeyed, Prompt
<1> DEFINE s == Aggregate(acc, reading)
<1>2. s = "off" /\ Prompt => allOff
    BY <1>1 DEF Aggregate
<1> HIDE DEF s
<1>3. CASE plug < NPlugs
  <2>1. UNCHANGED <<pc, action, status>>
      BY <1>3 DEF ReadPlug
  <2> QED BY <1>0, <2>1, GoesMoves
<1>4. CASE ~(plug < NPlugs) /\ pc = "status"
  <2>1. StatusKnown(s)
      BY <1>4 DEF ReadPlug, s
  <2>2. CASE s \in {"on", "off"}
    <3>1. pc' = "decide" /\ status' = s /\ action' = action
        BY <2>1, <2>2 DEF StatusKnown
    <3> QED BY <1>2, <2>2, <3>1 DEF IInv, Types, Control, Cycled, Obeyed, Moved, Prompt
  <2>3. CASE s \notin {"on", "off"}
      BY <2>1, <2>3, ExitMoves DEF StatusKnown
  <2> QED BY <2>2, <2>3
<1>5. CASE ~(plug < NPlugs) /\ pc = "poll"
  <2>1. Polled(s)
      BY <1>5 DEF ReadPlug, s
  <2>2. CASE s = action
    <3>1. SetReturned(TRUE)
        BY <2>1, <2>2 DEF Polled
    <3> QED BY <1>2, <1>5, <2>2, <3>1, SetReturnedMoves
  <2>3. CASE s # action /\ TimedOut /\ attempt < Attempts(action)
    <3>1. pc' = "set" /\ UNCHANGED <<action, status>>
        BY <2>1, <2>3 DEF Polled
    <3> QED BY <1>5, <3>1, GoesMoves
  <2>4. CASE s # action /\ TimedOut /\ ~(attempt < Attempts(action))
    <3>1. SetReturned(FALSE)
        BY <2>1, <2>4 DEF Polled
    <3> QED BY <1>5, <3>1, SetReturnedMoves
  <2>5. CASE s # action /\ ~TimedOut
    <3>1. UNCHANGED <<pc, action, status>>
        BY <2>1, <2>5 DEF Polled
    <3> QED BY <1>5, <3>1, GoesMoves
  <2> QED BY <2>2, <2>3, <2>4, <2>5
<1> QED BY <1>0, <1>3, <1>4, <1>5

\* reboot_cycle has returned.
LEMMA CycleMoves ==
    ASSUME IInv, Still, call' = "none", sent' = {}, call # "none", Prompt => ~Doomed,
           pc = "cycle", LoopTail(Delivered, 1 + opt.retryOn, CycleReturned(success /\ Delivered))
    PROVE  Moved
<1>0. Cycle /\ call \in Messages /\ DOMAIN proc = {Devices} /\ ~Listing
    BY DEF IInv, Types, Control, Cycle, Listing
<1>1. Delivered => allOff
  <2> SUFFICES ASSUME Delivered PROVE allOff
      OBVIOUS
  <2>1. PICK q \in gone : proc[q] # "bad"
      BY DEF Delivered, Status
  <2>2. q = Devices /\ proc[Devices] \notin {"alive", "bad"}
      BY <1>0, <2>1 DEF gone, Procs
  <2> QED BY <1>0, <2>2 DEF IInv, Cycled
<1>2. CASE CycleReturned(success /\ Delivered)
  <2>1. /\ pc' = "done" /\ status' = status /\ action' = action
        /\ result' = IF success /\ Delivered THEN 0 ELSE 1
      BY <1>2 DEF CycleReturned, Exit
  <2>2. result' = 0 => allOff
      BY <1>1, <2>1
  <2> QED BY <1>0, <2>1, <2>2 DEF IInv, Types, Control, Cycled, Obeyed, Moved, Prompt
<1>3. CASE UNCHANGED <<pc, action, status>>
    BY <1>0, <1>3, GoesMoves
<1> QED BY <1>2, <1>3 DEF LoopTail

LEMMA CallReturnsKeeps ==
    ASSUME IInv, CallReturns
    PROVE  IInv'
<1>0. /\ call # "none" /\ call' = "none" /\ sent' = {}
      /\ UNCHANGED <<power, allOff, crashdump, reach, sight, slow, slot>>
    BY DEF CallReturns, Returning, Kill, deviceVars, siteVars
<1>1. CASE Exit(1) /\ action' = action
  <2>1. Still
      BY <1>0, <1>1 DEF Still, Exit
  <2> QED BY <1>0, <1>1, <2>1, ExitMoves, MovedKeeps
<1>2. CASE Status # "none"
  <2>0. gone # {}
      BY <1>2 DEF Status
  <2>1. Prompt => ~Doomed
    <3> SUFFICES ASSUME Prompt, Doomed PROVE FALSE
        OBVIOUS
    <3>1. call \in Messages /\ proc[Devices] = "alive" /\ DOMAIN proc = {Devices}
        BY <1>0 DEF IInv, Types, Control, Obeyed, Prompt
    <3> QED BY <2>0, <3>1 DEF gone, Procs
  <2>2. CASE call = "check" /\ UNCHANGED <<agentVars, seen>>
    <3>1. Still /\ UNCHANGED <<pc, action, status>>
        BY <1>0, <2>2 DEF agentVars, Still
    <3>2. pc = "main"
        BY <2>2 DEF IInv, Control
    <3> QED BY <1>0, <2>1, <3>1, <3>2, GoesMoves, MovedKeeps
  <2>3. CASE pc' = "start" /\ UNCHANGED <<opt, action, status>>
    <3>1. Still
        BY <1>0, <2>3 DEF Still
    <3> QED BY <1>0, <2>1, <2>3, <3>1, GoesMoves, MovedKeeps
  <2>4. CASE pc = "list" /\ Exit(0) /\ action' = action
    <3>1. Still /\ pc' = "done" /\ status' = status
        BY <1>0, <2>4 DEF Still, Exit
    <3>2. ~Cycle /\ opt.action \notin {"off", "reboot"}
        BY <2>4 DEF IInv, Control, Cycle, Listing
    <3>3. Moved
        BY <1>0, <2>1, <2>4, <3>1, <3>2 DEF IInv, Types, Control, Obeyed, Moved, Prompt
    <3> QED BY <3>3, MovedKeeps
  <2>5. CASE \E reading \in get_power_status : ReadPlug(reading)
    <3>1. PICK reading \in get_power_status : ReadPlug(reading)
        BY <2>5
    <3>2. opt' = opt
        BY <3>1 DEF ReadPlug, StatusKnown, Polled, SetReturned, StartOnPortion, BeginSet, Exit
    <3>3. Still
        BY <1>0, <3>2 DEF Still
    <3> QED BY <1>0, <2>1, <3>1, <3>3, ReadingMoves, MovedKeeps
  <2>6. CASE CommandSent
    <3>1. opt' = opt /\ UNCHANGED <<action, status>> /\ pc = "set" /\ pc' \in {"set", "poll"}
        BY <2>6 DEF CommandSent
    <3>2. Still
        BY <1>0, <3>1 DEF Still
    <3> QED BY <1>0, <2>1, <3>1, <3>2, GoesMoves, MovedKeeps
  <2>7. CASE pc = "cycle" /\ LoopTail(Delivered, 1 + opt.retryOn, CycleReturned(success /\ Delivered))
    <3>1. opt' = opt
        BY <2>7 DEF LoopTail, CycleReturned, Exit
    <3>2. Still
        BY <1>0, <3>1 DEF Still
    <3> QED BY <1>0, <2>1, <2>7, <3>2, CycleMoves, MovedKeeps
  <2> QED BY <1>1, <1>2, <2>2, <2>3, <2>4, <2>5, <2>6, <2>7 DEF CallReturns
<1> QED BY <1>1, <1>2 DEF CallReturns

\* fence_action, between the calls.
LEMMA FenceActionStepKeeps ==
    ASSUME IInv, FenceActionStep
    PROVE  IInv'
<1>0. /\ UNCHANGED <<allOff, crashdump, reach, sight, slow, slot, call, sent>>
      /\ pc \in {"start", "decide"} /\ UNCHANGED <<power, opt>>
  <2>1. UNCHANGED <<allOff, crashdump, reach, sight, slow, slot, call, sent>>
      BY DEF FenceActionStep, sbdVars, siteVars, callVars
  <2>2. CASE fence_action_start
      BY <2>1, <2>2 DEF fence_action_start, deviceVars
  <2>3. CASE fence_action_decide
      BY <2>1, <2>3 DEF fence_action_decide, deviceVars, Exit, CallSet, StartOnPortion, BeginSet
  <2> QED BY <2>2, <2>3, <2>1 DEF FenceActionStep
<1>1. Still /\ call' = "none" /\ sent' = {} /\ (Prompt => ~Doomed)
  <2>1. call = "none"
      BY <1>0 DEF IInv, Types, Control
  <2> QED BY <1>0, <2>1 DEF Still, IInv, Control, Obeyed, Prompt, Messages
<1>2. CASE fence_action_start
  <2>1. UNCHANGED <<action, status>> /\ pc = "start" /\ pc' # "done"
      BY <1>2 DEF fence_action_start, FenceActionStep
  <2>2. pc' \in {"list", "status", "decide"} /\ (pc' = "list" => Listing)
      BY <1>2, <2>1 DEF fence_action_start
  <2> QED BY <1>1, <2>1, <2>2, GoesMoves, MovedKeeps
<1>3. CASE fence_action_decide
  <2>1. CASE Already /\ Exit(0) /\ action' = action
    <3>1. pc' = "done" /\ status' = status /\ opt.action = status
        BY <2>1 DEF Exit, Already
    <3>2. ~Cycle /\ opt.action # "reboot"
        BY <3>1 DEF IInv, Types, Cycle
    <3>3. Moved
        BY <1>1, <2>1, <3>1, <3>2 DEF IInv, Types, Control, Obeyed, Moved, Prompt
    <3> QED BY <3>3, MovedKeeps
  <2>2. CASE opt.action \in {"on", "off"} /\ CallSet(opt.action)
    <3>1. action = opt.action /\ opt.action # "reboot" /\ ~Cycle
        BY <2>2 DEF IInv, Control, Cycle
    <3>2. CASE Exit(1) /\ action' = opt.action
        BY <1>1, <3>1, <3>2, ExitMoves, MovedKeeps
    <3>3. CASE BeginSet(opt.action)
      <4>1. pc' \in {"set", "sync"} /\ action' = opt.action /\ status' = status
          BY <3>3 DEF BeginSet
      <4>2. Moved
          BY <1>1, <2>2, <3>1, <4>1 DEF IInv, Types, Control, Obeyed, Moved, Prompt
      <4> QED BY <4>2, MovedKeeps
    <3> QED BY <2>2, <3>2, <3>3 DEF CallSet
  <2>3. CASE Cycle /\ pc' = "cycle" /\ UNCHANGED <<action, status>>
      BY <1>1, <2>3, GoesMoves, MovedKeeps
  <2>4. CASE opt.action = "reboot" /\ ~Cycle /\ status # "off" /\ CallSet("off")
    <3>1. /\ pc' \in {"done", "set", "sync"} /\ action' = "off" /\ status' = status
          /\ pc' = "done" => result' = 1
        BY <2>4 DEF CallSet, Exit, BeginSet
    <3>2. Moved
        BY <1>1, <2>4, <3>1 DEF IInv, Types, Moved
    <3> QED BY <3>2, MovedKeeps
  <2>5. CASE opt.action = "reboot" /\ ~Cycle /\ status = "off" /\ StartOnPortion
    <3>1. Prompt => allOff
        BY <2>5 DEF IInv, Obeyed, Prompt
    <3> QED BY <1>1, <2>5, <3>1, OnPortionMoves, MovedKeeps
  <2>6. CASE /\ opt.action \in {"status", "monitor"} /\ action' = action
             /\ pc' = "done" /\ status' = status
    <3>1. ~Cycle
        BY <2>6 DEF Cycle
    <3>2. Moved
        BY <1>1, <2>6, <3>1 DEF IInv, Types, Control, Obeyed, Moved, Prompt
    <3> QED BY <3>2, MovedKeeps
  <2> QED BY <1>3, <2>1, <2>2, <2>3, <2>4, <2>5, <2>6 DEF fence_action_decide, Exit
<1> QED BY <1>2, <1>3 DEF FenceActionStep

\* A call is made: nothing is written yet, and no process has ended.
LEMMA PopenKeeps ==
    ASSUME IInv, NEW command, NEW procs, Popen(command, procs), UNCHANGED <<vars, slot, siteVars>>,
           command \in Messages \cup {"check", "dump", "list"}, pc # "done",
           command \in {"check", "dump"} => pc = "main",
           command = "list" => pc \in {"status", "poll", "list"},
           command \in Messages => pc \in {"set", "cycle"} /\ procs = {Devices},
           Cycle => command # "clear"
    PROVE  IInv'
<1>0. /\ call = "none" /\ call' = command /\ proc' = [q \in procs |-> "alive"] /\ sent' = {}
      /\ UNCHANGED <<opt, pc, action, status, result, power, allOff, slot, crashdump, reach, sight,
                     slow>>
      /\ DOMAIN proc' = procs /\ \A q \in procs : proc'[q] = "alive"
    BY DEF Popen, vars, agentVars, deviceVars, siteVars
<1>1. (Cycle <=> Cycle') /\ (Listing <=> Listing') /\ (Doomed <=> Doomed')
    BY <1>0 DEF Cycle, Listing, Doomed, Majority
<1>2. /\ "check" \notin Messages /\ "dump" \notin Messages /\ "list" \notin Messages
      /\ "none" \notin Messages
    BY DEF Messages
<1>3. Types'
    BY <1>0 DEF IInv, Types
<1>4. Control'
    BY <1>0, <1>1, <1>2 DEF IInv, Control
<1>5. Remembered'
    BY <1>0 DEF IInv, Remembered
<1>6. Cycled'
    BY <1>0, <1>1, <1>2 DEF IInv, Cycled
<1>7. Obeyed'
  <2>1. Prompt => ~Doomed
      BY <1>0, <1>2 DEF IInv, Obeyed, Prompt
  <2> QED BY <1>0, <1>1, <1>2, <2>1 DEF IInv, Obeyed, Prompt
<1> QED BY <1>3, <1>4, <1>5, <1>6, <1>7 DEF IInv

LEMMA AgentKeeps ==
    ASSUME IInv, Agent_sbd
    PROVE  IInv'
<1>1. CASE check_sbd_device
  <2>0. pc = "main" /\ UNCHANGED siteVars /\ call = "none"
      BY <1>1 DEF check_sbd_device
  <2>1. ASSUME NEW d \in Devices, Popen("check", {{d}}), UNCHANGED <<vars, slot>> PROVE IInv'
      BY <2>0, <2>1, PopenKeeps DEF Messages
  <2>2. CASE Exit(1) /\ UNCHANGED <<action, deviceVars, allOff, callVars, slot>>
    <3>1. Still /\ call' = "none" /\ sent' = {}
        BY <2>0, <2>2 DEF Still, Exit, deviceVars, callVars, siteVars, IInv, Control
    <3> QED BY <2>2, <3>1, ExitMoves, MovedKeeps
  <2> QED BY <1>1, <2>1, <2>2 DEF check_sbd_device
<1>2. CASE get_sbd_header_timeout
  <2>1. pc = "main" /\ UNCHANGED <<vars, slot, siteVars>> /\ Popen("dump", generate_sbd_command("dump"))
      BY <1>2 DEF get_sbd_header_timeout
  <2> QED BY <2>1, PopenKeeps DEF Messages
<1>3. CASE send_sbd_message
  <2>1. /\ pc \in {"set", "cycle"} /\ UNCHANGED <<vars, slot, siteVars>>
        /\ Popen(Message, generate_sbd_command("message"))
      BY <1>3 DEF send_sbd_message
  <2>2. generate_sbd_command("message") = {Devices}
      BY DEF generate_sbd_command
  <2>3. Message \in Messages /\ Message \notin {"check", "dump", "list"}
      BY DEF Message, Messages
  <2>4. Cycle => Message # "clear"
      BY DEF Message, IInv, Cycled
  <2> QED BY <2>1, <2>2, <2>3, <2>4, PopenKeeps
<1>4. CASE get_node_list
  <2>1. /\ pc \in {"status", "poll", "list"} /\ UNCHANGED <<vars, slot, siteVars>>
        /\ Popen("list", generate_sbd_command("list"))
      BY <1>4 DEF get_node_list
  <2> QED BY <2>1, PopenKeeps DEF Messages
<1> QED BY <1>1, <1>2, <1>3, <1>4, CallReturnsKeeps, FenceActionStepKeeps DEF Agent_sbd

----------------------------------------------------------------------------
(* The sbd tool, the disks, the node and the cluster.                      *)

LEMMA WriteKeeps ==
    ASSUME IInv, NEW d \in Devices, Write(d)
    PROVE  IInv'
<1>0. /\ call \in Messages /\ proc[Devices] = "alive" /\ sent' = sent \cup {d}
      /\ slot' = [slot EXCEPT ![d] = call]
      /\ UNCHANGED <<opt, pc, action, status, result, power, allOff, crashdump, reach, sight, slow,
                     call, proc>>
    BY DEF Write, vars, agentVars, deviceVars, siteVars
<1>1. (Cycle <=> Cycle') /\ (Listing <=> Listing') /\ Types /\ Control
    BY <1>0 DEF Cycle, Listing, IInv
<1>2. "list" \notin Messages /\ "none" \notin Messages
    BY DEF Messages
<1>3. Types'
    BY <1>0, <1>1 DEF Types
<1>4. slot' \in [Devices -> Messages] /\ slot'[d] = call /\ \A e \in Devices \ {d} : slot'[e] = slot[e]
    BY <1>0, <1>1 DEF Types
<1>5. Control' /\ Remembered'
    BY <1>0, <1>1, <1>2 DEF IInv, Control, Remembered
<1>6. Cycled'
    BY <1>0, <1>1, <1>4 DEF IInv, Cycled, Types
<1>7. Obeyed'
  <2>1. pc # "done"
      BY <1>0, <1>1 DEF Control
  <2>2. CASE call = "clear"
    <3>1. Doomed' => Doomed
        BY <1>0, <1>1, <1>4, <2>2 DEF Doomed, Majority, Types
    <3> QED BY <1>0, <1>2, <2>1, <2>2, <3>1 DEF IInv, Obeyed
  <2>3. CASE call # "clear"
      BY <1>0, <1>2, <2>1, <2>3 DEF IInv, Obeyed
  <2> QED BY <2>2, <2>3
<1> QED BY <1>3, <1>5, <1>6, <1>7 DEF IInv

\* Two majorities of the devices have one in common.
LEMMA Overlap ==
    ASSUME NEW S \in SUBSET Devices, NEW T \in SUBSET Devices, Majority(S), Majority(T)
    PROVE  \E d \in Devices : d \in S /\ d \in T
<1>1. IsFiniteSet(Devices)
    BY SbdAssumption
<1>2. /\ IsFiniteSet(S) /\ IsFiniteSet(T)
      /\ Cardinality(S) \in Nat /\ Cardinality(T) \in Nat /\ Cardinality(Devices) \in Nat
    BY <1>1, FS_Subset, FS_CardinalityType
<1>3. Cardinality(S) + Cardinality(T) > Cardinality(Devices)
    BY <1>2 DEF Majority
<1> QED BY <1>1, <1>3, FS_MajoritiesIntersect

LEMMA WrittenKeeps ==
    ASSUME IInv, Written
    PROVE  IInv'
<1>0. /\ call \in Messages /\ proc[Devices] = "alive"
      /\ sent = {} \/ call = "clear" \/ ~Doomed
      /\ UNCHANGED <<opt, pc, action, status, result, power, allOff, crashdump, reach, sight, slow,
                     call, sent, slot>>
    BY DEF Written, vars, agentVars, deviceVars, siteVars
<1>1. /\ (Cycle <=> Cycle') /\ (Listing <=> Listing') /\ (Doomed <=> Doomed') /\ Types /\ Control
      /\ DOMAIN proc = {Devices}
    BY <1>0 DEF Cycle, Listing, IInv, Control, Doomed, Majority
<1>2. "list" \notin Messages /\ "none" \notin Messages
    BY DEF Messages
<1>3. PICK w \in {"good", "bad"} : proc' = [proc EXCEPT ![Devices] = w] /\ (w = "good" => Majority(sent))
    BY DEF Written
<1>4. DOMAIN proc' = {Devices} /\ proc'[Devices] = w
    BY <1>1, <1>3
<1>5. Types' /\ Control' /\ Remembered'
    BY <1>0, <1>1, <1>2, <1>4 DEF IInv, Types, Control, Remembered
<1>6. Cycled'
  <2>1. ASSUME Cycle, w = "good", ~allOff PROVE FALSE
    <3>1. call # "clear" /\ \A d \in sent : slot[d] # "clear"
        BY <2>1 DEF IInv, Cycled
    <3>2. power[1] = "on"
        BY <2>1, <1>1, SbdAssumption DEF IInv, Remembered, Types, Plugs
    <3>3. Majority(sent) /\ sent # {}
      <4>1. Majority(sent)
          BY <1>3, <2>1
      <4>2. Cardinality(Devices) \in Nat
          BY SbdAssumption, FS_CardinalityType
      <4>3. CASE sent = {}
        <5>1. Cardinality(sent) = 0
            BY <4>3, FS_EmptySet
        <5> QED BY <4>1, <4>2, <5>1 DEF Majority
      <4> QED BY <4>1, <4>3
    <3>4. Majority(sight) /\ \A d \in sight : slot[d] = "clear"
        BY <1>0, <3>1, <3>2, <3>3 DEF Doomed
    <3>5. PICK d \in Devices : d \in sent /\ d \in sight
        BY <1>1, <3>3, <3>4, Overlap DEF Types
    <3> QED BY <3>1, <3>4, <3>5
  <2> QED BY <1>0, <1>1, <1>4, <2>1 DEF IInv, Cycled
<1>7. Obeyed'
    BY <1>0, <1>1, <1>2 DEF IInv, Obeyed, Control
<1> QED BY <1>5, <1>6, <1>7 DEF IInv

LEMMA ReadKeeps ==
    ASSUME IInv, Read
    PROVE  IInv'
<1>0. /\ call \in {"check", "dump", "list"}
      /\ UNCHANGED <<opt, pc, action, status, result, power, allOff, crashdump, reach, sight, slow,
                     call, sent, slot>>
    BY DEF Read, vars, agentVars, deviceVars, siteVars
<1>1. PICK q \in DOMAIN proc, d \in Devices :
         proc' = [proc EXCEPT ![q] = IF d \notin reach THEN "bad"
                                     ELSE IF call = "list" THEN slot[d] ELSE "good"]
    BY DEF Read, Procs
<1>2. /\ (Cycle <=> Cycle') /\ (Listing <=> Listing') /\ (Doomed <=> Doomed') /\ Types /\ Control
    BY <1>0 DEF Cycle, Listing, IInv, Doomed, Majority
<1>3. call \notin Messages /\ call # "none" /\ pc # "done"
    BY <1>0, <1>2 DEF Messages, Control
<1>4. Types' /\ Control' /\ Remembered' /\ Cycled'
    BY <1>0, <1>2, <1>3 DEF IInv, Types, Control, Remembered, Cycled
<1>5. Prompt => ~Doomed
    BY <1>3 DEF IInv, Obeyed, Prompt
<1>6. ASSUME Prompt, call = "list", NEW r \in DOMAIN proc', proc'[r] \in {"off", "reset"}
      PROVE  allOff
  <2>1. CASE r # q
      BY <1>1, <1>6, <2>1 DEF IInv, Obeyed, Prompt
  <2>2. CASE r = q
    <3>1. slot[d] # "clear"
        BY <1>1, <1>6, <2>2
    <3>2. power[1] = "off"
        BY <1>2, <1>5, <1>6, <3>1, SbdAssumption DEF Doomed, Prompt, Types, Plugs
    <3> QED BY <3>2 DEF IInv, Remembered
  <2> QED BY <2>1, <2>2
<1>7. Obeyed'
    BY <1>0, <1>2, <1>5, <1>6 DEF IInv, Obeyed, Prompt
<1> QED BY <1>4, <1>7 DEF IInv

LEMMA ClockKeeps ==
    ASSUME IInv, UNCHANGED <<vars, siteVars, call, proc, sent, slot>>
    PROVE  IInv'
<1>0. UNCHANGED <<opt, pc, action, status, result, power, allOff, crashdump, reach, sight, slow,
                  call, proc, sent, slot>>
    BY DEF vars, agentVars, deviceVars, siteVars
<1>1. (Cycle <=> Cycle') /\ (Listing <=> Listing') /\ (Doomed <=> Doomed')
    BY <1>0 DEF Cycle, Listing, Doomed, Majority
<1> QED BY <1>0, <1>1 DEF IInv, Types, Control, Remembered, Cycled, Obeyed

LEMMA NodeStopsKeeps ==
    ASSUME IInv, NodeStops
    PROVE  IInv'
<1>0. /\ power' = [power EXCEPT ![1] = "off"] /\ allOff' = TRUE
      /\ UNCHANGED <<opt, pc, action, status, result, crashdump, reach, sight, slow,
                     call, proc, sent, slot>>
    BY DEF NodeStops, agentVars, sbdVars, siteVars, callVars
<1>1. (Cycle <=> Cycle') /\ (Listing <=> Listing') /\ power' \in [Plugs -> {"on", "off"}]
    BY <1>0 DEF Cycle, Listing, IInv, Types
<1>2. ~Doomed'
    BY <1>0, SbdAssumption DEF Doomed, IInv, Types, Plugs
<1> QED BY <1>0, <1>1, <1>2 DEF IInv, Types, Control, Remembered, Cycled, Obeyed

LEMMA NodeBootsKeeps ==
    ASSUME IInv, NodeBoots
    PROVE  IInv'
<1>0. /\ power[1] = "off" /\ Majority(sight) /\ power' = [power EXCEPT ![1] = "on"]
      /\ slot' = [d \in Devices |-> IF d \in sight THEN "clear" ELSE slot[d]]
      /\ UNCHANGED <<opt, pc, action, status, result, allOff, crashdump, reach, sight, slow,
                     call, proc, sent>>
    BY DEF NodeBoots, agentVars, siteVars, callVars
<1>1. (Cycle <=> Cycle') /\ (Listing <=> Listing') /\ power' \in [Plugs -> {"on", "off"}] /\ allOff
    BY <1>0 DEF Cycle, Listing, IInv, Types, Remembered
<1>2. slot' \in [Devices -> Messages]
    BY <1>0 DEF IInv, Types, Messages
<1>3. sight = Devices => ~Doomed'
    BY <1>0, <1>2 DEF Doomed, Majority
<1>4. Types' /\ Control' /\ Remembered' /\ Cycled'
    BY <1>0, <1>1, <1>2 DEF IInv, Types, Control, Remembered, Cycled
<1>5. Obeyed'
    BY <1>0, <1>1, <1>3 DEF IInv, Obeyed
<1> QED BY <1>4, <1>5 DEF IInv

LEMMA RetryKeeps ==
    ASSUME IInv, Retry
    PROVE  IInv'
<1>0. /\ pc = "done" /\ (Doomed => slow) /\ allOff' = Dark(power)
      /\ UNCHANGED <<power, crashdump, reach, sight, slow, call, proc, sent, slot>>
    BY DEF Retry, deviceVars, siteVars, callVars
<1>1. PICK o \in Options : Started(o)
    BY DEF Retry
<1>2. opt' = o /\ pc' = "main" /\ action' = o.action /\ status' = "none"
    BY <1>1 DEF Started
<1>3. call = "none" /\ sent = {} /\ "none" \notin Messages /\ (Doomed <=> Doomed')
    BY <1>0 DEF IInv, Types, Control, Messages, Doomed, Majority
<1>4. Types' /\ Control'
    BY <1>0, <1>2, <1>3 DEF IInv, Types, Control
<1>5. Remembered'
    BY <1>0, SbdAssumption DEF Remembered, Dark, Plugs
<1>6. Cycled'
    BY <1>0, <1>2, <1>3 DEF Cycled, Cycle
<1>7. Obeyed'
    BY <1>0, <1>2, <1>3 DEF Obeyed
<1> QED BY <1>4, <1>5, <1>6, <1>7 DEF IInv

----------------------------------------------------------------------------
(* The theorems.                                                           *)

LEMMA InitIInv == SbdInit => IInv
<1> SUFFICES ASSUME SbdInit PROVE IInv
    OBVIOUS
<1>1. PICK s \in Sites : reach = s.reach /\ sight = s.sight
    BY DEF SbdInit
<1>2. reach \subseteq Devices /\ sight \subseteq Devices
    BY <1>1, SbdAssumption
<1>3. PICK m \in {"clear", "off"} : (m = "clear" \/ power[1] = "off") /\ slot = [d \in Devices |-> m]
    BY DEF SbdInit
<1>4. slot \in [Devices -> Messages]
    BY <1>3 DEF Messages
<1>5. /\ opt \in Options /\ power \in [Plugs -> {"on", "off"}] /\ status = "none" /\ sent = {}
      /\ call = "none" /\ pc = "main" /\ action = opt.action /\ allOff = Dark(power)
    BY DEF SbdInit
<1>6. "none" \notin Messages
    BY DEF Messages
<1>7. Types /\ Control
    BY <1>2, <1>4, <1>5, <1>6 DEF Types, Control
<1>8. Remembered
    BY <1>5, SbdAssumption DEF Remembered, Dark, Plugs
<1>9. Cycled
    BY <1>5, <1>6 DEF Cycled, Cycle
<1>10. sight = Devices => ~Doomed
  <2> SUFFICES ASSUME sight = Devices, Doomed PROVE FALSE
      OBVIOUS
  <2>1. Majority(Devices)
    <3>1. Cardinality(Devices) \in Nat /\ Cardinality(Devices) # 0
        BY SbdAssumption, FS_CardinalityType, FS_EmptySet
    <3> QED BY <3>1 DEF Majority
  <2> QED BY <1>3, <2>1 DEF Doomed
<1>11. Obeyed
    BY <1>5, <1>10 DEF Obeyed
<1> QED BY <1>7, <1>8, <1>9, <1>11 DEF IInv

LEMMA NextIInv == IInv /\ [SbdNext]_<<vars, sbdVars>> => IInv'
<1> SUFFICES ASSUME IInv, [SbdNext]_<<vars, sbdVars>> PROVE IInv'
    OBVIOUS
<1>1. CASE UNCHANGED <<vars, sbdVars>>
    BY <1>1, ClockKeeps DEF sbdVars, callVars
<1>2. CASE Clock \/ SbdDone
    BY <1>2, ClockKeeps DEF Clock, SbdDone, sbdVars, callVars
<1> QED BY <1>1, <1>2, AgentKeeps, WriteKeeps, WrittenKeeps, ReadKeeps, NodeStopsKeeps, NodeBootsKeeps,
           RetryKeeps DEF SbdNext

\* A reboot by the method "cycle" is only reported when the node has stopped,
\* for any devices, any part of them that the agent and the node reach, and
\* whenever run_commands gives up.
THEOREM CycleIsTrueCorrect == SbdSpec => []CycleIsTrue
<1>1. IInv => CycleIsTrue
    BY DEF IInv, Cycled, CycleIsTrue, Succeeded
<1> QED BY <1>1, InitIInv, NextIInv, PTL DEF SbdSpec

\* An off, and a reboot by off and on, are only reported when the node has
\* stopped, if the node sees all devices and acts within the timeout: however
\* many devices the agent has lost, and after runs given up in a message.
THEOREM OffIsTrueWhenSeenCorrect == SbdSpec => []OffIsTrueWhenSeen
<1>1. IInv => OffIsTrueWhenSeen
    BY DEF IInv, Obeyed, OffIsTrueWhenSeen, Succeeded
<1> QED BY <1>1, InitIInv, NextIInv, PTL DEF SbdSpec
=============================================================================
