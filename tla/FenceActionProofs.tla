------------------------- MODULE FenceActionProofs -------------------------
(***************************************************************************)
(* Proofs about FenceAction for any number of plugs, any option records,   *)
(* retry counts and timeouts.                                              *)
(***************************************************************************)
EXTENDS FenceAction, TLAPS

\* Which requests and which value of --action go with which callback.
Control ==
    /\ pc \in {"start", "list", "status", "decide", "cycle"} => action = opt.action
    /\ pc \in {"set", "poll", "sync"} =>
          action \in {"on", "off"} /\ opt.action \in {action, "reboot"} /\ ~Cycle
    /\ pc = "start" => status = "none"
    /\ pc = "cycle" => Cycle
    /\ OnPortion => ~Cycle
    /\ pc = "list" => opt.action \in {"list", "monitor"}
    /\ pc \in {"status", "decide"} => opt.action # "list"
    /\ pc = "decide" /\ status = "none" => opt.noStatus
    /\ pc = "done" <=> result # -1

\* The readings behind the loop variables: what the agent is about to conclude
\* from acc, status or success is what it has really read.
Grounds ==
    /\ pc \in {"status", "poll"} /\ ~OnPortion /\ acc = "off" =>
          \A q \in Plugs : q < plug => seen[q] = "off"
    /\ pc \in {"status", "poll"} /\ ~OnPortion /\ acc = "on" =>
          \E q \in Plugs : seen[q] = "on" /\ q < plug
    /\ pc = "decide" /\ status = "off" => \A q \in Plugs : seen[q] = "off"
    /\ pc = "decide" /\ status = "on" => \E q \in Plugs : seen[q] = "on"
    /\ pc = "sync" /\ ~OnPortion /\ success =>
          \A q \in Plugs : q < plug => seen[q] = action
    /\ pc = "cycle" /\ success => \A q \in Plugs : q < plug => seen[q] = "cycled"
    /\ OnPortion => \A q \in Plugs : seen[q] = "off"
    /\ pc = "done" => Contract!Backed(Request, result, seen)

IInv == TypeOK /\ Control /\ Grounds

\* An off or a reboot with nobody else at the device.
Verified == opt.action \in {"off", "reboot"} /\ ~Cycle /\ ~Interference

\* What the device can still do, and the plugs the agent has found off: no "on"
\* is pending before the node has been dark, so they stay off.
DeviceInv == Verified =>
    /\ pc \in {"start", "list", "status", "decide"} => \A p \in Plugs : cmd[p] = "none"
    /\ opt.action = "off" => \A p \in Plugs : cmd[p] \in {"none", "off"}
    /\ action # "on" /\ ~Succeeded => \A p \in Plugs : cmd[p] \in {"none", "off"}
    /\ pc \in {"status", "poll"} /\ ~OnPortion /\ acc = "off" =>
          \A q \in Plugs : q < plug => power[q] = "off"
    /\ pc = "decide" /\ status = "off" => Dark(power)
    /\ pc = "sync" /\ ~OnPortion /\ success =>
          \A q \in Plugs : q < plug => power[q] = "off"
    /\ Dark(power) => allOff
    /\ OnPortion => allOff
    /\ ~allOff => \A p \in Plugs : cmd[p] \in {"none", "off"}
    /\ Succeeded => allOff
    /\ Succeeded /\ opt.action = "off" => Dark(power)

----------------------------------------------------------------------------

\* The part of TypeOK about the agent's own variables.
ControlType ==
    /\ opt \in Options /\ pc \in Callbacks \cup {"start", "decide", "done"}
    /\ action \in Actions /\ plug \in Plugs
    /\ attempt \in Nat \ {0} /\ polls \in Nat
    /\ acc \in Readings /\ status \in {"none", "on", "off"}
    /\ success \in BOOLEAN /\ result \in -1 .. 2

\* What the assumption says of the option record of a run.
LEMMA OptionFacts ==
    ASSUME NEW o \in Options
    PROVE  /\ o.action \in Actions
           /\ o.fns \in {"async", "sync", "none"}
           /\ o.cycleFn \in BOOLEAN /\ o.noStatus \in BOOLEAN
           /\ o.retryOn \in Nat /\ o.powerTimeout \in Nat
           /\ o.action = "status" => ~o.noStatus
BY FenceActionAssumption DEF OptionSpace, _get_available_actions, Actions

\* The initial states are well typed and satisfy the invariants.
LEMMA InitIInv == Init => IInv /\ DeviceInv
<1> SUFFICES ASSUME Init PROVE IInv /\ DeviceInv
    OBVIOUS
<1>0. allOff \in BOOLEAN /\ quit \in BOOLEAN
    BY Zenon DEF Init, Dark
<1>1. TypeOK
    BY <1>0, FenceActionAssumption, OptionFacts
    DEF Init, TypeOK, Plugs, Callbacks, Readings
<1>2. Control /\ Grounds
    BY <1>1, OptionFacts DEF Init, Control, Grounds, OnPortion, Cycle, TypeOK, Plugs
<1>3. DeviceInv
    BY <1>1 DEF Init, DeviceInv, Dark, OnPortion, Succeeded, TypeOK
<1> QED BY <1>1, <1>2, <1>3 DEF IInv

\* Every step keeps the types.
LEMMA TypeStep == TypeOK /\ Control /\ [Next]_vars => TypeOK'
<1> SUFFICES ASSUME TypeOK, Control, [Next]_vars PROVE TypeOK'
    OBVIOUS
<1> USE FenceActionAssumption
<1> DEFINE S == allOff' = (allOff \/ Dark(power'))
<1>o. /\ opt.action \in Actions /\ opt.retryOn \in Nat /\ opt.powerTimeout \in Nat
    BY OptionFacts DEF TypeOK
<1>n. \A p, v : v \in {"none", "on", "off", "error", "cycled"} /\ p \in Plugs /\ Note(p, v)
        => seen' \in [Plugs -> {"none", "on", "off", "error", "cycled"}]
    BY DEF Note, TypeOK
<1>q. quit' \in BOOLEAN
    BY DEF TypeOK, Next, Agent, Environment, Finished, callback_fails, vars
<1>d. quit' \in BOOLEAN /\ (S => allOff' \in BOOLEAN)
    BY <1>q DEF TypeOK, Dark
<1>1. CASE fence_action_start /\ S
    BY <1>1, <1>d DEF fence_action_start, TypeOK, deviceVars, Callbacks, Readings, Plugs
<1>2. CASE list_outlets /\ S
    BY <1>2, <1>d DEF list_outlets, Exit, TypeOK, deviceVars
<1>c. ASSUME NEW c \in {"none", "on", "off", "cycle"}, NEW p \in Plugs,
             cmd' = [cmd EXCEPT ![p] = c]
      PROVE  cmd' \in [Plugs -> {"none", "on", "off", "cycle"}]
    BY <1>c DEF TypeOK
<1>e. ASSUME NEW c \in 0 .. 2, NEW a \in Actions, Exit(c), action' = a
      PROVE  ControlType'
    BY <1>e DEF Exit, ControlType, TypeOK
<1>b. ASSUME NEW a \in {"on", "off"}, BeginSet(a) PROVE ControlType'
    BY <1>b DEF BeginSet, ControlType, TypeOK, Callbacks, Readings, Actions, Plugs
<1>a. action \in Actions /\ "reboot" \in Actions /\ "on" \in Actions /\ "off" \in Actions
    BY DEF TypeOK, Actions
<1>k. 0 \in 0 .. 2 /\ 1 \in 0 .. 2 /\ 2 \in 0 .. 2
    OBVIOUS
<1>s. ASSUME NEW ok \in BOOLEAN, SetReturned(ok)
      PROVE  ControlType'
    BY <1>s, <1>e, <1>b, <1>a, <1>k DEF SetReturned, StartOnPortion
<1>3. CASE get_multi_power_fn /\ S
  <2>1. PICK reading \in {power[plug], "error"} :
          /\ Note(plug, reading)
          /\ IF plug < NPlugs
             THEN /\ plug' = plug + 1 /\ acc' = Aggregate(acc, reading)
                  /\ UNCHANGED <<opt, pc, action, attempt, polls, status, success, result>>
             ELSE IF pc = "status"
             THEN StatusKnown(Aggregate(acc, reading))
             ELSE Polled(Aggregate(acc, reading))
      BY <1>3 DEF get_multi_power_fn, ReadPlug
  <2>2. reading \in Readings /\ Aggregate(acc, reading) \in Readings
      BY DEF TypeOK, Readings, Aggregate
  <2>3. seen' \in [Plugs -> {"none", "on", "off", "error", "cycled"}]
      BY <2>1, <2>2, <1>n DEF TypeOK, Readings
  <2>4. ASSUME plug < NPlugs PROVE ControlType'
      BY <2>1, <2>2, <2>4 DEF TypeOK, ControlType, Plugs
  <2>5. ASSUME ~(plug < NPlugs), pc = "status" PROVE ControlType'
    <3>1. StatusKnown(Aggregate(acc, reading))
        BY <2>1, <2>5
    <3>2. CASE Aggregate(acc, reading) \in {"on", "off"}
        BY <3>1, <3>2 DEF StatusKnown, TypeOK, ControlType
    <3>3. CASE Aggregate(acc, reading) \notin {"on", "off"}
        BY <3>1, <3>3 DEF StatusKnown, Exit, TypeOK, ControlType
    <3> QED BY <3>2, <3>3
  <2>6. ASSUME ~(plug < NPlugs), pc # "status" PROVE ControlType'
    <3>1. Polled(Aggregate(acc, reading))
        BY <2>1, <2>6
    <3>2. CASE SetReturned(TRUE) \/ SetReturned(FALSE)
        BY <3>2, <1>s
    <3>3. CASE ~(SetReturned(TRUE) \/ SetReturned(FALSE))
      <4>1. NextPoll \in Nat
          BY <1>o DEF NextPoll, TypeOK
      <4>2. CASE TimedOut /\ pc' = "set"
        <5>1. /\ attempt' = attempt + 1 /\ plug' = 1 /\ polls' = 0 /\ acc' = "off"
              /\ UNCHANGED <<opt, action, status, success, result>>
            BY <3>1, <3>3, <4>2 DEF Polled
        <5> QED BY <5>1, <4>2 DEF TypeOK, ControlType, Plugs, Callbacks, Readings
      <4>3. CASE ~TimedOut
        <5>1. /\ plug' = 1 /\ acc' = "off" /\ polls' = NextPoll
              /\ UNCHANGED <<opt, pc, action, attempt, status, success, result>>
            BY <3>1, <3>3, <4>3 DEF Polled
        <5> QED BY <5>1, <4>1 DEF TypeOK, ControlType, Plugs, Readings
      <4> QED BY <4>2, <4>3, <3>1, <3>3 DEF Polled
    <3> QED BY <3>2, <3>3
  <2> QED BY <2>3, <2>4, <2>5, <2>6, <1>d, <1>3
          DEF get_multi_power_fn, ReadPlug, ControlType, TypeOK, deviceVars
<1>4. CASE fence_action_decide /\ S
  <2>1. ASSUME NEW a \in {"on", "off"}, CallSet(a) PROVE ControlType'
      BY <2>1, <1>e, <1>b, <1>a, <1>k DEF CallSet
  <2>2. ASSUME StartOnPortion PROVE ControlType'
      BY <2>2, <1>e, <1>b, <1>a, <1>k DEF StartOnPortion
  <2>3. ASSUME pc' = "cycle", plug' = 1, attempt' = 1, success' = TRUE,
               UNCHANGED <<opt, action, polls, acc, status, result>>
        PROVE  ControlType'
      BY <2>3 DEF ControlType, TypeOK, Callbacks, Plugs
  <2>4. ControlType'
      BY <1>4, <2>1, <2>2, <2>3, <1>e, <1>a, <1>k DEF fence_action_decide
  <2> QED BY <2>4, <1>4, <1>d DEF fence_action_decide, ControlType, TypeOK, deviceVars
<1>5. CASE async_set_multi_power_fn /\ S
  <2>1. cmd' \in [Plugs -> {"none", "on", "off", "cycle"}]
      BY <1>5, <1>c DEF async_set_multi_power_fn, CommandSent, TypeOK, Control
  <2> QED BY <2>1, <1>5, <1>d, <1>n
          DEF async_set_multi_power_fn, CommandSent, TypeOK, Plugs, Callbacks, Readings
<1>6. CASE sync_set_multi_power_fn /\ S
  <2>1. ControlType'
    <3>1. ASSUME NEW ok \in BOOLEAN, LoopTail(ok, Attempts(action), SetReturned(success /\ ok))
          PROVE  ControlType'
      <4>1. (success /\ ok) \in BOOLEAN
          BY DEF TypeOK
      <4>2. CASE SetReturned(success /\ ok)
          BY <4>1, <4>2, <1>s
      <4>3. CASE ~SetReturned(success /\ ok)
        <5>1. \/ /\ attempt' = attempt + 1
                 /\ UNCHANGED <<opt, pc, action, plug, polls, acc, status, success, result>>
              \/ /\ plug < NPlugs /\ plug' = plug + 1 /\ attempt' = 1
                 /\ success' = (success /\ ok)
                 /\ UNCHANGED <<opt, pc, action, polls, acc, status, result>>
            BY <3>1, <4>3 DEF LoopTail
        <5>2. attempt' \in Nat \ {0} /\ plug' \in Plugs
            BY <5>1 DEF TypeOK, Plugs
        <5> QED BY <5>1, <5>2, <4>1 DEF ControlType, TypeOK
      <4> QED BY <4>2, <4>3
    <3> QED BY <3>1, <1>6 DEF sync_set_multi_power_fn
  <2>2. /\ cmd' \in [Plugs -> {"none", "on", "off", "cycle"}]
        /\ power' \in [Plugs -> {"on", "off"}]
        /\ seen' \in [Plugs -> {"none", "on", "off", "error", "cycled"}]
      BY <1>6, <1>n, <1>c DEF sync_set_multi_power_fn, TypeOK, Control
  <2> QED BY <2>1, <2>2, <1>6, <1>d DEF ControlType, TypeOK
<1>7. CASE multi_reboot_cycle_fn /\ S
  <2>1. ControlType'
    <3>1. ASSUME NEW ok \in BOOLEAN, LoopTail(ok, 1 + opt.retryOn, CycleReturned(success /\ ok))
          PROVE  ControlType'
      <4>1. (success /\ ok) \in BOOLEAN
          BY DEF TypeOK
      <4>2. CASE CycleReturned(success /\ ok)
          BY <4>2, <1>e, <1>a, <1>k DEF CycleReturned
      <4>3. CASE ~CycleReturned(success /\ ok)
        <5>1. \/ /\ attempt' = attempt + 1
                 /\ UNCHANGED <<opt, pc, action, plug, polls, acc, status, success, result>>
              \/ /\ plug < NPlugs /\ plug' = plug + 1 /\ attempt' = 1
                 /\ success' = (success /\ ok)
                 /\ UNCHANGED <<opt, pc, action, polls, acc, status, result>>
            BY <3>1, <4>3 DEF LoopTail
        <5>2. attempt' \in Nat \ {0} /\ plug' \in Plugs
            BY <5>1 DEF TypeOK, Plugs
        <5> QED BY <5>1, <5>2, <4>1 DEF ControlType, TypeOK
      <4> QED BY <4>2, <4>3
    <3> QED BY <3>1, <1>7 DEF multi_reboot_cycle_fn
  <2>2. /\ cmd' \in [Plugs -> {"none", "on", "off", "cycle"}]
        /\ seen' \in [Plugs -> {"none", "on", "off", "error", "cycled"}]
      BY <1>7, <1>n, <1>c DEF multi_reboot_cycle_fn, TypeOK
  <2> QED BY <2>1, <2>2, <1>7, <1>d DEF multi_reboot_cycle_fn, ControlType, TypeOK
<1>8. CASE (callback_raises \/ callback_fails) /\ S
  <2>1. cmd' \in [Plugs -> {"none", "on", "off", "cycle"}]
      BY <1>8, <1>c DEF callback_raises, callback_fails, HalfDone, TypeOK, Control
  <2> QED BY <2>1, <1>8, <1>d
          DEF callback_raises, callback_fails, HalfDone, Exit, TypeOK, Actions, Callbacks
<1>9. CASE Environment /\ S
    BY <1>9, <1>d
    DEF Environment, DeviceActs, DeviceCycles, Interfere, TypeOK, agentVars
<1>10. CASE UNCHANGED vars
    BY <1>10 DEF vars, agentVars, deviceVars, TypeOK
<1> QED BY <1>1, <1>2, <1>3, <1>4, <1>5, <1>6, <1>7, <1>8, <1>9, <1>10
        DEF Next, Agent, Finished

----------------------------------------------------------------------------
(* The ways a step of the agent can leave fence_action's loops.            *)

\* The agent gives up.
LEMMA ExitOne ==
    ASSUME IInv, Exit(1), action' = action, OnPortion => seen' = seen
    PROVE  Control' /\ Grounds'
<1>1. opt' = opt /\ pc' = "done" /\ result' = 1
    BY DEF Exit
<1>2. Control'
    BY <1>1 DEF IInv, Control, OnPortion, Cycle
<1>3. Grounds'
    BY <1>1 DEF IInv, Grounds, OnPortion, Contract!Backed
<1> QED BY <1>2, <1>3

\* The agent reports success on the evidence it has.
LEMMA ExitZero ==
    ASSUME IInv, Exit(0), action' = action \/ action' = "reboot",
           OnPortion' => \A q \in Plugs : seen'[q] = "off",
           Contract!Backed(Request, 0, seen')
    PROVE  Control' /\ Grounds'
<1>1. opt' = opt /\ pc' = "done" /\ result' = 0
    BY DEF Exit
<1>2. Request' = Request
    BY <1>1 DEF Request, Cycle
<1>3. Control'
    BY <1>1 DEF IInv, Control, OnPortion, Cycle
<1>4. Grounds'
    BY <1>1, <1>2 DEF Grounds
<1> QED BY <1>3, <1>4

\* The loops of set_multi_power_fn start.
LEMMA BeginSetKeeps ==
    ASSUME IInv, NEW a \in {"on", "off"}, BeginSet(a), opt.action \in {a, "reboot"},
           ~Cycle, pc # "done", 
           opt.action = "reboot" /\ a = "on" => \A q \in Plugs : seen'[q] = "off"
    PROVE  Control' /\ Grounds'
<1>1. /\ opt' = opt /\ pc' \in {"set", "sync"} /\ result' = result /\ action' = a
      /\ plug' = 1
    BY DEF BeginSet
<1>2. Control'
    BY <1>1 DEF IInv, Control, OnPortion, Cycle
<1>3. \A q \in Plugs : ~(q < plug')
    BY <1>1 DEF Plugs
<1>4. Grounds'
    BY <1>1, <1>3 DEF Grounds, OnPortion
<1> QED BY <1>2, <1>4

\* fence_action goes on after set_multi_power_fn.
LEMMA SetReturnedKeeps ==
    ASSUME IInv, NEW ok \in BOOLEAN, SetReturned(ok), pc \in {"poll", "sync"},
           OnPortion => seen' = seen,
           ok /\ ~OnPortion /\ action = "off" => \A q \in Plugs : seen'[q] = "off",
           ok /\ ~OnPortion /\ action = "on" => \E q \in Plugs : seen'[q] = "on"
    PROVE  Control' /\ Grounds'
<1>1. action \in {"on", "off"} /\ opt.action \in {action, "reboot"} /\ ~Cycle
    BY DEF IInv, Control
<1>2. CASE opt.action # "reboot"
  <2>1. CASE ok
    <3>1. Contract!Backed(Request, 0, seen')
        BY <1>1, <1>2, <2>1 DEF Contract!Backed, Request, OnPortion
    <3> QED BY <1>2, <2>1, <3>1, ExitZero DEF SetReturned, Exit, OnPortion
  <2>2. CASE ~ok
      BY <1>2, <2>2, ExitOne DEF SetReturned
  <2> QED BY <2>1, <2>2
<1>3. CASE opt.action = "reboot" /\ action = "off"
  <2>1. CASE ok
    <3>1. \A q \in Plugs : seen'[q] = "off"
        BY <1>3, <2>1 DEF OnPortion
    <3>2. Contract!Backed(Request, 0, seen')
        BY <1>1, <1>3, <3>1 DEF Contract!Backed, Request
    <3> QED BY <1>1, <1>3, <2>1, <3>1, <3>2, ExitZero, BeginSetKeeps
            DEF SetReturned, StartOnPortion
  <2>2. CASE ~ok
      BY <1>3, <2>2, ExitOne DEF SetReturned
  <2> QED BY <2>1, <2>2
<1>4. CASE opt.action = "reboot" /\ action # "off"
  <2>1. \A q \in Plugs : seen'[q] = "off"
      BY <1>1, <1>4 DEF OnPortion, IInv, Grounds
  <2>2. Contract!Backed(Request, 0, seen')
      BY <1>1, <1>4, <2>1 DEF Contract!Backed, Request
  <2> QED BY <1>4, <2>1, <2>2, ExitZero DEF SetReturned
<1> QED BY <1>1, <1>2, <1>3, <1>4

----------------------------------------------------------------------------

\* One reading of get_multi_power_fn: what it concludes it has read.
LEMMA ReadStep ==
    ASSUME IInv, get_multi_power_fn
    PROVE  Control' /\ Grounds'
<1> USE FenceActionAssumption
<1>t. plug \in Plugs /\ NPlugs \in Nat /\ plug \in Nat /\ plug <= NPlugs
    BY DEF IInv, TypeOK, Plugs
<1>1. PICK reading \in {power[plug], "error"} :
          /\ Note(plug, reading)
          /\ IF plug < NPlugs
             THEN /\ plug' = plug + 1 /\ acc' = Aggregate(acc, reading)
                  /\ UNCHANGED <<opt, pc, action, attempt, polls, status, success, result>>
             ELSE IF pc = "status"
             THEN StatusKnown(Aggregate(acc, reading))
             ELSE Polled(Aggregate(acc, reading))
    BY DEF get_multi_power_fn, ReadPlug
<1> DEFINE s == Aggregate(acc, reading)
<1>2. pc \in {"status", "poll"} /\ pc # "done"
    BY DEF get_multi_power_fn, ReadPlug
<1>3. /\ OnPortion => seen' = seen
      /\ ~OnPortion => /\ seen'[plug] = reading
                       /\ \A q \in Plugs : q # plug => seen'[q] = seen[q]
    BY <1>1, <1>t DEF Note, IInv, TypeOK
<1>4. ~OnPortion /\ s = "off" => \A q \in Plugs : q < plug + 1 => seen'[q] = "off"
  <2> SUFFICES ASSUME ~OnPortion, s = "off", NEW q \in Plugs, q < plug + 1
               PROVE  seen'[q] = "off"
      OBVIOUS
  <2>1. acc = "off" /\ reading = "off"
      BY DEF Aggregate
  <2>2. q = plug \/ q < plug
      BY <1>t DEF Plugs
  <2>3. CASE q = plug
      BY <2>1, <2>3, <1>3
  <2>4. CASE q # plug
      BY <2>1, <2>2, <2>4, <1>2, <1>3 DEF IInv, Grounds
  <2> QED BY <2>3, <2>4
<1>5. ~OnPortion /\ s = "on" => \E q \in Plugs : seen'[q] = "on" /\ q < plug + 1
  <2> SUFFICES ASSUME ~OnPortion, s = "on"
               PROVE  \E q \in Plugs : seen'[q] = "on" /\ q < plug + 1
      OBVIOUS
  <2>1. CASE reading = "on"
      BY <2>1, <1>3, <1>t
  <2>2. CASE reading # "on"
    <3>1. acc = "on"
        BY <2>2 DEF Aggregate
    <3>2. PICK q \in Plugs : seen[q] = "on" /\ q < plug
        BY <3>1, <1>2 DEF IInv, Grounds
    <3>3. q # plug /\ q < plug + 1
        BY <3>2, <1>t DEF Plugs
    <3> QED BY <3>2, <3>3, <1>3
  <2> QED BY <2>1, <2>2
<1>6. CASE plug < NPlugs
  <2>1. /\ plug' = plug + 1 /\ acc' = s
        /\ UNCHANGED <<opt, pc, action, attempt, polls, status, success, result>>
      BY <1>1, <1>6
  <2>2. Control'
      BY <2>1, <1>2 DEF IInv, Control, OnPortion, Cycle
  <2>3. OnPortion' = OnPortion
      BY <2>1 DEF OnPortion
  <2> HIDE DEF s
  <2>4. Grounds'
      BY <2>1, <2>3, <1>2, <1>3, <1>4, <1>5 DEF IInv, Grounds
  <2> QED BY <2>2, <2>4
<1>7. CASE ~(plug < NPlugs) /\ pc = "status"
  <2>0. ~OnPortion /\ action = opt.action
      BY <1>7 DEF IInv, Control, OnPortion
  <2>1. StatusKnown(s)
      BY <1>1, <1>7
  <2>a. \A q \in Plugs : q < plug + 1
      BY <1>7, <1>t DEF Plugs
  <2>2. CASE s \in {"on", "off"}
    <3>1. /\ action' = action /\ pc' = "decide" /\ status' = s
          /\ UNCHANGED <<opt, plug, attempt, polls, acc, success, result>>
        BY <2>1, <2>2 DEF StatusKnown
    <3>2. Control'
        BY <3>1, <2>0, <2>2, <1>7 DEF IInv, Control, OnPortion, Cycle
    <3> HIDE DEF s
    <3>3. Grounds'
        BY <3>1, <2>0, <2>a, <1>4, <1>5 DEF Grounds, OnPortion
    <3> QED BY <3>2, <3>3
  <2>3. CASE s \notin {"on", "off"}
      BY <2>1, <2>3, <1>3, ExitOne DEF StatusKnown
  <2> QED BY <2>2, <2>3
<1>8. CASE ~(plug < NPlugs) /\ pc = "poll"
  <2>1. Polled(s)
      BY <1>1, <1>8
  <2>a. \A q \in Plugs : q < plug + 1
      BY <1>8, <1>t DEF Plugs
  <2> HIDE DEF s
  <2>2. CASE s = action
    <3>1. SetReturned(TRUE)
        BY <2>1, <2>2 DEF Polled
    <3> QED BY <3>1, <2>2, <2>a, <1>3, <1>4, <1>5, <1>8, SetReturnedKeeps
  <2>3. CASE s # action /\ TimedOut /\ ~(attempt < Attempts(action))
    <3>1. SetReturned(FALSE)
        BY <2>1, <2>3 DEF Polled
    <3> QED BY <3>1, <1>3, <1>8, SetReturnedKeeps
  <2>4. CASE s # action /\ ~(TimedOut /\ ~(attempt < Attempts(action)))
    <3>1. /\ plug' = 1 /\ acc' = "off" /\ pc' \in {"set", "poll"}
          /\ UNCHANGED <<opt, action, status, success, result>>
        BY <2>1, <2>4, <1>8 DEF Polled
    <3>2. Control' /\ OnPortion' = OnPortion
        BY <3>1, <1>8 DEF IInv, Control, OnPortion, Cycle
    <3>3. \A q \in Plugs : ~(q < plug')
        BY <3>1 DEF Plugs
    <3>4. Grounds'
        BY <3>1, <3>2, <3>3, <1>3 DEF IInv, Grounds
    <3> QED BY <3>2, <3>4
  <2> QED BY <2>2, <2>3, <2>4
<1> QED BY <1>2, <1>6, <1>7, <1>8

\* One command, or one answer of a synchronous or cycling callback.
LEMMA CommandStep ==
    ASSUME IInv,
           async_set_multi_power_fn \/ sync_set_multi_power_fn \/ multi_reboot_cycle_fn
    PROVE  Control' /\ Grounds'
<1> USE FenceActionAssumption
<1>t. plug \in Plugs /\ NPlugs \in Nat /\ plug \in Nat /\ plug <= NPlugs
    BY DEF IInv, TypeOK, Plugs
<1>n. ASSUME NEW v, Note(plug, v)
      PROVE  /\ OnPortion => seen' = seen
             /\ ~OnPortion => /\ seen'[plug] = v
                              /\ \A q \in Plugs : q # plug => seen'[q] = seen[q]
    BY <1>n, <1>t DEF Note, IInv, TypeOK
<1>p. \A q \in Plugs : q < plug + 1 => q = plug \/ q < plug
    BY <1>t DEF Plugs
<1>l. ~(plug < NPlugs) => \A q \in Plugs : q < plug + 1
    BY <1>t DEF Plugs
<1>1. CASE async_set_multi_power_fn
  <2>1. /\ pc = "set" /\ Note(plug, "none") /\ pc' \in {"set", "poll"}
        /\ pc' = "poll" => plug' = 1
        /\ UNCHANGED <<opt, action, attempt, status, success, result>>
      BY <1>1 DEF async_set_multi_power_fn, CommandSent
  <2>2. Control' /\ OnPortion' = OnPortion
      BY <2>1 DEF IInv, Control, OnPortion, Cycle
  <2>3. pc' = "poll" => \A q \in Plugs : ~(q < plug')
      BY <2>1 DEF Plugs
  <2>4. acc' = "off"
      BY <1>1 DEF async_set_multi_power_fn, CommandSent
  <2>5. Grounds'
      BY <2>1, <2>2, <2>3, <2>4, <1>n DEF IInv, Grounds
  <2> QED BY <2>2, <2>5
<1>2. CASE sync_set_multi_power_fn
  <2>1. PICK ok \in BOOLEAN :
          /\ LoopTail(ok, Attempts(action), SetReturned(success /\ ok))
          /\ Note(plug, IF ok THEN action ELSE "none")
      BY <1>2 DEF sync_set_multi_power_fn
  <2>2. pc = "sync"
      BY <1>2 DEF sync_set_multi_power_fn
  <2>3. success /\ ok /\ ~OnPortion => \A q \in Plugs : q < plug + 1 => seen'[q] = action
      BY <2>1, <2>2, <1>n, <1>p DEF IInv, Grounds
  <2>4. CASE ~ok /\ attempt < Attempts(action)
    <3>1. UNCHANGED <<opt, pc, action, plug, polls, acc, status, success, result>>
        BY <2>1, <2>4 DEF LoopTail
    <3>2. Control' /\ OnPortion' = OnPortion
        BY <3>1, <2>2 DEF IInv, Control, OnPortion, Cycle
    <3>3. ~OnPortion => \A q \in Plugs : q < plug => seen'[q] = seen[q]
        BY <2>1, <1>n, <1>t DEF Plugs
    <3>4. Grounds'
        BY <3>1, <3>2, <3>3, <2>1, <2>2, <1>n DEF IInv, Grounds
    <3> QED BY <3>2, <3>4
  <2>5. CASE ~(~ok /\ attempt < Attempts(action)) /\ plug < NPlugs
    <3>1. /\ plug' = plug + 1 /\ success' = (success /\ ok)
          /\ UNCHANGED <<opt, pc, action, polls, acc, status, result>>
        BY <2>1, <2>5 DEF LoopTail
    <3>2. Control' /\ OnPortion' = OnPortion
        BY <3>1, <2>2 DEF IInv, Control, OnPortion, Cycle
    <3>3. success' => success /\ ok
        BY <3>1
    <3>4. Grounds'
        BY <3>1, <3>2, <3>3, <2>1, <2>2, <2>3, <1>n DEF IInv, Grounds
    <3> QED BY <3>2, <3>4
  <2>6. CASE ~(~ok /\ attempt < Attempts(action)) /\ ~(plug < NPlugs)
    <3>1. SetReturned(success /\ ok) /\ (success /\ ok) \in BOOLEAN
        BY <2>1, <2>6 DEF LoopTail, IInv, TypeOK
    <3>2. OnPortion => seen' = seen
        BY <2>1, <1>n
    <3>3. (success /\ ok) /\ ~OnPortion => \A q \in Plugs : seen'[q] = action
        BY <2>3, <2>6, <1>l
    <3> HIDE <2>1
    <3> QED BY <3>1, <3>2, <3>3, <2>2, <1>t, SetReturnedKeeps
  <2> QED BY <2>4, <2>5, <2>6
<1>3. CASE multi_reboot_cycle_fn
  <2>1. PICK ok \in BOOLEAN :
          /\ LoopTail(ok, 1 + opt.retryOn, CycleReturned(success /\ ok))
          /\ Note(plug, IF ok THEN "cycled" ELSE "none")
      BY <1>3 DEF multi_reboot_cycle_fn
  <2>2. pc = "cycle" /\ Cycle /\ ~OnPortion
      BY <1>3 DEF multi_reboot_cycle_fn, IInv, Control
  <2>3. success /\ ok => \A q \in Plugs : q < plug + 1 => seen'[q] = "cycled"
      BY <2>1, <2>2, <1>n, <1>p DEF IInv, Grounds
  <2>4. CASE ~ok /\ attempt < 1 + opt.retryOn
    <3>1. UNCHANGED <<opt, pc, action, plug, polls, acc, status, success, result>>
        BY <2>1, <2>4 DEF LoopTail
    <3>2. Control' /\ OnPortion' = OnPortion
        BY <3>1, <2>2 DEF IInv, Control, OnPortion, Cycle
    <3>3. \A q \in Plugs : q < plug => seen'[q] = seen[q]
        BY <2>1, <2>2, <1>n, <1>t DEF Plugs
    <3>4. Grounds'
        BY <3>1, <3>2, <3>3, <2>2 DEF IInv, Grounds
    <3> QED BY <3>2, <3>4
  <2>5. CASE ~(~ok /\ attempt < 1 + opt.retryOn) /\ plug < NPlugs
    <3>1. /\ plug' = plug + 1 /\ success' = (success /\ ok)
          /\ UNCHANGED <<opt, pc, action, polls, acc, status, result>>
        BY <2>1, <2>5 DEF LoopTail
    <3>2. Control' /\ OnPortion' = OnPortion
        BY <3>1, <2>2 DEF IInv, Control, OnPortion, Cycle
    <3>3. success' => success /\ ok
        BY <3>1
    <3>4. Grounds'
        BY <3>1, <3>2, <3>3, <2>2, <2>3 DEF Grounds
    <3> QED BY <3>2, <3>4
  <2>6. CASE ~(~ok /\ attempt < 1 + opt.retryOn) /\ ~(plug < NPlugs)
    <3>1. CycleReturned(success /\ ok)
        BY <2>1, <2>6 DEF LoopTail
    <3>2. CASE success /\ ok
      <4>1. Contract!Backed(Request, 0, seen')
          BY <3>2, <2>2, <2>3, <2>6, <1>l DEF Contract!Backed, Request, Cycle
      <4>2. Exit(0) /\ action' = action
          BY <3>1, <3>2 DEF CycleReturned
      <4>3. ~OnPortion'
          BY <4>2, <2>2 DEF Exit, OnPortion
      <4> QED BY <4>1, <4>2, <4>3, ExitZero
    <3>3. CASE ~(success /\ ok)
        BY <3>1, <3>3, <2>2, ExitOne DEF CycleReturned
    <3> QED BY <3>2, <3>3
  <2> QED BY <2>4, <2>5, <2>6
<1> QED BY <1>1, <1>2, <1>3

\* The steps between the callbacks, and the callbacks that fail.
LEMMA ControlStep ==
    ASSUME IInv,
           \/ fence_action_start \/ list_outlets \/ fence_action_decide
           \/ callback_raises \/ callback_fails
    PROVE  Control' /\ Grounds'
<1>o. /\ opt.action \in Actions /\ opt.noStatus \in BOOLEAN
      /\ opt.action = "status" => ~opt.noStatus
    BY OptionFacts DEF IInv, TypeOK
<1>1. CASE fence_action_start
  <2>1. /\ pc = "start" /\ plug' = 1 /\ acc' = "off"
        /\ UNCHANGED <<opt, action, status, seen>>
        /\ \/ pc' = "list" /\ Listing /\ result' = result
           \/ pc' = "done" /\ result' = 0 /\ opt.action \in {"list", "monitor"}
           \/ pc' \in {"decide", "status"} /\ result' = result /\ opt.action # "list"
      BY <1>1, <1>o DEF fence_action_start, Listing, Actions
  <2>2. action = opt.action /\ status \in {"none", "on", "off"}
      BY <2>1 DEF IInv, Control, TypeOK
  <2>s. pc' = "decide" => opt.noStatus /\ status = "none"
      BY <1>1 DEF fence_action_start, IInv, Control
  <2>3. Control'
      BY <2>1, <2>2, <2>s DEF IInv, Control, OnPortion, Cycle, Listing
  <2>4. \A q \in Plugs : ~(q < plug')
      BY <2>1 DEF Plugs
  <2>5. Grounds'
      BY <2>1, <2>2, <2>4, <2>s DEF Grounds, OnPortion, Contract!Backed, Request
  <2> QED BY <2>3, <2>5
<1>2. CASE list_outlets
  <2>1. opt.action \in {"list", "monitor"} /\ action = opt.action /\ seen' = seen
      BY <1>2 DEF list_outlets, IInv, Control
  <2>2. Contract!Backed(Request, 0, seen')
      BY <2>1 DEF Contract!Backed, Request
  <2> QED BY <1>2, <2>1, <2>2, ExitZero DEF list_outlets, Exit, OnPortion
<1>3. CASE fence_action_decide
  <2>1. pc = "decide" /\ action = opt.action /\ ~OnPortion /\ seen' = seen /\ pc # "done"
      BY <1>3 DEF fence_action_decide, IInv, Control, OnPortion
  <2>2. /\ status = "off" => \A q \in Plugs : seen[q] = "off"
        /\ status = "on" => \E q \in Plugs : seen[q] = "on"
        /\ opt.action = "status" => status \in {"on", "off"}
      BY <2>1, <1>o DEF IInv, Grounds, Control, TypeOK
  <2>3. CASE Already /\ Exit(0) /\ action' = action
    <3>1. opt.action \in {"on", "off"} /\ opt.action = status
        BY <2>3, <1>o DEF Already, IInv, TypeOK, Actions
    <3>2. Contract!Backed(Request, 0, seen')
        BY <3>1, <2>1, <2>2 DEF Contract!Backed, Request, Cycle
    <3> QED BY <3>2, <2>1, <2>3, ExitZero DEF Exit, OnPortion
  <2>4. CASE opt.action \in {"on", "off"} /\ CallSet(opt.action)
      BY <2>1, <2>4, ExitOne, BeginSetKeeps DEF CallSet, Cycle
  <2>5. CASE /\ Cycle
             /\ pc' = "cycle" /\ plug' = 1 /\ attempt' = 1 /\ success' = TRUE
             /\ UNCHANGED <<opt, action, polls, acc, status, result>>
    <3>1. Control'
        BY <2>1, <2>5 DEF IInv, Control, OnPortion, Cycle
    <3>2. \A q \in Plugs : ~(q < plug')
        BY <2>5 DEF Plugs
    <3>3. Grounds'
        BY <3>2, <2>1, <2>5 DEF Grounds, OnPortion
    <3> QED BY <3>1, <3>3
  <2>6. CASE opt.action = "reboot" /\ ~Cycle /\ status # "off" /\ CallSet("off")
    <3>1. CASE BeginSet("off")
        BY <3>1, <2>1, <2>6, BeginSetKeeps
    <3>2. CASE Exit(1) /\ action' = "off"
      <4>1. Control'
          BY <3>2, <2>1 DEF IInv, Control, Exit, OnPortion
      <4>2. Grounds'
          BY <3>2 DEF Exit, Grounds, OnPortion, Contract!Backed
      <4> QED BY <4>1, <4>2
    <3> QED BY <3>1, <3>2, <2>6 DEF CallSet
  <2>7. CASE opt.action = "reboot" /\ ~Cycle /\ status = "off" /\ StartOnPortion
    <3>1. Contract!Backed(Request, 0, seen')
        BY <2>1, <2>2, <2>7 DEF Contract!Backed, Request
    <3>2. CASE Exit(0) /\ action' = "reboot"
        BY <3>1, <3>2, ExitZero DEF OnPortion
    <3>3. CASE BeginSet("on")
        BY <3>3, <2>1, <2>2, <2>7, BeginSetKeeps
    <3> QED BY <3>2, <3>3, <2>7 DEF StartOnPortion
  <2>8. CASE opt.action = "status" /\ Exit(IF status = "off" THEN 2 ELSE 0) /\ action' = action
    <3>1. Contract!Backed(Request, IF status = "off" THEN 2 ELSE 0, seen)
        BY <2>2, <2>8 DEF Contract!Backed, Request, Cycle
    <3>2. /\ opt' = opt /\ pc' = "done" /\ result' = IF status = "off" THEN 2 ELSE 0
          /\ Request' = Request
        BY <2>8 DEF Exit, Request, Cycle
    <3>3. Control'
        BY <3>2, <2>1, <2>8 DEF IInv, Control, OnPortion, Cycle
    <3>4. Grounds'
        BY <3>1, <3>2, <2>1, <2>8 DEF Grounds, OnPortion
    <3> QED BY <3>3, <3>4
  <2>9. CASE opt.action = "monitor" /\ Exit(0) /\ action' = action
    <3>1. Contract!Backed(Request, 0, seen')
        BY <2>9 DEF Contract!Backed, Request
    <3> QED BY <3>1, <2>1, <2>9, ExitZero DEF Exit, OnPortion
  <2> QED BY <1>3, <2>3, <2>4, <2>5, <2>6, <2>7, <2>8, <2>9 DEF fence_action_decide
<1>4. CASE callback_raises
  <2>1. seen' = seen
      BY <1>4 DEF callback_raises, HalfDone
  <2>2. CASE OnPortion
    <3>1. \A q \in Plugs : seen'[q] = "off"
        BY <2>1, <2>2 DEF IInv, Grounds
    <3>2. Contract!Backed(Request, 0, seen')
        BY <2>2, <3>1 DEF Contract!Backed, Request, OnPortion, IInv, Control
    <3> QED BY <1>4, <2>2, <3>1, <3>2, ExitZero DEF callback_raises
  <2>3. CASE ~OnPortion
      BY <1>4, <2>1, <2>3, ExitOne DEF callback_raises
  <2> QED BY <2>2, <2>3
<1>5. CASE callback_fails
    BY <1>5, ExitOne DEF callback_fails, HalfDone
<1> QED BY <1>1, <1>2, <1>3, <1>4, <1>5

\* The inductive step.
LEMMA IInvStep == IInv /\ [Next]_vars => IInv'
<1> SUFFICES ASSUME IInv, [Next]_vars PROVE IInv'
    OBVIOUS
<1>1. TypeOK'
    BY TypeStep DEF IInv
<1>2. CASE Agent
    BY <1>1, <1>2, ReadStep, CommandStep, ControlStep DEF Agent, IInv
<1>3. CASE Environment \/ UNCHANGED vars
  <2>1. UNCHANGED <<agentVars, seen>>
      BY <1>3 DEF Environment, DeviceActs, DeviceCycles, Interfere, vars
  <2>2. Control'
      BY <2>1 DEF IInv, Control, agentVars, OnPortion, Cycle
  <2>3. Grounds'
      BY <2>1 DEF IInv, Grounds, agentVars, OnPortion, Request, Cycle
  <2> QED BY <1>1, <2>2, <2>3 DEF IInv
<1> QED BY <1>2, <1>3 DEF Next, Finished

\* Type correctness, with the control and evidence invariants it rests on.
THEOREM TypeCorrect == Spec => []TypeOK
<1>1. IInv => TypeOK
    BY DEF IInv
<1> QED BY InitIInv, IInvStep, <1>1, PTL DEF Spec

\* A step of the agent changes the evidence about at most one plug, and the
\* agent takes none after its exit.
LEMMA AgentEvidence ==
    ASSUME IInv, Agent
    PROVE  /\ result = -1 /\ opt' = opt
           /\ \/ seen' = seen
              \/ \E p \in Plugs, v \in Contract!Evidence : seen' = [seen EXCEPT ![p] = v]
<1>1. pc # "done" /\ opt' = opt
    BY DEF Agent, fence_action_start, list_outlets, get_multi_power_fn, ReadPlug, fence_action_decide,
         async_set_multi_power_fn, CommandSent, sync_set_multi_power_fn, multi_reboot_cycle_fn,
         callback_raises, callback_fails, Callbacks, Exit, StatusKnown, Polled, SetReturned,
         StartOnPortion, BeginSet, CallSet, LoopTail, CycleReturned
<1>2. result = -1
    BY <1>1 DEF IInv, Control
<1>3. ASSUME NEW v \in Contract!Evidence, Note(plug, v)
      PROVE  \/ seen' = seen
             \/ \E p \in Plugs, w \in Contract!Evidence : seen' = [seen EXCEPT ![p] = w]
    BY <1>3 DEF Note, IInv, TypeOK
<1>4. {"none", "cycled", "on", "off", "error"} \subseteq Contract!Evidence
    BY DEF Contract!Evidence
<1>5. CASE fence_action_start \/ list_outlets \/ fence_action_decide
           \/ callback_raises \/ callback_fails
    BY <1>1, <1>2, <1>5 DEF fence_action_start, list_outlets, fence_action_decide,
         callback_raises, callback_fails, HalfDone
<1>6. CASE get_multi_power_fn
    BY <1>1, <1>2, <1>3, <1>4, <1>6 DEF get_multi_power_fn, ReadPlug, IInv, TypeOK
<1>7. CASE async_set_multi_power_fn \/ multi_reboot_cycle_fn
    BY <1>1, <1>2, <1>3, <1>4, <1>7 DEF async_set_multi_power_fn, CommandSent, multi_reboot_cycle_fn
<1>8. CASE sync_set_multi_power_fn
    BY <1>1, <1>2, <1>3, <1>4, <1>8 DEF sync_set_multi_power_fn, IInv, Control
<1> QED BY <1>5, <1>6, <1>7, <1>8 DEF Agent

\* fence_action implements the contract of doc/FenceAgentAPI.md for every
\* number of plugs, every option, any device and any interference.
THEOREM ContractKept == Spec => KeepsContract
<1>1. Init => Contract!ContractInit
  <2> SUFFICES ASSUME Init PROVE Contract!ContractInit
      OBVIOUS
  <2>1. Request \in Contract!Requests
      BY OptionFacts DEF Init, Request, Contract!Requests, Actions
  <2> QED BY <2>1 DEF Init, Contract!ContractInit
<1>2. IInv /\ IInv' /\ [Next]_vars => [Contract!ContractNext]_(Contract!contractVars)
  <2> SUFFICES ASSUME IInv, IInv', [Next]_vars
               PROVE  Contract!ContractNext \/ UNCHANGED Contract!contractVars
      OBVIOUS
  <2>1. CASE Agent
    <3>1. Request' = Request
        BY <2>1, AgentEvidence DEF Request, Cycle
    <3>2. CASE result' = -1
        BY <2>1, <3>1, <3>2, AgentEvidence
        DEF Contract!ContractNext, Contract!Learn, Contract!contractVars
    <3>3. CASE result' # -1
      <4>1. result' \in 0 .. 2
          BY <3>3 DEF IInv, TypeOK
      <4>2. Contract!Backed(Request', result', seen')
          BY <3>3 DEF IInv, Control, Grounds
      <4> QED BY <2>1, <3>1, <4>1, <4>2, AgentEvidence
              DEF Contract!ContractNext, Contract!Answer
    <3> QED BY <3>2, <3>3
  <2>2. CASE Environment \/ UNCHANGED vars
      BY <2>2 DEF Environment, DeviceActs, DeviceCycles, Interfere, vars, agentVars,
           Contract!contractVars, Request, Cycle
  <2> QED BY <2>1, <2>2 DEF Next, Finished
<1> QED BY <1>1, <1>2, InitIInv, IInvStep, PTL
        DEF Spec, KeepsContract, Contract!ContractSpec

----------------------------------------------------------------------------
(* With nobody else at the device.                                         *)

\* Before the on portion no command but "off" is ever accepted.
LEMMA CommandsKept ==
    ASSUME IInv, DeviceInv, Verified, Agent
    PROVE  /\ opt.action = "off" => \A p \in Plugs : cmd'[p] \in {"none", "off"}
           /\ action # "on" => \A p \in Plugs : cmd'[p] \in {"none", "off"}
           /\ ~allOff => \A p \in Plugs : cmd'[p] \in {"none", "off"}
<1>t. plug \in Plugs /\ cmd \in [Plugs -> {"none", "on", "off", "cycle"}]
    BY DEF IInv, TypeOK
<1>1. pc # "cycle" /\ pc # "done"
    BY DEF Verified, IInv, Control, Agent, fence_action_start, list_outlets,
         get_multi_power_fn, ReadPlug, fence_action_decide, async_set_multi_power_fn, CommandSent,
         sync_set_multi_power_fn, multi_reboot_cycle_fn, callback_raises, callback_fails,
         Callbacks
<1>2. \/ cmd' = cmd
      \/ pc \in {"set", "sync"} /\ \E c \in {"none", action, cmd[plug]} : cmd' = [cmd EXCEPT ![plug] = c]
  <2>1. CASE HalfDone
      BY <2>1, <1>1, <1>t DEF HalfDone
  <2>2. CASE ~HalfDone
      BY <2>2, <1>1 DEF Agent, fence_action_start, list_outlets,
         get_multi_power_fn, ReadPlug, fence_action_decide, async_set_multi_power_fn, CommandSent,
         sync_set_multi_power_fn, multi_reboot_cycle_fn, callback_raises, callback_fails,
         deviceVars
  <2> QED BY <2>1, <2>2
<1>3. pc \in {"set", "sync"} => action \in {"on", "off"} /\ opt.action \in {action, "reboot"}
    BY DEF IInv, Control
<1>4. ~Succeeded
    BY <1>1 DEF Succeeded
<1>5. pc \in {"set", "sync"} /\ action = "on" => OnPortion /\ allOff
    BY <1>3 DEF DeviceInv, Verified, OnPortion
<1> QED BY <1>t, <1>2, <1>3, <1>4, <1>5 DEF DeviceInv, OnPortion

\* The process ends: what the device invariant asks of an exit.
LEMMA DeviceExit ==
    ASSUME IInv, DeviceInv, Verified, Agent, allOff' = (allOff \/ Dark(power')),
           pc' = "done", opt' = opt,
           action = "on" /\ action' # "on" => result' = 0,
           OnPortion' => allOff',
           result' = 0 => allOff',
           result' = 0 /\ opt.action = "off" => Dark(power')
    PROVE  DeviceInv'
BY CommandsKept DEF DeviceInv, Verified, Cycle, Succeeded, Dark

\* The loops of set_multi_power_fn start.
LEMMA DeviceBegin ==
    ASSUME IInv, DeviceInv, Verified, Agent, allOff' = (allOff \/ Dark(power')),
           NEW a \in {"on", "off"}, BeginSet(a), action # "on",
           a = "on" => allOff'
    PROVE  DeviceInv'
<1>1. /\ opt' = opt /\ pc' \in {"set", "sync"} /\ plug' = 1 /\ action' = a
    BY DEF BeginSet
<1>2. \A q \in Plugs : ~(q < plug')
    BY <1>1 DEF Plugs
<1> QED BY <1>1, <1>2, CommandsKept DEF DeviceInv, Verified, Cycle, Succeeded, OnPortion, Dark

\* fence_action goes on after set_multi_power_fn.
LEMMA DeviceReturned ==
    ASSUME IInv, DeviceInv, Verified, Agent, allOff' = (allOff \/ Dark(power')),
           NEW ok \in BOOLEAN, SetReturned(ok), pc \in {"poll", "sync"},
           ok /\ ~OnPortion => Dark(power')
    PROVE  DeviceInv'
<1>1. action \in {"on", "off"} /\ opt.action \in {action, "reboot"} /\ ~Cycle
    BY DEF IInv, Control
<1>2. CASE opt.action # "reboot"
  <2>1. /\ Exit(IF ok THEN 0 ELSE 1) /\ action' = action /\ action = "off"
      BY <1>1, <1>2 DEF SetReturned, Verified
  <2>2. result' = 0 => ok
      BY <2>1 DEF Exit
  <2> QED BY <1>2, <2>1, <2>2, DeviceExit DEF Exit, OnPortion
<1>3. CASE opt.action = "reboot" /\ action = "off"
  <2>1. ~OnPortion
      BY <1>3 DEF OnPortion
  <2>2. CASE ok /\ BeginSet("on")
      BY <1>3, <2>1, <2>2, DeviceBegin
  <2>3. CASE ok /\ Exit(0) /\ action' = "reboot"
      BY <1>3, <2>1, <2>3, DeviceExit DEF Exit, OnPortion
  <2>4. CASE Exit(1) /\ action' = action
      BY <1>3, <2>1, <2>4, DeviceExit DEF Exit, OnPortion
  <2> QED BY <1>3, <2>2, <2>3, <2>4 DEF SetReturned, StartOnPortion
<1>4. CASE opt.action = "reboot" /\ action # "off"
  <2>1. allOff
      BY <1>1, <1>4 DEF DeviceInv, OnPortion
  <2> QED BY <1>4, <2>1, DeviceExit DEF SetReturned, Exit, OnPortion
<1> QED BY <1>1, <1>2, <1>3, <1>4

\* Every step of the agent keeps the device invariant.
LEMMA DeviceAgent ==
    ASSUME IInv, DeviceInv, Verified, Agent, allOff' = (allOff \/ Dark(power'))
    PROVE  DeviceInv'
<1> USE FenceActionAssumption
<1>t. plug \in Plugs /\ NPlugs \in Nat /\ plug \in Nat /\ plug <= NPlugs
    BY DEF IInv, TypeOK, Plugs
<1>p. \A q \in Plugs : q < plug + 1 => q = plug \/ q < plug
    BY <1>t DEF Plugs
<1>l. ~(plug < NPlugs) => \A q \in Plugs : q < plug + 1
    BY <1>t DEF Plugs
<1>1. CASE fence_action_start
  <2>1. /\ pc = "start" /\ plug' = 1 /\ acc' = "off" /\ opt.action = action
        /\ UNCHANGED <<opt, action, status, cmd, power>> /\ status = "none"
      BY <1>1 DEF fence_action_start, deviceVars, IInv, Control
  <2>2. pc' \in {"decide", "status"}
      BY <1>1 DEF fence_action_start, Verified, Listing
  <2>3. \A q \in Plugs : ~(q < plug')
      BY <2>1 DEF Plugs
  <2> QED BY <2>1, <2>2, <2>3, CommandsKept
          DEF DeviceInv, Verified, Cycle, Succeeded, OnPortion, Dark
<1>2. CASE list_outlets
    BY <1>2 DEF list_outlets, IInv, Control, Verified
<1>3. CASE get_multi_power_fn
  <2>1. PICK reading \in {power[plug], "error"} :
          IF plug < NPlugs
          THEN /\ plug' = plug + 1 /\ acc' = Aggregate(acc, reading)
               /\ UNCHANGED <<opt, pc, action, attempt, polls, status, success, result>>
          ELSE IF pc = "status"
          THEN StatusKnown(Aggregate(acc, reading))
          ELSE Polled(Aggregate(acc, reading))
      BY <1>3 DEF get_multi_power_fn, ReadPlug
  <2> DEFINE s == Aggregate(acc, reading)
  <2>2. pc \in {"status", "poll"} /\ power' = power /\ cmd' = cmd
      BY <1>3 DEF get_multi_power_fn, ReadPlug, deviceVars
  <2>3. ~OnPortion /\ s = "off" => \A q \in Plugs : q < plug + 1 => power[q] = "off"
    <3> SUFFICES ASSUME ~OnPortion, s = "off", NEW q \in Plugs, q < plug + 1
                 PROVE  power[q] = "off"
        OBVIOUS
    <3>1. acc = "off" /\ reading = "off"
        BY DEF Aggregate
    <3>2. CASE q = plug
        BY <3>1, <3>2
    <3>3. CASE q # plug
        BY <3>1, <3>3, <2>2, <1>p DEF DeviceInv
    <3> QED BY <3>2, <3>3
  <2>4. CASE plug < NPlugs
    <3>1. /\ plug' = plug + 1 /\ acc' = s
          /\ UNCHANGED <<opt, pc, action, attempt, polls, status, success, result>>
        BY <2>1, <2>4
    <3> HIDE DEF s
    <3> QED BY <3>1, <2>2, <2>3, CommandsKept
            DEF DeviceInv, Verified, Cycle, Succeeded, OnPortion, Dark
  <2>5. CASE ~(plug < NPlugs) /\ pc = "status"
    <3>1. StatusKnown(s) /\ action = opt.action /\ ~OnPortion
        BY <2>1, <2>5 DEF IInv, Control, OnPortion
    <3>2. s = "off" => Dark(power)
        BY <3>1, <2>3, <2>5, <1>l DEF Dark
    <3> HIDE DEF s
    <3>3. CASE s \in {"on", "off"}
      <4>1. /\ action' = action /\ pc' = "decide" /\ status' = s /\ opt' = opt
          BY <3>1, <3>3 DEF StatusKnown
      <4> QED BY <4>1, <3>1, <3>2, <2>2, <2>5, CommandsKept
              DEF DeviceInv, Verified, Cycle, Succeeded, OnPortion, Dark
    <3>4. CASE s \notin {"on", "off"}
        BY <3>1, <3>4, DeviceExit DEF StatusKnown, Exit, OnPortion
    <3> QED BY <3>3, <3>4
  <2>6. CASE ~(plug < NPlugs) /\ pc = "poll"
    <3>1. Polled(s)
        BY <2>1, <2>6
    <3>2. ~OnPortion /\ s = "off" => Dark(power')
        BY <2>2, <2>3, <2>6, <1>l DEF Dark
    <3> HIDE DEF s
    <3>3. CASE s = action
      <4>1. ~OnPortion => action = "off"
          BY <2>6 DEF IInv, Control, Verified, OnPortion
      <4> QED BY <3>1, <3>2, <3>3, <4>1, <2>6, DeviceReturned DEF Polled
    <3>4. CASE s # action /\ TimedOut /\ ~(attempt < Attempts(action))
        BY <3>1, <3>4, <2>6, DeviceReturned DEF Polled
    <3>5. CASE s # action /\ ~(TimedOut /\ ~(attempt < Attempts(action)))
      <4>1. /\ plug' = 1 /\ acc' = "off" /\ pc' \in {"set", "poll"}
            /\ UNCHANGED <<opt, action, status, success, result>>
          BY <3>1, <3>5, <2>6 DEF Polled
      <4>2. \A q \in Plugs : ~(q < plug')
          BY <4>1 DEF Plugs
      <4> QED BY <4>1, <4>2, <2>2, <2>6, CommandsKept
              DEF DeviceInv, Verified, Cycle, Succeeded, OnPortion, Dark
    <3> QED BY <3>3, <3>4, <3>5
  <2> QED BY <2>2, <2>4, <2>5, <2>6
<1>4. CASE fence_action_decide
  <2>1. pc = "decide" /\ action = opt.action /\ ~OnPortion /\ power' = power /\ action # "on"
      BY <1>4 DEF fence_action_decide, deviceVars, IInv, Control, OnPortion, Verified
  <2>2. status = "off" => Dark(power) /\ allOff
      BY <2>1 DEF DeviceInv
  <2>3. CASE Already /\ Exit(0) /\ action' = action
      BY <2>1, <2>2, <2>3, DeviceExit DEF Already, Exit, Verified, OnPortion, IInv, TypeOK
  <2>4. CASE opt.action = "off" /\ CallSet("off")
      BY <2>1, <2>4, DeviceBegin, DeviceExit DEF CallSet, Exit, OnPortion
  <2>5. CASE opt.action = "reboot" /\ CallSet("off")
      BY <2>1, <2>5, DeviceBegin, DeviceExit DEF CallSet, Exit, OnPortion
  <2>6. CASE opt.action = "reboot" /\ status = "off" /\ StartOnPortion
    <3>1. CASE BeginSet("on")
        BY <2>1, <2>2, <2>6, <3>1, DeviceBegin
    <3>2. CASE Exit(0) /\ action' = "reboot"
        BY <2>1, <2>2, <2>6, <3>2, DeviceExit DEF Exit, OnPortion
    <3> QED BY <2>6, <3>1, <3>2 DEF StartOnPortion
  <2> QED BY <1>4, <2>3, <2>4, <2>5, <2>6 DEF fence_action_decide, Verified
<1>5. CASE async_set_multi_power_fn
  <2>1. /\ pc = "set" /\ pc' \in {"set", "poll"} /\ power' = power
        /\ pc' = "poll" => plug' = 1
        /\ UNCHANGED <<opt, action, status, success, result>>
      BY <1>5 DEF async_set_multi_power_fn, CommandSent
  <2>2. pc' = "poll" => \A q \in Plugs : ~(q < plug')
      BY <2>1 DEF Plugs
  <2> QED BY <2>1, <2>2, CommandsKept
          DEF DeviceInv, Verified, Cycle, Succeeded, OnPortion, Dark
<1>6. CASE sync_set_multi_power_fn
  <2>0. pc = "sync" /\ action \in {"on", "off"} /\ (~OnPortion => action = "off")
      BY <1>6 DEF sync_set_multi_power_fn, IInv, Control, Verified, OnPortion
  <2>1. PICK ok \in BOOLEAN :
          /\ LoopTail(ok, Attempts(action), SetReturned(success /\ ok))
          /\ power' = IF ok THEN [power EXCEPT ![plug] = action] ELSE power
      BY <1>6 DEF sync_set_multi_power_fn
  <2>2. success /\ ok /\ ~OnPortion => \A q \in Plugs : q < plug + 1 => power'[q] = "off"
      BY <2>0, <2>1, <1>p DEF DeviceInv, IInv, TypeOK
  <2>3. ~OnPortion /\ success => \A q \in Plugs : q < plug => power'[q] = "off"
      BY <2>0, <2>1 DEF DeviceInv, IInv, TypeOK
  <2>4. CASE ~ok /\ attempt < Attempts(action)
    <3>1. UNCHANGED <<opt, pc, action, plug, polls, acc, status, success, result>>
        BY <2>1, <2>4 DEF LoopTail
    <3> QED BY <3>1, <2>0, <2>3, CommandsKept
            DEF DeviceInv, Verified, Cycle, Succeeded, OnPortion, Dark
  <2>5. CASE ~(~ok /\ attempt < Attempts(action)) /\ plug < NPlugs
    <3>1. /\ plug' = plug + 1 /\ success' = (success /\ ok)
          /\ UNCHANGED <<opt, pc, action, polls, acc, status, result>>
        BY <2>1, <2>5 DEF LoopTail
    <3>2. success' => success /\ ok
        BY <3>1
    <3> QED BY <3>1, <3>2, <2>0, <2>2, CommandsKept
            DEF DeviceInv, Verified, Cycle, Succeeded, OnPortion, Dark
  <2>6. CASE ~(~ok /\ attempt < Attempts(action)) /\ ~(plug < NPlugs)
    <3>1. SetReturned(success /\ ok) /\ (success /\ ok) \in BOOLEAN
        BY <2>1, <2>6 DEF LoopTail, IInv, TypeOK
    <3>2. (success /\ ok) /\ ~OnPortion => Dark(power')
        BY <2>2, <2>6, <1>l DEF Dark
    <3> HIDE <2>1
    <3> QED BY <3>1, <3>2, <2>0, DeviceReturned
  <2> QED BY <2>4, <2>5, <2>6
<1>7. CASE multi_reboot_cycle_fn
    BY <1>7 DEF multi_reboot_cycle_fn, IInv, Control, Verified
<1>8. CASE callback_raises \/ callback_fails
  <2>1. power' = power /\ pc' = "done" /\ opt' = opt
      BY <1>8 DEF callback_raises, callback_fails, HalfDone, Exit
  <2>2. OnPortion => allOff
      BY DEF DeviceInv
  <2>3. CASE OnPortion
      BY <1>8, <2>1, <2>2, <2>3, DeviceExit
      DEF callback_raises, callback_fails, Exit, OnPortion
  <2>4. CASE ~OnPortion
      BY <1>8, <2>1, <2>4, DeviceExit
      DEF callback_raises, callback_fails, Exit, OnPortion
  <2> QED BY <2>3, <2>4
<1> QED BY <1>1, <1>2, <1>3, <1>4, <1>5, <1>6, <1>7, <1>8 DEF Agent

\* Every step keeps the device invariant.
LEMMA DeviceStep == IInv /\ DeviceInv /\ [Next]_vars => DeviceInv'
<1> SUFFICES ASSUME IInv, DeviceInv, [Next]_vars PROVE DeviceInv'
    OBVIOUS
<1>1. CASE Agent /\ allOff' = (allOff \/ Dark(power'))
  <2>1. opt' = opt
      BY <1>1, AgentEvidence
  <2>2. CASE Verified
      BY <1>1, <2>2, DeviceAgent
  <2>3. CASE ~Verified
      BY <2>1, <2>3 DEF DeviceInv, Verified, Cycle
  <2> QED BY <2>2, <2>3
<1>2. CASE Environment /\ allOff' = (allOff \/ Dark(power'))
  <2>1. UNCHANGED agentVars
      BY <1>2 DEF Environment, DeviceActs, DeviceCycles, Interfere
  <2>2. CASE ~Verified
      BY <2>1, <2>2 DEF DeviceInv, Verified, Cycle, agentVars
  <2>3. CASE Verified
    <3>1. PICK p \in Plugs :
            /\ cmd[p] # "none" /\ cmd' = [cmd EXCEPT ![p] = "none"]
            /\ power' = [power EXCEPT ![p] = IF cmd[p] = "cycle" THEN "on" ELSE cmd[p]]
        BY <1>2, <2>3 DEF Environment, DeviceActs, DeviceCycles, Interfere, Verified
    <3>2. cmd[p] # "off" => allOff
        BY <2>3, <3>1 DEF DeviceInv
    <3>3. \A q \in Plugs : cmd'[q] \in {cmd[q], "none"}
        BY <3>1 DEF IInv, TypeOK
    <3>4. cmd[p] = "off" => \A q \in Plugs : power[q] = "off" => power'[q] = "off"
        BY <3>1 DEF IInv, TypeOK
    <3>5. cmd[p] # "off" => ~(action # "on" /\ ~Succeeded) /\ opt.action # "off"
        BY <2>3, <3>1 DEF DeviceInv
    <3>6. action = "on" => OnPortion \/ pc = "done"
        BY <2>3 DEF IInv, Control, Verified, OnPortion, TypeOK, Callbacks
    <3>7. pc \notin {"start", "list", "status", "decide"}
        BY <2>3, <3>1 DEF DeviceInv
    <3>8. Verified' /\ (Succeeded' <=> Succeeded) /\ (OnPortion' <=> OnPortion)
        BY <2>1, <2>3 DEF agentVars, Verified, Cycle, Succeeded, OnPortion
    <3>9. CASE cmd[p] = "off"
        BY <1>2, <2>1, <2>3, <3>3, <3>4, <3>7, <3>8, <3>9 DEF DeviceInv, agentVars, Dark
    <3>10. CASE cmd[p] # "off"
        BY <1>2, <2>1, <2>3, <3>2, <3>3, <3>5, <3>6, <3>7, <3>8, <3>10
        DEF DeviceInv, agentVars, Dark, Succeeded
    <3> QED BY <3>9, <3>10
  <2> QED BY <2>2, <2>3
<1>3. CASE UNCHANGED vars
    BY <1>3 DEF vars, agentVars, deviceVars, DeviceInv, Verified, Cycle, Succeeded,
         OnPortion, Dark
<1> QED BY <1>1, <1>2, <1>3 DEF Next, Finished

\* A reported off, or the off portion of a reported reboot, means that all plugs
\* were off at one instant, for any number of plugs, retries and timeouts.
THEOREM FencedTogetherHolds == Spec => []FencedTogether
<1>1. IInv /\ DeviceInv => FencedTogether
    BY DEF DeviceInv, Verified, FencedTogether
<1> QED BY InitIInv, IInvStep, DeviceStep, <1>1, PTL DEF Spec

\* A node reported off stays off, whatever command is carried out late.
THEOREM StaysOffHolds == Spec => []StaysOff
<1>1. IInv /\ DeviceInv => StaysOff
    BY DEF DeviceInv, Verified, StaysOff, Cycle
<1> QED BY InitIInv, IInvStep, DeviceStep, <1>1, PTL DEF Spec

\* No plug is switched on before all of them have been off together.
THEOREM OnOnlyAfterDarkHolds == Spec => OnOnlyAfterDark
<1> DEFINE A == \A p \in Plugs :
         /\ opt.action \in {"off", "reboot"} /\ ~Cycle /\ ~Interference
         /\ power[p] = "off" /\ power'[p] = "on"
         => opt.action = "reboot" /\ allOff
<1>1. IInv /\ DeviceInv /\ [Next]_vars => [A]_vars
  <2> SUFFICES ASSUME IInv, DeviceInv, [Next]_vars, Verified, NEW p \in Plugs,
                      power[p] = "off", power'[p] = "on"
               PROVE  opt.action = "reboot" /\ allOff
      BY DEF Verified
  <2>1. CASE sync_set_multi_power_fn
      BY <2>1 DEF sync_set_multi_power_fn, IInv, Control, TypeOK, DeviceInv, OnPortion, Verified
  <2>2. CASE Environment
    <3>1. cmd[p] \in {"on", "cycle"}
        BY <2>2 DEF Environment, DeviceActs, DeviceCycles, Interfere, Verified, IInv, TypeOK
    <3> QED BY <3>1 DEF DeviceInv, Verified
  <2>3. CASE ~sync_set_multi_power_fn /\ ~Environment
      BY <2>3 DEF Next, Agent, Finished, fence_action_start, list_outlets, get_multi_power_fn, ReadPlug,
           fence_action_decide, async_set_multi_power_fn, CommandSent, multi_reboot_cycle_fn,
           callback_raises, callback_fails, HalfDone, deviceVars, vars
  <2> QED BY <2>1, <2>2, <2>3
<1> QED BY InitIInv, IInvStep, DeviceStep, <1>1, PTL DEF Spec, OnOnlyAfterDark

\* A process that is over in the on portion of a reboot was left by a callback.
QuitInv == pc = "done" /\ OnPortion => quit

\* Every exit from the on portion but that by fail() gives the code 0 and turns
\* --action back into reboot; no exit before it has --action on in a reboot.
LEMMA QuitStep ==
    ASSUME IInv, QuitInv, [Next]_vars, pc' = "done", ~quit'
    PROVE  /\ ~OnPortion'
           /\ OnPortion => result' = 0
<1> DEFINE Goal == ~OnPortion' /\ (OnPortion => result' = 0)
<1>1. pc \in {"set", "poll", "sync"} => opt.action # "reboot" \/ action \in {"on", "off"}
    BY DEF IInv, Control
<1>2. ASSUME NEW ok \in BOOLEAN, SetReturned(ok), pc \in {"set", "poll", "sync"} PROVE Goal
    BY <1>1, <1>2 DEF SetReturned, StartOnPortion, BeginSet, Exit, OnPortion
<1>3. CASE get_multi_power_fn
  <2>1. PICK s : \/ pc = "poll" /\ Polled(s)
                 \/ pc = "status" /\ StatusKnown(s)
                 \/ pc \in {"status", "poll"} /\ pc' = pc
      BY <1>3 DEF get_multi_power_fn, ReadPlug
  <2>2. CASE pc = "poll" /\ Polled(s)
      BY <1>2, <2>2 DEF Polled
  <2>3. CASE pc = "status" /\ StatusKnown(s)
      BY <2>3 DEF StatusKnown, Exit, OnPortion, IInv, Control
  <2> QED BY <2>1, <2>2, <2>3
<1>4. CASE sync_set_multi_power_fn
  <2>1. PICK ok \in BOOLEAN : LoopTail(ok, Attempts(action), SetReturned(success /\ ok))
      BY <1>4 DEF sync_set_multi_power_fn
  <2>2. (success /\ ok) \in BOOLEAN /\ pc = "sync"
      BY <1>4 DEF sync_set_multi_power_fn
  <2> QED BY <1>2, <2>1, <2>2 DEF LoopTail
<1>5. CASE callback_raises
    BY <1>5 DEF callback_raises, Exit, OnPortion
<1>6. CASE fence_action_decide
    BY <1>6 DEF fence_action_decide, CallSet, StartOnPortion, BeginSet, Exit, OnPortion, IInv, Control
<1>7. CASE multi_reboot_cycle_fn
    BY <1>7 DEF multi_reboot_cycle_fn, LoopTail, CycleReturned, Exit, OnPortion, IInv, Control
<1>8. CASE fence_action_start \/ list_outlets \/ async_set_multi_power_fn
    BY <1>8 DEF fence_action_start, list_outlets, async_set_multi_power_fn, CommandSent, Exit,
                OnPortion, IInv, Control
<1>9. CASE Environment \/ UNCHANGED vars
    BY <1>9 DEF Environment, DeviceActs, DeviceCycles, Interfere, agentVars, vars, QuitInv, OnPortion
<1>10. ~callback_fails
    BY DEF callback_fails
<1> QED BY <1>3, <1>4, <1>5, <1>6, <1>7, <1>8, <1>9, <1>10 DEF Next, Agent, Finished

\* In the on portion of a reboot nothing but fail() or fail_usage() in a callback
\* ends the agent with another code than 0: neither a power timeout, nor a refused
\* command, nor an exception.  quit tells these exits apart.
THEOREM FencedIsReportedHolds == Spec => FencedIsReported
<1> DEFINE A == OnPortion /\ pc' = "done" /\ ~quit' => result' = 0
<1>1. IInv /\ QuitInv /\ [Next]_vars => [A]_vars /\ QuitInv'
    BY QuitStep DEF QuitInv
<1>2. Init => QuitInv
    BY DEF Init, QuitInv
<1> QED BY InitIInv, IInvStep, <1>1, <1>2, PTL DEF Spec, FencedIsReported
=============================================================================
