------------------------- MODULE StorageFenceProofs -------------------------
(***************************************************************************)
(* Proofs about StorageFence for any number of nodes and devices, both     *)
(* agents, any mix of "on" and "off", and failures of any node.            *)
(***************************************************************************)
EXTENDS StorageFence, TLAPS

\* The program points of register_dev, of set_status "on" and "off", and of the
\* second loop of set_status "off".
RegisterPcs == {"reg_read", "register", "preempt_self", "resv_read", "reg_again"}
OnPcs       == {"on_read", "on_res", "reserve", "on_res2"}
OffPcs      == {"victim", "preempt"}
VerifyPcs   == {"verify", "verify_res"}
SetPcs      == RegisterPcs \cup OnPcs \cup OffPcs \cup VerifyPcs
PollPcs     == {"status", "poll"}

HistoryType ==
    /\ unfenced \in [Nodes -> BOOLEAN] /\ reported \in [Nodes -> BOOLEAN]
    /\ clean \in [Nodes -> BOOLEAN] /\ targeted \in [Nodes -> BOOLEAN]
    /\ hurt \in [Nodes -> BOOLEAN]

\* Which program points go with which action and agent, and how far the count
\* of failed devices can be.
Control(n, p) ==
    /\ p.act = "none" => p = Idle
    /\ p.pc = "idle" => p.act = "none"
    /\ p.act = "on" => p.target = n /\ p.pc \notin OffPcs \cup VerifyPcs
    /\ p.act = "off" => p.target \in Nodes \ {n} /\ p.pc \notin OnPcs
    /\ agent = "mpath" => ~p.existed /\ p.pc \notin RegisterPcs \ {"register"}
    /\ agent = "mpath" /\ p.act = "off" => p.pc # "register"
    /\ p.pc \in SetPcs => p.count < p.dev
    /\ p.act = "off" /\ p.pc \in RegisterPcs \cup OffPcs => p.count = 0

\* Where a reservation is known to exist; it is never given up.
AllReserved == \A d \in Devs : res[d] # None

Reserved(n, p) ==
    /\ unfenced[n] \/ p.act = "off" \/ reported[n] => AllReserved
    /\ p.act = "on" /\ p.pc \in SetPcs /\ p.count = 0 =>
          \A d \in Devs : d < p.dev => res[d] # None
    /\ p.act = "on" /\ p.pc = "poll" => AllReserved

\* No process registers the key of a node that is marked clean.
Clean(n, p) ==
    /\ clean[n] => ~Registers(p.act)
    /\ p.act = "off" /\ p.clean => ~Registers(proc[p.target].act)

\* What get_status has found of the target, and what is out of reach for it.
Absent(n, p) ==
    /\ p.act = "off" /\ p.clean /\ p.pc \in PollPcs /\ p.status = "off" =>
          \A d \in Devs : d < p.dev => p.target \notin reg[d]
    /\ reported[n] /\ clean[n] => \A d \in Devs : n \notin reg[d]

\* Nobody has tried to fence the node, and none of its commands has failed.
Undisturbed(n) == ~targeted[n] /\ ~hurt[n]

\* Where such a node is registered, in spite of the preempt of its own key.
Access(n, p) ==
    /\ p.act = "off" => targeted[p.target] /\ unfenced[n]
    /\ Undisturbed(n) =>
       /\ p.pc \in {"preempt_self"} \cup OnPcs => n \in reg[p.dev]
       /\ p.pc = "resv_read" => n \in reg[p.dev] \/ res[p.dev] # n
       /\ unfenced[n] => \A d \in Devs :
             d # p.dev \/ p.pc \notin {"resv_read", "reg_again"} => n \in reg[d]
       /\ p.act = "on" /\ p.pc \in SetPcs /\ p.count = 0 =>
             \A d \in Devs : d < p.dev => n \in reg[d]
       /\ p.act = "on" /\ p.pc = "poll" => \A d \in Devs : n \in reg[d]

ControlInv  == \A n \in Nodes : Control(n, proc[n])
ReservedInv == \A n \in Nodes : Reserved(n, proc[n])
CleanInv    == \A n \in Nodes : Clean(n, proc[n])
AbsentInv   == \A n \in Nodes : Absent(n, proc[n])
AccessInv   == \A n \in Nodes : Access(n, proc[n])

TypeInv == TypeOK /\ HistoryType /\ ControlInv
IInv    == TypeInv /\ ReservedInv /\ CleanInv /\ AbsentInv /\ AccessInv

\* The records of the processes.
Process ==
    [act : {"none", "on", "off"}, target : Nodes \cup {None},
     pc : {"idle"} \cup SetPcs \cup PollPcs,
     dev : Devs, existed : BOOLEAN, count : 0 .. NDevs, status : {"on", "off"},
     clean : BOOLEAN]

\* The process of node n becomes q, the others go on as they are.
Becomes(n, q) == proc' = [proc EXCEPT ![n] = q]

----------------------------------------------------------------------------
(* How the process of a node moves.                                        *)

\* The type of proc in TypeOK is the set of functions to Process.
LEMMA ProcessType ==
    ASSUME TypeOK
    PROVE  proc \in [Nodes -> Process]
BY DEF TypeOK, Process, SetPcs, PollPcs, RegisterPcs, OnPcs, OffPcs, VerifyPcs

\* A change of one field of a process to a value of its type.
LEMMA FieldType ==
    ASSUME NEW p \in Process
    PROVE  /\ \A v \in {"idle"} \cup SetPcs \cup PollPcs : [p EXCEPT !.pc = v] \in Process
           /\ \A v \in {"none", "on", "off"} : [p EXCEPT !.act = v] \in Process
           /\ \A v \in Nodes : [p EXCEPT !.target = v] \in Process
           /\ \A v \in Devs : [p EXCEPT !.dev = v] \in Process
           /\ \A v \in 0 .. NDevs : [p EXCEPT !.count = v] \in Process
           /\ \A v \in {"on", "off"} : [p EXCEPT !.status = v] \in Process
           /\ \A v \in BOOLEAN : [p EXCEPT !.existed = v] \in Process
           /\ \A v \in BOOLEAN : [p EXCEPT !.clean = v] \in Process
BY DEF Process

\* The fields that only the start of a process sets.
Same(p, q) == q.act = p.act /\ q.target = p.target /\ q.clean = p.clean

\* A move to another program point.
Jump(p, q, pc) ==
    /\ Same(p, q) /\ q.pc = pc
    /\ q.dev = p.dev /\ q.count = p.count /\ q.status = p.status /\ q.existed = p.existed

\* The next device of a loop of set_status, with a count of failed devices.
Advance(p, q, pc, count) ==
    /\ Same(p, q) /\ q.pc = pc /\ p.dev < NDevs
    /\ q.dev = p.dev + 1 /\ q.count = count /\ q.existed = p.existed

\* The first device of a loop.
Rewind(p, q, pc, count) ==
    /\ Same(p, q) /\ q.pc = pc
    /\ q.dev = 1 /\ q.count = count /\ q.existed = p.existed

LEMMA IdleType == Idle \in Process
BY StorageFenceAssumption DEF Idle, Process, Devs

LEMMA GotoMove ==
    ASSUME TypeOK, NEW n \in Nodes, NEW pc \in SetPcs, Goto(n, pc)
    PROVE  \E q \in Process : Becomes(n, q) /\ Jump(proc[n], q, pc)
<1> DEFINE q == [proc[n] EXCEPT !.pc = pc]
<1>0. proc \in [Nodes -> Process]
    BY ProcessType
<1>1. q \in Process
    BY <1>0, FieldType
<1>2. Becomes(n, q)
    BY <1>0 DEF Becomes, Goto
<1>3. Jump(proc[n], q, pc)
    BY <1>0 DEF Process, Jump, Same
<1> QED BY <1>1, <1>2, <1>3

\* fence_action reads the status again.
LEMMA PollMove ==
    ASSUME TypeOK, NEW n \in Nodes, PollAgain(n)
    PROVE  \E q \in Process :
              /\ Becomes(n, q) /\ Rewind(proc[n], q, "poll", proc[n].count)
              /\ q.status = "off"
<1> DEFINE q == [proc[n] EXCEPT !.dev = 1, !.pc = "poll", !.status = "off"]
<1>0. proc \in [Nodes -> Process] /\ 1 \in Devs /\ "poll" \in PollPcs
    BY ProcessType, StorageFenceAssumption DEF Devs, PollPcs
<1>1. q \in Process
    BY <1>0, FieldType
<1>2. Becomes(n, q)
    BY <1>0 DEF Becomes, PollAgain
<1>3. Rewind(proc[n], q, "poll", proc[n].count) /\ q.status = "off"
    BY <1>0 DEF Process, Rewind, Same
<1> QED BY <1>1, <1>2, <1>3

\* The program point at which a loop of set_status takes up the next device.
LoopPc(p) == IF p.pc \in VerifyPcs THEN "verify" ELSE SetStatus(p.act)

\* The end of the work on one device in set_status: the next device, the second
\* loop, the report of a failure, or the polling when no device has failed.
LEMMA NextDevMove ==
    ASSUME TypeOK, NEW n \in Nodes, NEW counted \in {0, 1}, NextDev(n, counted),
           Control(n, proc[n]), proc[n].pc \in SetPcs
    PROVE  \/ \E q \in Process :
                 /\ Becomes(n, q) /\ UNCHANGED history
                 /\ \/ Advance(proc[n], q, LoopPc(proc[n]), proc[n].count + counted)
                    \/ /\ proc[n].pc \in OffPcs /\ Rewind(proc[n], q, "verify", proc[n].count)
                    \/ /\ proc[n].pc \notin OffPcs /\ proc[n].dev = NDevs
                       /\ proc[n].count = 0 /\ counted = 0
                       /\ Rewind(proc[n], q, "poll", 0) /\ q.status = "off"
           \/ Exit(n, 1)
<1> DEFINE p == proc[n]
           count == p.count + counted
           pc == IF p.pc \in {"verify", "verify_res"} THEN "verify" ELSE SetStatus(p.act)
<1>0. /\ proc \in [Nodes -> Process] /\ p \in Process /\ 1 \in Devs /\ NDevs \in Nat
      /\ count \in 0 .. NDevs /\ p.dev \in 1 .. NDevs
    BY ProcessType, StorageFenceAssumption DEF Devs, Process, Control
<1>1. CASE p.dev < NDevs
  <2> DEFINE q == [p EXCEPT !.dev = @ + 1, !.count = count, !.pc = pc]
  <2>1. pc \in SetPcs /\ pc = LoopPc(p) /\ p.dev + 1 \in Devs
      BY <1>0, <1>1 DEF SetStatus, SetPcs, RegisterPcs, OffPcs, VerifyPcs, LoopPc, Devs
  <2>2. q \in Process
    <3> HIDE DEF p, count, pc
    <3>1. [p EXCEPT !.dev = p.dev + 1] \in Process
        BY <1>0, <2>1, FieldType
    <3> QED BY <1>0, <2>1, <3>1, FieldType
  <2>3. /\ proc' = [proc EXCEPT ![n].dev = p.dev + 1, ![n].count = count, ![n].pc = pc]
        /\ UNCHANGED history
      BY <1>0, <1>1 DEF NextDev
  <2>5. Becomes(n, q)
    <3> HIDE DEF count, pc
    <3> QED BY <1>0, <2>3 DEF Becomes
  <2>4. Advance(p, q, LoopPc(p), count)
      BY <1>0, <1>1, <2>1 DEF Process, Advance, Same
  <2> QED BY <2>2, <2>3, <2>4, <2>5
<1>2. CASE p.dev = NDevs /\ p.pc \in OffPcs
  <2> DEFINE q == [p EXCEPT !.dev = 1, !.pc = "verify"]
  <2>1. q \in Process
      BY <1>0, FieldType DEF SetPcs, VerifyPcs
  <2>2. proc' = [proc EXCEPT ![n].dev = 1, ![n].pc = "verify"] /\ UNCHANGED history
      BY <1>0, <1>2 DEF NextDev, OffPcs
  <2>4. Becomes(n, q)
      BY <1>0, <2>2 DEF Becomes
  <2>3. Rewind(p, q, "verify", p.count)
      BY <1>0 DEF Process, Rewind, Same
  <2> QED BY <1>2, <2>1, <2>2, <2>3, <2>4
<1>3. CASE p.dev = NDevs /\ p.pc \notin OffPcs /\ count = 0
  <2>1. PollAgain(n) /\ UNCHANGED history
      BY <1>0, <1>3 DEF NextDev, OffPcs
  <2>2. p.count = 0 /\ counted = 0
      BY <1>0, <1>3 DEF Process
  <2> QED BY <1>3, <2>1, <2>2, PollMove
<1>4. CASE p.dev = NDevs /\ p.pc \notin OffPcs /\ count # 0
    BY <1>0, <1>4 DEF NextDev, OffPcs
<1> QED BY <1>0, <1>1, <1>2, <1>3, <1>4

\* A process that ends with code 1 leaves no report.
LEMMA ExitFailure ==
    ASSUME NEW n \in Nodes, Exit(n, 1)
    PROVE  Becomes(n, Idle) /\ UNCHANGED history
BY DEF Exit, Becomes, history

\* The target of an "off" has not been found on this device or an earlier one.
NotFound(p) == p.status = "off" /\ p.target \notin reg[p.dev]

\* The next device of get_status, which remembers a key that it has found.
StatusMove(p, q) ==
    /\ Same(p, q) /\ q.pc = p.pc /\ p.dev < NDevs
    /\ q.dev = p.dev + 1 /\ q.count = p.count /\ q.existed = p.existed
    /\ p.act = "off" /\ q.status = "off" => NotFound(p)

\* The process ends with code 0: the key of an "off" was found on no device.
Report(n) ==
    /\ Exit(n, 0) /\ proc[n].pc \in PollPcs
    /\ proc[n].pc = "poll" \/ proc[n].act = "off"
    /\ proc[n].act = "off" => proc[n].dev = NDevs /\ NotFound(proc[n])

\* get_status: the next device, the report, another poll, set_status, or the
\* end of the polling.
LEMMA GetStatusMove ==
    ASSUME TypeOK, NEW n \in Nodes, Control(n, proc[n]), get_status(n)
    PROVE  /\ proc[n].pc \in PollPcs
           /\ \/ \E q \in Process :
                    /\ Becomes(n, q) /\ UNCHANGED history
                    /\ \/ StatusMove(proc[n], q)
                       \/ /\ proc[n].pc = "poll" /\ q.status = "off"
                          /\ Rewind(proc[n], q, "poll", proc[n].count)
                       \/ Rewind(proc[n], q, SetStatus(proc[n].act), 0)
              \/ Report(n) \/ Exit(n, 1)
<1> DEFINE p == proc[n]
           present == p.target \in reg[p.dev]
           s == IF agent = "scsi" THEN scsi_get_status(p, present)
                                  ELSE mpath_get_status(p, present)
           st == s.status
<1>0. /\ proc \in [Nodes -> Process] /\ p \in Process /\ 1 \in Devs /\ NDevs \in Nat
      /\ p.dev \in 1 .. NDevs
    BY ProcessType, StorageFenceAssumption DEF Devs, Process
<1>1. /\ st \in {"on", "off"}
      /\ p.act = "off" /\ st = "off" => NotFound(p)
      /\ p.act = "off" => ~s.stop
    BY <1>0 DEF scsi_get_status, mpath_get_status, NotFound, Process
<1>2. p.pc \in PollPcs
    BY DEF get_status, PollPcs
<1>3. CASE p.dev < NDevs /\ ~s.stop
  <2> DEFINE q == [p EXCEPT !.dev = p.dev + 1, !.status = st]
  <2>1. proc' = [proc EXCEPT ![n].dev = p.dev + 1, ![n].status = st] /\ UNCHANGED history
      BY <1>3 DEF get_status
  <2>2. p.dev + 1 \in Devs
      BY <1>0, <1>3 DEF Devs
  <2> HIDE DEF s
  <2>3. q \in Process
      BY <1>0, <1>1, <2>2, FieldType
  <2>4. Becomes(n, q)
      BY <1>0, <2>1 DEF Becomes
  <2>5. StatusMove(p, q)
      BY <1>0, <1>1, <1>3 DEF Process, StatusMove, Same
  <2> QED BY <1>2, <2>1, <2>3, <2>4, <2>5
<1>4. CASE ~(p.dev < NDevs /\ ~s.stop)
  <2>1. \/ Exit(n, 0) /\ st = p.act /\ (p.pc = "poll" \/ p.act = "off")
        \/ p.pc = "poll" /\ PollAgain(n) /\ UNCHANGED history
        \/ /\ proc' = [proc EXCEPT ![n] = [@ EXCEPT !.dev = 1, !.count = 0,
                                                    !.pc = SetStatus(p.act)]]
           /\ UNCHANGED history
        \/ Exit(n, 1)
      BY <1>4 DEF get_status
  <2>2. CASE Exit(n, 0) /\ st = p.act /\ (p.pc = "poll" \/ p.act = "off")
      BY <1>0, <1>1, <1>2, <1>4, <2>2 DEF Report
  <2>3. CASE p.pc = "poll" /\ PollAgain(n) /\ UNCHANGED history
      BY <1>2, <2>3, PollMove
  <2>4. CASE /\ proc' = [proc EXCEPT ![n] = [@ EXCEPT !.dev = 1, !.count = 0,
                                                      !.pc = SetStatus(p.act)]]
             /\ UNCHANGED history
    <3> DEFINE pc == SetStatus(p.act)
               q == [p EXCEPT !.dev = 1, !.count = 0, !.pc = pc]
    <3>1. pc \in SetPcs
        BY DEF SetStatus, SetPcs, RegisterPcs, OffPcs
    <3>2. Becomes(n, q)
        BY <1>0, <2>4 DEF Becomes
    <3> HIDE DEF pc
    <3>4. q \in Process
      <4> HIDE DEF p
      <4>1. 0 \in 0 .. NDevs
          BY <1>0
      <4>2. [p EXCEPT !.dev = 1] \in Process
          BY <1>0, FieldType
      <4> QED BY <4>1, <4>2, <3>1, FieldType
    <3>5. Rewind(p, q, pc, 0)
        BY <1>0 DEF Process, Rewind, Same
    <3> QED BY <1>2, <2>4, <3>2, <3>4, <3>5 DEF pc
  <2> QED BY <1>2, <2>1, <2>2, <2>3, <2>4
<1> QED BY <1>3, <1>4

----------------------------------------------------------------------------
(* A step of one node: what it may do to the devices, and what remains to  *)
(* be shown of the process that takes it.                                  *)

\* No reservation is given up; only a process that registers adds a key, its
\* own; only the target of an "off" loses a key to another node; and nobody
\* gets a reservation from another node.
DeviceStep(n) ==
    /\ reg' \in [Devs -> SUBSET Nodes] /\ res' \in [Devs -> Nodes \cup {None}]
    /\ \A d \in Devs :
          /\ res[d] # None => res'[d] # None
          /\ \A m \in Nodes : m \in reg'[d] => m \in reg[d] \/ (m = n /\ Registers(proc[n].act))
          /\ \A m \in Nodes \ {n} : m \in reg[d] /\ m \notin reg'[d] => targeted[m]
          /\ \A m \in Nodes \ {n} : res'[d] = m => res[d] = m

\* The invariants of the process q of node n after the step.
OwnReserved(n, q) ==
    /\ q.act = "on" /\ q.pc \in SetPcs /\ q.count = 0 =>
          \A d \in Devs : d < q.dev => res'[d] # None
    /\ q.act = "on" /\ q.pc = "poll" => \A d \in Devs : res'[d] # None

OwnAbsent(n, q) ==
    q.act = "off" /\ q.clean /\ q.pc \in PollPcs /\ q.status = "off" =>
        \A d \in Devs : d < q.dev => q.target \notin reg'[d]

OwnAccess(n, q) == Undisturbed(n) /\ ~hurt'[n] =>
    /\ q.pc \in {"preempt_self"} \cup OnPcs => n \in reg'[q.dev]
    /\ q.pc = "resv_read" => n \in reg'[q.dev] \/ res'[q.dev] # n
    /\ unfenced[n] => \A d \in Devs :
          d # q.dev \/ q.pc \notin {"resv_read", "reg_again"} => n \in reg'[d]
    /\ q.act = "on" /\ q.pc \in SetPcs /\ q.count = 0 =>
          \A d \in Devs : d < q.dev => n \in reg'[d]
    /\ q.act = "on" /\ q.pc = "poll" => \A d \in Devs : n \in reg'[d]

Own(n, q) == Control(n, q) /\ OwnReserved(n, q) /\ OwnAbsent(n, q) /\ OwnAccess(n, q)

\* A step of the process of node n without a report.
Step(n, q) ==
    /\ Becomes(n, q) /\ (q = Idle \/ Same(proc[n], q))
    /\ agent' = agent /\ UNCHANGED <<unfenced, reported, clean, targeted>>
    /\ hurt' \in {hurt, [hurt EXCEPT ![n] = TRUE]}
    /\ DeviceStep(n) /\ Own(n, q)

\* What becomes of the processes.
LEMMA Moved ==
    ASSUME TypeInv, NEW n \in Nodes, NEW q \in Process, Becomes(n, q)
    PROVE  /\ proc' \in [Nodes -> Process] /\ proc'[n] = q
           /\ \A m \in Nodes \ {n} : proc'[m] = proc[m]
BY ProcessType DEF TypeInv, Becomes

\* Such a step keeps the invariants of all nodes.
LEMMA StepKeeps ==
    ASSUME IInv, NEW n \in Nodes, NEW q \in Process, Step(n, q)
    PROVE  /\ HistoryType' /\ ControlInv' /\ ReservedInv' /\ CleanInv' /\ AbsentInv'
           /\ AccessInv'
<1>0. /\ proc \in [Nodes -> Process] /\ proc' \in [Nodes -> Process] /\ proc'[n] = q
      /\ \A m \in Nodes \ {n} : proc'[m] = proc[m]
    BY Moved, ProcessType DEF Step, IInv, TypeInv
<1>1. HistoryType' /\ \A m \in Nodes \ {n} : hurt'[m] = hurt[m]
    BY DEF Step, IInv, TypeInv, HistoryType
<1>2. ControlInv'
    BY <1>0 DEF Step, Own, IInv, TypeInv, ControlInv, Control
<1>3. ReservedInv'
  <2> SUFFICES ASSUME NEW m \in Nodes PROVE Reserved(m, proc[m])'
      BY DEF ReservedInv
  <2>1. Reserved(m, proc[m]) /\ (q.act = "off" => AllReserved)
      BY DEF IInv, ReservedInv, Step, Same, Reserved, Idle
  <2>2. AllReserved => AllReserved'
      BY DEF AllReserved, Step, DeviceStep
  <2>3. CASE m = n
      BY <1>0, <2>1, <2>2, <2>3 DEF Reserved, Step, Own, OwnReserved, AllReserved
  <2>4. CASE m # n
      BY <1>0, <2>1, <2>2, <2>4 DEF Reserved, Step, DeviceStep
  <2> QED BY <2>3, <2>4
<1>4. CleanInv'
  <2>1. \A m \in Nodes : Registers(proc[m].act)' => Registers(proc[m].act)
      BY <1>0 DEF Step, Registers, Same, Idle
  <2> SUFFICES ASSUME NEW m \in Nodes PROVE Clean(m, proc[m])'
      BY DEF CleanInv
  <2>2. Clean(m, proc[m]) /\ Control(m, proc[m])
      BY DEF IInv, CleanInv, TypeInv, ControlInv
  <2>3. CASE m = n /\ q = Idle
      BY <1>0, <2>3 DEF Clean, Idle, Registers
  <2>4. CASE m = n /\ Same(proc[n], q)
      BY <1>0, <2>1, <2>2, <2>4 DEF Clean, Same, Step, Control
  <2>5. CASE m # n
      BY <1>0, <2>1, <2>2, <2>5 DEF Clean, Step, Control
  <2> QED BY <2>3, <2>4, <2>5 DEF Step
<1>5. AbsentInv'
  <2> SUFFICES ASSUME NEW m \in Nodes PROVE Absent(m, proc[m])'
      BY DEF AbsentInv
  <2>1. /\ Clean(m, proc[m]) /\ Absent(m, proc[m]) /\ Control(m, proc[m])
        /\ DeviceStep(n)
      BY DEF IInv, CleanInv, AbsentInv, TypeInv, ControlInv, Step
  <2>2. reported[m] /\ clean[m] => \A d \in Devs : m \notin reg'[d]
      BY <2>1 DEF DeviceStep, Clean, Absent
  <2>3. CASE m = n
      BY <1>0, <2>2, <2>3 DEF Absent, Step, Own, OwnAbsent
  <2>4. CASE m # n
    <3>1. ASSUME proc[m].act = "off", proc[m].clean, proc[m].pc \in PollPcs,
                 proc[m].status = "off", NEW d \in Devs, d < proc[m].dev
          PROVE  proc[m].target \notin reg'[d]
        BY <2>1, <3>1 DEF DeviceStep, Clean, Absent, Control
    <3> QED BY <1>0, <2>2, <2>4, <3>1 DEF Absent, Step
  <2> QED BY <2>3, <2>4
<1>6. AccessInv'
  <2> SUFFICES ASSUME NEW m \in Nodes PROVE Access(m, proc[m])'
      BY DEF AccessInv
  <2>1. Access(m, proc[m])
      BY DEF IInv, AccessInv
  <2>2. CASE m = n
    <3>1. q.act = "off" => targeted[q.target] /\ unfenced[n]
        BY <2>1, <2>2 DEF Access, Step, Same, Idle
    <3>2. Undisturbed(n)' => Undisturbed(n) /\ ~hurt'[n]
        BY DEF Step, Undisturbed, IInv, TypeInv, HistoryType
    <3> QED BY <1>0, <2>2, <3>1, <3>2 DEF Access, Step, Own, OwnAccess
  <2>3. CASE m # n
    <3>1. /\ \A d \in Devs : m \in reg[d] /\ ~targeted[m] => m \in reg'[d]
          /\ \A d \in Devs : res'[d] = m => res[d] = m
        BY <2>3 DEF Step, DeviceStep
    <3>2. Undisturbed(m)' <=> Undisturbed(m)
        BY <1>1, <2>3 DEF Undisturbed, Step
    <3>3. proc[m].dev \in Devs
        BY <1>0 DEF Process
    <3> QED BY <1>0, <2>1, <2>3, <3>1, <3>2, <3>3 DEF Access, Step, Undisturbed
  <2> QED BY <2>2, <2>3
<1> QED BY <1>1, <1>2, <1>3, <1>4, <1>5, <1>6

----------------------------------------------------------------------------
(* Each action of an agent is such a step.                                 *)

\* Facts about the process of a node that the proofs below start from.
LEMMA ProcFacts ==
    ASSUME IInv, NEW n \in Nodes
    PROVE  /\ TypeOK /\ HistoryType
           /\ proc \in [Nodes -> Process] /\ proc[n] \in Process
           /\ NDevs \in Nat \ {0} /\ proc[n].dev \in 1 .. NDevs /\ proc[n].dev \in Devs
           /\ proc[n].count \in 0 .. NDevs
           /\ agent \in {"scsi", "mpath"}
           /\ Control(n, proc[n]) /\ Reserved(n, proc[n]) /\ Clean(n, proc[n])
           /\ Absent(n, proc[n]) /\ Access(n, proc[n])
           /\ proc[n].pc # "idle" => proc[n].act \in {"on", "off"}
<1>1. TypeOK /\ HistoryType /\ proc \in [Nodes -> Process]
    BY ProcessType DEF IInv, TypeInv
<1>2. /\ proc[n] \in Process /\ proc[n].dev \in 1 .. NDevs /\ proc[n].count \in 0 .. NDevs
      /\ proc[n].act \in {"none", "on", "off"} /\ proc[n].dev \in Devs
    BY <1>1 DEF Process, Devs
<1>3. /\ Control(n, proc[n]) /\ Reserved(n, proc[n]) /\ Clean(n, proc[n])
      /\ Absent(n, proc[n]) /\ Access(n, proc[n])
    BY DEF IInv, TypeInv, ControlInv, ReservedInv, CleanInv, AbsentInv, AccessInv
<1>4. NDevs \in Nat \ {0} /\ agent \in {"scsi", "mpath"}
    BY <1>1, StorageFenceAssumption DEF TypeOK
<1>5. proc[n].pc # "idle" => proc[n].act \in {"on", "off"}
    BY <1>2, <1>3 DEF Control, Idle
<1> QED BY <1>1, <1>2, <1>3, <1>4, <1>5

\* A step that leaves the devices alone.
LEMMA NoDeviceStep ==
    ASSUME TypeOK, UNCHANGED deviceVars, NEW n \in Nodes
    PROVE  DeviceStep(n)
<1>1. reg' = reg /\ res' = res
    BY DEF deviceVars
<1>2. reg \in [Devs -> SUBSET Nodes] /\ res \in [Devs -> Nodes \cup {None}]
    BY DEF TypeOK
<1> QED BY <1>1, <1>2 DEF DeviceStep

\* The process ends, and its node has its registrations.
LEMMA IdleStep ==
    ASSUME IInv, NEW n \in Nodes, Becomes(n, Idle), agent' = agent,
           UNCHANGED <<unfenced, reported, clean, targeted>>,
           hurt' \in {hurt, [hurt EXCEPT ![n] = TRUE]}, DeviceStep(n),
           Undisturbed(n) /\ ~hurt'[n] /\ unfenced[n] => \A d \in Devs : n \in reg'[d]
    PROVE  Step(n, Idle)
<1>1. Idle.act = "none" /\ Idle.pc = "idle" /\ Idle.existed = FALSE
    BY DEF Idle
<1>2. "idle" \notin SetPcs \cup PollPcs \cup OnPcs
    BY DEF SetPcs, PollPcs, RegisterPcs, OnPcs, OffPcs, VerifyPcs
<1>3. Control(n, Idle)
    BY <1>1, <1>2 DEF Control, SetPcs
<1>4. OwnReserved(n, Idle) /\ OwnAbsent(n, Idle) /\ OwnAccess(n, Idle)
    BY <1>1, <1>2 DEF OwnReserved, OwnAbsent, OwnAccess
<1> QED BY <1>3, <1>4 DEF Step, Own

\* The process goes on within set_status, on the same device.
LEMMA JumpStep ==
    ASSUME IInv, NEW n \in Nodes, NEW q \in Process, Becomes(n, q), agent' = agent,
           UNCHANGED <<unfenced, reported, clean, targeted>>,
           hurt' \in {hurt, [hurt EXCEPT ![n] = TRUE]}, DeviceStep(n),
           Same(proc[n], q), q.dev = proc[n].dev, q.count = proc[n].count,
           proc[n].pc \in SetPcs, q.pc \in SetPcs, Control(n, q), OwnAccess(n, q)
    PROVE  Step(n, q)
<1>1. OwnReserved(n, q)
    BY ProcFacts DEF OwnReserved, Reserved, DeviceStep, Same, SetPcs, RegisterPcs, OnPcs,
                     OffPcs, VerifyPcs
<1>2. OwnAbsent(n, q)
    BY DEF OwnAbsent, PollPcs, SetPcs, RegisterPcs, OnPcs, OffPcs, VerifyPcs
<1> QED BY <1>1, <1>2 DEF Step, Own

\* The end of the work on a device, which is registered and reserved unless the
\* device is counted as failed.
LEMMA NextDevStep ==
    ASSUME IInv, NEW n \in Nodes, NEW counted \in {0, 1}, NextDev(n, counted),
           proc[n].pc \in OnPcs \cup OffPcs \cup VerifyPcs, agent' = agent, DeviceStep(n),
           proc[n].pc \in OffPcs => counted = 0,
           \A d \in Devs : n \in reg[d] => n \in reg'[d],
           proc[n].act = "on" /\ counted = 0 => res'[proc[n].dev] # None
    PROVE  \E q \in Process : Step(n, q)
<1> DEFINE p == proc[n]
<1>0. /\ TypeOK /\ p \in Process /\ p.dev \in 1 .. NDevs /\ p.count \in 0 .. NDevs
      /\ agent \in {"scsi", "mpath"} /\ Control(n, p) /\ Reserved(n, p) /\ Access(n, p)
      /\ p.act \in {"on", "off"} /\ NDevs \in Nat \ {0} /\ p.dev \in Devs
    BY ProcFacts DEF OnPcs, OffPcs, VerifyPcs
<1>a. /\ Undisturbed(n) /\ unfenced[n] => \A d \in Devs : n \in reg'[d]
      /\ Undisturbed(n) /\ p.act = "on" => n \in reg'[p.dev]
    BY <1>0 DEF Access, Control, OnPcs, OffPcs, VerifyPcs
<1>b. /\ p.pc \in SetPcs
      /\ p.act = "on" => p.pc \in OnPcs
      /\ p.act = "off" => p.pc \in OffPcs \cup VerifyPcs
    BY <1>0 DEF Control, SetPcs
<1>c. /\ p.act = "on" /\ p.count = 0 /\ counted = 0 =>
            \A d \in Devs : d < p.dev + 1 => res'[d] # None
      /\ Undisturbed(n) /\ p.act = "on" /\ p.count = 0 =>
            \A d \in Devs : d < p.dev + 1 => n \in reg'[d]
  <2>1. \A d \in Devs : d < p.dev + 1 => d < p.dev \/ d = p.dev
      BY <1>0 DEF Devs
  <2> QED BY <1>0, <1>a, <1>b, <2>1 DEF Reserved, Access, DeviceStep
<1>1. CASE Exit(n, 1)
  <2>1. Becomes(n, Idle) /\ UNCHANGED history
      BY <1>1, ExitFailure
  <2>2. Step(n, Idle)
      BY <1>a, <2>1, IdleStep DEF history
  <2> QED BY <2>2, IdleType
<1>2. ASSUME NEW q \in Process, Becomes(n, q), UNCHANGED history,
             Advance(p, q, LoopPc(p), p.count + counted)
      PROVE  Step(n, q)
  <2>1. q.pc \in SetPcs /\ q.pc \notin PollPcs
        /\ q.pc \notin {"preempt_self", "resv_read", "reg_again"} \cup OnPcs
      BY <1>2 DEF Advance, LoopPc, SetStatus, SetPcs, PollPcs, RegisterPcs, OnPcs, OffPcs,
                  VerifyPcs
  <2>2. Control(n, q)
      BY <1>0, <1>2, <1>b DEF Control, Advance, LoopPc, SetStatus, Same, SetPcs,
                  RegisterPcs, OnPcs, OffPcs, VerifyPcs
  <2>3. OwnReserved(n, q)
      BY <1>0, <1>2, <1>b, <1>c, <2>1 DEF OwnReserved, Advance, Same, PollPcs
  <2>4. OwnAbsent(n, q)
      BY <2>1 DEF OwnAbsent
  <2>5. OwnAccess(n, q)
      BY <1>0, <1>2, <1>a, <1>c, <2>1 DEF OwnAccess, Advance, Same, PollPcs
  <2> QED BY <1>2, <2>2, <2>3, <2>4, <2>5 DEF Step, Own, Advance, history
<1>3. ASSUME NEW q \in Process, Becomes(n, q), UNCHANGED history, p.pc \in OffPcs,
             Rewind(p, q, "verify", p.count)
      PROVE  Step(n, q)
  <2>1. p.act = "off" /\ p.count = 0
      BY <1>0, <1>3, <1>b DEF Control, OnPcs, OffPcs
  <2>2. Control(n, q)
      BY <1>0, <1>3, <2>1 DEF Control, Rewind, Same, SetPcs, RegisterPcs, OnPcs, OffPcs,
                              VerifyPcs
  <2>3. OwnReserved(n, q) /\ OwnAbsent(n, q)
      BY <1>3, <2>1 DEF OwnReserved, OwnAbsent, Rewind, Same, PollPcs
  <2>4. OwnAccess(n, q)
      BY <1>3, <1>a, <2>1 DEF OwnAccess, Rewind, Same, OnPcs
  <2> QED BY <1>3, <2>2, <2>3, <2>4 DEF Step, Own, Rewind, history
<1>4. ASSUME NEW q \in Process, Becomes(n, q), UNCHANGED history, p.pc \notin OffPcs,
             p.dev = NDevs, p.count = 0, counted = 0,
             Rewind(p, q, "poll", 0), q.status = "off"
      PROVE  Step(n, q)
  <2>1. Control(n, q)
      BY <1>0, <1>4 DEF Control, Rewind, Same, SetPcs, RegisterPcs, OnPcs, OffPcs,
                        VerifyPcs
  <2>2. \A d \in Devs : d < p.dev + 1 /\ ~(d < 1)
      BY <1>0, <1>4 DEF Devs
  <2>3. OwnReserved(n, q)
      BY <1>4, <1>c, <2>2 DEF OwnReserved, Rewind, Same, SetPcs, RegisterPcs, OnPcs,
                              OffPcs, VerifyPcs
  <2>4. OwnAbsent(n, q)
      BY <1>4, <2>2 DEF OwnAbsent, Rewind
  <2>5. OwnAccess(n, q)
      BY <1>4, <1>a, <1>c, <2>2 DEF OwnAccess, Rewind, Same, SetPcs, RegisterPcs, OnPcs,
                              OffPcs, VerifyPcs
  <2> QED BY <1>4, <2>1, <2>3, <2>4, <2>5 DEF Step, Own, Rewind, history
<1> QED BY <1>0, <1>b, <1>1, <1>2, <1>3, <1>4, NextDevMove

\* What REGISTER does to the devices, by a process that registers.
LEMMA RegisterStep ==
    ASSUME IInv, NEW n \in Nodes, Registers(proc[n].act), REGISTER(n, proc[n].dev)
    PROVE  /\ DeviceStep(n) /\ n \in reg'[proc[n].dev]
           /\ \A d \in Devs : n \in reg[d] => n \in reg'[d]
BY ProcFacts DEF TypeOK, REGISTER, DeviceStep

\* register_dev_read only notes whether the key is there.
LEMMA ReadStep ==
    ASSUME IInv, NEW n \in Nodes, register_dev_read(n)
    PROVE  \E q \in Process : Step(n, q)
<1> DEFINE p == proc[n]
           e == n \in reg[p.dev]
           q == [p EXCEPT !.existed = e, !.pc = "register"]
<1>0. /\ TypeOK /\ proc \in [Nodes -> Process] /\ p \in Process /\ Control(n, p)
      /\ Access(n, p) /\ p.act \in {"on", "off"} /\ p.pc = "reg_read"
      /\ "register" \in SetPcs /\ "reg_read" \in SetPcs /\ agent \in {"scsi", "mpath"}
    BY ProcFacts DEF register_dev_read, At, SetPcs, RegisterPcs
<1>1. e \in BOOLEAN
    OBVIOUS
<1>2. proc' = [proc EXCEPT ![n].existed = e, ![n].pc = "register"]
    BY DEF register_dev_read, Dev
<1> HIDE DEF e
<1>3. Becomes(n, q)
    BY <1>0, <1>2 DEF Becomes
<1>4. q \in Process
    BY <1>0, <1>1, FieldType
<1>5. Same(p, q) /\ q.dev = p.dev /\ q.count = p.count /\ q.pc = "register"
    BY <1>0 DEF Process, Same
<1> HIDE DEF q
<1>6. Control(n, q)
    BY <1>0, <1>5 DEF Control, Same, RegisterPcs, OnPcs, OffPcs, VerifyPcs
<1>7. DeviceStep(n) /\ UNCHANGED <<agent, reg, res, unfenced, reported, clean, targeted, hurt>>
    BY <1>0, NoDeviceStep DEF register_dev_read, deviceVars, history, Rest
<1>8. OwnAccess(n, q)
    BY <1>0, <1>5, <1>7 DEF OwnAccess, Access, Same, OnPcs
<1>9. Step(n, q)
    BY <1>0, <1>3, <1>4, <1>5, <1>6, <1>7, <1>8, JumpStep
<1> QED BY <1>4, <1>9

\* register_helper, preempt_self, register_dev_reservation and register_dev_again
\* go on within set_status.
LEMMA RegisterDevStep ==
    ASSUME IInv, NEW n \in Nodes,
           \/ register_helper(n) \/ preempt_self(n)
           \/ register_dev_reservation(n) \/ register_dev_again(n)
    PROVE  \E q \in Process : Step(n, q)
<1> DEFINE p == proc[n]
           d == p.dev
<1>0. /\ TypeOK /\ proc \in [Nodes -> Process] /\ p \in Process /\ Control(n, p)
      /\ Access(n, p) /\ d \in Devs /\ agent \in {"scsi", "mpath"}
      /\ p.pc # "idle" => p.act \in {"on", "off"}
    BY ProcFacts
<1>1. /\ \A a \in {"on", "off"} : Registered(a) \in SetPcs
      /\ {"preempt_self", "resv_read", "reg_again", "register"} \subseteq SetPcs
    BY DEF Registered, SetPcs, RegisterPcs, OnPcs, OffPcs
<1>h. /\ agent' = agent /\ UNCHANGED <<unfenced, reported, clean, targeted, hurt>>
      /\ p.pc \in RegisterPcs /\ p.pc \in SetPcs /\ p.act \in {"on", "off"}
    BY <1>0 DEF register_helper, preempt_self, register_dev_reservation, register_dev_again,
           Rest, history, At, RegisterPcs, SetPcs
<1>r. p.pc \in {"register", "reg_again"} => Registers(p.act)
    BY <1>0, <1>h DEF Control, Registers, RegisterPcs
<1>2. ASSUME NEW q \in Process, NEW pc \in SetPcs, Becomes(n, q), Jump(p, q, pc),
             DeviceStep(n), OwnAccess(n, q),
             \/ pc = Registered(p.act)
             \/ agent = "scsi" /\ pc \in {"preempt_self", "resv_read", "reg_again"}
      PROVE  Step(n, q)
  <2>1. Control(n, q)
      BY <1>0, <1>h, <1>2 DEF Control, Jump, Same, Registered, RegisterPcs, OnPcs, OffPcs,
                              VerifyPcs, SetPcs
  <2> QED BY <1>h, <1>2, <2>1, JumpStep DEF Jump
<1>3. CASE register_helper(n)
  <2> DEFINE pc == IF p.existed THEN "preempt_self" ELSE Registered(p.act)
  <2>1. /\ Goto(n, pc) /\ pc \in SetPcs /\ p.pc = "register"
        /\ REGISTER(n, d)
      BY <1>1, <1>3, <1>h DEF register_helper, Dev, At
  <2>2. /\ DeviceStep(n) /\ n \in reg'[d]
        /\ \A dd \in Devs : n \in reg[dd] => n \in reg'[dd]
      BY <1>r, <2>1, RegisterStep
  <2>3. PICK q \in Process : Becomes(n, q) /\ Jump(p, q, pc)
      BY <1>0, <2>1, GotoMove
  <2>4. OwnAccess(n, q)
      BY <1>0, <1>h, <2>1, <2>2, <2>3
      DEF OwnAccess, Access, Jump, Same, Registered, SetPcs, RegisterPcs, OnPcs
  <2>5. \/ pc = Registered(p.act)
        \/ agent = "scsi" /\ pc \in {"preempt_self", "resv_read", "reg_again"}
      BY <1>0 DEF Control
  <2>6. Step(n, q)
      BY <1>2, <2>1, <2>2, <2>3, <2>4, <2>5
  <2> QED BY <2>6
<1>4. CASE preempt_self(n)
  <2> DEFINE pc == IF n \in reg[d] THEN "resv_read" ELSE Registered(p.act)
  <2>1. Goto(n, pc) /\ pc \in SetPcs /\ p.pc = "preempt_self" /\ PREEMPT(n, d, n)
      BY <1>1, <1>4, <1>h DEF preempt_self, Dev, At
  <2>2. /\ DeviceStep(n)
        /\ \A dd \in Devs \ {d} : reg'[dd] = reg[dd]
        /\ n \in reg[d] => n \in reg'[d] \/ res'[d] # n
        /\ n \notin reg[d] => reg' = reg
    <3>1. CASE n \notin reg[d]
        BY <1>0, <2>1, <3>1, NoDeviceStep DEF PREEMPT, deviceVars
    <3>2. CASE n \in reg[d] /\ res[d] = n
      <4>1. reg' = [reg EXCEPT ![d] = (@ \ {n}) \cup {n}] /\ res' = [res EXCEPT ![d] = n]
          BY <2>1, <3>2 DEF PREEMPT
      <4> QED BY <1>0, <3>2, <4>1 DEF TypeOK, DeviceStep
    <3>3. CASE n \in reg[d] /\ res[d] # n
      <4>1. reg' = [reg EXCEPT ![d] = @ \ {n}] /\ res' = res
          BY <2>1, <3>3 DEF PREEMPT
      <4> QED BY <1>0, <3>3, <4>1 DEF TypeOK, DeviceStep
    <3> QED BY <3>1, <3>2, <3>3
  <2>3. PICK q \in Process : Becomes(n, q) /\ Jump(p, q, pc)
      BY <1>0, <2>1, GotoMove
  <2>4. OwnAccess(n, q)
    <3>1. Undisturbed(n) => n \in reg[d]
        BY <1>0, <2>1 DEF Access
    <3>2. p.dev \in Int /\ \A dd \in Devs : dd < d => dd # d
        BY <1>0 DEF Process, Devs
    <3> QED BY <1>0, <1>h, <2>1, <2>2, <2>3, <3>1, <3>2
        DEF OwnAccess, Access, Jump, Same, SetPcs, RegisterPcs, OnPcs
  <2>5. \/ pc = Registered(p.act)
        \/ agent = "scsi" /\ pc \in {"preempt_self", "resv_read", "reg_again"}
      BY <1>0, <2>1 DEF Control, RegisterPcs
  <2>6. Step(n, q)
      BY <1>2, <2>1, <2>2, <2>3, <2>4, <2>5
  <2> QED BY <2>6
<1>5. CASE register_dev_reservation(n)
  <2> DEFINE pc == IF res[d] = n THEN Registered(p.act) ELSE "reg_again"
  <2>1. Goto(n, pc) /\ pc \in SetPcs /\ p.pc = "resv_read" /\ UNCHANGED deviceVars
      BY <1>1, <1>5, <1>h DEF register_dev_reservation, AfterPreempt, Dev, At
  <2>2. DeviceStep(n) /\ reg' = reg /\ res' = res
      BY <1>0, <2>1, NoDeviceStep DEF deviceVars
  <2>3. PICK q \in Process : Becomes(n, q) /\ Jump(p, q, pc)
      BY <1>0, <2>1, GotoMove
  <2>4. OwnAccess(n, q)
      BY <1>0, <1>h, <2>1, <2>2, <2>3
      DEF OwnAccess, Access, Jump, Same, Registered, SetPcs, RegisterPcs, OnPcs
  <2>5. \/ pc = Registered(p.act)
        \/ agent = "scsi" /\ pc \in {"preempt_self", "resv_read", "reg_again"}
      BY <1>0, <2>1 DEF Control, RegisterPcs
  <2>6. Step(n, q)
      BY <1>2, <2>1, <2>2, <2>3, <2>4, <2>5
  <2> QED BY <2>6
<1>6. CASE register_dev_again(n)
  <2> DEFINE pc == Registered(p.act)
  <2>1. Goto(n, pc) /\ pc \in SetPcs /\ p.pc = "reg_again" /\ REGISTER(n, d)
      BY <1>1, <1>6, <1>h DEF register_dev_again, Dev, At
  <2>2. /\ DeviceStep(n) /\ n \in reg'[d]
        /\ \A dd \in Devs : n \in reg[dd] => n \in reg'[dd]
      BY <1>r, <2>1, RegisterStep
  <2>3. PICK q \in Process : Becomes(n, q) /\ Jump(p, q, pc)
      BY <1>0, <2>1, GotoMove
  <2>4. OwnAccess(n, q)
      BY <1>0, <1>h, <2>1, <2>2, <2>3
      DEF OwnAccess, Access, Jump, Same, Registered, SetPcs, RegisterPcs, OnPcs
  <2>6. Step(n, q)
      BY <1>2, <2>1, <2>2, <2>3, <2>4
  <2> QED BY <2>6
<1> QED BY <1>3, <1>4, <1>5, <1>6

\* A move within set_status that leaves the devices alone, from a point where
\* the registrations of an undisturbed node are known.
LEMMA QuietJump ==
    ASSUME IInv, NEW n \in Nodes, NEW pc \in OnPcs \cup OffPcs \cup VerifyPcs, Goto(n, pc),
           UNCHANGED <<deviceVars, agent, history>>,
           \/ proc[n].pc \in OnPcs /\ pc \in OnPcs
           \/ proc[n].pc \in OffPcs /\ pc \in OffPcs
           \/ proc[n].pc \in VerifyPcs /\ pc \in VerifyPcs
    PROVE  \E q \in Process : Step(n, q)
<1> DEFINE p == proc[n]
<1>0. /\ TypeOK /\ p \in Process /\ Control(n, p) /\ Access(n, p) /\ pc \in SetPcs
      /\ p.act \in {"on", "off"} /\ p.pc \in SetPcs
    BY ProcFacts DEF SetPcs, OnPcs, OffPcs, VerifyPcs
<1>1. PICK q \in Process : Becomes(n, q) /\ Jump(p, q, pc)
    BY <1>0, GotoMove
<1>2. DeviceStep(n) /\ reg' = reg /\ res' = res
    BY <1>0, NoDeviceStep DEF deviceVars
<1>3. Control(n, q)
    BY <1>0, <1>1 DEF Control, Jump, Same, SetPcs, RegisterPcs, OnPcs, OffPcs, VerifyPcs
<1>4. OwnAccess(n, q)
    BY <1>0, <1>1, <1>2 DEF OwnAccess, Access, Jump, Same, SetPcs, RegisterPcs, OnPcs,
                            OffPcs, VerifyPcs, history
<1>5. Step(n, q)
    BY <1>0, <1>1, <1>2, <1>3, <1>4, JumpStep DEF Jump, history
<1> QED BY <1>5

\* set_status "on" after register_dev.
LEMMA OnStep ==
    ASSUME IInv, NEW n \in Nodes,
           \/ set_status_on(n) \/ set_status_on_reservation(n)
           \/ reserve_dev(n) \/ set_status_on_reserved(n)
    PROVE  \E q \in Process : Step(n, q)
<1> DEFINE p == proc[n]
           d == p.dev
<1>0. /\ TypeOK /\ p \in Process /\ Control(n, p) /\ d \in Devs /\ Access(n, p)
      /\ 0 \in {0, 1} /\ 1 \in {0, 1}
    BY ProcFacts
<1>1. agent' = agent /\ p.pc \in OnPcs /\ p.pc \notin OffPcs
    BY DEF set_status_on, set_status_on_reservation, reserve_dev, set_status_on_reserved,
           Rest, At, OnPcs, OffPcs
<1>2. CASE set_status_on(n)
  <2>0. UNCHANGED deviceVars /\ DeviceStep(n)
      BY <1>0, <1>2, NoDeviceStep DEF set_status_on
  <2>1. CASE NextDev(n, 1)
      BY <1>0, <1>1, <2>0, <2>1, NextDevStep DEF deviceVars
  <2>2. CASE Goto(n, "on_res") /\ UNCHANGED history
      BY <1>1, <2>0, <2>2, QuietJump DEF OnPcs
  <2> QED BY <1>2, <2>1, <2>2 DEF set_status_on
<1>3. CASE set_status_on_reservation(n)
  <2>0. UNCHANGED deviceVars /\ DeviceStep(n)
      BY <1>0, <1>3, NoDeviceStep DEF set_status_on_reservation
  <2>1. CASE res[d] # None /\ NextDev(n, 0)
      BY <1>0, <1>1, <2>0, <2>1, NextDevStep DEF deviceVars
  <2>2. CASE Goto(n, "reserve") /\ UNCHANGED history
      BY <1>1, <2>0, <2>2, QuietJump DEF OnPcs
  <2> QED BY <1>3, <2>1, <2>2 DEF set_status_on_reservation, Dev
<1>4. CASE set_status_on_reserved(n)
  <2>0. UNCHANGED deviceVars /\ DeviceStep(n)
      BY <1>0, <1>4, NoDeviceStep DEF set_status_on_reserved
  <2>1. CASE res[d] # None /\ NextDev(n, 0)
      BY <1>0, <1>1, <2>0, <2>1, NextDevStep DEF deviceVars
  <2>2. CASE NextDev(n, 1)
      BY <1>0, <1>1, <2>0, <2>2, NextDevStep DEF deviceVars
  <2> QED BY <1>4, <2>1, <2>2 DEF set_status_on_reserved, Dev
<1>5. CASE reserve_dev(n)
  <2>1. /\ reg' = reg
        /\ res' = IF n \in reg[d] /\ res[d] = None THEN [res EXCEPT ![d] = n] ELSE res
        /\ n \in Nat /\ n # None
      BY <1>5, StorageFenceAssumption DEF reserve_dev, RESERVE, Dev
  <2>2. DeviceStep(n)
      BY <1>0, <2>1 DEF TypeOK, DeviceStep
  <2>3. CASE res'[d] = n /\ NextDev(n, 0)
      BY <1>0, <1>1, <2>1, <2>2, <2>3, NextDevStep
  <2>4. CASE Goto(n, "on_res2") /\ UNCHANGED history
    <3>0. "on_res2" \in SetPcs /\ p.pc \in SetPcs
        BY <1>1 DEF SetPcs, OnPcs
    <3>1. PICK q \in Process : Becomes(n, q) /\ Jump(p, q, "on_res2")
        BY <1>0, <2>4, <3>0, GotoMove
    <3>2. Control(n, q)
      <4>1. p.act \in {"on", "off"}
          BY <1>1, ProcFacts DEF OnPcs
      <4> QED BY <1>0, <1>1, <3>1, <4>1 DEF Control, Jump, Same, SetPcs, RegisterPcs,
                                            OnPcs, OffPcs, VerifyPcs
    <3>3. OwnAccess(n, q)
      <4>1. Undisturbed(n) => n \in reg'[d]
          BY <1>0, <1>1, <2>1 DEF Access
      <4>2. q.pc \notin {"preempt_self", "resv_read", "reg_again", "poll"}
            /\ p.pc \notin {"resv_read", "reg_again"}
          BY <1>1, <3>1 DEF Jump, OnPcs
      <4> QED BY <1>0, <2>1, <3>0, <3>1, <4>1, <4>2 DEF OwnAccess, Access, Jump, Same
    <3>4. Step(n, q)
        BY <1>1, <2>2, <2>4, <3>0, <3>1, <3>2, <3>3, JumpStep DEF Jump, history
    <3> QED BY <3>4
  <2> QED BY <1>5, <2>3, <2>4 DEF reserve_dev, Dev
<1> QED BY <1>2, <1>3, <1>4, <1>5

\* set_status "off" after register_dev.
LEMMA OffStep ==
    ASSUME IInv, NEW n \in Nodes,
           \/ set_status_off(n) \/ preempt_abort(n)
           \/ set_status_verify(n) \/ set_status_verify_reservation(n)
    PROVE  \E q \in Process : Step(n, q)
<1> DEFINE p == proc[n]
           d == p.dev
<1>0. /\ TypeOK /\ p \in Process /\ Control(n, p) /\ d \in Devs /\ Access(n, p)
      /\ 0 \in {0, 1} /\ 1 \in {0, 1} /\ p.pc # "idle" => p.act \in {"on", "off"}
    BY ProcFacts
<1>1. /\ agent' = agent /\ p.pc \in OffPcs \cup VerifyPcs /\ p.act = "off"
      /\ p.target \in Nodes \ {n} /\ targeted[p.target]
    BY <1>0 DEF set_status_off, preempt_abort, set_status_verify,
           set_status_verify_reservation, Rest, At, OffPcs, VerifyPcs, Control, Access
<1>2. CASE set_status_off(n)
  <2>0. UNCHANGED deviceVars /\ DeviceStep(n)
      BY <1>0, <1>2, NoDeviceStep DEF set_status_off
  <2>1. CASE NextDev(n, 0)
      BY <1>0, <1>1, <2>0, <2>1, NextDevStep DEF deviceVars
  <2>2. CASE Goto(n, "preempt") /\ UNCHANGED history
      BY <1>1, <1>2, <2>0, <2>2, QuietJump DEF OffPcs, set_status_off, At
  <2> QED BY <1>2, <2>1, <2>2 DEF set_status_off
<1>3. CASE preempt_abort(n)
  <2> DEFINE k == p.target
  <2>0. PREEMPT(n, d, k) /\ NextDev(n, 0)
      BY <1>3 DEF preempt_abort, Dev
  <2>1. DeviceStep(n) /\ \A dd \in Devs : n \in reg[dd] => n \in reg'[dd]
    <3>1. CASE n \notin reg[d]
        BY <1>0, <2>0, <3>1, NoDeviceStep DEF PREEMPT, deviceVars
    <3>2. CASE n \in reg[d] /\ res[d] = k
      <4>1. /\ reg' = [reg EXCEPT ![d] = (@ \ {k}) \cup {n}] /\ res' = [res EXCEPT ![d] = n]
            /\ n # None
          BY <2>0, <3>2, StorageFenceAssumption DEF PREEMPT
      <4> QED BY <1>0, <1>1, <3>2, <4>1 DEF TypeOK, DeviceStep
    <3>3. CASE n \in reg[d] /\ res[d] # k
      <4>1. reg' = [reg EXCEPT ![d] = @ \ {k}] /\ res' = res
          BY <2>0, <3>3 DEF PREEMPT
      <4> QED BY <1>0, <1>1, <3>3, <4>1 DEF TypeOK, DeviceStep
    <3> QED BY <3>1, <3>2, <3>3
  <2> QED BY <1>0, <1>1, <2>0, <2>1, NextDevStep
<1>4. CASE set_status_verify(n)
  <2>0. UNCHANGED deviceVars /\ DeviceStep(n) /\ p.pc \notin OffPcs
      BY <1>0, <1>4, NoDeviceStep DEF set_status_verify, At, OffPcs
  <2>1. CASE NextDev(n, 1)
      BY <1>0, <1>1, <2>0, <2>1, NextDevStep DEF deviceVars
  <2>2. CASE Goto(n, "verify_res") /\ UNCHANGED history
      BY <1>1, <1>4, <2>0, <2>2, QuietJump DEF VerifyPcs, set_status_verify, At
  <2> QED BY <1>4, <2>1, <2>2 DEF set_status_verify
<1>5. CASE set_status_verify_reservation(n)
  <2>0. UNCHANGED deviceVars /\ DeviceStep(n) /\ p.pc \notin OffPcs
      BY <1>0, <1>5, NoDeviceStep DEF set_status_verify_reservation, At, OffPcs
  <2>1. ASSUME NEW c \in {0, 1}, NextDev(n, c) PROVE \E q \in Process : Step(n, q)
      BY <1>0, <1>1, <2>0, <2>1, NextDevStep DEF deviceVars
  <2> QED BY <1>0, <1>5, <2>1 DEF set_status_verify_reservation
<1> QED BY <1>2, <1>3, <1>4, <1>5

\* A command without effect, and an early end of the process.
LEMMA FailStep ==
    ASSUME IInv, NEW n \in Nodes, command_fails(n) \/ agent_fails(n)
    PROVE  \E q \in Process : Step(n, q)
<1> DEFINE p == proc[n]
<1>0. /\ TypeOK /\ HistoryType /\ p \in Process /\ Control(n, p)
      /\ p.pc # "idle" => p.act \in {"on", "off"}
    BY ProcFacts
<1>1. UNCHANGED deviceVars /\ agent' = agent /\ DeviceStep(n)
    BY <1>0, NoDeviceStep DEF command_fails, agent_fails, Rest
<1>2. CASE agent_fails(n)
  <2>1. Becomes(n, Idle) /\ hurt' = [hurt EXCEPT ![n] = TRUE] /\ hurt'[n]
        /\ UNCHANGED <<unfenced, reported, clean, targeted>>
      BY <1>0, <1>2 DEF agent_fails, Becomes, HistoryType
  <2>2. Step(n, Idle)
      BY <1>1, <2>1, IdleStep
  <2> QED BY <2>2, IdleType
<1>3. ASSUME NEW pc \in {Registered(p.act), "on_res2"}, Goto(n, pc),
             \/ pc = Registered(p.act) /\ p.pc \in {"register", "preempt_self", "reg_again"}
             \/ pc = "on_res2" /\ p.pc = "reserve",
             hurt' = [hurt EXCEPT ![n] = TRUE],
             UNCHANGED <<unfenced, reported, clean, targeted>>
      PROVE  \E q \in Process : Step(n, q)
  <2>0. pc \in SetPcs /\ p.pc \in SetPcs /\ p.act \in {"on", "off"} /\ hurt'[n]
      BY <1>0, <1>3 DEF Registered, SetPcs, RegisterPcs, OnPcs, OffPcs, HistoryType
  <2>1. PICK q \in Process : Becomes(n, q) /\ Jump(p, q, pc)
      BY <1>0, <1>3, <2>0, GotoMove
  <2>2. Control(n, q)
      BY <1>0, <1>3, <2>0, <2>1 DEF Control, Jump, Same, Registered, SetPcs, RegisterPcs,
                                    OnPcs, OffPcs, VerifyPcs
  <2>3. OwnAccess(n, q)
      BY <2>0 DEF OwnAccess
  <2>4. Step(n, q)
      BY <1>1, <1>3, <2>0, <2>1, <2>2, <2>3, JumpStep DEF Jump
  <2> QED BY <2>4
<1>4. CASE p.pc = "preempt" /\ NextDev(n, 0)
  <2>1. p.act # "on" /\ 0 \in {0, 1}
      BY <1>0, <1>4 DEF Control, OffPcs
  <2> QED BY <1>1, <1>4, <2>1, NextDevStep DEF OffPcs, deviceVars
<1> QED BY <1>2, <1>3, <1>4 DEF command_fails, At

\* get_status, unless it ends in a report.
LEMMA StatusStep ==
    ASSUME IInv, NEW n \in Nodes, get_status(n)
    PROVE  Report(n) \/ \E q \in Process : Step(n, q)
<1> DEFINE p == proc[n]
<1>0. /\ TypeOK /\ HistoryType /\ p \in Process /\ Control(n, p) /\ Reserved(n, p)
      /\ Absent(n, p) /\ Access(n, p)
      /\ p.dev \in 1 .. NDevs /\ p.dev \in Devs /\ NDevs \in Nat \ {0}
      /\ agent \in {"scsi", "mpath"}
      /\ p.pc # "idle" => p.act \in {"on", "off"}
    BY ProcFacts
<1>1. DeviceStep(n) /\ reg' = reg /\ res' = res /\ agent' = agent
    BY <1>0, NoDeviceStep DEF get_status, deviceVars, Rest
<1>2. p.pc \in PollPcs /\ p.act \in {"on", "off"}
    BY <1>0, GetStatusMove DEF PollPcs
<1>3. Undisturbed(n) /\ unfenced[n] => \A d \in Devs : n \in reg[d]
    BY <1>0, <1>2 DEF Access, PollPcs
<1>4. \A d \in Devs : ~(d < 1)
    BY DEF Devs
<1>5. CASE Exit(n, 1)
  <2>1. Becomes(n, Idle) /\ UNCHANGED history
      BY <1>5, ExitFailure
  <2>2. Step(n, Idle)
      BY <1>1, <1>3, <2>1, IdleStep DEF history
  <2> QED BY <2>2, IdleType
<1>6. ASSUME NEW q \in Process, Becomes(n, q), UNCHANGED history, StatusMove(p, q)
      PROVE  Step(n, q)
  <2>1. q.pc \in PollPcs /\ q.pc \notin SetPcs
      BY <1>2, <1>6 DEF StatusMove, SetPcs, PollPcs, RegisterPcs, OnPcs, OffPcs, VerifyPcs
  <2>2. Control(n, q)
      BY <1>0, <1>2, <1>6, <2>1 DEF Control, StatusMove, Same, PollPcs, SetPcs
  <2>3. OwnReserved(n, q)
      BY <1>0, <1>1, <1>6, <2>1 DEF OwnReserved, Reserved, AllReserved, StatusMove, Same
  <2>4. OwnAbsent(n, q)
    <3>1. \A d \in Devs : d < p.dev + 1 => d < p.dev \/ d = p.dev
        BY <1>0 DEF Devs
    <3> QED BY <1>0, <1>1, <1>2, <1>6, <2>1, <3>1
        DEF OwnAbsent, Absent, StatusMove, NotFound, Same
  <2>5. OwnAccess(n, q)
      BY <1>0, <1>1, <1>3, <1>6, <2>1 DEF OwnAccess, Access, StatusMove, Same, PollPcs, OnPcs
  <2> QED BY <1>1, <1>6, <2>2, <2>3, <2>4, <2>5 DEF Step, Own, StatusMove, history
<1>7. ASSUME NEW q \in Process, Becomes(n, q), UNCHANGED history, p.pc = "poll",
             Rewind(p, q, "poll", p.count)
      PROVE  Step(n, q)
  <2>1. q.pc \in PollPcs /\ q.pc \notin SetPcs
      BY <1>7 DEF Rewind, SetPcs, PollPcs, RegisterPcs, OnPcs, OffPcs, VerifyPcs
  <2>2. Control(n, q)
      BY <1>0, <1>2, <1>7, <2>1 DEF Control, Rewind, Same, PollPcs, SetPcs
  <2>3. OwnReserved(n, q)
      BY <1>0, <1>1, <1>7, <2>1 DEF OwnReserved, Reserved, AllReserved, Rewind, Same
  <2>4. OwnAbsent(n, q)
      BY <1>4, <1>7 DEF OwnAbsent, Rewind
  <2>5. OwnAccess(n, q)
      BY <1>0, <1>1, <1>3, <1>7, <2>1 DEF OwnAccess, Access, Rewind, Same, PollPcs, OnPcs
  <2> QED BY <1>1, <1>7, <2>2, <2>3, <2>4, <2>5 DEF Step, Own, Rewind, history
<1>8. ASSUME NEW q \in Process, Becomes(n, q), UNCHANGED history,
             Rewind(p, q, SetStatus(p.act), 0)
      PROVE  Step(n, q)
  <2>1. /\ q.pc \in {"reg_read", "register", "victim"} /\ q.pc \notin PollPcs \cup OnPcs
      BY <1>8 DEF Rewind, SetStatus, PollPcs, OnPcs
  <2>2. Control(n, q)
      BY <1>0, <1>2, <1>8 DEF Control, Rewind, SetStatus, Same, SetPcs, RegisterPcs, OnPcs,
                              OffPcs, VerifyPcs
  <2>3. OwnReserved(n, q)
      BY <1>4, <1>8, <2>1 DEF OwnReserved, Rewind
  <2>4. OwnAbsent(n, q)
      BY <2>1 DEF OwnAbsent
  <2>5. OwnAccess(n, q)
      BY <1>1, <1>3, <1>4, <1>8, <2>1 DEF OwnAccess, Rewind
  <2> QED BY <1>1, <1>8, <2>2, <2>3, <2>4, <2>5 DEF Step, Own, Rewind, history
<1> QED BY <1>0, <1>5, <1>6, <1>7, <1>8, GetStatusMove

----------------------------------------------------------------------------
(* The steps that change the history otherwise.                            *)

\* get_status ends in a report: the node is unfenced, or its target is fenced.
LEMMA ReportKeeps ==
    ASSUME IInv, NEW n \in Nodes, Report(n), UNCHANGED <<agent, deviceVars>>
    PROVE  /\ HistoryType' /\ ControlInv' /\ ReservedInv' /\ CleanInv' /\ AbsentInv'
           /\ AccessInv'
<1> DEFINE p == proc[n]
           t == p.target
<1>0. /\ TypeOK /\ HistoryType /\ proc \in [Nodes -> Process] /\ p \in Process
      /\ Control(n, p) /\ Reserved(n, p) /\ Clean(n, p) /\ Absent(n, p) /\ Access(n, p)
      /\ p.dev \in 1 .. NDevs /\ NDevs \in Nat \ {0} /\ p.clean \in BOOLEAN
      /\ p.pc # "idle" => p.act \in {"on", "off"}
    BY ProcFacts DEF Process
<1>1. /\ p.act \in {"on", "off"} /\ p.pc \in PollPcs
      /\ p.act = "on" => p.pc = "poll"
      /\ p.act = "off" => p.dev = NDevs /\ NotFound(p) /\ t \in Nodes \ {n}
    BY <1>0 DEF Report, PollPcs, Control
<1>2. /\ Becomes(n, Idle) /\ UNCHANGED <<agent, reg, res, targeted, hurt>>
      /\ unfenced' = IF p.act = "on" THEN [unfenced EXCEPT ![n] = TRUE] ELSE unfenced
      /\ reported' = IF p.act = "off" THEN [reported EXCEPT ![t] = TRUE] ELSE reported
      /\ clean' = IF p.act = "off" THEN [clean EXCEPT ![t] = p.clean] ELSE clean
    BY DEF Report, Exit, Becomes, deviceVars
<1>3. /\ proc'[n] = Idle /\ \A m \in Nodes \ {n} : proc'[m] = proc[m]
    BY <1>2, IdleType, Moved DEF IInv
<1>i. /\ Idle.act = "none" /\ Idle.pc = "idle" /\ Idle.existed = FALSE
      /\ "idle" \notin SetPcs \cup PollPcs \cup OnPcs
    BY DEF Idle, SetPcs, PollPcs, RegisterPcs, OnPcs, OffPcs, VerifyPcs
<1>4. HistoryType'
    BY <1>0, <1>1, <1>2 DEF HistoryType
<1>5. ControlInv'
  <2>1. Control(n, Idle)
      BY <1>i DEF Control, SetPcs
  <2> QED BY <1>2, <1>3, <2>1 DEF IInv, TypeInv, ControlInv, Control
<1>6. ReservedInv'
  <2>1. AllReserved'
      BY <1>0, <1>1, <1>2 DEF Reserved, AllReserved
  <2> QED BY <2>1 DEF ReservedInv, Reserved, AllReserved
<1>7. CleanInv'
  <2> SUFFICES ASSUME NEW m \in Nodes PROVE Clean(m, proc[m])'
      BY DEF CleanInv
  <2>1. Clean(m, proc[m]) /\ Control(m, proc[m])
      BY DEF IInv, CleanInv, TypeInv, ControlInv
  <2>2. \A k \in Nodes : Registers(proc[k].act)' => Registers(proc[k].act)
      BY <1>2, <1>3, <1>i DEF Registers
  <2>3. CASE m = n
      BY <1>2, <1>3, <1>i, <2>3 DEF Clean, Registers
  <2>4. CASE m # n
    <3>1. clean'[m] => ~Registers(proc[m].act)
        BY <1>0, <1>1, <1>2, <2>1 DEF Clean, HistoryType
    <3> QED BY <1>3, <2>1, <2>2, <2>4, <3>1 DEF Clean, Control
  <2> QED BY <2>3, <2>4
<1>8. AbsentInv'
  <2>1. p.act = "off" /\ p.clean => \A d \in Devs : t \notin reg[d]
    <3>1. \A d \in Devs : d < p.dev \/ d = p.dev \/ p.act = "on"
        BY <1>0, <1>1 DEF Devs
    <3> QED BY <1>0, <1>1, <3>1 DEF Absent, NotFound
  <2> SUFFICES ASSUME NEW m \in Nodes PROVE Absent(m, proc[m])'
      BY DEF AbsentInv
  <2>2. Absent(m, proc[m])
      BY DEF IInv, AbsentInv
  <2>3. reported'[m] /\ clean'[m] => \A d \in Devs : m \notin reg'[d]
      BY <1>0, <1>1, <1>2, <2>1, <2>2 DEF Absent, HistoryType
  <2> QED BY <1>2, <1>3, <1>i, <2>2, <2>3 DEF Absent
<1>9. AccessInv'
  <2> SUFFICES ASSUME NEW m \in Nodes PROVE Access(m, proc[m])'
      BY DEF AccessInv
  <2>1. Access(m, proc[m])
      BY DEF IInv, AccessInv
  <2>2. CASE m = n
    <3>1. Undisturbed(n)' <=> Undisturbed(n)
        BY <1>2 DEF Undisturbed
    <3>2. Undisturbed(n) /\ unfenced'[n] => \A d \in Devs : n \in reg[d]
        BY <1>0, <1>1, <1>2 DEF Access, PollPcs
    <3> QED BY <1>2, <1>3, <1>i, <2>2, <3>1, <3>2 DEF Access
  <2>3. CASE m # n
    <3>1. /\ unfenced'[m] = unfenced[m]
          /\ Undisturbed(m)' <=> Undisturbed(m)
        BY <1>0, <1>2, <2>3 DEF HistoryType, Undisturbed
    <3> QED BY <1>2, <1>3, <2>1, <2>3, <3>1 DEF Access
  <2> QED BY <2>2, <2>3
<1> QED BY <1>4, <1>5, <1>6, <1>7, <1>8, <1>9

\* The start of an agent.
LEMMA StartKeeps ==
    ASSUME IInv, NEW n \in Nodes, NEW act \in {"on", "off"}, NEW t \in Nodes,
           Start(n, act, t)
    PROVE  /\ proc' \in [Nodes -> Process]
           /\ HistoryType' /\ ControlInv' /\ ReservedInv' /\ CleanInv' /\ AbsentInv'
           /\ AccessInv'
<1> DEFINE c(m) == proc[m].clean /\ ~(proc[m].target = n /\ Registers(act))
           q == [Idle EXCEPT !.act = act, !.target = t, !.pc = "status",
                             !.clean = ~Registers(proc[t].act)]
<1>0. /\ TypeOK /\ HistoryType /\ proc \in [Nodes -> Process] /\ proc[n] = Idle
      /\ Control(n, proc[n]) /\ Reserved(n, proc[n]) /\ Access(n, proc[n])
    BY ProcFacts DEF Start
<1>1. /\ proc' = [m \in Nodes |-> IF m = n THEN q ELSE [proc[m] EXCEPT !.clean = c(m)]]
      /\ IF act = "on" THEN t = n ELSE t # n /\ unfenced[n]
      /\ UNCHANGED <<agent, reg, res, unfenced, hurt>>
      /\ reported' = IF act = "on" THEN [reported EXCEPT ![n] = FALSE] ELSE reported
      /\ clean' = IF Registers(act) THEN [clean EXCEPT ![n] = FALSE] ELSE clean
      /\ targeted' = IF act = "off" THEN [targeted EXCEPT ![t] = TRUE] ELSE targeted
    BY DEF Start, deviceVars
<1>3. /\ q \in Process /\ q.act = act /\ q.target = t /\ q.pc = "status" /\ q.dev = 1
      /\ q.existed = FALSE /\ q.clean = ~Registers(proc[t].act)
  <2> DEFINE b == ~Registers(proc[t].act)
  <2>1. b \in BOOLEAN
      BY DEF Registers
  <2> HIDE DEF b
  <2>2. [Idle EXCEPT !.act = act, !.target = t] \in Process
      BY IdleType, FieldType
  <2>3. [Idle EXCEPT !.act = act, !.target = t, !.pc = "status", !.clean = b] \in Process
      BY <2>1, <2>2, FieldType DEF PollPcs
  <2>4. q = [Idle EXCEPT !.act = act, !.target = t, !.pc = "status", !.clean = b]
      BY DEF b
  <2>5. q.act = act /\ q.target = t /\ q.pc = "status" /\ q.dev = 1 /\ q.existed = FALSE
        /\ q.clean = b
      BY <2>4 DEF Idle
  <2> QED BY <2>3, <2>4, <2>5 DEF b
<1> HIDE DEF q
<1>4. proc'[n] = q
    BY <1>1
<1>5. ASSUME NEW m \in Nodes \ {n}
      PROVE  /\ proc'[m] \in Process
             /\ \E p \in Process :
                   /\ proc'[m] = p /\ p.act = proc[m].act /\ p.target = proc[m].target
                   /\ p.pc = proc[m].pc /\ p.dev = proc[m].dev
                   /\ p.existed = proc[m].existed /\ p.count = proc[m].count
                   /\ p.status = proc[m].status /\ p.clean = c(m)
                   /\ proc[m] = Idle => p = Idle
  <2> DEFINE p == [proc[m] EXCEPT !.clean = c(m)]
  <2>1. c(m) \in BOOLEAN /\ proc[m] \in Process
      BY <1>0 DEF Process, Registers
  <2>2. proc'[m] = p
      BY <1>1
  <2>3. proc[m] = Idle => c(m) = FALSE
      BY DEF Idle
  <2> HIDE DEF c
  <2>4. p \in Process
      BY <2>1, FieldType
  <2>5. /\ p.act = proc[m].act /\ p.target = proc[m].target
        /\ p.pc = proc[m].pc /\ p.dev = proc[m].dev
        /\ p.existed = proc[m].existed /\ p.count = proc[m].count
        /\ p.status = proc[m].status /\ p.clean = c(m)
      BY <2>1 DEF Process
  <2>6. proc[m] = Idle => p = Idle
      BY <2>3, <2>4, <2>5, IdleType DEF Idle, Process
  <2> QED BY <2>2, <2>4, <2>5, <2>6
<1>6. proc' \in [Nodes -> Process]
    BY <1>1, <1>3, <1>4, <1>5
<1>i. /\ Idle.act = "none" /\ Idle.pc = "idle"
      /\ "status" \notin SetPcs /\ "status" \in PollPcs
    BY DEF Idle, SetPcs, PollPcs, RegisterPcs, OnPcs, OffPcs, VerifyPcs
<1>7. HistoryType'
    BY <1>0, <1>1 DEF HistoryType
<1>8. ControlInv'
  <2> SUFFICES ASSUME NEW m \in Nodes PROVE Control(m, proc[m])'
      BY DEF ControlInv
  <2>1. CASE m = n
      BY <1>1, <1>3, <1>4, <1>i, <2>1 DEF Control, RegisterPcs, OnPcs, OffPcs, VerifyPcs
  <2>2. CASE m # n
    <3>1. PICK p \in Process :
             /\ proc'[m] = p /\ p.act = proc[m].act /\ p.target = proc[m].target
             /\ p.pc = proc[m].pc /\ p.dev = proc[m].dev /\ p.count = proc[m].count
             /\ p.existed = proc[m].existed /\ (proc[m] = Idle => p = Idle)
        BY <1>5, <2>2
    <3>2. Control(m, proc[m])
        BY DEF IInv, TypeInv, ControlInv
    <3> QED BY <1>1, <3>1, <3>2 DEF Control
  <2> QED BY <2>1, <2>2
<1>9. ReservedInv'
  <2> SUFFICES ASSUME NEW m \in Nodes PROVE Reserved(m, proc[m])'
      BY DEF ReservedInv
  <2>1. Reserved(m, proc[m]) /\ (AllReserved <=> AllReserved') /\ (reported'[m] => reported[m])
      BY <1>0, <1>1 DEF IInv, ReservedInv, AllReserved, HistoryType
  <2>2. CASE m = n
      BY <1>1, <1>3, <1>4, <1>i, <2>1, <2>2 DEF Reserved
  <2>3. CASE m # n
      BY <1>1, <1>5, <2>1, <2>3 DEF Reserved
  <2> QED BY <2>2, <2>3
<1>10. CleanInv'
  <2> SUFFICES ASSUME NEW m \in Nodes PROVE Clean(m, proc[m])'
      BY DEF CleanInv
  <2>1. Clean(m, proc[m]) /\ Control(m, proc[m])
      BY DEF IInv, CleanInv, TypeInv, ControlInv
  <2>2. /\ \A k \in Nodes \ {n} : Registers(proc[k].act)' <=> Registers(proc[k].act)
        /\ Registers(proc[n].act)' <=> Registers(act)
    <3>1. \A k \in Nodes \ {n} : proc'[k].act = proc[k].act
        BY <1>5
    <3> QED BY <1>1, <1>3, <1>4, <3>1 DEF Registers
  <2>3. clean'[m] => clean[m] /\ (m = n => ~Registers(act))
      BY <1>0, <1>1 DEF HistoryType
  <2>4. CASE m = n
      BY <1>1, <1>3, <1>4, <2>2, <2>3, <2>4 DEF Clean
  <2>5. CASE m # n
    <3>1. clean'[m] => ~Registers(proc[m].act)'
        BY <2>1, <2>2, <2>3, <2>5 DEF Clean
    <3>2. PICK p \in Process : /\ proc'[m] = p /\ p.act = proc[m].act
                               /\ p.target = proc[m].target /\ p.clean = c(m)
        BY <1>5, <2>5
    <3>3. ASSUME p.act = "off", p.clean PROVE ~Registers(proc[p.target].act)'
        BY <2>1, <2>2, <3>2, <3>3 DEF Clean, Control
    <3> QED BY <3>1, <3>2, <3>3 DEF Clean
  <2> QED BY <2>4, <2>5
<1>11. AbsentInv'
  <2> SUFFICES ASSUME NEW m \in Nodes PROVE Absent(m, proc[m])'
      BY DEF AbsentInv
  <2>1. Absent(m, proc[m]) /\ (reported'[m] /\ clean'[m] => reported[m] /\ clean[m])
      BY <1>0, <1>1 DEF IInv, AbsentInv, HistoryType
  <2>2. \A d \in Devs : ~(d < 1)
      BY DEF Devs
  <2>3. CASE m = n
      BY <1>1, <1>3, <1>4, <2>1, <2>2, <2>3 DEF Absent
  <2>4. CASE m # n
    <3>1. PICK p \in Process :
             /\ proc'[m] = p /\ p.act = proc[m].act /\ p.target = proc[m].target
             /\ p.pc = proc[m].pc /\ p.dev = proc[m].dev /\ p.status = proc[m].status
             /\ p.clean = c(m)
        BY <1>5, <2>4
    <3> QED BY <1>1, <2>1, <3>1 DEF Absent
  <2> QED BY <2>3, <2>4
<1>12. AccessInv'
  <2> SUFFICES ASSUME NEW m \in Nodes PROVE Access(m, proc[m])'
      BY DEF AccessInv
  <2>1. Access(m, proc[m]) /\ Control(m, proc[m])
      BY DEF IInv, AccessInv, TypeInv, ControlInv
  <2>2. /\ Undisturbed(m)' => Undisturbed(m)
        /\ \A k \in Nodes : targeted[k] => targeted'[k]
        /\ act = "off" => targeted'[t]
      BY <1>0, <1>1 DEF Undisturbed, HistoryType
  <2>3. CASE m = n
      BY <1>0, <1>1, <1>3, <1>4, <1>i, <2>1, <2>2, <2>3 DEF Access, OnPcs
  <2>4. CASE m # n
    <3>1. PICK p \in Process :
             /\ proc'[m] = p /\ p.act = proc[m].act /\ p.target = proc[m].target
             /\ p.pc = proc[m].pc /\ p.dev = proc[m].dev /\ p.count = proc[m].count
             /\ p.existed = proc[m].existed /\ (proc[m] = Idle => p = Idle)
        BY <1>5, <2>4
    <3> QED BY <1>1, <2>1, <2>2, <3>1 DEF Access, Control
  <2> QED BY <2>3, <2>4
<1> QED BY <1>6, <1>7, <1>8, <1>9, <1>10, <1>11, <1>12

\* A reboot by the watchdog ends the process and forgets the unfencing.
LEMMA RebootKeeps ==
    ASSUME IInv, NEW n \in Nodes, Reboot(n)
    PROVE  /\ HistoryType' /\ ControlInv' /\ ReservedInv' /\ CleanInv' /\ AbsentInv'
           /\ AccessInv'
<1>0. /\ TypeOK /\ HistoryType
    BY ProcFacts
<1>1. /\ Becomes(n, Idle) /\ UNCHANGED <<agent, reg, res, reported, clean, targeted, hurt>>
      /\ unfenced' = [unfenced EXCEPT ![n] = FALSE]
    BY DEF Reboot, Becomes, deviceVars
<1>2. proc'[n] = Idle /\ \A m \in Nodes \ {n} : proc'[m] = proc[m]
    BY <1>1, IdleType, Moved DEF IInv
<1>3. /\ Idle.act = "none" /\ Idle.pc = "idle" /\ Idle.existed = FALSE
      /\ "idle" \notin SetPcs \cup PollPcs \cup OnPcs
    BY DEF Idle, SetPcs, PollPcs, RegisterPcs, OnPcs, OffPcs, VerifyPcs
<1>4. HistoryType' /\ unfenced'[n] = FALSE /\ \A m \in Nodes \ {n} : unfenced'[m] = unfenced[m]
    BY <1>0, <1>1 DEF HistoryType
<1>5. ControlInv'
  <2>1. Control(n, Idle)
      BY <1>3 DEF Control, SetPcs
  <2> QED BY <1>1, <1>2, <2>1 DEF IInv, TypeInv, ControlInv, Control
<1>6. ReservedInv'
    BY <1>1, <1>2, <1>3, <1>4 DEF IInv, ReservedInv, Reserved, AllReserved
<1>7. CleanInv'
  <2> SUFFICES ASSUME NEW m \in Nodes PROVE Clean(m, proc[m])'
      BY DEF CleanInv
  <2>1. Clean(m, proc[m]) /\ Control(m, proc[m])
      BY DEF IInv, CleanInv, TypeInv, ControlInv
  <2>2. \A k \in Nodes : Registers(proc[k].act)' => Registers(proc[k].act)
      BY <1>1, <1>2, <1>3 DEF Registers
  <2>3. CASE m = n
      BY <1>1, <1>2, <1>3, <2>3 DEF Clean, Registers
  <2>4. CASE m # n
      BY <1>1, <1>2, <2>1, <2>2, <2>4 DEF Clean, Control
  <2> QED BY <2>3, <2>4
<1>8. AbsentInv'
    BY <1>1, <1>2, <1>3 DEF IInv, AbsentInv, Absent
<1>9. AccessInv'
    BY <1>1, <1>2, <1>3, <1>4 DEF IInv, AccessInv, Access, Undisturbed
<1> QED BY <1>4, <1>5, <1>6, <1>7, <1>8, <1>9

----------------------------------------------------------------------------
(* The theorems.                                                           *)

LEMMA InitIInv == Init => IInv
<1> SUFFICES ASSUME Init PROVE IInv
    OBVIOUS
<1>1. TypeOK
  <2>1. proc \in [Nodes -> Process]
      BY IdleType DEF Init
  <2>2. proc \in [Nodes ->
         [act : {"none", "on", "off"}, target : Nodes \cup {None},
          pc : {"idle", "status", "reg_read", "register", "preempt_self", "resv_read",
                "reg_again", "on_read", "on_res", "reserve", "on_res2", "victim",
                "preempt", "verify", "verify_res", "poll"},
          dev : Devs, existed : BOOLEAN, count : 0 .. NDevs, status : {"on", "off"},
          clean : BOOLEAN]]
      BY <2>1 DEF Process, SetPcs, PollPcs, RegisterPcs, OnPcs, OffPcs, VerifyPcs
  <2> QED BY <2>2, StorageFenceAssumption DEF Init, TypeOK
<1>2. HistoryType
    BY StorageFenceAssumption DEF Init, HistoryType
<1>3. /\ \A n \in Nodes : proc[n] = Idle /\ ~reported[n] /\ ~targeted[n]
      /\ Idle.act = "none" /\ Idle.pc = "idle" /\ Idle.existed = FALSE
      /\ "idle" \notin SetPcs \cup PollPcs \cup OnPcs
    BY DEF Init, Idle, SetPcs, PollPcs, RegisterPcs, OnPcs, OffPcs, VerifyPcs
<1>4. \A n \in Nodes : unfenced[n] => AllReserved /\ \A d \in Devs : n \in reg[d]
    BY StorageFenceAssumption DEF Init, AllReserved
<1>5. ControlInv
    BY <1>3 DEF ControlInv, Control, SetPcs
<1>6. ReservedInv /\ AbsentInv /\ AccessInv
    BY <1>3, <1>4 DEF ReservedInv, Reserved, AbsentInv, Absent, AccessInv, Access
<1>7. CleanInv
    BY <1>3 DEF CleanInv, Clean, Registers
<1> QED BY <1>1, <1>2, <1>5, <1>6, <1>7 DEF IInv, TypeInv

\* What an agent does to the variables outside the process and the devices.
LEMMA RestTypes ==
    ASSUME IInv, NEW n \in Nodes, Agent(n) \/ command_fails(n) \/ agent_fails(n)
    PROVE  UNCHANGED <<agent, check, runs>> /\ devfile' \in [Nodes -> SUBSET Devs]
<1>1. devfile \in [Nodes -> SUBSET Devs] /\ Dev(n) \in Devs
    BY ProcFacts DEF TypeOK, Dev
<1> QED BY <1>1
    DEF Agent, command_fails, agent_fails, get_status, register_dev_read, register_helper,
        preempt_self, register_dev_reservation, register_dev_again, set_status_on,
        set_status_on_reservation, reserve_dev, set_status_on_reserved, set_status_off,
        preempt_abort, set_status_verify, set_status_verify_reservation, Rest

\* Every step keeps the invariant.
LEMMA NextIInv == IInv /\ [Next]_vars => IInv'
<1> SUFFICES ASSUME IInv, [Next]_vars PROVE IInv'
    OBVIOUS
<1>0. TypeOK /\ HistoryType /\ proc \in [Nodes -> Process]
    BY ProcessType DEF IInv, TypeInv
<1>1. CASE UNCHANGED vars
    BY <1>1 DEF vars, deviceVars, history, IInv, TypeInv, TypeOK, HistoryType, ControlInv,
                Control, ReservedInv, Reserved, AllReserved, CleanInv, Clean, Registers,
                AbsentInv, Absent, AccessInv, Access, Undisturbed
<1>2. ASSUME NEW n \in Nodes, NEW act \in {"on", "off"}, NEW t \in Nodes, Start(n, act, t)
      PROVE  IInv'
  <2>1. runs' \in 0 .. MaxRuns
      BY <1>0, <1>2, StorageFenceAssumption DEF Start, TypeOK
  <2>2. proc' \in [Nodes -> Process]
      BY <1>2, StartKeeps
  <2>3. TypeOK'
      BY <1>0, <1>2, <2>1, <2>2 DEF Start, deviceVars, TypeOK, Process, SetPcs, PollPcs,
                RegisterPcs, OnPcs, OffPcs, VerifyPcs
  <2> QED BY <1>2, <2>3, StartKeeps DEF IInv, TypeInv
<1>3. ASSUME NEW n \in Nodes, NEW q \in Process, Step(n, q),
             Agent(n) \/ command_fails(n) \/ agent_fails(n)
      PROVE  IInv'
  <2>1. proc' \in [Nodes -> Process]
      BY <1>3, Moved DEF Step, IInv
  <2>2. UNCHANGED <<agent, check, runs>> /\ devfile' \in [Nodes -> SUBSET Devs]
      BY <1>3, RestTypes
  <2>3. TypeOK'
      BY <1>0, <1>3, <2>1, <2>2 DEF Step, DeviceStep, TypeOK, Process, SetPcs, PollPcs,
                RegisterPcs, OnPcs, OffPcs, VerifyPcs
  <2> QED BY <1>3, <2>3, StepKeeps DEF IInv, TypeInv
<1>4. ASSUME NEW n \in Nodes, get_status(n), Report(n) PROVE IInv'
  <2>0. UNCHANGED <<agent, deviceVars>>
      BY <1>4 DEF get_status, Rest
  <2>1. proc' \in [Nodes -> Process]
      BY <1>0, <1>4, IdleType DEF Report, Exit
  <2>2. UNCHANGED <<agent, check, runs>> /\ devfile' \in [Nodes -> SUBSET Devs]
      BY <1>4, RestTypes DEF Agent
  <2>3. TypeOK'
      BY <1>0, <2>0, <2>1, <2>2 DEF deviceVars, TypeOK, Process, SetPcs, PollPcs,
                RegisterPcs, OnPcs, OffPcs, VerifyPcs
  <2> QED BY <1>4, <2>0, <2>3, ReportKeeps DEF IInv, TypeInv
<1>5. ASSUME NEW n \in Nodes, Agent(n) \/ command_fails(n) \/ agent_fails(n) PROVE IInv'
  <2>1. CASE get_status(n)
      BY <1>3, <1>4, <1>5, <2>1, StatusStep
  <2>2. CASE register_dev_read(n)
      BY <1>3, <1>5, <2>2, ReadStep
  <2>3. CASE \/ register_helper(n) \/ preempt_self(n)
             \/ register_dev_reservation(n) \/ register_dev_again(n)
      BY <1>3, <1>5, <2>3, RegisterDevStep
  <2>4. CASE \/ set_status_on(n) \/ set_status_on_reservation(n)
             \/ reserve_dev(n) \/ set_status_on_reserved(n)
      BY <1>3, <1>5, <2>4, OnStep
  <2>5. CASE \/ set_status_off(n) \/ preempt_abort(n)
             \/ set_status_verify(n) \/ set_status_verify_reservation(n)
      BY <1>3, <1>5, <2>5, OffStep
  <2>6. CASE command_fails(n) \/ agent_fails(n)
      BY <1>3, <1>5, <2>6, FailStep
  <2> QED BY <1>5, <2>1, <2>2, <2>3, <2>4, <2>5, <2>6 DEF Agent
<1>6. ASSUME NEW n \in Nodes, Reboot(n) PROVE IInv'
  <2>1. proc' \in [Nodes -> Process] /\ check' \in [Nodes -> 0 .. NDevs]
        /\ devfile' \in [Nodes -> SUBSET Devs] /\ UNCHANGED <<agent, reg, res, runs>>
      BY <1>0, <1>6, IdleType, StorageFenceAssumption DEF Reboot, TypeOK, deviceVars
  <2>2. TypeOK'
      BY <1>0, <2>1 DEF TypeOK, Process, SetPcs, PollPcs, RegisterPcs, OnPcs, OffPcs, VerifyPcs
  <2> QED BY <1>6, <2>2, RebootKeeps DEF IInv, TypeInv
<1>7. ASSUME NEW n \in Nodes, NEW d \in 0 .. NDevs, check' = [check EXCEPT ![n] = d],
             UNCHANGED <<agent, deviceVars, devfile, proc, runs, history>>
      PROVE  IInv'
  <2>1. check' \in [Nodes -> 0 .. NDevs]
      BY <1>0, <1>7 DEF TypeOK
  <2>2. UNCHANGED <<agent, reg, res, devfile, proc, runs, unfenced, reported, clean,
                    targeted, hurt>>
      BY <1>7 DEF deviceVars, history
  <2> QED BY <2>1, <2>2 DEF IInv, TypeInv, TypeOK, HistoryType, ControlInv,
                Control, ReservedInv, Reserved, AllReserved, CleanInv, Clean, Registers,
                AbsentInv, Absent, AccessInv, Access, Undisturbed
<1>8. ASSUME NEW n \in Nodes, check_start(n) \/ scsi_check(n) PROVE IInv'
  <2>1. NDevs \in Nat \ {0} /\ check[n] \in 0 .. NDevs
      BY <1>0, StorageFenceAssumption DEF TypeOK
  <2>2. CASE check_start(n)
    <3>1. 1 \in 0 .. NDevs
        BY <2>1
    <3>2. /\ check' = [check EXCEPT ![n] = 1]
          /\ UNCHANGED <<agent, deviceVars, devfile, proc, runs, history>>
        BY <2>2 DEF check_start
    <3> QED BY <3>1, <3>2, <1>7
  <2>3. CASE scsi_check(n)
      BY <2>1, <2>3, <1>6, <1>7 DEF scsi_check
  <2> QED BY <1>8, <2>2, <2>3
<1> QED BY <1>1, <1>2, <1>5, <1>8 DEF Next

\* The states of the processes and devices stay well typed.
THEOREM TypeCorrect == Spec => []TypeOK
<1>1. IInv => TypeOK
    BY DEF IInv, TypeInv
<1> QED BY <1>1, InitIInv, NextIInv, PTL DEF Spec

\* Preempting its key on every device keeps a node out until a process of its
\* own registers it again, whatever the other nodes, failures and reboots do.
THEOREM FencedUntilItRegistersCorrect == Spec => []FencedUntilItRegisters
<1>1. IInv => FencedUntilItRegisters
    BY DEF IInv, ReservedInv, Reserved, AllReserved, AbsentInv, Absent,
           FencedUntilItRegisters, CannotWrite
<1> QED BY <1>1, InitIInv, NextIInv, PTL DEF Spec

\* register_dev, which removes the node's own key for a moment, gives it back:
\* a node that is not fenced and has no failures is registered everywhere.
THEOREM KeepsAccessCorrect == Spec => []KeepsAccess
<1>1. IInv => KeepsAccess
    BY DEF IInv, AccessInv, Access, KeepsAccess, Undisturbed, Idle
<1> QED BY <1>1, InitIInv, NextIInv, PTL DEF Spec
=============================================================================
