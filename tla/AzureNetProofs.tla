--------------------------- MODULE AzureNetProofs ---------------------------
(***************************************************************************)
(* Proofs about AzureNet for any number of processes, interfaces, retries, *)
(* polls and faults, and whatever the processes do.                        *)
(***************************************************************************)
EXTENDS AzureNet, TLAPS

Iface  == [subnet : {"home", "fence"}, tag : {"none", "home", "fence"}]
Home   == [subnet |-> "home", tag |-> "none"]
Fence  == [subnet |-> "fence", tag |-> "home"]
Up     == {"starting", "running"}
Points == {"idle", "net", "power", "get", "put", "switch"}

AllHome  == \A n \in Nics : nic[n] = Home
AllFence == \A n \in Nics : nic[n] = Fence

\* The machine is alive and off the network.
Dark == Alive /\ AllFence

\* Process p is in the loop over the interfaces.
Moving(p) == pc[p] \in {"get", "put"}

\* The conditions of the properties.
Ok == hurt \subseteq {"cut"}

Types ==
    /\ nic \in [Nics -> Iface] /\ denies \in BOOLEAN
    /\ vm \in {"running", "stopping", "stopped", "starting"}
    /\ boot \in Nat \ {0} /\ fenced \subseteq 1 .. boot
    /\ does \in [Procs -> {"off", "on", "monitor", "none"}]
    /\ pc \in [Procs -> Points] /\ at \in [Procs -> Nics] /\ allIn \in [Procs -> BOOLEAN]
    /\ copy \in [Procs -> Iface]
    /\ \A p \in Procs : does[p] = "none" => pc[p] = "idle"

\* An off that moves interfaces has the machine up and the interfaces to itself;
\* one that looks does not miss that the machine is dark.
Fencing(p) ==
    /\ Busy(p) => vm \in Up
    /\ Moving(p) => \A n \in Nics : nic[n] = IF n < at[p] THEN Fence ELSE Home
    /\ pc[p] = "put" => copy[p] = Home
    /\ pc[p] = "switch" => AllFence
    /\ pc[p] = "net" /\ Dark => allIn[p]
    /\ pc[p] = "power" => ~Dark
    /\ pc[p] = "idle" => allIn[p]

\* A process that moves interfaces back has a machine that stopped: with its
\* interfaces in the fence subnet, or already at home when it was not started.
Restoring(p) ==
    /\ Busy(p) => vm = "stopped"
    /\ Moving(p) => AllHome \/ \A n \in Nics : nic[n] = IF n < at[p] THEN Home ELSE Fence
    /\ pc[p] = "put" => copy[p] = nic[at[p]]
    /\ pc[p] = "switch" => AllHome

\* The cloud: interfaces are moved as a whole, those of a machine that goes down
\* and of one that was reported off are fenced.
Cloud ==
    /\ \A n \in Nics : nic[n] \in {Home, Fence}
    /\ ~denies => AllHome
    /\ vm = "stopping" => AllFence
    /\ (\A p \in Procs : ~Moving(p)) => AllHome \/ AllFence
    /\ boot \in fenced /\ Alive => AllFence

\* Process p is an off that runs.
OffRuns(p) == does[p] = "off" /\ pc[p] # "idle"

\* One off at a time, and one process that moves interfaces.
Turns ==
    /\ \A p, q \in Procs : OffRuns(p) /\ OffRuns(q) => p = q
    /\ \A p, q \in Procs : Busy(p) /\ Busy(q) => p = q

Work ==
    /\ \A p \in Procs : does[p] = "off" => Fencing(p)
    /\ \A p \in Procs : does[p] # "off" => Restoring(p)

IInv == Types /\ (Ok => Cloud /\ Turns /\ Work)

----------------------------------------------------------------------------
(* What a step of a process does to the variables of the processes.        *)

\* Only the variables of process p change, within their types.
Local(p) ==
    /\ does' = does
    /\ pc' \in [Procs -> Points] /\ at' \in [Procs -> Nics] /\ allIn' \in [Procs -> BOOLEAN]
    /\ copy' \in [Procs -> Iface]
    /\ \A q \in Procs \ {p} : /\ pc'[q] = pc[q] /\ at'[q] = at[q] /\ allIn'[q] = allIn[q]
                              /\ copy'[q] = copy[q]

LEMMA Values ==
    /\ Home \in Iface /\ Fence \in Iface /\ Home # Fence /\ 1 \in Nics /\ NNics \in Nics
    /\ Home.subnet # "fence" /\ Fence.subnet = "fence" /\ Fence.tag = "home" /\ Home.tag = "none"
BY AzureNetAssumption DEF Home, Fence, Iface, Nics

LEMMA LoopMove ==
    ASSUME Types, NEW p \in Procs, NEW l \in Points, Loop(p, l)
    PROVE  Local(p) /\ copy' = copy /\ pc'[p] = l /\ at'[p] = 1 /\ allIn'[p]
BY Values DEF Types, Loop, Local

LEMMA EndMove ==
    ASSUME Types, NEW p \in Procs, End(p)
    PROVE  Local(p) /\ copy' = copy /\ pc'[p] = "idle" /\ allIn'[p]
<1>1. "idle" \in Points /\ Loop(p, "idle")
    BY DEF Points, End
<1> QED BY <1>1, LoopMove

LEMMA NextMove ==
    ASSUME Types, NEW p \in Procs, NextNic(p)
    PROVE  /\ Local(p) /\ copy' = copy
           /\ \/ at[p] < NNics /\ pc'[p] = "get" /\ at'[p] = at[p] + 1
              \/ at[p] = NNics /\ pc'[p] = "switch"
<1>1. /\ 1 \in Nics /\ at[p] \in Nics
      /\ at[p] < NNics => at[p] + 1 \in Nics
      /\ at[p] < NNics \/ at[p] = NNics
    BY AzureNetAssumption DEF Types, Nics
<1>2. "get" \in Points /\ "switch" \in Points
    BY DEF Points
<1> QED BY <1>1, <1>2 DEF Types, NextNic, Local

\* A process begins to move interfaces, and crosses nobody.
LEMMA MoveMove ==
    ASSUME Types, NEW p \in Procs, Move(p)
    PROVE  /\ Local(p) /\ copy' = copy /\ pc'[p] = "get" /\ at'[p] = 1
           /\ hurt \subseteq hurt'
           /\ Ok' => /\ \A q \in Procs \ {p} : ~Busy(q)
                     /\ does[p] = "on" => vm = "stopped"
<1>1. "get" \in Points /\ Loop(p, "get")
    BY DEF Points, Move
<1>2. Local(p) /\ copy' = copy /\ pc'[p] = "get" /\ at'[p] = 1
    BY <1>1, LoopMove
<1>3. hurt \subseteq hurt'
    BY DEF Move
<1>4. Ok' => /\ \A q \in Procs \ {p} : ~Busy(q)
             /\ does[p] = "on" => vm = "stopped"
    BY DEF Move, Ok
<1> QED BY <1>2, <1>3, <1>4

\* get_power_status returned: the process ends, polls again or begins to move.
LEMMA StatusMove ==
    ASSUME Types, NEW p \in Procs, NEW s, StatusIs(p, s)
    PROVE  \/ /\ s = does[p] /\ Local(p) /\ pc'[p] = "idle" /\ allIn'[p] /\ hurt' = hurt
              /\ fenced' = IF s = "off" /\ Alive THEN fenced \cup {boot} ELSE fenced
           \/ s # does[p] /\ Move(p) /\ fenced' = fenced
           \/ /\ s # does[p] /\ Local(p) /\ pc'[p] \in {"net", "idle"} /\ allIn'[p]
              /\ hurt' = hurt /\ fenced' = fenced
<1>0. "net" \in Points
    BY DEF Points
<1>1. CASE s = does[p]
    BY <1>1, EndMove DEF StatusIs
<1>2. CASE s # does[p] /\ polls[p] = 0
    BY <1>2 DEF StatusIs
<1>3. CASE s # does[p] /\ polls[p] # 0 /\ polls[p] < MaxPolls
    BY <1>0, <1>3, LoopMove DEF StatusIs
<1>4. CASE s # does[p] /\ polls[p] # 0 /\ ~(polls[p] < MaxPolls)
    BY <1>4, EndMove DEF StatusIs
<1> QED BY <1>1, <1>2, <1>3, <1>4

----------------------------------------------------------------------------
(* Steps that leave the cloud alone.                                       *)

\* The types are kept by a step of p that changes at most its own variables.
LEMMA TypesKept ==
    ASSUME Types, NEW p \in Procs, Local(p), UNCHANGED <<nic, denies, vm, boot>>,
           fenced' \subseteq fenced \cup {boot}, does[p] # "none"
    PROVE  Types'
BY DEF Types, Local

LEMMA QuietKeeps ==
    ASSUME Types, Cloud, Turns, Work, NEW p \in Procs, Local(p),
           UNCHANGED <<nic, denies, vm, boot>>,
           boot \in fenced' /\ Alive => AllFence,
           does[p] = "off" => Fencing(p)',
           does[p] # "off" => Restoring(p)',
           Busy(p)' => Busy(p) \/ \A q \in Procs \ {p} : ~Busy(q),
           Moving(p) => Moving(p)' \/ AllHome \/ AllFence,
           does[p] = "off" /\ pc'[p] # "idle" =>
              pc[p] # "idle" \/ \A q \in Procs \ {p} : does[q] = "off" => pc[q] = "idle"
    PROVE  Cloud' /\ Turns' /\ Work'
<1>1. /\ does' = does
      /\ \A q \in Procs \ {p} : /\ pc'[q] = pc[q] /\ at'[q] = at[q] /\ allIn'[q] = allIn[q]
                                /\ copy'[q] = copy[q]
    BY DEF Local
<1>2. \A q \in Procs \ {p} : (Busy(q)' <=> Busy(q)) /\ (Moving(q)' <=> Moving(q))
    BY <1>1 DEF Busy, Moving
<1>3. Cloud'
  <2>1. (AllHome' <=> AllHome) /\ (AllFence' <=> AllFence) /\ (Alive' <=> Alive)
      BY DEF AllHome, AllFence, Alive
  <2>2. (\A q \in Procs : ~Moving(q)') => AllHome \/ AllFence
      BY <1>2 DEF Cloud
  <2> QED BY <2>1, <2>2 DEF Cloud
<1>4. Turns'
  <2>1. ASSUME NEW q \in Procs, NEW r \in Procs, q # r, OffRuns(q)', OffRuns(r)'
        PROVE  FALSE
    <3>1. CASE q # p /\ r # p
        BY <1>1, <2>1, <3>1 DEF Turns, OffRuns
    <3>2. CASE q = p
        BY <1>1, <2>1, <3>2 DEF Turns, OffRuns
    <3>3. CASE r = p
        BY <1>1, <2>1, <3>3 DEF Turns, OffRuns
    <3> QED BY <3>1, <3>2, <3>3
  <2>2. ASSUME NEW q \in Procs, NEW r \in Procs, q # r, Busy(q)', Busy(r)'
        PROVE  FALSE
    <3>1. CASE q # p /\ r # p
        BY <1>2, <2>2, <3>1 DEF Turns
    <3>2. CASE q = p
        BY <1>2, <2>2, <3>2 DEF Turns
    <3>3. CASE r = p
        BY <1>2, <2>2, <3>3 DEF Turns
    <3> QED BY <3>1, <3>2, <3>3
  <2> QED BY <2>1, <2>2 DEF Turns
<1>5. Work'
  <2>1. ASSUME NEW q \in Procs \ {p}, does[q] = "off" PROVE Fencing(q)'
    <3>1. Fencing(q) /\ (Busy(q)' <=> Busy(q)) /\ (Moving(q)' <=> Moving(q))
        BY <1>2, <2>1 DEF Work
    <3> QED BY <1>1, <3>1 DEF Fencing, AllFence, Dark, Alive
  <2>2. ASSUME NEW q \in Procs \ {p}, does[q] # "off" PROVE Restoring(q)'
    <3>1. Restoring(q) /\ (Busy(q)' <=> Busy(q)) /\ (Moving(q)' <=> Moving(q))
        BY <1>2, <2>2 DEF Work
    <3> QED BY <1>1, <3>1 DEF Restoring, AllHome
  <2> QED BY <1>1, <2>1, <2>2 DEF Work
<1> QED BY <1>3, <1>4, <1>5

\* What a process that does not move interfaces after the step owes.
LEMMA AtRest ==
    ASSUME NEW p \in Procs, pc'[p] \in {"idle", "net", "power"}
    PROVE  /\ ~Busy(p)' /\ ~Moving(p)' /\ Restoring(p)'
           /\ allIn'[p] /\ pc'[p] # "power" => Fencing(p)'
BY DEF Busy, Moving, Restoring, Fencing

LEMMA StartKeeps ==
    ASSUME IInv, NEW p \in Procs, Start(p)
    PROVE  IInv'
<1>0. /\ Types /\ does[p] # "none" /\ pc[p] = "idle" /\ pc' = [pc EXCEPT ![p] = "net"]
      /\ UNCHANGED <<nic, denies, vm, boot, fenced, does, at, allIn, copy>>
      /\ hurt \subseteq hurt'
    BY DEF IInv, Start, cloudVars
<1>1. Local(p) /\ pc'[p] = "net"
    BY <1>0 DEF Types, Local, Points
<1>2. Types'
    BY <1>0, <1>1, TypesKept
<1>3. ASSUME Ok' PROVE Cloud' /\ Turns' /\ Work'
  <2>1. Cloud /\ Turns /\ Work
      BY <1>0, <1>3 DEF IInv, Ok
  <2>2. does[p] = "off" => \A q \in Procs \ {p} : does[q] = "off" => pc[q] = "idle"
      BY <1>3 DEF Start, Ok
  <2>3. ~Busy(p)' /\ ~Moving(p) /\ Restoring(p)'
      BY <1>0, <1>1, AtRest DEF Moving
  <2>4. does[p] = "off" => Fencing(p)'
      BY <1>0, <1>1, <2>1, AtRest DEF Work, Fencing
  <2>5. boot \in fenced' /\ Alive => AllFence
      BY <1>0, <2>1 DEF Cloud
  <2> QED BY <1>0, <1>1, <2>1, <2>2, <2>3, <2>4, <2>5, QuietKeeps
<1> QED BY <1>2, <1>3 DEF IInv

\* A process dies.
LEMMA DiesKeeps ==
    ASSUME IInv, NEW p \in Procs, Dies(p)
    PROVE  IInv'
<1>0. /\ Types /\ does[p] # "none" /\ hurt \subseteq hurt'
      /\ UNCHANGED <<nic, denies, vm, boot, fenced>>
    BY DEF IInv, Types, Dies, cloudVars
<1>1. Local(p) /\ pc'[p] = "idle" /\ allIn'[p]
    BY <1>0, EndMove DEF Dies
<1>2. Types'
    BY <1>0, <1>1, TypesKept
<1>3. ASSUME Ok' PROVE Cloud' /\ Turns' /\ Work'
  <2>1. Cloud /\ Turns /\ Work
      BY <1>0, <1>3 DEF IInv, Ok
  <2>2. ~Moving(p)
      BY <1>3 DEF Dies, Ok, Moving
  <2>3. ~Busy(p)' /\ Restoring(p)' /\ Fencing(p)'
      BY <1>1, AtRest
  <2>4. boot \in fenced' /\ Alive => AllFence
      BY <1>0, <2>1 DEF Cloud
  <2> QED BY <1>0, <1>1, <2>1, <2>2, <2>3, <2>4, QuietKeeps
<1> QED BY <1>2, <1>3 DEF IInv

\* A process ends, or goes on to look, and nothing else changes.
LEMMA LookKeeps ==
    ASSUME IInv, NEW p \in Procs, Local(p), UNCHANGED <<nic, denies, vm, boot, fenced, hurt>>,
           pc[p] \in {"net", "power"}, pc'[p] \in {"idle", "net", "power"},
           does[p] = "off" => (allIn'[p] /\ pc'[p] # "power") \/ (Ok => Fencing(p)')
    PROVE  IInv'
<1>1. Types'
  <2>1. Types /\ does[p] # "none"
      BY DEF IInv, Types
  <2> QED BY <2>1, TypesKept
<1>2. ASSUME Ok' PROVE Cloud' /\ Turns' /\ Work'
  <2>1. Types /\ Cloud /\ Turns /\ Work /\ Ok
      BY <1>2 DEF IInv, Ok
  <2>2. ~Moving(p) /\ ~Busy(p)' /\ Restoring(p)'
      BY AtRest DEF Moving
  <2>3. does[p] = "off" => Fencing(p)'
      BY <2>1, AtRest
  <2>4. boot \in fenced' /\ Alive => AllFence
      BY <2>1 DEF Cloud
  <2> QED BY <2>1, <2>2, <2>3, <2>4, QuietKeeps
<1> QED BY <1>1, <1>2 DEF IInv

\* A process begins to move the interfaces.
LEMMA MoveKeeps ==
    ASSUME IInv, NEW p \in Procs, Move(p), UNCHANGED <<nic, denies, vm, boot, fenced>>,
           pc[p] \in {"net", "power"},
           does[p] = "off" => pc[p] = "power" /\ vm # "stopped",
           does[p] \notin {"on", "off"} => vm = "stopped"
    PROVE  IInv'
<1>0. /\ Types /\ Local(p) /\ copy' = copy /\ pc'[p] = "get" /\ at'[p] = 1
      /\ does[p] # "none" /\ hurt \subseteq hurt'
      /\ Ok' => /\ \A q \in Procs \ {p} : ~Busy(q)
                /\ does[p] = "on" => vm = "stopped"
  <2>1. Types /\ does[p] # "none"
      BY DEF IInv, Types
  <2> QED BY <2>1, MoveMove
<1>1. Types'
    BY <1>0, TypesKept
<1>2. ASSUME Ok' PROVE Cloud' /\ Turns' /\ Work'
  <2>1. Cloud /\ Turns /\ Work
      BY <1>0, <1>2 DEF IInv, Ok
  <2>2. \A q \in Procs : ~Moving(q) /\ (q # p => ~Busy(q))
      BY <1>0, <1>2 DEF Busy, Moving
  <2>3. AllHome \/ AllFence
      BY <2>1, <2>2 DEF Cloud
  <2>4. Moving(p)' /\ \A n \in Nics : ~(n < at'[p])
      BY <1>0 DEF Moving, Nics
  <2>5. does[p] = "off" => Fencing(p)'
    <3> SUFFICES ASSUME does[p] = "off" PROVE Fencing(p)'
        OBVIOUS
    <3>1. ~Dark /\ vm # "stopped" /\ Alive
        BY <1>0, <2>1 DEF Work, Fencing, Types, Alive
    <3>2. AllHome /\ vm \in Up
      <4>1. ~AllFence
          BY <3>1 DEF Dark
      <4> QED BY <1>0, <2>1, <2>3, <3>1, <4>1 DEF Cloud, Types, Up
    <3>3. \A n \in Nics : nic'[n] = IF n < at'[p] THEN Fence ELSE Home
        BY <2>4, <3>2 DEF AllHome
    <3> QED BY <1>0, <3>2, <3>3 DEF Fencing
  <2>6. does[p] # "off" => Restoring(p)'
    <3> SUFFICES ASSUME does[p] # "off" PROVE Restoring(p)'
        OBVIOUS
    <3>1. vm = "stopped"
        BY <1>0, <1>2 DEF Types
    <3>2. AllHome' \/ \A n \in Nics : nic'[n] = IF n < at'[p] THEN Home ELSE Fence
        BY <2>3, <2>4 DEF AllHome, AllFence
    <3> QED BY <1>0, <3>1, <3>2 DEF Restoring
  <2>7. boot \in fenced' /\ Alive => AllFence
      BY <2>1 DEF Cloud
  <2> QED BY <1>0, <2>1, <2>2, <2>3, <2>5, <2>6, <2>7, QuietKeeps
<1> QED BY <1>1, <1>2 DEF IInv

\* While a process looks and the machine is alive nobody moves interfaces, but for
\* another off.
LEMMA Settled ==
    ASSUME Types, Cloud, Turns, Work, Alive, NEW p \in Procs, does[p] = "off",
           pc[p] \in {"net", "power"}
    PROVE  AllHome \/ AllFence
<1>1. ASSUME NEW q \in Procs PROVE ~Moving(q)
  <2>1. CASE q = p
      BY <2>1 DEF Moving
  <2>2. CASE q # p /\ does[q] = "off"
      BY <2>2 DEF Turns, OffRuns, Moving
  <2>3. CASE does[q] # "off"
    <3>1. Restoring(q) /\ vm # "stopped"
        BY <2>3 DEF Work, Alive
    <3> QED BY <3>1 DEF Restoring, Busy, Moving
  <2> QED BY <2>1, <2>2, <2>3
<1> QED BY <1>1 DEF Cloud

\* get_network_state reads an interface.
LEMMA NetworkRead ==
    ASSUME IInv, NEW p \in Procs, get_network_state(p)
    PROVE  IInv'
<1> DEFINE in == denies /\ nic[at[p]].subnet = "fence"
<1>0. /\ Types /\ UNCHANGED <<nic, denies, vm, boot>> /\ pc[p] = "net" /\ at[p] \in Nics
      /\ does[p] # "none"
    BY DEF IInv, Types, get_network_state, cloudVars
<1>1. Ok /\ Dark => in
  <2> SUFFICES ASSUME Ok, Dark PROVE in
      OBVIOUS
  <2>1. Cloud /\ nic[at[p]] = Fence
      BY <1>0 DEF IInv, Dark, AllFence
  <2>2. denies
      BY <1>0, <2>1, Values DEF Cloud, AllHome, Types
  <2> QED BY <2>1, <2>2, Values
<1>2. CASE at[p] < NNics
  <2>1. /\ at' = [at EXCEPT ![p] = @ + 1] /\ allIn' = [allIn EXCEPT ![p] = @ /\ in]
        /\ UNCHANGED <<does, pc, copy, fenced, hurt>>
      BY <1>2 DEF get_network_state
  <2>2. at[p] + 1 \in Nics
      BY <1>0, <1>2, AzureNetAssumption DEF Nics
  <2>3. Local(p) /\ pc'[p] = "net" /\ (allIn'[p] <=> allIn[p] /\ in)
      BY <1>0, <2>1, <2>2 DEF Types, Local
  <2>4. does[p] = "off" /\ Ok => Fencing(p)'
    <3> SUFFICES ASSUME does[p] = "off", Ok PROVE Fencing(p)'
        OBVIOUS
    <3>1. Dark => allIn[p]
        BY <1>0 DEF IInv, Work, Fencing
    <3>2. Dark' => allIn'[p]
        BY <1>0, <1>1, <2>3, <3>1 DEF Dark, Alive, AllFence
    <3> QED BY <2>3, <3>2 DEF Fencing, Busy, Moving
  <2> QED BY <1>0, <2>1, <2>3, <2>4, LookKeeps
<1>3. CASE ~(at[p] < NNics) /\ does[p] = "monitor"
  <2>1. /\ UNCHANGED <<fenced, hurt>>
        /\ Loop(p, "power") \/ Loop(p, "idle")
      BY <1>3 DEF get_network_state
  <2>2. Local(p) /\ pc'[p] \in {"power", "idle"}
      BY <1>0, <2>1, LoopMove DEF Points
  <2> QED BY <1>0, <1>3, <2>1, <2>2, LookKeeps
<1>4. CASE ~(at[p] < NNics) /\ does[p] # "monitor" /\ NetworkOff(p, in)
  <2>1. StatusIs(p, "off")
      BY <1>4 DEF get_network_state
  <2>2. CASE does[p] = "off"
    <3>1. /\ Local(p) /\ pc'[p] = "idle" /\ allIn'[p] /\ hurt' = hurt
          /\ fenced' = IF Alive THEN fenced \cup {boot} ELSE fenced
        BY <1>0, <2>1, <2>2, StatusMove
    <3>2. Types'
        BY <1>0, <3>1, TypesKept
    <3>3. ASSUME Ok' PROVE Cloud' /\ Turns' /\ Work'
      <4>1. Cloud /\ Turns /\ Work
          BY <3>1, <3>3 DEF IInv, Ok
      <4>2. Alive => AllFence
        <5>1. Alive => AllHome \/ AllFence
            BY <1>0, <2>2, <4>1, Settled
        <5>2. AllHome => nic[at[p]].subnet # "fence"
            BY <1>0, Values DEF AllHome
        <5> QED BY <1>4, <5>1, <5>2 DEF NetworkOff
      <4>3. boot \in fenced' /\ Alive => AllFence
          BY <4>2
      <4>4. ~Busy(p)' /\ ~Moving(p) /\ Fencing(p)'
          BY <1>0, <3>1, AtRest DEF Moving
      <4> QED BY <1>0, <2>2, <3>1, <4>1, <4>3, <4>4, QuietKeeps
    <3> QED BY <3>2, <3>3 DEF IInv
  <2>3. CASE does[p] # "off"
    <3>1. does[p] = "on"
        BY <1>0, <1>4, <2>3 DEF Types
    <3>2. CASE Move(p) /\ fenced' = fenced
        BY <1>0, <3>1, <3>2, MoveKeeps
    <3>3. CASE /\ Local(p) /\ pc'[p] \in {"net", "idle"} /\ allIn'[p]
               /\ hurt' = hurt /\ fenced' = fenced
        BY <1>0, <2>3, <3>3, LookKeeps
    <3> QED BY <1>0, <2>1, <2>3, <3>2, <3>3, StatusMove
  <2> QED BY <2>2, <2>3
<1>5. CASE ~(at[p] < NNics) /\ does[p] # "monitor" /\ ~NetworkOff(p, in)
  <2>1. Loop(p, "power") /\ UNCHANGED <<fenced, hurt>>
      BY <1>5 DEF get_network_state
  <2>2. Local(p) /\ pc'[p] = "power"
      BY <1>0, <2>1, LoopMove DEF Points
  <2>3. does[p] = "off" /\ Ok => Fencing(p)'
    <3> SUFFICES ASSUME does[p] = "off", Ok PROVE Fencing(p)'
        OBVIOUS
    <3>1. Dark => allIn[p]
        BY <1>0 DEF IInv, Work, Fencing
    <3>2. ~Dark
        BY <1>1, <1>5, <3>1 DEF NetworkOff
    <3>3. ~Dark'
        BY <1>0, <3>2 DEF Dark, Alive, AllFence
    <3> QED BY <2>2, <3>3 DEF Fencing, Busy, Moving
  <2> QED BY <1>0, <2>1, <2>2, <2>3, LookKeeps
<1> QED BY <1>2, <1>3, <1>4, <1>5

\* get_power_status reads the power state.
LEMMA PowerRead ==
    ASSUME IInv, NEW p \in Procs, get_power_status(p)
    PROVE  IInv'
<1>0. /\ Types /\ UNCHANGED <<nic, denies, vm, boot>> /\ pc[p] = "power"
      /\ does[p] # "none"
    BY DEF IInv, Types, get_power_status, cloudVars
<1>1. CASE does[p] = "monitor"
  <2>1. CASE PowerOff(p)
    <3>1. Move(p) /\ fenced' = fenced /\ vm = "stopped"
        BY <1>1, <2>1 DEF get_power_status, PowerOff
    <3> QED BY <1>0, <1>1, <3>1, MoveKeeps
  <2>2. CASE ~PowerOff(p)
    <3>1. Loop(p, "idle") /\ UNCHANGED <<fenced, hurt>>
        BY <1>1, <2>2 DEF get_power_status
    <3>2. Local(p) /\ pc'[p] = "idle"
        BY <1>0, <3>1, LoopMove DEF Points
    <3> QED BY <1>0, <1>1, <3>1, <3>2, LookKeeps
  <2> QED BY <2>1, <2>2
<1>2. CASE does[p] # "monitor"
  <2>0. PICK s : s = IF PowerOff(p) THEN "off" ELSE "on"
      OBVIOUS
  <2>1. StatusIs(p, s)
      BY <1>2, <2>0 DEF get_power_status
  <2>2. CASE /\ s = does[p] /\ Local(p) /\ pc'[p] = "idle" /\ allIn'[p] /\ hurt' = hurt
             /\ fenced' = IF s = "off" /\ Alive THEN fenced \cup {boot} ELSE fenced
    <3>1. s = "off" => vm = "stopped"
        BY <2>0, <2>2 DEF PowerOff
    <3>2. fenced' = fenced
        BY <2>2, <3>1 DEF Alive
    <3> QED BY <1>0, <2>2, <3>2, LookKeeps
  <2>3. CASE s # does[p] /\ Move(p) /\ fenced' = fenced
    <3>1. does[p] = "off" => vm # "stopped"
        BY <2>0, <2>3 DEF PowerOff
    <3>2. does[p] \in {"on", "off"}
        BY <1>0, <1>2 DEF Types
    <3> QED BY <1>0, <2>3, <3>1, <3>2, MoveKeeps
  <2>4. CASE /\ s # does[p] /\ Local(p) /\ pc'[p] \in {"net", "idle"} /\ allIn'[p]
             /\ hurt' = hurt /\ fenced' = fenced
      BY <1>0, <2>4, LookKeeps
  <2> QED BY <1>0, <2>1, <2>2, <2>3, <2>4, StatusMove
<1> QED BY <1>1, <1>2

----------------------------------------------------------------------------
(* Steps that move interfaces.                                             *)

\* set_network_state reads an interface.
LEMMA NicRead ==
    ASSUME IInv, NEW p \in Procs, nic_get(p)
    PROVE  IInv'
<1>0. /\ Types /\ does[p] # "none" /\ pc[p] = "get" /\ at[p] \in Nics
      /\ pc' = [pc EXCEPT ![p] = "put"] /\ copy' = [copy EXCEPT ![p] = nic[at[p]]]
      /\ UNCHANGED <<nic, denies, vm, boot, fenced, hurt, does, at, allIn>>
    BY DEF IInv, Types, nic_get, cloudVars
<1>1. Local(p) /\ pc'[p] = "put" /\ copy'[p] = nic[at[p]]
    BY <1>0 DEF Types, Local, Points
<1>2. Types'
    BY <1>0, <1>1, TypesKept
<1>3. ASSUME Ok' PROVE Cloud' /\ Turns' /\ Work'
  <2>1. Cloud /\ Turns /\ Work
      BY <1>0, <1>3 DEF IInv, Ok
  <2>2. Busy(p) /\ Moving(p) /\ Moving(p)' /\ Busy(p)'
      BY <1>0, <1>1 DEF Busy, Moving
  <2>3. does[p] = "off" => Fencing(p)'
    <3> SUFFICES ASSUME does[p] = "off" PROVE Fencing(p)'
        OBVIOUS
    <3>1. /\ vm \in Up
          /\ \A n \in Nics : nic[n] = IF n < at[p] THEN Fence ELSE Home
        BY <2>1, <2>2 DEF Work, Fencing
    <3>2. nic[at[p]] = Home
        BY <1>0, <3>1 DEF Nics
    <3> QED BY <1>0, <1>1, <3>1, <3>2 DEF Fencing
  <2>4. does[p] # "off" => Restoring(p)'
    <3> SUFFICES ASSUME does[p] # "off" PROVE Restoring(p)'
        OBVIOUS
    <3>1. /\ vm = "stopped"
          /\ AllHome \/ \A n \in Nics : nic[n] = IF n < at[p] THEN Home ELSE Fence
        BY <2>1, <2>2 DEF Work, Restoring
    <3> QED BY <1>0, <1>1, <3>1 DEF Restoring, AllHome
  <2>5. boot \in fenced' /\ Alive => AllFence
      BY <1>0, <2>1 DEF Cloud
  <2> QED BY <1>0, <1>1, <2>1, <2>2, <2>3, <2>4, <2>5, QuietKeeps
<1> QED BY <1>2, <1>3 DEF IInv

\* A CloudError: the interface is read again.
LEMMA CloudError ==
    ASSUME IInv, NEW p \in Procs, nic_cloud_error(p)
    PROVE  IInv'
<1>0. /\ Types /\ does[p] # "none" /\ pc[p] \in {"get", "put"}
      /\ pc' = [pc EXCEPT ![p] = "get"]
      /\ UNCHANGED <<nic, denies, vm, boot, fenced, hurt, does, at, allIn, copy>>
    BY DEF IInv, Types, nic_cloud_error, cloudVars
<1>1. Local(p) /\ pc'[p] = "get"
    BY <1>0 DEF Types, Local, Points
<1>2. Types'
    BY <1>0, <1>1, TypesKept
<1>3. ASSUME Ok' PROVE Cloud' /\ Turns' /\ Work'
  <2>1. Cloud /\ Turns /\ Work
      BY <1>0, <1>3 DEF IInv, Ok
  <2>2. Busy(p) /\ Moving(p) /\ Moving(p)' /\ Busy(p)'
      BY <1>0, <1>1 DEF Busy, Moving
  <2>3. does[p] = "off" => Fencing(p)'
      BY <1>0, <1>1, <2>1, <2>2 DEF Work, Fencing
  <2>4. does[p] # "off" => Restoring(p)'
      BY <1>0, <1>1, <2>1, <2>2 DEF Work, Restoring, AllHome
  <2>5. boot \in fenced' /\ Alive => AllFence
      BY <1>0, <2>1 DEF Cloud
  <2> QED BY <1>0, <1>1, <2>1, <2>2, <2>3, <2>4, <2>5, QuietKeeps
<1> QED BY <1>2, <1>3 DEF IInv

\* An interface that is skipped is left half moved.
LEMMA Skipped ==
    ASSUME IInv, NEW p \in Procs, nic_skipped(p)
    PROVE  IInv'
<1>0. /\ Types /\ does[p] # "none" /\ UNCHANGED <<nic, denies, vm, boot, fenced>> /\ NextNic(p)
    BY DEF IInv, Types, nic_skipped, cloudVars
<1>1. Local(p)
    BY <1>0, NextMove
<1>2. Types'
    BY <1>0, <1>1, TypesKept
<1>3. ~Ok'
    BY DEF nic_skipped, Ok
<1> QED BY <1>2, <1>3 DEF IInv

\* A process that moves interfaces back and reads one without its tag has nothing
\* to do.
LEMMA NothingToDo ==
    ASSUME IInv, Ok, NEW p \in Procs, pc[p] = "put",
           IF does[p] = "off" THEN ~denies ELSE copy[p].tag = "none"
    PROVE  AllHome
<1>0. Types /\ Cloud /\ Work /\ at[p] \in Nics /\ Moving(p)
    BY DEF IInv, Types, Moving
<1>1. CASE does[p] = "off"
    BY <1>0, <1>1 DEF Cloud
<1>2. CASE does[p] # "off"
  <2>1. /\ copy[p] = nic[at[p]]
        /\ AllHome \/ \A n \in Nics : nic[n] = IF n < at[p] THEN Home ELSE Fence
      BY <1>0, <1>2 DEF Work, Restoring
  <2>2. nic[at[p]] # Fence
      BY <1>2, <2>1, Values
  <2>3. ~(at[p] < at[p])
      BY <1>0 DEF Nics
  <2> QED BY <1>0, <2>1, <2>2, <2>3
<1> QED BY <1>1, <1>2

LEMMA UnusableKeeps ==
    ASSUME IInv, NEW p \in Procs, nic_unusable(p)
    PROVE  IInv'
<1>0. /\ Types /\ does[p] # "none" /\ pc[p] = "put"
      /\ IF does[p] = "off" THEN ~denies ELSE copy[p].tag = "none"
      /\ UNCHANGED <<nic, denies, vm, boot, fenced, hurt>>
    BY DEF IInv, Types, nic_unusable, cloudVars
<1>1. Local(p) /\ pc'[p] = "idle" /\ allIn'[p]
    BY <1>0, EndMove DEF nic_unusable
<1>2. Types'
    BY <1>0, <1>1, TypesKept
<1>3. ASSUME Ok' PROVE Cloud' /\ Turns' /\ Work'
  <2>1. Cloud /\ Turns /\ Work /\ Ok
      BY <1>0, <1>3 DEF IInv, Ok
  <2>2. AllHome
      BY <1>0, <2>1, NothingToDo
  <2>3. ~Busy(p)' /\ Restoring(p)' /\ Fencing(p)'
      BY <1>1, AtRest
  <2>4. boot \in fenced' /\ Alive => AllFence
      BY <1>0, <2>1 DEF Cloud
  <2> QED BY <1>0, <1>1, <2>1, <2>2, <2>3, <2>4, QuietKeeps
<1> QED BY <1>2, <1>3 DEF IInv

LEMMA UntaggedKeeps ==
    ASSUME IInv, NEW p \in Procs, nic_untagged(p)
    PROVE  IInv'
<1>0. /\ Types /\ does[p] # "none" /\ pc[p] = "put" /\ does[p] # "off" /\ copy[p].tag = "none"
      /\ UNCHANGED <<nic, denies, vm, boot, fenced, hurt>> /\ NextNic(p)
    BY DEF IInv, Types, nic_untagged, cloudVars
<1>1. Local(p) /\ pc'[p] \in {"get", "switch"}
    BY <1>0, NextMove
<1>2. Types'
    BY <1>0, <1>1, TypesKept
<1>3. ASSUME Ok' PROVE Cloud' /\ Turns' /\ Work'
  <2>1. Cloud /\ Turns /\ Work /\ Ok
      BY <1>0, <1>3 DEF IInv, Ok
  <2>2. AllHome
      BY <1>0, <2>1, NothingToDo
  <2>3. Busy(p) /\ Moving(p) /\ Busy(p)'
      BY <1>0, <1>1 DEF Busy, Moving
  <2>4. vm = "stopped"
      BY <1>0, <2>1, <2>3 DEF Work, Restoring
  <2>5. Restoring(p)'
      BY <1>0, <1>1, <2>2, <2>4 DEF Restoring, AllHome
  <2>6. boot \in fenced' /\ Alive => AllFence
      BY <1>0, <2>1 DEF Cloud
  <2> QED BY <1>0, <1>1, <2>1, <2>2, <2>3, <2>5, <2>6, QuietKeeps
<1> QED BY <1>2, <1>3 DEF IInv

\* Beside a process that is busy there is none, and other offs that run are only
\* beside a process that does not fence.
LEMMA OnlyOne ==
    ASSUME Types, Turns, NEW p \in Procs, Busy(p), NEW q \in Procs \ {p}
    PROVE  ~Busy(q) /\ ~Moving(q) /\ (does[p] = "off" /\ does[q] = "off" => pc[q] = "idle")
<1>1. ~Busy(q)
    BY DEF Turns
<1>2. does[p] = "off" /\ does[q] = "off" => pc[q] = "idle"
    BY DEF Turns, OffRuns, Busy
<1> QED BY <1>1, <1>2 DEF Busy, Moving

\* A step of a process that is busy, with the interfaces moved or the machine
\* switched: the others neither are busy nor become so.
LEMMA BusyKeeps ==
    ASSUME Types, Turns, Work, NEW p \in Procs, Busy(p), Local(p),
           does[p] = "off" => Fencing(p)',
           does[p] # "off" => Restoring(p)' /\ ~Dark'
    PROVE  Turns' /\ Work'
<1>1. /\ does' = does
      /\ \A q \in Procs \ {p} : /\ pc'[q] = pc[q] /\ at'[q] = at[q] /\ allIn'[q] = allIn[q]
                                /\ copy'[q] = copy[q]
    BY DEF Local
<1>2. \A q \in Procs \ {p} : ~Busy(q)' /\ ~Moving(q)'
    BY <1>1, OnlyOne DEF Busy, Moving
<1>3. Turns'
  <2>1. \A q, r \in Procs : Busy(q)' /\ Busy(r)' => q = r
      BY <1>2
  <2>2. \A q \in Procs : OffRuns(q)' => OffRuns(q)
      BY <1>1 DEF OffRuns, Busy
  <2> QED BY <2>1, <2>2 DEF Turns
<1>4. Work'
  <2>1. ASSUME NEW q \in Procs \ {p}, does[q] # "off" PROVE Restoring(q)'
    <3>1. pc'[q] \notin {"get", "put", "switch"}
        BY <1>2 DEF Busy
    <3> QED BY <1>2, <3>1 DEF Restoring
  <2>2. ASSUME NEW q \in Procs \ {p}, does[q] = "off" PROVE Fencing(q)'
    <3>1. pc'[q] \notin {"get", "put", "switch"}
        BY <1>2 DEF Busy
    <3>2. pc'[q] = "idle" => allIn'[q]
        BY <1>1, <2>2 DEF Work, Fencing
    <3>3. pc'[q] = "idle" \/ ~Dark'
        BY <1>1, <2>2, OnlyOne
    <3> QED BY <1>2, <3>1, <3>2, <3>3 DEF Fencing
  <2> QED BY <1>1, <2>1, <2>2 DEF Work
<1> QED BY <1>3, <1>4

\* An interface is moved.
LEMMA PutKeeps ==
    ASSUME IInv, NEW p \in Procs, nic_put(p)
    PROVE  IInv'
<1>0. /\ Types /\ does[p] # "none" /\ pc[p] = "put" /\ at[p] \in Nics /\ copy[p] \in Iface
      /\ UNCHANGED <<denies, vm, boot, fenced, hurt>> /\ NextNic(p)
    BY DEF IInv, Types, nic_put
<1>1. /\ Local(p) /\ copy' = copy
      /\ \/ at[p] < NNics /\ pc'[p] = "get" /\ at'[p] = at[p] + 1
         \/ at[p] = NNics /\ pc'[p] = "switch"
    BY <1>0, NextMove
<1>2. PICK c : c = IF does[p] = "off" THEN Blocked(copy[p]) ELSE Unblocked(copy[p])
    OBVIOUS
<1>3. nic' = [nic EXCEPT ![at[p]] = c]
    BY <1>2 DEF nic_put
<1>4. c \in Iface
  <2>1. CASE does[p] = "off"
      BY <1>0, <1>2, <2>1 DEF Blocked, Iface
  <2>2. CASE does[p] # "off"
    <3>1. copy[p].tag \in {"home", "fence"}
        BY <1>0, <2>2 DEF nic_put, Iface
    <3> QED BY <1>2, <2>2, <3>1 DEF Unblocked, Iface
  <2> QED BY <2>1, <2>2
<1>5. Types'
    BY <1>0, <1>1, <1>3, <1>4 DEF Types, Local
<1>6. ASSUME Ok' PROVE Cloud' /\ Turns' /\ Work'
  <2>1. Cloud /\ Turns /\ Work
      BY <1>0, <1>6 DEF IInv, Ok
  <2>2. Busy(p) /\ Moving(p) /\ Busy(p)' /\ (Moving(p)' <=> pc'[p] = "get")
      BY <1>0, <1>1 DEF Busy, Moving
  <2>3. nic'[at[p]] = c /\ \A n \in Nics \ {at[p]} : nic'[n] = nic[n]
      BY <1>0, <1>3 DEF Types
  <2>4. /\ at[p] \in Int /\ NNics \in Int /\ \A n \in Nics : n \in Int /\ n <= NNics
        /\ \A n \in Nics : n < at[p] + 1 <=> n < at[p] \/ n = at[p]
      BY <1>0, AzureNetAssumption DEF Nics
  <2>5. CASE does[p] = "off"
    <3>1. /\ vm \in Up /\ copy[p] = Home /\ denies
          /\ \A n \in Nics : nic[n] = IF n < at[p] THEN Fence ELSE Home
        BY <1>0, <2>1, <2>2, <2>5 DEF Work, Fencing, nic_put
    <3>2. c = Fence
        BY <1>2, <2>5, <3>1 DEF Blocked, Home, Fence
    <3>3. \A n \in Nics : nic'[n] = IF n < at[p] + 1 THEN Fence ELSE Home
        BY <2>3, <2>4, <3>1, <3>2
    <3>4. pc'[p] = "switch" => AllFence'
        BY <1>1, <2>4, <3>3 DEF AllFence
    <3>5. Fencing(p)'
        BY <1>0, <1>1, <2>2, <3>1, <3>3, <3>4 DEF Fencing
    <3>6. Turns' /\ Work'
        BY <1>0, <1>1, <2>1, <2>2, <2>5, <3>5, BusyKeeps
    <3>7. ~AllFence /\ Alive
        BY <1>0, <2>4, <3>1, Values DEF AllFence, Alive, Up
    <3>8. boot \notin fenced
        BY <2>1, <3>7 DEF Cloud
    <3>9. (\A q \in Procs : ~Moving(q)') => AllFence'
        BY <1>1, <2>2, <3>4
    <3>10. \A n \in Nics : nic'[n] \in {Home, Fence}
        BY <3>3
    <3>11. Cloud'
        BY <1>0, <3>1, <3>8, <3>9, <3>10 DEF Cloud, Up
    <3> QED BY <3>6, <3>11
  <2>6. CASE does[p] # "off"
    <3>1. /\ vm = "stopped" /\ copy[p] = nic[at[p]] /\ copy[p].tag # "none"
          /\ AllHome \/ \A n \in Nics : nic[n] = IF n < at[p] THEN Home ELSE Fence
        BY <1>0, <2>1, <2>2, <2>6 DEF Work, Restoring, nic_put
    <3>2. nic[at[p]] = Fence
        BY <1>0, <2>1, <3>1, Values DEF Cloud
    <3>3. c = Home
        BY <1>2, <2>6, <3>1, <3>2 DEF Unblocked, Home, Fence
    <3>4. \A n \in Nics : nic[n] = IF n < at[p] THEN Home ELSE Fence
        BY <1>0, <3>1, <3>2, Values DEF AllHome
    <3>5. \A n \in Nics : nic'[n] = IF n < at[p] + 1 THEN Home ELSE Fence
        BY <2>3, <2>4, <3>3, <3>4
    <3>6. pc'[p] = "switch" => AllHome'
        BY <1>1, <2>4, <3>5 DEF AllHome
    <3>7. Restoring(p)'
        BY <1>0, <1>1, <2>2, <3>1, <3>5, <3>6 DEF Restoring
    <3>8. ~Alive' /\ ~Dark'
        BY <1>0, <3>1 DEF Alive, Dark
    <3>9. Turns' /\ Work'
        BY <1>0, <1>1, <2>1, <2>2, <2>6, <3>7, <3>8, BusyKeeps
    <3>10. denies
        BY <1>0, <2>1, <3>2, Values DEF Cloud, AllHome, Types
    <3>11. (\A q \in Procs : ~Moving(q)') => AllHome'
        BY <1>1, <2>2, <3>6
    <3>12. \A n \in Nics : nic'[n] \in {Home, Fence}
        BY <3>5
    <3>13. Cloud'
        BY <1>0, <3>1, <3>8, <3>10, <3>11, <3>12 DEF Cloud
    <3> QED BY <3>9, <3>13
  <2> QED BY <2>5, <2>6
<1> QED BY <1>5, <1>6 DEF IInv

\* The machine is powered off or started.
LEMMA SwitchKeeps ==
    ASSUME IInv, NEW p \in Procs, set_power_status(p)
    PROVE  IInv'
<1>0. /\ Types /\ does[p] # "none" /\ pc[p] = "switch" /\ Busy(p)
      /\ UNCHANGED <<nic, denies, fenced, hurt>>
    BY DEF IInv, Types, set_power_status, Busy
<1>1. End(p) \/ Loop(p, "net")
    BY DEF set_power_status
<1>2. Local(p) /\ pc'[p] \in {"idle", "net"} /\ allIn'[p]
    BY <1>0, <1>1, EndMove, LoopMove DEF Points
<1>3. ~Busy(p)' /\ ~Moving(p)' /\ Restoring(p)' /\ Fencing(p)'
    BY <1>2, AtRest
<1>4. /\ vm' \in {"running", "stopping", "stopped", "starting"}
      /\ boot' = boot \/ boot' = boot + 1
    BY <1>0 DEF Types, set_power_status
<1>5. Types'
  <2>1. boot' \in Nat \ {0} /\ fenced' \subseteq 1 .. boot'
      BY <1>0, <1>4 DEF Types
  <2> QED BY <1>0, <1>2, <1>4, <2>1 DEF Types, Local
<1>6. ASSUME Ok' PROVE Cloud' /\ Turns' /\ Work'
  <2>1. Cloud /\ Turns /\ Work
      BY <1>0, <1>6 DEF IInv, Ok
  <2>2. (AllHome' <=> AllHome) /\ (AllFence' <=> AllFence) /\ ~(AllHome /\ AllFence)
      BY <1>0, Values DEF AllHome, AllFence
  <2>3. CASE does[p] = "off"
    <3>1. vm \in Up /\ AllFence
        BY <1>0, <2>1, <2>3 DEF Work, Fencing
    <3>2. vm' = "stopping" /\ boot' = boot
        BY <2>3, <3>1 DEF set_power_status, Alive, Up
    <3>3. Turns' /\ Work'
        BY <1>0, <1>2, <1>3, <2>1, <2>3, BusyKeeps
    <3>4. Cloud'
        BY <1>0, <2>1, <2>2, <3>1 DEF Cloud
    <3> QED BY <3>3, <3>4
  <2>4. CASE does[p] # "off"
    <3>1. vm = "stopped" /\ AllHome
        BY <1>0, <2>1, <2>4 DEF Work, Restoring
    <3>2. vm' = "starting" /\ boot' = boot + 1
        BY <2>4, <3>1 DEF set_power_status
    <3>3. ~Dark'
        BY <2>2, <3>1 DEF Dark
    <3>4. Turns' /\ Work'
        BY <1>0, <1>2, <1>3, <2>1, <2>4, <3>3, BusyKeeps
    <3>5. boot' \notin fenced'
        BY <1>0, <3>2 DEF Types
    <3>6. Cloud'
        BY <1>0, <2>1, <2>2, <3>1, <3>2, <3>5 DEF Cloud
    <3> QED BY <3>4, <3>6
  <2> QED BY <2>3, <2>4
<1> QED BY <1>5, <1>6 DEF IInv

\* The machine stops or runs.
LEMMA MachineKeeps ==
    ASSUME IInv, MachineStops \/ MachineBoots
    PROVE  IInv'
<1>0. /\ Types /\ UNCHANGED <<nic, denies, boot, does, pc, at, allIn, copy, fenced, hurt>>
      /\ \/ vm = "stopping" /\ vm' = "stopped"
         \/ vm = "starting" /\ vm' = "running"
    BY DEF IInv, MachineStops, MachineBoots, procVars
<1>1. Types'
    BY <1>0 DEF Types
<1>2. ASSUME Ok' PROVE Cloud' /\ Turns' /\ Work'
  <2>1. Cloud /\ Turns /\ Work
      BY <1>0, <1>2 DEF IInv, Ok
  <2>2. \A p \in Procs : (Busy(p)' <=> Busy(p)) /\ (Moving(p)' <=> Moving(p))
                         /\ (OffRuns(p)' <=> OffRuns(p))
      BY <1>0 DEF Busy, Moving, OffRuns
  <2>3. (AllHome' <=> AllHome) /\ (AllFence' <=> AllFence) /\ (Alive' => Alive)
      BY <1>0 DEF AllHome, AllFence, Alive
  <2>4. Dark' => Dark
      BY <2>3 DEF Dark
  <2>5. Cloud'
      BY <1>0, <2>1, <2>2, <2>3 DEF Cloud
  <2>6. Turns'
      BY <2>1, <2>2 DEF Turns
  <2>7. ASSUME NEW p \in Procs, does[p] = "off" PROVE Fencing(p)'
    <3>1. Fencing(p)
        BY <2>1, <2>7 DEF Work
    <3>2. Busy(p) => vm' \in Up
        BY <1>0, <3>1 DEF Fencing, Up
    <3> QED BY <1>0, <2>2, <2>3, <2>4, <3>1, <3>2 DEF Fencing
  <2>8. ASSUME NEW p \in Procs, does[p] # "off" PROVE Restoring(p)'
    <3>1. Restoring(p)
        BY <2>1, <2>8 DEF Work
    <3>2. ~Busy(p) /\ pc[p] \notin {"get", "put", "switch"}
        BY <1>0, <3>1 DEF Restoring, Busy
    <3> QED BY <1>0, <2>2, <3>2 DEF Restoring, Moving
  <2>9. Work'
      BY <1>0, <2>7, <2>8 DEF Work
  <2> QED BY <2>5, <2>6, <2>9
<1> QED BY <1>1, <1>2 DEF IInv

----------------------------------------------------------------------------

LEMMA InitIInv == Init => IInv
<1> SUFFICES ASSUME Init PROVE IInv
    OBVIOUS
<1>1. Types
    BY AzureNetAssumption, Values DEF Init, Types, Home, Points, Nics
<1>2. AllHome /\ \A p \in Procs : ~Busy(p) /\ ~Moving(p) /\ pc[p] = "idle" /\ allIn[p]
    BY DEF Init, AllHome, Home, Busy, Moving
<1>3. Cloud
    BY <1>2 DEF Init, Cloud, AllHome
<1>4. Turns
    BY <1>2 DEF Turns, OffRuns
<1>5. Work
    BY <1>2 DEF Work, Fencing, Restoring
<1> QED BY <1>1, <1>3, <1>4, <1>5 DEF IInv

LEMMA NextIInv == IInv /\ [Next]_vars => IInv'
<1> SUFFICES ASSUME IInv, [Next]_vars PROVE IInv'
    OBVIOUS
<1>1. CASE UNCHANGED vars
    BY <1>1 DEF IInv, Types, Ok, Cloud, Turns, Work, Fencing, Restoring, AllHome, AllFence,
                Dark, Alive, Moving, Busy, OffRuns, vars, cloudVars, procVars
<1>2. ASSUME NEW p \in Procs, Start(p) \/ Process(p) \/ Dies(p) PROVE IInv'
    BY <1>2, StartKeeps, DiesKeeps, NetworkRead, PowerRead, NicRead, PutKeeps, UnusableKeeps,
       UntaggedKeeps, CloudError, Skipped, SwitchKeeps DEF Process
<1>3. CASE MachineStops \/ MachineBoots
    BY <1>3, MachineKeeps
<1> QED BY <1>1, <1>2, <1>3 DEF Next

\* An incarnation of the machine that was reported off and is still alive has no
\* interface outside of the fence subnet (lib/azure_fence.py.py, check_unfence and
\* set_network_state of fence_azure_arm), with any number of processes and
\* interfaces, whatever calls fail, while no process leaves interfaces half moved
\* and none crosses another.
THEOREM FencedNeverTalksCorrect == Spec => []FencedNeverTalks
<1>1. IInv => FencedNeverTalks
  <2> SUFFICES ASSUME IInv, Ok, Alive, boot \in fenced PROVE \A n \in Nics : nic[n].subnet = "fence"
      BY DEF FencedNeverTalks, Ok
  <2>1. AllFence
      BY DEF IInv, Cloud
  <2> QED BY <2>1, Values DEF AllFence
<1> QED BY <1>1, InitIInv, NextIInv, PTL DEF Spec

\* An interface in the fence subnet carries the tag with its home subnet
\* (set_network_state of lib/azure_fence.py.py), under the same conditions.
THEOREM BackupIntactCorrect == Spec => []BackupIntact
<1>1. IInv => BackupIntact
  <2> SUFFICES ASSUME IInv, Ok, NEW n \in Nics, nic[n].subnet = "fence" PROVE nic[n].tag = "home"
      BY DEF BackupIntact, Ok
  <2>1. nic[n] \in {Home, Fence}
      BY DEF IInv, Cloud
  <2> QED BY <2>1, Values
<1> QED BY <1>1, InitIInv, NextIInv, PTL DEF Spec
=============================================================================
