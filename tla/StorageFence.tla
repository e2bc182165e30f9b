---------------------------- MODULE StorageFence ----------------------------
(***************************************************************************)
(* fence_scsi and fence_mpath: fencing by SCSI-3 persistent reservations,  *)
(* with the watchdog scripts fence_scsi_check and fence_mpath_check.       *)
(*                                                                         *)
(* A node owns one key and registers it with every shared device ("on");   *)
(* another node cuts it off by preempting that key on every device         *)
(* ("off").  Agents run on several nodes at once, and each step below is   *)
(* one sg_persist or mpathpersist command on one device.  The agents are   *)
(* the callbacks of fence_action: status, set, status again.               *)
(***************************************************************************)
EXTENDS Integers

CONSTANTS Nodes,     \* the nodes, each identified with its key
          NDevs,     \* the shared devices, in the order of --devices
          Agents,    \* which of the two agents the cluster may use
          Runs,      \* the actions that the cluster manager asks for
          Formed,    \* whether the nodes are unfenced at the start: TRUE, FALSE or both
          MayFail,   \* the nodes whose commands may fail
          MaxRuns    \* bound: agents ever started

None == 0       \* no key
Devs == 1 .. NDevs

ASSUME StorageFenceAssumption ==
    /\ Nodes \subseteq Nat \ {None} /\ NDevs \in Nat \ {0} /\ MaxRuns \in Nat
    /\ Agents \subseteq {"scsi", "mpath"} /\ Runs \subseteq {"on", "off"}
    /\ Formed \subseteq BOOLEAN /\ MayFail \subseteq Nodes

VARIABLES
    agent,      \* the agent in use
    reg,        \* device: the registered keys
    res,        \* device: the reservation key, write exclusive registrants only
    devfile,    \* the devices in the node's store file, "{}" where it is missing
    proc,       \* the agent process of the node
    check,      \* the device the watchdog script reads next, 0 if it does not run
    runs,       \* counter for the bound
    unfenced,   \* history: an "on" of the node has succeeded since it booted
    reported,   \* history: an "off" of the node was reported a success, and no
                \* "on" has been started since
    clean,      \* history: no process of the node that registers its key has
                \* been under way since that "off" was started
    targeted,   \* history: an "off" of the node has been started
    hurt        \* history: a command of the node has failed

deviceVars == <<reg, res>>
history    == <<unfenced, reported, clean, targeted, hurt>>
vars       == <<agent, deviceVars, devfile, proc, check, runs, history>>

Idle == [act |-> "none", target |-> None, pc |-> "idle", dev |-> 1,
         existed |-> FALSE, count |-> 0, status |-> "off", clean |-> FALSE]

\* Whether a process of this action registers the key of the node it runs on:
\* fence_scsi does so for "off" as well.
Registers(act) == act = "on" \/ (act = "off" /\ agent = "scsi")

----------------------------------------------------------------------------
(* The device (external): PERSISTENT RESERVE OUT by node n on device d.     *)

REGISTER(n, d) ==
    /\ reg' = [reg EXCEPT ![d] = @ \cup {n}]
    /\ UNCHANGED res

\* Node n removes key k; the reservation of k passes to n, whose registration
\* then stays.  A node that is not registered gets a reservation conflict.
PREEMPT(n, d, k) ==
    IF n \notin reg[d] THEN UNCHANGED deviceVars
    ELSE IF res[d] = k
    THEN /\ reg' = [reg EXCEPT ![d] = (@ \ {k}) \cup {n}]
         /\ res' = [res EXCEPT ![d] = n]
    ELSE /\ reg' = [reg EXCEPT ![d] = @ \ {k}]
         /\ UNCHANGED res

RESERVE(n, d) ==
    /\ res' = IF n \in reg[d] /\ res[d] = None THEN [res EXCEPT ![d] = n] ELSE res
    /\ UNCHANGED reg

----------------------------------------------------------------------------
(* Control flow of one agent process.                                      *)

Dev(n) == proc[n].dev
At(n, pc) == proc[n].pc = pc

\* The process goes on at pc, on the same device.
Goto(n, pc) == proc' = [proc EXCEPT ![n].pc = pc]

\* The process ends.  Code 0 for "off" is the report that the target is fenced.
Exit(n, code) ==
    LET p == proc[n]
        fenced == code = 0 /\ p.act = "off"
    IN  /\ proc' = [proc EXCEPT ![n] = Idle]
        /\ unfenced' = IF code = 0 /\ p.act = "on" THEN [unfenced EXCEPT ![n] = TRUE]
                       ELSE unfenced
        /\ reported' = IF fenced THEN [reported EXCEPT ![p.target] = TRUE] ELSE reported
        /\ clean' = IF fenced
                    THEN [clean EXCEPT ![p.target] = p.clean]
                    ELSE clean
        /\ UNCHANGED <<targeted, hurt>>

\* Where set_status begins for a device.
SetStatus(act) == IF agent = "scsi" THEN "reg_read"
                  ELSE IF act = "on" THEN "register" ELSE "victim"

\* fence_action calls get_status again, from the first device on.
PollAgain(n) == proc' = [proc EXCEPT ![n].dev = 1, ![n].pc = "poll", ![n].status = "off"]

\* The loops over the devices in set_status; the count of devices that could
\* not be verified decides at the end.
NextDev(n, counted) ==
    LET p == proc[n]
        count == p.count + counted
    IN  IF p.dev < NDevs
        THEN /\ proc' = [proc EXCEPT ![n].dev = @ + 1, ![n].count = count,
                                     ![n].pc = IF p.pc \in {"verify", "verify_res"} THEN "verify"
                                               ELSE SetStatus(p.act)]
             /\ UNCHANGED history
        ELSE IF p.pc \in {"victim", "preempt"}
        THEN /\ proc' = [proc EXCEPT ![n].dev = 1, ![n].pc = "verify"]
             /\ UNCHANGED history
        ELSE IF count > 0
        THEN Exit(n, 1)
        ELSE PollAgain(n) /\ UNCHANGED history

\* What the steps below leave alone.
Rest == <<agent, check, runs>>

----------------------------------------------------------------------------
(* The agents.                                                             *)

\* The cluster manager starts the agent: "on" on the node itself (on_target),
\* "off" on a node that has been unfenced.
Start(n, act, t) ==
    /\ proc[n] = Idle /\ runs < MaxRuns /\ act \in Runs
    /\ IF act = "on" THEN t = n ELSE t # n /\ unfenced[n]
    /\ runs' = runs + 1
    /\ proc' = [m \in Nodes |->
          IF m = n THEN [Idle EXCEPT !.act = act, !.target = t, !.pc = "status",
                                     !.clean = ~Registers(proc[t].act)]
          ELSE [proc[m] EXCEPT !.clean = @ /\ ~(proc[m].target = n /\ Registers(act))]]
    /\ reported' = IF act = "on" THEN [reported EXCEPT ![n] = FALSE] ELSE reported
    /\ clean' = IF Registers(act) THEN [clean EXCEPT ![n] = FALSE] ELSE clean
    /\ targeted' = IF act = "off" THEN [targeted EXCEPT ![t] = TRUE] ELSE targeted
    /\ UNCHANGED <<agent, deviceVars, devfile, check, unfenced, hurt>>

\* Mutant: the last device decides, as if every device set the status.
scsi_get_status_last(p, present) ==
    [status |-> IF present THEN "on" ELSE "off", stop |-> FALSE]

\* Mutant: the status has no initial value.
scsi_get_status_unset(p, present) ==
    [status |-> IF present THEN "on" ELSE "none", stop |-> FALSE]

\* What get_status of fence_scsi has after a device, and whether it stops there:
\* for "on" one device without the key is enough.
scsi_get_status(p, present) ==
    [status |-> IF present THEN "on" ELSE IF p.act = "on" THEN "off" ELSE p.status,
     stop   |-> ~present /\ p.act = "on"]

\* The same of fence_mpath.
mpath_get_status(p, present) ==
    [status |-> IF present THEN "on" ELSE p.status, stop |-> FALSE]

\* One device of get_status, as fence_action calls it before and after set_status.
get_status(n) ==
    LET p == proc[n]
        present == p.target \in reg[p.dev]
        s == IF agent = "scsi" THEN scsi_get_status(p, present)
                               ELSE mpath_get_status(p, present)
    IN  /\ p.pc \in {"status", "poll"}
        /\ IF p.dev < NDevs /\ ~s.stop
           THEN /\ proc' = [proc EXCEPT ![n].dev = @ + 1, ![n].status = s.status]
                /\ UNCHANGED history
           ELSE IF s.status = p.act /\ (p.pc = "poll" \/ p.act = "off")
           THEN Exit(n, 0)          \* done, or "Already OFF"
           ELSE \/ /\ p.pc = "poll" /\ PollAgain(n)
                   /\ UNCHANGED history
                \/ /\ p.pc = "status" \/ p.act = "on"     \* "on" is retried
                   /\ proc' = [proc EXCEPT ![n] = [@ EXCEPT !.dev = 1, !.count = 0,
                                                      !.pc = SetStatus(p.act)]]
                   /\ UNCHANGED history
                \/ p.pc = "poll" /\ Exit(n, 1)             \* timed out
        /\ UNCHANGED <<Rest, deviceVars, devfile>>

\* Where register_dev returns to in set_status.
Registered(act) == IF act = "on" THEN "on_read" ELSE "victim"

\* register_dev of fence_scsi: is the key there already?
register_dev_read(n) ==
    /\ At(n, "reg_read")
    /\ proc' = [proc EXCEPT ![n].existed = n \in reg[Dev(n)], ![n].pc = "register"]
    /\ UNCHANGED <<Rest, deviceVars, devfile, history>>

\* register_helper of fence_scsi, register_dev of fence_mpath.
register_helper(n) ==
    /\ At(n, "register")
    /\ REGISTER(n, Dev(n))
    /\ Goto(n, IF proc[n].existed THEN "preempt_self" ELSE Registered(proc[n].act))
    /\ UNCHANGED <<Rest, devfile, history>>

\* preempt, by the node of its own key.
preempt_self(n) ==
    /\ At(n, "preempt_self")
    /\ PREEMPT(n, Dev(n), n)
    /\ Goto(n, IF n \in reg[Dev(n)] THEN "resv_read" ELSE Registered(proc[n].act))
    /\ UNCHANGED <<Rest, devfile, history>>

\* Mutant: the registration is taken to have survived the preempt.
AfterPreempt_trusted(n) == Registered(proc[n].act)

\* "If there was no reservation, we need to issue another registration".
AfterPreempt(n) == IF res[Dev(n)] = n THEN Registered(proc[n].act) ELSE "reg_again"

register_dev_reservation(n) ==
    /\ At(n, "resv_read")
    /\ Goto(n, AfterPreempt(n))
    /\ UNCHANGED <<Rest, deviceVars, devfile, history>>

register_dev_again(n) ==
    /\ At(n, "reg_again")
    /\ REGISTER(n, Dev(n))
    /\ Goto(n, Registered(proc[n].act))
    /\ UNCHANGED <<Rest, devfile, history>>

\* set_status "on": the key has to be there, and the device goes to the file.
set_status_on(n) ==
    /\ At(n, "on_read")
    /\ \/ /\ n \notin reg[Dev(n)]
          /\ NextDev(n, 1)
          /\ UNCHANGED devfile
       \/ /\ n \in reg[Dev(n)]
          /\ devfile' = [devfile EXCEPT ![n] = @ \cup {Dev(n)}]     \* dev_write
          /\ Goto(n, "on_res")
          /\ UNCHANGED history
    /\ UNCHANGED <<Rest, deviceVars>>

\* get_reservation_key, before reserve_dev.
set_status_on_reservation(n) ==
    /\ At(n, "on_res")
    /\ \/ res[Dev(n)] = None /\ Goto(n, "reserve") /\ UNCHANGED history
       \/ res[Dev(n)] # None /\ NextDev(n, 0)
    /\ UNCHANGED <<Rest, deviceVars, devfile>>

reserve_dev(n) ==
    /\ At(n, "reserve")
    /\ RESERVE(n, Dev(n))
    /\ \/ res'[Dev(n)] = n /\ NextDev(n, 0)
       \/ res'[Dev(n)] # n /\ Goto(n, "on_res2") /\ UNCHANGED history
    /\ UNCHANGED <<Rest, devfile>>

\* get_reservation_key again, when reserve_dev has failed.
set_status_on_reserved(n) ==
    /\ At(n, "on_res2")
    /\ NextDev(n, IF res[Dev(n)] = None THEN 1 ELSE 0)
    /\ UNCHANGED <<Rest, deviceVars, devfile>>

\* set_status "off": is the key of the target there?
set_status_off(n) ==
    /\ At(n, "victim")
    /\ \/ proc[n].target \in reg[Dev(n)] /\ Goto(n, "preempt") /\ UNCHANGED history
       \/ proc[n].target \notin reg[Dev(n)] /\ NextDev(n, 0)
    /\ UNCHANGED <<Rest, deviceVars, devfile>>

\* preempt_abort, whose return code set_status ignores.
preempt_abort(n) ==
    /\ At(n, "preempt")
    /\ PREEMPT(n, Dev(n), proc[n].target)
    /\ NextDev(n, 0)
    /\ UNCHANGED <<Rest, devfile>>

\* "Failed to remove key".
StillThere(n) == proc[n].target \in reg[Dev(n)]

\* The second loop of set_status "off".
set_status_verify(n) ==
    /\ At(n, "verify")
    /\ \/ StillThere(n) /\ NextDev(n, 1)
       \/ ~StillThere(n) /\ Goto(n, "verify_res") /\ UNCHANGED history
    /\ UNCHANGED <<Rest, deviceVars, devfile>>

\* "No reservation exists".
set_status_verify_reservation(n) ==
    /\ At(n, "verify_res")
    /\ NextDev(n, IF res[Dev(n)] = None THEN 1 ELSE 0)
    /\ UNCHANGED <<Rest, deviceVars, devfile>>

\* A command that changes the device fails without effect; set_status goes on.
command_fails(n) ==
    /\ n \in MayFail
    /\ \/ /\ proc[n].pc \in {"register", "preempt_self", "reg_again"}
          /\ Goto(n, Registered(proc[n].act)) /\ hurt' = [hurt EXCEPT ![n] = TRUE]
          /\ UNCHANGED <<unfenced, reported, clean, targeted>>
       \/ /\ At(n, "reserve")
          /\ Goto(n, "on_res2") /\ hurt' = [hurt EXCEPT ![n] = TRUE]
          /\ UNCHANGED <<unfenced, reported, clean, targeted>>
       \/ At(n, "preempt") /\ NextDev(n, 0)
    /\ UNCHANGED <<Rest, deviceVars, devfile>>

\* The process ends early with code 1: a read fails (fail_usage), a command or
\* the polling times out (EC_TIMED_OUT), or it is killed.
agent_fails(n) ==
    /\ n \in MayFail /\ proc[n] # Idle
    /\ proc' = [proc EXCEPT ![n] = Idle]
    /\ hurt' = [hurt EXCEPT ![n] = TRUE]
    /\ UNCHANGED <<Rest, deviceVars, devfile, unfenced, reported, clean, targeted>>

Agent(n) ==
    \/ get_status(n) \/ register_dev_read(n) \/ register_helper(n) \/ preempt_self(n)
    \/ register_dev_reservation(n) \/ register_dev_again(n)
    \/ set_status_on(n) \/ set_status_on_reservation(n) \/ reserve_dev(n)
    \/ set_status_on_reserved(n) \/ set_status_off(n) \/ preempt_abort(n)
    \/ set_status_verify(n) \/ set_status_verify_reservation(n)

----------------------------------------------------------------------------
(* The watchdog scripts.                                                   *)

\* The node reboots: its processes and its store, under /run, are gone.
Reboot(n) ==
    /\ proc' = [proc EXCEPT ![n] = Idle]
    /\ devfile' = [devfile EXCEPT ![n] = {}]
    /\ unfenced' = [unfenced EXCEPT ![n] = FALSE]
    /\ check' = [check EXCEPT ![n] = 0]
    /\ UNCHANGED <<agent, deviceVars, runs, reported, clean, targeted, hurt>>

\* The watchdog runs the script, which returns 0 when there is no store file.
check_start(n) ==
    /\ check[n] = 0 /\ devfile[n] # {}
    /\ check' = [check EXCEPT ![n] = 1]
    /\ UNCHANGED <<agent, deviceVars, devfile, proc, runs, history>>

\* Mutant: any registration counts.
KeyFound_any(n, d) == reg[d] # {}

\* "if key in get_registration_keys(...)".
KeyFound(n, d) == n \in reg[d]

\* scsi_check and mpath_check: the key on any device of the file is enough; a
\* read that fails counts as a device without the key.
scsi_check(n) ==
    LET d == check[n]
    IN  /\ d # 0
        /\ \/ /\ d \in devfile[n] /\ KeyFound(n, d)
              /\ check' = [check EXCEPT ![n] = 0]
              /\ UNCHANGED <<agent, deviceVars, devfile, proc, runs, history>>
           \/ /\ d \notin devfile[n] \/ ~KeyFound(n, d) \/ n \in MayFail
              /\ d < NDevs
              /\ check' = [check EXCEPT ![n] = d + 1]
              /\ UNCHANGED <<agent, deviceVars, devfile, proc, runs, history>>
           \/ /\ d \notin devfile[n] \/ ~KeyFound(n, d) \/ n \in MayFail
              /\ d = NDevs
              /\ Reboot(n)

----------------------------------------------------------------------------

Init ==
    /\ agent \in Agents
    /\ \E formed \in Formed :
          /\ reg = [d \in Devs |-> IF formed THEN Nodes ELSE {}]
          /\ res \in [Devs -> IF formed THEN Nodes ELSE {None}]
          /\ devfile = [n \in Nodes |-> IF formed THEN Devs ELSE {}]
          /\ unfenced = [n \in Nodes |-> formed]
    /\ proc = [n \in Nodes |-> Idle]
    /\ check = [n \in Nodes |-> 0]
    /\ runs = 0
    /\ reported = [n \in Nodes |-> FALSE]
    /\ clean = [n \in Nodes |-> TRUE]
    /\ targeted = [n \in Nodes |-> FALSE]
    /\ hurt = [n \in Nodes |-> FALSE]

Next ==
    \E n \in Nodes :
        \/ \E act \in {"on", "off"}, t \in Nodes : Start(n, act, t)
        \/ Agent(n) \/ command_fails(n) \/ agent_fails(n)
        \/ check_start(n) \/ scsi_check(n)

Spec == Init /\ [][Next]_vars

\* The watchdog daemon runs the script again and again.
FairSpec == Spec /\ \A n \in Nodes : WF_vars(check_start(n) \/ scsi_check(n))

----------------------------------------------------------------------------
(* Properties.                                                             *)

TypeOK ==
    /\ agent \in Agents
    /\ reg \in [Devs -> SUBSET Nodes] /\ res \in [Devs -> Nodes \cup {None}]
    /\ devfile \in [Nodes -> SUBSET Devs]
    /\ proc \in [Nodes ->
         [act : {"none", "on", "off"}, target : Nodes \cup {None},
          pc : {"idle", "status", "reg_read", "register", "preempt_self", "resv_read",
                "reg_again", "on_read", "on_res", "reserve", "on_res2", "victim",
                "preempt", "verify", "verify_res", "poll"},
          dev : Devs, existed : BOOLEAN, count : 0 .. NDevs, status : {"on", "off"},
          clean : BOOLEAN]]
    /\ check \in [Nodes -> 0 .. NDevs]
    /\ runs \in 0 .. MaxRuns

\* Only registered nodes may write to a device that is reserved.
CannotWrite(n) == \A d \in Devs : n \notin reg[d] /\ res[d] # None

\* The longdesc of both agents: "The failed node will no longer be able to write
\* to the device(s)", after an "off" of it was reported a success.
FencedStaysOut == \A n \in Nodes : reported[n] => CannotWrite(n)

\* It holds as long as no process on the fenced node registers its key: an "on"
\* under way while it is fenced, or an "off" of fence_scsi by the fenced node.
\* Other agents fence, unfence, fail and reboot nodes at the same time.
FencedUntilItRegisters ==
    \A n \in Nodes : reported[n] /\ clean[n] => CannotWrite(n)

\* register_dev takes the node's own registration away for a moment.  A node
\* that nobody has tried to fence, and whose commands have all succeeded, is
\* registered with all devices whenever no agent runs on it.
KeepsAccess ==
    \A n \in Nodes :
        unfenced[n] /\ proc[n] = Idle /\ ~targeted[n] /\ ~hurt[n] =>
            \A d \in Devs : n \in reg[d]

\* A fenced node is rebooted by its watchdog, unless a process on it registers
\* its key again.
FencedIsRebooted ==
    \A n \in Nodes :
        reported[n] /\ clean[n] /\ devfile[n] # {} ~> devfile[n] = {} \/ ~clean[n]
=============================================================================
