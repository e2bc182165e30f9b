------------------------------ MODULE CpgVirt ------------------------------
(***************************************************************************)
(* The "cpg" backend of fence_virtd (agents/virt/server/cpg.c and          *)
(* cpg-virt.c): a daemon on every host of a group, a corosync closed       *)
(* process group (CPG) between them, and a request to fence a virtual      *)
(* machine that may run on any of the hosts.                               *)
(*                                                                         *)
(* Each daemon has two threads: the listener thread, which sends a request *)
(* and waits for its reply, and the CPG dispatch thread, which runs one    *)
(* callback at a time.  CPG (external) delivers every message and every    *)
(* configuration change to all members in one order.                       *)
(***************************************************************************)
EXTENDS Integers, Sequences, FiniteSets

CONSTANTS Nodes,         \* the hosts, by CPG node id
          VMs,           \* the virtual machines, in libvirt's order
          Uri,           \* Uri[v]: the libvirt connection of a host that lists v
          Transient,     \* those that vanish from libvirt when destroyed
          InitUp,        \* hosts whose daemons start as informed members
          Asks,          \* the operations that clients ask for
          MaxRequests,   \* bound: requests ever sent
          MaxCrashes,    \* bound: daemons that die
          MaxMoves,      \* bound: machines migrated
          MaxStarts,     \* bound: daemons started
          MaxLists,      \* bound: host lists asked for
          Lossy          \* the messages for which cpg_mcast_joined may fail

Ops == {"off", "on", "reboot", "status"}

ASSUME CpgVirtAssumption ==
    /\ Asks \subseteq Ops
    /\ Nodes \subseteq Nat \ {0} /\ IsFiniteSet(Nodes)
    /\ VMs \subseteq Nat /\ IsFiniteSet(VMs) /\ Uri \in [VMs -> Nat]
    /\ Transient \subseteq VMs /\ InitUp \subseteq Nodes
    /\ MaxRequests \in Nat /\ MaxCrashes \in Nat /\ MaxMoves \in Nat
    /\ MaxStarts \in Nat /\ MaxLists \in Nat
    /\ Lossy \subseteq {"req", "reply", "store"}

None == 0                               \* no host
Codes == {"ok", "off", "fail"}          \* RESP_SUCCESS, RESP_OFF, 1
Rids == 1 .. MaxRequests                \* requests, in the order they are sent

VARIABLES
    phase,      \* phase[n]: how far cpg_virt_init has come, see Phases
    member,     \* the CPG group
    inbox,      \* inbox[n]: CPG events not yet dispatched at n
    high,       \* high_id_from_callback
    local,      \* the machines of local_vm_list; {} is NULL
    remote,     \* owners in remote_vm_list, None where there is no entry
    seqnum,     \* seqnum of cpg.c
    pending,    \* the requests on the pending list
    listener,   \* the listener thread: its state and its request
    host,       \* libvirt: where machine v is defined, or None
    running,    \* libvirt: the machines that run
    crashes, moves, starts, lists,     \* counters for the bounds
    asked,      \* history: the requests sent, by number
    replies,    \* history: replies[r]: the nodes that replied to r
    wrongOff,   \* history: requests answered as for a machine that is off
                \* while the machine ran on a member
    outcomes    \* history: what each do_request returned, and the request
                \* that the reply was a reply to

daemonVars == <<phase, member, inbox, high, local, remote, seqnum, pending, listener>>
hostVars   == <<host, running>>
bounds     == <<crashes, moves, starts, lists>>
history    == <<asked, replies, wrongOff, outcomes>>
vars       == <<daemonVars, hostVars, bounds, history>>

Phases == {"down", "joined", "listed", "ready"}
Idle == [state |-> "idle", rid |-> 0, seqno |-> 0]

\* The machines that libvirt has on host n, and those of one connection.
Hosted(n) == {v \in VMs : host[v] = n}
HostedBy(n, u) == {v \in Hosted(n) : Uri[v] = u}

\* vl_get: the domains of every connection are stored from index 0 on, so that
\* those of a later connection overwrite the first ones of an earlier one.
vl_get(n) ==
    {v \in Hosted(n) :
        LET x == Cardinality({w \in HostedBy(n, Uri[v]) : w < v})
        IN  \A u \in {Uri[w] : w \in Hosted(n)} :
               u > Uri[v] => x >= Cardinality(HostedBy(n, u))}

\* cpg_mcast_joined: the events reach every member behind what is there.
Mcast(boxes, msgs) ==
    [n \in Nodes |-> IF n \in member THEN boxes[n] \o msgs ELSE boxes[n]]

\* Mutant: the machines are listed and not announced.
update_local_vms_quiet(n) == {<<>>}

\* update_local_vms: without the handle nothing happens; otherwise the list is
\* read again and store_domains announces each machine on it by a STORE_VM
\* message, any of which may fail to go out.
store_domains(n, vms) ==
    {IF out = {} THEN <<>> ELSE <<[type |-> "store", owner |-> n, vms |-> out]>> :
        out \in IF "store" \in Lossy THEN SUBSET vms ELSE {vms}}
Refreshed(n) == IF phase[n] = "ready" THEN vl_get(n) ELSE local[n]
update_local_vms(n) == IF phase[n] = "ready" THEN store_domains(n, vl_get(n)) ELSE {<<>>}

\* cpg_send_reply; a failure is only logged.
cpg_send_reply(msgs) == IF "reply" \in Lossy THEN {msgs, <<>>} ELSE {msgs}

\* What the dispatch thread of n handles next, and what is left of it.
Head1(n) == Head(inbox[n])
Popped(n) == [inbox EXCEPT ![n] = Tail(@)]

----------------------------------------------------------------------------
(* A daemon starts: cpg_virt_init.                                         *)

\* cpg_start: the daemon joins the group, everyone gets the new configuration.
cpg_start(n) ==
    /\ phase[n] = "down" /\ starts < MaxStarts
    /\ starts' = starts + 1
    /\ phase' = [phase EXCEPT ![n] = "joined"]
    /\ member' = member \cup {n}
    /\ inbox' = [m \in Nodes |-> IF m \in member \cup {n}
                    THEN Append(inbox[m], [type |-> "conf", members |-> member \cup {n},
                                           left |-> {}, joined |-> {n}])
                    ELSE inbox[m]]
    /\ UNCHANGED <<high, local, remote, seqnum, pending, listener, hostVars, crashes, moves, lists, history>>

\* update_local_vms(info) at the end of cpg_virt_init, by the main thread.
cpg_virt_init_list(n) ==
    /\ phase[n] = "joined"
    /\ phase' = [phase EXCEPT ![n] = "listed"]
    /\ local' = [local EXCEPT ![n] = vl_get(n)]
    /\ \E msgs \in store_domains(n, vl_get(n)) : inbox' = Mcast(inbox, msgs)
    /\ UNCHANGED <<member, high, remote, seqnum, pending, listener, hostVars, bounds, history>>

\* "cpg_virt_handle = info", after which the listener starts.
cpg_virt_init_handle(n) ==
    /\ phase[n] = "listed"
    /\ phase' = [phase EXCEPT ![n] = "ready"]
    /\ UNCHANGED <<member, inbox, high, local, remote, seqnum, pending, listener,
                   hostVars, bounds, history>>

----------------------------------------------------------------------------
(* The listener thread: do_request.                                        *)

\* cpg_send_req: a new entry on the pending list, then the multicast.  When it
\* fails, do_request returns 1 and the entry stays on the list.
cpg_send_req(n, v, op) ==
    LET rid == Len(asked) + 1
        seqno == seqnum[n] + 1
        req == [type |-> "req", from |-> n, seqno |-> seqno, vm |-> v, op |-> op, rid |-> rid]
        entry == [seqno |-> seqno, replied |-> FALSE, code |-> "none", rid |-> 0]
    IN  /\ phase[n] = "ready" /\ listener[n].state = "idle" /\ rid <= MaxRequests
        /\ seqno <= MaxRequests      \* bounds the sends that fail
        /\ seqnum' = [seqnum EXCEPT ![n] = seqno]
        /\ pending' = [pending EXCEPT ![n] = @ \cup {entry}]
        /\ \/ /\ inbox' = Mcast(inbox, <<req>>)
              /\ listener' = [listener EXCEPT ![n] =
                                [state |-> "sent", rid |-> rid, seqno |-> seqno]]
              /\ asked' = Append(asked, [from |-> n, vm |-> v, op |-> op])
           \/ /\ "req" \in Lossy
              /\ UNCHANGED <<inbox, listener, asked>>
        /\ UNCHANGED <<phase, member, high, local, remote, hostVars, bounds,
                       replies, wrongOff, outcomes>>

\* Every turn of cpg_wait_reply starts with pthread_cond_wait, before any look at
\* the list.
cpg_wait_reply(n) ==
    /\ listener[n].state = "sent"
    /\ listener' = [listener EXCEPT ![n].state = "waiting"]
    /\ UNCHANGED <<phase, member, inbox, high, local, remote, seqnum, pending,
                   hostVars, bounds, history>>

\* pthread_cond_wait may return without a broadcast.
cpg_wait_reply_spurious(n) ==
    /\ listener[n].state = "waiting"
    /\ listener' = [listener EXCEPT ![n].state = "woken"]
    /\ UNCHANGED <<phase, member, inbox, high, local, remote, seqnum, pending,
                   hostVars, bounds, history>>

\* Its wakeup: the reply is taken off the list, or the thread releases cpg_mutex
\* and comes back to the top of the loop; a broadcast until then is lost again.
cpg_wait_reply_woken(n) ==
    LET mine == {e \in pending[n] : e.seqno = listener[n].seqno /\ e.replied}
    IN  /\ listener[n].state = "woken"
        /\ \/ /\ mine = {}
              /\ listener' = [listener EXCEPT ![n].state = "sent"]
              /\ UNCHANGED <<pending, outcomes>>
           \/ \E e \in mine :
                 /\ pending' = [pending EXCEPT ![n] = @ \ {e}]
                 /\ listener' = [listener EXCEPT ![n] = Idle]
                 /\ outcomes' = outcomes \cup
                       {[rid |-> listener[n].rid, code |-> e.code, reply |-> e.rid]}
        /\ UNCHANGED <<phase, member, inbox, high, local, remote, seqnum,
                       hostVars, bounds, asked, replies, wrongOff>>

----------------------------------------------------------------------------
(* The dispatch thread: cpg_deliver_func and cpg_config_change.            *)

\* Mutant: the reply is matched by its number alone.
Matches_untargeted(n, m, e) == m.seqno = e.seqno

\* Which pending entry of n a reply belongs to.
Matches(n, m, e) == m.seqno = e.seqno /\ m.to = n

\* Mutant: the waiting thread is not woken.
Broadcast_missing(n) == listener[n]

\* pthread_cond_broadcast reaches the thread only if it is already waiting.
Broadcast(n) == IF listener[n].state = "waiting"
                THEN [listener[n] EXCEPT !.state = "woken"] ELSE listener[n]

\* A reply: it is filed with its request, if the request is one of n's.
deliver_reply(n) ==
    LET m == Head1(n)
        mine == {e \in pending[n] : Matches(n, m, e)}
    IN  /\ inbox[n] # <<>> /\ m.type = "reply"
        /\ inbox' = Popped(n)
        /\ \/ /\ mine = {}
              /\ UNCHANGED <<pending, listener>>
           \/ \E e \in mine :
                 /\ pending' = [pending EXCEPT ![n] = (@ \ {e}) \cup
                      {[seqno |-> e.seqno, replied |-> TRUE, code |-> m.code, rid |-> m.rid]}]
                 /\ listener' = [listener EXCEPT ![n] = Broadcast(n)]
        /\ UNCHANGED <<phase, member, high, local, remote, seqnum, hostVars, bounds, history>>

\* vl_update: the owner of each announced machine is entered or replaced.
vl_update(list, m) == [v \in VMs |-> IF v \in m.vms THEN m.owner ELSE list[v]]

\* vl_remove_by_owner, for each node that left.
vl_remove_by_owner(list, left) == [v \in VMs |-> IF list[v] \in left THEN None ELSE list[v]]

\* store_cb: an announcement of another node enters the remote list.
store_cb(n) ==
    LET m == Head1(n)
        fresh == m.owner # n /\ local[n] = {}
    IN  /\ inbox[n] # <<>> /\ m.type = "store"
        /\ local' = IF fresh THEN [local EXCEPT ![n] = Refreshed(n)] ELSE local
        /\ \E msgs \in IF fresh THEN update_local_vms(n) ELSE {<<>>} :
              inbox' = Mcast(Popped(n), msgs)
        /\ remote' = IF m.owner = n THEN remote
                     ELSE [remote EXCEPT ![n] = vl_update(@, m)]
        /\ UNCHANGED <<phase, member, high, seqnum, pending, listener, hostVars, bounds, history>>

\* The node of the largest id among the members and n itself.
HighId(n, members) == CHOOSE h \in members \cup {n} : \A m \in members \cup {n} : m <= h

\* cpg_config_change, cpg_join_cb and cpg_leave_cb.
cpg_config_change(n) ==
    LET m == Head1(n)
    IN  /\ inbox[n] # <<>> /\ m.type = "conf"
        /\ high' = [high EXCEPT ![n] = HighId(n, m.members)]
        /\ remote' = [remote EXCEPT ![n] = vl_remove_by_owner(@, m.left)]
        /\ local' = [local EXCEPT ![n] = Refreshed(n)]
        /\ \E msgs \in update_local_vms(n) : inbox' = Mcast(Popped(n), msgs)
        /\ UNCHANGED <<phase, member, seqnum, pending, listener, hostVars, bounds, history>>

\* What an operation on a machine of this host may come to: the reply code,
\* where the machine is and whether it runs afterwards.
Same(v, code)    == [code |-> code, h |-> host[v], up |-> v \in running]
Started(v, code) == [code |-> code, h |-> host[v], up |-> TRUE]
Stopped(v, code) == [code |-> code, h |-> IF v \in Transient THEN None ELSE host[v],
                     up |-> FALSE]

\* do_off: a machine that runs is destroyed, unless libvirt refuses.
vm_off(v) == IF v \in running THEN {Stopped(v, "ok"), Same(v, "fail")} ELSE {Same(v, "ok")}

\* do_on: a machine that does not run is started, unless libvirt refuses.
vm_on(v) == IF v \in running THEN {Same(v, "ok")} ELSE {Started(v, "ok"), Same(v, "fail")}

\* do_reboot: destroyed, waited for and started; "'on' is not a failure".
vm_reboot(v) ==
    IF v \in running
    THEN {Started(v, "ok"), Stopped(v, "ok"), Stopped(v, "fail"), Same(v, "fail")}
    ELSE {Same(v, "ok")}

\* The branches of do_real_work for a local machine.
Effects(v, op) ==
    CASE op = "status" -> {Same(v, IF v \in running THEN "ok" ELSE "off")}
      [] op = "off"    -> vm_off(v)
      [] op = "on"     -> vm_on(v)
      [] op = "reboot" -> vm_reboot(v)

\* Mutant: reply_code keeps its initial value for an unknown machine.
UnknownCode_unset(op) == IF op = "status" THEN "off" ELSE "none"

\* The answer for a machine on neither list.
UnknownCode(op) == CASE op = "status" -> "off"
                     [] op \in {"off", "reboot"} -> "ok"
                     [] op = "on" -> "fail"

\* Mutant: the remote list is not consulted.
KnownRemote_never(n, v) == FALSE

\* do_real_work finds the machine on its list of the other nodes' machines.
KnownRemote(n, v) == remote[n][v] # None

\* Mutant: every node speaks for an unknown machine.
IsHigh_always(n) == TRUE

\* Mutant: the node has to be above the highest id.
IsHigh_above(n) == n > high[n]

\* do_real_work speaks for an unknown machine if it has the highest id.
IsHigh(n) == n = high[n]

\* The reply of node n to request m.
Reply(n, m, code) ==
    <<[type |-> "reply", to |-> m.from, seqno |-> m.seqno, code |-> code, rid |-> m.rid]>>

\* do_real_work for a machine on the local list.
do_real_work_local(n) ==
    LET m == Head1(n)
        mine == Refreshed(n)
    IN  /\ inbox[n] # <<>> /\ m.type = "req" /\ m.vm \in mine
        /\ phase[n] = "ready" \/ m.op = "status"
        /\ local' = [local EXCEPT ![n] = mine]
        /\ \E e \in Effects(m.vm, m.op) :
              /\ host' = [host EXCEPT ![m.vm] = e.h]
              /\ running' = IF e.up THEN running \cup {m.vm} ELSE running \ {m.vm}
              /\ \E s \in update_local_vms(n), r \in cpg_send_reply(Reply(n, m, e.code)) :
                    /\ inbox' = Mcast(Popped(n), s \o r)
                    /\ replies' = IF r = <<>> THEN replies
                                  ELSE [replies EXCEPT ![m.rid] = @ \cup {n}]
        /\ UNCHANGED <<phase, member, high, remote, seqnum, pending, listener, bounds,
                       asked, wrongOff, outcomes>>

\* do_real_work for a machine on neither list, at the node of the highest id:
\* it is taken to be off.
do_real_work_unknown(n) ==
    LET m == Head1(n)
        mine == Refreshed(n)
    IN  /\ inbox[n] # <<>> /\ m.type = "req"
        /\ m.vm \notin mine /\ ~KnownRemote(n, m.vm) /\ IsHigh(n)
        /\ local' = [local EXCEPT ![n] = mine]
        /\ \E s \in update_local_vms(n), r \in cpg_send_reply(Reply(n, m, UnknownCode(m.op))) :
              /\ inbox' = Mcast(Popped(n), s \o r)
              /\ replies' = IF r = <<>> THEN replies
                            ELSE [replies EXCEPT ![m.rid] = @ \cup {n}]
        /\ wrongOff' = IF m.op # "on" /\ m.vm \in running /\ host[m.vm] \in member
                       THEN wrongOff \cup {m.rid} ELSE wrongOff
        /\ UNCHANGED <<phase, member, high, remote, seqnum, pending, listener, hostVars,
                       bounds, asked, outcomes>>

\* do_real_work leaves the request to another node.
do_real_work_silent(n) ==
    LET m == Head1(n)
        mine == Refreshed(n)
    IN  /\ inbox[n] # <<>> /\ m.type = "req"
        /\ m.vm \notin mine /\ (KnownRemote(n, m.vm) \/ ~IsHigh(n))
        /\ local' = [local EXCEPT ![n] = mine]
        /\ \E s \in update_local_vms(n) : inbox' = Mcast(Popped(n), s)
        /\ UNCHANGED <<phase, member, high, remote, seqnum, pending, listener, hostVars,
                       bounds, history>>

----------------------------------------------------------------------------
(* The environment: daemons die, machines move.                            *)

\* The daemon of n is gone with all it knew; the others are told.
Gone(n) ==
    /\ phase' = [phase EXCEPT ![n] = "down"]
    /\ member' = member \ {n}
    /\ inbox' = [m \in Nodes |-> IF m \in member \ {n}
                    THEN Append(inbox[m], [type |-> "conf", members |-> member \ {n},
                                           left |-> {n}, joined |-> {}])
                    ELSE IF m = n THEN <<>> ELSE inbox[m]]
    /\ high' = [high EXCEPT ![n] = None]
    /\ local' = [local EXCEPT ![n] = {}]
    /\ remote' = [remote EXCEPT ![n] = [v \in VMs |-> None]]
    /\ seqnum' = [seqnum EXCEPT ![n] = 0]
    /\ pending' = [pending EXCEPT ![n] = {}]
    /\ listener' = [listener EXCEPT ![n] = Idle]

\* A daemon crashes or is stopped.
Crash(n) ==
    /\ phase[n] # "down" /\ crashes < MaxCrashes
    /\ crashes' = crashes + 1
    /\ Gone(n)
    /\ UNCHANGED <<hostVars, moves, starts, lists, history>>

\* do_real_work between update_local_vms(info) and "cpg_virt_handle = info":
\* the machine is found, and do_off and the like dereference the NULL handle.
do_real_work_null(n) ==
    /\ phase[n] = "listed" /\ inbox[n] # <<>>
    /\ Head1(n).type = "req" /\ Head1(n).vm \in local[n] /\ Head1(n).op # "status"
    /\ Gone(n)
    /\ UNCHANGED <<hostVars, bounds, history>>

\* cpg_virt_hostlist, by the listener thread: the list is read again and sent
\* to the client; a host without a machine has a NULL list, and the daemon dies.
cpg_virt_hostlist(n) ==
    /\ phase[n] = "ready" /\ listener[n].state = "idle" /\ lists < MaxLists
    /\ lists' = lists + 1
    /\ \/ /\ vl_get(n) = {}
          /\ Gone(n)
       \/ /\ vl_get(n) # {}
          /\ local' = [local EXCEPT ![n] = vl_get(n)]
          /\ \E msgs \in update_local_vms(n) : inbox' = Mcast(inbox, msgs)
          /\ UNCHANGED <<phase, member, high, remote, seqnum, pending, listener>>
    /\ UNCHANGED <<hostVars, crashes, moves, starts, history>>

\* libvirt migrates a running machine to another host.
Migrate(v, n) ==
    /\ moves < MaxMoves /\ v \in running /\ host[v] # n
    /\ moves' = moves + 1
    /\ host' = [host EXCEPT ![v] = n]
    /\ UNCHANGED <<daemonVars, running, crashes, starts, lists, history>>

----------------------------------------------------------------------------

Init ==
    /\ phase = [n \in Nodes |-> IF n \in InitUp THEN "ready" ELSE "down"]
    /\ member = InitUp
    /\ inbox = [n \in Nodes |-> <<>>]
    /\ high = [n \in Nodes |-> IF n \in InitUp THEN HighId(n, InitUp) ELSE None]
    /\ host \in [VMs -> Nodes \cup {None}]
    /\ running \in SUBSET {v \in VMs : host[v] # None}
    /\ \A v \in Transient : host[v] # None => v \in running
    /\ local = [n \in Nodes |-> IF n \in InitUp THEN vl_get(n) ELSE {}]
    /\ remote = [n \in Nodes |-> [v \in VMs |->
                   IF n \in InitUp /\ host[v] \in InitUp \ {n} /\ v \in vl_get(host[v]) THEN host[v] ELSE None]]
    /\ seqnum = [n \in Nodes |-> 0]
    /\ pending = [n \in Nodes |-> {}]
    /\ listener = [n \in Nodes |-> Idle]
    /\ crashes = 0 /\ moves = 0 /\ starts = 0 /\ lists = 0
    /\ asked = <<>> /\ replies = [r \in Rids |-> {}]
    /\ wrongOff = {} /\ outcomes = {}

Dispatch(n) ==
    \/ deliver_reply(n) \/ store_cb(n) \/ cpg_config_change(n)
    \/ do_real_work_local(n) \/ do_real_work_unknown(n) \/ do_real_work_silent(n)
    \/ do_real_work_null(n)

Listen(n) == cpg_wait_reply(n) \/ cpg_wait_reply_woken(n)

Startup(n) == cpg_virt_init_list(n) \/ cpg_virt_init_handle(n)

Next ==
    \/ \E n \in Nodes :
          Dispatch(n) \/ Listen(n) \/ Startup(n) \/ cpg_start(n) \/ Crash(n)
          \/ cpg_wait_reply_spurious(n) \/ cpg_virt_hostlist(n)
    \/ \E n \in Nodes, v \in VMs, op \in Asks : cpg_send_req(n, v, op)
    \/ \E v \in VMs, n \in Nodes : Migrate(v, n)

Spec == Init /\ [][Next]_vars

\* Both threads of a running daemon are scheduled, and CPG delivers.
Fairness == \A n \in Nodes : WF_vars(Dispatch(n)) /\ WF_vars(Listen(n)) /\ WF_vars(Startup(n))

FairSpec == Spec /\ Fairness

----------------------------------------------------------------------------
(* Properties.                                                             *)

Messages ==
    [type : {"req"}, from : Nodes, seqno : Nat, vm : VMs, op : Ops, rid : Rids]
    \cup [type : {"reply"}, to : Nodes, seqno : Nat, code : Codes, rid : Rids]
    \cup [type : {"store"}, owner : Nodes, vms : SUBSET VMs]
    \cup [type : {"conf"}, members : SUBSET Nodes, left : SUBSET Nodes, joined : SUBSET Nodes]

TypeOK ==
    /\ phase \in [Nodes -> Phases] /\ member = {n \in Nodes : phase[n] # "down"}
    /\ \A n \in Nodes : \A i \in DOMAIN inbox[n] : inbox[n][i] \in Messages
    /\ high \in [Nodes -> Nodes \cup {None}]
    /\ local \in [Nodes -> SUBSET VMs]
    /\ remote \in [Nodes -> [VMs -> Nodes \cup {None}]]
    /\ seqnum \in [Nodes -> Nat]
    /\ \A n \in Nodes : \A e \in pending[n] :
          e \in [seqno : Nat, replied : BOOLEAN, code : Codes \cup {"none"}, rid : Rids \cup {0}]
    /\ listener \in [Nodes -> [state : {"idle", "sent", "waiting", "woken"},
                               rid : Rids \cup {0}, seqno : Nat]]
    /\ host \in [VMs -> Nodes \cup {None}] /\ running \subseteq VMs
    /\ replies \in [Rids -> SUBSET Nodes] /\ wrongOff \subseteq Rids

\* Request r has been dispatched by every member, or was never seen by it.
Handled(r) == \A n \in member : \A i \in DOMAIN inbox[n] :
                 ~(inbox[n][i].type = "req" /\ inbox[n][i].rid = r)

\* The comment in do_real_work: "We can safely assume the VM is OFF because it
\* wasn't found on any current members of the CPG group".  No node answers for
\* a machine as if it were off while it runs on a member.
OffIsTrue == wrongOff = {}

\* It holds in a group that daemons leave and none joins: the entries of a dead
\* node go from the remote lists in the order of the group's events.
OffIsTrueUntilJoin == starts = 0 => OffIsTrue

\* The comment in do_real_work: "We know about all domains on all nodes in the
\* CPG group".  When one daemon starts among others that are up, then once it
\* is up too and every event is dispatched, each member has the machines of
\* every other member on its remote list.
KnowsAll ==
    (\A n \in member : phase[n] = "ready" /\ inbox[n] = <<>>) =>
        \A n \in member, v \in VMs : host[v] \in member \ {n} => remote[n][v] = host[v]

\* The comment on do_real_work: it must send a reply from at least one node.
\* A request that all members have dispatched has been replied to.
SomeNodeReplies ==
    \A r \in DOMAIN asked : Handled(r) => replies[r] # {}

\* While no daemon joins, only one node takes a request to be its own, so that
\* a machine is not fenced by one node and reported off by another.
OneReplyUntilJoin ==
    starts = 0 => \A r \in DOMAIN asked : Cardinality(replies[r]) <= 1

\* do_request returns the reply to the request it sent, never the reply to
\* another one: seqnum and target tell the requests of all daemons apart.
AnswersOwnRequest == \A o \in outcomes : o.rid = o.reply

\* A listener that is in pthread_cond_wait before its reply is dispatched does not
\* stay there: it takes the reply and returns, or a wakeup that was not for it
\* has sent it round the loop, where a reply may miss it (RepliedIsAnswered).
WaitingIsServed ==
    \A n \in Nodes :
        /\ listener[n].state = "waiting"
        /\ \A e \in pending[n] : e.seqno = listener[n].seqno => ~e.replied
        ~> listener[n].state \in {"idle", "sent"}

\* The comment on do_real_work has the requesting daemon block only if no node
\* replies: once a node has replied, do_request returns.
RepliedIsAnswered ==
    \A r \in Rids : replies[r] # {} ~> \E o \in outcomes : o.rid = r
=============================================================================
