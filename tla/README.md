# A TLA+ verification of ClusterLabs/fence-agents

The repository holds the programs that a cluster manager (pacemaker, fenced)
runs to *fence* a node: to cut its power, its network or its access to shared
storage, before its resources are started elsewhere. A fence agent that reports
success for a node that is still running corrupts data; one that reports failure
for a fenced node, or never answers, blocks recovery. This project models the
code that decides which of these happens.

Paths below are relative to `src/`.

## 1. Inventory

| Part | Source | State it keeps | Operations | What is hard | What makes it correct |
|---|---|---|---|---|---|
| Power control | `lib/fencing.py.py` 817-901, 946-1070 | loop variables of the multi-plug functions, `options["--action"]`, `status`, exit code | `fence_action`, `get_multi_power_fn`, `async_`/`sync_set_multi_power_fn`, `multi_reboot_cycle_fn` | commands carried out late, plugs read one after the other, retries, timeouts, exceptions, another user of the device | exit code 0 is backed by what was read; the node was dark; a reboot switches on only after that; an exit code is reached |
| Option processing | `lib/fencing.py.py` 551-811, 1452-1760 | the option dictionary | `process_input`, `check_input`, `_validate_input`, `show_docs` | dependencies between options, stdin against command line | an accepted run has all that its login needs |
| Command execution | `lib/fencing.py.py` 510-541, 1072-1450 | child processes, deadline | `run_command`, `run_commands`, `fence_login`, `run_delay` | several processes against one deadline, a quorum of answers | the status stands for enough of the answers; an answer is reached |
| Some seventy device agents | `agents/*/fence_*.py` | a session with the device, globals kept from one plug to the next | get, set, list and cycle functions given to `fence_action` | words and errors of the device, refusals, several plugs | "off" is returned for a machine that is off only; with a willing device nothing fails |
| fence_azure_arm, network fencing | `agents/azure_arm`, `lib/azure_fence.py.py` | subnet and tags of interfaces, in the cloud | off, on, monitor | monitors of other nodes act at the same time | a machine reported off has no network until it has stopped; it comes back |
| fence_aws_vpc_net | `agents/aws_vpc_net` | security groups and backup tags, in the cloud | off, on | two agents, killed agents, refused calls | off is separated, on is as before, the backup survives |
| fence_sbd | `agents/sbd/fence_sbd.py` | message slots on shared disks | send message, read status, cycle | some disks unreachable for one of the two sides, hanging processes | a reported fencing happened |
| fence_scsi, fence_mpath | `agents/scsi/fence_scsi.py`, `agents/mpath/fence_mpath.py` | keys and reservations on the devices, store files under `/run` | on, off, status, watchdog check | agents on several nodes at once, several devices, a command that fails on one of them, killed agents | a fenced node cannot write; a healthy one can; a fenced one is rebooted |
| cpg backend of fence_virtd | `agents/virt/server/cpg.c`, `cpg-virt.c`, `virt.c` | group membership, highest id, local and remote machine list, pending requests | join, request, reply, announcement, configuration change, machine operations | two threads per daemon, group communication, crash and restart, migration | somebody answers, nobody answers "off" for a running machine, the reply belongs to the request, the wait ends |
| multicast listener and client | `agents/virt/server/mcast.c`, `history.c`, `client/mcast.c` | history of recent requests; attempt counter, sequence number | send, receive, connect back, act, record | duplicated and late datagrams, expiry, a client that has left | at most one effect per request while the history holds, the client gets the answer to its own request, the call ends |
| other listeners, libvirt backend, static map | `agents/virt/server` | permission map, libvirt connections | as above | - | - |
| fence_kdump, fence_kdump_send | `agents/kdump/*.c` | deadline, list of nodes | wait, send | messages of strangers, timeout | success only after a message of a listed node |
| fence_zvm (C) | `agents/zvm/*.c` | none | SMAPI request, wait | partial answers | as power control |
| compute, evacuate | `agents/compute`, `agents/evacuate` | nova's view of a hypervisor | force down, evacuate | order of both, retries | evacuation only after the host is down |

How they interact: the cluster manager starts an agent process with options on
stdin; the agent's `main` hands its callbacks to `fence_action`, which calls
them and exits. Agents share no memory; they meet at the device. fence_virt is
an agent that talks to a daemon, fence_virtd; its listener thread calls a
backend, and the cpg backends of several hosts talk to each other through a
corosync closed process group. `PROJECT.json` lists all components with the
reason why one is left out, and the hazards of the code, each at its line.

## 2. Plan

| Order | Module | Content | State |
|---|---|---|---|
| 1 | `FencingContract`, `FenceAction`, `FenceActionProofs` | the contract of `doc/FenceAgentAPI.md`; `fence_action` implements it; proofs | done, proved |
| 2 | `CpgVirt`, `CpgVirtProofs` | the cpg backend | done, proved |
| 3 | `StorageFence`, `StorageFenceProofs` | fence_scsi, fence_mpath, watchdog scripts | done, proved |
| 4 | `Sbd`, `SbdProofs` | `run_commands`, and fence_sbd on top of it and of `FenceAction` | done, proved |
| 5 | `McastListener`, `McastListenerProofs` | multicast client, listener, history | done, proved |
| 6 | `Options`, `AgentTable`, `ShellAgents`, `SnmpAgents`, `CloudAgents`, `VmAgents`, `AgentRun`, `AgentRunProofs` | option processing and 75 kinds of device agents, composed with `FenceAction` | done, proved |
| 7 | `AzureNet`, `AwsVpcNet` and their `Proofs` | the two agents that fence by the network of a cloud | done, proved |
| - | Kdump, Evacuate | small or outside of this repository's own state, see section 7 | left out |

"Proved" means every invariant and every action property that a run checks;
liveness stays with TLC (section 6).

## 3. The modules

A component's proofs are in a module of their own, named after it with `Proofs`
at the end, which extends it; section 6 is about those.

### FencingContract and FenceAction

`FencingContract` is `doc/FenceAgentAPI.md` as a specification: evidence about
plugs is gathered one at a time, the agent answers once, and code 0 or 2 must be
backed by the evidence at that instant (`Backed`).

`FenceAction` is `fence_action` with everything it calls in `fencing.py.py`. One
behaviour is one agent process. A step is one call of an agent callback
(`get_power_fn`, `set_power_fn`, `sync_set_power_fn`, `reboot_cycle_fn`,
`get_outlet_list`) with the code up to the next call; `pc` names that call.
`plug`, `attempt`, `polls`, `acc`, `status`, `success` are the loop variables
and locals, `action` is `options["--action"]`, which a reboot overwrites with
"off" and "on". A callback may also raise an exception (`callback_raises`) or
call `fail()`, which ends the process by `SystemExit` (`callback_fails`);
either may happen after the command was delivered. The device (external)
carries out the last accepted command of a plug at any later time or never;
with `Interference` somebody else switches plugs. `seen`, `allOff` and `quit` (a
callback has left the process by `fail()`) are history variables. Time is the number of polls: `powerTimeout` polls make a
timeout, and 0 stands for no timeout, as `--disable-timeout` sets it.

`KeepsContract` is the refinement: `request` is `Request` (a reboot by cycle is
"reset"), `evidence` is `seen`, `answer` is `result`.

### Options, the tables of agents, and AgentRun

`Options` is what `process_input` and `check_input` do with the *keys* of the
option dictionary: which are accepted from the command line and from standard
input, which ones depend on others, what `_validate_input` asks for, the default
port, and which of the ways of login `fence_login` takes.

An agent is a row of a table. `AgentTable` says how to read one:
`X_get_power_status` maps every word that the code of agent X names, and every
kind of fault (a word it does not name, an answer without the plug, one that
does not match, an error reply, a timeout), to what the callback then does;
`X_set_power_status` has what on and off ask of the device and the reaction to a
refusal; `X_get_outlet_list` and `X_reboot_cycle` likewise; `X_main` the device
options, the steps between `show_docs` and `fence_action`, and the callbacks
passed. The tables are grouped by the way an agent talks to its device
(`ShellAgents`, `SnmpAgents`, `CloudAgents`, `VmAgents`). There are 75 rows; an
agent whose code has variants with different control has one for each (fence_ilo
for an iLO2, for RIBCL 2.21 and later, which presses the power button for an on,
and for older ones, `ilo_old`, which asks for a state).

`AgentRun` composes the three: a run starts with an input, goes through
`process_input`, `check_input` and the steps of `main`, and then is the control
of `FenceAction` with the callbacks of the table in place of its
nondeterministic ones. The device answers with any word the table knows; a clear
word is true, behind any other word the machine may be on or off. A step of
`main` that lacks an option always fails (`Misses`) or fails depending on the
device and on options of the agent's own (`MayMiss`); neither counts as a fault.
`faulty` is set by a device that is late, unclear or refuses, and by a step of
`main` that fails for another reason than these options: a device that is not
reached, a file or tool that is not there, an option outside of `UserOptions`
(--switch, --auth-url, --region, --tlscert and the like). Some agents
keep what they have learned about one plug for the next (`kept`, `heard`),
which is what the run with two plugs is about. The rows say what an answer is
taken for; the regular expressions and the JSON that find the word in it are
abstracted away.

### AzureNet

fence_azure_arm with `--network-fencing`. Agent processes on several nodes run
against one machine with several interfaces; each call of the cloud is one step.
An off moves the interfaces one by one into the fence subnet, keeps the home
subnet in a tag, asks for power off without waiting, and reports from the
network state. The monitor of another node reads the interfaces, the power
state, then moves interfaces back and starts the machine. The incarnation of the
machine (`boot`) tells a machine that has come back from one that was never
stopped. Everything may fail: an update is tried again after a CloudError, an
interface is skipped after the last one or after any other exception
(`nic_skipped`), a process ends at any call, by `fail_usage`, by an exception of
the calls that switch the machine, or because it is killed (`Dies`); `MaxFaults`
bounds the two. `hurt` is a history variable with what the properties make an
exception for: "crossed" (two processes move interfaces at a time, two offs
overlap, or an on begins before the machine has stopped), "torn" (a process left
interfaces half moved), "cut" (one ended before it switched the machine).

### AwsVpcNet

fence_aws_vpc_net with tags and with options for the interfaces. Agent processes
on two nodes; each call of the service is one step and may be refused or break
off before or after the service has acted; an agent may be killed between any
two. `sgs`, `backups` and `lastfence` are the groups and the tags, `proc[p]` is a
process with its locals. What is abstract: groups are sets, in the order in
which the service lists them; a chunk of a backup holds one group; a read after
a write sees it (a stale read of the options check is one of the faults);
"stopping" counts as "stopped"; two runs never draw the same second from the
clock; status, monitor and list, which change nothing, are left out.

### Sbd

fence_sbd and `run_commands`. `call`, `proc`, `age` are one call of
`run_commands`: the processes of the sbd tool, one per device to read and one
for all devices to write, each of which may end, fail or hang, and the clock
(below the five seconds of the first wait, above, past the timeout). The control
of `fence_action` is that of `FenceAction` with one plug. `reach` are the
devices that the agent's host can use, `sight` those that the node can; `slow`
is a power timeout below the message wait, of which `main` only warns. The node
and its sbd daemon are external: a node that sees a message acts on it. A run
that failed is followed by another.

### McastListener

Clients of fence_xvm and several daemons. Each attempt
(`send_multicast_packets`) puts up to `Copies` copies of the packet, or none,
into the inbox of each daemon; a daemon takes packets in order, drops those that
its history has, connects back, calls the backend, answers and records. A
connection first waits in the backlog of the client's socket; the client accepts
one and closes the others with the listening socket. With authentication
(`auth`) a daemon goes on only on a connection that was accepted and has met both
challenges; with AUTH_NONE, an option and the fallback for want of a key file,
`connect_tcp` returns at once. Several calls of one host listen on the same port
one after the other. History entries expire at any time. `id` in a packet tells calls
apart for the properties and is read by no action.

### CpgVirt

The group of fence_virtd daemons with the cpg backend. `inbox[n]` is what CPG
has delivered to *n* and its dispatch thread has not handled; a multicast or a
membership change appends to the inboxes of all members in one step, which is
CPG's total order (external). Actions of the dispatch thread are the callbacks
`deliver_reply`, `store_cb`, `cpg_config_change` and `do_real_work` in three
cases (the machine is local; unknown and this node has the highest id; left to
somebody else). The listener thread sends (`cpg_send_req`), reaches
`pthread_cond_wait` (`cpg_wait_reply`), wakes up and looks at the pending list
(`cpg_wait_reply_woken`), and if it finds nothing unlocks and begins anew, so that
a dispatch can fall between any two of these, in later turns as well.
`cpg_virt_init` takes three steps, because the dispatch thread runs already
after the first one: join, list the machines, set `cpg_virt_handle`
(`phase`). libvirt (external) is `host` and `running`. The operations of
`virt.c` are `vm_off`, `vm_on`, `vm_reboot` as sets of possible effects. The
NULL dereferences that a state of the model reaches end the daemon
(`do_real_work_null`, `cpg_virt_hostlist`). `vl_get` keeps the code's index
that restarts with every libvirt connection.

### StorageFence

Agents on several nodes against shared devices; each step is one `sg_persist`
or `mpathpersist` command on one device. `reg` and `res` are the registrations
and the reservation of a device (external, SPC-3: a preempt needs a registered
initiator, removes the key, and takes over the reservation of that key; a
preempt of one's own key clears one's own registration, as the comment in
`register_dev` says, unless the reservation was one's own). `proc[n]` is the
agent process on node *n*: status, set function, status again, as
`fence_action` calls them. `devfile` is the store under `/run`, `check` the
watchdog script. `command_fails` and `agent_fails` are a command that fails
while `set_status` goes on, and a process that ends early.

Assumptions: a node fences others only after it has been unfenced itself, as
pacemaker's unfencing requires; the store does not survive a reboot; the retries
of the watchdog script are at their default of 0; there is one agent process
per node at a time.

## 4. The runs

| Run | Configuration | Properties (all hold) |
|---|---|---|
| `fence_action_contract` | 2 plugs, interference, `--retry-on` 0 and 1, no timeout and 2 polls | `TypeOK`, `KeepsContract` |
| `fence_action_alone` | 2 plugs, nobody else, `--retry-on` 0 and 2, no timeout and 2 polls, fairness | `FencedTogether`, `StaysOff`, `OnOnlyAfterDark`, `FencedIsReported`, `Termination` |
| `agents_one` | 75 rows, 1 plug, every set of the options that the agent knows, both channels, every action | `ReportsTruth`, `NoFaultNoFailure`, `DelayHonoured`, `AcceptedCanLogIn`, `PortFitsPath`, `SwitchesRightWay` |
| `agents_two` | the agents with plugs, 2 plugs, any of them UUIDs | `ReportsTruth`, `NoFaultNoFailure` |
| `azure_monitor` | 2 interfaces; an off and a monitor beside another monitor, off or on, 2 starts of off and on together, 1 fault; fairness | `FencedNeverTalks`, `BackupIntact`, `ComesBack` |
| `aws_vpc_net_runs` | 2 interfaces, 2 processes, 3 starts, 2 faults, 11 setups | `OffIsSeparated`, `OnIsHome`, `GroupsWhole`, `HomeKept` |
| `sbd_runs` | 3 devices, every reach and sight, 2 runs, no timeout and 1 poll, fairness | `CycleIsTrue`, `OffIsTrueWhenSeen`, `SbdTerminates` |
| `mcast_calls` | 1 host, 2 daemons, 2 calls, 2 sequence numbers, 2 attempts, with and without authentication | `TypeOK`, `OwnAnswer`, `ActsOnce` |
| `cpg_stable` | 2 hosts, 1 machine, 2 requests, announcements may be lost, fairness | `TypeOK`, `SomeNodeReplies`, `WaitingIsServed` |
| `cpg_crash` | 3 hosts, 1 machine, 1 request, 1 death, 1 start, replies may be lost | `OffIsTrueUntilJoin`, `OneReplyUntilJoin`, `KnowsAll` |
| `cpg_moves` | 2 hosts, a transient machine, 2 requests, 1 migration, 1 host list, requests may fail | `AnswersOwnRequest` |
| `storage_both` | 2 nodes, 2 devices, both agents, 2 runs, commands of node 1 may fail, formed and unformed cluster, fairness | `TypeOK`, `FencedUntilItRegisters`, `KeepsAccess`, `FencedIsRebooted` |

The type invariants of `AgentRun`, `AzureNet`, `AwsVpcNet` and `Sbd`
(`RunTypeOK`, `TypeOK`, `TypeOK`, `SbdTypeOK`) hold in the same configurations;
they are kept as documentation and can be added to the `INVARIANTS` line. So is
`McastListener!CallEnds`: every call of a client ends. It holds, as a `PROPERTY`,
with `Hosts = {a, b}` and `Daemons = {s}`; the backlog makes it too slow for the
two daemons of `mcast_calls`.

What the runs show, beyond the agent contract:

- *Every agent together with `fence_action`.* `ReportsTruth` is the promise of
  the whole: no agent reports off for a machine that is on, whatever the device
  answers, refuses, loses or does late. It holds but for answers that the
  callbacks are known to take for off, which `TakenForOff` lists one by one,
  and for agents that cannot tell several plugs apart (`MixesPlugs`).
  `NoFaultNoFailure` is its complement: with a willing device all that
  `check_input` lets pass succeeds, but for the requests in `Defective` and for
  those that lack an option which only `main` asks for (`Insufficient`). So the
  exemptions are the exact list of what to look at in the code.
  `SwitchesRightWay`: a power button is pressed once and for a machine seen in the
  other state, and a reboot leaves no command of its off portion for the on
  portion, as long as the device is not late, unclear or unwilling. Agents that
  ask for a state keep to it with any device, for on and for off.
- *Azure.* The monitor that checks and acts in separate calls does not bring a
  fenced machine back into the network and the home subnet is not overwritten by
  a second off, whatever other monitors, offs and ons do, as long as processes
  take turns at moving interfaces and none leaves them half moved. Section 5 says
  what happens else.
- *AWS.* The conditions in `OffIsSeparated` and `OnIsHome` are what the reports
  need; `GroupsWhole` and `HomeKept` hold in spite of faults, since an
  incomplete backup is never restored and an older one is kept.
- *SBD.* A cycle is only ever reported for a node that stopped; an off needs a
  node that sees all devices.
- *Multicast.* The history is what makes a request one effect and an answer the
  right one; both properties fail without it, and `stray` says exactly when it
  cannot help. That no two daemons act on one call takes authentication.

Why the bounds are enough to be interesting. *FenceAction*: two plugs are the
smallest node with redundant supplies, and the loops treat every plug alike;
two polls give a poll that may be repeated and one that times out; `--retry-on`
0 is the boundary, 1 and 2 give a repetition and a repetition of it. The
option records in `MCFenceAction` are the combinations of arguments the agents
pass to `fence_action`, one agent named for each; the proofs need none of these
bounds. *AgentRun*: the option records are those that the agent's callbacks give;
two polls and two retries as above. *AzureNet*: two interfaces make "some moved,
some not" a state that others see; two attempts give one that fails and one
that does not; one fault is one process that dies or one interface that is
skipped, after which the properties make their exception or not. *AwsVpcNet*: three starts are off, off, on in any order and
overlap; one interface has a backup of two chunks and one of a single chunk;
the eleven setups are the combinations of options that change the control. *Sbd*:
three devices have a majority that is neither one nor all; the agent's devices
are initial segments, which are all cases up to a permutation. *McastListener*:
two calls make a late copy of the first meet the second; two daemons compete for
one client; two sequence numbers are equal or not. *CpgVirt*: three hosts with
one death are an owner, a node of the highest id and a bystander in every
combination, since `host` and `running` are free in the initial state; two
requests make the sequence numbers of two daemons, or of one daemon twice,
coincide or differ. *StorageFence*: two agent runs are a fence race or an
unfencing against a fencing; two devices make "one of several" and the order of
the loops matter.

The CPG, storage, multicast and AWS configurations do not check for deadlock:
when all bounds are used up nothing is left to do, and in the CPG backend a
listener that waits for a lost reply is a state of the real program.

### Fairness

- `FenceAction`: weak fairness of the agent's own steps. The process is
  scheduled and every callback returns or raises, since agents bound each
  exchange with the device by `--shell-timeout` or `--login-timeout`. The
  device and other users get no fairness. `Termination` is claimed for
  `--power-timeout` > 0 only; with 0 the code polls for ever by design.
- `CpgVirt`: weak fairness of each thread of each daemon: the threads are
  scheduled and CPG delivers. Spurious wakeups, crashes, starts, migrations and
  clients have none.
- `StorageFence`: weak fairness of the watchdog script, which the watchdog
  daemon runs again and again. Agents have none: they may be killed.
- `AzureNet`: the cloud carries out a power off or start that it has accepted;
  processes that have started go on or die; the cluster repeats its monitor.
- `Sbd`: the agent, the clock, and a node that sees a message stops. The
  processes of the sbd tool have none: they may hang.
- `McastListener`: a client that has started goes on, since all that it waits
  for has a timeout. Daemons and the network have none.
- `AwsVpcNet`, `AgentRun`: safety only, no fairness.

## 5. Known deviations

What documents and comments say, or a reader would expect, and the code does not
do. Each is a definition of a module; adding it to the configuration named makes
TLC print the behaviour.

| Definition | How to reproduce | What happens |
|---|---|---|
| `FenceAction!OnPortionIsDontCare` | `INVARIANT` in `FenceAction_alone.cfg` | A callback that calls `fail()` in the on portion of a reboot makes the agent exit 1 although the node was fenced: `except Exception` (`lib/fencing.py.py:1042`) does not catch `SystemExit`. The comment there and `doc/FenceAgentAPI.md:122` call the on portion a don't-care. `FencedIsReported` is what holds. |
| `CpgVirt!OffIsTrue` | `Nodes = {1, 2}`, `InitUp = {1}`, `MaxStarts = 1`, 1 request "off" | A daemon that joins with the highest id answers requests before it has heard of any machine of the others; the comment at `cpg-virt.c:270-273` says "We know about all domains on all nodes". Also with `Uri <- TwoUris` and two machines in a stable group: `vl_get` overwrites the machines of the first connection. |
| `CpgVirt!SomeNodeReplies` | `CpgVirt_stable.cfg` with `MaxMoves = 1` | A machine that migrates between the dispatches of one request at two hosts is answered for by nobody, and the wait has no timeout (`cpg-virt.c:206-207`). |
| the same | `CpgVirt_stable.cfg` with `Transient = {1}`, `Asks = {"off"}` | A transient machine that one request has destroyed stays on the remote lists of the other hosts, so that nobody answers the next request for it, unless its host has the highest id. |
| `CpgVirt!AnswersOwnRequest` | `CpgVirt_moves.cfg` with `MaxCrashes = 1`, `MaxStarts = 1` | `seqnum` restarts at 0 with the daemon, so that a late reply is taken for the reply to a new request. |
| `CpgVirt!RepliedIsAnswered` | `PROPERTY` in `CpgVirt_stable.cfg` | `cpg_wait_reply` waits before it looks: a reply dispatched before `pthread_cond_wait` wakes nobody. The same happens in a later turn of its loop, between the unlock (`cpg.c:323`) and the next wait. `WaitingIsServed` is what holds. |
| `CpgVirt!KnowsAll` | `CpgVirt_crash.cfg` with `InitUp = {}`, `MaxStarts = 2` | A join dispatched between the announcement and the assignment of `cpg_virt_handle` is not answered by an announcement. |
| `StorageFence!FencedStaysOut` | `StorageFence_both.cfg` with `Agents = {"scsi"}`, `Runs = {"off"}` | Two nodes that fence each other with fence_scsi: "off" registers the key of the node it runs on, so that a node reported fenced can write. |
| `AgentRun!EveryPlugFenced` | `INVARIANT` in `AgentRun_two.cfg` | Agents of `MixesPlugs` read and switch one machine for two plugs: `--uuid` or the number of an outlet is never reset. |
| `AzureNet!FencedNeverTalks` | without its condition on `hurt` | Crossed: an explicit on gives the network back to an incarnation that is still shutting down; a monitor that has read the machine as stopped moves interfaces back that a later off has fenced, after another monitor has started the machine. Torn: a process that brings the machine back skips an interface and starts it, while an off that has read the other interface before reports off. |
| `AzureNet!BackupIntact` | without its condition on `hurt` | Torn: an off that died or skipped an interface is repeated, and overwrites the tag of the one that is in the fence subnet already with the fence subnet. Crossed: two offs at a time do the same. |
| `AzureNet!ComesBack` | `<>(hurt # {})` replaced by `FALSE` | Torn: an interface that a monitor skipped stays in the fence subnet, and the next monitor, which finds the others home, does nothing. Cut: a start that raises an exception, after the interfaces are home, leaves the machine stopped. |
| `Sbd!OffIsTrue` | `MCTimeouts = {1}`, `Runs = 1` | For off nobody looks at what `set_power_status` returned: a message that sbd could write to a minority only is read back from there, also when the node does not see that device. |
| `McastListener!ZeroMeansDone` | `INVARIANT` in `McastListener_calls.cfg` | Copies of a call that timed out are acted on when the next call of the host listens, which takes the answer for its own. |
| `McastListener!OneDaemonActs` | the same | With AUTH_NONE the handshake of `connect_tcp` does nothing (`common/simple_auth.c:390-392`, `409-411`) and the backlog of 10 lets several daemons connect: all of them act on one call, and the client takes the answer of one. |
| `McastListener!TypeOK` | `Attempts = 0` | `timeout * 10 / retr_time` is 0 with `-t 1`; the counter goes to -1 and the loop, which ends at 0, does not end. |
| `AwsVpcNet`: `~wrongOff` | as an invariant, with `{ByTags}` for `Setups`, `MaxStarts = 2`, `MaxFaults = 1` | The tags are written before the groups are changed and `is_instance_fenced` believes them: after one fault or killed agent the next off reports "already off" for a machine with all its groups. Two overlapping offs reach it as well, and so does an interface that is skipped because it would be left without a group (`LeavesOne`). |
| `AwsVpcNet!OnIsHome` | the setup `[ByTags EXCEPT !.secg = {}, !.ignoreState = TRUE, !.desired = Given(<<{3}, {1}>>, NoOption)]` | An off by options sets the groups and writes no tags; the next on, without options, finds no tags, takes the machine for on and reports success with the groups of the off still in place. `Restorable` in `OnIsHomeCorrect` leaves such setups out. |

Others that show in the conditions of the properties: an on of AWS by the
options of the interfaces leaves the tags of an off by `--secg` behind, so that
the next off reports "already off" for a machine with all its groups, with no
fault at all (`LeavesTags`; drop it from `OffIsSeparated` to see the run); an on
of AWS deletes the
backup after an update was refused (`refused` in `HomeKept`); an API error in
its status reads as "on", so that an on reports success for a fenced machine and
a second off backs up the groups of a fenced one; with interface options and
without `--ignore-instance-state` an off is never seen (`Unseen`); two agents in
the same second would mix their chunks. `on` of a stopped Azure machine that has
no tags always fails. fence_sbd's off with `--crashdump` never reads off.
fence_cyberpower_ssh without `--ssh`, fence_lpar with `--managed` instead of
an address and fence_wti with `--ssh` and without user or password pass
`check_input` and cannot log in (`AcceptedCanLogIn`). Others pass and fail in
`main`, or in its first command, for want of an option (`Insufficient`):
fence_lpar without `--managed`; fence_drac5 (on a CMC) and fence_openstack
without `--plug`; fence_wti, if the device asks, fence_xenapi, fence_vmware,
fence_openstack without clouds.yaml, fence_ovm and fence_azure_arm, depending on
its other options, without user or password. Answers that are taken for off
without knowing (`TakenForOff`): among others every sleep state of fence_amt but
S0, and in a list of fence_zvmip every machine after an error reply.
fence_raritan_px3 uses the port of telnet with `--ssh` (`PortFitsPath`); a retry
presses the power button of an iLO again, and in a reboot a late off of the off
portion may be carried out after the on (`faulty` in `SwitchesRightWay`); diag
is not delayed (`DelayHonoured`). The comment on `get_multi_power_fn`
(`lib/fencing.py.py:815`) has "on" returned if at least one plug is on; the code
returns the last reading that is not "off". `doc/FenceAgentAPI.md:137` lets
monitor return 2 for single-port hardware that is off, `fence_action` returns 0.
The watchdog script can reboot a healthy node while an agent on it is between
its self-preempt and its second registration.

Hazards that no property covers, apart from those in `PROJECT.json`: the pages
of fence_hetzner_cloud (a server on the second page is not found) and the token
renewal of fence_ibm_vpc; values of switches on standard input (`ssh=0` is
stored, and the login tests for the key); a timeout of "0" given as a string;
`select` in fence_kdump, whose remaining time POSIX leaves open; entries that
stay on the pending list of cpg.c for ever; the dispatch thread that is started
before `cpg_handle` is assigned; the reconnection loop of libvirt in that
thread; two agents that rewrite the one outlet string of a Lindy PDU.

## 6. What is proved

A theorem holds for every value of the constants: any number of nodes, plugs,
devices, interfaces, requests, faults and retries, within the assumption that
the module states of its constants (`...Assumption`). The runs show the same
properties on small instances. Where a theorem has a hypothesis of its own it is
in the table, and below is what happens without it.

| Module | Theorem | States | Hypothesis |
|---|---|---|---|
| `FenceActionProofs` | `TypeCorrect` | `Spec => []TypeOK` | |
| | `ContractKept` | `Spec => KeepsContract`: the refinement of `FencingContract` | |
| | `FencedTogetherHolds` | `Spec => []FencedTogether` | |
| | `StaysOffHolds` | `Spec => []StaysOff` | |
| | `OnOnlyAfterDarkHolds` | `Spec => OnOnlyAfterDark`, an action property | |
| | `FencedIsReportedHolds` | `Spec => FencedIsReported`, an action property | |
| `StorageFenceProofs` | `TypeCorrect` | `Spec => []TypeOK` | |
| | `FencedUntilItRegistersCorrect` | `Spec => []FencedUntilItRegisters` | |
| | `KeepsAccessCorrect` | `Spec => []KeepsAccess` | |
| `SbdProofs` | `CycleIsTrueCorrect` | `SbdSpec => []CycleIsTrue` | |
| | `OffIsTrueWhenSeenCorrect` | `SbdSpec => []OffIsTrueWhenSeen` | |
| `McastListenerProofs` | `OwnAnswerCorrect` | `Spec => []OwnAnswer` | |
| | `ActsOnceCorrect` | `Spec => []ActsOnce` | |
| | `TypeCorrect` | `Spec => []TypeOK` | `Attempts # 0` |
| `CpgVirtProofs` | `TypeCorrect` | `Spec => []TypeOK` | |
| | `AnswersOwnRequestCorrect` | `Spec => [](starts = 0 => AnswersOwnRequest)` | no daemon was started again, `starts = 0` |
| | `OffIsTrueUntilJoinCorrect` | `Spec => []OffIsTrueUntilJoin` | `OneConnection`, no migration |
| | `OneReplyUntilJoinCorrect` | `Spec => []OneReplyUntilJoin` | the same |
| | `KnowsAllCorrect` | `Spec => [](starts <= 1 => KnowsAll)` | the same, and no announcement is lost |
| | `SomeNodeRepliesCorrect` | `Spec => [](starts = 0 /\ member = InitUp => SomeNodeReplies)` | `OneConnection`, no migration, no transient machine, no reply is lost; no daemon has died or was started |
| `AzureNetProofs` | `FencedNeverTalksCorrect` | `Spec => []FencedNeverTalks` | |
| | `BackupIntactCorrect` | `Spec => []BackupIntact` | |
| `AwsVpcNetProofs` | `GroupsWholeCorrect` | `Spec => []GroupsWhole` | |
| | `OffIsSeparatedCorrect` | `Spec => []OffIsSeparated` | |
| | `HomeKeptCorrect` | `Spec => []HomeKept` | `OptionsNameHome` |
| | `OnIsHomeCorrect` | `Spec => [](Restorable => OnIsHome)` | `Restorable` |
| `AgentRunProofs` | `ReportsTruthCorrect` | `RunSpec => []ReportsTruth` | |
| | `NoFaultNoFailureCorrect` | `RunSpec => []NoFaultNoFailure` | |
| | `DelayHonouredCorrect` | `RunSpec => []DelayHonoured` | |
| | `AcceptedCanLogInCorrect` | `RunSpec => []AcceptedCanLogIn` | |
| | `PortFitsPathCorrect` | `RunSpec => []PortFitsPath` | |
| | `SwitchesRightWayCorrect` | `RunSpec => SwitchesRightWay`, an action property | |

None of the invariants is inductive as it stands. Each module of proofs begins
with the invariant `IInv` that is, and a second one where a theorem needs more;
TLC agrees with them on the instances of the runs, and on larger ones for the
storage agents. A proof
has one lemma per action or group of like actions and combines them in
`NextIInv`, or the last lemma before the theorem. What the invariants add:

- *FenceAction.* `KeepsContract` needs to know, at the step that exits, that the
  local variable the code looks at stands for readings it has made. `Control`
  says which request and which value of `--action` go with each callback,
  `Grounds` that `acc = "off"` after *k* plugs means that the first *k* were last
  read off, that `status` and `success` rest on such readings, and that the on
  portion of a reboot starts from "all off". The lemmas `ReadStep`,
  `CommandStep`, `ControlStep` show that a step keeps `Grounds`; exits and the
  start of a set function have their own (`ExitZero`, `ExitOne`,
  `BeginSetKeeps`, `SetReturnedKeeps`). `FencedIsReported` follows with `QuitInv` (a process
  that goes on has not met `fail()`): in the on portion `Control` leaves only
  loops that time out or run out of attempts, and exceptions, which all exit
  with 0. `FencedTogether`, `StaysOff` and `OnOnlyAfterDark` are about
  the device, not about the readings: `DeviceInv` adds that, without
  interference, nothing but "off" is pending before the node has been dark, so
  that a plug found off stays off until the loop ends.
- *StorageFence.* `Control` ties program points to actions and agents and bounds
  the count of devices that failed. `Reserved`: a reservation, once there, is
  never given up, and a node fences only after all devices have one, so a node
  without a key is out. `Clean`: nobody registers the key of a node that is
  marked clean. `Absent`: the devices that the status loop of a clean off has
  passed do not have the key of the target. `Access`: where a node that nobody
  disturbs has its key in spite of the preempt of its own key in `register_dev`.
  Every action of an agent is a `Step`, a move of one process with one change of
  one device, so that the other nodes have one lemma.
- *Sbd.* `Cycled`: what was written of a message and seen is still in the slot
  until the node stops, and the writing process ends with success only after
  that; the majority that was written to meets the majority that the node needs
  to live (`Overlap`). `Obeyed`: a node that sees all devices runs with a message
  in its slot only while that is being written or after it was given up.
- *McastListener.* `Control`: what a program point of a client or of a daemon
  has open, and that only authentication leads to a handshake (`Asked`).
  `Linked`: an open connection belongs to the request that its daemon works on.
  `Ids`: a packet belongs to one call. `Own`: while a client sends or waits,
  copies of earlier calls of its host are in the history of the daemon or at work
  there (`KeptOut`). `Each`: what a daemon has carried out is kept out by its own
  history. `Single`, with authentication: a call whose client has not accepted a
  connection is `Untouched`, and then one daemon works on it. `Counted` is for
  `TypeOK`: with `Attempts = 0` the counter goes below zero (section 5).
- *CpgVirt.* `Numbered`: the pairs of a node and a sequence number that are in a
  request, a reply, the pending list or a waiting listener belong to one request
  each, and the daemon has counted past them. It breaks when a daemon starts
  again and counts from 0. `OffInv` is for `OffIsTrueUntilJoin`; its
  `Settled` says that every member knows the host of every machine of the other
  members, and that no announcement or departure on its way can make it forget
  one; so the node of the highest id answers for machines that are nowhere. A migration
  and a second libvirt connection break it (section 5). That a finite set of ids
  has a largest one is proved by well-foundedness (`HasLargest`).
  `OneInv` is for `OneReplyUntilJoin`: of the members that have handled a request
  at most one found the machine local or, for an unknown machine, had the highest
  id (`OneOwner`, `OneReply`), and whoever has still to handle it will leave it to
  that one (`Known`, `Yields`). A daemon that joins and does not know the machines
  yet answers beside the owner, which is why the property ends there. `SpreadInv`
  is for `KnowsAll`: an announcement that a member has not handled is in its inbox
  (`Told`), or its sender has yet to make it (`Owes`); a lost announcement leaves a
  gap, and so do two starts (section 5). `ReplyInv` is for `SomeNodeReplies`: a
  request that a listener waits for is in the inbox of the one member that will
  answer it, or its reply is on the way (`Attended`, with `Speaker` for that
  member). It breaks when that member dies, when a reply is lost, when the machine
  moves, or when a transient machine goes away (section 5): then the wait, which
  has no timeout, is for ever.
- *AzureNet.* `IInv` says nothing but types once `hurt` has "crossed" or "torn"
  in it. Until then, `Cloud`: interfaces are home without a tag or in the fence
  subnet with one, all alike while nobody moves them, and in the fence subnet when
  the machine is going down or was reported off. `Turns`: one off at a time, and
  one process that moves interfaces. `Work`: an off that moves has the machine up
  and the interfaces to itself (`Fencing`); a monitor or an on moves only while
  the machine is stopped (`Restoring`), and how far each has come. So nobody
  writes back an old copy of an interface, and a tag is only written by who finds
  the interface at home.
- *AwsVpcNet.* `GroupsWhole`: all tags of one time and one interface are chunks
  of one set of groups (`Tags`), which a process at work holds (`Backing`), and
  two that write have different times (`Apart`); so a backup of the right number
  of chunks is that set, since each group has its place in the order (`Ranks`,
  `CompleteIsWhole`). `HomeKept`: an interface that lost its groups has a full
  backup (`Safe`), the tags of lastfence do not make a restore overwrite groups
  that are in place (`Stamped`), an off has backed up what it has seen before it
  changes it (`OffOK`), an on has given back what the tags say before it deletes
  them (`OnOK`), and no on runs beside an off (`Pair`). `OptionsNameHome`: an on whose options
  name other groups gives those to an interface, without a backup, by design.
  `OffIsSeparated`: without tags `backups` stays empty and the status looks at the
  groups (`NoTags`); with tags and nothing that fails or overlaps, lastfence is
  there only while the machine is separated or a loop is between (`CalmInv`),
  so that the tags are never asked. `OnIsHome`: `OnInv` follows runs that do not
  overlap and meet no fault, with tags by the backup that an off has made and the
  following on takes (`RunInv`, `RunOK`), without them by the options of the two
  (`PlainInv`).
- *AgentRun.* The facts that the proofs need of a row of the tables are defined
  once (`RowOK`: which answers are taken for off, what is asked of the device,
  which steps main has and which options it declares) and proved for each of the
  75 rows by expanding it; `TableRows` puts them together, and nothing else looks
  into a row. So an agent that is added, or a row that changes, has one lemma
  to be proved again. `RunControl` says which request and which value of
  `--action` go with each callback. `DelayInv`: main has waited or a step that
  waits is still to come. `TruthInv`: while only offs are sent (`Safe`), nothing pending brings a machine
  up (`Harmless`), so that what was found off stays off (`OffInv`); the power
  button of an iLO2 is pressed once, for a machine that is on (`ButtonInv`);
  `Outcome` is what exits and lists may then say. `LoginInv`: the options that
  `check_input` leaves have all that one way of login needs (`Prepared`).
  `CleanInv`: without a fault the readings are those of the machines
  (`FineReading`), every plug passed is on its way to where `--action` asks
  (`Due`, `FineCommand`), so that the first poll with nothing pending is the
  last, and no exit is 1 (`FineEnd`). `WayInv` rests on it: without a fault
  whatever the device has accepted leads to the state that `fence_action` is at
  (`Leads`; for a button, the machine is in the other state), since nothing is
  pending when a portion of a reboot ends (`NothingLeft`); an on or an off leaves
  nothing but its own commands at the device. `AgentsAssumption` has several plugs for
  agents with `--plug` only, as `fence_action` has; an iLO, whose button would
  be pressed for each of them, is none.

Only model-checked:

- the liveness properties `Termination`, `WaitingIsServed`, `FencedIsRebooted`,
  `ComesBack` and `SbdTerminates`: fairness and ENABLED are outside of
  what TLAPS proves;
- `OnIsHome` for the one setup of the run that is not `Restorable`: an on whose
  options leave an interface out, which refuses to change anything.

`AgentTable` defines `@@` itself, with the meaning that the module
TLC gives it, because the provers have to expand it to look at a row.

## 7. What is not modelled

- *Formatting and dialogue*: metadata, usage and manual pages, logging, the
  prompts of the login dialogues, the regular expressions and JSON paths that
  find a word in an answer, the values of options but for the port, and options
  outside of `UserOptions`: a step or a callback that lacks one of an agent's own
  (--switch, --auth-url, --region, --tlscert) shows as a fault or as an unclear
  answer. fence_vmware and fence_powerman without `--plug` ask for a machine
  without a name; the model has them ask for the one machine.
- *What a power button does.* `HOLD_PWR_BTN` of an iLO that is no iLO2 is taken
  to switch off, and `PRESS_PWR_BTN` and the `HOLD_PWR_BTN` of an iLO2 to send the
  machine to the other state, whatever the firmware.
- *Two processes of a table agent at one device.* `AgentRun` has one agent; with
  `Interference` `FenceAction` has other users. A device's own races
  (fence_lindypdu's outlet string) are not modelled.
- *fence_ovh*, which does not use `fence_action` and judges by the times in its
  provider's log; *fence_compute* and *fence_evacuate*, whose state is nova's;
  *fence_heuristics_ping*'s count of targets; *fence_kdump*, one loop around
  `select`; the C agent *fence_zvm*, byte layouts of one request.
- *fence_virtd*: configuration, plugins, the static map of permissions, the
  hashes of authentication, the tcp, vsock and serial listeners (connections do
  not duplicate requests), the libvirt backend (its operations are those of
  `virt.c` in `CpgVirt`). In `CpgVirt` libvirt is reachable.
- Of *fence_scsi*: generation of keys, discovery of devices, device readiness.
- XenAPI (a vendored client), MIB files, the autodetect prototype, the test
  agent, tests and packaging.
- `FenceAction` counts polls, as the loop of `async_set_multi_power_fn` does;
  the seconds between them are left out.
