----------------------------- MODULE AwsVpcNet -----------------------------
(***************************************************************************)
(* fence_aws_vpc_net (agents/aws_vpc_net): an off takes the security       *)
(* groups of a machine's network interfaces away, an on gives them back.   *)
(* The groups that an interface had are kept in tags of the machine, one   *)
(* or several for each interface, with the time of the run; the tag        *)
(* lastfence says which of them are valid.  With options for the           *)
(* interfaces an on needs no tags, and none are written.                   *)
(*                                                                         *)
(* Agent processes on several nodes run against one machine.  Every call   *)
(* of the service is one step; it may be refused (a ClientError), or its   *)
(* connection may break before or after the service has acted.             *)
(***************************************************************************)
EXTENDS Integers, FiniteSets

CONSTANTS Procs,       \* agent processes
          NNics,       \* network interfaces of the machine
          Home,        \* Home[n]: the security groups of interface n in service
          Setups,      \* the options that the agents are configured with
          MaxStarts,   \* bound: agents started
          MaxFaults,   \* bound: calls that fail and agents that are killed
          MaxPolls,    \* polls before --power-timeout
          max_retries  \* attempts to set the groups of an interface

Nics == 1 .. NNics
Groups == Nat          \* security groups, in the order the service lists them

\* A setup: secg is --secg ({} if not given), keep --invert-sg-removal,
\* desired[a][n] the groups that --interface<n>-sg gives for action a ({} if
\* none), self the process that runs on the machine itself.
ASSUME AwsVpcNetAssumption ==
    /\ NNics \in Nat \ {0} /\ Home \in [Nics -> SUBSET Groups]
    /\ \A n \in Nics : IsFiniteSet(Home[n]) /\ Home[n] # {}
    /\ MaxStarts \in Nat /\ MaxFaults \in Nat /\ MaxPolls \in Nat \ {0}
    /\ max_retries \in Nat \ {0}
    /\ \A s \in Setups :
          /\ s.secg \subseteq Groups /\ s.desired \in [{"on", "off"} -> [Nics -> SUBSET Groups]]
          /\ IsFiniteSet(s.secg)
          /\ \A a \in {"on", "off"}, n \in Nics : IsFiniteSet(s.desired[a][n])
          /\ {s.keep, s.ignoreState, s.ignoreTags, s.poweroff, s.ignoreRestore} \subseteq BOOLEAN

VARIABLES
    setup,      \* the options of all agents
    sgs,        \* service: sgs[n], the groups of interface n
    backups,    \* service: the tags Original_SG_Backup, one for each chunk
    lastfence,  \* service: the tag lastfence, 0 if there is none
    vm,         \* service: state of the machine
    proc,       \* proc[p]: the process, see Idle
    now,        \* time.time(), drawn anew by every set_power_status
    starts, faults,     \* counters for the bounds
    overlaps,   \* history: the actions of agents that ran at the same time
    refused,    \* history: an update was refused while groups were restored
    wrongOff,   \* history: off reported while an interface was not separated
    wrongOn     \* history: on reported while an interface was not as at home

cloudVars == <<sgs, backups, lastfence, vm>>
history == <<overlaps, refused, wrongOff, wrongOn>>
vars == <<setup, cloudVars, proc, now, starts, faults, history>>

\* t is the timestamp of the run, seen the groups as last read, bk what the
\* tags say, at and chunk the loop variables, modified the interfaces updated.
Nothing == [n \in Nics |-> {}]
Idle == [pc |-> "idle", action |-> "none", t |-> 0, seen |-> Nothing, bk |-> Nothing,
         at |-> 1, chunk |-> 0, modified |-> {}, tries |-> 0, polls |-> 0]

At(p, l) == proc[p].pc = l
Act(p) == proc[p].action
Cur(p) == proc[p].at

\* The process goes on with r.
Goes(p, r) == proc' = [proc EXCEPT ![p] = r]
GoesTo(p, l) == Goes(p, [proc[p] EXCEPT !.pc = l])
Exits(p) == Goes(p, Idle)

\* set_power_status returns, and fence_action polls.
Polls(p) == Goes(p, [Idle EXCEPT !.pc = "status", !.action = Act(p), !.polls = 1])

----------------------------------------------------------------------------
(* What the options ask for.                                               *)

Desired(a, n) == setup.desired[a][n]
interface_sg_present(a) == \E n \in Nics : Desired(a, n) # {}

\* check_sg_modifications, for the groups g of one interface.
Fenced(g) == IF setup.keep THEN g = setup.secg ELSE g \cap setup.secg = {}

\* Mutant: the groups of a running machine only are looked at.
check_sg_modifications_running ==
    vm = "running" /\ setup.secg # {} /\ \A n \in Nics : Fenced(sgs[n])

check_sg_modifications == setup.secg # {} /\ \A n \in Nics : Fenced(sgs[n])

\* check_interface_sg_match.
check_interface_sg_match(a) ==
    IF a = "off" /\ setup.secg # {}
    THEN \A n \in Nics : Fenced(sgs[n])
    ELSE /\ interface_sg_present(a)
         /\ \A n \in Nics : Desired(a, n) # {} => sgs[n] = Desired(a, n)

\* Whether off writes tags.
UsesTags == setup.secg # {} /\ ~interface_sg_present("off")

----------------------------------------------------------------------------
(* get_power_status, called by fence_action.                               *)

\* The interfaces are cut off from what they are to be cut off from.
Separated ==
    IF setup.secg # {} THEN \A n \in Nics : Fenced(sgs[n])
    ELSE \A n \in Nics : Desired("off", n) # {} => sgs[n] = Desired("off", n)

\* get_power_status has returned s: the action is done, the set function is
\* called, or it is time for the next poll.
StatusIs(p, s) ==
    /\ IF s = Act(p) THEN Exits(p)
       ELSE IF proc[p].polls = 0 THEN GoesTo(p, "set")
       ELSE IF proc[p].polls < MaxPolls
       THEN Goes(p, [Idle EXCEPT !.pc = "status", !.action = Act(p), !.polls = proc[p].polls + 1])
       ELSE Exits(p)
    /\ wrongOff' = (wrongOff \/ (s = "off" /\ Act(p) = "off" /\ ~Separated))
    /\ wrongOn' = (wrongOn \/ (s = "on" /\ Act(p) = "on" /\ sgs # Home))
    /\ UNCHANGED <<overlaps, refused>>

\* A call fails.
Fault == faults < MaxFaults /\ faults' = faults + 1
NoFault == UNCHANGED faults

ByInterfaces(p) == interface_sg_present(Act(p)) /\ setup.ignoreState

\* handle_interface_options_with_ignore_instance_state; a failure of the first
\* call is logged, and the tags are asked.
status_by_interfaces(p) ==
    /\ At(p, "status") /\ ByInterfaces(p)
    /\ \/ /\ NoFault
          /\ StatusIs(p, IF check_interface_sg_match(Act(p)) = (Act(p) = "on") THEN "on" ELSE "off")
       \/ Fault /\ StatusIs(p, IF Act(p) = "on" THEN "off" ELSE "on")
       \/ Fault /\ GoesTo(p, "fenced") /\ UNCHANGED history
    /\ UNCHANGED <<setup, cloudVars, now, starts>>

\* is_instance_fenced: the security groups are looked at first.
is_instance_fenced(p) ==
    /\ At(p, "fenced") \/ (At(p, "status") /\ ~ByInterfaces(p))
    /\ \/ NoFault /\ check_sg_modifications /\ StatusIs(p, "off")
       \/ /\ check_sg_modifications => Fault
          /\ ~check_sg_modifications => NoFault
          /\ GoesTo(p, "lastfence") /\ UNCHANGED history
    /\ UNCHANGED <<setup, cloudVars, now, starts>>

\* Then lastfence, and the backup tags.  An error means that it is not fenced.
is_instance_fenced_lastfence(p) ==
    /\ At(p, "lastfence")
    /\ \/ NoFault /\ lastfence = 0 /\ StatusIs(p, "on")
       \/ Fault /\ StatusIs(p, "on")
       \/ /\ NoFault /\ lastfence # 0
          /\ Goes(p, [proc[p] EXCEPT !.pc = "tags", !.t = lastfence]) /\ UNCHANGED history
    /\ UNCHANGED <<setup, cloudVars, now, starts>>

is_instance_fenced_tags(p) ==
    /\ At(p, "tags")
    /\ \/ NoFault /\ StatusIs(p, IF \E b \in backups : b.t = proc[p].t THEN "off" ELSE "on")
       \/ Fault /\ StatusIs(p, "on")
    /\ UNCHANGED <<setup, cloudVars, now, starts>>

Status(p) == \/ status_by_interfaces(p) \/ is_instance_fenced(p)
             \/ is_instance_fenced_lastfence(p) \/ is_instance_fenced_tags(p)

----------------------------------------------------------------------------
(* set_power_status: the dispatch.                                         *)

\* An agent that finds itself on the machine to be fenced refuses; it goes on
\* with --skip-race-check, or when the metadata service does not answer.
self_check(p) ==
    /\ At(p, "set") /\ setup.self = p
    /\ Exits(p)
    /\ UNCHANGED <<setup, cloudVars, now, starts, faults, history>>

\* Where set_power_status goes on once the state of the machine is known.
Branch(p) ==
    IF Act(p) = "on"
    THEN IF interface_sg_present("on") THEN "options"
         ELSE IF setup.ignoreRestore THEN "return" ELSE "restore"
    ELSE IF setup.secg # {} THEN "modify"
         ELSE IF ~interface_sg_present("off") THEN "return"
         ELSE IF setup.ignoreState THEN "options" ELSE "match"

\* get_instance_details; an off needs a running machine.
set_power_status(p) ==
    /\ At(p, "set")
    /\ \/ /\ NoFault
          /\ IF Act(p) = "off" /\ vm # "running" /\ ~setup.ignoreState THEN Exits(p)
             ELSE IF Branch(p) = "return" THEN Polls(p)
             ELSE Goes(p, [proc[p] EXCEPT !.pc = Branch(p), !.t = now + 1])
       \/ Fault /\ Exits(p)
    /\ now' = now + 1
    /\ UNCHANGED <<setup, cloudVars, starts, history>>

\* Without --secg an off looks first whether there is something to do.
set_power_status_match(p) ==
    /\ At(p, "match")
    /\ \/ NoFault /\ check_interface_sg_match("off") /\ Polls(p)
       \/ /\ check_interface_sg_match("off") => Fault
          /\ ~check_interface_sg_match("off") => NoFault
          /\ GoesTo(p, "options")
    /\ UNCHANGED <<setup, cloudVars, now, starts, history>>

----------------------------------------------------------------------------
(* modify_security_groups.                                                 *)

\* A broken connection is not a ClientError: --ignore-tag-write-failure makes
\* set_power_status take it for a failure to write a tag.
ConnectionError(p) == IF setup.ignoreTags THEN Polls(p) ELSE Exits(p)

\* Mutant: tags are written although the options name the groups.
modify_security_groups_tagged(p) ==
    /\ At(p, "modify")
    /\ \/ NoFault /\ Goes(p, [proc[p] EXCEPT !.pc = "backup", !.seen = sgs])
       \/ Fault /\ (Exits(p) \/ ConnectionError(p))
    /\ UNCHANGED <<setup, cloudVars, now, starts, history>>

\* get_instance_details: the groups that are kept and changed.
modify_security_groups(p) ==
    /\ At(p, "modify")
    /\ \/ /\ NoFault
          /\ Goes(p, [proc[p] EXCEPT !.pc = IF UsesTags THEN "backup" ELSE "update", !.seen = sgs])
       \/ Fault /\ (Exits(p) \/ ConnectionError(p))
    /\ UNCHANGED <<setup, cloudVars, now, starts, history>>

\* A tag could not be written, or not be verified.
TagFails(p) ==
    Fault /\ IF setup.ignoreTags THEN Goes(p, [proc[p] EXCEPT !.pc = "update", !.at = 1])
                                 ELSE Exits(p)

\* Group number k, from 0, of the set g.
Nth(g, k) == CHOOSE x \in g : Cardinality({y \in g : y < x}) = k

\* The tag for the current chunk; a chunk holds one group.
Chunk(p) ==
    LET g == proc[p].seen[Cur(p)]
    IN [t |-> proc[p].t, nic |-> Cur(p), i |-> proc[p].chunk, total |-> Cardinality(g),
        s |-> Nth(g, proc[p].chunk)]

ChunksDone(p) == proc[p].chunk + 1 = Cardinality(proc[p].seen[Cur(p)])

\* create_backup_tag: one tag is written and read again.
create_backup_tag(p) ==
    /\ At(p, "backup")
    /\ \/ /\ NoFault
          /\ backups' = backups \cup {Chunk(p)}
          /\ Goes(p, IF ~ChunksDone(p) THEN [proc[p] EXCEPT !.chunk = @ + 1]
                     ELSE IF Cur(p) < NNics THEN [proc[p] EXCEPT !.at = @ + 1, !.chunk = 0]
                     ELSE [proc[p] EXCEPT !.pc = "stamp", !.at = 1, !.chunk = 0])
       \/ TagFails(p) /\ backups' \in {backups, backups \cup {Chunk(p)}}
    /\ UNCHANGED <<setup, sgs, lastfence, vm, now, starts, history>>

\* set_lastfence_tag.
set_lastfence_tag(p) ==
    /\ At(p, "stamp")
    /\ \/ NoFault /\ lastfence' = proc[p].t /\ GoesTo(p, "update")
       \/ TagFails(p) /\ lastfence' \in {lastfence, proc[p].t}
    /\ UNCHANGED <<setup, sgs, backups, vm, now, starts, history>>

\* What an interface with the groups g is to have.
updated_sgs(g) == IF setup.keep THEN setup.secg ELSE g \ setup.secg

\* An interface is skipped when no group would be left, or nothing changes.
Untouched(g) == updated_sgs(g) = {} \/ updated_sgs(g) = g

\* The loop goes on, or ends: with nothing changed although there was something
\* to change it has failed.
NextUpdate(p, modified) ==
    IF Cur(p) < NNics THEN Goes(p, [proc[p] EXCEPT !.at = @ + 1, !.modified = modified])
    ELSE IF modified = {} /\ \E n \in Nics : ~Fenced(proc[p].seen[n]) THEN Exits(p)
    ELSE IF setup.poweroff THEN GoesTo(p, "shutdown")
    ELSE Polls(p)

\* modify_network_interface_attribute for one interface; when it is refused
\* the next one is tried.
modify_interface(p) ==
    /\ At(p, "update")
    /\ LET n == Cur(p)
           g == proc[p].seen[n]
           done == [sgs EXCEPT ![n] = updated_sgs(g)]
           modified == proc[p].modified
       IN \/ Untouched(g) /\ NoFault /\ UNCHANGED sgs /\ NextUpdate(p, modified)
          \/ ~Untouched(g) /\ NoFault /\ sgs' = done /\ NextUpdate(p, modified \cup {n})
          \/ ~Untouched(g) /\ Fault /\ UNCHANGED sgs /\ NextUpdate(p, modified)
          \/ ~Untouched(g) /\ Fault /\ sgs' \in {sgs, done} /\ ConnectionError(p)
    /\ UNCHANGED <<setup, backups, lastfence, vm, now, starts, history>>

\* stop_instances, not waited for.
shutdown_instance(p) ==
    /\ At(p, "shutdown")
    /\ \/ NoFault /\ vm' = "stopped" /\ Polls(p)
       \/ Fault /\ vm' \in {vm, "stopped"} /\ Exits(p)
    /\ UNCHANGED <<setup, sgs, backups, lastfence, now, starts, history>>

----------------------------------------------------------------------------
(* restore_security_groups.                                                *)

\* Mutant: the time of a tag is not compared with lastfence.
matching_backups_any(t, n) == {b.s : b \in {x \in backups : x.nic = n}}

\* The groups of interface n by the tags of time t, {} if a chunk is missing.
matching_backups(t, n) ==
    LET bs == {b \in backups : b.t = t /\ b.nic = n}
    IN IF \A b \in bs : Cardinality(bs) = b.total THEN {b.s : b \in bs} ELSE {}

\* lastfence is read; without it the process ends.
restore_lastfence(p) ==
    /\ At(p, "restore")
    /\ \/ NoFault /\ lastfence # 0 /\ Goes(p, [proc[p] EXCEPT !.pc = "collect", !.t = lastfence])
       \/ NoFault /\ lastfence = 0 /\ Exits(p)
       \/ Fault /\ Exits(p)
    /\ UNCHANGED <<setup, cloudVars, now, starts, history>>

\* The backup tags are read, and then the interfaces.
restore_collect(p) ==
    /\ At(p, "collect")
    /\ LET bk == [n \in Nics |-> matching_backups(proc[p].t, n)]
       IN \/ NoFault /\ bk # Nothing /\ Goes(p, [proc[p] EXCEPT !.pc = "details", !.bk = bk])
          \/ NoFault /\ bk = Nothing /\ Exits(p)
          \/ Fault /\ Exits(p)
    /\ UNCHANGED <<setup, cloudVars, now, starts, history>>

restore_details(p) ==
    /\ At(p, "details")
    /\ \/ NoFault /\ Goes(p, [proc[p] EXCEPT !.pc = "give", !.seen = sgs])
       \/ Fault /\ Exits(p)
    /\ UNCHANGED <<setup, cloudVars, now, starts, history>>

NextRestore(p, modified) ==
    IF Cur(p) < NNics THEN Goes(p, [proc[p] EXCEPT !.at = @ + 1, !.modified = modified])
    ELSE IF modified = {} THEN Exits(p)
    ELSE GoesTo(p, "delete")

\* One interface gets its groups back; when that is refused the next is tried.
restore_interface(p) ==
    /\ At(p, "give")
    /\ LET n == Cur(p)
           g == proc[p].bk[n]
           same == g = {} \/ g = proc[p].seen[n]
           done == [sgs EXCEPT ![n] = g]
           modified == proc[p].modified
       IN \/ same /\ NoFault /\ NextRestore(p, modified) /\ UNCHANGED <<sgs, refused>>
          \/ ~same /\ NoFault /\ sgs' = done /\ NextRestore(p, modified \cup {n}) /\ UNCHANGED refused
          \/ ~same /\ Fault /\ NextRestore(p, modified) /\ refused' = TRUE /\ UNCHANGED sgs
          \/ ~same /\ Fault /\ sgs' \in {sgs, done} /\ Exits(p) /\ UNCHANGED refused
    /\ UNCHANGED <<setup, backups, lastfence, vm, now, starts, overlaps, wrongOff, wrongOn>>

\* Mutant: all backup tags are deleted.
Kept_none(t) == {}

\* The tags that are left when those of time t go.
Kept(t) == {b \in backups : b.t # t}

\* delete_tags: lastfence, whatever it says by now, and the tags that were used.
restore_delete(p) ==
    /\ At(p, "delete")
    /\ LET deleted == backups' = Kept(proc[p].t) /\ lastfence' = 0
           same == UNCHANGED <<backups, lastfence>>
       IN \/ NoFault /\ deleted /\ Polls(p)
          \/ Fault /\ same /\ Polls(p)
          \/ Fault /\ (deleted \/ same) /\ Exits(p)
    /\ UNCHANGED <<setup, sgs, vm, now, starts, history>>

----------------------------------------------------------------------------
(* restore_security_groups_from_options.                                   *)

\* get_instance_details; an on needs an option for every interface.
options_details(p) ==
    /\ At(p, "options")
    /\ \/ /\ NoFault
          /\ IF Act(p) = "on" /\ \E n \in Nics : Desired("on", n) = {} THEN Exits(p)
             ELSE Goes(p, [proc[p] EXCEPT !.pc = "put", !.seen = sgs])
       \/ Fault /\ Exits(p)
    /\ UNCHANGED <<setup, cloudVars, now, starts, history>>

\* An on ignores what the function returns.
Returns(p, ok) == IF ok \/ Act(p) = "on" THEN Polls(p) ELSE Exits(p)

NextPut(p, modified) ==
    IF Cur(p) < NNics
    THEN Goes(p, [proc[p] EXCEPT !.pc = "put", !.at = @ + 1, !.tries = 0, !.modified = modified])
    ELSE IF modified = {} THEN Returns(p, FALSE)
    ELSE Goes(p, [proc[p] EXCEPT !.pc = "verify", !.modified = modified])

\* Another attempt, or the next interface.
Retry(p) ==
    IF proc[p].tries + 1 < max_retries
    THEN Goes(p, [proc[p] EXCEPT !.pc = "put", !.tries = @ + 1])
    ELSE NextPut(p, proc[p].modified)

\* The groups of one interface are set ...
options_put(p) ==
    /\ At(p, "put")
    /\ LET n == Cur(p)
           g == Desired(Act(p), n)
           same == g = {} \/ g = proc[p].seen[n]
           done == [sgs EXCEPT ![n] = g]
       IN \/ same /\ NoFault /\ UNCHANGED sgs /\ NextPut(p, proc[p].modified)
          \/ ~same /\ NoFault /\ sgs' = done /\ GoesTo(p, "check")
          \/ ~same /\ Fault /\ UNCHANGED sgs /\ Retry(p)
          \/ ~same /\ Fault /\ sgs' \in {sgs, done} /\ Exits(p)
    /\ UNCHANGED <<setup, backups, lastfence, vm, now, starts, history>>

\* ... and read again; the service may not show them yet.
options_check(p) ==
    /\ At(p, "check")
    /\ LET there == sgs[Cur(p)] = Desired(Act(p), Cur(p))
       IN \/ there /\ NoFault /\ NextPut(p, proc[p].modified \cup {Cur(p)})
          \/ ~there /\ NoFault /\ Retry(p)
          \/ Fault /\ (Retry(p) \/ Exits(p))
    /\ UNCHANGED <<setup, cloudVars, now, starts, history>>

\* The final verification of the interfaces that were modified.
options_verify(p) ==
    /\ At(p, "verify")
    /\ \/ NoFault /\ Returns(p, \A n \in proc[p].modified : sgs[n] = Desired(Act(p), n))
       \/ Fault /\ Exits(p)
    /\ UNCHANGED <<setup, cloudVars, now, starts, history>>

----------------------------------------------------------------------------

Set(p) ==
    \/ self_check(p) \/ set_power_status(p) \/ set_power_status_match(p)
    \/ modify_security_groups(p) \/ create_backup_tag(p) \/ set_lastfence_tag(p)
    \/ modify_interface(p) \/ shutdown_instance(p)
    \/ restore_lastfence(p) \/ restore_collect(p) \/ restore_details(p)
    \/ restore_interface(p) \/ restore_delete(p)
    \/ options_details(p) \/ options_put(p) \/ options_check(p) \/ options_verify(p)

\* main: the agent is started; a reboot is made an off.
Start(p, a) ==
    /\ At(p, "idle") /\ starts < MaxStarts
    /\ starts' = starts + 1
    /\ Goes(p, [Idle EXCEPT !.pc = "status", !.action = a])
    /\ overlaps' = overlaps \cup {{a, Act(q)} : q \in {r \in Procs : ~At(r, "idle")}}
    /\ UNCHANGED <<setup, cloudVars, now, faults, refused, wrongOff, wrongOn>>

\* The cluster kills an agent that takes too long.
Kill(p) ==
    /\ ~At(p, "idle") /\ Fault
    /\ Exits(p)
    /\ UNCHANGED <<setup, cloudVars, now, starts, history>>

Init ==
    /\ setup \in Setups
    /\ sgs = Home /\ backups = {} /\ lastfence = 0
    /\ vm \in {"running", "stopped"}
    /\ proc = [p \in Procs |-> Idle]
    /\ now = 0 /\ starts = 0 /\ faults = 0
    /\ overlaps = {} /\ refused = FALSE /\ wrongOff = FALSE /\ wrongOn = FALSE

Next == \E p \in Procs :
           \/ Status(p) \/ Set(p) \/ Kill(p)
           \/ \E a \in {"on", "off"} : Start(p, a)

Spec == Init /\ [][Next]_vars

----------------------------------------------------------------------------
(* Properties.                                                             *)

\* The values that the variables take.
TypeOK ==
    /\ setup \in Setups
    /\ \A n \in Nics : sgs[n] \subseteq Groups
    /\ \A b \in backups : b.t \in 1 .. now /\ b.nic \in Nics /\ b.i \in 0 .. b.total - 1
    /\ lastfence \in 0 .. now /\ vm \in {"running", "stopped"}
    /\ \A p \in Procs :
          /\ proc[p].action \in {"none", "on", "off"} /\ proc[p].t \in 0 .. now
          /\ proc[p].at \in Nics /\ proc[p].modified \subseteq Nics
          /\ proc[p].tries \in 0 .. max_retries - 1 /\ proc[p].polls \in 0 .. MaxPolls
    /\ now \in Nat /\ starts \in 0 .. MaxStarts /\ faults \in 0 .. MaxFaults

\* An interface that has no groups but those to be removed is left alone.
LeavesOne == ~setup.keep /\ \E n \in Nics : Home[n] \subseteq setup.secg

\* An on by the options of the interfaces leaves the tags of an off behind.
LeavesTags == UsesTags /\ interface_sg_present("on")

\* Code 0 for an off is given when every interface is separated.  Where tags
\* are used it takes agents that run one after the other, none of them killed,
\* calls that do not fail, interfaces of which none has to be left alone, and
\* an on that deletes the tags: is_instance_fenced believes the tags, which are
\* written before the groups are changed and deleted after they are restored.
\* Where the options name the groups it holds whatever fails and however agents
\* overlap.
OffIsSeparated ==
    wrongOff => UsesTags /\ (faults > 0 \/ overlaps # {} \/ LeavesOne \/ LeavesTags)

\* The status cannot tell that interfaces are set for an off.
Unseen == setup.secg = {} /\ ~setup.ignoreState

\* Code 0 for an on is given when every interface has all its groups again,
\* through the chunks of the tags or by the options, as long as no call fails,
\* no agent is killed and no other agent runs meanwhile.
OnIsHome ==
    wrongOn => faults > 0 \/ overlaps # {} \/ LeavesOne \/ Unseen

\* However agents overlap, fail or are killed, no interface is left without a
\* group, and none gets groups that are neither those of its service or of its
\* options nor what fencing makes of them: a backup that is incomplete, or mixed
\* from two runs, is not restored.
GroupsWhole ==
    \A n \in Nics :
        /\ sgs[n] # {}
        /\ \E g \in {Home[n], Desired("on", n), Desired("off", n)} :
              sgs[n] \in {g, updated_sgs(g)}

\* No interface loses its groups without a complete backup of them among the
\* tags, if agents are killed and offs overlap as well; but an on deletes the
\* tags also after it was refused to restore an interface, and beside an off
\* that is still at work.
HomeKept ==
    UsesTags /\ ~setup.ignoreTags /\ ~refused /\ {"on", "off"} \notin overlaps =>
        \A n \in Nics : sgs[n] # Home[n] =>
            \E t \in 1 .. now : Home[n] = {b.s : b \in {x \in backups : x.t = t /\ x.nic = n}}
=============================================================================
