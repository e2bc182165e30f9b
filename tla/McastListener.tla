--------------------------- MODULE McastListener ---------------------------
(***************************************************************************)
(* fence_xvm and the multicast listener of fence_virtd (agents/virt:       *)
(* client/mcast.c, server/mcast.c, server/history.c).  A client multicasts *)
(* its request again and again until a daemon connects to its TCP port; it *)
(* accepts one connection, stops to listen and takes the answer from it. A *)
(* daemon reads the copies in the order of their arrival, one at a time,   *)
(* and drops those that are in its history of recent requests.             *)
(*                                                                         *)
(* With authentication a daemon goes on once the client has accepted its   *)
(* connection and both challenges are met; without, connect_tcp returns as *)
(* soon as the connection waits to be accepted.                            *)
(*                                                                         *)
(* The answer does not name the request that it is for, and all clients of *)
(* a host listen on the same port.                                         *)
(***************************************************************************)
EXTENDS Integers, Sequences, FiniteSets

CONSTANTS Hosts,      \* hosts with clients, one client at a time
          Daemons,    \* fence_virtd processes
          Ops,        \* requests: "on", "off" and others, for one domain
          Seqnos,     \* values of the microseconds of the clock
          Attempts,   \* timeout * 10 / retr_time of a client, 15 by default;
                      \* 0, as with -t 1 alone, makes the loop endless
          Copies,     \* bound: packets of one attempt that reach a daemon
          Calls       \* bound: calls of clients, together

ASSUME McastAssumption ==
    /\ Attempts \in Nat /\ Copies \in Nat \ {0} /\ Calls \in Nat

VARIABLES
    inbox,     \* inbox[s]: the packets in the socket of daemon s
    hist,      \* hist[s]: its history
    job,       \* job[s]: the request at work, or <<>>
    phase,     \* phase[s]: "read", "handshake", "fence" or "respond"
    response,  \* response[s]: what the backend returned
    pc,        \* pc[c]: "idle", "listen", "send", "wait" or "exchange"
    req,       \* req[c]: the request of the client of host c
    attempts,  \* attempts[c]
    backlog,   \* backlog[c]: connections to the client's socket, not accepted
    peer,      \* peer[c]: the connection that was accepted, or {}
    auth,      \* whether client and daemons use AUTH_SHA1 or the like, or
               \* AUTH_NONE: an option, or for want of a key file
    calls,     \* calls made so far
    ended,     \* history: the calls that ended with code 0, [host, id, of], where
               \* of is the call that the answer was for
    acted,     \* history: acted[s][i], how often s has carried out call i
    stray      \* history: hosts with copies of a call that no history keeps out
               \* any more

daemonVars == <<inbox, hist, job, phase, response>>
socketVars == <<backlog, peer>>
clientVars == <<pc, req, attempts, socketVars, auth, calls>>
vars       == <<daemonVars, clientVars, ended, acted, stray>>

\* A packet; id tells the calls apart and is not in the packet.
Packet == [host : Hosts, op : Ops, seqno : Seqnos, id : 1 .. Calls]

\* A connection of daemon "from" for a packet of call "of": whether the daemon has
\* it open, and what it has written to it.
Connection == [from : Daemons, of : 1 .. Calls, open : BOOLEAN, answer : SUBSET {0, 1}]

\* check_history: neither the sender nor the time counts.
Entry(r) == [op |-> r.op, seqno |-> r.seqno]

\* There are copies of a call of host c other than call i that no history will
\* keep out.
Strays(c, i) ==
    \E s \in Daemons :
        \E k \in 1 .. Len(inbox[s]) :
            /\ inbox[s][k].host = c /\ inbox[s][k].id # i
            /\ Entry(inbox[s][k]) \notin hist[s]
            /\ phase[s] \in {"fence", "respond"} => Entry(inbox[s][k]) # Entry(job[s])

----------------------------------------------------------------------------
(* The client.                                                             *)

\* mcast_fence_virt is called.
mcast_fence_virt(c) ==
    /\ pc[c] = "idle" /\ calls < Calls
    /\ calls' = calls + 1
    /\ \E op \in Ops, n \in Seqnos :
          req' = [req EXCEPT ![c] = [host |-> c, op |-> op, seqno |-> n, id |-> calls + 1]]
    /\ attempts' = [attempts EXCEPT ![c] = Attempts]
    /\ pc' = [pc EXCEPT ![c] = "listen"]
    /\ UNCHANGED <<daemonVars, socketVars, auth, ended, acted, stray>>

\* Mutant: the connection is not closed.
Return_open(c, code, of) ==
    /\ pc' = [pc EXCEPT ![c] = "idle"]
    /\ backlog' = [backlog EXCEPT ![c] = {}]
    /\ ended' = ended \cup (IF code = 0 THEN {[host |-> c, id |-> req[c].id, of |-> of]} ELSE {})
    /\ req' = [req EXCEPT ![c] = <<>>] /\ attempts' = [attempts EXCEPT ![c] = 0]
    /\ UNCHANGED <<calls, peer, auth>>

\* The call returns code, with its sockets closed; the answer was for the
\* request of.
Return(c, code, of) ==
    /\ pc' = [pc EXCEPT ![c] = "idle"]
    /\ backlog' = [backlog EXCEPT ![c] = {}] /\ peer' = [peer EXCEPT ![c] = {}]
    /\ ended' = ended \cup (IF code = 0 THEN {[host |-> c, id |-> req[c].id, of |-> of]} ELSE {})
    /\ req' = [req EXCEPT ![c] = <<>>] /\ attempts' = [attempts EXCEPT ![c] = 0]
    /\ UNCHANGED <<calls, auth>>

\* The client goes on with its call at p.
Goes(c, p) ==
    /\ pc' = [pc EXCEPT ![c] = p]
    /\ UNCHANGED <<req, calls, socketVars, auth, ended>>

\* One attempt less is left.
Spent(c) == attempts[c] - 1

\* The client goes on at p with one attempt less.
GoesOn(c, p) == Goes(c, p) /\ attempts' = [attempts EXCEPT ![c] = Spent(c)]

\* ipv4_listen succeeds, or fails and is tried again.
listen_loop(c) ==
    /\ pc[c] = "listen"
    /\ \/ Goes(c, "send") /\ UNCHANGED attempts
       \/ IF Spent(c) > 0 THEN GoesOn(c, "listen") ELSE Return(c, 1, 0)
    /\ stray' = IF Strays(c, req[c].id) THEN stray \cup {c} ELSE stray
    /\ UNCHANGED <<daemonVars, acted>>

\* The sequence s with n more elements e.
AppendCopies(s, e, n) == s \o [k \in 1 .. n |-> e]

\* One packet per interface; some reach a daemon, or none.
send_multicast_packets(c) ==
    /\ pc[c] = "send"
    /\ \E n \in [Daemons -> 0 .. Copies] :
          inbox' = [s \in Daemons |-> AppendCopies(inbox[s], req[c], n[s])]
    /\ Goes(c, "wait")
    /\ UNCHANGED <<hist, job, phase, response, attempts, acted, stray>>

\* tcp_wait_connect fails: the next attempt after a timeout, until the counter
\* is 0; the end after any other error.
tcp_wait_connect_fails(c) ==
    /\ pc[c] = "wait"
    /\ \/ /\ backlog[c] = {}
          /\ IF Spent(c) # 0 THEN GoesOn(c, "send") ELSE Return(c, 1, 0)
       \/ Return(c, 1, 0)
    /\ UNCHANGED <<daemonVars, acted, stray>>

\* tcp_wait_connect accepts a connection; the listening socket is closed, and
\* the other connections with it.
tcp_wait_connect(c) ==
    /\ pc[c] = "wait"
    /\ \E k \in backlog[c] : peer' = [peer EXCEPT ![c] = {k}]
    /\ backlog' = [backlog EXCEPT ![c] = {}]
    /\ pc' = [pc EXCEPT ![c] = "exchange"]
    /\ UNCHANGED <<daemonVars, req, attempts, auth, calls, ended, acted, stray>>

\* tcp_exchange reads the answer.
tcp_exchange(c) ==
    /\ pc[c] = "exchange"
    /\ \E k \in peer[c] : \E code \in k.answer : Return(c, code, k.of)
    /\ UNCHANGED <<daemonVars, acted, stray>>

\* tcp_exchange fails: the challenge is not met, or no answer comes in time.
tcp_exchange_fails(c) ==
    /\ pc[c] = "exchange"
    /\ Return(c, 1, 0)
    /\ UNCHANGED <<daemonVars, acted, stray>>

----------------------------------------------------------------------------
(* The daemon.                                                             *)

\* mcast_dispatch: a packet of a recent request is dropped.
mcast_dispatch_drop(s) ==
    /\ phase[s] = "read" /\ inbox[s] # <<>>
    /\ Entry(Head(inbox[s])) \in hist[s]
    /\ inbox' = [inbox EXCEPT ![s] = Tail(@)]
    /\ UNCHANGED <<hist, job, phase, response, clientVars, ended, acted, stray>>

\* ipv4_connect in connect_tcp fails: nobody listens, or the host is not reached.
\* The packet is gone, and is not recorded.
connect_tcp_refused(s) ==
    /\ phase[s] = "read" /\ inbox[s] # <<>>
    /\ Entry(Head(inbox[s])) \notin hist[s]
    /\ inbox' = [inbox EXCEPT ![s] = Tail(@)]
    /\ UNCHANGED <<hist, job, phase, response, clientVars, ended, acted, stray>>

\* Mutant: the challenges are left out whatever the option says.
NextPhase_open == "fence"

\* sock_response and sock_challenge do nothing without authentication.
NextPhase == IF auth THEN "handshake" ELSE "fence"

\* connect_tcp: a client listens on the host of the packet, and the connection
\* waits to be accepted.
connect_tcp(s) ==
    /\ phase[s] = "read" /\ inbox[s] # <<>>
    /\ LET r == Head(inbox[s])
       IN /\ Entry(r) \notin hist[s]
          /\ pc[r.host] \in {"send", "wait"}
          /\ job' = [job EXCEPT ![s] = r]
          /\ backlog' = [backlog EXCEPT ![r.host] = @ \cup
                {[from |-> s, of |-> r.id, open |-> TRUE, answer |-> {}]}]
    /\ inbox' = [inbox EXCEPT ![s] = Tail(@)]
    /\ phase' = [phase EXCEPT ![s] = NextPhase]
    /\ UNCHANGED <<hist, response, pc, req, attempts, peer, auth, calls, ended, acted, stray>>

\* The client has accepted the connection, and both sides meet the challenge.
sock_response(s) ==
    /\ phase[s] = "handshake"
    /\ \E k \in peer[job[s].host] : k.from = s /\ k.open
    /\ phase' = [phase EXCEPT ![s] = "fence"]
    /\ UNCHANGED <<inbox, hist, job, response, clientVars, ended, acted, stray>>

\* The connections of daemon s among C once it has written the answer and closed.
Closed(C, s, answer) ==
    {k \in C : ~(k.from = s /\ k.open)} \cup
    {[k EXCEPT !.open = FALSE, !.answer = answer] : k \in {h \in C : h.from = s /\ h.open}}

\* Daemon s writes the answer, closes its connection and reads on.
Close(s, answer) ==
    /\ backlog' = [c \in Hosts |-> Closed(backlog[c], s, answer)]
    /\ peer' = [c \in Hosts |-> Closed(peer[c], s, answer)]
    /\ phase' = [phase EXCEPT ![s] = "read"]
    /\ job' = [job EXCEPT ![s] = <<>>]
    /\ UNCHANGED <<inbox, pc, req, attempts, auth, calls, ended, acted, stray>>

\* A challenge is not met or not answered in time: the request is not recorded.
connect_tcp_fails(s) ==
    /\ phase[s] = "handshake"
    /\ Close(s, {})
    /\ UNCHANGED <<hist, response>>

\* The callback of the backend: it carries the request out, or fails.
do_fence_request_tcp(s) ==
    /\ phase[s] = "fence"
    /\ \E ok \in BOOLEAN :
          /\ response' = [response EXCEPT ![s] = IF ok THEN 0 ELSE 1]
          /\ acted' = IF ok THEN [acted EXCEPT ![s][job[s].id] = @ + 1] ELSE acted
    /\ phase' = [phase EXCEPT ![s] = "respond"]
    /\ UNCHANGED <<inbox, hist, job, clientVars, ended, stray>>

\* Mutant: only a success is recorded, as its comment says.
history_record_success(s) ==
    hist' = [hist EXCEPT ![s] = IF response[s] = 0 THEN @ \cup {Entry(job[s])} ELSE @]

\* A second record of an entry fails and changes nothing.
history_record(s) == hist' = [hist EXCEPT ![s] = @ \cup {Entry(job[s])}]

\* The answer is written to the connection, whether the client is still there or
\* not, and the request is recorded.
respond(s) ==
    /\ phase[s] = "respond"
    /\ Close(s, {response[s]})
    /\ history_record(s)
    /\ response' = [response EXCEPT ![s] = 1]

\* history_check: an entry is ten seconds old and is purged.  A copy of the
\* request may still wait in the socket while the daemon was busy, or a client
\* that has not looked at the daemon's connection yet may send one more.
history_check(s) ==
    \E e \in hist[s] :
        /\ hist' = [hist EXCEPT ![s] = @ \ {e}]
        /\ stray' = stray \cup {c \in Hosts :
                        \/ \E k \in 1 .. Len(inbox[s]) :
                              inbox[s][k].host = c /\ Entry(inbox[s][k]) = e
                        \/ /\ ~auth /\ pc[c] \in {"listen", "send", "wait"}
                           /\ Entry(req[c]) = e}
        /\ UNCHANGED <<inbox, job, phase, response, clientVars, ended, acted>>

----------------------------------------------------------------------------

Init ==
    /\ inbox = [s \in Daemons |-> <<>>] /\ hist = [s \in Daemons |-> {}]
    /\ job = [s \in Daemons |-> <<>>] /\ phase = [s \in Daemons |-> "read"]
    /\ response = [s \in Daemons |-> 1]
    /\ pc = [c \in Hosts |-> "idle"] /\ req = [c \in Hosts |-> <<>>]
    /\ attempts = [c \in Hosts |-> 0] /\ auth \in BOOLEAN
    /\ backlog = [c \in Hosts |-> {}] /\ peer = [c \in Hosts |-> {}]
    /\ calls = 0 /\ ended = {} /\ stray = {}
    /\ acted = [s \in Daemons |-> [i \in 1 .. Calls |-> 0]]

Client(c) == \/ listen_loop(c) \/ send_multicast_packets(c)
             \/ tcp_wait_connect(c) \/ tcp_wait_connect_fails(c)
             \/ tcp_exchange(c) \/ tcp_exchange_fails(c)

Daemon(s) == \/ mcast_dispatch_drop(s) \/ connect_tcp_refused(s) \/ connect_tcp(s)
             \/ sock_response(s) \/ connect_tcp_fails(s)
             \/ do_fence_request_tcp(s) \/ respond(s)

Next == \/ \E c \in Hosts : mcast_fence_virt(c) \/ Client(c)
        \/ \E s \in Daemons : Daemon(s) \/ history_check(s)

\* A client that has started goes on: all that it waits for has a timeout.
Spec == Init /\ [][Next]_vars /\ \A c \in Hosts : WF_vars(Client(c))

----------------------------------------------------------------------------
(* Properties.                                                             *)

\* The values that the variables take.
TypeOK ==
    /\ inbox \in [Daemons -> Seq(Packet)]
    /\ \A s \in Daemons :
          /\ hist[s] \subseteq [op : Ops, seqno : Seqnos]
          /\ phase[s] = "read" <=> job[s] = <<>>
    /\ pc \in [Hosts -> {"idle", "listen", "send", "wait", "exchange"}]
    /\ attempts \in [Hosts -> 0 .. Attempts]
    /\ \A c \in Hosts :
          /\ backlog[c] \subseteq Connection /\ peer[c] \subseteq Connection
          /\ backlog[c] # {} => pc[c] \in {"send", "wait"}
          /\ pc[c] = "exchange" <=> peer[c] # {}

\* A client takes no answer to another call for the answer to its own, unless
\* copies of an earlier call of its host are still around that the history
\* does not keep out: the history is what makes the answers right.
OwnAnswer ==
    \A e \in ended : e.of = e.id \/ e.host \in stray

\* Copies on several interfaces, retransmissions, clients that give up and
\* equal sequence numbers notwithstanding, no daemon carries out a call a second
\* time while its history holds; and with authentication, which a daemon passes
\* only on the connection that the client has accepted, no two daemons carry out
\* the same call.  Without, each of them may: see OneDaemonActs.
ActsOnce ==
    stray = {} => \A s \in Daemons, i \in 1 .. Calls :
        /\ acted[s][i] <= 1
        /\ auth /\ acted[s][i] # 0 => \A t \in Daemons \ {s} : acted[t][i] = 0

\* Every call comes to an end.
CallEnds == \A c \in Hosts : pc[c] # "idle" ~> pc[c] = "idle"

----------------------------------------------------------------------------
(* What documents say, and the code does not do.                           *)

\* doc/FenceAgentAPI.md on off: 0 "if the operation was successful".  Copies
\* of a call that timed out while the daemon was busy are acted on when the
\* next call of the host listens, which takes the answer for its own.
ZeroMeansDone == \A e \in ended : e.of = e.id

\* The comment in do_fence_request_tcp: "we want to avoid acting on the same
\* request multiple times".  Without authentication all daemons whose connections
\* fit in the backlog act, and the client sees the answer of one.
OneDaemonActs ==
    stray = {} => \A i \in 1 .. Calls : \A s, t \in Daemons :
        acted[s][i] # 0 /\ acted[t][i] # 0 => s = t
=============================================================================
