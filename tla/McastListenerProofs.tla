------------------------ MODULE McastListenerProofs ------------------------
(***************************************************************************)
(* Proofs about McastListener for any number of hosts, daemons, attempts,  *)
(* copies and calls.                                                       *)
(***************************************************************************)
EXTENDS McastListener, SequenceTheorems, TLAPS

\* The packets in the socket of daemon s.
Waiting(s) == {inbox[s][k] : k \in 1 .. Len(inbox[s])}

\* The connections to the client of host c.
Conns(c) == backlog[c] \cup peer[c]

\* The program points of a client that has accepted no connection yet, and those
\* of a daemon that will record its request.
Trying == {"listen", "send", "wait"}
Working == {"fence", "respond"}

\* The types of the variables, with any number of attempts left: with 0 of them
\* the counter of tcp_wait_connect goes below 0.
Types ==
    /\ inbox \in [Daemons -> Seq(Packet)]
    /\ hist \in [Daemons -> SUBSET [op : Ops, seqno : Seqnos]]
    /\ job \in [Daemons -> Packet \cup {<<>>}]
    /\ phase \in [Daemons -> {"read", "handshake", "fence", "respond"}]
    /\ response \in [Daemons -> {0, 1}]
    /\ pc \in [Hosts -> {"idle", "listen", "send", "wait", "exchange"}]
    /\ req \in [Hosts -> Packet \cup {<<>>}]
    /\ attempts \in [Hosts -> Int]
    /\ backlog \in [Hosts -> SUBSET Connection]
    /\ peer \in [Hosts -> SUBSET Connection]
    /\ auth \in BOOLEAN
    /\ calls \in 0 .. Calls
    /\ acted \in [Daemons -> [1 .. Calls -> Nat]]
    /\ stray \subseteq Hosts

\* A daemon meets a challenge only with authentication.
Asked == ~auth => \A s \in Daemons : phase[s] # "handshake"

\* A daemon at work has a request, and so has a client; the sockets of a client
\* go with its program point.
Control ==
    /\ \A s \in Daemons : phase[s] # "read" => job[s] \in Packet
    /\ Asked
    /\ \A c \in Hosts :
          /\ pc[c] # "idle" => req[c] \in Packet /\ req[c].host = c
          /\ pc[c] # "exchange" => peer[c] = {}
          /\ pc[c] = "exchange" => \E k \in Connection : peer[c] = {k}
          /\ pc[c] \notin {"send", "wait"} => backlog[c] = {}

\* An open connection belongs to the request that its daemon works on.
Linked ==
    \A c \in Hosts : \A k \in Conns(c) : k.open =>
        phase[k.from] # "read" /\ job[k.from].host = c /\ job[k.from].id = k.of

\* The packets that exist: those of the clients under way, those that wait and
\* those at work.
Known(r) ==
    \/ \E c \in Hosts : pc[c] # "idle" /\ r = req[c]
    \/ \E s \in Daemons : r \in Waiting(s)
    \/ \E s \in Daemons : phase[s] # "read" /\ r = job[s]

\* Ids are given out once.
Ids ==
    /\ \A r \in Packet : Known(r) => r.id <= calls
    /\ \A r1, r2 \in Packet : Known(r1) /\ Known(r2) /\ r1.id = r2.id => r1 = r2
    /\ \A s \in Daemons, i \in 1 .. Calls : acted[s][i] # 0 => i <= calls

\* The history of daemon s keeps packet r out, now or when its job is done.
KeptOut(s, r) ==
    \/ Entry(r) \in hist[s]
    \/ phase[s] \in Working /\ Entry(r) = Entry(job[s])

\* While a client sends and waits, copies of earlier calls of its host are kept
\* out; so the daemons that connect work on its own call.
Own ==
    \A c \in Hosts : c \notin stray =>
        /\ pc[c] \in {"send", "wait", "exchange"} =>
              \A s \in Daemons : \A r \in Waiting(s) :
                  r.host = c => r.id = req[c].id \/ KeptOut(s, r)
        /\ \A k \in Conns(c) : k.of = req[c].id

\* The history of a daemon keeps out what it has carried out itself.
Each == stray = {} => \A s \in Daemons :
    /\ \A i \in 1 .. Calls : acted[s][i] <= 1
    /\ phase[s] = "fence" => acted[s][job[s].id] = 0
    /\ \A r \in Waiting(s) : acted[s][r.id] # 0 => KeptOut(s, r)
    /\ \A c \in Hosts : pc[c] \in Trying /\ acted[s][req[c].id] # 0 => KeptOut(s, req[c])

\* No daemon has carried out call i or is about to.
Untouched(i) ==
    \A s \in Daemons : acted[s][i] = 0 /\ (phase[s] = "fence" => job[s].id # i)

\* With authentication a call is not carried out before its client has accepted a
\* connection, and then by the daemon of that connection alone.
Single == stray = {} /\ auth =>
    /\ \A c \in Hosts : pc[c] \in Trying => Untouched(req[c].id)
    /\ \A c \in Hosts : \A k \in peer[c] :
          k.open /\ phase[k.from] = "handshake" => Untouched(k.of)
    /\ \A s \in Daemons : phase[s] = "fence" => \A t \in Daemons :
          /\ acted[t][job[s].id] = 0
          /\ phase[t] = "fence" /\ t # s => job[t].id # job[s].id
    /\ \A s, t \in Daemons, i \in 1 .. Calls : acted[s][i] # 0 /\ acted[t][i] # 0 => s = t

IInv == Types /\ Control /\ Linked /\ Ids /\ Own /\ Each /\ Single /\ OwnAnswer

\* With at least one attempt, a client that goes on has one left; a daemon that
\* reads has no job.
Counted ==
    /\ \A s \in Daemons : phase[s] = "read" => job[s] = <<>>
    /\ \A c \in Hosts : attempts[c] \in 0 .. Attempts
    /\ \A c \in Hosts : pc[c] \in Trying => attempts[c] > 0

----------------------------------------------------------------------------
(* Packets and the sockets of the daemons.                                 *)

LEMMA PacketFields ==
    ASSUME NEW r \in Packet
    PROVE  /\ r.host \in Hosts /\ r.id \in 1 .. Calls /\ r.id \in Nat
           /\ Entry(r) \in [op : Ops, seqno : Seqnos]
BY McastAssumption DEF Packet, Entry

\* A record is not the empty tuple.
LEMMA PacketNotEmpty == <<>> \notin Packet
<1> SUFFICES ASSUME <<>> \in Packet PROVE FALSE
    OBVIOUS
<1>1. DOMAIN <<>> = {"host", "op", "seqno", "id"}
    BY DEF Packet
<1>2. DOMAIN <<>> = {}
    OBVIOUS
<1> QED BY <1>1, <1>2

LEMMA WaitingPackets ==
    ASSUME Types, NEW s \in Daemons
    PROVE  Waiting(s) \subseteq Packet
BY ElementOfSeq DEF Types, Waiting

\* A daemon takes the packet at the head of its socket.
LEMMA Taken ==
    ASSUME Types, NEW s \in Daemons, inbox[s] # <<>>,
           inbox' = [inbox EXCEPT ![s] = Tail(@)]
    PROVE  /\ Head(inbox[s]) \in Packet /\ Head(inbox[s]) \in Waiting(s)
           /\ inbox' \in [Daemons -> Seq(Packet)]
           /\ \A t \in Daemons : Waiting(t)' \subseteq Waiting(t)
<1> DEFINE q == inbox[s]
<1>1. q \in Seq(Packet) /\ q # <<>>
    BY DEF Types
<1>2. /\ Head(q) \in Packet /\ Tail(q) \in Seq(Packet) /\ Len(Tail(q)) = Len(q) - 1
      /\ \A i \in 1 .. Len(Tail(q)) : Tail(q)[i] = q[i + 1]
    BY <1>1, HeadTailProperties
<1>3. Len(q) \in Nat \ {0} /\ Head(q) = q[1]
    BY <1>1, EmptySeq, LenProperties
<1>4. inbox' \in [Daemons -> Seq(Packet)]
    BY <1>2 DEF Types
<1>5. Head(q) \in Waiting(s)
    BY <1>3 DEF Waiting
<1>6. Waiting(s)' \subseteq Waiting(s)
  <2>1. inbox'[s] = Tail(q)
      BY DEF Types
  <2>2. \A k \in 1 .. Len(Tail(q)) : k + 1 \in 1 .. Len(q) /\ Tail(q)[k] = q[k + 1]
      BY <1>2, <1>3
  <2> QED BY <2>1, <2>2 DEF Waiting
<1>7. \A t \in Daemons \ {s} : Waiting(t)' = Waiting(t)
    BY DEF Types, Waiting
<1> QED BY <1>2, <1>4, <1>5, <1>6, <1>7

\* The elements of a sequence with copies of e appended.
LEMMA CopiesAppended ==
    ASSUME NEW S, NEW q \in Seq(S), NEW e \in S, NEW n \in Nat
    PROVE  /\ AppendCopies(q, e, n) \in Seq(S)
           /\ \A k \in 1 .. Len(AppendCopies(q, e, n)) :
                 \/ AppendCopies(q, e, n)[k] = e
                 \/ \E j \in 1 .. Len(q) : AppendCopies(q, e, n)[k] = q[j]
<1> DEFINE w == [k \in 1 .. n |-> e]
<1>1. w \in Seq(S) /\ Len(w) = n
    BY IsASeq, LenProperties
<1>2. /\ q \o w \in Seq(S) /\ Len(q \o w) = Len(q) + Len(w)
      /\ \A i \in 1 .. Len(q) + Len(w) : (q \o w)[i] =
                     IF i <= Len(q) THEN q[i] ELSE w[i - Len(q)]
    BY <1>1, ConcatProperties
<1>3. Len(q) \in Nat
    BY LenProperties
<1>4. \A i \in 1 .. Len(q) + n : i <= Len(q) \/ i - Len(q) \in 1 .. n
    BY <1>3
<1>5. \A i \in 1 .. n : w[i] = e
    OBVIOUS
<1> HIDE DEF w
<1>6. AppendCopies(q, e, n) = q \o w
    BY DEF AppendCopies, w
<1> QED BY <1>1, <1>2, <1>3, <1>4, <1>5, <1>6

\* A client's packets join those in the sockets.
LEMMA Sent ==
    ASSUME Types, NEW c \in Hosts, req[c] \in Packet, NEW n \in [Daemons -> 0 .. Copies],
           inbox' = [s \in Daemons |-> AppendCopies(inbox[s], req[c], n[s])]
    PROVE  /\ inbox' \in [Daemons -> Seq(Packet)]
           /\ \A s \in Daemons : \A r \in Waiting(s)' : r \in Waiting(s) \/ r = req[c]
<1>1. ASSUME NEW s \in Daemons
      PROVE  /\ inbox'[s] \in Seq(Packet)
             /\ \A r \in Waiting(s)' : r \in Waiting(s) \/ r = req[c]
  <2>1. n[s] \in Nat /\ inbox[s] \in Seq(Packet)
      BY McastAssumption DEF Types
  <2>2. inbox'[s] = AppendCopies(inbox[s], req[c], n[s])
      OBVIOUS
  <2>3. /\ inbox'[s] \in Seq(Packet)
        /\ \A k \in 1 .. Len(inbox'[s]) :
              \/ inbox'[s][k] = req[c]
              \/ \E j \in 1 .. Len(inbox[s]) : inbox'[s][k] = inbox[s][j]
      BY <2>1, <2>2, CopiesAppended
  <2> QED BY <2>3 DEF Waiting
<1> QED BY <1>1

\* Strays is about the packets that wait.
LEMMA NoStrays ==
    ASSUME NEW c, NEW i, ~Strays(c, i), NEW s \in Daemons, NEW r \in Waiting(s), r.host = c
    PROVE  r.id = i \/ KeptOut(s, r)
BY DEF Strays, Waiting, KeptOut, Working

LEMMA ConnectionFields ==
    ASSUME NEW k \in Connection
    PROVE  /\ k.from \in Daemons /\ k.of \in 1 .. Calls /\ k.of \in Nat
           /\ k.open \in BOOLEAN /\ k.answer \in SUBSET {0, 1}
BY McastAssumption DEF Connection

----------------------------------------------------------------------------
(* Each step keeps the invariant.                                          *)

\* Without a new call the packets are those of before.
LEMMA IdsKept ==
    ASSUME Types, Ids, calls' = calls, \A r \in Packet : Known(r)' => Known(r),
           \A s \in Daemons, i \in 1 .. Calls : acted'[s][i] # 0 => acted[s][i] # 0 \/ i <= calls
    PROVE  Ids'
BY DEF Ids

\* mcast_fence_virt: the new call has an id of its own.
LEMMA CallKeeps ==
    ASSUME IInv, NEW c \in Hosts, mcast_fence_virt(c)
    PROVE  IInv'
<1>0. /\ Types /\ Control /\ Linked /\ Ids /\ Own /\ Each /\ Single /\ OwnAnswer
      /\ Calls \in Nat /\ Attempts \in Nat
    BY McastAssumption DEF IInv
<1>1. PICK op \in Ops, n \in Seqnos :
         req' = [req EXCEPT ![c] = [host |-> c, op |-> op, seqno |-> n, id |-> calls + 1]]
    BY DEF mcast_fence_virt
<1> DEFINE q == [host |-> c, op |-> op, seqno |-> n, id |-> calls + 1]
<1>2. /\ pc[c] = "idle" /\ calls < Calls /\ calls' = calls + 1
      /\ attempts' = [attempts EXCEPT ![c] = Attempts]
      /\ pc' = [pc EXCEPT ![c] = "listen"]
      /\ UNCHANGED <<inbox, hist, job, phase, response, backlog, peer, auth, ended, acted, stray>>
    BY DEF mcast_fence_virt, daemonVars, socketVars
<1>3. q \in Packet /\ q.host = c /\ q.id = calls + 1
    BY <1>0, <1>2 DEF Packet, Types
<1> HIDE DEF q
<1>4. /\ pc'[c] = "listen" /\ req'[c] = q
      /\ \A d \in Hosts \ {c} : pc'[d] = pc[d] /\ req'[d] = req[d]
    BY <1>0, <1>1, <1>2 DEF Types, q
<1>5. Types'
    BY <1>0, <1>1, <1>2, <1>3 DEF Types, q
<1>6. Control' /\ Linked'
  <2>1. Asked'
      BY <1>0, <1>2 DEF Control, Asked
  <2> QED BY <1>0, <1>2, <1>3, <1>4, <2>1 DEF Control, Linked, Conns
<1>7. \A r \in Packet : Known(r)' => Known(r) \/ r = q
    BY <1>2, <1>4 DEF Known, Waiting
<1>8. Ids'
  <2>1. \A r \in Packet : Known(r)' => r.id <= calls' /\ (r.id = calls + 1 => r = q)
    <3>1. calls \in Nat /\ \A r \in Packet : r.id \in Nat
        BY <1>0, PacketFields DEF Types
    <3> QED BY <1>0, <1>2, <1>3, <1>7, <3>1 DEF Ids
  <2>2. \A r1, r2 \in Packet : Known(r1)' /\ Known(r2)' /\ r1.id = r2.id => r1 = r2
      BY <1>0, <1>3, <1>7, <2>1 DEF Ids
  <2>3. \A s \in Daemons, i \in 1 .. Calls : acted'[s][i] # 0 => i <= calls'
      BY <1>0, <1>2 DEF Ids, Types
  <2> QED BY <2>1, <2>2, <2>3 DEF Ids
<1>u. Untouched(calls + 1)
  <2>0. calls + 1 \in 1 .. Calls /\ ~(calls + 1 <= calls)
      BY <1>0, <1>2 DEF Types
  <2>1. \A s \in Daemons : acted[s][calls + 1] = 0
      BY <1>0, <2>0 DEF Ids
  <2>2. ASSUME NEW s \in Daemons, phase[s] = "fence" PROVE job[s].id # calls + 1
    <3>1. job[s] \in Packet /\ Known(job[s])
        BY <1>0, <2>2 DEF Control, Known
    <3>2. job[s].id <= calls /\ job[s].id \in Nat /\ calls \in Nat
        BY <1>0, <3>1, PacketFields DEF Ids, Types
    <3> QED BY <3>2
  <2> QED BY <2>1, <2>2 DEF Untouched
<1>9. Own'
  <2> SUFFICES ASSUME NEW d \in Hosts, d \notin stray
               PROVE  /\ pc'[d] \in {"send", "wait", "exchange"} =>
                            \A s \in Daemons : \A r \in Waiting(s)' :
                               r.host = d => r.id = req'[d].id \/ KeptOut(s, r)'
                      /\ \A k \in Conns(d)' : k.of = req'[d].id
      BY <1>2 DEF Own
  <2>1. CASE d = c
      BY <1>0, <1>2, <1>4, <2>1 DEF Control, Conns
  <2>2. CASE d # c
      BY <1>0, <1>2, <1>4, <2>2 DEF Own, KeptOut, Waiting, Conns
  <2> QED BY <2>1, <2>2
<1>10. Each'
  <2> SUFFICES ASSUME stray = {}, NEW s \in Daemons, NEW d \in Hosts, pc'[d] \in Trying,
                      acted[s][req'[d].id] # 0
               PROVE  KeptOut(s, req'[d])
      BY <1>0, <1>2 DEF Each, KeptOut, Waiting
  <2>1. d # c
      BY <1>3, <1>4, <1>u DEF Untouched
  <2> QED BY <1>0, <1>4, <2>1 DEF Each
<1>11. Single'
  <2> SUFFICES ASSUME stray = {}, auth, NEW d \in Hosts, pc'[d] \in Trying
               PROVE  Untouched(req'[d].id)
      BY <1>0, <1>2 DEF Single, Untouched
  <2> QED BY <1>0, <1>3, <1>4, <1>u DEF Single
<1>12. OwnAnswer'
    BY <1>0, <1>2 DEF OwnAnswer
<1> QED BY <1>5, <1>6, <1>8, <1>9, <1>10, <1>11, <1>12 DEF IInv

\* A client goes on with its call.  Stray hosts are only added, and no packets
\* but its own are sent.
LEMMA MoveKeeps ==
    ASSUME IInv, NEW c \in Hosts, NEW p \in Trying, pc[c] \in Trying,
           pc' = [pc EXCEPT ![c] = p], p = "listen" => pc[c] = "listen",
           UNCHANGED <<hist, job, phase, response, req, backlog, peer, auth, calls, ended, acted>>,
           inbox' \in [Daemons -> Seq(Packet)],
           \A s \in Daemons : \A r \in Waiting(s)' : r \in Waiting(s) \/ r = req[c],
           attempts' \in [Hosts -> Int],
           stray \subseteq stray', stray' \subseteq Hosts,
           pc[c] = "listen" => p = "listen" \/ c \in stray' \/ ~Strays(c, req[c].id)
    PROVE  IInv'
<1>0. Types /\ Control /\ Linked /\ Ids /\ Own /\ Each /\ Single /\ OwnAnswer
    BY DEF IInv
<1>1. req[c] \in Packet /\ req[c].host = c
    BY <1>0 DEF Control, Trying
<1>2. pc'[c] = p /\ \A d \in Hosts \ {c} : pc'[d] = pc[d]
    BY <1>0 DEF Types
<1>3. Types'
    BY <1>0 DEF Types, Trying
<1>4. Control' /\ Linked'
  <2>1. Asked'
      BY <1>0 DEF Control, Asked
  <2> QED BY <1>0, <1>1, <1>2, <2>1 DEF Control, Linked, Conns, Trying
<1>5. Ids'
  <2>1. \A r \in Packet : Known(r)' => Known(r)
      BY <1>2 DEF Known, Trying
  <2> QED BY <1>0, <2>1, IdsKept
<1>k. \A s \in Daemons : \A r : KeptOut(s, r)' <=> KeptOut(s, r)
    BY DEF KeptOut
<1>6. Own'
  <2> SUFFICES ASSUME NEW d \in Hosts, d \notin stray'
               PROVE  /\ pc'[d] \in {"send", "wait", "exchange"} =>
                            \A s \in Daemons : \A r \in Waiting(s)' :
                               r.host = d => r.id = req[d].id \/ KeptOut(s, r)'
                      /\ \A k \in Conns(d)' : k.of = req[d].id
      BY DEF Own
  <2>0. \A k \in Conns(d)' : k.of = req[d].id
      BY <1>0 DEF Own, Conns
  <2>2. CASE d # c
      BY <1>0, <1>1, <1>2, <1>k, <2>0, <2>2 DEF Own
  <2>3. CASE d = c
    <3>2. CASE pc[c] = "listen"
      <4>1. p = "listen" \/ ~Strays(c, req[c].id)
          BY <2>3, <3>2
      <4> QED BY <1>2, <1>k, <2>0, <2>3, <4>1, NoStrays
    <3>3. CASE pc[c] # "listen"
        BY <1>0, <1>k, <2>0, <2>3, <3>3 DEF Own, Trying
    <3> QED BY <3>2, <3>3
  <2> QED BY <2>2, <2>3
<1>7. Each'
  <2> SUFFICES ASSUME stray = {}, NEW s \in Daemons
               PROVE  /\ \A r \in Waiting(s)' : acted[s][r.id] # 0 => KeptOut(s, r)
                      /\ \A d \in Hosts : pc'[d] \in Trying /\ acted[s][req[d].id] # 0 =>
                            KeptOut(s, req[d])
      BY <1>0, <1>k DEF Each
  <2> QED BY <1>0, <1>2 DEF Each
<1>8. Single'
    BY <1>0, <1>2 DEF Single, Untouched
<1>9. OwnAnswer'
    BY <1>0 DEF OwnAnswer
<1> QED BY <1>3, <1>4, <1>5, <1>6, <1>7, <1>8, <1>9 DEF IInv

\* A call ends; with code 0 only on an answer to itself.
LEMMA ReturnKeeps ==
    ASSUME IInv, NEW c \in Hosts, NEW code, NEW of, pc[c] # "idle", Return(c, code, of),
           code = 0 => of = req[c].id \/ c \in stray,
           UNCHANGED <<inbox, hist, job, phase, response, acted>>,
           stray \subseteq stray', stray' \subseteq Hosts
    PROVE  IInv'
<1>0. Types /\ Control /\ Linked /\ Ids /\ Own /\ Each /\ Single /\ OwnAnswer
    BY DEF IInv
<1>1. req[c] \in Packet /\ req[c].host = c
    BY <1>0 DEF Control
<1>2. /\ pc' = [pc EXCEPT ![c] = "idle"]
      /\ backlog' = [backlog EXCEPT ![c] = {}] /\ peer' = [peer EXCEPT ![c] = {}]
      /\ req' = [req EXCEPT ![c] = <<>>] /\ attempts' = [attempts EXCEPT ![c] = 0]
      /\ UNCHANGED <<calls, auth>>
      /\ ended' = ended \cup (IF code = 0 THEN {[host |-> c, id |-> req[c].id, of |-> of]} ELSE {})
    BY DEF Return
<1>3. /\ pc'[c] = "idle" /\ backlog'[c] = {} /\ peer'[c] = {}
      /\ \A d \in Hosts \ {c} : /\ pc'[d] = pc[d] /\ backlog'[d] = backlog[d]
                                /\ peer'[d] = peer[d] /\ req'[d] = req[d]
    BY <1>0, <1>2 DEF Types
<1>4. Types'
    BY <1>0, <1>2 DEF Types
<1>5. Control'
  <2>1. Asked'
      BY <1>0, <1>2 DEF Control, Asked
  <2> QED BY <1>0, <1>3, <2>1 DEF Control
<1>6. Linked'
    BY <1>0, <1>3 DEF Linked, Conns
<1>7. Ids'
  <2>1. \A r \in Packet : Known(r)' => Known(r)
      BY <1>3 DEF Known, Waiting
  <2> QED BY <1>0, <1>2, <2>1, IdsKept
<1>8. Own'
    BY <1>0, <1>3 DEF Own, Conns, KeptOut, Waiting
<1>9. Each'
    BY <1>0, <1>3 DEF Each, KeptOut, Waiting, Trying
<1>10. Single'
    BY <1>0, <1>2, <1>3 DEF Single, Untouched, Trying
<1>11. OwnAnswer'
  <2>1. ASSUME NEW e \in ended', e \notin ended PROVE e.of = e.id \/ e.host \in stray'
      BY <1>2, <2>1
  <2> QED BY <1>0, <2>1 DEF OwnAnswer
<1> QED BY <1>4, <1>5, <1>6, <1>7, <1>8, <1>9, <1>10, <1>11 DEF IInv

\* tcp_wait_connect: with authentication nobody has worked on the call so far.
LEMMA AcceptKeeps ==
    ASSUME IInv, NEW c \in Hosts, tcp_wait_connect(c)
    PROVE  IInv'
<1>0. Types /\ Control /\ Linked /\ Ids /\ Own /\ Each /\ Single /\ OwnAnswer
    BY DEF IInv
<1>1. PICK k \in backlog[c] : peer' = [peer EXCEPT ![c] = {k}]
    BY DEF tcp_wait_connect
<1>2. /\ pc[c] = "wait" /\ pc' = [pc EXCEPT ![c] = "exchange"]
      /\ backlog' = [backlog EXCEPT ![c] = {}]
      /\ UNCHANGED <<inbox, hist, job, phase, response, req, attempts, auth, calls, ended,
                     acted, stray>>
    BY DEF tcp_wait_connect, daemonVars
<1>3. /\ pc'[c] = "exchange" /\ backlog'[c] = {} /\ peer'[c] = {k} /\ k \in Connection
      /\ \A d \in Hosts \ {c} : /\ pc'[d] = pc[d] /\ backlog'[d] = backlog[d]
                                /\ peer'[d] = peer[d]
    BY <1>0, <1>1, <1>2 DEF Types
<1>4. Types'
    BY <1>0, <1>1, <1>2, <1>3 DEF Types
<1>5. Control'
  <2>1. Asked'
      BY <1>0, <1>2 DEF Control, Asked
  <2> QED BY <1>0, <1>2, <1>3, <2>1 DEF Control
<1>c. \A d \in Hosts : Conns(d)' \subseteq Conns(d)
    BY <1>1, <1>3 DEF Conns
<1>6. Linked'
    BY <1>0, <1>2, <1>c DEF Linked
<1>7. Ids'
  <2>1. \A r \in Packet : Known(r)' => Known(r)
      BY <1>2, <1>3 DEF Known, Waiting
  <2> QED BY <1>0, <1>2, <2>1, IdsKept
<1>8. Own'
  <2>1. \A d \in Hosts : pc'[d] \in {"send", "wait", "exchange"} =>
                         pc[d] \in {"send", "wait", "exchange"}
      BY <1>2, <1>3
  <2> QED BY <1>0, <1>2, <1>c, <2>1 DEF Own, KeptOut, Waiting
<1>9. Each'
    BY <1>0, <1>2, <1>3 DEF Each, KeptOut, Waiting, Trying
<1>10. Single'
  <2> SUFFICES ASSUME stray = {}, auth PROVE Single'
      BY <1>2 DEF Single
  <2>1. Untouched(k.of)
      BY <1>0, <1>1, <1>2 DEF Own, Conns, Single, Trying
  <2>2. \A d \in Hosts : pc'[d] \in Trying => Untouched(req[d].id)
      BY <1>0, <1>3 DEF Single, Trying
  <2>3. \A d \in Hosts : \A h \in peer'[d] :
           h.open /\ phase[h.from] = "handshake" => Untouched(h.of)
      BY <1>0, <1>3, <2>1 DEF Single
  <2> QED BY <1>0, <1>2, <2>2, <2>3 DEF Single, Untouched
<1>11. OwnAnswer'
    BY <1>0, <1>2 DEF OwnAnswer
<1> QED BY <1>4, <1>5, <1>6, <1>7, <1>8, <1>9, <1>10, <1>11 DEF IInv

\* A step of a client within its call.
LEMMA ClientStep ==
    ASSUME IInv, NEW c \in Hosts, Client(c)
    PROVE  IInv'
<1>0. Types /\ Control /\ Own
    BY DEF IInv
<1>1. [attempts EXCEPT ![c] = Spent(c)] \in [Hosts -> Int]
    BY <1>0 DEF Types, Spent
<1>2. CASE listen_loop(c)
  <2>1. /\ pc[c] = "listen" /\ UNCHANGED <<inbox, hist, job, phase, response, acted>>
        /\ stray' = IF Strays(c, req[c].id) THEN stray \cup {c} ELSE stray
      BY <1>2 DEF listen_loop, daemonVars
  <2>2. /\ stray \subseteq stray' /\ stray' \subseteq Hosts
        /\ c \in stray' \/ ~Strays(c, req[c].id)
      BY <1>0, <2>1 DEF Types
  <2>3. /\ inbox' \in [Daemons -> Seq(Packet)]
        /\ \A s \in Daemons : \A r \in Waiting(s)' : r \in Waiting(s) \/ r = req[c]
      BY <1>0, <2>1 DEF Types, Waiting
  <2>4. ASSUME NEW p \in Trying, Goes(c, p), attempts' \in [Hosts -> Int] PROVE IInv'
    <3>1. /\ pc' = [pc EXCEPT ![c] = p]
          /\ UNCHANGED <<hist, job, phase, response, req, backlog, peer, auth, calls, ended, acted>>
        BY <2>1, <2>4 DEF Goes, socketVars
    <3>2. pc[c] \in Trying
        BY <2>1 DEF Trying
    <3> QED BY <2>1, <2>2, <2>3, <2>4, <3>1, <3>2, MoveKeeps
  <2>5. CASE Goes(c, "send") /\ UNCHANGED attempts
      BY <1>0, <2>4, <2>5 DEF Types, Trying
  <2>6. CASE GoesOn(c, "listen")
      BY <1>1, <2>4, <2>6 DEF GoesOn, Trying
  <2>7. CASE Return(c, 1, 0)
      BY <2>1, <2>2, <2>7, ReturnKeeps
  <2> QED BY <1>2, <2>5, <2>6, <2>7 DEF listen_loop
<1>3. CASE send_multicast_packets(c)
  <2>1. /\ pc[c] = "send" /\ pc' = [pc EXCEPT ![c] = "wait"]
        /\ UNCHANGED <<hist, job, phase, response, req, backlog, peer, auth, calls, ended, acted>>
        /\ UNCHANGED <<attempts, stray>>
      BY <1>3 DEF send_multicast_packets, Goes, socketVars
  <2>2. PICK n \in [Daemons -> 0 .. Copies] :
           inbox' = [s \in Daemons |-> AppendCopies(inbox[s], req[c], n[s])]
      BY <1>3 DEF send_multicast_packets
  <2>3. req[c] \in Packet
      BY <1>0, <2>1 DEF Control
  <2>4. /\ inbox' \in [Daemons -> Seq(Packet)]
        /\ \A s \in Daemons : \A r \in Waiting(s)' : r \in Waiting(s) \/ r = req[c]
      BY <1>0, <2>2, <2>3, Sent
  <2>5. attempts' \in [Hosts -> Int] /\ stray \subseteq stray' /\ stray' \subseteq Hosts
      BY <1>0, <2>1 DEF Types
  <2>6. "wait" \in Trying /\ pc[c] \in Trying
      BY <2>1 DEF Trying
  <2> QED BY <2>1, <2>4, <2>5, <2>6, MoveKeeps
<1>4. CASE tcp_wait_connect(c)
    BY <1>4, AcceptKeeps
<1>5. CASE tcp_wait_connect_fails(c)
  <2>1. pc[c] = "wait" /\ UNCHANGED <<inbox, hist, job, phase, response, acted>> /\ UNCHANGED stray
      BY <1>5 DEF tcp_wait_connect_fails, daemonVars
  <2>2. stray \subseteq stray' /\ stray' \subseteq Hosts
      BY <1>0, <2>1 DEF Types
  <2>3. CASE GoesOn(c, "send")
    <3>1. /\ inbox' \in [Daemons -> Seq(Packet)]
          /\ \A s \in Daemons : \A r \in Waiting(s)' : r \in Waiting(s) \/ r = req[c]
        BY <1>0, <2>1 DEF Types, Waiting
    <3>2. /\ pc' = [pc EXCEPT ![c] = "send"]
          /\ UNCHANGED <<hist, job, phase, response, req, backlog, peer, auth, calls, ended, acted>>
          /\ attempts' \in [Hosts -> Int]
        BY <1>1, <2>1, <2>3 DEF GoesOn, Goes, socketVars
    <3>3. "send" \in Trying /\ pc[c] \in Trying
        BY <2>1 DEF Trying
    <3> QED BY <2>1, <2>2, <3>1, <3>2, <3>3, MoveKeeps
  <2>4. CASE Return(c, 1, 0)
      BY <2>1, <2>2, <2>4, ReturnKeeps
  <2> QED BY <1>5, <2>3, <2>4 DEF tcp_wait_connect_fails
<1>6. CASE tcp_exchange(c)
  <2>1. /\ pc[c] = "exchange" /\ UNCHANGED <<inbox, hist, job, phase, response, acted>>
        /\ UNCHANGED stray
      BY <1>6 DEF tcp_exchange, daemonVars
  <2>2. PICK k \in peer[c], code \in {0, 1} : Return(c, code, k.of)
    <3>1. PICK k \in peer[c] : \E code \in k.answer : Return(c, code, k.of)
        BY <1>6 DEF tcp_exchange
    <3>2. k \in Connection
        BY <1>0 DEF Types
    <3> QED BY <3>1, <3>2, ConnectionFields
  <2>3. k.of = req[c].id \/ c \in stray
      BY <1>0 DEF Own, Conns
  <2>4. stray \subseteq stray' /\ stray' \subseteq Hosts
      BY <1>0, <2>1 DEF Types
  <2> QED BY <2>1, <2>2, <2>3, <2>4, ReturnKeeps
<1>7. CASE tcp_exchange_fails(c)
  <2>1. /\ pc[c] = "exchange" /\ UNCHANGED <<inbox, hist, job, phase, response, acted>>
        /\ UNCHANGED stray /\ Return(c, 1, 0)
      BY <1>7 DEF tcp_exchange_fails, daemonVars
  <2>2. stray \subseteq stray' /\ stray' \subseteq Hosts
      BY <1>0, <2>1 DEF Types
  <2> QED BY <2>1, <2>2, ReturnKeeps
<1> QED BY <1>2, <1>3, <1>4, <1>5, <1>6, <1>7 DEF Client

\* A packet is dropped, or nobody answers at its address.
LEMMA DropKeeps ==
    ASSUME IInv, NEW s \in Daemons, mcast_dispatch_drop(s) \/ connect_tcp_refused(s)
    PROVE  IInv'
<1>0. Types /\ Control /\ Linked /\ Ids /\ Own /\ Each /\ Single /\ OwnAnswer
    BY DEF IInv
<1>1. /\ inbox[s] # <<>> /\ inbox' = [inbox EXCEPT ![s] = Tail(@)]
      /\ UNCHANGED <<hist, job, phase, response, pc, req, attempts, backlog, peer, auth, calls,
                     ended, acted, stray>>
    BY DEF mcast_dispatch_drop, connect_tcp_refused, clientVars, socketVars
<1>2. /\ inbox' \in [Daemons -> Seq(Packet)]
      /\ \A t \in Daemons : Waiting(t)' \subseteq Waiting(t)
    BY <1>0, <1>1, Taken
<1>3. Types'
    BY <1>0, <1>1, <1>2 DEF Types
<1>4. Control' /\ Linked' /\ OwnAnswer'
  <2>1. Asked'
      BY <1>0, <1>1 DEF Control, Asked
  <2> QED BY <1>0, <1>1, <2>1 DEF Control, Linked, Conns, OwnAnswer
<1>5. Ids'
  <2>1. \A r \in Packet : Known(r)' => Known(r)
      BY <1>1, <1>2 DEF Known
  <2> QED BY <1>0, <1>1, <2>1, IdsKept
<1>6. Own'
    BY <1>0, <1>1, <1>2 DEF Own, KeptOut, Conns
<1>7. Each'
    BY <1>0, <1>1, <1>2 DEF Each, KeptOut
<1>8. Single'
    BY <1>0, <1>1 DEF Single, Untouched
<1> QED BY <1>3, <1>4, <1>5, <1>6, <1>7, <1>8 DEF IInv

\* connect_tcp: the packet is one of the client's own call, unless its host is
\* stray, and one that this daemon has not carried out.
LEMMA ConnectKeeps ==
    ASSUME IInv, NEW s \in Daemons, connect_tcp(s)
    PROVE  IInv'
<1> DEFINE r == Head(inbox[s])
           c == r.host
           k == [from |-> s, of |-> r.id, open |-> TRUE, answer |-> {}]
<1>0. Types /\ Control /\ Linked /\ Ids /\ Own /\ Each /\ Single /\ OwnAnswer
    BY DEF IInv
<1>1. /\ inbox[s] # <<>> /\ inbox' = [inbox EXCEPT ![s] = Tail(@)]
      /\ phase[s] = "read" /\ Entry(r) \notin hist[s] /\ pc[c] \in {"send", "wait"}
      /\ job' = [job EXCEPT ![s] = r]
      /\ backlog' = [backlog EXCEPT ![c] = @ \cup {k}]
      /\ phase' = [phase EXCEPT ![s] = NextPhase]
      /\ UNCHANGED <<hist, response, pc, req, attempts, peer, auth, calls, ended, acted, stray>>
    BY DEF connect_tcp
<1>2. /\ r \in Packet /\ r \in Waiting(s)
      /\ inbox' \in [Daemons -> Seq(Packet)]
      /\ \A t \in Daemons : Waiting(t)' \subseteq Waiting(t)
    BY <1>0, <1>1, Taken
<1>3. c \in Hosts /\ r.id \in 1 .. Calls
    BY <1>2, PacketFields
<1> HIDE DEF r
<1>4. k \in Connection /\ k.from = s /\ k.of = r.id
    BY <1>3 DEF Connection
<1> HIDE DEF c, k
<1>p. /\ phase'[s] # "read" /\ phase'[s] \in {"handshake", "fence"}
      /\ phase'[s] = "handshake" <=> auth
    BY <1>0, <1>1 DEF Types, NextPhase
<1>5. /\ job'[s] = r /\ backlog'[c] = backlog[c] \cup {k}
      /\ \A t \in Daemons \ {s} : job'[t] = job[t] /\ phase'[t] = phase[t]
      /\ \A d \in Hosts \ {c} : backlog'[d] = backlog[d]
    BY <1>0, <1>1, <1>3 DEF Types
<1>6. Types'
  <2>1. phase' \in [Daemons -> {"read", "handshake", "fence", "respond"}]
      BY <1>0, <1>1 DEF Types, NextPhase
  <2>2. backlog' \in [Hosts -> SUBSET Connection]
      BY <1>0, <1>1, <1>4 DEF Types
  <2>3. job' \in [Daemons -> Packet \cup {<<>>}]
      BY <1>0, <1>1, <1>2 DEF Types
  <2> QED BY <1>0, <1>1, <1>2, <2>1, <2>2, <2>3 DEF Types
<1>o. c \notin stray => r.id = req[c].id
    BY <1>0, <1>1, <1>2, <1>3 DEF Own, KeptOut, Working, c
<1>7. Control'
  <2>0. Asked'
      BY <1>0, <1>1, <1>5, <1>p DEF Control, Asked
  <2>1. \A t \in Daemons : phase'[t] # "read" => job'[t] \in Packet
      BY <1>0, <1>2, <1>5, <1>p DEF Control
  <2>2. \A d \in Hosts : pc[d] \notin {"send", "wait"} => backlog'[d] = {}
      BY <1>0, <1>1, <1>5 DEF Control
  <2> QED BY <1>0, <1>1, <2>0, <2>1, <2>2 DEF Control
<1>c. \A d \in Hosts : \A h \in Conns(d)' : h \in Conns(d) \/ (h = k /\ d = c)
    BY <1>1, <1>5 DEF Conns
<1>8. Linked'
  <2> SUFFICES ASSUME NEW d \in Hosts, NEW h \in Conns(d)', h.open
               PROVE  /\ phase'[h.from] # "read" /\ job'[h.from].host = d
                      /\ job'[h.from].id = h.of
      BY DEF Linked
  <2>1. CASE h \in Conns(d)
    <3>1. h \in Connection
        BY <1>0, <2>1 DEF Types, Conns
    <3>2. h.from \in Daemons /\ h.from # s
        BY <1>0, <1>1, <2>1, <3>1, ConnectionFields DEF Linked
    <3> QED BY <1>0, <1>5, <2>1, <3>2 DEF Linked
  <2>2. CASE h = k /\ d = c
      BY <1>4, <1>5, <1>p, <2>2 DEF c
  <2> QED BY <1>c, <2>1, <2>2
<1>9. Ids'
  <2>1. \A x \in Packet : Known(x)' => Known(x)
    <3>1. \A x \in Packet, d \in Hosts : pc'[d] # "idle" /\ x = req'[d] => Known(x)
        BY <1>1 DEF Known
    <3>2. \A x \in Packet, t \in Daemons : phase'[t] # "read" /\ x = job'[t] => Known(x)
        BY <1>2, <1>5 DEF Known
    <3> QED BY <1>2, <3>1, <3>2 DEF Known
  <2> QED BY <1>0, <1>1, <2>1, IdsKept
<1>k. \A t \in Daemons : \A x : KeptOut(t, x) => KeptOut(t, x)'
    BY <1>1, <1>5 DEF KeptOut, Working
<1>10. Own'
  <2> SUFFICES ASSUME NEW d \in Hosts, d \notin stray
               PROVE  /\ pc[d] \in {"send", "wait", "exchange"} =>
                            \A t \in Daemons : \A x \in Waiting(t)' :
                               x.host = d => x.id = req[d].id \/ KeptOut(t, x)'
                      /\ \A h \in Conns(d)' : h.of = req[d].id
      BY <1>1 DEF Own
  <2>1. \A h \in Conns(d)' : h.of = req[d].id
      BY <1>0, <1>4, <1>c, <1>o DEF Own
  <2> QED BY <1>0, <1>2, <1>k, <2>1 DEF Own
<1>11. Each'
  <2> SUFFICES ASSUME stray = {} PROVE Each'
      BY <1>1 DEF Each
  <2>1. acted[s][r.id] = 0
      BY <1>0, <1>1, <1>2 DEF Each, KeptOut, Working
  <2>2. \A t \in Daemons : phase'[t] = "fence" => acted[t][job'[t].id] = 0
      BY <1>0, <1>5, <2>1 DEF Each
  <2>3. \A t \in Daemons : \A x \in Waiting(t)' : acted[t][x.id] # 0 => KeptOut(t, x)'
      BY <1>0, <1>2, <1>k DEF Each
  <2>4. ASSUME NEW t \in Daemons, NEW d \in Hosts, pc'[d] \in Trying, acted'[t][req'[d].id] # 0
        PROVE  KeptOut(t, req[d])'
    <3>1. PICK x : x = req[d]
        OBVIOUS
    <3>2. KeptOut(t, x)
        BY <1>0, <1>1, <2>4, <3>1 DEF Each
    <3>3. KeptOut(t, x)'
        BY <1>k, <3>2
    <3> QED BY <1>1, <3>1, <3>3 DEF KeptOut
  <2> QED BY <1>0, <1>1, <2>2, <2>3, <2>4 DEF Each
<1>12. Single'
  <2> SUFFICES ASSUME stray = {}, auth PROVE Single'
      BY <1>1 DEF Single
  <2>1. \A t \in Daemons : phase'[t] = "fence" => t # s /\ phase[t] = "fence" /\ job'[t] = job[t]
      BY <1>5, <1>p
  <2>2. \A i : Untouched(i) => Untouched(i)'
      BY <1>1, <2>1 DEF Untouched
  <2>3. \A d \in Hosts : \A h \in peer[d] :
           h.open /\ phase'[h.from] = "handshake" => Untouched(h.of)
    <3> SUFFICES ASSUME NEW d \in Hosts, NEW h \in peer[d], h.open, phase'[h.from] = "handshake"
                 PROVE  Untouched(h.of)
        OBVIOUS
    <3>1. h \in Connection
        BY <1>0 DEF Types
    <3>2. h.from \in Daemons /\ h.from # s
        BY <1>0, <1>1, <3>1, ConnectionFields DEF Linked, Conns
    <3> QED BY <1>0, <1>5, <3>2 DEF Single
  <2>4. ASSUME NEW d \in Hosts, pc'[d] \in Trying PROVE Untouched(req[d].id)'
    <3>1. PICK i : i = req[d].id
        OBVIOUS
    <3>2. Untouched(i)'
        BY <1>0, <1>1, <2>2, <2>4, <3>1 DEF Single
    <3> QED BY <1>1, <3>1, <3>2 DEF Untouched
  <2>5. \A d \in Hosts : \A h \in peer'[d] :
           h.open /\ phase'[h.from] = "handshake" => Untouched(h.of)'
      BY <1>1, <2>2, <2>3
  <2>6. \A u \in Daemons : phase'[u] = "fence" => \A t \in Daemons :
          /\ acted'[t][job'[u].id] = 0
          /\ phase'[t] = "fence" /\ t # u => job'[t].id # job'[u].id
      BY <1>0, <1>1, <2>1 DEF Single
  <2>7. \A u, t \in Daemons, i \in 1 .. Calls : acted'[u][i] # 0 /\ acted'[t][i] # 0 => u = t
      BY <1>0, <1>1 DEF Single
  <2> QED BY <2>4, <2>5, <2>6, <2>7 DEF Single
<1>13. OwnAnswer'
    BY <1>0, <1>1 DEF OwnAnswer
<1> QED BY <1>6, <1>7, <1>8, <1>9, <1>10, <1>11, <1>12, <1>13 DEF IInv

\* Calls of one id have the same host.
LEMMA SameCall ==
    ASSUME Types, Control, Ids, NEW c \in Hosts, NEW d \in Hosts, pc[c] # "idle", pc[d] # "idle",
           req[c].id = req[d].id
    PROVE  c = d
<1>1. /\ req[c] \in Packet /\ req[c].host = c /\ Known(req[c])
      /\ req[d] \in Packet /\ req[d].host = d /\ Known(req[d])
    BY DEF Control, Known
<1> QED BY <1>1 DEF Ids

\* sock_response: the client has accepted the connection of this daemon, so nobody
\* has carried out its call, and nobody else is about to.
LEMMA HandshakeKeeps ==
    ASSUME IInv, NEW s \in Daemons, sock_response(s)
    PROVE  IInv'
<1>0. Types /\ Control /\ Linked /\ Ids /\ Own /\ Each /\ Single /\ OwnAnswer
    BY DEF IInv
<1>1. /\ phase[s] = "handshake" /\ phase' = [phase EXCEPT ![s] = "fence"]
      /\ UNCHANGED <<inbox, hist, job, response, pc, req, attempts, backlog, peer, auth, calls,
                     ended, acted, stray>>
    BY DEF sock_response, clientVars, socketVars
<1>h. PICK c \in Hosts : c = job[s].host
    BY <1>0, <1>1, PacketFields DEF Control
<1>2. PICK k \in peer[c] : k.from = s /\ k.open
    BY <1>h DEF sock_response
<1>3. phase'[s] = "fence" /\ \A t \in Daemons \ {s} : phase'[t] = phase[t]
    BY <1>0, <1>1 DEF Types
<1>a. auth
    BY <1>0, <1>1 DEF Control, Asked
<1>4. job[s].id = k.of /\ pc[c] = "exchange" /\ peer[c] = {k}
    BY <1>0, <1>h, <1>2 DEF Linked, Conns, Control
<1>5. Types'
    BY <1>0, <1>1 DEF Types
<1>6. Control'
  <2>1. Asked'
      BY <1>0, <1>1, <1>3 DEF Control, Asked
  <2> QED BY <1>0, <1>1, <1>3, <2>1 DEF Control
<1>7. Linked'
  <2> SUFFICES ASSUME NEW d \in Hosts, NEW h \in Conns(d), h.open
               PROVE  /\ phase'[h.from] # "read" /\ job[h.from].host = d
                      /\ job[h.from].id = h.of
      BY <1>1 DEF Linked, Conns
  <2>1. h.from \in Daemons
      BY <1>0, ConnectionFields DEF Types, Conns
  <2> QED BY <1>0, <1>3, <2>1 DEF Linked
<1>8. Ids'
  <2>1. \A r \in Packet : Known(r)' => Known(r)
      BY <1>1, <1>3 DEF Known, Waiting
  <2> QED BY <1>0, <1>1, <2>1, IdsKept
<1>k. \A t \in Daemons : \A x : KeptOut(t, x) => KeptOut(t, x)'
    BY <1>1, <1>3 DEF KeptOut, Working
<1>9. Own'
  <2>1. \A t \in Daemons : Waiting(t)' = Waiting(t)
      BY <1>1 DEF Waiting
  <2> QED BY <1>0, <1>1, <1>k, <2>1 DEF Own, Conns
<1>u. stray = {} => Untouched(k.of) /\ k.of = req[c].id
    BY <1>0, <1>1, <1>2, <1>a DEF Single, Own, Conns
<1>10. Each'
  <2> SUFFICES ASSUME stray = {} PROVE Each'
      BY <1>1 DEF Each
  <2>1. \A t \in Daemons : phase'[t] = "fence" => acted[t][job[t].id] = 0
      BY <1>0, <1>3, <1>4, <1>u DEF Each, Untouched
  <2>2. \A t \in Daemons : \A x \in Waiting(t)' : acted[t][x.id] # 0 => KeptOut(t, x)'
      BY <1>0, <1>1, <1>k DEF Each, Waiting
  <2>3. ASSUME NEW t \in Daemons, NEW d \in Hosts, pc'[d] \in Trying, acted'[t][req'[d].id] # 0
        PROVE  KeptOut(t, req[d])'
    <3>1. PICK x : x = req[d]
        OBVIOUS
    <3>2. KeptOut(t, x)
        BY <1>0, <1>1, <2>3, <3>1 DEF Each
    <3>3. KeptOut(t, x)'
        BY <1>k, <3>2
    <3> QED BY <1>1, <3>1, <3>3 DEF KeptOut
  <2> QED BY <1>0, <1>1, <2>1, <2>2, <2>3 DEF Each
<1>11. Single'
  <2> SUFFICES ASSUME stray = {} PROVE Single'
      BY <1>1 DEF Single
  <2>0. \A i : Untouched(i) /\ i # k.of => Untouched(i)'
      BY <1>1, <1>3, <1>4 DEF Untouched
  <2>1. ASSUME NEW d \in Hosts, pc'[d] \in Trying PROVE Untouched(req[d].id)'
    <3>1. PICK i : i = req[d].id
        OBVIOUS
    <3>2. i # k.of
        BY <1>0, <1>1, <1>4, <1>u, <2>1, <3>1, SameCall DEF Trying
    <3>3. Untouched(i)'
        BY <1>0, <1>1, <1>a, <2>0, <2>1, <3>1, <3>2 DEF Single
    <3> QED BY <1>1, <3>1, <3>3 DEF Untouched
  <2>2. ASSUME NEW d \in Hosts, NEW h \in peer'[d], h.open, phase'[h.from] = "handshake"
        PROVE  Untouched(h.of)'
    <3>1. h \in peer[d] /\ h \in Connection /\ h.from \in Daemons
        BY <1>0, <1>1, <2>2, ConnectionFields DEF Types
    <3>2. h.from # s /\ phase[h.from] = "handshake"
        BY <1>3, <2>2, <3>1
    <3>3. h.of = req[d].id /\ pc[d] = "exchange"
        BY <1>0, <2>2, <3>1 DEF Own, Conns, Control
    <3>4. d # c
        BY <1>2, <1>4, <3>1, <3>2
    <3>5. h.of # k.of
        BY <1>0, <1>4, <1>u, <3>3, <3>4, SameCall
    <3> QED BY <1>0, <1>a, <2>0, <2>2, <3>1, <3>2, <3>5 DEF Single
  <2>3. \A u \in Daemons : phase'[u] = "fence" => \A t \in Daemons :
          /\ acted'[t][job'[u].id] = 0
          /\ phase'[t] = "fence" /\ t # u => job'[t].id # job'[u].id
    <3>1. ASSUME NEW u \in Daemons, phase'[u] = "fence", NEW t \in Daemons
          PROVE  /\ acted[t][job[u].id] = 0
                 /\ phase'[t] = "fence" /\ t # u => job[t].id # job[u].id
      <4>1. CASE u = s
          BY <1>3, <1>4, <1>u, <4>1 DEF Untouched
      <4>2. CASE u # s
        <5>1. phase[u] = "fence" /\ job[u].id # k.of
            BY <1>3, <1>u, <3>1, <4>2 DEF Untouched
        <5> QED BY <1>0, <1>3, <1>4, <1>a, <5>1 DEF Single
      <4> QED BY <4>1, <4>2
    <3> QED BY <1>1, <3>1
  <2>4. \A u, t \in Daemons, i \in 1 .. Calls : acted'[u][i] # 0 /\ acted'[t][i] # 0 => u = t
      BY <1>0, <1>1, <1>a DEF Single
  <2> QED BY <2>1, <2>2, <2>3, <2>4 DEF Single
<1>12. OwnAnswer'
    BY <1>0, <1>1 DEF OwnAnswer
<1> QED BY <1>5, <1>6, <1>7, <1>8, <1>9, <1>10, <1>11, <1>12 DEF IInv

\* The connections that a daemon has closed.
LEMMA ClosedFacts ==
    ASSUME NEW C, C \subseteq Connection, NEW s \in Daemons, NEW a \in SUBSET {0, 1}
    PROVE  /\ Closed(C, s, a) \subseteq Connection
           /\ \A h \in Closed(C, s, a) : \E k \in C :
                 /\ h.from = k.from /\ h.of = k.of
                 /\ h.open => h = k /\ h.from # s
           /\ C = {} => Closed(C, s, a) = {}
           /\ \A k \in Connection : C = {k} => \E h \in Connection : Closed(C, s, a) = {h}
<1>1. ASSUME NEW k \in Connection
      PROVE  LET h == [k EXCEPT !.open = FALSE, !.answer = a]
             IN  h \in Connection /\ h.from = k.from /\ h.of = k.of /\ h.open = FALSE
    BY DEF Connection
<1>2. ASSUME NEW h \in Closed(C, s, a)
      PROVE  /\ h \in Connection
             /\ \E k \in C : /\ h.from = k.from /\ h.of = k.of
                             /\ h.open => h = k /\ h.from # s
  <2>1. CASE h \in {k \in C : ~(k.from = s /\ k.open)}
      BY <2>1
  <2>2. CASE h \notin {k \in C : ~(k.from = s /\ k.open)}
    <3>1. PICK k \in C : h = [k EXCEPT !.open = FALSE, !.answer = a]
        BY <2>2 DEF Closed
    <3>2. k \in Connection
        OBVIOUS
    <3>3. h \in Connection /\ h.from = k.from /\ h.of = k.of /\ h.open = FALSE
        BY <1>1, <3>1, <3>2
    <3> QED BY <3>1, <3>3
  <2> QED BY <2>1, <2>2
<1>3. C = {} => Closed(C, s, a) = {}
    BY DEF Closed
<1>4. ASSUME NEW k \in Connection, C = {k}
      PROVE  \E h \in Connection : Closed(C, s, a) = {h}
  <2>1. CASE k.from = s /\ k.open
    <3>1. Closed(C, s, a) = {[k EXCEPT !.open = FALSE, !.answer = a]}
        BY <1>4, <2>1 DEF Closed
    <3> QED BY <1>1, <3>1
  <2>2. CASE ~(k.from = s /\ k.open)
    <3>1. Closed(C, s, a) = {k}
        BY <1>4, <2>2 DEF Closed
    <3> QED BY <3>1
  <2> QED BY <2>1, <2>2
<1> QED BY <1>2, <1>3, <1>4

\* A daemon closes its connection, in the handshake or with an answer.
LEMMA CloseKeeps ==
    ASSUME IInv, NEW s \in Daemons, NEW a \in SUBSET {0, 1}, Close(s, a),
           response' \in [Daemons -> {0, 1}],
           \/ phase[s] = "handshake" /\ hist' = hist
           \/ phase[s] = "respond" /\ history_record(s)
    PROVE  IInv'
<1>0. Types /\ Control /\ Linked /\ Ids /\ Own /\ Each /\ Single /\ OwnAnswer
    BY DEF IInv
<1>1. /\ backlog' = [c \in Hosts |-> Closed(backlog[c], s, a)]
      /\ peer' = [c \in Hosts |-> Closed(peer[c], s, a)]
      /\ phase' = [phase EXCEPT ![s] = "read"] /\ job' = [job EXCEPT ![s] = <<>>]
      /\ UNCHANGED <<inbox, pc, req, attempts, auth, calls, ended, acted, stray>>
    BY DEF Close
<1>2. /\ phase[s] # "read" /\ job[s] \in Packet /\ phase'[s] = "read"
      /\ \A t \in Daemons \ {s} : phase'[t] = phase[t] /\ job'[t] = job[t]
    BY <1>0, <1>1 DEF Types, Control
<1>3. ASSUME NEW c \in Hosts
      PROVE  /\ backlog'[c] \subseteq Connection /\ peer'[c] \subseteq Connection
             /\ backlog[c] = {} => backlog'[c] = {}
             /\ peer[c] = {} => peer'[c] = {}
             /\ \A k \in Connection : peer[c] = {k} => \E h \in Connection : peer'[c] = {h}
             /\ \A h \in peer'[c] : \E k \in peer[c] :
                   h.from = k.from /\ h.of = k.of /\ (h.open => h = k /\ h.from # s)
             /\ \A h \in Conns(c)' : \E k \in Conns(c) :
                   h.from = k.from /\ h.of = k.of /\ (h.open => h = k /\ h.from # s)
  <2>1. backlog[c] \subseteq Connection /\ peer[c] \subseteq Connection
      BY <1>0 DEF Types
  <2>c. backlog'[c] = Closed(backlog[c], s, a) /\ peer'[c] = Closed(peer[c], s, a)
      BY <1>1
  <2>2. /\ backlog'[c] \subseteq Connection
        /\ backlog[c] = {} => backlog'[c] = {}
        /\ \A h \in backlog'[c] : \E k \in backlog[c] :
                   h.from = k.from /\ h.of = k.of /\ (h.open => h = k /\ h.from # s)
      BY <2>c, <2>1, ClosedFacts
  <2>3. /\ peer'[c] \subseteq Connection
        /\ peer[c] = {} => peer'[c] = {}
        /\ \A k \in Connection : peer[c] = {k} => \E h \in Connection : peer'[c] = {h}
        /\ \A h \in peer'[c] : \E k \in peer[c] :
                   h.from = k.from /\ h.of = k.of /\ (h.open => h = k /\ h.from # s)
    <3>1. PICK C : C = peer[c]
        OBVIOUS
    <3>2. /\ Closed(C, s, a) \subseteq Connection
          /\ \A h \in Closed(C, s, a) : \E k \in C :
                /\ h.from = k.from /\ h.of = k.of
                /\ h.open => h = k /\ h.from # s
          /\ C = {} => Closed(C, s, a) = {}
          /\ \A k \in Connection : C = {k} => \E h \in Connection : Closed(C, s, a) = {h}
      <4>1. C \subseteq Connection
          BY <2>1, <3>1
      <4> QED BY <4>1, ClosedFacts, Zenon
    <3> QED BY <2>c, <3>1, <3>2
  <2>4. Conns(c)' = backlog'[c] \cup peer'[c] /\ Conns(c) = backlog[c] \cup peer[c]
      BY DEF Conns
  <2> QED BY <2>2, <2>3, <2>4
<1>h. /\ hist' \in [Daemons -> SUBSET [op : Ops, seqno : Seqnos]]
      /\ \A t \in Daemons \ {s} : hist'[t] = hist[t]
      /\ hist[s] \subseteq hist'[s]
      /\ phase[s] = "handshake" \/ Entry(job[s]) \in hist'[s]
  <2>1. Entry(job[s]) \in [op : Ops, seqno : Seqnos]
      BY <1>2, PacketFields
  <2>2. CASE phase[s] = "handshake" /\ hist' = hist
      BY <1>0, <2>2 DEF Types
  <2>3. CASE history_record(s)
    <3>1. hist' = [hist EXCEPT ![s] = hist[s] \cup {Entry(job[s])}]
        BY <2>3 DEF history_record
    <3>2. hist'[s] = hist[s] \cup {Entry(job[s])} /\ \A t \in Daemons \ {s} : hist'[t] = hist[t]
        BY <1>0, <3>1 DEF Types
    <3>3. hist[s] \cup {Entry(job[s])} \in SUBSET [op : Ops, seqno : Seqnos]
        BY <1>0, <2>1 DEF Types
    <3>4. hist' \in [Daemons -> SUBSET [op : Ops, seqno : Seqnos]]
        BY <1>0, <3>1, <3>3 DEF Types
    <3> QED BY <3>2, <3>4
  <2> QED BY <2>2, <2>3
<1>4. Types'
  <2>1. /\ backlog' \in [Hosts -> SUBSET Connection] /\ peer' \in [Hosts -> SUBSET Connection]
      BY <1>1, <1>3
  <2> QED BY <1>0, <1>1, <1>h, <2>1 DEF Types
<1>5. Control'
  <2>1. Asked'
      BY <1>0, <1>1, <1>2 DEF Control, Asked
  <2>2. \A t \in Daemons : phase'[t] # "read" => job'[t] \in Packet
      BY <1>0, <1>2 DEF Control
  <2>3. \A c \in Hosts : /\ pc[c] # "exchange" => peer'[c] = {}
                         /\ pc[c] = "exchange" => \E k \in Connection : peer'[c] = {k}
                         /\ pc[c] \notin {"send", "wait"} => backlog'[c] = {}
      BY <1>0, <1>3 DEF Control
  <2> QED BY <1>0, <1>1, <2>1, <2>2, <2>3 DEF Control
<1>6. Linked'
  <2> SUFFICES ASSUME NEW c \in Hosts, NEW h \in Conns(c)', h.open
               PROVE  /\ phase'[h.from] # "read" /\ job'[h.from].host = c
                      /\ job'[h.from].id = h.of
      BY DEF Linked
  <2>1. h \in Conns(c) /\ h.from # s
      BY <1>3
  <2>2. h.from \in Daemons
      BY <1>0, <2>1, ConnectionFields DEF Types, Conns
  <2> QED BY <1>0, <1>2, <2>1, <2>2 DEF Linked
<1>7. Ids'
  <2>1. \A r \in Packet : Known(r)' => Known(r)
      BY <1>1, <1>2 DEF Known, Waiting
  <2> QED BY <1>0, <1>1, <2>1, IdsKept
<1>k. ASSUME NEW t \in Daemons, NEW x, KeptOut(t, x) PROVE KeptOut(t, x)'
    BY <1>2, <1>h, <1>k DEF KeptOut, Working
<1>8. Own'
  <2> SUFFICES ASSUME NEW d \in Hosts, d \notin stray
               PROVE  /\ pc[d] \in {"send", "wait", "exchange"} =>
                            \A t \in Daemons : \A x \in Waiting(t)' :
                               x.host = d => x.id = req[d].id \/ KeptOut(t, x)'
                      /\ \A h \in Conns(d)' : h.of = req[d].id
      BY <1>1 DEF Own
  <2>1. \A h \in Conns(d)' : h.of = req[d].id
      BY <1>0, <1>3 DEF Own
  <2>2. \A t \in Daemons : Waiting(t)' = Waiting(t)
      BY <1>1 DEF Waiting
  <2> QED BY <1>0, <1>k, <2>1, <2>2 DEF Own
<1>9. Each'
  <2> SUFFICES ASSUME stray = {} PROVE Each'
      BY <1>1 DEF Each
  <2>1. \A t \in Daemons : phase'[t] = "fence" => acted[t][job'[t].id] = 0
      BY <1>0, <1>2 DEF Each
  <2>2. \A t \in Daemons : \A x \in Waiting(t)' : acted[t][x.id] # 0 => KeptOut(t, x)'
      BY <1>0, <1>1, <1>k DEF Each, Waiting
  <2>3. ASSUME NEW t \in Daemons, NEW d \in Hosts, pc'[d] \in Trying, acted'[t][req'[d].id] # 0
        PROVE  KeptOut(t, req[d])'
    <3>1. PICK x : x = req[d]
        OBVIOUS
    <3>2. KeptOut(t, x)
        BY <1>0, <1>1, <2>3, <3>1 DEF Each
    <3>3. KeptOut(t, x)'
        BY <1>k, <3>2
    <3> QED BY <1>1, <3>1, <3>3 DEF KeptOut
  <2> QED BY <1>0, <1>1, <2>1, <2>2, <2>3 DEF Each
<1>10. Single'
  <2> SUFFICES ASSUME stray = {}, auth PROVE Single'
      BY <1>1 DEF Single
  <2>1. \A t \in Daemons : phase'[t] = "fence" => t # s /\ phase[t] = "fence" /\ job'[t] = job[t]
      BY <1>2
  <2>2. \A i : Untouched(i) => Untouched(i)'
      BY <1>1, <2>1 DEF Untouched
  <2>3. ASSUME NEW d \in Hosts, pc'[d] \in Trying PROVE Untouched(req[d].id)'
    <3>1. PICK i : i = req[d].id
        OBVIOUS
    <3>2. Untouched(i)'
        BY <1>0, <1>1, <2>2, <2>3, <3>1 DEF Single
    <3> QED BY <1>1, <3>1, <3>2 DEF Untouched
  <2>4. ASSUME NEW d \in Hosts, NEW h \in peer'[d], h.open, phase'[h.from] = "handshake"
        PROVE  Untouched(h.of)'
    <3>1. h \in peer[d] /\ h.from # s
        BY <1>3, <2>4
    <3>2. h.from \in Daemons
        BY <1>0, <3>1, ConnectionFields DEF Types
    <3> QED BY <1>0, <1>2, <2>2, <2>4, <3>1, <3>2 DEF Single
  <2>5. \A u \in Daemons : phase'[u] = "fence" => \A t \in Daemons :
          /\ acted'[t][job'[u].id] = 0
          /\ phase'[t] = "fence" /\ t # u => job'[t].id # job'[u].id
      BY <1>0, <1>1, <2>1 DEF Single
  <2>6. \A u, t \in Daemons, i \in 1 .. Calls : acted'[u][i] # 0 /\ acted'[t][i] # 0 => u = t
      BY <1>0, <1>1 DEF Single
  <2> QED BY <2>3, <2>4, <2>5, <2>6 DEF Single
<1>11. OwnAnswer'
    BY <1>0, <1>1 DEF OwnAnswer
<1> QED BY <1>4, <1>5, <1>6, <1>7, <1>8, <1>9, <1>10, <1>11 DEF IInv

\* The backend carries the request out, or fails: the copies of this request are
\* kept out from now on.
LEMMA FenceKeeps ==
    ASSUME IInv, NEW s \in Daemons, do_fence_request_tcp(s)
    PROVE  IInv'
<1>0. Types /\ Control /\ Linked /\ Ids /\ Own /\ Each /\ Single /\ OwnAnswer
    BY DEF IInv
<1>1. PICK ok \in BOOLEAN :
         /\ response' = [response EXCEPT ![s] = IF ok THEN 0 ELSE 1]
         /\ acted' = IF ok THEN [acted EXCEPT ![s][job[s].id] = @ + 1] ELSE acted
    BY DEF do_fence_request_tcp
<1>2. /\ phase[s] = "fence" /\ phase' = [phase EXCEPT ![s] = "respond"]
      /\ UNCHANGED <<inbox, hist, job, pc, req, attempts, backlog, peer, auth, calls, ended, stray>>
    BY DEF do_fence_request_tcp, clientVars, socketVars
<1>3. PICK i \in 1 .. Calls : i = job[s].id
    BY <1>0, <1>2, PacketFields DEF Control
<1>j. job[s] \in Packet /\ Known(job[s]) /\ i <= calls
    BY <1>0, <1>2, <1>3 DEF Control, Known, Ids
<1>4. /\ phase'[s] = "respond" /\ \A t \in Daemons \ {s} : phase'[t] = phase[t]
    BY <1>0, <1>2 DEF Types
<1>5. /\ acted' \in [Daemons -> [1 .. Calls -> Nat]]
      /\ acted'[s][i] = acted[s][i] \/ acted'[s][i] = acted[s][i] + 1
      /\ \A t \in Daemons, n \in 1 .. Calls : t # s \/ n # i => acted'[t][n] = acted[t][n]
  <2>1. CASE acted' = acted
      BY <1>0, <2>1 DEF Types
  <2>2. CASE acted' = [acted EXCEPT ![s][i] = @ + 1]
    <3>0. acted[s] \in [1 .. Calls -> Nat]
        BY <1>0 DEF Types
    <3>n. PICK m \in Nat : m = acted[s][i]
        BY <3>0
    <3>1. acted[s] \in [1 .. Calls -> Nat] /\ acted[s][i] + 1 \in Nat
        BY <3>0, <3>n
    <3>2. /\ acted'[s] = [acted[s] EXCEPT ![i] = acted[s][i] + 1]
          /\ \A t \in Daemons \ {s} : acted'[t] = acted[t]
        BY <1>0, <2>2 DEF Types
    <3>3. acted'[s] \in [1 .. Calls -> Nat]
        BY <3>1, <3>2
    <3>4. acted' \in [Daemons -> [1 .. Calls -> Nat]]
        BY <1>0, <2>2, <3>1 DEF Types
    <3>5. acted'[s][i] = acted[s][i] + 1 /\ \A n \in 1 .. Calls \ {i} : acted'[s][n] = acted[s][n]
        BY <3>1, <3>2
    <3> QED BY <3>2, <3>4, <3>5
  <2> QED BY <1>1, <1>3, <2>1, <2>2
<1>6. Types'
  <2>1. response' \in [Daemons -> {0, 1}]
      BY <1>0, <1>1 DEF Types
  <2> QED BY <1>0, <1>2, <1>5, <2>1 DEF Types
<1>7. Control'
  <2>1. Asked'
      BY <1>0, <1>2, <1>4 DEF Control, Asked
  <2> QED BY <1>0, <1>2, <1>4, <2>1 DEF Control
<1>8. Linked'
  <2> SUFFICES ASSUME NEW d \in Hosts, NEW h \in Conns(d), h.open
               PROVE  /\ phase'[h.from] # "read" /\ job[h.from].host = d
                      /\ job[h.from].id = h.of
      BY <1>2 DEF Linked, Conns
  <2>1. h.from \in Daemons
      BY <1>0, ConnectionFields DEF Types, Conns
  <2> QED BY <1>0, <1>4, <2>1 DEF Linked
<1>9. Ids'
  <2>1. \A r \in Packet : Known(r)' => Known(r)
      BY <1>2, <1>4 DEF Known, Waiting
  <2>2. \A t \in Daemons, n \in 1 .. Calls : acted'[t][n] # 0 => acted[t][n] # 0 \/ n <= calls
      BY <1>5, <1>j
  <2> QED BY <1>0, <1>2, <2>1, <2>2, IdsKept
<1>k. \A t \in Daemons : \A x : KeptOut(t, x) => KeptOut(t, x)'
    BY <1>2, <1>4 DEF KeptOut, Working
<1>n. ASSUME NEW x \in Packet, Known(x), x.id = i PROVE KeptOut(s, x)'
  <2>1. x = job[s]
      BY <1>0, <1>3, <1>j, <1>n DEF Ids
  <2> QED BY <1>2, <1>4, <2>1 DEF KeptOut, Working
<1>10. Own'
  <2>1. \A t \in Daemons : Waiting(t)' = Waiting(t)
      BY <1>2 DEF Waiting
  <2> QED BY <1>0, <1>2, <1>k, <2>1 DEF Own, Conns
<1>11. Each'
  <2> SUFFICES ASSUME stray = {} PROVE Each'
      BY <1>2 DEF Each
  <2>0. acted[s][i] = 0
      BY <1>0, <1>2, <1>3 DEF Each
  <2>1. \A t \in Daemons : \A n \in 1 .. Calls : acted'[t][n] <= 1
      BY <1>0, <1>5, <2>0 DEF Each
  <2>2. ASSUME NEW t \in Daemons, phase'[t] = "fence" PROVE acted'[t][job[t].id] = 0
    <3>1. t # s /\ phase[t] = "fence"
        BY <1>4, <2>2
    <3>2. job[t].id \in 1 .. Calls
        BY <1>0, <3>1, PacketFields DEF Control
    <3> QED BY <1>0, <1>5, <3>1, <3>2 DEF Each
  <2>3. ASSUME NEW t \in Daemons, NEW x \in Packet, Known(x), acted'[t][x.id] # 0,
               acted[t][x.id] # 0 => KeptOut(t, x)
        PROVE  KeptOut(t, x)'
    <3>1. x.id \in 1 .. Calls
        BY PacketFields
    <3>2. CASE t = s /\ x.id = i
        BY <1>n, <2>3, <3>2
    <3>3. CASE t # s \/ x.id # i
        BY <1>5, <1>k, <2>3, <3>1, <3>3
    <3> QED BY <3>2, <3>3
  <2>4. ASSUME NEW t \in Daemons, NEW x \in Waiting(t)', acted'[t][x.id] # 0 PROVE KeptOut(t, x)'
    <3>1. x \in Waiting(t)
        BY <1>2 DEF Waiting
    <3>2. x \in Packet /\ Known(x) /\ (acted[t][x.id] # 0 => KeptOut(t, x))
        BY <1>0, <3>1, WaitingPackets DEF Known, Each
    <3> QED BY <2>3, <2>4, <3>2
  <2>5. ASSUME NEW t \in Daemons, NEW d \in Hosts, pc'[d] \in Trying, acted'[t][req'[d].id] # 0
        PROVE  KeptOut(t, req[d])'
    <3>1. PICK x : x = req[d]
        OBVIOUS
    <3>2. x \in Packet /\ Known(x) /\ (acted[t][x.id] # 0 => KeptOut(t, x)) /\ acted'[t][x.id] # 0
        BY <1>0, <1>2, <2>5, <3>1 DEF Control, Known, Each, Trying
    <3>3. KeptOut(t, x)'
        BY <2>3, <3>2
    <3> QED BY <1>2, <3>1, <3>3 DEF KeptOut
  <2> QED BY <1>2, <2>1, <2>2, <2>4, <2>5 DEF Each
<1>12. Single'
  <2> SUFFICES ASSUME stray = {}, auth PROVE Single'
      BY <1>2 DEF Single
  <2>0. \A t \in Daemons : acted[t][i] = 0 /\ (phase[t] = "fence" /\ t # s => job[t].id # i)
      BY <1>0, <1>2, <1>3 DEF Single
  <2>1. ASSUME NEW n \in 1 .. Calls, Untouched(n) PROVE Untouched(n)'
    <3>1. n # i
        BY <1>2, <1>3, <2>1 DEF Untouched
    <3> QED BY <1>2, <1>4, <1>5, <2>1, <3>1 DEF Untouched
  <2>2. ASSUME NEW d \in Hosts, pc'[d] \in Trying PROVE Untouched(req[d].id)'
    <3>1. req[d] \in Packet /\ Untouched(req[d].id)
        BY <1>0, <1>2, <2>2 DEF Control, Single, Trying
    <3>2. PICK n \in 1 .. Calls : n = req[d].id
        BY <3>1, PacketFields
    <3>3. Untouched(n)'
        BY <2>1, <3>1, <3>2
    <3> QED BY <1>2, <3>2, <3>3 DEF Untouched
  <2>3. ASSUME NEW d \in Hosts, NEW h \in peer'[d], h.open, phase'[h.from] = "handshake"
        PROVE  Untouched(h.of)'
    <3>1. h \in peer[d] /\ h \in Connection
        BY <1>0, <1>2, <2>3 DEF Types
    <3>2. h.from \in Daemons /\ h.of \in 1 .. Calls
        BY <3>1, ConnectionFields
    <3>3. phase[h.from] = "handshake"
        BY <1>4, <2>3, <3>2
    <3>4. Untouched(h.of)
        BY <1>0, <2>3, <3>1, <3>3 DEF Single
    <3> QED BY <2>1, <3>2, <3>4
  <2>4. ASSUME NEW u \in Daemons, phase'[u] = "fence", NEW t \in Daemons
        PROVE  /\ acted'[t][job'[u].id] = 0
               /\ phase'[t] = "fence" /\ t # u => job'[t].id # job'[u].id
    <3>1. u # s /\ phase[u] = "fence" /\ job[u].id # i
        BY <1>4, <2>0, <2>4
    <3>2. job[u].id \in 1 .. Calls
        BY <1>0, <3>1, PacketFields DEF Control
    <3>0. acted[t][job[u].id] = 0
        BY <1>0, <3>1 DEF Single
    <3>3. acted'[t][job[u].id] = 0
        BY <1>5, <3>0, <3>1, <3>2
    <3>4. phase'[t] = "fence" => phase[t] = "fence"
        BY <1>4
    <3> QED BY <1>0, <1>2, <3>1, <3>3, <3>4 DEF Single
  <2>5. ASSUME NEW u \in Daemons, NEW t \in Daemons, NEW n \in 1 .. Calls,
               acted'[u][n] # 0, acted'[t][n] # 0
        PROVE  u = t
    <3>1. CASE n = i
        BY <1>5, <2>0, <2>5, <3>1
    <3>2. CASE n # i
        BY <1>0, <1>5, <2>5, <3>2 DEF Single
    <3> QED BY <3>1, <3>2
  <2> QED BY <2>2, <2>3, <2>4, <2>5 DEF Single
<1>13. OwnAnswer'
    BY <1>0, <1>2 DEF OwnAnswer
<1> QED BY <1>6, <1>7, <1>8, <1>9, <1>10, <1>11, <1>12, <1>13 DEF IInv

\* history_check: the hosts whose packets the purged entry kept out are stray.
LEMMA PurgeKeeps ==
    ASSUME IInv, NEW s \in Daemons, history_check(s)
    PROVE  IInv'
<1>0. Types /\ Control /\ Linked /\ Ids /\ Own /\ Each /\ Single /\ OwnAnswer
    BY DEF IInv
<1>1. PICK e \in hist[s] :
        /\ hist' = [hist EXCEPT ![s] = @ \ {e}]
        /\ stray' = stray \cup {c \in Hosts :
                        \/ \E k \in 1 .. Len(inbox[s]) :
                              inbox[s][k].host = c /\ Entry(inbox[s][k]) = e
                        \/ /\ ~auth /\ pc[c] \in {"listen", "send", "wait"}
                           /\ Entry(req[c]) = e}
        /\ UNCHANGED <<inbox, job, phase, response, pc, req, attempts, backlog, peer, auth, calls,
                       ended, acted>>
    BY DEF history_check, clientVars, socketVars
<1>2. /\ hist'[s] = hist[s] \ {e} /\ \A t \in Daemons \ {s} : hist'[t] = hist[t]
      /\ stray \subseteq stray' /\ stray' \subseteq Hosts
      /\ \A c \in Hosts \ stray' : \A x \in Waiting(s) : x.host = c => Entry(x) # e
      /\ \A c \in Hosts \ stray' : ~auth /\ pc[c] \in Trying => Entry(req[c]) # e
    BY <1>0, <1>1 DEF Types, Waiting, Trying
<1>3. Types'
    BY <1>0, <1>1, <1>2 DEF Types
<1>4. Control' /\ Linked'
  <2>1. Asked'
      BY <1>0, <1>1 DEF Control, Asked
  <2> QED BY <1>0, <1>1, <2>1 DEF Control, Linked, Conns
<1>5. Ids'
  <2>1. \A r \in Packet : Known(r)' => Known(r)
      BY <1>1 DEF Known, Waiting
  <2> QED BY <1>0, <1>1, <2>1, IdsKept
<1>k. ASSUME NEW t \in Daemons, NEW x, KeptOut(t, x), t = s => Entry(x) # e PROVE KeptOut(t, x)'
    BY <1>1, <1>2, <1>k DEF KeptOut
<1>6. Own'
  <2> SUFFICES ASSUME NEW d \in Hosts, d \notin stray'
               PROVE  /\ pc[d] \in {"send", "wait", "exchange"} =>
                            \A t \in Daemons : \A x \in Waiting(t) :
                               x.host = d => x.id = req[d].id \/ KeptOut(t, x)'
                      /\ \A h \in Conns(d) : h.of = req[d].id
      BY <1>1 DEF Own, Waiting, Conns
  <2> QED BY <1>0, <1>2, <1>k DEF Own
<1>7. Each'
  <2> SUFFICES ASSUME stray' = {} PROVE Each'
      BY DEF Each
  <2>0. stray = {}
      BY <1>2
  <2>1. ASSUME NEW t \in Daemons, NEW x \in Waiting(t)', acted'[t][x.id] # 0 PROVE KeptOut(t, x)'
    <3>1. x \in Waiting(t) /\ x \in Packet /\ acted[t][x.id] # 0
        BY <1>0, <1>1, <2>1, WaitingPackets DEF Waiting
    <3>2. x.host \in Hosts \ stray'
        BY <3>1, PacketFields
    <3>3. t = s => Entry(x) # e
        BY <1>2, <3>1, <3>2
    <3> QED BY <1>0, <1>k, <2>0, <3>1, <3>3 DEF Each
  <2>2. ASSUME NEW t \in Daemons, NEW d \in Hosts, pc'[d] \in Trying, acted'[t][req'[d].id] # 0
        PROVE  KeptOut(t, req[d])'
    <3>1. PICK x : x = req[d]
        OBVIOUS
    <3>2. KeptOut(t, x) /\ pc[d] \in Trying /\ acted[t][req[d].id] # 0
        BY <1>0, <1>1, <2>0, <2>2, <3>1 DEF Each
    <3>3. ~auth
        BY <1>0, <2>0, <3>2 DEF Single, Untouched
    <3>4. t = s => Entry(x) # e
        BY <1>2, <3>1, <3>2, <3>3
    <3>5. KeptOut(t, x)'
        BY <1>k, <3>2, <3>4
    <3> QED BY <1>1, <3>1, <3>5 DEF KeptOut
  <2> QED BY <1>0, <1>1, <2>0, <2>1, <2>2 DEF Each
<1>8. Single'
    BY <1>0, <1>1, <1>2 DEF Single, Untouched
<1>9. OwnAnswer'
    BY <1>0, <1>1, <1>2 DEF OwnAnswer
<1> QED BY <1>3, <1>4, <1>5, <1>6, <1>7, <1>8, <1>9 DEF IInv

----------------------------------------------------------------------------
(* The theorems.                                                           *)

LEMMA InitIInv == Init => IInv
<1> SUFFICES ASSUME Init PROVE IInv
    OBVIOUS
<1>1. Types
  <2>1. auth \in BOOLEAN
      BY DEF Init
  <2> QED BY <2>1, McastAssumption, EmptySeq DEF Init, Types
<1>2. Control /\ Linked /\ OwnAnswer
  <2>1. Asked
      BY DEF Init, Asked
  <2> QED BY <2>1 DEF Init, Control, Linked, Conns, OwnAnswer
<1>3. \A s \in Daemons : Waiting(s) = {}
  <2>1. Len(<<>>) = 0 /\ 1 .. 0 = {}
      BY EmptySeq
  <2> QED BY <2>1 DEF Init, Waiting
<1>4. Ids
    BY <1>3 DEF Init, Ids, Known
<1>5. Own /\ Each
    BY <1>3 DEF Init, Own, Each, Trying, Conns
<1>6. Single
    BY DEF Init, Single, Trying
<1> QED BY <1>1, <1>2, <1>4, <1>5, <1>6 DEF IInv

LEMMA NextIInv == IInv /\ [Next]_vars => IInv'
<1> SUFFICES ASSUME IInv, [Next]_vars PROVE IInv'
    OBVIOUS
<1>0. Types /\ Control
    BY DEF IInv
<1>1. ASSUME NEW c \in Hosts, mcast_fence_virt(c) \/ Client(c) PROVE IInv'
    BY <1>1, CallKeeps, ClientStep
<1>2. ASSUME NEW s \in Daemons, connect_tcp_fails(s) PROVE IInv'
  <2>1. /\ phase[s] = "handshake" /\ Close(s, {}) /\ hist' = hist
        /\ response' \in [Daemons -> {0, 1}]
      BY <1>0, <1>2 DEF connect_tcp_fails, Types
  <2> QED BY <2>1, CloseKeeps
<1>3. ASSUME NEW s \in Daemons, respond(s) PROVE IInv'
  <2>1. /\ phase[s] = "respond" /\ Close(s, {response[s]}) /\ history_record(s)
        /\ response' \in [Daemons -> {0, 1}]
      BY <1>0, <1>3 DEF respond, Types
  <2>2. {response[s]} \in SUBSET {0, 1}
      BY <1>0 DEF Types
  <2> QED BY <2>1, <2>2, CloseKeeps
<1>4. ASSUME NEW s \in Daemons, Daemon(s) PROVE IInv'
    BY <1>2, <1>3, <1>4, DropKeeps, ConnectKeeps, HandshakeKeeps, FenceKeeps DEF Daemon
<1>5. ASSUME NEW s \in Daemons, history_check(s) PROVE IInv'
    BY <1>5, PurgeKeeps
<1>6. CASE UNCHANGED vars
  <2>1. UNCHANGED <<inbox, hist, job, phase, response, pc, req, attempts, backlog, peer, auth,
                    calls, ended, acted, stray>>
      BY <1>6 DEF vars, daemonVars, clientVars, socketVars
  <2>2. Types' /\ OwnAnswer'
      BY <2>1 DEF IInv, Types, OwnAnswer
  <2>3. Control' /\ Linked'
      BY <2>1 DEF IInv, Control, Asked, Linked, Conns
  <2>4. Ids'
      BY <2>1 DEF IInv, Ids, Known, Waiting
  <2>5. Own'
      BY <2>1 DEF IInv, Own, KeptOut, Waiting, Conns
  <2>6. Each'
      BY <2>1 DEF IInv, Each, KeptOut, Waiting
  <2>7. Single'
      BY <2>1 DEF IInv, Single, Untouched
  <2> QED BY <2>2, <2>3, <2>4, <2>5, <2>6, <2>7 DEF IInv
<1> QED BY <1>1, <1>4, <1>5, <1>6 DEF Next

\* The answer that a client takes is one for its own call, unless copies of an
\* earlier call of its host are around that the history does not keep out.
THEOREM OwnAnswerCorrect == Spec => []OwnAnswer
<1>1. IInv => OwnAnswer
    BY DEF IInv
<1> QED BY <1>1, InitIInv, NextIInv, PTL DEF Spec

\* No daemon carries out a call twice while the histories keep out the copies of
\* earlier calls, and with authentication no two daemons carry out the same call.
THEOREM ActsOnceCorrect == Spec => []ActsOnce
<1>1. IInv => ActsOnce
  <2> SUFFICES ASSUME IInv, stray = {}, NEW s \in Daemons, NEW i \in 1 .. Calls
               PROVE  /\ acted[s][i] <= 1
                      /\ auth /\ acted[s][i] # 0 => \A t \in Daemons \ {s} : acted[t][i] = 0
      BY DEF ActsOnce
  <2>1. acted[s][i] <= 1
      BY DEF IInv, Each
  <2>2. auth /\ acted[s][i] # 0 => \A t \in Daemons \ {s} : acted[t][i] = 0
      BY DEF IInv, Single
  <2> QED BY <2>1, <2>2
<1> QED BY <1>1, InitIInv, NextIInv, PTL DEF Spec

\* With Attempts > 0 no counter of attempts passes 0.
LEMMA CountedStep ==
    ASSUME Attempts # 0, IInv, Counted, [Next]_vars
    PROVE  Counted'
<1> DEFINE Jobs == \A s \in Daemons : phase'[s] = "read" => job'[s] = <<>>
           Left == \A c \in Hosts :
                      attempts'[c] \in 0 .. Attempts /\ (pc'[c] \in Trying => attempts'[c] > 0)
<1>0. /\ Types /\ Attempts \in Nat \ {0}
      /\ \A s \in Daemons : phase[s] = "read" => job[s] = <<>>
      /\ \A c \in Hosts :
            attempts[c] \in 0 .. Attempts /\ (pc[c] \in Trying => attempts[c] > 0)
    BY McastAssumption DEF IInv, Counted
<1>s. SUFFICES Jobs /\ Left
    BY DEF Counted
<1>1. ASSUME UNCHANGED <<phase, job>> PROVE Jobs
    BY <1>0, <1>1
<1>2. ASSUME UNCHANGED attempts,
             \A c \in Hosts : pc'[c] \in Trying => pc[c] \in Trying
      PROVE  Left
    BY <1>0, <1>2
<1>3. ASSUME NEW c \in Hosts, NEW p \in Trying, GoesOn(c, p), pc[c] \in Trying, Spent(c) # 0
      PROVE  Left
  <2>1. /\ attempts' = [attempts EXCEPT ![c] = attempts[c] - 1] /\ pc' = [pc EXCEPT ![c] = p]
        /\ attempts[c] - 1 # 0
      BY <1>3 DEF GoesOn, Goes, Spent
  <2>2. /\ attempts'[c] = attempts[c] - 1 /\ \A d \in Hosts \ {c} : attempts'[d] = attempts[d]
        /\ \A d \in Hosts \ {c} : pc'[d] = pc[d]
      BY <1>0, <2>1 DEF Types
  <2>3. attempts'[c] \in 0 .. Attempts /\ attempts'[c] > 0
      BY <1>0, <1>3, <2>1, <2>2
  <2> QED BY <1>0, <2>2, <2>3
<1>r. ASSUME NEW c \in Hosts, NEW code, NEW of, Return(c, code, of) PROVE Left
  <2>1. attempts' = [attempts EXCEPT ![c] = 0] /\ pc' = [pc EXCEPT ![c] = "idle"]
      BY <1>r DEF Return
  <2>2. /\ attempts'[c] = 0 /\ \A d \in Hosts \ {c} : attempts'[d] = attempts[d]
        /\ pc'[c] \notin Trying /\ \A d \in Hosts \ {c} : pc'[d] = pc[d]
      BY <1>0, <2>1 DEF Types, Trying
  <2> QED BY <1>0, <2>2
<1>4. ASSUME NEW c \in Hosts, mcast_fence_virt(c) PROVE Jobs /\ Left
  <2>1. /\ attempts' = [attempts EXCEPT ![c] = Attempts] /\ pc' = [pc EXCEPT ![c] = "listen"]
        /\ UNCHANGED <<phase, job>>
      BY <1>4 DEF mcast_fence_virt, daemonVars
  <2>2. /\ attempts'[c] = Attempts /\ \A d \in Hosts \ {c} : attempts'[d] = attempts[d]
        /\ \A d \in Hosts \ {c} : pc'[d] = pc[d]
      BY <1>0, <2>1 DEF Types
  <2>3. Left
      BY <1>0, <2>2
  <2> QED BY <1>1, <2>1, <2>3
<1>5. ASSUME NEW c \in Hosts, listen_loop(c) PROVE Jobs /\ Left
  <2>0. /\ UNCHANGED <<phase, job>> /\ pc[c] = "listen" /\ pc[c] \in Trying
        /\ "listen" \in Trying
      BY <1>5 DEF listen_loop, daemonVars, Trying
  <2>1. CASE Goes(c, "send") /\ UNCHANGED attempts
    <3>1. \A d \in Hosts : pc'[d] \in Trying => pc[d] \in Trying
        BY <1>0, <2>0, <2>1 DEF Types, Goes
    <3> QED BY <1>1, <1>2, <2>0, <2>1, <3>1
  <2>2. CASE Spent(c) > 0 /\ GoesOn(c, "listen")
    <3>1. Spent(c) # 0
        BY <2>2
    <3> QED BY <1>1, <1>3, <2>0, <2>2, <3>1
  <2>3. CASE Return(c, 1, 0)
      BY <1>1, <1>r, <2>0, <2>3
  <2> QED BY <1>5, <2>1, <2>2, <2>3 DEF listen_loop
<1>6. ASSUME NEW c \in Hosts, send_multicast_packets(c) PROVE Jobs /\ Left
  <2>1. /\ pc[c] = "send" /\ pc' = [pc EXCEPT ![c] = "wait"]
        /\ UNCHANGED <<phase, job, attempts>>
      BY <1>6 DEF send_multicast_packets, Goes
  <2>2. \A d \in Hosts : pc'[d] \in Trying => pc[d] \in Trying
      BY <1>0, <2>1 DEF Types, Trying
  <2> QED BY <1>1, <1>2, <2>1, <2>2
<1>7. ASSUME NEW c \in Hosts, tcp_wait_connect_fails(c) PROVE Jobs /\ Left
  <2>0. UNCHANGED <<phase, job>> /\ pc[c] \in Trying /\ "send" \in Trying
      BY <1>7 DEF tcp_wait_connect_fails, daemonVars, Trying
  <2>1. CASE Spent(c) # 0 /\ GoesOn(c, "send")
      BY <1>1, <1>3, <2>0, <2>1
  <2>2. CASE Return(c, 1, 0)
      BY <1>1, <1>r, <2>0, <2>2
  <2> QED BY <1>7, <2>1, <2>2 DEF tcp_wait_connect_fails
<1>8. ASSUME NEW c \in Hosts, tcp_wait_connect(c) PROVE Jobs /\ Left
  <2>1. pc' = [pc EXCEPT ![c] = "exchange"] /\ UNCHANGED <<phase, job, attempts>>
      BY <1>8 DEF tcp_wait_connect, daemonVars
  <2>2. \A d \in Hosts : pc'[d] \in Trying => pc[d] \in Trying
      BY <1>0, <2>1 DEF Types, Trying
  <2> QED BY <1>1, <1>2, <2>1, <2>2
<1>9. ASSUME NEW c \in Hosts, tcp_exchange(c) \/ tcp_exchange_fails(c) PROVE Jobs /\ Left
  <2>1. UNCHANGED <<phase, job>>
      BY <1>9 DEF tcp_exchange, tcp_exchange_fails, daemonVars
  <2>2. \E code, of : Return(c, code, of)
      BY <1>9 DEF tcp_exchange, tcp_exchange_fails
  <2> QED BY <1>1, <1>r, <2>1, <2>2
<1>10. ASSUME NEW s \in Daemons,
             \/ mcast_dispatch_drop(s) \/ connect_tcp_refused(s) \/ history_check(s)
      PROVE  Jobs /\ Left
  <2>1. UNCHANGED <<phase, job, pc, attempts>>
      BY <1>10 DEF mcast_dispatch_drop, connect_tcp_refused, history_check, clientVars
  <2> QED BY <1>1, <1>2, <2>1
<1>11. ASSUME NEW s \in Daemons, connect_tcp(s) PROVE Jobs /\ Left
  <2>1. PICK r : /\ job' = [job EXCEPT ![s] = r] /\ UNCHANGED <<pc, attempts>>
                 /\ phase' = [phase EXCEPT ![s] = NextPhase]
      BY <1>11 DEF connect_tcp
  <2>2. Jobs
      BY <1>0, <2>1 DEF Types, NextPhase
  <2> QED BY <1>2, <2>1, <2>2
<1>12. ASSUME NEW s \in Daemons, sock_response(s) \/ do_fence_request_tcp(s) PROVE Jobs /\ Left
  <2>1. /\ UNCHANGED <<job, pc, attempts>>
        /\ phase' = [phase EXCEPT ![s] = "respond"] \/ phase' = [phase EXCEPT ![s] = "fence"]
      BY <1>12 DEF sock_response, do_fence_request_tcp, clientVars
  <2>2. Jobs
      BY <1>0, <2>1 DEF Types
  <2> QED BY <1>2, <2>1, <2>2
<1>13. ASSUME NEW s \in Daemons, connect_tcp_fails(s) \/ respond(s) PROVE Jobs /\ Left
  <2>1. /\ phase' = [phase EXCEPT ![s] = "read"] /\ job' = [job EXCEPT ![s] = <<>>]
        /\ UNCHANGED <<pc, attempts>>
      BY <1>13 DEF connect_tcp_fails, respond, Close
  <2>2. Jobs
      BY <1>0, <2>1 DEF Types
  <2> QED BY <1>2, <2>1, <2>2
<1>14. CASE UNCHANGED vars
  <2>1. UNCHANGED <<phase, job, pc, attempts>>
      BY <1>14 DEF vars, daemonVars, clientVars
  <2> QED BY <1>1, <1>2, <2>1
<1>15. ASSUME NEW c \in Hosts, Client(c) PROVE Jobs /\ Left
    BY <1>5, <1>6, <1>7, <1>8, <1>9, <1>15 DEF Client
<1>16. ASSUME NEW s \in Daemons, Daemon(s) PROVE Jobs /\ Left
    BY <1>10, <1>11, <1>12, <1>13, <1>16 DEF Daemon
<1> QED BY <1>4, <1>10, <1>14, <1>15, <1>16 DEF Next

\* The sockets, histories, connections and counters stay well typed when a
\* client has at least one attempt; with Attempts = 0 the counter is negative.
THEOREM TypeCorrect ==
    ASSUME Attempts # 0
    PROVE  Spec => []TypeOK
<1>1. Init => Counted
    BY McastAssumption DEF Init, Counted, Trying
<1>2. IInv /\ Counted => TypeOK
  <2> SUFFICES ASSUME IInv, Counted PROVE TypeOK
      OBVIOUS
  <2>0. Types /\ Control
      BY DEF IInv
  <2>1. ASSUME NEW s \in Daemons
        PROVE  hist[s] \subseteq [op : Ops, seqno : Seqnos] /\ (phase[s] = "read" <=> job[s] = <<>>)
      BY <2>0, PacketNotEmpty DEF Types, Control, Counted
  <2>2. ASSUME NEW c \in Hosts
        PROVE  /\ backlog[c] \subseteq Connection /\ peer[c] \subseteq Connection
               /\ backlog[c] # {} => pc[c] \in {"send", "wait"}
               /\ pc[c] = "exchange" <=> peer[c] # {}
      BY <2>0 DEF Types, Control
  <2>3. attempts \in [Hosts -> 0 .. Attempts]
      BY <2>0 DEF Types, Counted
  <2> QED BY <2>0, <2>1, <2>2, <2>3 DEF TypeOK, Types
<1>3. IInv /\ Counted /\ [Next]_vars => IInv' /\ Counted'
    BY NextIInv, CountedStep
<1> QED BY <1>1, <1>2, <1>3, InitIInv, PTL DEF Spec
=============================================================================
