--------------------------- MODULE CpgVirtProofs ---------------------------
(***************************************************************************)
(* Proofs about CpgVirt for any hosts, machines, requests, crashes,        *)
(* migrations and lost messages.                                           *)
(***************************************************************************)
EXTENDS CpgVirt, SequenceTheorems, FiniteSetTheorems, WellFoundedInduction, TLAPS

Entries == [seqno : Nat, replied : BOOLEAN, code : Codes \cup {"none"}, rid : Rids \cup {0}]
Listeners == [state : {"idle", "sent", "waiting", "woken"}, rid : Rids \cup {0}, seqno : Nat]

Requests == [type : {"req"}, from : Nodes, seqno : Nat, vm : VMs, op : Ops, rid : Rids]
Answers  == [type : {"reply"}, to : Nodes, seqno : Nat, code : Codes, rid : Rids]
Stores   == [type : {"store"}, owner : Nodes, vms : SUBSET VMs]
Confs    == [type : {"conf"}, members : SUBSET Nodes, left : SUBSET Nodes, joined : SUBSET Nodes]

\* What TypeOK says, with the sequences and the requests asked as well.
Types ==
    /\ phase \in [Nodes -> Phases] /\ member = {n \in Nodes : phase[n] # "down"}
    /\ inbox \in [Nodes -> Seq(Messages)]
    /\ high \in [Nodes -> Nodes \cup {None}]
    /\ local \in [Nodes -> SUBSET VMs]
    /\ remote \in [Nodes -> [VMs -> Nodes \cup {None}]]
    /\ seqnum \in [Nodes -> Nat]
    /\ pending \in [Nodes -> SUBSET Entries]
    /\ listener \in [Nodes -> Listeners]
    /\ host \in [VMs -> Nodes \cup {None}] /\ running \subseteq VMs
    /\ asked \in Seq([from : Nodes, vm : VMs, op : Ops])
    /\ replies \in [Rids -> SUBSET Nodes] /\ wrongOff \subseteq Rids
    /\ starts \in Nat

\* The messages that wait at node n.
Waiting(n) == {inbox[n][i] : i \in 1 .. Len(inbox[n])}

\* Something in the system ties number s of node f to request r: the request on
\* its way, a reply to it, the reply on file, or the thread that waits for it.
Tied(f, s, r) ==
    \/ \E n \in Nodes : \E m \in Waiting(n) :
          m.type = "req" /\ m.from = f /\ m.seqno = s /\ m.rid = r
    \/ \E n \in Nodes : \E m \in Waiting(n) :
          m.type = "reply" /\ m.to = f /\ m.seqno = s /\ m.rid = r
    \/ \E e \in pending[f] : e.replied /\ e.seqno = s /\ e.rid = r
    \/ listener[f].state # "idle" /\ listener[f].seqno = s /\ listener[f].rid = r

\* No two requests have the same number at the same node, and a daemon that is
\* up has counted past all of them.
Numbered ==
    \A f \in Nodes, s \in Nat, r \in Rids : Tied(f, s, r) =>
        /\ phase[f] # "down" => s <= seqnum[f]
        /\ \A q \in Rids : Tied(f, s, q) => q = r

\* A listener that is not idle has a request.
Asking == \A n \in Nodes : listener[n].state # "idle" => listener[n].rid \in Rids
Filed == \A n \in Nodes : \A e \in pending[n] : e.replied => e.rid \in Rids

IInv ==
    /\ Types /\ Asking /\ Filed
    /\ starts = 0 => Numbered /\ AnswersOwnRequest

----------------------------------------------------------------------------
(* The node of the highest id.                                             *)

\* A finite set of numbers that is not empty has a largest one.  A smallest
\* counterexample would have one when an element is taken from it.
LEMMA HasLargest ==
    ASSUME NEW S, S \subseteq Nat, IsFiniteSet(S), S # {}
    PROVE  \E h \in S : \A m \in S : m <= h
<1> DEFINE Largest(T) == \E h \in T : \A m \in T : m <= h
           Bad == {T \in FiniteSubsetsOf(S) : T # {} /\ ~Largest(T)}
<1>1. SUFFICES ASSUME Bad # {} PROVE FALSE
  <2>1. S \in FiniteSubsetsOf(S)
      BY DEF FiniteSubsetsOf
  <2> QED BY <1>1, <2>1
<1>2. IsWellFoundedOn(StrictSubsetOrdering(S), FiniteSubsetsOf(S))
    BY FS_StrictSubsetOrderingWellFounded
<1>3. PICK T \in Bad : \A U \in Bad : ~(<<U, T>> \in StrictSubsetOrdering(S))
  <2>1. Bad \subseteq FiniteSubsetsOf(S)
      OBVIOUS
  <2> HIDE DEF Bad
  <2> QED BY <1>1, <1>2, <2>1, WFMin
<1>4. T \subseteq S /\ IsFiniteSet(T) /\ T # {} /\ ~Largest(T)
    BY <1>3 DEF FiniteSubsetsOf
<1>5. PICK x \in T : TRUE
    BY <1>4
<1> DEFINE U == T \ {x}
<1>6. U \in FiniteSubsetsOf(S) /\ <<U, T>> \in StrictSubsetOrdering(S)
  <2>1. IsFiniteSet(U) /\ U \subseteq S
      BY <1>4, FS_Subset
  <2>2. U \subseteq T /\ U # T
      BY <1>5
  <2> QED BY <1>4, <2>1, <2>2 DEF FiniteSubsetsOf, StrictSubsetOrdering
<1>7. U = {} \/ Largest(U)
    BY <1>3, <1>6
<1>8. CASE U = {}
  <2>1. \A m \in T : m = x
      BY <1>8
  <2>2. x <= x
      BY <1>4
  <2> QED BY <1>4, <2>1, <2>2
<1>9. CASE Largest(U)
  <2>1. PICK h \in U : \A m \in U : m <= h
      BY <1>9
  <2>2. x \in Nat /\ h \in Nat /\ \A m \in T : m \in Nat /\ (m \in U \/ m = x)
      BY <1>4
  <2>3. CASE x <= h
      BY <1>4, <2>1, <2>2, <2>3
  <2>4. CASE h <= x
      BY <1>4, <2>1, <2>2, <2>4
  <2> QED BY <2>2, <2>3, <2>4
<1> QED BY <1>7, <1>8, <1>9

LEMMA HighIdType ==
    ASSUME NEW n \in Nodes, NEW members \in SUBSET Nodes
    PROVE  HighId(n, members) \in Nodes
<1>1. members \cup {n} \subseteq Nat /\ members \cup {n} \subseteq Nodes /\ members \cup {n} # {}
    BY CpgVirtAssumption
<1>2. IsFiniteSet(members \cup {n})
    BY <1>1, CpgVirtAssumption, FS_Subset
<1>3. \E h \in members \cup {n} : \A m \in members \cup {n} : m <= h
    BY <1>1, <1>2, HasLargest
<1> QED BY <1>1, <1>3 DEF HighId

----------------------------------------------------------------------------
(* Messages and the queues of the nodes.                                   *)

LEMMA MessageKinds ==
    /\ Messages = Requests \cup Answers \cup Stores \cup Confs
    /\ \A m \in Messages :
          /\ m.type \in {"req", "reply", "store", "conf"}
          /\ m.type = "req" => m \in Requests
          /\ m.type = "reply" => m \in Answers
          /\ m.type = "store" => m \in Stores
          /\ m.type = "conf" => m \in Confs
<1>1. Messages = Requests \cup Answers \cup Stores \cup Confs
    BY DEF Messages, Requests, Answers, Stores, Confs
<1>2. /\ \A m \in Requests : m.type = "req"
      /\ \A m \in Answers : m.type = "reply"
      /\ \A m \in Stores : m.type = "store"
      /\ \A m \in Confs : m.type = "conf"
    BY DEF Requests, Answers, Stores, Confs
<1> QED BY <1>1, <1>2

\* The elements of a sequence.
Elements(q) == {q[i] : i \in 1 .. Len(q)}

LEMMA ConcatElements ==
    ASSUME NEW S, NEW q \in Seq(S), NEW w \in Seq(S)
    PROVE  q \o w \in Seq(S) /\ Elements(q \o w) \subseteq Elements(q) \cup Elements(w)
<1>1. /\ q \o w \in Seq(S) /\ Len(q \o w) = Len(q) + Len(w)
      /\ \A i \in 1 .. Len(q) + Len(w) : (q \o w)[i] =
                     IF i <= Len(q) THEN q[i] ELSE w[i - Len(q)]
    BY ConcatProperties
<1>2. Len(q) \in Nat /\ Len(w) \in Nat
    BY LenProperties
<1>3. \A i \in 1 .. Len(q) + Len(w) :
         i \in 1 .. Len(q) \/ (~(i <= Len(q)) /\ i - Len(q) \in 1 .. Len(w))
    BY <1>2
<1> QED BY <1>1, <1>2, <1>3 DEF Elements

LEMMA OneElement ==
    ASSUME NEW S, NEW e \in S
    PROVE  <<e>> \in Seq(S) /\ Elements(<<e>>) = {e}
<1>1. <<e>> \in Seq(S) /\ Len(<<e>>) = 1 /\ <<e>>[1] = e
    OBVIOUS
<1>2. 1 .. 1 = {1}
    OBVIOUS
<1> QED BY <1>1, <1>2 DEF Elements

LEMMA NoElement ==
    ASSUME NEW S
    PROVE  <<>> \in Seq(S) /\ Elements(<<>>) = {}
<1>1. <<>> \in Seq(S) /\ Len(<<>>) = 0 /\ 1 .. 0 = {}
    BY EmptySeq
<1> QED BY <1>1 DEF Elements

LEMMA TailElements ==
    ASSUME NEW S, NEW q \in Seq(S), q # <<>>
    PROVE  /\ Head(q) \in S /\ Head(q) \in Elements(q)
           /\ Tail(q) \in Seq(S) /\ Elements(Tail(q)) \subseteq Elements(q)
<1>1. /\ Head(q) \in S /\ Tail(q) \in Seq(S) /\ Len(Tail(q)) = Len(q) - 1
      /\ \A i \in 1 .. Len(Tail(q)) : Tail(q)[i] = q[i + 1]
    BY HeadTailProperties
<1>2. Len(q) \in Nat \ {0} /\ Head(q) = q[1]
    BY EmptySeq, LenProperties
<1>3. \A k \in 1 .. Len(Tail(q)) : k + 1 \in 1 .. Len(q) /\ Tail(q)[k] = q[k + 1]
    BY <1>1, <1>2
<1> QED BY <1>1, <1>2, <1>3 DEF Elements

LEMMA WaitingMessages ==
    ASSUME Types, NEW n \in Nodes
    PROVE  Waiting(n) = Elements(inbox[n]) /\ Waiting(n) \subseteq Messages
BY ElementOfSeq DEF Types, Waiting, Elements

\* Queues that hold what they held, or less.
Fewer(boxes) ==
    /\ boxes \in [Nodes -> Seq(Messages)]
    /\ \A n \in Nodes : Elements(boxes[n]) \subseteq Elements(inbox[n])

LEMMA FewerBoxes ==
    ASSUME Types
    PROVE  /\ Fewer(inbox)
           /\ \A n \in Nodes : inbox[n] # <<>> =>
                 /\ Fewer(Popped(n)) /\ Head1(n) \in Messages /\ Head1(n) \in Waiting(n)
<1>1. Fewer(inbox)
    BY DEF Types, Fewer
<1>2. ASSUME NEW n \in Nodes, inbox[n] # <<>>
      PROVE  Fewer(Popped(n)) /\ Head1(n) \in Messages /\ Head1(n) \in Waiting(n)
  <2>1. inbox[n] \in Seq(Messages)
      BY DEF Types
  <2>2. /\ Head(inbox[n]) \in Messages /\ Head(inbox[n]) \in Elements(inbox[n])
        /\ Tail(inbox[n]) \in Seq(Messages) /\ Elements(Tail(inbox[n])) \subseteq Elements(inbox[n])
      BY <1>2, <2>1, TailElements
  <2>3. Fewer(Popped(n))
      BY <2>2 DEF Types, Fewer, Popped
  <2> QED BY <2>2, <2>3, WaitingMessages DEF Head1
<1> QED BY <1>1, <1>2

\* A multicast adds its messages to what waits.
LEMMA McastAdds ==
    ASSUME Types, NEW boxes, Fewer(boxes), NEW msgs \in Seq(Messages),
           inbox' = Mcast(boxes, msgs)
    PROVE  /\ inbox' \in [Nodes -> Seq(Messages)]
           /\ \A n \in Nodes : Waiting(n)' \subseteq Waiting(n) \cup Elements(msgs)
<1>1. ASSUME NEW n \in Nodes
      PROVE  /\ inbox'[n] \in Seq(Messages)
             /\ Elements(inbox'[n]) \subseteq Elements(inbox[n]) \cup Elements(msgs)
  <2>1. inbox'[n] = IF n \in member THEN boxes[n] \o msgs ELSE boxes[n]
      BY DEF Mcast
  <2>2. boxes[n] \in Seq(Messages) /\ Elements(boxes[n]) \subseteq Elements(inbox[n])
      BY DEF Fewer
  <2> QED BY <2>1, <2>2, ConcatElements
<1>2. inbox' \in [Nodes -> Seq(Messages)]
    BY <1>1 DEF Mcast
<1> QED BY <1>1, <1>2 DEF Waiting, Elements

----------------------------------------------------------------------------
(* What the callbacks send.                                                *)

LEMMA Listed ==
    ASSUME Types, NEW n \in Nodes
    PROVE  /\ vl_get(n) \subseteq VMs /\ Refreshed(n) \subseteq VMs
           /\ [local EXCEPT ![n] = vl_get(n)] \in [Nodes -> SUBSET VMs]
           /\ [local EXCEPT ![n] = Refreshed(n)] \in [Nodes -> SUBSET VMs]
<1>1. vl_get(n) \subseteq VMs
    BY DEF vl_get, Hosted
<1>2. Refreshed(n) \subseteq VMs
    BY <1>1 DEF Refreshed, Types
<1> QED BY <1>1, <1>2 DEF Types

LEMMA Announced ==
    ASSUME NEW n \in Nodes, NEW vms \in SUBSET VMs, NEW msgs \in store_domains(n, vms)
    PROVE  msgs \in Seq(Messages) /\ Elements(msgs) \subseteq Stores
<1>1. PICK out \in SUBSET VMs :
         msgs = IF out = {} THEN <<>> ELSE <<[type |-> "store", owner |-> n, vms |-> out]>>
    BY DEF store_domains
<1> DEFINE m == [type |-> "store", owner |-> n, vms |-> out]
<1>2. m \in Stores /\ m \in Messages
    BY MessageKinds DEF Stores
<1> HIDE DEF m
<1>3. msgs = <<>> \/ msgs = <<m>>
    BY <1>1 DEF m
<1>4. CASE msgs = <<>>
    BY <1>4, NoElement
<1>5. CASE msgs = <<m>>
    BY <1>2, <1>5, OneElement
<1> QED BY <1>3, <1>4, <1>5

LEMMA Updates ==
    ASSUME Types, NEW n \in Nodes, NEW msgs \in update_local_vms(n)
    PROVE  msgs \in Seq(Messages) /\ Elements(msgs) \subseteq Stores
<1>1. CASE phase[n] = "ready"
    BY <1>1, Listed, Announced DEF update_local_vms
<1>2. CASE phase[n] # "ready"
    BY <1>2, NoElement DEF update_local_vms
<1> QED BY <1>1, <1>2

\* A reply carries the number and the request of what it answers.
LEMMA Replied ==
    ASSUME NEW n \in Nodes, NEW m \in Requests, NEW code \in Codes,
           NEW r \in cpg_send_reply(Reply(n, m, code))
    PROVE  /\ r \in Seq(Messages)
           /\ \A x \in Elements(r) : /\ x \in Answers /\ x.to = m.from
                                     /\ x.seqno = m.seqno /\ x.rid = m.rid
<1> DEFINE a == [type |-> "reply", to |-> m.from, seqno |-> m.seqno, code |-> code, rid |-> m.rid]
<1>1. a \in Answers /\ a.to = m.from /\ a.seqno = m.seqno /\ a.rid = m.rid
    BY DEF Requests, Answers
<1>2. a \in Messages
    BY <1>1, MessageKinds
<1>3. r = <<>> \/ r = <<a>>
    BY DEF cpg_send_reply, Reply
<1> HIDE DEF a
<1>4. CASE r = <<>>
    BY <1>4, NoElement
<1>5. CASE r = <<a>>
  <2>1. <<a>> \in Seq(Messages) /\ Elements(<<a>>) = {a}
      BY <1>2, OneElement
  <2> QED BY <1>1, <1>5, <2>1
<1> QED BY <1>3, <1>4, <1>5

----------------------------------------------------------------------------
(* Steps that tie no new request to a number.                              *)

\* The messages added are announcements, configurations, and replies to what
\* is tied already; a listener and the files go on or are given up.
Harmless ==
    /\ \A n \in Nodes : \A m \in Waiting(n)' :
          \/ m \in Waiting(n) \/ m.type \in {"store", "conf"}
          \/ m.type = "reply" /\ Tied(m.to, m.seqno, m.rid)
    /\ \A n \in Nodes :
          /\ \A e \in pending'[n] : e.replied =>
                e \in pending[n] \/ (e.rid \in Rids /\ Tied(n, e.seqno, e.rid))
          /\ listener'[n].state # "idle" =>
                /\ listener[n].state # "idle" /\ listener'[n].rid = listener[n].rid
                /\ listener'[n].seqno = listener[n].seqno
          /\ phase'[n] # "down" => phase[n] # "down" /\ seqnum'[n] = seqnum[n]

LEMMA HarmlessKeeps ==
    ASSUME IInv, Types', Harmless, starts' = 0 => starts = 0,
           starts = 0 /\ Numbered => AnswersOwnRequest'
    PROVE  IInv'
<1>1. Asking' /\ Filed'
    BY DEF IInv, Asking, Filed, Harmless
<1>2. ASSUME NEW f \in Nodes, NEW s \in Nat, NEW r \in Rids, Tied(f, s, r)'
      PROVE  Tied(f, s, r)
  <2>1. CASE \E n \in Nodes : \E m \in Waiting(n)' :
                m.type = "req" /\ m.from = f /\ m.seqno = s /\ m.rid = r
      BY <2>1 DEF Harmless, Tied
  <2>2. CASE \E n \in Nodes : \E m \in Waiting(n)' :
                m.type = "reply" /\ m.to = f /\ m.seqno = s /\ m.rid = r
    <3>0. PICK n \in Nodes : \E m \in Waiting(n)' :
                m.type = "reply" /\ m.to = f /\ m.seqno = s /\ m.rid = r
        BY <2>2
    <3>1. PICK m \in Waiting(n)' :
                m.type = "reply" /\ m.to = f /\ m.seqno = s /\ m.rid = r
        BY <3>0
    <3>2. m \in Waiting(n) \/ Tied(f, s, r)
        BY <3>1 DEF Harmless
    <3> QED BY <3>1, <3>2 DEF Tied
  <2>3. CASE \E e \in pending'[f] : e.replied /\ e.seqno = s /\ e.rid = r
    <3>1. PICK e \in pending'[f] : e.replied /\ e.seqno = s /\ e.rid = r
        BY <2>3
    <3>2. e \in pending[f] \/ Tied(f, s, r)
        BY <3>1 DEF Harmless
    <3> QED BY <3>1, <3>2 DEF Tied
  <2>4. CASE listener'[f].state # "idle" /\ listener'[f].seqno = s /\ listener'[f].rid = r
      BY <2>4 DEF Harmless, Tied
  <2> QED BY <1>2, <2>1, <2>2, <2>3, <2>4 DEF Tied
<1>3. Numbered => Numbered'
    BY <1>2 DEF Numbered, Harmless
<1> QED BY <1>1, <1>3 DEF IInv

LEMMA Dispatched ==
    ASSUME IInv, NEW boxes, Fewer(boxes), NEW msgs \in Seq(Messages),
           inbox' = Mcast(boxes, msgs),
           \A x \in Elements(msgs) :
              \/ x \in Stores
              \/ x \in Answers /\ Tied(x.to, x.seqno, x.rid),
           UNCHANGED <<pending, listener, seqnum>>,
           \A n \in Nodes : phase'[n] # "down" => phase[n] # "down"
    PROVE  Harmless /\ inbox' \in [Nodes -> Seq(Messages)]
<1>1. /\ inbox' \in [Nodes -> Seq(Messages)]
      /\ \A n \in Nodes : Waiting(n)' \subseteq Waiting(n) \cup Elements(msgs)
    BY McastAdds DEF IInv
<1>2. (\A x \in Stores : x.type = "store") /\ (\A x \in Answers : x.type = "reply")
    BY DEF Stores, Answers
<1> QED BY <1>1, <1>2 DEF Harmless

\* The part of the state that most steps leave alone.
Rest == <<high, remote, seqnum, pending, listener, host, running, asked, replies, wrongOff>>

LEMMA InitListKeeps ==
    ASSUME IInv, NEW n \in Nodes, cpg_virt_init_list(n)
    PROVE  IInv'
<1>0. /\ Types /\ phase[n] = "joined" /\ phase' = [phase EXCEPT ![n] = "listed"]
      /\ local' = [local EXCEPT ![n] = vl_get(n)]
      /\ UNCHANGED <<member, starts, outcomes, Rest>>
    BY DEF IInv, cpg_virt_init_list, hostVars, bounds, history, Rest
<1>1. PICK msgs \in store_domains(n, vl_get(n)) : inbox' = Mcast(inbox, msgs)
    BY DEF cpg_virt_init_list
<1>2. /\ phase' \in [Nodes -> Phases]
      /\ \A k \in Nodes : (phase'[k] # "down") <=> (phase[k] # "down")
    BY <1>0 DEF Types, Phases
<1>3. msgs \in Seq(Messages) /\ Elements(msgs) \subseteq Stores
    BY <1>0, Listed, Announced
<1>4. Harmless /\ inbox' \in [Nodes -> Seq(Messages)]
    BY <1>0, <1>1, <1>2, <1>3, FewerBoxes, Dispatched DEF Rest
<1>5. Types'
    BY <1>0, <1>2, <1>4, Listed DEF Types, Rest
<1> QED BY <1>0, <1>4, <1>5, HarmlessKeeps DEF IInv, AnswersOwnRequest

LEMMA InitHandleKeeps ==
    ASSUME IInv, NEW n \in Nodes, cpg_virt_init_handle(n)
    PROVE  IInv'
<1>0. /\ Types /\ phase[n] = "listed" /\ phase' = [phase EXCEPT ![n] = "ready"]
      /\ UNCHANGED <<member, inbox, local, starts, outcomes, Rest>>
    BY DEF IInv, cpg_virt_init_handle, hostVars, bounds, history, Rest
<1>1. /\ phase' \in [Nodes -> Phases]
      /\ \A k \in Nodes : (phase'[k] # "down") <=> (phase[k] # "down")
    BY <1>0 DEF Types, Phases
<1>2. Types'
    BY <1>0, <1>1 DEF Types, Rest
<1>3. Harmless
    BY <1>0, <1>1 DEF Harmless, Waiting, Rest
<1> QED BY <1>0, <1>2, <1>3, HarmlessKeeps DEF IInv, AnswersOwnRequest

\* store_cb, cpg_config_change and do_real_work leave the listener's side alone.
LEMMA CallbackKeeps ==
    ASSUME IInv, NEW n \in Nodes, inbox[n] # <<>>,
           NEW msgs \in Seq(Messages), inbox' = Mcast(Popped(n), msgs),
           \A x \in Elements(msgs) :
              \/ x \in Stores
              \/ x \in Answers /\ Tied(x.to, x.seqno, x.rid),
           local' \in [Nodes -> SUBSET VMs],
           remote' \in [Nodes -> [VMs -> Nodes \cup {None}]],
           high' \in [Nodes -> Nodes \cup {None}],
           host' \in [VMs -> Nodes \cup {None}], running' \subseteq VMs,
           replies' \in [Rids -> SUBSET Nodes], wrongOff' \subseteq Rids,
           UNCHANGED <<phase, member, seqnum, pending, listener, starts, asked, outcomes>>
    PROVE  IInv'
<1>0. Types
    BY DEF IInv
<1>1. Harmless /\ inbox' \in [Nodes -> Seq(Messages)]
    BY <1>0, FewerBoxes, Dispatched
<1>2. Types'
    BY <1>0, <1>1 DEF Types
<1> QED BY <1>1, <1>2, HarmlessKeeps DEF IInv, AnswersOwnRequest

LEMMA StoreKeeps ==
    ASSUME IInv, NEW n \in Nodes, store_cb(n)
    PROVE  IInv'
<1> DEFINE m == Head1(n)
           fresh == m.owner # n /\ local[n] = {}
<1>0. /\ Types /\ inbox[n] # <<>> /\ m.type = "store"
      /\ local' = IF fresh THEN [local EXCEPT ![n] = Refreshed(n)] ELSE local
      /\ remote' = IF m.owner = n THEN remote ELSE [remote EXCEPT ![n] = vl_update(@, m)]
      /\ UNCHANGED <<phase, member, high, seqnum, pending, listener, host, running, starts,
                     asked, replies, wrongOff, outcomes>>
    BY DEF IInv, store_cb, hostVars, bounds, history
<1>1. PICK msgs \in IF fresh THEN update_local_vms(n) ELSE {<<>>} : inbox' = Mcast(Popped(n), msgs)
    BY DEF store_cb
<1>2. m \in Stores
    BY <1>0, FewerBoxes, MessageKinds
<1> HIDE DEF m
<1>3. m.owner \in Nodes
    BY <1>2 DEF Stores
<1>4. vl_update(remote[n], m) \in [VMs -> Nodes \cup {None}]
    BY <1>0, <1>3 DEF vl_update, Types
<1>5. remote' \in [Nodes -> [VMs -> Nodes \cup {None}]]
    BY <1>0, <1>4 DEF Types
<1>6. local' \in [Nodes -> SUBSET VMs]
    BY <1>0, Listed DEF Types
<1>7. msgs \in Seq(Messages) /\ Elements(msgs) \subseteq Stores
  <2>1. CASE fresh
      BY <1>0, <1>1, <2>1, Updates
  <2>2. CASE ~fresh
      BY <1>1, <2>2, NoElement
  <2> QED BY <2>1, <2>2
<1>8. /\ high' \in [Nodes -> Nodes \cup {None}] /\ host' \in [VMs -> Nodes \cup {None}]
      /\ running' \subseteq VMs /\ replies' \in [Rids -> SUBSET Nodes] /\ wrongOff' \subseteq Rids
    BY <1>0 DEF Types
<1> QED BY <1>0, <1>1, <1>5, <1>6, <1>7, <1>8, CallbackKeeps

LEMMA ConfigKeeps ==
    ASSUME IInv, NEW n \in Nodes, cpg_config_change(n)
    PROVE  IInv'
<1> DEFINE m == Head1(n)
<1>0. /\ Types /\ inbox[n] # <<>> /\ m.type = "conf"
      /\ high' = [high EXCEPT ![n] = HighId(n, m.members)]
      /\ remote' = [remote EXCEPT ![n] = vl_remove_by_owner(@, m.left)]
      /\ local' = [local EXCEPT ![n] = Refreshed(n)]
      /\ UNCHANGED <<phase, member, seqnum, pending, listener, host, running, starts,
                     asked, replies, wrongOff, outcomes>>
    BY DEF IInv, cpg_config_change, hostVars, bounds, history
<1>1. PICK msgs \in update_local_vms(n) : inbox' = Mcast(Popped(n), msgs)
    BY DEF cpg_config_change
<1>2. m \in Confs
    BY <1>0, FewerBoxes, MessageKinds
<1> HIDE DEF m
<1>3. HighId(n, m.members) \in Nodes
    BY <1>2, HighIdType DEF Confs
<1>4. vl_remove_by_owner(remote[n], m.left) \in [VMs -> Nodes \cup {None}]
    BY <1>0 DEF vl_remove_by_owner, Types
<1>5. /\ remote' \in [Nodes -> [VMs -> Nodes \cup {None}]]
      /\ high' \in [Nodes -> Nodes \cup {None}]
    BY <1>0, <1>3, <1>4 DEF Types
<1>6. local' \in [Nodes -> SUBSET VMs]
    BY <1>0, Listed
<1>7. msgs \in Seq(Messages) /\ Elements(msgs) \subseteq Stores
    BY <1>0, <1>1, Updates
<1>8. /\ host' \in [VMs -> Nodes \cup {None}]
      /\ running' \subseteq VMs /\ replies' \in [Rids -> SUBSET Nodes] /\ wrongOff' \subseteq Rids
    BY <1>0 DEF Types
<1> QED BY <1>0, <1>1, <1>5, <1>6, <1>7, <1>8, CallbackKeeps

LEMMA EffectKinds ==
    ASSUME NEW v \in VMs, NEW op \in Ops, NEW e \in Effects(v, op)
    PROVE  \E c \in Codes : e = Same(v, c) \/ e = Started(v, c) \/ e = Stopped(v, c)
<1>0. {"ok", "off", "fail"} \subseteq Codes
    BY DEF Codes
<1>1. CASE op = "status"
    BY <1>0, <1>1 DEF Effects
<1>2. CASE op = "off"
    BY <1>0, <1>2 DEF Effects, vm_off
<1>3. CASE op = "on"
    BY <1>0, <1>3 DEF Effects, vm_on
<1>4. CASE op = "reboot"
    BY <1>0, <1>4 DEF Effects, vm_reboot
<1> QED BY <1>1, <1>2, <1>3, <1>4 DEF Ops

LEMMA EffectTypes ==
    ASSUME Types, NEW v \in VMs, NEW op \in Ops, NEW e \in Effects(v, op)
    PROVE  e.code \in Codes /\ e.h \in Nodes \cup {None}
<1>1. \A c \in Codes :
         /\ Same(v, c).code = c /\ Started(v, c).code = c /\ Stopped(v, c).code = c
         /\ {Same(v, c).h, Started(v, c).h, Stopped(v, c).h} \subseteq Nodes \cup {None}
    BY DEF Types, Same, Started, Stopped
<1> QED BY <1>1, EffectKinds

\* The messages of do_real_work: announcements, then the reply to request m.
LEMMA WorkSends ==
    ASSUME Types, NEW n \in Nodes, inbox[n] # <<>>, Head1(n).type = "req",
           NEW code \in Codes, NEW s \in update_local_vms(n),
           NEW r \in cpg_send_reply(Reply(n, Head1(n), code))
    PROVE  /\ s \o r \in Seq(Messages)
           /\ \A x \in Elements(s \o r) :
                 \/ x \in Stores
                 \/ x \in Answers /\ Tied(x.to, x.seqno, x.rid)
<1>1. Head1(n) \in Requests /\ Head1(n) \in Waiting(n)
    BY FewerBoxes, MessageKinds
<1>2. s \in Seq(Messages) /\ Elements(s) \subseteq Stores
    BY Updates
<1>3. /\ r \in Seq(Messages)
      /\ \A x \in Elements(r) : /\ x \in Answers /\ x.to = Head1(n).from
                                /\ x.seqno = Head1(n).seqno /\ x.rid = Head1(n).rid
    BY <1>1, Replied
<1>4. Tied(Head1(n).from, Head1(n).seqno, Head1(n).rid)
    BY <1>1 DEF Tied
<1> QED BY <1>2, <1>3, <1>4, ConcatElements

LEMMA LocalWorkKeeps ==
    ASSUME IInv, NEW n \in Nodes, do_real_work_local(n)
    PROVE  IInv'
<1> DEFINE m == Head1(n)
<1>0. /\ Types /\ inbox[n] # <<>> /\ m.type = "req"
      /\ local' = [local EXCEPT ![n] = Refreshed(n)]
      /\ UNCHANGED <<phase, member, high, remote, seqnum, pending, listener, starts,
                     asked, wrongOff, outcomes>>
    BY DEF IInv, do_real_work_local, bounds
<1>1. m \in Requests /\ m.vm \in VMs /\ m.op \in Ops /\ m.rid \in Rids
  <2>1. m \in Requests
      BY <1>0, FewerBoxes, MessageKinds
  <2> QED BY <2>1 DEF Requests
<1>2. PICK e \in Effects(m.vm, m.op) :
         /\ host' = [host EXCEPT ![m.vm] = e.h]
         /\ running' = IF e.up THEN running \cup {m.vm} ELSE running \ {m.vm}
         /\ \E s \in update_local_vms(n), r \in cpg_send_reply(Reply(n, m, e.code)) :
               /\ inbox' = Mcast(Popped(n), s \o r)
               /\ replies' = IF r = <<>> THEN replies
                             ELSE [replies EXCEPT ![m.rid] = @ \cup {n}]
    BY DEF do_real_work_local
<1>3. PICK s \in update_local_vms(n), r \in cpg_send_reply(Reply(n, m, e.code)) :
         /\ inbox' = Mcast(Popped(n), s \o r)
         /\ replies' = IF r = <<>> THEN replies ELSE [replies EXCEPT ![m.rid] = @ \cup {n}]
    BY <1>2
<1>4. e.code \in Codes /\ e.h \in Nodes \cup {None}
    BY <1>0, <1>1, EffectTypes
<1>5. /\ s \o r \in Seq(Messages)
      /\ \A x \in Elements(s \o r) :
            \/ x \in Stores
            \/ x \in Answers /\ Tied(x.to, x.seqno, x.rid)
    BY <1>0, <1>4, WorkSends
<1>6. local' \in [Nodes -> SUBSET VMs]
    BY <1>0, Listed
<1> HIDE DEF m
<1>7. /\ high' \in [Nodes -> Nodes \cup {None}] /\ remote' \in [Nodes -> [VMs -> Nodes \cup {None}]]
      /\ wrongOff' \subseteq Rids
    BY <1>0 DEF Types
<1>8. host' \in [VMs -> Nodes \cup {None}] /\ running' \subseteq VMs
    BY <1>0, <1>1, <1>2, <1>4 DEF Types
<1>9. replies' \in [Rids -> SUBSET Nodes]
    BY <1>0, <1>1, <1>3 DEF Types
<1> QED BY <1>0, <1>3, <1>5, <1>6, <1>7, <1>8, <1>9, CallbackKeeps

LEMMA UnknownWorkKeeps ==
    ASSUME IInv, NEW n \in Nodes, do_real_work_unknown(n)
    PROVE  IInv'
<1> DEFINE m == Head1(n)
<1>0. /\ Types /\ inbox[n] # <<>> /\ m.type = "req"
      /\ local' = [local EXCEPT ![n] = Refreshed(n)]
      /\ UNCHANGED <<phase, member, high, remote, seqnum, pending, listener, host, running, starts,
                     asked, outcomes>>
    BY DEF IInv, do_real_work_unknown, hostVars, bounds
<1>1. m \in Requests /\ m.vm \in VMs /\ m.op \in Ops /\ m.rid \in Rids
  <2>1. m \in Requests
      BY <1>0, FewerBoxes, MessageKinds
  <2> QED BY <2>1 DEF Requests
<1>2. PICK s \in update_local_vms(n), r \in cpg_send_reply(Reply(n, m, UnknownCode(m.op))) :
         /\ inbox' = Mcast(Popped(n), s \o r)
         /\ replies' = IF r = <<>> THEN replies ELSE [replies EXCEPT ![m.rid] = @ \cup {n}]
    BY DEF do_real_work_unknown
<1>3. wrongOff' = wrongOff \cup {m.rid} \/ wrongOff' = wrongOff
    BY DEF do_real_work_unknown
<1>4. UnknownCode(m.op) \in Codes
    BY <1>1 DEF UnknownCode, Ops, Codes
<1>5. /\ s \o r \in Seq(Messages)
      /\ \A x \in Elements(s \o r) :
            \/ x \in Stores
            \/ x \in Answers /\ Tied(x.to, x.seqno, x.rid)
    BY <1>0, <1>4, WorkSends
<1>6. local' \in [Nodes -> SUBSET VMs]
    BY <1>0, Listed
<1> HIDE DEF m
<1>7. /\ high' \in [Nodes -> Nodes \cup {None}] /\ remote' \in [Nodes -> [VMs -> Nodes \cup {None}]]
      /\ host' \in [VMs -> Nodes \cup {None}] /\ running' \subseteq VMs
    BY <1>0 DEF Types
<1>8. wrongOff' \subseteq Rids
    BY <1>0, <1>1, <1>3 DEF Types
<1>9. replies' \in [Rids -> SUBSET Nodes]
    BY <1>0, <1>1, <1>2 DEF Types
<1> QED BY <1>0, <1>2, <1>5, <1>6, <1>7, <1>8, <1>9, CallbackKeeps

LEMMA SilentWorkKeeps ==
    ASSUME IInv, NEW n \in Nodes, do_real_work_silent(n)
    PROVE  IInv'
<1>0. /\ Types /\ inbox[n] # <<>>
      /\ local' = [local EXCEPT ![n] = Refreshed(n)]
      /\ UNCHANGED <<phase, member, high, remote, seqnum, pending, listener, host, running, starts,
                     asked, replies, wrongOff, outcomes>>
    BY DEF IInv, do_real_work_silent, hostVars, bounds, history
<1>1. PICK msgs \in update_local_vms(n) : inbox' = Mcast(Popped(n), msgs)
    BY DEF do_real_work_silent
<1>2. msgs \in Seq(Messages) /\ Elements(msgs) \subseteq Stores
    BY <1>0, <1>1, Updates
<1>3. local' \in [Nodes -> SUBSET VMs]
    BY <1>0, Listed
<1>4. /\ high' \in [Nodes -> Nodes \cup {None}] /\ remote' \in [Nodes -> [VMs -> Nodes \cup {None}]]
      /\ host' \in [VMs -> Nodes \cup {None}] /\ running' \subseteq VMs
      /\ replies' \in [Rids -> SUBSET Nodes] /\ wrongOff' \subseteq Rids
    BY <1>0 DEF Types
<1> QED BY <1>0, <1>1, <1>2, <1>3, <1>4, CallbackKeeps

----------------------------------------------------------------------------
(* The listener thread and the replies it waits for.                       *)

LEMMA ListenerMoves ==
    ASSUME Types, NEW n \in Nodes, NEW v \in {"sent", "waiting", "woken"}
    PROVE  /\ [listener[n] EXCEPT !.state = v] \in Listeners
           /\ [listener[n] EXCEPT !.state = v].state = v
           /\ [listener[n] EXCEPT !.state = v].rid = listener[n].rid
           /\ [listener[n] EXCEPT !.state = v].seqno = listener[n].seqno
<1>1. listener[n] \in Listeners
    BY DEF Types
<1> QED BY <1>1 DEF Listeners

LEMMA WaitKeeps ==
    ASSUME IInv, NEW n \in Nodes, NEW v \in {"sent", "waiting", "woken"}, listener[n].state # "idle",
           listener' = [listener EXCEPT ![n].state = v],
           UNCHANGED <<phase, member, inbox, high, local, remote, seqnum, pending, host, running,
                       starts, asked, replies, wrongOff, outcomes>>
    PROVE  IInv'
<1>0. Types
    BY DEF IInv
<1> DEFINE l == [listener[n] EXCEPT !.state = v]
<1>1. listener' = [listener EXCEPT ![n] = l]
    BY <1>0 DEF Types
<1>l. l \in Listeners /\ l.rid = listener[n].rid /\ l.seqno = listener[n].seqno
    BY <1>0, ListenerMoves
<1> HIDE DEF l
<1>2. /\ listener' \in [Nodes -> Listeners] /\ \A k \in Nodes \ {n} : listener'[k] = listener[k]
      /\ listener'[n].rid = listener[n].rid /\ listener'[n].seqno = listener[n].seqno
    BY <1>0, <1>1, <1>l DEF Types
<1>3. Types'
    BY <1>0, <1>2 DEF Types
<1>4. Harmless
    BY <1>2 DEF Harmless, Waiting
<1> QED BY <1>3, <1>4, HarmlessKeeps DEF IInv, AnswersOwnRequest

LEMMA TakeReplyKeeps ==
    ASSUME IInv, NEW n \in Nodes, listener[n].state # "idle",
           NEW e \in pending[n], e.seqno = listener[n].seqno, e.replied,
           pending' = [pending EXCEPT ![n] = @ \ {e}],
           listener' = [listener EXCEPT ![n] = Idle],
           outcomes' = outcomes \cup {[rid |-> listener[n].rid, code |-> e.code, reply |-> e.rid]},
           UNCHANGED <<phase, member, inbox, high, local, remote, seqnum, host, running,
                       starts, asked, replies, wrongOff>>
    PROVE  IInv'
<1>0. Types /\ Asking /\ Filed
    BY DEF IInv
<1>1. Idle \in Listeners /\ Idle.state = "idle"
    BY DEF Idle, Listeners
<1>2. /\ listener' \in [Nodes -> Listeners] /\ pending' \in [Nodes -> SUBSET Entries]
      /\ \A k \in Nodes : /\ pending'[k] \subseteq pending[k]
                          /\ listener'[k].state # "idle" => listener'[k] = listener[k]
    BY <1>0, <1>1 DEF Types
<1>3. Types'
    BY <1>0, <1>2 DEF Types
<1>4. Harmless
    BY <1>2 DEF Harmless, Waiting
<1>5. Numbered => e.rid = listener[n].rid
  <2>1. e.rid \in Rids /\ listener[n].rid \in Rids
      BY <1>0 DEF Asking, Filed
  <2>2. e.seqno \in Nat
      BY <1>0 DEF Types, Entries
  <2>3. Tied(n, e.seqno, e.rid) /\ Tied(n, e.seqno, listener[n].rid)
      BY DEF Tied
  <2> QED BY <2>1, <2>2, <2>3 DEF Numbered
<1>6. starts = 0 /\ Numbered => AnswersOwnRequest'
    BY <1>5 DEF IInv, AnswersOwnRequest
<1> QED BY <1>3, <1>4, <1>6, HarmlessKeeps

LEMMA ListenKeeps ==
    ASSUME IInv, NEW n \in Nodes, Listen(n) \/ cpg_wait_reply_spurious(n)
    PROVE  IInv'
<1>1. CASE cpg_wait_reply(n)
    BY <1>1, WaitKeeps DEF cpg_wait_reply, hostVars, bounds, history
<1>2. CASE cpg_wait_reply_spurious(n)
    BY <1>2, WaitKeeps DEF cpg_wait_reply_spurious, hostVars, bounds, history
<1>3. CASE cpg_wait_reply_woken(n)
  <2>0. /\ listener[n].state # "idle"
        /\ UNCHANGED <<phase, member, inbox, high, local, remote, seqnum, host, running,
                       starts, asked, replies, wrongOff>>
      BY <1>3 DEF cpg_wait_reply_woken, hostVars, bounds
  <2>1. CASE listener' = [listener EXCEPT ![n].state = "sent"] /\ UNCHANGED <<pending, outcomes>>
      BY <2>0, <2>1, WaitKeeps
  <2>2. CASE \E e \in {x \in pending[n] : x.seqno = listener[n].seqno /\ x.replied} :
                /\ pending' = [pending EXCEPT ![n] = @ \ {e}]
                /\ listener' = [listener EXCEPT ![n] = Idle]
                /\ outcomes' = outcomes \cup
                      {[rid |-> listener[n].rid, code |-> e.code, reply |-> e.rid]}
      BY <2>0, <2>2, TakeReplyKeeps
  <2> QED BY <1>3, <2>1, <2>2 DEF cpg_wait_reply_woken
<1> QED BY <1>1, <1>2, <1>3 DEF Listen

LEMMA DeliverKeeps ==
    ASSUME IInv, NEW n \in Nodes, deliver_reply(n)
    PROVE  IInv'
<1> DEFINE m == Head1(n)
           mine == {e \in pending[n] : Matches(n, m, e)}
<1>0. /\ Types /\ inbox[n] # <<>> /\ m.type = "reply" /\ inbox' = Popped(n)
      /\ UNCHANGED <<phase, member, high, local, remote, seqnum, host, running,
                     starts, asked, replies, wrongOff, outcomes>>
    BY DEF IInv, deliver_reply, hostVars, bounds, history
<1>1. m \in Answers /\ m \in Waiting(n) /\ Fewer(Popped(n))
    BY <1>0, FewerBoxes, MessageKinds
<1>2. /\ inbox' \in [Nodes -> Seq(Messages)]
      /\ \A k \in Nodes : Waiting(k)' \subseteq Waiting(k)
    BY <1>0, <1>1 DEF Fewer, Waiting, Elements
<1>3. CASE UNCHANGED <<pending, listener>>
  <2>1. Types'
      BY <1>0, <1>2, <1>3 DEF Types
  <2>2. Harmless
      BY <1>0, <1>2, <1>3 DEF Harmless
  <2> QED BY <1>0, <2>1, <2>2, HarmlessKeeps DEF IInv, AnswersOwnRequest
<1>4. CASE \E e \in mine :
              /\ pending' = [pending EXCEPT ![n] = (@ \ {e}) \cup
                   {[seqno |-> e.seqno, replied |-> TRUE, code |-> m.code, rid |-> m.rid]}]
              /\ listener' = [listener EXCEPT ![n] = Broadcast(n)]
  <2>1. PICK e \in mine :
              /\ pending' = [pending EXCEPT ![n] = (@ \ {e}) \cup
                   {[seqno |-> e.seqno, replied |-> TRUE, code |-> m.code, rid |-> m.rid]}]
              /\ listener' = [listener EXCEPT ![n] = Broadcast(n)]
      BY <1>4
  <2>2. e \in pending[n] /\ e \in Entries /\ m.seqno = e.seqno /\ m.to = n
      BY <1>0, <2>1 DEF Types, Matches
  <2> DEFINE x == [seqno |-> e.seqno, replied |-> TRUE, code |-> m.code, rid |-> m.rid]
  <2>3. x \in Entries /\ x.seqno = m.seqno /\ x.rid = m.rid /\ x.rid \in Rids
      BY <1>1, <2>2 DEF Entries, Answers
  <2>4. Tied(n, x.seqno, x.rid)
      BY <1>0, <1>1, <2>2, <2>3 DEF Tied
  <2>5. Broadcast(n) \in Listeners /\ (listener[n].state = "idle" => Broadcast(n).state = "idle")
        /\ Broadcast(n).rid = listener[n].rid /\ Broadcast(n).seqno = listener[n].seqno
      BY <1>0, ListenerMoves DEF Broadcast, Types
  <2> HIDE DEF x
  <2>6. pending' = [pending EXCEPT ![n] = (@ \ {e}) \cup {x}]
      BY <2>1 DEF x
  <2>7. /\ pending' \in [Nodes -> SUBSET Entries]
        /\ \A k \in Nodes : \A y \in pending'[k] : y \in pending[k] \/ (k = n /\ y = x)
      BY <1>0, <2>3, <2>6 DEF Types
  <2>8. /\ listener' \in [Nodes -> Listeners]
        /\ \A k \in Nodes : listener'[k] = IF k = n THEN Broadcast(n) ELSE listener[k]
      BY <1>0, <2>1, <2>5 DEF Types
  <2>9. Types'
      BY <1>0, <1>2, <2>7, <2>8 DEF Types
  <2>10. Harmless
      BY <1>0, <1>2, <2>3, <2>4, <2>5, <2>7, <2>8 DEF Harmless
  <2> QED BY <1>0, <2>9, <2>10, HarmlessKeeps DEF IInv, AnswersOwnRequest
<1> QED BY <1>3, <1>4 DEF deliver_reply

\* cpg_send_req: the new number is one that nothing is tied to.
LEMMA SendKeeps ==
    ASSUME IInv, NEW n \in Nodes, NEW v \in VMs, NEW op \in Asks, cpg_send_req(n, v, op)
    PROVE  IInv'
<1> DEFINE rid == Len(asked) + 1
           seqno == seqnum[n] + 1
           req == [type |-> "req", from |-> n, seqno |-> seqno, vm |-> v, op |-> op, rid |-> rid]
           entry == [seqno |-> seqno, replied |-> FALSE, code |-> "none", rid |-> 0]
           l == [state |-> "sent", rid |-> rid, seqno |-> seqno]
<1>0. /\ Types /\ Asking /\ Filed /\ phase[n] = "ready" /\ rid <= MaxRequests
      /\ seqnum' = [seqnum EXCEPT ![n] = seqno]
      /\ pending' = [pending EXCEPT ![n] = @ \cup {entry}]
      /\ UNCHANGED <<phase, member, high, local, remote, host, running, starts,
                     replies, wrongOff, outcomes>>
    BY DEF IInv, cpg_send_req, hostVars, bounds
<1>1. rid \in Rids /\ seqno \in Nat /\ op \in Ops /\ seqnum[n] \in Nat /\ seqnum[n] < seqno
    BY <1>0, LenProperties, CpgVirtAssumption DEF Types, Rids
<1> HIDE DEF rid, seqno
<1>2. /\ req \in Requests /\ req.type = "req" /\ req.from = n
      /\ req.seqno = seqno /\ req.rid = rid
      /\ entry \in Entries /\ ~entry.replied
      /\ l \in Listeners /\ l.state = "sent" /\ l.seqno = seqno /\ l.rid = rid
    BY <1>1 DEF Requests, Entries, Listeners
<1> HIDE DEF req, entry, l
<1>3. /\ pending' \in [Nodes -> SUBSET Entries] /\ seqnum' \in [Nodes -> Nat]
      /\ \A k \in Nodes : \A e \in pending'[k] : e.replied => e \in pending[k]
      /\ seqnum'[n] = seqno /\ \A k \in Nodes \ {n} : seqnum'[k] = seqnum[k]
    BY <1>0, <1>1, <1>2 DEF Types
<1>4. AnswersOwnRequest => AnswersOwnRequest'
    BY <1>0 DEF AnswersOwnRequest
<1>5. Filed'
    BY <1>0, <1>3 DEF Filed
<1>6. CASE UNCHANGED <<inbox, listener, asked>>
  <2>1. Types' /\ Asking'
      BY <1>0, <1>3, <1>6 DEF Types, Asking
  <2>2. \A f \in Nodes, s \in Nat, r \in Rids : Tied(f, s, r)' => Tied(f, s, r)
      BY <1>3, <1>6 DEF Tied, Waiting
  <2>3. Numbered => Numbered'
    <3> SUFFICES ASSUME Numbered, NEW f \in Nodes, NEW s \in Nat, NEW r \in Rids, Tied(f, s, r)'
                 PROVE  /\ phase'[f] # "down" => s <= seqnum'[f]
                        /\ \A q \in Rids : Tied(f, s, q)' => q = r
        BY DEF Numbered
    <3>1. /\ phase[f] # "down" => s <= seqnum[f]
          /\ \A q \in Rids : Tied(f, s, q) => q = r
        BY <2>2 DEF Numbered
    <3>2. seqnum[f] \in Nat /\ seqnum[f] <= seqnum'[f]
        BY <1>0, <1>1, <1>3 DEF Types
    <3> QED BY <1>0, <1>3, <2>2, <3>1, <3>2 DEF Types
  <2> QED BY <1>0, <1>4, <1>5, <2>1, <2>3 DEF IInv
<1>7. CASE /\ inbox' = Mcast(inbox, <<req>>)
           /\ listener' = [listener EXCEPT ![n] = l]
           /\ asked' = Append(asked, [from |-> n, vm |-> v, op |-> op])
  <2>1. <<req>> \in Seq(Messages) /\ Elements(<<req>>) = {req}
      BY <1>2, OneElement, MessageKinds
  <2>2. /\ inbox' \in [Nodes -> Seq(Messages)]
        /\ \A k \in Nodes : Waiting(k)' \subseteq Waiting(k) \cup {req}
      BY <1>0, <1>7, <2>1, FewerBoxes, McastAdds
  <2>3. /\ listener' \in [Nodes -> Listeners] /\ listener'[n] = l
        /\ \A k \in Nodes \ {n} : listener'[k] = listener[k]
      BY <1>0, <1>2, <1>7 DEF Types
  <2>4. asked' \in Seq([from : Nodes, vm : VMs, op : Ops])
      BY <1>0, <1>1, <1>7, AppendProperties DEF Types
  <2>5. Types'
      BY <1>0, <1>3, <2>2, <2>3, <2>4 DEF Types
  <2>6. Asking'
      BY <1>0, <1>1, <1>2, <2>3 DEF Asking
  <2>7. ASSUME NEW f \in Nodes, NEW s \in Nat, NEW r \in Rids, Tied(f, s, r)'
        PROVE  Tied(f, s, r) \/ (f = n /\ s = seqno /\ r = rid)
    <3>1. CASE \E k \in Nodes : \E m \in Waiting(k)' :
                  m.type = "req" /\ m.from = f /\ m.seqno = s /\ m.rid = r
        BY <1>2, <2>2, <3>1 DEF Tied
    <3>2. CASE \E k \in Nodes : \E m \in Waiting(k)' :
                  m.type = "reply" /\ m.to = f /\ m.seqno = s /\ m.rid = r
        BY <1>2, <2>2, <3>2 DEF Tied
    <3>3. CASE \E e \in pending'[f] : e.replied /\ e.seqno = s /\ e.rid = r
        BY <1>3, <3>3 DEF Tied
    <3>4. CASE listener'[f].state # "idle" /\ listener'[f].seqno = s /\ listener'[f].rid = r
        BY <1>2, <2>3, <3>4 DEF Tied
    <3> QED BY <2>7, <3>1, <3>2, <3>3, <3>4 DEF Tied
  <2>8. Numbered => Numbered'
    <3> SUFFICES ASSUME Numbered, NEW f \in Nodes, NEW s \in Nat, NEW r \in Rids, Tied(f, s, r)'
                 PROVE  /\ phase'[f] # "down" => s <= seqnum'[f]
                        /\ \A q \in Rids : Tied(f, s, q)' => q = r
        BY DEF Numbered
    <3>1. \A q \in Rids : ~Tied(n, seqno, q)
        BY <1>0, <1>1 DEF Numbered
    <3>2. seqnum[f] \in Nat /\ seqnum'[f] \in Nat /\ seqnum[f] <= seqnum'[f]
        BY <1>0, <1>1, <1>3 DEF Types
    <3>3. CASE f = n /\ s = seqno
        BY <1>1, <1>3, <2>7, <3>1, <3>3
    <3>4. CASE ~(f = n /\ s = seqno)
      <4>1. Tied(f, s, r) /\ \A q \in Rids : Tied(f, s, q)' => Tied(f, s, q)
          BY <2>7, <3>4
      <4>2. (phase[f] # "down" => s <= seqnum[f]) /\ \A q \in Rids : Tied(f, s, q) => q = r
          BY <4>1 DEF Numbered
      <4> QED BY <1>0, <3>2, <4>1, <4>2
    <3> QED BY <3>3, <3>4
  <2> QED BY <1>0, <1>4, <1>5, <2>5, <2>6, <2>8 DEF IInv
<1> QED BY <1>6, <1>7 DEF cpg_send_req, rid, seqno, req, l

----------------------------------------------------------------------------
(* Daemons that go and come.                                               *)

LEMMA AppendElements ==
    ASSUME NEW S, NEW q \in Seq(S), NEW e \in S
    PROVE  Append(q, e) \in Seq(S) /\ Elements(Append(q, e)) \subseteq Elements(q) \cup {e}
<1>1. /\ Append(q, e) \in Seq(S) /\ Len(Append(q, e)) = Len(q) + 1
      /\ \A i \in 1 .. Len(q) : Append(q, e)[i] = q[i]
      /\ Append(q, e)[Len(q) + 1] = e
    BY AppendProperties
<1>2. Len(q) \in Nat
    BY LenProperties
<1>3. \A i \in 1 .. Len(q) + 1 : i \in 1 .. Len(q) \/ i = Len(q) + 1
    BY <1>2
<1> QED BY <1>1, <1>3 DEF Elements

LEMMA GoneKeeps ==
    ASSUME IInv, NEW n \in Nodes, Gone(n),
           UNCHANGED <<host, running, starts, asked, replies, wrongOff, outcomes>>
    PROVE  IInv'
<1> DEFINE c == [type |-> "conf", members |-> member \ {n}, left |-> {n}, joined |-> {}]
<1>0. /\ Types /\ phase' = [phase EXCEPT ![n] = "down"] /\ member' = member \ {n}
      /\ inbox' = [m \in Nodes |-> IF m \in member \ {n} THEN Append(inbox[m], c)
                                   ELSE IF m = n THEN <<>> ELSE inbox[m]]
      /\ high' = [high EXCEPT ![n] = None] /\ local' = [local EXCEPT ![n] = {}]
      /\ remote' = [remote EXCEPT ![n] = [v \in VMs |-> None]]
      /\ seqnum' = [seqnum EXCEPT ![n] = 0] /\ pending' = [pending EXCEPT ![n] = {}]
      /\ listener' = [listener EXCEPT ![n] = Idle]
    BY DEF IInv, Gone
<1>1. c \in Confs /\ c \in Messages /\ c.type = "conf"
  <2>1. member \subseteq Nodes
      BY <1>0 DEF Types
  <2>2. c \in Confs /\ c.type = "conf"
      BY <2>1 DEF Confs
  <2> QED BY <2>2, MessageKinds
<1> HIDE DEF c
<1>2. ASSUME NEW m \in Nodes
      PROVE  inbox'[m] \in Seq(Messages) /\ Elements(inbox'[m]) \subseteq Elements(inbox[m]) \cup {c}
  <2>1. inbox[m] \in Seq(Messages)
      BY <1>0 DEF Types
  <2>2. inbox'[m] = Append(inbox[m], c) \/ inbox'[m] = <<>> \/ inbox'[m] = inbox[m]
      BY <1>0
  <2>3. CASE inbox'[m] = Append(inbox[m], c)
      BY <1>1, <2>1, <2>3, AppendElements
  <2>4. CASE inbox'[m] = <<>>
      BY <2>4, NoElement
  <2> QED BY <2>1, <2>2, <2>3, <2>4
<1>3. inbox' \in [Nodes -> Seq(Messages)] /\ \A m \in Nodes : Waiting(m)' \subseteq Waiting(m) \cup {c}
    BY <1>0, <1>2 DEF Waiting, Elements
<1>4. Idle \in Listeners /\ Idle.state = "idle"
    BY DEF Idle, Listeners
<1>5. /\ pending' \in [Nodes -> SUBSET Entries] /\ listener' \in [Nodes -> Listeners]
      /\ seqnum' \in [Nodes -> Nat] /\ phase' \in [Nodes -> Phases]
      /\ phase'[n] = "down" /\ pending'[n] = {} /\ listener'[n] = Idle
      /\ \A k \in Nodes \ {n} : /\ pending'[k] = pending[k] /\ listener'[k] = listener[k]
                                /\ phase'[k] = phase[k] /\ seqnum'[k] = seqnum[k]
    BY <1>0, <1>4 DEF Types, Phases
<1>6. member' = {k \in Nodes : phase'[k] # "down"}
    BY <1>0, <1>5 DEF Types
<1>7. Types'
    BY <1>0, <1>3, <1>5, <1>6 DEF Types
<1>8. Harmless
    BY <1>1, <1>3, <1>4, <1>5 DEF Harmless
<1> QED BY <1>7, <1>8, HarmlessKeeps DEF IInv, AnswersOwnRequest

\* cpg_start: from now on starts # 0.
LEMMA StartKeeps ==
    ASSUME IInv, NEW n \in Nodes, cpg_start(n)
    PROVE  IInv'
<1> DEFINE c == [type |-> "conf", members |-> member \cup {n}, left |-> {}, joined |-> {n}]
<1>0. /\ Types /\ Asking /\ Filed /\ starts' = starts + 1
      /\ phase' = [phase EXCEPT ![n] = "joined"] /\ member' = member \cup {n}
      /\ inbox' = [m \in Nodes |-> IF m \in member \cup {n} THEN Append(inbox[m], c) ELSE inbox[m]]
      /\ UNCHANGED <<high, local, remote, seqnum, pending, listener, host, running, asked,
                     replies, wrongOff>>
    BY DEF IInv, cpg_start, hostVars, history
<1>1. c \in Messages
  <2>1. member \subseteq Nodes
      BY <1>0 DEF Types
  <2>2. c \in Confs
      BY <2>1 DEF Confs
  <2> QED BY <2>2, MessageKinds
<1> HIDE DEF c
<1>2. ASSUME NEW m \in Nodes PROVE inbox'[m] \in Seq(Messages)
  <2>1. inbox[m] \in Seq(Messages)
      BY <1>0 DEF Types
  <2> QED BY <1>0, <1>1, <2>1, AppendElements
<1>3. inbox' \in [Nodes -> Seq(Messages)]
    BY <1>0, <1>2
<1>4. phase' \in [Nodes -> Phases] /\ member' = {k \in Nodes : phase'[k] # "down"}
    BY <1>0 DEF Types, Phases
<1>5. starts' \in Nat /\ starts' # 0
    BY <1>0 DEF Types
<1>6. Types'
    BY <1>0, <1>3, <1>4, <1>5 DEF Types
<1>7. Asking' /\ Filed'
    BY <1>0 DEF Asking, Filed
<1> QED BY <1>5, <1>6, <1>7 DEF IInv

LEMMA HostlistKeeps ==
    ASSUME IInv, NEW n \in Nodes, cpg_virt_hostlist(n)
    PROVE  IInv'
<1>0. Types /\ UNCHANGED <<host, running, starts, asked, replies, wrongOff, outcomes>>
    BY DEF IInv, cpg_virt_hostlist, hostVars, history
<1>1. CASE Gone(n)
    BY <1>0, <1>1, GoneKeeps
<1>2. CASE /\ local' = [local EXCEPT ![n] = vl_get(n)]
           /\ \E msgs \in update_local_vms(n) : inbox' = Mcast(inbox, msgs)
           /\ UNCHANGED <<phase, member, high, remote, seqnum, pending, listener>>
  <2>1. PICK msgs \in update_local_vms(n) : inbox' = Mcast(inbox, msgs)
      BY <1>2
  <2>2. msgs \in Seq(Messages) /\ Elements(msgs) \subseteq Stores
      BY <1>0, Updates
  <2>3. Harmless /\ inbox' \in [Nodes -> Seq(Messages)]
      BY <1>0, <1>2, <2>1, <2>2, FewerBoxes, Dispatched
  <2>4. Types'
      BY <1>0, <1>2, <2>3, Listed DEF Types
  <2> QED BY <1>0, <2>3, <2>4, HarmlessKeeps DEF IInv, AnswersOwnRequest
<1> QED BY <1>1, <1>2 DEF cpg_virt_hostlist

LEMMA MigrateKeeps ==
    ASSUME IInv, NEW v \in VMs, NEW n \in Nodes, Migrate(v, n)
    PROVE  IInv'
<1>0. /\ Types /\ host' = [host EXCEPT ![v] = n]
      /\ UNCHANGED <<phase, member, inbox, high, local, remote, seqnum, pending, listener, running,
                     starts, asked, replies, wrongOff, outcomes>>
    BY DEF IInv, Migrate, daemonVars, history
<1>1. Types'
    BY <1>0 DEF Types
<1>2. Harmless
    BY <1>0 DEF Harmless, Waiting
<1> QED BY <1>0, <1>1, <1>2, HarmlessKeeps DEF IInv, AnswersOwnRequest

----------------------------------------------------------------------------
(* Every step keeps IInv.                                                  *)

LEMMA InitIInv == Init => IInv
<1> SUFFICES ASSUME Init PROVE IInv
    OBVIOUS
<1>1. Idle \in Listeners /\ Idle.state = "idle"
    BY DEF Idle, Listeners
<1>2. \A n \in Nodes : HighId(n, InitUp) \in Nodes
    BY CpgVirtAssumption, HighIdType
<1>3. \A n \in Nodes : vl_get(n) \subseteq VMs
    BY DEF vl_get, Hosted
<1>4. inbox \in [Nodes -> Seq(Messages)] /\ asked \in Seq([from : Nodes, vm : VMs, op : Ops])
    BY NoElement DEF Init
<1>5. phase \in [Nodes -> Phases] /\ member = {n \in Nodes : phase[n] # "down"}
    BY CpgVirtAssumption DEF Init, Phases
<1>6. high \in [Nodes -> Nodes \cup {None}] /\ local \in [Nodes -> SUBSET VMs]
    BY <1>2, <1>3 DEF Init
<1>7. /\ host \in [VMs -> Nodes \cup {None}] /\ running \subseteq VMs
      /\ remote \in [Nodes -> [VMs -> Nodes \cup {None}]]
    BY DEF Init
<1>8. /\ seqnum \in [Nodes -> Nat] /\ pending \in [Nodes -> SUBSET Entries]
      /\ listener \in [Nodes -> Listeners]
      /\ replies \in [Rids -> SUBSET Nodes] /\ wrongOff \subseteq Rids /\ starts \in Nat
    BY <1>1 DEF Init
<1>9. Types
    BY <1>4, <1>5, <1>6, <1>7, <1>8 DEF Types
<1>10. Asking /\ Filed /\ AnswersOwnRequest
    BY <1>1 DEF Init, Asking, Filed, AnswersOwnRequest
<1>11. Numbered
  <2>1. \A n \in Nodes : Waiting(n) = {}
    <3>1. Elements(<<>>) = {}
        BY NoElement
    <3> QED BY <1>9, <3>1, WaitingMessages DEF Init
  <2>2. \A n \in Nodes : pending[n] = {} /\ listener[n].state = "idle"
      BY <1>1 DEF Init
  <2> QED BY <2>1, <2>2 DEF Numbered, Tied
<1> QED BY <1>9, <1>10, <1>11 DEF IInv

LEMMA NextIInv == IInv /\ [Next]_vars => IInv'
<1> SUFFICES ASSUME IInv, [Next]_vars PROVE IInv'
    OBVIOUS
<1>1. ASSUME NEW n \in Nodes, Crash(n) \/ do_real_work_null(n) PROVE IInv'
    BY <1>1, GoneKeeps DEF Crash, do_real_work_null, hostVars, bounds, history
<1>2. ASSUME NEW n \in Nodes, Dispatch(n) PROVE IInv'
    BY <1>1, <1>2, DeliverKeeps, StoreKeeps, ConfigKeeps, LocalWorkKeeps, UnknownWorkKeeps,
       SilentWorkKeeps DEF Dispatch
<1>3. ASSUME NEW n \in Nodes,
             \/ Listen(n) \/ Startup(n) \/ cpg_start(n) \/ Crash(n)
             \/ cpg_wait_reply_spurious(n) \/ cpg_virt_hostlist(n)
      PROVE  IInv'
    BY <1>1, <1>3, ListenKeeps, InitListKeeps, InitHandleKeeps, StartKeeps, HostlistKeeps DEF Startup
<1>4. CASE UNCHANGED vars
  <2>1. UNCHANGED <<phase, member, inbox, high, local, remote, seqnum, pending, listener, host,
                    running, starts, asked, replies, wrongOff, outcomes>>
      BY <1>4 DEF vars, daemonVars, hostVars, bounds, history
  <2>2. Types'
      BY <2>1 DEF IInv, Types
  <2>3. Harmless
      BY <2>1 DEF Harmless, Waiting
  <2> QED BY <2>1, <2>2, <2>3, HarmlessKeeps DEF IInv, AnswersOwnRequest
<1> QED BY <1>2, <1>3, <1>4, SendKeeps, MigrateKeeps DEF Next

\* The lists, queues, counters and histories of the daemons stay well typed,
\* whoever crashes, joins or migrates and whatever is lost.
THEOREM TypeCorrect == Spec => []TypeOK
<1>1. IInv => TypeOK
  <2> SUFFICES ASSUME Types PROVE TypeOK
      BY DEF IInv
  <2>1. \A n \in Nodes : \A i \in DOMAIN inbox[n] : inbox[n][i] \in Messages
    <3>1. \A n \in Nodes : inbox[n] \in Seq(Messages)
        BY DEF Types
    <3> QED BY <3>1, LenProperties, ElementOfSeq
  <2>2. \A n \in Nodes : \A e \in pending[n] : e \in Entries
      BY DEF Types
  <2> QED BY <2>1, <2>2 DEF Types, TypeOK, Entries, Listeners
<1> QED BY <1>1, InitIInv, NextIInv, PTL DEF Spec

\* While no daemon is started again, which would count its requests from 1
\* again, do_request returns the reply to its own request: with crashes, moved
\* machines, several replies to one request and sends that fail.
THEOREM AnswersOwnRequestCorrect == Spec => [](starts = 0 => AnswersOwnRequest)
<1>1. IInv => (starts = 0 => AnswersOwnRequest)
    BY DEF IInv
<1> QED BY <1>1, InitIInv, NextIInv, PTL DEF Spec

----------------------------------------------------------------------------
(* A machine is taken to be off: with one libvirt connection on every host, *)
(* and machines that do not migrate.                                       *)

OneConnection == \A v, w \in VMs : Uri[v] = Uri[w]

\* In a group that nobody joins: the announcements under way name the host of
\* each machine, the configurations under way name members that are gone, and
\* the remote lists have every machine of the other members.
Settled ==
    /\ \A n \in Nodes : /\ phase[n] \in {"ready", "down"}
                        /\ phase[n] = "down" => inbox[n] = <<>>
    /\ \A n \in member, v \in VMs : host[v] \in member \ {n} => remote[n][v] = host[v]
    /\ \A n \in Nodes : \A m \in Waiting(n) :
          /\ m.type = "store" => \A v \in m.vms : host[v] \in {m.owner, None}
          /\ m.type = "conf" => m.left \cap member = {}
    /\ wrongOff = {}

OffInv == IInv /\ moves \in Nat /\ (starts = 0 => Settled)

LEMMA AllListed ==
    ASSUME OneConnection, NEW n \in Nodes
    PROVE  vl_get(n) = Hosted(n)
<1>1. \A v \in Hosted(n), u \in {Uri[w] : w \in Hosted(n)} : u = Uri[v]
    BY DEF OneConnection, Hosted
<1>2. \A v \in VMs : Uri[v] \in Nat
    BY CpgVirtAssumption
<1>3. \A v \in Hosted(n), u \in {Uri[w] : w \in Hosted(n)} : ~(u > Uri[v])
    BY <1>1, <1>2 DEF Hosted
<1> QED BY <1>3 DEF vl_get

\* Announcements name the host of the machine.
LEMMA AnnouncedTrue ==
    ASSUME OneConnection, NEW n \in Nodes, NEW msgs,
           msgs \in store_domains(n, vl_get(n)) \/ msgs \in update_local_vms(n) \/ msgs = <<>>
    PROVE  \A m \in Elements(msgs) : m.type = "store" /\ \A v \in m.vms : host[v] = m.owner
<1>1. CASE msgs = <<>>
    BY <1>1, NoElement
<1>2. CASE msgs \in store_domains(n, vl_get(n))
  <2>1. PICK out \in SUBSET Hosted(n) :
           msgs = IF out = {} THEN <<>> ELSE <<[type |-> "store", owner |-> n, vms |-> out]>>
      BY <1>2, AllListed DEF store_domains
  <2> DEFINE m == [type |-> "store", owner |-> n, vms |-> out]
  <2>2. m.type = "store" /\ \A v \in m.vms : host[v] = m.owner
      BY <2>1 DEF Hosted
  <2> HIDE DEF m
  <2>3. msgs = <<>> \/ msgs = <<m>>
      BY <2>1 DEF m
  <2>4. CASE msgs = <<m>>
    <3>1. Elements(<<m>>) = {m}
        BY OneElement
    <3> QED BY <2>2, <2>4, <3>1
  <2> QED BY <1>1, <2>3, <2>4
<1>3. CASE msgs \in update_local_vms(n)
    BY <1>1, <1>2, <1>3 DEF update_local_vms
<1> QED BY <1>1, <1>2, <1>3

LEMMA SettledKept ==
    ASSUME Types, Settled, member' \subseteq member, wrongOff' = {},
           \A n \in Nodes : /\ phase'[n] \in {"ready", "down"}
                            /\ phase'[n] = "down" => inbox'[n] = <<>>,
           \A v \in VMs : host'[v] \in {host[v], None},
           \A n \in member', v \in VMs :
               host'[v] \in member' \ {n} => remote'[n][v] = host'[v],
           \A n \in Nodes : \A m \in Waiting(n)' :
              \/ m \in Waiting(n) \/ m.type \in {"req", "reply"}
              \/ m \in Stores /\ \A v \in m.vms : host[v] = m.owner
              \/ m.type = "conf" /\ m.left \cap member' = {}
    PROVE  Settled'
<1>1. ASSUME NEW n \in Nodes, NEW m \in Waiting(n)'
      PROVE  /\ m.type = "store" => \A v \in m.vms : host'[v] \in {m.owner, None}
             /\ m.type = "conf" => m.left \cap member' = {}
  <2>1. CASE m \in Waiting(n)
    <3>1. m \in Messages
        BY <2>1, WaitingMessages
    <3>2. m.type = "store" => m.vms \subseteq VMs
        BY <3>1, MessageKinds DEF Stores
    <3> QED BY <2>1, <3>2 DEF Settled
  <2>2. CASE m \in Stores /\ \A v \in m.vms : host[v] = m.owner
    <3>1. m.type = "store" /\ m.vms \subseteq VMs
        BY <2>2 DEF Stores
    <3> QED BY <2>2, <3>1
  <2> QED BY <1>1, <2>1, <2>2
<1> QED BY <1>1 DEF Settled

\* The messages of a callback or of the listener thread keep it.
LEMMA SendingSettled ==
    ASSUME Types, Settled, NEW n \in Nodes, NEW boxes,
           boxes = inbox \/ (boxes = Popped(n) /\ inbox[n] # <<>>),
           NEW msgs \in Seq(Messages), inbox' = Mcast(boxes, msgs),
           \A m \in Elements(msgs) :
              \/ m.type \in {"req", "reply"}
              \/ m \in Stores /\ \A v \in m.vms : host[v] = m.owner,
           UNCHANGED <<phase, member>>, wrongOff' = {},
           \A v \in VMs : host'[v] \in {host[v], None},
           \A k \in member, v \in VMs :
               host'[v] \in member \ {k} => remote'[k][v] = host'[v]
    PROVE  Settled'
<1>1. Fewer(boxes)
    BY FewerBoxes
<1>2. \A k \in Nodes : Waiting(k)' \subseteq Waiting(k) \cup Elements(msgs)
    BY <1>1, McastAdds
<1>3. ASSUME NEW k \in Nodes, phase[k] = "down" PROVE inbox'[k] = <<>>
  <2>1. inbox[k] = <<>> /\ k \notin member
      BY <1>3 DEF Settled, Types
  <2>2. boxes[k] = inbox[k]
      BY <2>1 DEF Popped, Types
  <2> QED BY <2>1, <2>2 DEF Mcast
<1>4. \A k \in Nodes : phase'[k] \in {"ready", "down"} /\ (phase'[k] = "down" => inbox'[k] = <<>>)
    BY <1>3 DEF Settled
<1> QED BY <1>2, <1>4, SettledKept

LEMMA StoreSettled ==
    ASSUME OneConnection, Types, Settled, NEW n \in Nodes, store_cb(n)
    PROVE  Settled'
<1> DEFINE m == Head1(n)
           fresh == m.owner # n /\ local[n] = {}
<1>0. /\ inbox[n] # <<>> /\ m.type = "store"
      /\ remote' = IF m.owner = n THEN remote ELSE [remote EXCEPT ![n] = vl_update(@, m)]
      /\ UNCHANGED <<phase, member, host, wrongOff>>
    BY DEF store_cb, hostVars, history
<1>1. PICK msgs \in IF fresh THEN update_local_vms(n) ELSE {<<>>} : inbox' = Mcast(Popped(n), msgs)
    BY DEF store_cb
<1>2. msgs \in Seq(Messages) /\ Elements(msgs) \subseteq Stores
    BY <1>1, Updates, NoElement
<1>3. \A x \in Elements(msgs) : \A v \in x.vms : host[v] = x.owner
    BY <1>1, AnnouncedTrue
<1>4. m \in Waiting(n) /\ \A v \in m.vms : host[v] \in {m.owner, None}
    BY <1>0, FewerBoxes DEF Settled
<1> HIDE DEF m
<1>5. ASSUME NEW k \in member, NEW v \in VMs, host[v] \in member \ {k}
      PROVE  remote'[k][v] = host[v]
  <2>1. remote[k][v] = host[v] /\ host[v] # None /\ k \in Nodes
      BY <1>5, CpgVirtAssumption DEF Settled, Types, None
  <2>2. CASE k = n /\ m.owner # n
    <3>1. remote'[k][v] = IF v \in m.vms THEN m.owner ELSE remote[k][v]
        BY <1>0, <2>2 DEF vl_update, Types
    <3> QED BY <1>4, <2>1, <3>1
  <2>3. CASE ~(k = n /\ m.owner # n)
      BY <1>0, <2>1, <2>3 DEF Types
  <2> QED BY <2>2, <2>3
<1>6. wrongOff' = {}
    BY <1>0 DEF Settled
<1> QED BY <1>0, <1>1, <1>2, <1>3, <1>5, <1>6, SendingSettled

LEMMA ConfigSettled ==
    ASSUME OneConnection, Types, Settled, NEW n \in Nodes, cpg_config_change(n)
    PROVE  Settled'
<1> DEFINE m == Head1(n)
<1>0. /\ inbox[n] # <<>> /\ m.type = "conf"
      /\ remote' = [remote EXCEPT ![n] = vl_remove_by_owner(@, m.left)]
      /\ UNCHANGED <<phase, member, host, wrongOff>>
    BY DEF cpg_config_change, hostVars, history
<1>1. PICK msgs \in update_local_vms(n) : inbox' = Mcast(Popped(n), msgs)
    BY DEF cpg_config_change
<1>2. msgs \in Seq(Messages) /\ Elements(msgs) \subseteq Stores
    BY <1>1, Updates
<1>3. \A x \in Elements(msgs) : \A v \in x.vms : host[v] = x.owner
    BY <1>1, AnnouncedTrue
<1>4. m.left \cap member = {}
    BY <1>0, FewerBoxes DEF Settled
<1> HIDE DEF m
<1>5. ASSUME NEW k \in member, NEW v \in VMs, host[v] \in member \ {k}
      PROVE  remote'[k][v] = host[v]
  <2>1. remote[k][v] = host[v] /\ host[v] \notin m.left /\ k \in Nodes
      BY <1>4, <1>5 DEF Settled, Types
  <2>2. CASE k = n
      BY <1>0, <2>1, <2>2 DEF vl_remove_by_owner, Types
  <2>3. CASE k # n
      BY <1>0, <2>1, <2>3 DEF Types
  <2> QED BY <2>2, <2>3
<1>6. wrongOff' = {}
    BY <1>0 DEF Settled
<1> QED BY <1>0, <1>1, <1>2, <1>3, <1>5, <1>6, SendingSettled

\* The messages of do_real_work once more: what they announce is true.
LEMMA WorkAnnounces ==
    ASSUME OneConnection, Types, NEW n \in Nodes, inbox[n] # <<>>, Head1(n).type = "req",
           NEW code \in Codes, NEW s \in update_local_vms(n),
           NEW r \in cpg_send_reply(Reply(n, Head1(n), code))
    PROVE  /\ s \o r \in Seq(Messages)
           /\ \A x \in Elements(s \o r) :
                 \/ x.type \in {"req", "reply"}
                 \/ x \in Stores /\ \A v \in x.vms : host[v] = x.owner
<1>1. Head1(n) \in Requests
    BY FewerBoxes, MessageKinds
<1>2. s \in Seq(Messages) /\ Elements(s) \subseteq Stores
    BY Updates
<1>3. \A x \in Elements(s) : \A v \in x.vms : host[v] = x.owner
    BY AnnouncedTrue
<1>4. r \in Seq(Messages) /\ \A x \in Elements(r) : x \in Answers
    BY <1>1, Replied
<1>5. \A x \in Answers : x.type = "reply"
    BY DEF Answers
<1> QED BY <1>2, <1>3, <1>4, <1>5, ConcatElements

\* A machine that is stopped stays on its host or vanishes.
LEMMA EffectHost ==
    ASSUME NEW v \in VMs, NEW op \in Ops, NEW e \in Effects(v, op)
    PROVE  e.h \in {host[v], None}
<1>1. \A c \in Codes :
         {Same(v, c).h, Started(v, c).h, Stopped(v, c).h} \subseteq {host[v], None}
    BY DEF Same, Started, Stopped
<1> QED BY <1>1, EffectKinds

LEMMA LocalWorkSettled ==
    ASSUME OneConnection, Types, Settled, NEW n \in Nodes, do_real_work_local(n)
    PROVE  Settled'
<1> DEFINE m == Head1(n)
<1>0. inbox[n] # <<>> /\ m.type = "req" /\ UNCHANGED <<phase, member, remote, wrongOff>>
    BY DEF do_real_work_local
<1>1. m.vm \in VMs /\ m.op \in Ops
  <2>1. m \in Requests
      BY <1>0, FewerBoxes, MessageKinds
  <2> QED BY <2>1 DEF Requests
<1>2. PICK e \in Effects(m.vm, m.op) :
         /\ host' = [host EXCEPT ![m.vm] = e.h]
         /\ \E s \in update_local_vms(n), r \in cpg_send_reply(Reply(n, m, e.code)) :
               inbox' = Mcast(Popped(n), s \o r)
    BY DEF do_real_work_local
<1>3. PICK s \in update_local_vms(n), r \in cpg_send_reply(Reply(n, m, e.code)) :
         inbox' = Mcast(Popped(n), s \o r)
    BY <1>2
<1>4. e.code \in Codes /\ e.h \in {host[m.vm], None}
    BY <1>1, EffectTypes, EffectHost
<1>5. /\ s \o r \in Seq(Messages)
      /\ \A x \in Elements(s \o r) :
            \/ x.type \in {"req", "reply"}
            \/ x \in Stores /\ \A v \in x.vms : host[v] = x.owner
    BY <1>0, <1>4, WorkAnnounces
<1> HIDE DEF m
<1>6. \A v \in VMs : host'[v] \in {host[v], None}
    BY <1>1, <1>2, <1>4 DEF Types
<1>7. None \notin member
    BY CpgVirtAssumption DEF Types, None
<1>8. \A k \in member, v \in VMs : host'[v] \in member \ {k} => remote'[k][v] = host'[v]
    BY <1>0, <1>6, <1>7 DEF Settled
<1>9. wrongOff' = {}
    BY <1>0 DEF Settled
<1> QED BY <1>0, <1>3, <1>5, <1>6, <1>8, <1>9, SendingSettled

\* A node that neither has the machine nor knows of it: no member has it.
LEMMA UnknownIsNowhere ==
    ASSUME OneConnection, Types, Settled, NEW n \in Nodes, inbox[n] # <<>>,
           NEW v \in VMs, v \notin Refreshed(n), ~KnownRemote(n, v)
    PROVE  host[v] \notin member
<1>1. phase[n] = "ready" /\ n \in member
    BY DEF Settled, Types
<1>2. host[v] # n
    BY <1>1, AllListed DEF Refreshed, Hosted
<1>3. None \notin member
    BY CpgVirtAssumption DEF Types, None
<1> QED BY <1>1, <1>2, <1>3 DEF Settled, KnownRemote

LEMMA UnknownWorkSettled ==
    ASSUME OneConnection, Types, Settled, NEW n \in Nodes, do_real_work_unknown(n)
    PROVE  Settled'
<1> DEFINE m == Head1(n)
<1>0. /\ inbox[n] # <<>> /\ m.type = "req" /\ UNCHANGED <<phase, member, remote, host>>
      /\ m.vm \notin Refreshed(n) /\ ~KnownRemote(n, m.vm)
      /\ wrongOff' = IF m.op # "on" /\ m.vm \in running /\ host[m.vm] \in member
                     THEN wrongOff \cup {m.rid} ELSE wrongOff
    BY DEF do_real_work_unknown, hostVars
<1>1. m.vm \in VMs /\ m.op \in Ops
  <2>1. m \in Requests
      BY <1>0, FewerBoxes, MessageKinds
  <2> QED BY <2>1 DEF Requests
<1>2. PICK s \in update_local_vms(n), r \in cpg_send_reply(Reply(n, m, UnknownCode(m.op))) :
         inbox' = Mcast(Popped(n), s \o r)
    BY DEF do_real_work_unknown
<1>3. UnknownCode(m.op) \in Codes
    BY <1>1 DEF UnknownCode, Ops, Codes
<1>4. /\ s \o r \in Seq(Messages)
      /\ \A x \in Elements(s \o r) :
            \/ x.type \in {"req", "reply"}
            \/ x \in Stores /\ \A v \in x.vms : host[v] = x.owner
    BY <1>0, <1>3, WorkAnnounces
<1>5. wrongOff' = {}
    BY <1>0, <1>1, UnknownIsNowhere DEF Settled
<1> HIDE DEF m
<1>6. \A k \in member, v \in VMs : host'[v] \in member \ {k} => remote'[k][v] = host'[v]
    BY <1>0 DEF Settled
<1> QED BY <1>0, <1>2, <1>4, <1>5, <1>6, SendingSettled

LEMMA AnnouncingSettled ==
    ASSUME OneConnection, Types, Settled, NEW n \in Nodes, NEW boxes,
           boxes = inbox \/ (boxes = Popped(n) /\ inbox[n] # <<>>),
           NEW msgs, msgs \in update_local_vms(n), inbox' = Mcast(boxes, msgs),
           UNCHANGED <<phase, member, host, remote, wrongOff>>
    PROVE  Settled'
<1>1. msgs \in Seq(Messages) /\ Elements(msgs) \subseteq Stores
    BY Updates
<1>2. \A x \in Elements(msgs) : \A v \in x.vms : host[v] = x.owner
    BY AnnouncedTrue
<1>3. /\ wrongOff' = {}
      /\ \A k \in member, v \in VMs : host'[v] \in member \ {k} => remote'[k][v] = host'[v]
    BY DEF Settled
<1> QED BY <1>1, <1>2, <1>3, SendingSettled

LEMMA DeliverSettled ==
    ASSUME Types, Settled, NEW n \in Nodes, deliver_reply(n)
    PROVE  Settled'
<1>0. /\ inbox[n] # <<>> /\ inbox' = Popped(n)
      /\ UNCHANGED <<phase, member, host, remote, wrongOff>>
    BY DEF deliver_reply, hostVars, history
<1>1. Fewer(inbox')
    BY <1>0, FewerBoxes
<1>2. \A k \in Nodes : Waiting(k)' \subseteq Waiting(k)
    BY <1>1 DEF Fewer, Waiting, Elements
<1>3. \A k \in Nodes \ {n} : inbox'[k] = inbox[k]
    BY <1>0 DEF Popped, Types
<1>4. \A k \in Nodes : phase'[k] \in {"ready", "down"} /\ (phase'[k] = "down" => inbox'[k] = <<>>)
    BY <1>0, <1>3 DEF Settled
<1>5. /\ wrongOff' = {}
      /\ \A k \in member', v \in VMs : host'[v] \in member' \ {k} => remote'[k][v] = host'[v]
    BY <1>0 DEF Settled
<1> QED BY <1>0, <1>2, <1>4, <1>5, SettledKept

\* A daemon goes: the others learn of a configuration without it.
LEMMA GoneSettled ==
    ASSUME Types, Settled, NEW n \in Nodes, Gone(n), UNCHANGED <<host, wrongOff>>
    PROVE  Settled'
<1> DEFINE c == [type |-> "conf", members |-> member \ {n}, left |-> {n}, joined |-> {}]
<1>0. /\ phase' = [phase EXCEPT ![n] = "down"] /\ member' = member \ {n}
      /\ inbox' = [m \in Nodes |-> IF m \in member \ {n} THEN Append(inbox[m], c)
                                   ELSE IF m = n THEN <<>> ELSE inbox[m]]
      /\ remote' = [remote EXCEPT ![n] = [v \in VMs |-> None]]
    BY DEF Gone
<1>1. c \in Messages /\ c.type = "conf" /\ c.left \cap member' = {}
  <2>1. member \subseteq Nodes
      BY DEF Types
  <2>2. c \in Confs /\ c.type = "conf"
      BY <2>1 DEF Confs
  <2> QED BY <1>0, <2>2, MessageKinds
<1> HIDE DEF c
<1>2. ASSUME NEW m \in Nodes PROVE Waiting(m)' \subseteq Waiting(m) \cup {c}
  <2>1. inbox[m] \in Seq(Messages)
      BY DEF Types
  <2>2. inbox'[m] = Append(inbox[m], c) \/ inbox'[m] = <<>> \/ inbox'[m] = inbox[m]
      BY <1>0
  <2>3. CASE inbox'[m] = Append(inbox[m], c)
      BY <1>1, <2>1, <2>3, AppendElements DEF Waiting, Elements
  <2>4. CASE inbox'[m] = <<>>
      BY <2>4, NoElement DEF Waiting, Elements
  <2>5. CASE inbox'[m] = inbox[m]
      BY <2>5 DEF Waiting
  <2> QED BY <2>2, <2>3, <2>4, <2>5
<1>3. \A k \in Nodes : phase'[k] \in {"ready", "down"} /\ (phase'[k] = "down" => inbox'[k] = <<>>)
    BY <1>0 DEF Settled, Types
<1>4. ASSUME NEW k \in member', NEW v \in VMs, host'[v] \in member' \ {k}
      PROVE  remote'[k][v] = host'[v]
    BY <1>0, <1>4 DEF Settled, Types
<1>5. wrongOff' = {}
    BY DEF Settled
<1> QED BY <1>0, <1>1, <1>2, <1>3, <1>4, <1>5, SettledKept

LEMMA HostlistSettled ==
    ASSUME OneConnection, Types, Settled, NEW n \in Nodes, cpg_virt_hostlist(n)
    PROVE  Settled'
<1>0. UNCHANGED <<host, wrongOff>>
    BY DEF cpg_virt_hostlist, hostVars, history
<1>1. CASE Gone(n)
    BY <1>0, <1>1, GoneSettled
<1>2. CASE /\ \E msgs \in update_local_vms(n) : inbox' = Mcast(inbox, msgs)
           /\ UNCHANGED <<phase, member, remote>>
    BY <1>0, <1>2, AnnouncingSettled
<1> QED BY <1>1, <1>2 DEF cpg_virt_hostlist

LEMMA SendSettled ==
    ASSUME Types, Settled, NEW n \in Nodes, NEW v \in VMs, NEW op \in Asks,
           cpg_send_req(n, v, op)
    PROVE  Settled'
<1> DEFINE rid == Len(asked) + 1
           req == [type |-> "req", from |-> n, seqno |-> seqnum[n] + 1, vm |-> v, op |-> op,
                   rid |-> rid]
<1>0. /\ rid <= MaxRequests /\ UNCHANGED <<phase, member, host, remote, wrongOff>>
      /\ inbox' = Mcast(inbox, <<req>>) \/ inbox' = inbox
    BY DEF cpg_send_req, hostVars
<1>1. req \in Messages /\ req.type = "req"
  <2>1. Len(asked) \in Nat /\ seqnum[n] \in Nat /\ MaxRequests \in Nat
      BY LenProperties, CpgVirtAssumption DEF Types
  <2>2. rid \in Rids /\ seqnum[n] + 1 \in Nat /\ op \in Ops
      BY <1>0, <2>1, CpgVirtAssumption DEF Rids
  <2>3. req \in Requests /\ req.type = "req"
      BY <2>2 DEF Requests
  <2> QED BY <2>3, MessageKinds
<1> HIDE DEF req
<1>2. /\ wrongOff' = {}
      /\ \A k \in member, w \in VMs : host'[w] \in member \ {k} => remote'[k][w] = host'[w]
    BY <1>0 DEF Settled
<1>3. CASE inbox' = Mcast(inbox, <<req>>)
  <2>1. <<req>> \in Seq(Messages) /\ Elements(<<req>>) = {req}
      BY <1>1, OneElement
  <2> QED BY <1>0, <1>1, <1>2, <1>3, <2>1, SendingSettled
<1>4. CASE inbox' = inbox
  <2>1. \A k \in Nodes : Waiting(k)' = Waiting(k)
      BY <1>4 DEF Waiting
  <2>2. \A k \in Nodes : /\ phase'[k] \in {"ready", "down"}
                         /\ phase'[k] = "down" => inbox'[k] = <<>>
      BY <1>0, <1>4 DEF Settled
  <2> QED BY <1>0, <1>2, <2>1, <2>2, SettledKept
<1> QED BY <1>0, <1>3, <1>4

LEMMA InitSettled ==
    ASSUME OneConnection, Init
    PROVE  Settled
<1>1. \A n \in Nodes : inbox[n] = <<>> /\ phase[n] \in {"ready", "down"}
    BY DEF Init
<1>2. Types
    BY InitIInv DEF IInv
<1>3. \A n \in Nodes : Waiting(n) = {}
  <2>1. Elements(<<>>) = {}
      BY NoElement
  <2> QED BY <1>1, <1>2, <2>1, WaitingMessages
<1>4. member = InitUp /\ member \subseteq Nodes
    BY CpgVirtAssumption DEF Init
<1>5. ASSUME NEW n \in member, NEW v \in VMs, host[v] \in member \ {n}
      PROVE  remote[n][v] = host[v]
  <2>1. v \in vl_get(host[v])
      BY <1>4, <1>5, AllListed DEF Hosted
  <2> QED BY <1>4, <1>5, <2>1 DEF Init
<1> QED BY <1>1, <1>3, <1>5 DEF Settled, Init

LEMMA NextOff ==
    ASSUME OneConnection, MaxMoves = 0, OffInv, [Next]_vars
    PROVE  OffInv'
<1>0. IInv /\ Types /\ moves \in Nat /\ starts \in Nat
    BY DEF OffInv, IInv, Types
<1>1. IInv'
    BY <1>0, NextIInv
<1>2. \A v \in VMs, n \in Nodes : ~Migrate(v, n)
    BY <1>0 DEF Migrate
<1>3. CASE \E n \in Nodes : cpg_start(n)
  <2>1. moves' = moves /\ starts' = starts + 1
      BY <1>3 DEF cpg_start
  <2>2. starts' # 0
      BY <1>0, <2>1
  <2> QED BY <1>0, <1>1, <2>1, <2>2 DEF OffInv
<1>4. ASSUME ~\E n \in Nodes : cpg_start(n)
      PROVE  moves' = moves /\ starts' = starts
  <2>1. ASSUME NEW n \in Nodes,
               Dispatch(n) \/ Listen(n) \/ Startup(n) \/ Crash(n) \/ cpg_wait_reply_spurious(n)
               \/ cpg_virt_hostlist(n)
        PROVE  moves' = moves /\ starts' = starts
    <3>1. CASE Dispatch(n)
        BY <3>1 DEF Dispatch, deliver_reply, store_cb, cpg_config_change, do_real_work_local,
           do_real_work_unknown, do_real_work_silent, do_real_work_null, bounds
    <3>2. CASE Listen(n) \/ Startup(n) \/ cpg_wait_reply_spurious(n)
        BY <3>2 DEF Listen, Startup, cpg_wait_reply, cpg_wait_reply_woken, cpg_wait_reply_spurious,
           cpg_virt_init_list, cpg_virt_init_handle, bounds
    <3>3. CASE Crash(n) \/ cpg_virt_hostlist(n)
        BY <3>3 DEF Crash, cpg_virt_hostlist
    <3> QED BY <2>1, <3>1, <3>2, <3>3
  <2>2. ASSUME NEW n \in Nodes, NEW v \in VMs, NEW op \in Asks, cpg_send_req(n, v, op)
        PROVE  moves' = moves /\ starts' = starts
      BY <2>2 DEF cpg_send_req, bounds
  <2>3. CASE UNCHANGED vars
      BY <2>3 DEF vars, bounds
  <2> QED BY <1>2, <1>4, <2>1, <2>2, <2>3 DEF Next
<1>5. ASSUME Settled, ~\E n \in Nodes : cpg_start(n) PROVE Settled'
  <2>1. ASSUME NEW n \in Nodes,
               \/ deliver_reply(n) \/ store_cb(n) \/ cpg_config_change(n)
               \/ do_real_work_local(n) \/ do_real_work_unknown(n)
        PROVE  Settled'
      BY <1>0, <1>5, <2>1, DeliverSettled, StoreSettled, ConfigSettled, LocalWorkSettled,
         UnknownWorkSettled
  <2>2. ASSUME NEW n \in Nodes, do_real_work_silent(n) PROVE Settled'
      BY <1>0, <1>5, <2>2, AnnouncingSettled DEF do_real_work_silent, hostVars, history
  <2>3. ASSUME NEW n \in Nodes, do_real_work_null(n) \/ Crash(n) PROVE Settled'
      BY <1>0, <1>5, <2>3, GoneSettled DEF do_real_work_null, Crash, hostVars, history
  <2>4. ASSUME NEW n \in Nodes, Startup(n) PROVE FALSE
      BY <1>5, <2>4 DEF Startup, cpg_virt_init_list, cpg_virt_init_handle, Settled
  <2>5. ASSUME UNCHANGED <<phase, member, inbox, host, remote, wrongOff>> PROVE Settled'
    <3>1. \A k \in Nodes : Waiting(k)' = Waiting(k)
        BY <2>5 DEF Waiting
    <3> QED BY <1>5, <2>5, <3>1 DEF Settled
  <2>6. ASSUME NEW n \in Nodes, Listen(n) \/ cpg_wait_reply_spurious(n)
        PROVE  UNCHANGED <<phase, member, inbox, host, remote, wrongOff>>
      BY <2>6 DEF Listen, cpg_wait_reply, cpg_wait_reply_woken, cpg_wait_reply_spurious,
         hostVars, history
  <2>7. CASE UNCHANGED vars
      BY <2>5, <2>7 DEF vars, daemonVars, hostVars, history
  <2> QED BY <1>0, <1>2, <1>5, <2>1, <2>2, <2>3, <2>4, <2>5, <2>6, <2>7, HostlistSettled,
             SendSettled DEF Next, Dispatch
<1> QED BY <1>0, <1>1, <1>3, <1>4, <1>5 DEF OffInv

\* The comment in do_real_work, "We can safely assume the VM is OFF": in a group
\* that daemons leave and none joins, with one libvirt connection per host and
\* no migration, no node answers as if a machine were off while it runs on a
\* member, for any hosts and machines, crashes and lost messages.
THEOREM OffIsTrueUntilJoinCorrect ==
    ASSUME OneConnection, MaxMoves = 0
    PROVE  Spec => []OffIsTrueUntilJoin
<1>1. Init => OffInv
    BY InitIInv, InitSettled DEF OffInv, Init
<1>2. OffInv /\ [Next]_vars => OffInv'
    BY NextOff
<1>3. OffInv => OffIsTrueUntilJoin
    BY DEF OffInv, Settled, OffIsTrueUntilJoin, OffIsTrue
<1> QED BY <1>1, <1>2, <1>3, PTL DEF Spec
----------------------------------------------------------------------------
(* Somebody replies: in a group that nobody leaves or joins.               *)

\* The node of the highest id of the first members, and the node that has to
\* reply to a request for machine v.
Top == CHOOSE h \in InitUp : \A m \in InitUp : m <= h
Speaker(v) == IF host[v] \in InitUp THEN host[v] ELSE Top

\* Nobody doubts who that is: all nodes agree on the highest id, the remote
\* lists and the announcements under way name the host of a machine.  So a
\* request that nobody has replied to yet waits at its speaker.
Attended ==
    /\ \A n \in InitUp : high[n] = Top
    /\ \A n \in InitUp, v \in VMs :
          remote[n][v] # None => remote[n][v] = host[v] /\ host[v] \in InitUp
    /\ \A n \in Nodes : \A m \in Waiting(n) :
          /\ m.type # "conf"
          /\ m.type = "store" => m.owner \in InitUp /\ \A v \in m.vms : host[v] = m.owner
    /\ \A r \in 1 .. Len(asked) : r \in Rids /\ Speaker(asked[r].vm) \in InitUp /\
          (\/ replies[r] # {}
           \/ \E m \in Waiting(Speaker(asked[r].vm)) :
                 m.type = "req" /\ m.rid = r /\ m.vm = asked[r].vm)

ReplyInv ==
    /\ OffInv
    /\ starts = 0 => member \subseteq InitUp /\ (member = InitUp => Attended)

LEMMA TopHigh ==
    ASSUME NEW n \in InitUp
    PROVE  HighId(n, InitUp) = Top /\ Top \in InitUp
<1>1. InitUp \cup {n} = InitUp /\ InitUp # {} /\ InitUp \subseteq Nat
    BY CpgVirtAssumption
<1>2. IsFiniteSet(InitUp)
    BY CpgVirtAssumption, FS_Subset
<1>3. \E h \in InitUp : \A m \in InitUp : m <= h
    BY <1>1, <1>2, HasLargest
<1>4. Top \in InitUp
    BY <1>3 DEF Top
<1>5. HighId(n, InitUp) = Top
    BY <1>1 DEF HighId, Top
<1> QED BY <1>4, <1>5

LEMMA ConcatHolds ==
    ASSUME NEW S, NEW q \in Seq(S), NEW w \in Seq(S)
    PROVE  Elements(q) \subseteq Elements(q \o w) /\ Elements(w) \subseteq Elements(q \o w)
<1>1. /\ q \o w \in Seq(S) /\ Len(q \o w) = Len(q) + Len(w)
      /\ \A i \in 1 .. Len(q) + Len(w) : (q \o w)[i] =
                     IF i <= Len(q) THEN q[i] ELSE w[i - Len(q)]
    BY ConcatProperties
<1>2. Len(q) \in Nat /\ Len(w) \in Nat
    BY LenProperties
<1>3. \A i \in 1 .. Len(q) : i \in 1 .. Len(q \o w) /\ (q \o w)[i] = q[i]
    BY <1>1, <1>2
<1>4. \A i \in 1 .. Len(w) : Len(q) + i \in 1 .. Len(q \o w) /\ (q \o w)[Len(q) + i] = w[i]
  <2> SUFFICES ASSUME NEW i \in 1 .. Len(w)
               PROVE  Len(q) + i \in 1 .. Len(q \o w) /\ (q \o w)[Len(q) + i] = w[i]
      OBVIOUS
  <2>1. Len(q) + i \in 1 .. Len(q) + Len(w) /\ ~(Len(q) + i <= Len(q)) /\ Len(q) + i - Len(q) = i
      BY <1>2
  <2> QED BY <1>1, <2>1
<1> QED BY <1>3, <1>4 DEF Elements

LEMMA TailHolds ==
    ASSUME NEW S, NEW q \in Seq(S), q # <<>>
    PROVE  Elements(q) \subseteq Elements(Tail(q)) \cup {Head(q)}
<1>1. /\ Tail(q) \in Seq(S) /\ Len(Tail(q)) = Len(q) - 1
      /\ \A i \in 1 .. Len(Tail(q)) : Tail(q)[i] = q[i + 1]
    BY HeadTailProperties
<1>2. Len(q) \in Nat \ {0} /\ Head(q) = q[1]
    BY EmptySeq, LenProperties
<1>3. \A k \in 1 .. Len(q) : k = 1 \/ (k - 1 \in 1 .. Len(Tail(q)) /\ Tail(q)[k - 1] = q[k])
    BY <1>1, <1>2
<1> QED BY <1>2, <1>3 DEF Elements

\* A dispatch and a multicast lose nothing but the event dispatched.
LEMMA McastHolds ==
    ASSUME Types, NEW n \in Nodes, NEW boxes,
           boxes = inbox \/ (boxes = Popped(n) /\ inbox[n] # <<>>),
           NEW msgs \in Seq(Messages), inbox' = Mcast(boxes, msgs)
    PROVE  /\ \A k \in Nodes : \A m \in Waiting(k) :
                 m \in Waiting(k)' \/ (k = n /\ boxes # inbox /\ m = Head1(n))
           /\ \A k \in member : Elements(msgs) \subseteq Waiting(k)'
<1>0. boxes \in [Nodes -> Seq(Messages)]
    BY FewerBoxes DEF Fewer
<1>1. ASSUME NEW k \in Nodes
      PROVE  Elements(boxes[k]) \subseteq Waiting(k)' /\ (k \in member => Elements(msgs) \subseteq Waiting(k)')
  <2>1. inbox'[k] = IF k \in member THEN boxes[k] \o msgs ELSE boxes[k]
      BY DEF Mcast
  <2>2. boxes[k] \in Seq(Messages)
      BY <1>0
  <2>3. Waiting(k)' = Elements(inbox'[k])
      BY DEF Waiting, Elements
  <2> QED BY <2>1, <2>2, <2>3, ConcatHolds
<1>2. ASSUME NEW k \in Nodes, NEW m \in Waiting(k)
      PROVE  m \in Elements(boxes[k]) \/ (k = n /\ boxes # inbox /\ m = Head1(n))
  <2>1. m \in Elements(inbox[k]) /\ inbox[k] \in Seq(Messages)
      BY WaitingMessages DEF Types
  <2>2. CASE boxes[k] = inbox[k]
      BY <2>1, <2>2
  <2>3. CASE boxes[k] # inbox[k]
    <3>1. k = n /\ boxes # inbox /\ boxes[k] = Tail(inbox[k]) /\ inbox[n] # <<>>
        BY <2>3 DEF Popped, Types
    <3> QED BY <2>1, <3>1, TailHolds DEF Head1
  <2> QED BY <2>2, <2>3
<1>3. member \subseteq Nodes
    BY DEF Types
<1> QED BY <1>1, <1>2, <1>3

LEMMA AttendedKept ==
    ASSUME Types, Attended, host' = host, asked' = asked,
           \A n \in InitUp : high'[n] = high[n],
           \A n \in InitUp, v \in VMs :
              \/ remote'[n][v] \in {None, remote[n][v]}
              \/ remote'[n][v] = host[v] /\ host[v] \in InitUp,
           \A n \in Nodes : \A m \in Waiting(n)' :
              \/ m \in Waiting(n) \/ m.type \in {"req", "reply"}
              \/ m.type = "store" /\ m.owner \in InitUp /\ \A v \in m.vms : host[v] = m.owner,
           \A r \in Rids : replies[r] \subseteq replies'[r],
           \A r \in 1 .. Len(asked) : \A m \in Waiting(Speaker(asked[r].vm)) :
              m.type = "req" /\ m.rid = r /\ m.vm = asked[r].vm =>
                 m \in Waiting(Speaker(asked[r].vm))' \/ replies'[r] # {}
    PROVE  Attended'
<1>1. \A n \in InitUp : high'[n] = Top
    BY DEF Attended
<1>2. \A n \in InitUp, v \in VMs :
         remote'[n][v] # None => remote'[n][v] = host'[v] /\ host'[v] \in InitUp
    BY DEF Attended
<1>3. \A n \in Nodes : \A m \in Waiting(n)' :
          /\ m.type # "conf"
          /\ m.type = "store" => m.owner \in InitUp /\ \A v \in m.vms : host'[v] = m.owner
    BY DEF Attended
<1>4. \A r \in 1 .. Len(asked) : r \in Rids /\ Speaker(asked[r].vm)' \in InitUp
    BY DEF Attended, Speaker
<1>5. ASSUME NEW r \in 1 .. Len(asked)
      PROVE  r \in Rids /\ (\/ replies'[r] # {}
                            \/ \E m \in Waiting(Speaker(asked[r].vm))' :
                                  m.type = "req" /\ m.rid = r /\ m.vm = asked[r].vm)
  <2>1. CASE replies[r] # {}
      BY <2>1 DEF Attended
  <2>2. CASE \E m \in Waiting(Speaker(asked[r].vm)) :
                m.type = "req" /\ m.rid = r /\ m.vm = asked[r].vm
      BY <2>2 DEF Attended
  <2> QED BY <2>1, <2>2 DEF Attended
<1>6. \A r \in 1 .. Len(asked') : r \in Rids /\ Speaker(asked[r].vm)' \in InitUp /\
          (\/ replies'[r] # {}
           \/ \E m \in Waiting(Speaker(asked[r].vm))' :
                 m.type = "req" /\ m.rid = r /\ m.vm = asked'[r].vm)
    BY <1>4, <1>5
<1> QED BY <1>1, <1>2, <1>3, <1>6 DEF Attended

\* Who announces is the owner.
LEMMA AnnouncedOwn ==
    ASSUME NEW n \in Nodes, NEW msgs,
           msgs \in store_domains(n, vl_get(n)) \/ msgs \in update_local_vms(n) \/ msgs = <<>>
    PROVE  \A m \in Elements(msgs) : m.owner = n
<1>1. CASE msgs = <<>>
    BY <1>1, NoElement
<1>2. CASE msgs \in store_domains(n, vl_get(n))
  <2>1. PICK out :
           msgs = IF out = {} THEN <<>> ELSE <<[type |-> "store", owner |-> n, vms |-> out]>>
      BY <1>2 DEF store_domains
  <2> DEFINE m == [type |-> "store", owner |-> n, vms |-> out]
  <2>2. m.owner = n
      OBVIOUS
  <2> HIDE DEF m
  <2>3. msgs = <<>> \/ msgs = <<m>>
      BY <2>1 DEF m
  <2>4. CASE msgs = <<m>>
    <3>1. Elements(<<m>>) = {m}
        BY OneElement
    <3> QED BY <2>2, <2>4, <3>1
  <2> QED BY <1>1, <2>3, <2>4
<1>3. CASE msgs \in update_local_vms(n)
    BY <1>1, <1>2, <1>3 DEF update_local_vms
<1> QED BY <1>1, <1>2, <1>3

LEMMA SendingAttended ==
    ASSUME OneConnection, Types, Attended, member = InitUp, NEW n \in Nodes, NEW boxes,
           boxes = inbox \/ (boxes = Popped(n) /\ inbox[n] # <<>>),
           NEW msgs \in Seq(Messages), inbox' = Mcast(boxes, msgs),
           \A m \in Elements(msgs) :
              \/ m.type \in {"req", "reply"}
              \/ m.type = "store" /\ m.owner \in InitUp /\ \A v \in m.vms : host[v] = m.owner,
           UNCHANGED <<host, asked, high>>,
           \A k \in InitUp, v \in VMs :
              \/ remote'[k][v] \in {None, remote[k][v]}
              \/ remote'[k][v] = host[v] /\ host[v] \in InitUp,
           \A r \in Rids : replies[r] \subseteq replies'[r],
           \/ boxes = inbox \/ Head1(n).type # "req"
           \/ replies'[Head1(n).rid] # {} \/ n # Speaker(Head1(n).vm)
    PROVE  Attended'
<1>1. \A k \in Nodes : Waiting(k)' \subseteq Waiting(k) \cup Elements(msgs)
    BY FewerBoxes, McastAdds
<1>2. \A k \in Nodes : \A m \in Waiting(k) :
         m \in Waiting(k)' \/ (k = n /\ boxes # inbox /\ m = Head1(n))
    BY McastHolds
<1>3. ASSUME NEW r \in 1 .. Len(asked), NEW m \in Waiting(Speaker(asked[r].vm)),
             m.type = "req" /\ m.rid = r /\ m.vm = asked[r].vm
      PROVE  m \in Waiting(Speaker(asked[r].vm))' \/ replies'[r] # {}
  <2>1. PICK k \in Nodes : k = Speaker(asked[r].vm)
      BY CpgVirtAssumption DEF Attended
  <2>2. Speaker(asked[r].vm)' = k
      BY <2>1 DEF Speaker
  <2>3. Waiting(Speaker(asked[r].vm))' = Waiting(k)'
      BY <2>2 DEF Waiting
  <2> QED BY <1>2, <1>3, <2>1, <2>3
<1>4. \A k \in Nodes : \A m \in Waiting(k)' :
         \/ m \in Waiting(k) \/ m.type \in {"req", "reply"}
         \/ m.type = "store" /\ m.owner \in InitUp /\ \A v \in m.vms : host[v] = m.owner
    BY <1>1
<1> QED BY <1>3, <1>4, AttendedKept

\* The announcements of a member.
LEMMA OwnAnnouncements ==
    ASSUME OneConnection, Types, member = InitUp, NEW n \in InitUp, NEW msgs,
           msgs \in update_local_vms(n) \/ msgs = <<>>
    PROVE  /\ msgs \in Seq(Messages)
           /\ \A m \in Elements(msgs) :
                 m.type = "store" /\ m.owner \in InitUp /\ \A v \in m.vms : host[v] = m.owner
<1>1. n \in Nodes
    BY CpgVirtAssumption
<1> QED BY <1>1, Updates, NoElement, AnnouncedTrue, AnnouncedOwn

LEMMA StoreAttended ==
    ASSUME OneConnection, Types, Settled, Attended, member = InitUp, NEW n \in Nodes, store_cb(n)
    PROVE  Attended'
<1> DEFINE m == Head1(n)
           fresh == m.owner # n /\ local[n] = {}
<1>0. /\ inbox[n] # <<>> /\ m.type = "store"
      /\ remote' = IF m.owner = n THEN remote ELSE [remote EXCEPT ![n] = vl_update(@, m)]
      /\ UNCHANGED <<phase, member, host, high, asked, replies>>
    BY DEF store_cb, hostVars, history
<1>1. PICK msgs \in IF fresh THEN update_local_vms(n) ELSE {<<>>} : inbox' = Mcast(Popped(n), msgs)
    BY DEF store_cb
<1>2. n \in InitUp
    BY <1>0 DEF Settled, Types
<1>3. /\ msgs \in Seq(Messages)
      /\ \A x \in Elements(msgs) :
            x.type = "store" /\ x.owner \in InitUp /\ \A v \in x.vms : host[v] = x.owner
    BY <1>1, <1>2, OwnAnnouncements
<1>4. m \in Waiting(n) /\ m.owner \in InitUp /\ \A v \in m.vms : host[v] = m.owner
    BY <1>0, FewerBoxes DEF Attended
<1> HIDE DEF m
<1>5. ASSUME NEW k \in InitUp, NEW v \in VMs
      PROVE  \/ remote'[k][v] \in {None, remote[k][v]}
             \/ remote'[k][v] = host[v] /\ host[v] \in InitUp
  <2>1. CASE k = n /\ m.owner # n
    <3>1. remote'[k][v] = IF v \in m.vms THEN m.owner ELSE remote[k][v]
        BY <1>0, <2>1 DEF vl_update, Types
    <3> QED BY <1>4, <3>1
  <2>2. CASE ~(k = n /\ m.owner # n)
    <3>1. k \in Nodes
        BY CpgVirtAssumption
    <3> QED BY <1>0, <2>2, <3>1 DEF Types
  <2> QED BY <2>1, <2>2
<1>6. Head1(n).type # "req"
    BY <1>0 DEF m
<1> QED BY <1>0, <1>1, <1>3, <1>5, <1>6, SendingAttended

LEMMA DeliverAttended ==
    ASSUME OneConnection, Types, Attended, member = InitUp, NEW n \in Nodes, deliver_reply(n)
    PROVE  Attended'
<1>0. /\ inbox[n] # <<>> /\ Head1(n).type = "reply" /\ inbox' = Popped(n)
      /\ UNCHANGED <<host, high, asked, replies, remote>>
    BY DEF deliver_reply, hostVars, history
<1>1. <<>> \in Seq(Messages) /\ Elements(<<>>) = {}
    BY NoElement
<1>2. Popped(n) = Mcast(Popped(n), <<>>)
  <2>1. Popped(n) \in [Nodes -> Seq(Messages)]
      BY <1>0, FewerBoxes DEF Fewer
  <2>2. \A k \in Nodes : Popped(n)[k] \o <<>> = Popped(n)[k]
      BY <2>1, ConcatEmptySeq
  <2> QED BY <2>1, <2>2 DEF Mcast
<1> QED BY <1>0, <1>1, <1>2, SendingAttended

\* A request is dispatched: with no reply, by another node than its speaker.
LEMMA WorkAttended ==
    ASSUME OneConnection, Types, Settled, Attended, member = InitUp, NEW n \in Nodes,
           inbox[n] # <<>>, Head1(n).type = "req", NEW s \in update_local_vms(n), NEW r,
           r = <<>> \/ \E code \in Codes : r \in cpg_send_reply(Reply(n, Head1(n), code)),
           inbox' = Mcast(Popped(n), s \o r),
           UNCHANGED <<host, high, asked, remote>>,
           replies' = replies \/ replies' = [replies EXCEPT ![Head1(n).rid] = @ \cup {n}],
           n = Speaker(Head1(n).vm) => replies' = [replies EXCEPT ![Head1(n).rid] = @ \cup {n}]
    PROVE  Attended'
<1>1. n \in InitUp
    BY DEF Settled, Types
<1>2. Head1(n) \in Requests /\ Head1(n).rid \in Rids
  <2>1. Head1(n) \in Requests
      BY FewerBoxes, MessageKinds
  <2> QED BY <2>1 DEF Requests
<1>3. /\ s \in Seq(Messages)
      /\ \A x \in Elements(s) :
            x.type = "store" /\ x.owner \in InitUp /\ \A v \in x.vms : host[v] = x.owner
    BY <1>1, OwnAnnouncements
<1>4. r \in Seq(Messages) /\ \A x \in Elements(r) : x.type = "reply"
  <2>1. r = <<>> \/ (r \in Seq(Messages) /\ \A x \in Elements(r) : x \in Answers)
      BY <1>2, Replied
  <2>2. \A x \in Answers : x.type = "reply"
      BY DEF Answers
  <2> QED BY <2>1, <2>2, NoElement
<1>5. s \o r \in Seq(Messages) /\ Elements(s \o r) \subseteq Elements(s) \cup Elements(r)
    BY <1>3, <1>4, ConcatElements
<1>6. \A q \in Rids : replies[q] \subseteq replies'[q]
    BY DEF Types
<1>7. n = Speaker(Head1(n).vm) => replies'[Head1(n).rid] # {}
    BY <1>2 DEF Types
<1>8. \A k \in InitUp, v \in VMs : remote'[k][v] \in {None, remote[k][v]}
    OBVIOUS
<1> QED BY <1>3, <1>4, <1>5, <1>6, <1>7, <1>8, SendingAttended

LEMMA ReplySent ==
    ASSUME "reply" \notin Lossy, NEW n, NEW m, NEW code,
           NEW r \in cpg_send_reply(Reply(n, m, code))
    PROVE  r # <<>>
BY DEF cpg_send_reply, Reply

\* Without a transient machine libvirt goes on listing every machine.
LEMMA StaysDefined ==
    ASSUME Transient = {}, NEW v \in VMs, NEW op \in Ops, NEW e \in Effects(v, op)
    PROVE  e.h = host[v]
<1>1. \A c : Same(v, c).h = host[v] /\ Started(v, c).h = host[v] /\ Stopped(v, c).h = host[v]
    BY DEF Same, Started, Stopped
<1> QED BY <1>1, EffectKinds

LEMMA LocalWorkAttended ==
    ASSUME OneConnection, Transient = {}, "reply" \notin Lossy, Types, Settled, Attended,
           member = InitUp, NEW n \in Nodes, do_real_work_local(n)
    PROVE  Attended'
<1> DEFINE m == Head1(n)
<1>0. /\ inbox[n] # <<>> /\ m.type = "req"
      /\ UNCHANGED <<phase, member, remote, high, asked>>
    BY DEF do_real_work_local
<1>1. m.vm \in VMs /\ m.op \in Ops
  <2>1. m \in Requests
      BY <1>0, FewerBoxes, MessageKinds
  <2> QED BY <2>1 DEF Requests
<1>2. PICK e \in Effects(m.vm, m.op) :
         /\ host' = [host EXCEPT ![m.vm] = e.h]
         /\ \E s \in update_local_vms(n), r \in cpg_send_reply(Reply(n, m, e.code)) :
               /\ inbox' = Mcast(Popped(n), s \o r)
               /\ replies' = IF r = <<>> THEN replies
                             ELSE [replies EXCEPT ![m.rid] = @ \cup {n}]
    BY DEF do_real_work_local
<1>3. PICK s \in update_local_vms(n), r \in cpg_send_reply(Reply(n, m, e.code)) :
         /\ inbox' = Mcast(Popped(n), s \o r)
         /\ replies' = IF r = <<>> THEN replies ELSE [replies EXCEPT ![m.rid] = @ \cup {n}]
    BY <1>2
<1>4. e.code \in Codes /\ e.h = host[m.vm]
    BY <1>1, EffectTypes, StaysDefined
<1>5. r # <<>>
    BY ReplySent
<1>6. host' = host
    BY <1>1, <1>2, <1>4 DEF Types
<1>7. replies' = [replies EXCEPT ![m.rid] = @ \cup {n}]
    BY <1>3, <1>5
<1> QED BY <1>0, <1>3, <1>4, <1>6, <1>7, WorkAttended

LEMMA UnknownWorkAttended ==
    ASSUME OneConnection, "reply" \notin Lossy, Types, Settled, Attended,
           member = InitUp, NEW n \in Nodes, do_real_work_unknown(n)
    PROVE  Attended'
<1> DEFINE m == Head1(n)
<1>0. /\ inbox[n] # <<>> /\ m.type = "req"
      /\ UNCHANGED <<phase, member, remote, high, asked, host>>
    BY DEF do_real_work_unknown, hostVars
<1>1. m.op \in Ops
  <2>1. m \in Requests
      BY <1>0, FewerBoxes, MessageKinds
  <2> QED BY <2>1 DEF Requests
<1>2. PICK s \in update_local_vms(n), r \in cpg_send_reply(Reply(n, m, UnknownCode(m.op))) :
         /\ inbox' = Mcast(Popped(n), s \o r)
         /\ replies' = IF r = <<>> THEN replies ELSE [replies EXCEPT ![m.rid] = @ \cup {n}]
    BY DEF do_real_work_unknown
<1>3. UnknownCode(m.op) \in Codes
    BY <1>1 DEF UnknownCode, Ops, Codes
<1>4. r # <<>>
    BY ReplySent
<1> QED BY <1>0, <1>2, <1>3, <1>4, WorkAttended

\* The speaker of a machine is never silent: its host lists it, and nobody
\* else has a machine of no member on its remote list.
LEMMA SpeakerSpeaks ==
    ASSUME OneConnection, Types, Settled, Attended, member = InitUp, NEW n \in InitUp,
           NEW v \in VMs, n = Speaker(v)
    PROVE  ~(v \notin Refreshed(n) /\ (KnownRemote(n, v) \/ ~IsHigh(n)))
<1>0. n \in Nodes /\ phase[n] = "ready"
    BY DEF Settled, Types
<1>1. CASE host[v] \in InitUp
  <2>1. v \in Refreshed(n)
      BY <1>0, <1>1, AllListed DEF Speaker, Refreshed, Hosted
  <2> QED BY <2>1
<1>2. CASE host[v] \notin InitUp
  <2>1. ~KnownRemote(n, v)
      BY <1>2 DEF Attended, KnownRemote
  <2>2. IsHigh(n)
      BY <1>2 DEF Speaker, IsHigh, Attended
  <2> QED BY <2>1, <2>2
<1> QED BY <1>1, <1>2

LEMMA SilentWorkAttended ==
    ASSUME OneConnection, Types, Settled, Attended, member = InitUp, NEW n \in Nodes,
           do_real_work_silent(n)
    PROVE  Attended'
<1> DEFINE m == Head1(n)
<1>0. /\ inbox[n] # <<>> /\ m.type = "req"
      /\ m.vm \notin Refreshed(n) /\ (KnownRemote(n, m.vm) \/ ~IsHigh(n))
      /\ UNCHANGED <<phase, member, remote, high, asked, host, replies>>
    BY DEF do_real_work_silent, hostVars, history
<1>1. PICK s \in update_local_vms(n) : inbox' = Mcast(Popped(n), s)
    BY DEF do_real_work_silent
<1>2. m.vm \in VMs
  <2>1. m \in Requests
      BY <1>0, FewerBoxes, MessageKinds
  <2> QED BY <2>1 DEF Requests
<1>3. n \in InitUp
    BY <1>0 DEF Settled, Types
<1>4. n # Speaker(m.vm)
    BY <1>0, <1>2, <1>3, SpeakerSpeaks
<1>5. s \o <<>> = s
  <2>1. s \in Seq(Messages)
      BY Updates
  <2> QED BY <2>1, ConcatEmptySeq
<1>6. inbox' = Mcast(Popped(n), s \o <<>>)
    BY <1>1, <1>5
<1> HIDE DEF m
<1> QED BY <1>0, <1>4, <1>6, WorkAttended DEF m

LEMMA HostlistAttended ==
    ASSUME OneConnection, Types, Settled, Attended, member = InitUp, member' = InitUp,
           NEW n \in Nodes, cpg_virt_hostlist(n)
    PROVE  Attended'
<1>0. n \in InitUp /\ UNCHANGED <<host, asked, replies>>
    BY DEF cpg_virt_hostlist, hostVars, history, Types
<1>1. ~Gone(n)
    BY <1>0 DEF Gone
<1>2. UNCHANGED <<high, remote>> /\ \E msgs \in update_local_vms(n) : inbox' = Mcast(inbox, msgs)
    BY <1>1 DEF cpg_virt_hostlist
<1>3. PICK msgs \in update_local_vms(n) : inbox' = Mcast(inbox, msgs)
    BY <1>2
<1>4. /\ msgs \in Seq(Messages)
      /\ \A m \in Elements(msgs) :
            m.type = "store" /\ m.owner \in InitUp /\ \A v \in m.vms : host[v] = m.owner
    BY <1>0, <1>3, OwnAnnouncements
<1> QED BY <1>0, <1>2, <1>3, <1>4, SendingAttended

\* A new request waits at every member, and so at its speaker.
LEMMA SendAttended ==
    ASSUME OneConnection, Types, Settled, Attended, member = InitUp, NEW n \in Nodes, NEW v \in VMs,
           NEW op \in Asks, cpg_send_req(n, v, op)
    PROVE  Attended'
<1> DEFINE rid == Len(asked) + 1
           req == [type |-> "req", from |-> n, seqno |-> seqnum[n] + 1, vm |-> v, op |-> op,
                   rid |-> rid]
           a == [from |-> n, vm |-> v, op |-> op]
<1>0. /\ phase[n] = "ready" /\ rid <= MaxRequests /\ UNCHANGED <<phase, member, host, remote, high, replies>>
      /\ \/ inbox' = Mcast(inbox, <<req>>) /\ asked' = Append(asked, a)
         \/ inbox' = inbox /\ asked' = asked
    BY DEF cpg_send_req, hostVars
<1>1. Len(asked) \in Nat /\ seqnum[n] \in Nat /\ MaxRequests \in Nat
    BY LenProperties, CpgVirtAssumption DEF Types
<1>2. rid \in Rids /\ op \in Ops
    BY <1>0, <1>1, CpgVirtAssumption DEF Rids
<1>3. req \in Messages /\ req.type = "req" /\ req.rid = rid /\ req.vm = v
  <2>1. req \in Requests
      BY <1>1, <1>2 DEF Requests
  <2> QED BY <2>1, MessageKinds
<1> HIDE DEF req
<1>4. n \in InitUp
    BY <1>0 DEF Types
<1>5. CASE inbox' = Mcast(inbox, <<req>>) /\ asked' = Append(asked, a)
  <2>0. a \in [from : Nodes, vm : VMs, op : Ops] /\ a.vm = v
      BY <1>2
  <2> HIDE DEF a
  <2>1. /\ Len(asked') = Len(asked) + 1 /\ asked'[rid] = a
        /\ \A r \in 1 .. Len(asked) : asked'[r] = asked[r]
      BY <1>5, <2>0, AppendProperties DEF Types
  <2>2. <<req>> \in Seq(Messages) /\ Elements(<<req>>) = {req}
      BY <1>3, OneElement
  <2>3. /\ \A k \in Nodes : \A m \in Waiting(k) : m \in Waiting(k)'
        /\ \A k \in InitUp : req \in Waiting(k)'
      BY <1>5, <2>2, McastHolds
  <2>4. \A k \in Nodes : Waiting(k)' \subseteq Waiting(k) \cup {req}
      BY <1>5, <2>2, FewerBoxes, McastAdds
  <2>5. \A k \in Nodes : \A m \in Waiting(k)' :
           /\ m.type # "conf"
           /\ m.type = "store" => m.owner \in InitUp /\ \A w \in m.vms : host'[w] = m.owner
      BY <1>0, <1>3, <2>4 DEF Attended
  <2>6. /\ \A k \in InitUp : high'[k] = Top
        /\ \A k \in InitUp, w \in VMs :
              remote'[k][w] # None => remote'[k][w] = host'[w] /\ host'[w] \in InitUp
      BY <1>0 DEF Attended
  <2>7. ASSUME NEW r \in 1 .. Len(asked')
        PROVE  r \in Rids /\ Speaker(asked[r].vm)' \in InitUp /\
                 (\/ replies'[r] # {}
                  \/ \E m \in Waiting(Speaker(asked[r].vm))' :
                        m.type = "req" /\ m.rid = r /\ m.vm = asked'[r].vm)
    <3>1. CASE r \in 1 .. Len(asked)
      <4>1. PICK k \in InitUp : k = Speaker(asked[r].vm)
          BY <3>1 DEF Attended
      <4>2. Speaker(asked[r].vm)' = k /\ k \in Nodes
          BY <1>0, <2>1, <3>1, <4>1, CpgVirtAssumption DEF Speaker
      <4>3. Waiting(Speaker(asked[r].vm))' = Waiting(k)'
          BY <4>2 DEF Waiting
      <4>4. \/ replies[r] # {}
            \/ \E m \in Waiting(k) : m.type = "req" /\ m.rid = r /\ m.vm = asked[r].vm
          BY <3>1, <4>1 DEF Attended
      <4> QED BY <1>0, <2>1, <2>3, <3>1, <4>2, <4>3, <4>4 DEF Attended
    <3>2. CASE r = rid
      <4>1. PICK k \in InitUp : k = Speaker(v)
          BY <1>4, TopHigh DEF Speaker
      <4>2. Speaker(asked[r].vm)' = k
          BY <1>0, <2>0, <2>1, <3>2, <4>1 DEF Speaker
      <4>3. Waiting(Speaker(asked[r].vm))' = Waiting(k)'
          BY <4>2 DEF Waiting
      <4> QED BY <1>2, <1>3, <2>0, <2>1, <2>3, <3>2, <4>2, <4>3
    <3>3. r \in 1 .. Len(asked) \/ r = rid
        BY <1>1, <2>1
    <3> QED BY <3>1, <3>2, <3>3
  <2> QED BY <2>5, <2>6, <2>7 DEF Attended
<1>6. CASE inbox' = inbox /\ asked' = asked
  <2>1. \A k : Waiting(k)' = {inbox[k][i] : i \in 1 .. Len(inbox[k])}
      BY <1>6 DEF Waiting
  <2>2. \A r : Waiting(Speaker(asked[r].vm))' = Waiting(Speaker(asked[r].vm))
      BY <1>0, <1>6 DEF Waiting, Speaker
  <2>3. \A k \in Nodes : \A m \in Waiting(k)' : m \in Waiting(k)
      BY <2>1 DEF Waiting
  <2> QED BY <1>0, <1>6, <2>2, <2>3, AttendedKept
<1> QED BY <1>0, <1>5, <1>6

\* Who is a member when no daemon has been started.
LEMMA MembersLeave ==
    ASSUME Types, [Next]_vars, starts' = 0
    PROVE  starts = 0 /\ member' \subseteq member
<1>0. starts \in Nat
    BY DEF Types
<1>1. ASSUME NEW n \in Nodes PROVE ~cpg_start(n)
    BY <1>0 DEF cpg_start
<1>2. ASSUME NEW n \in Nodes, Dispatch(n) PROVE starts' = starts /\ member' \subseteq member
    BY <1>2 DEF Dispatch, deliver_reply, store_cb, cpg_config_change, do_real_work_local,
       do_real_work_unknown, do_real_work_silent, do_real_work_null, Gone, bounds
<1>3. ASSUME NEW n \in Nodes, Listen(n) \/ Startup(n) \/ cpg_wait_reply_spurious(n)
      PROVE  starts' = starts /\ member' \subseteq member
    BY <1>3 DEF Listen, Startup, cpg_wait_reply, cpg_wait_reply_woken, cpg_wait_reply_spurious,
       cpg_virt_init_list, cpg_virt_init_handle, bounds
<1>4. ASSUME NEW n \in Nodes, Crash(n) \/ cpg_virt_hostlist(n)
      PROVE  starts' = starts /\ member' \subseteq member
    BY <1>4 DEF Crash, cpg_virt_hostlist, Gone
<1>5. ASSUME NEW n \in Nodes, NEW v \in VMs, NEW op \in Asks, cpg_send_req(n, v, op)
      PROVE  starts' = starts /\ member' \subseteq member
    BY <1>5 DEF cpg_send_req, bounds
<1>6. ASSUME NEW n \in Nodes, NEW v \in VMs, Migrate(v, n)
      PROVE  starts' = starts /\ member' \subseteq member
    BY <1>6 DEF Migrate, daemonVars
<1>7. CASE UNCHANGED vars
    BY <1>7 DEF vars, daemonVars, bounds
<1> QED BY <1>1, <1>2, <1>3, <1>4, <1>5, <1>6, <1>7 DEF Next

LEMMA NextReply ==
    ASSUME OneConnection, Transient = {}, "reply" \notin Lossy, MaxMoves = 0, ReplyInv, [Next]_vars
    PROVE  ReplyInv'
<1>0. OffInv /\ Types /\ moves \in Nat
    BY DEF ReplyInv, OffInv, IInv
<1>1. OffInv'
    BY <1>0, NextOff
<1> SUFFICES ASSUME starts' = 0 PROVE member' \subseteq InitUp /\ (member' = InitUp => Attended')
    BY <1>1 DEF ReplyInv
<1>2. starts = 0 /\ member' \subseteq member /\ member \subseteq InitUp
    BY <1>0, MembersLeave DEF ReplyInv
<1> SUFFICES ASSUME member' = InitUp PROVE Attended'
    BY <1>2
<1>3. member = InitUp /\ Attended /\ Settled
    BY <1>2 DEF ReplyInv, OffInv
<1>4. \A n \in Nodes : ~cpg_start(n) /\ \A v \in VMs : ~Migrate(v, n)
    BY <1>0, <1>2 DEF Migrate, cpg_start
<1>5. ASSUME NEW n \in Nodes, Gone(n), phase[n] # "down" PROVE FALSE
    BY <1>0, <1>3, <1>5 DEF Gone, Types
<1>6. ASSUME NEW n \in Nodes, Crash(n) \/ do_real_work_null(n) PROVE FALSE
    BY <1>5, <1>6 DEF Crash, do_real_work_null
<1>7. ASSUME NEW n \in Nodes, cpg_config_change(n) PROVE FALSE
    BY <1>0, <1>3, <1>7, FewerBoxes DEF cpg_config_change, Attended
<1>8. ASSUME NEW n \in Nodes, Dispatch(n) PROVE Attended'
    BY <1>0, <1>3, <1>6, <1>7, <1>8, StoreAttended, DeliverAttended, LocalWorkAttended,
       UnknownWorkAttended, SilentWorkAttended DEF Dispatch
<1>9. ASSUME NEW n \in Nodes, Startup(n) PROVE FALSE
    BY <1>3, <1>9 DEF Startup, cpg_virt_init_list, cpg_virt_init_handle, Settled
<1>10. ASSUME UNCHANGED <<inbox, host, remote, high, asked, replies>> PROVE Attended'
  <2>1. \A k : Waiting(k)' = {inbox[k][i] : i \in 1 .. Len(inbox[k])}
      BY <1>10 DEF Waiting
  <2>2. \A r : Waiting(Speaker(asked[r].vm))' = Waiting(Speaker(asked[r].vm))
      BY <1>10 DEF Waiting, Speaker
  <2>3. \A k \in Nodes : \A m \in Waiting(k)' : m \in Waiting(k)
      BY <2>1 DEF Waiting
  <2> QED BY <1>0, <1>3, <1>10, <2>2, <2>3, AttendedKept
<1>11. ASSUME NEW n \in Nodes, Listen(n) \/ cpg_wait_reply_spurious(n) PROVE Attended'
    BY <1>10, <1>11 DEF Listen, cpg_wait_reply, cpg_wait_reply_woken, cpg_wait_reply_spurious,
       hostVars, history
<1>12. CASE UNCHANGED vars
    BY <1>10, <1>12 DEF vars, daemonVars, hostVars, history
<1> QED BY <1>0, <1>3, <1>4, <1>6, <1>8, <1>9, <1>11, <1>12, HostlistAttended, SendAttended DEF Next

LEMMA InitReply ==
    ASSUME OneConnection, Init
    PROVE  ReplyInv
<1>1. OffInv /\ Types
    BY InitIInv, InitSettled DEF OffInv, Init, IInv
<1>2. member = InitUp /\ \A n \in InitUp : n \in Nodes /\ high[n] = Top
    BY TopHigh, CpgVirtAssumption DEF Init
<1>3. \A n \in Nodes : Waiting(n) = {}
  <2>1. \A n \in Nodes : inbox[n] = <<>>
      BY DEF Init
  <2>2. Elements(<<>>) = {}
      BY NoElement
  <2> QED BY <1>1, <2>1, <2>2, WaitingMessages
<1>4. \A n \in InitUp, v \in VMs :
         remote[n][v] # None => remote[n][v] = host[v] /\ host[v] \in InitUp
    BY <1>2 DEF Init
<1>5. 1 .. Len(asked) = {}
    BY EmptySeq DEF Init
<1> QED BY <1>1, <1>2, <1>3, <1>4, <1>5 DEF ReplyInv, Attended

\* The comment on do_real_work, "This function must a send reply from at least
\* one node": it does, for any hosts and requests and whatever announcements
\* are lost, while the group is the one that started, libvirt has one connection
\* and goes on listing its machines, and no reply fails to be sent.
THEOREM SomeNodeRepliesCorrect ==
    ASSUME OneConnection, Transient = {}, "reply" \notin Lossy, MaxMoves = 0
    PROVE  Spec => [](starts = 0 /\ member = InitUp => SomeNodeReplies)
<1>1. Init => ReplyInv
    BY InitReply
<1>2. ReplyInv /\ [Next]_vars => ReplyInv'
    BY NextReply
<1>3. ReplyInv => (starts = 0 /\ member = InitUp => SomeNodeReplies)
  <2> SUFFICES ASSUME ReplyInv, starts = 0, member = InitUp,
                      NEW r \in DOMAIN asked, replies[r] = {}
               PROVE  ~Handled(r)
      BY DEF SomeNodeReplies
  <2>1. Attended /\ Types
      BY DEF ReplyInv, OffInv, IInv
  <2>2. r \in 1 .. Len(asked)
      BY <2>1, LenProperties DEF Types
  <2>3. PICK k \in InitUp : \E m \in Waiting(k) : m.type = "req" /\ m.rid = r
      BY <2>1, <2>2 DEF Attended
  <2>4. inbox[k] \in Seq(Messages)
      BY <2>1, CpgVirtAssumption DEF Types
  <2>5. DOMAIN inbox[k] = 1 .. Len(inbox[k])
      BY <2>4, LenProperties
  <2> QED BY <2>3, <2>5 DEF Handled, Waiting
<1> QED BY <1>1, <1>2, <1>3, PTL DEF Spec
----------------------------------------------------------------------------
(* Only one node replies: in a group that nobody joins, whoever leaves.    *)

\* The members, and the nodes whose departure node k will dispatch behind
\* position p of its queue.
Known(k, p) ==
    member \cup {x \in Nodes : \E i \in 1 .. Len(inbox[k]) :
                    i > p /\ inbox[k][i].type = "conf" /\ x \in inbox[k][i].left}

\* The nodes that libvirt, a remote list or an announcement under way has for
\* the host of machine v.
Claims(v) ==
    {host[v]} \cup {remote[k][v] : k \in Nodes} \cup
    {x \in Nodes : \E k \in Nodes : \E m \in Waiting(k) :
        m.type = "store" /\ m.owner = x /\ v \in m.vms}

\* Node k will not reply to the request at position p of its queue, to which
\* node n has replied: the machine is not on k, and n is a node of a higher id
\* that k then takes to be a member, or the host that k then has on its list.
Yields(n, k, p) ==
    LET v == inbox[k][p].vm
    IN  /\ host[v] # k
        /\ \/ n > k /\ n \in Known(k, p)
           \/ /\ remote[k][v] = n
              /\ \A i \in 1 .. p - 1 : inbox[k][i].type = "conf" => n \notin inbox[k][i].left

\* All that a configuration change or high_id_from_callback has left out is gone.
HighKnown ==
    /\ \A k \in member : \A x \in Known(k, 0) : x <= high[k]
    /\ \A k \in member : \A p \in 1 .. Len(inbox[k]) :
          inbox[k][p].type = "conf" => Known(k, p) \subseteq inbox[k][p].members

\* A request under way is one that was asked, and so is one replied to.
Genuine ==
    /\ \A k \in Nodes : \A m \in Waiting(k) :
          m.type = "req" => m.rid \in 1 .. Len(asked) /\ m.vm = asked[m.rid].vm
    /\ \A r \in Rids : replies[r] # {} => r \in 1 .. Len(asked)
    /\ 1 .. Len(asked) \subseteq Rids

OneOwner == \A v \in VMs : \A x, y \in Claims(v) \ {None} : x = y

OneReply == \A r \in Rids : \A x, y \in replies[r] : x = y

OthersYield ==
    \A k \in member : \A p \in 1 .. Len(inbox[k]) :
        inbox[k][p].type = "req" =>
            \A n \in replies[inbox[k][p].rid] : n = k \/ Yields(n, k, p)

One == HighKnown /\ Genuine /\ OneOwner /\ OneReply /\ OthersYield

OneInv == OffInv /\ (starts = 0 => One)

\* How a queue moves: d events go from its front, some of new come behind.
Shifted(k, d, new) ==
    /\ Len(inbox'[k]) + d >= Len(inbox[k])
    /\ \A i \in 1 .. Len(inbox'[k]) :
          \/ i + d <= Len(inbox[k]) /\ inbox'[k][i] = inbox[k][i + d]
          \/ i + d > Len(inbox[k]) /\ inbox'[k][i] \in new

LEMMA LenNat ==
    ASSUME Types, NEW k \in Nodes
    PROVE  Len(inbox[k]) \in Nat
BY LenProperties DEF Types

LEMMA McastShifts ==
    ASSUME Types, NEW n \in Nodes, NEW d \in {0, 1}, NEW boxes,
           boxes = IF d = 1 THEN Popped(n) ELSE inbox, d = 1 => inbox[n] # <<>>,
           NEW msgs \in Seq(Messages), inbox' = Mcast(boxes, msgs), NEW k \in member
    PROVE  Shifted(k, IF k = n THEN d ELSE 0, Elements(msgs))
<1> DEFINE e == IF k = n THEN d ELSE 0
<1>0. k \in Nodes /\ inbox[k] \in Seq(Messages) /\ e \in {0, 1} /\ (e = 1 => inbox[k] # <<>>)
    BY DEF Types
<1>1. Len(inbox[k]) \in Nat /\ Len(msgs) \in Nat
    BY LenProperties, LenNat, <1>0
<1>2. boxes[k] = IF e = 1 THEN Tail(inbox[k]) ELSE inbox[k]
    BY <1>0 DEF Popped, Types
<1> HIDE DEF e
<1>3. /\ boxes[k] \in Seq(Messages) /\ Len(boxes[k]) = Len(inbox[k]) - e
      /\ \A i \in 1 .. Len(boxes[k]) : boxes[k][i] = inbox[k][i + e]
  <2>1. CASE e = 1
    <3>1. /\ Tail(inbox[k]) \in Seq(Messages) /\ Len(Tail(inbox[k])) = Len(inbox[k]) - 1
          /\ \A i \in 1 .. Len(Tail(inbox[k])) : Tail(inbox[k])[i] = inbox[k][i + 1]
        BY <1>0, <2>1, HeadTailProperties
    <3> QED BY <1>2, <2>1, <3>1
  <2>2. CASE e = 0
    <3>1. boxes[k] = inbox[k] /\ Len(inbox[k]) - e = Len(inbox[k])
        BY <1>1, <1>2, <2>2
    <3>2. \A i \in 1 .. Len(inbox[k]) : i + e = i
        BY <1>1, <2>2
    <3> QED BY <1>0, <3>1, <3>2
  <2> QED BY <1>0, <2>1, <2>2
<1>4. inbox'[k] = boxes[k] \o msgs
    BY <1>0 DEF Mcast
<1>5. /\ Len(inbox'[k]) = Len(boxes[k]) + Len(msgs)
      /\ \A i \in 1 .. Len(inbox'[k]) : inbox'[k][i] =
             IF i <= Len(boxes[k]) THEN boxes[k][i] ELSE msgs[i - Len(boxes[k])]
  <2>1. /\ Len(boxes[k] \o msgs) = Len(boxes[k]) + Len(msgs)
        /\ \A i \in 1 .. Len(boxes[k]) + Len(msgs) : (boxes[k] \o msgs)[i] =
               IF i <= Len(boxes[k]) THEN boxes[k][i] ELSE msgs[i - Len(boxes[k])]
      BY <1>3, ConcatProperties
  <2> QED BY <1>4, <2>1
<1>6. Len(boxes[k]) \in Nat /\ e \in Nat
    BY <1>0, <1>3, LenProperties
<1>7. ASSUME NEW i \in 1 .. Len(inbox'[k])
      PROVE  \/ i + e <= Len(inbox[k]) /\ inbox'[k][i] = inbox[k][i + e]
             \/ i + e > Len(inbox[k]) /\ inbox'[k][i] \in Elements(msgs)
  <2>1. CASE i <= Len(boxes[k])
    <3>1. i \in 1 .. Len(boxes[k]) /\ i + e <= Len(inbox[k])
        BY <1>1, <1>3, <1>6, <2>1
    <3> QED BY <1>3, <1>5, <2>1, <3>1
  <2>2. CASE ~(i <= Len(boxes[k]))
    <3>1. i - Len(boxes[k]) \in 1 .. Len(msgs) /\ i + e > Len(inbox[k])
        BY <1>1, <1>3, <1>5, <1>6, <2>2
    <3> QED BY <1>5, <2>2, <3>1 DEF Elements
  <2> QED BY <2>1, <2>2
<1>8. Len(inbox'[k]) + e >= Len(inbox[k])
    BY <1>1, <1>3, <1>5, <1>6
<1> QED BY <1>7, <1>8 DEF Shifted, e

\* While nobody leaves, what is behind a position moves with it.
LEMMA ShiftKnown ==
    ASSUME Types, Types', member' = member, NEW k \in Nodes, NEW d \in {0, 1}, NEW new,
           Shifted(k, d, new), \A m \in new : m.type # "conf", NEW p \in Nat
    PROVE  Known(k, p)' = Known(k, p + d)
<1>0. Len(inbox[k]) \in Nat /\ Len(inbox'[k]) \in Nat
    BY LenProperties DEF Types
<1>1. ASSUME NEW i \in 1 .. Len(inbox'[k]), i > p, inbox'[k][i].type = "conf"
      PROVE  i + d \in 1 .. Len(inbox[k]) /\ i + d > p + d /\ inbox[k][i + d] = inbox'[k][i]
    BY <1>0, <1>1 DEF Shifted
<1>2. ASSUME NEW i \in 1 .. Len(inbox[k]), i > p + d
      PROVE  i - d \in 1 .. Len(inbox'[k]) /\ i - d > p /\ inbox'[k][i - d] = inbox[k][i]
  <2>1. i - d \in 1 .. Len(inbox'[k]) /\ i - d > p /\ (i - d) + d = i /\ ~(i > Len(inbox[k]))
      BY <1>0, <1>2 DEF Shifted
  <2> QED BY <2>1 DEF Shifted
<1>3. ASSUME NEW x \in Nodes, NEW i \in 1 .. Len(inbox'[k]), i > p, inbox'[k][i].type = "conf",
             x \in inbox'[k][i].left
      PROVE  x \in Known(k, p + d)
    BY <1>1, <1>3 DEF Known
<1>4. ASSUME NEW x \in Nodes, NEW i \in 1 .. Len(inbox[k]), i > p + d, inbox[k][i].type = "conf",
             x \in inbox[k][i].left
      PROVE  x \in Known(k, p)'
    BY <1>2, <1>4 DEF Known
<1>5. member \subseteq Known(k, p + d) /\ member \subseteq Known(k, p)'
    BY DEF Known
<1>6. Known(k, p)' \subseteq Known(k, p + d)
    BY <1>3, <1>5 DEF Known
<1>7. Known(k, p + d) \subseteq Known(k, p)'
    BY <1>4, <1>5 DEF Known
<1> QED BY <1>6, <1>7

LEMMA HighKept ==
    ASSUME Types, Types', HighKnown, member' \subseteq member, NEW off \in [Nodes -> {0, 1}], NEW new,
           \A k \in member' : Shifted(k, off[k], new) /\ off[k] <= Len(inbox[k]),
           \A k \in member' : \A p \in Nat :
              p + off[k] <= Len(inbox[k]) => Known(k, p)' = Known(k, p + off[k]),
           \A k \in member' : \A x \in Known(k, off[k]) : x <= high'[k],
           \A k \in member' : \A p \in 1 .. Len(inbox'[k]) :
              p + off[k] > Len(inbox[k]) /\ inbox'[k][p].type = "conf" =>
                 Known(k, p)' \subseteq inbox'[k][p].members
    PROVE  HighKnown'
<1>0. \A k \in member' : /\ k \in Nodes /\ k \in member /\ off[k] \in {0, 1}
                         /\ Len(inbox[k]) \in Nat /\ Len(inbox'[k]) \in Nat
    BY LenProperties DEF Types
<1>1. ASSUME NEW k \in member', NEW x \in Known(k, 0)' PROVE x <= high'[k]
  <2>1. 0 \in Nat /\ 0 + off[k] = off[k]
      BY <1>0
  <2> QED BY <1>1, <2>1
<1>2. ASSUME NEW k \in member', NEW p \in 1 .. Len(inbox'[k]), inbox'[k][p].type = "conf"
      PROVE  Known(k, p)' \subseteq inbox'[k][p].members
  <2>1. CASE p + off[k] <= Len(inbox[k])
    <3>1. inbox'[k][p] = inbox[k][p + off[k]] /\ p \in Nat /\ p + off[k] \in 1 .. Len(inbox[k])
        BY <1>0, <2>1 DEF Shifted
    <3>2. Known(k, p)' = Known(k, p + off[k])
        BY <2>1, <3>1
    <3>3. Known(k, p + off[k]) \subseteq inbox[k][p + off[k]].members
        BY <1>0, <1>2, <3>1 DEF HighKnown
    <3> QED BY <3>1, <3>2, <3>3
  <2>2. CASE p + off[k] > Len(inbox[k])
      BY <1>2, <2>2
  <2> QED BY <1>0, <2>1, <2>2
<1> QED BY <1>1, <1>2 DEF HighKnown

\* Who yields goes on doing so: the machine does not come to it, and nothing
\* that it dispatches before the request makes it forget the node that replied.
LEMMA YieldsKept ==
    ASSUME Types, Types', Settled, OthersYield, member' \subseteq member,
           NEW off \in [Nodes -> {0, 1}], NEW new,
           \A k \in member' : Shifted(k, off[k], new) /\ off[k] <= Len(inbox[k]),
           \A k \in member' : \A p \in Nat :
              p + off[k] <= Len(inbox[k]) => Known(k, p)' = Known(k, p + off[k]),
           \A v \in VMs : host'[v] \in {host[v], None},
           \A k \in member', v \in VMs :
              \/ remote'[k][v] = remote[k][v] \/ remote[k][v] = None
              \/ /\ off[k] = 1 /\ inbox[k][1].type = "conf"
                 /\ remote[k][v] \in inbox[k][1].left,
           \A m \in new : m.type = "req" => replies'[m.rid] = {},
           \A k \in member' : \A q \in 1 .. Len(inbox[k]) : inbox[k][q].type = "req" =>
              \A n \in replies'[inbox[k][q].rid] :
                 \/ n = k \/ n \in replies[inbox[k][q].rid]
                 \/ /\ n \in member' /\ host'[inbox[k][q].vm] # k
                    /\ n > k \/ remote'[k][inbox[k][q].vm] = n
    PROVE  OthersYield'
<1> SUFFICES ASSUME NEW k \in member', NEW p \in 1 .. Len(inbox'[k]), inbox'[k][p].type = "req",
                    NEW n \in replies'[inbox'[k][p].rid], n # k
             PROVE  Yields(n, k, p)'
    BY DEF OthersYield
<1> DEFINE q == p + off[k]
<1>0. /\ k \in Nodes /\ k \in member /\ off[k] \in {0, 1} /\ None \notin Nodes
      /\ Len(inbox[k]) \in Nat /\ Len(inbox'[k]) \in Nat /\ inbox'[k][p] \in Messages
    BY LenProperties, ElementOfSeq, CpgVirtAssumption DEF Types, None
<1>1. inbox'[k][p].rid \in Rids /\ inbox'[k][p].vm \in VMs
  <2>1. inbox'[k][p] \in Requests
      BY <1>0, MessageKinds
  <2> QED BY <2>1 DEF Requests
<1>2. n \in Nodes
    BY <1>1 DEF Types
<1>3. q \in 1 .. Len(inbox[k]) /\ inbox'[k][p] = inbox[k][q]
  <2>1. \/ q <= Len(inbox[k]) /\ inbox'[k][p] = inbox[k][q]
        \/ inbox'[k][p] \in new
      BY DEF Shifted
  <2>2. inbox'[k][p] \notin new
      OBVIOUS
  <2>3. q >= 1 /\ q \in Nat
      BY <1>0
  <2> QED BY <1>0, <2>1, <2>2, <2>3
<1>4. p \in Nat /\ Known(k, p)' = Known(k, q)
  <2>1. p \in Nat /\ q <= Len(inbox[k])
      BY <1>0, <1>3
  <2> QED BY <2>1
<1>5. inbox[k][q].type = "req" /\ n \in replies'[inbox[k][q].rid]
    BY <1>3
<1> DEFINE v == inbox[k][q].vm
<1>6. inbox'[k][p].vm = v /\ v \in VMs
    BY <1>1, <1>3
<1>7. ASSUME NEW i \in 1 .. p - 1
      PROVE  i + off[k] \in 1 .. q - 1 /\ inbox'[k][i] = inbox[k][i + off[k]]
    BY <1>0, <1>3 DEF Shifted
<1>8. CASE n \in replies[inbox[k][q].rid]
  <2>1. Yields(n, k, q)
      BY <1>0, <1>3, <1>8 DEF OthersYield
  <2>2. host'[v] # k
      BY <1>0, <1>6, <2>1 DEF Yields
  <2>3. CASE n > k /\ n \in Known(k, q)
      BY <1>4, <1>6, <2>2, <2>3 DEF Yields
  <2>4. CASE /\ remote[k][v] = n
             /\ \A i \in 1 .. q - 1 : inbox[k][i].type = "conf" => n \notin inbox[k][i].left
    <3>1. remote'[k][v] = n
      <4>1. CASE off[k] = 1 /\ inbox[k][1].type = "conf" /\ n \in inbox[k][1].left
        <5>1. 1 \in 1 .. q - 1
            BY <1>0, <4>1
        <5> QED BY <2>4, <4>1, <5>1
      <4> QED BY <1>0, <1>2, <1>6, <2>4, <4>1
    <3>2. ASSUME NEW i \in 1 .. p - 1, inbox'[k][i].type = "conf" PROVE n \notin inbox'[k][i].left
      <4>1. i + off[k] \in 1 .. q - 1 /\ inbox'[k][i] = inbox[k][i + off[k]]
          BY <1>7
      <4> QED BY <2>4, <3>2, <4>1
    <3> QED BY <1>6, <2>2, <3>1, <3>2 DEF Yields
  <2> QED BY <2>1, <2>3, <2>4 DEF Yields
<1>9. CASE n \notin replies[inbox[k][q].rid]
  <2>1. n \in member' /\ host'[v] # k /\ (n > k \/ remote'[k][v] = n)
      BY <1>3, <1>9, <1>5
  <2>2. n \in Known(k, p)'
      BY <2>1 DEF Known
  <2>3. ASSUME NEW i \in 1 .. p - 1, inbox'[k][i].type = "conf" PROVE n \notin inbox'[k][i].left
    <3>1. inbox[k][i + off[k]] = inbox'[k][i] /\ i + off[k] \in 1 .. Len(inbox[k])
        BY <1>0, <1>3, <1>7
    <3>2. inbox[k][i + off[k]] \in Waiting(k)
        BY <3>1 DEF Waiting
    <3> QED BY <1>0, <2>1, <2>3, <3>1, <3>2 DEF Settled
  <2> QED BY <1>6, <2>1, <2>2, <2>3 DEF Yields
<1> QED BY <1>8, <1>9

LEMMA GenuineKept ==
    ASSUME Genuine, asked' = asked, NEW new,
           \A k \in Nodes : Waiting(k)' \subseteq Waiting(k) \cup new,
           \A m \in new : m.type # "req",
           \A r \in Rids : replies'[r] # {} => r \in 1 .. Len(asked)
    PROVE  Genuine'
BY DEF Genuine

\* No step has a new host for a machine.
LEMMA OwnerKept ==
    ASSUME Types, Types', OneOwner, \A v \in VMs : host'[v] \in {host[v], None},
           \A k \in Nodes, v \in VMs : remote'[k][v] \in Claims(v) \cup {None},
           \A k \in Nodes : \A m \in Waiting(k)' :
              \/ m \in Waiting(k) \/ m.type # "store"
              \/ \A v \in m.vms : host[v] = m.owner
    PROVE  OneOwner'
<1>1. ASSUME NEW v \in VMs, NEW x \in Claims(v)', x # None PROVE x \in Claims(v)
  <2>1. CASE x = host'[v]
      BY <1>1, <2>1 DEF Claims
  <2>2. CASE x \in {remote'[k][v] : k \in Nodes}
      BY <1>1, <2>2
  <2>3. CASE x \in Nodes /\ \E k \in Nodes : \E m \in Waiting(k)' :
                m.type = "store" /\ m.owner = x /\ v \in m.vms
    <3>1. PICK k \in Nodes : \E m \in Waiting(k)' : m.type = "store" /\ m.owner = x /\ v \in m.vms
        BY <2>3
    <3>2. PICK m \in Waiting(k)' : m.type = "store" /\ m.owner = x /\ v \in m.vms
        BY <3>1
    <3>3. CASE m \in Waiting(k)
        BY <2>3, <3>2, <3>3 DEF Claims
    <3>4. CASE \A w \in m.vms : host[w] = m.owner
        BY <3>2, <3>4 DEF Claims
    <3> QED BY <3>2, <3>3, <3>4
  <2> QED BY <1>1, <2>1, <2>2, <2>3 DEF Claims
<1> QED BY <1>1 DEF OneOwner

LEMMA KnownShrinks ==
    ASSUME NEW k, NEW d \in {0, 1}
    PROVE  Known(k, d) \subseteq Known(k, 0) /\ member \subseteq Known(k, d)
BY DEF Known

\* A step that multicasts no configuration.
LEMMA SendingMost ==
    ASSUME Types, Types', Settled, One, NEW n \in Nodes, NEW d \in {0, 1}, NEW boxes,
           boxes = IF d = 1 THEN Popped(n) ELSE inbox, d = 1 => inbox[n] # <<>>,
           NEW msgs \in Seq(Messages), inbox' = Mcast(boxes, msgs), member' = member,
           \A m \in Elements(msgs) :
              \/ m.type = "reply"
              \/ m.type = "req" /\ replies'[m.rid] = {}
              \/ m.type = "store" /\ \A v \in m.vms : host[v] = m.owner,
           \A v \in VMs : host'[v] \in {host[v], None},
           \/ high' = high
           \/ d = 1 /\ \A k \in member : IF k = n THEN \A x \in Known(k, 1) : x <= high'[k]
                                                  ELSE high'[k] = high[k],
           \A k \in Nodes, v \in VMs : remote'[k][v] \in Claims(v) \cup {None},
           \A k \in member, v \in VMs :
              \/ remote'[k][v] = remote[k][v] \/ remote[k][v] = None
              \/ /\ k = n /\ d = 1 /\ inbox[k][1].type = "conf"
                 /\ remote[k][v] \in inbox[k][1].left,
           \A k \in member : \A q \in 1 .. Len(inbox[k]) : inbox[k][q].type = "req" =>
              \A x \in replies'[inbox[k][q].rid] :
                 \/ x = k \/ x \in replies[inbox[k][q].rid]
                 \/ /\ x \in member /\ host'[inbox[k][q].vm] # k
                    /\ x > k \/ remote'[k][inbox[k][q].vm] = x
    PROVE  HighKnown' /\ OneOwner' /\ OthersYield'
<1> DEFINE off == [k \in Nodes |-> IF k = n THEN d ELSE 0]
<1>0. member \subseteq Nodes /\ \A k \in member : Len(inbox[k]) \in Nat
    BY LenNat DEF Types
<1>1. off \in [Nodes -> {0, 1}] /\ \A k \in member : off[k] = IF k = n THEN d ELSE 0
    BY <1>0
<1> HIDE DEF off
<1>2. \A k \in member : Shifted(k, off[k], Elements(msgs))
    BY <1>1, McastShifts
<1>3. \A k \in member : off[k] \in {0, 1} /\ off[k] <= Len(inbox[k])
  <2> SUFFICES ASSUME NEW k \in member PROVE off[k] \in {0, 1} /\ off[k] <= Len(inbox[k])
      OBVIOUS
  <2>1. CASE off[k] = 1
    <3>0. k = n /\ d = 1
        BY <1>1, <2>1
    <3>1. inbox[k] # <<>> /\ inbox[k] \in Seq(Messages)
        BY <3>0 DEF Types
    <3>2. Len(inbox[k]) # 0
        BY <3>1, EmptySeq
    <3> QED BY <1>0, <2>1, <3>2
  <2> QED BY <1>0, <1>1, <2>1
<1>4. \A k \in member : \A p \in Nat : Known(k, p)' = Known(k, p + off[k])
    BY <1>0, <1>2, <1>3, ShiftKnown
<1>5. ASSUME NEW k \in member, NEW x \in Known(k, off[k]) PROVE x <= high'[k]
  <2>1. x \in Known(k, 0) /\ \A y \in Known(k, 0) : y <= high[k]
      BY <1>3, KnownShrinks DEF One, HighKnown
  <2> QED BY <1>1, <1>5, <2>1
<1>6. ASSUME NEW k \in member, NEW p \in 1 .. Len(inbox'[k]), p + off[k] > Len(inbox[k])
      PROVE  inbox'[k][p].type # "conf"
  <2>1. Len(inbox[k]) \in Nat /\ Len(inbox'[k]) \in Nat
      BY <1>0, LenProperties DEF Types
  <2>2. inbox'[k][p] \in Elements(msgs)
      BY <1>2, <1>3, <1>6, <2>1 DEF Shifted
  <2> QED BY <2>2
<1>7. HighKnown'
  <2>0. member' = member /\ member' \subseteq member /\ HighKnown
      BY DEF One
  <2>1. \A k \in member' : \A x \in Known(k, off[k]) : x <= high'[k]
      BY <1>5, <2>0
  <2>2. \A k \in member' : \A p \in 1 .. Len(inbox'[k]) :
           p + off[k] > Len(inbox[k]) /\ inbox'[k][p].type = "conf" =>
              Known(k, p)' \subseteq inbox'[k][p].members
      BY <1>6, <2>0
  <2>3. \A k \in member' : Shifted(k, off[k], Elements(msgs)) /\ off[k] <= Len(inbox[k])
      BY <1>2, <1>3, <2>0
  <2>4. \A k \in member' : \A p \in Nat :
           p + off[k] <= Len(inbox[k]) => Known(k, p)' = Known(k, p + off[k])
      BY <1>4, <2>0
  <2> QED BY <1>1, <2>0, <2>1, <2>2, <2>3, <2>4, HighKept
<1>8. OthersYield'
  <2>0. member' = member /\ member' \subseteq member /\ OthersYield
      BY DEF One
  <2>1. \A m \in Elements(msgs) : m.type = "req" => replies'[m.rid] = {}
      OBVIOUS
  <2>2. \A k \in member', v \in VMs :
           \/ remote'[k][v] = remote[k][v] \/ remote[k][v] = None
           \/ off[k] = 1 /\ inbox[k][1].type = "conf" /\ remote[k][v] \in inbox[k][1].left
      BY <1>1, <2>0
  <2>3. \A k \in member' : Shifted(k, off[k], Elements(msgs)) /\ off[k] <= Len(inbox[k])
      BY <1>2, <1>3, <2>0
  <2>4. \A k \in member' : \A p \in Nat :
           p + off[k] <= Len(inbox[k]) => Known(k, p)' = Known(k, p + off[k])
      BY <1>4, <2>0
  <2>5. \A k \in member' : \A q \in 1 .. Len(inbox[k]) : inbox[k][q].type = "req" =>
           \A x \in replies'[inbox[k][q].rid] :
              \/ x = k \/ x \in replies[inbox[k][q].rid]
              \/ /\ x \in member' /\ host'[inbox[k][q].vm] # k
                 /\ x > k \/ remote'[k][inbox[k][q].vm] = x
      BY <2>0
  <2> QED BY <1>1, <2>0, <2>1, <2>2, <2>3, <2>4, <2>5, YieldsKept
<1>9. \A k \in Nodes : Waiting(k)' \subseteq Waiting(k) \cup Elements(msgs)
  <2>1. Fewer(boxes)
      BY FewerBoxes
  <2> QED BY <2>1, McastAdds
<1>10. OneOwner'
  <2>1. \A k \in Nodes : \A m \in Waiting(k)' :
           m \in Waiting(k) \/ m.type # "store" \/ \A v \in m.vms : host[v] = m.owner
      BY <1>9
  <2> QED BY <2>1, OwnerKept DEF One
<1> QED BY <1>7, <1>8, <1>10

\* One that sends announcements and replies.
LEMMA SendingOne ==
    ASSUME Types, Types', Settled, One, NEW n \in Nodes, NEW d \in {0, 1}, NEW boxes,
           boxes = IF d = 1 THEN Popped(n) ELSE inbox, d = 1 => inbox[n] # <<>>,
           NEW msgs \in Seq(Messages), inbox' = Mcast(boxes, msgs), UNCHANGED <<member, asked>>,
           \A m \in Elements(msgs) :
              \/ m.type = "reply"
              \/ m.type = "store" /\ \A v \in m.vms : host[v] = m.owner,
           \A v \in VMs : host'[v] \in {host[v], None},
           \/ high' = high
           \/ d = 1 /\ \A k \in member : IF k = n THEN \A x \in Known(k, 1) : x <= high'[k]
                                                  ELSE high'[k] = high[k],
           \A k \in Nodes, v \in VMs : remote'[k][v] \in Claims(v) \cup {None},
           \A k \in member, v \in VMs :
              \/ remote'[k][v] = remote[k][v] \/ remote[k][v] = None
              \/ /\ k = n /\ d = 1 /\ inbox[k][1].type = "conf"
                 /\ remote[k][v] \in inbox[k][1].left,
           OneReply', \A r \in Rids : replies'[r] # {} => r \in 1 .. Len(asked),
           \A k \in member : \A q \in 1 .. Len(inbox[k]) : inbox[k][q].type = "req" =>
              \A x \in replies'[inbox[k][q].rid] :
                 \/ x = k \/ x \in replies[inbox[k][q].rid]
                 \/ /\ x \in member /\ host'[inbox[k][q].vm] # k
                    /\ x > k \/ remote'[k][inbox[k][q].vm] = x
    PROVE  One'
<1>0. /\ member' = member
      /\ \A m \in Elements(msgs) :
            \/ m.type = "reply"
            \/ m.type = "req" /\ replies'[m.rid] = {}
            \/ m.type = "store" /\ \A v \in m.vms : host[v] = m.owner
    OBVIOUS
<1>1. HighKnown' /\ OneOwner' /\ OthersYield'
    BY <1>0, SendingMost
<1>2. \A k \in Nodes : Waiting(k)' \subseteq Waiting(k) \cup Elements(msgs)
  <2>1. Fewer(boxes)
      BY FewerBoxes
  <2> QED BY <2>1, McastAdds
<1>3. Genuine'
    BY <1>2, GenuineKept DEF One
<1> QED BY <1>1, <1>3 DEF One

\* The announcements of a callback or of the listener thread.
LEMMA TrueAnnouncements ==
    ASSUME OneConnection, Types, NEW n \in Nodes, NEW msgs,
           msgs \in update_local_vms(n) \/ msgs = <<>>
    PROVE  /\ msgs \in Seq(Messages)
           /\ \A m \in Elements(msgs) : m.type = "store" /\ \A v \in m.vms : host[v] = m.owner
<1>1. msgs \in Seq(Messages)
    BY Updates, NoElement
<1> QED BY <1>1, AnnouncedTrue

\* Steps that leave the replies alone.
LEMMA NoNewReply ==
    ASSUME One, replies' = replies
    PROVE  OneReply' /\ \A r \in Rids : replies'[r] # {} => r \in 1 .. Len(asked)
BY DEF One, OneReply, Genuine

LEMMA RemoteClaims ==
    ASSUME NEW k \in Nodes, NEW v
    PROVE  remote[k][v] \in Claims(v)
BY DEF Claims

LEMMA StoreOne ==
    ASSUME OneConnection, Types, Types', Settled, One, NEW n \in Nodes, store_cb(n)
    PROVE  One'
<1> DEFINE m == Head1(n)
           fresh == m.owner # n /\ local[n] = {}
<1>0. /\ inbox[n] # <<>> /\ m.type = "store"
      /\ remote' = IF m.owner = n THEN remote ELSE [remote EXCEPT ![n] = vl_update(@, m)]
      /\ UNCHANGED <<member, host, high, asked, replies>>
    BY DEF store_cb, hostVars, history
<1>1. PICK msgs \in IF fresh THEN update_local_vms(n) ELSE {<<>>} : inbox' = Mcast(Popped(n), msgs)
    BY DEF store_cb
<1>2. /\ msgs \in Seq(Messages)
      /\ \A x \in Elements(msgs) : x.type = "store" /\ \A v \in x.vms : host[v] = x.owner
    BY <1>1, TrueAnnouncements
<1>3. m \in Waiting(n) /\ m \in Stores
    BY <1>0, FewerBoxes, MessageKinds
<1> HIDE DEF m
<1>4. \A v \in VMs : v \in m.vms => m.owner \in Claims(v) /\ m.owner \in Nodes /\ m.owner # None
    BY <1>0, <1>3, CpgVirtAssumption DEF Claims, Stores, None
<1>5. \A k \in Nodes, v \in VMs :
         remote'[k][v] = remote[k][v] \/ (k = n /\ v \in m.vms /\ remote'[k][v] = m.owner)
    BY <1>0 DEF vl_update, Types
<1>6. \A k \in Nodes, v \in VMs : remote'[k][v] \in Claims(v)
    BY <1>4, <1>5, RemoteClaims
<1>7. ASSUME NEW k \in Nodes, NEW v \in VMs
      PROVE  remote'[k][v] = remote[k][v] \/ remote[k][v] = None
    BY <1>4, <1>5, RemoteClaims DEF One, OneOwner
<1>8. member \subseteq Nodes
    BY DEF Types
<1>9. OneReply' /\ \A r \in Rids : replies'[r] # {} => r \in 1 .. Len(asked)
    BY <1>0, NoNewReply
<1> QED BY <1>0, <1>1, <1>2, <1>6, <1>7, <1>8, <1>9, SendingOne

LEMMA HighIdBounds ==
    ASSUME NEW n \in Nodes, NEW members \in SUBSET Nodes
    PROVE  \A x \in members : x <= HighId(n, members)
<1>1. members \cup {n} \subseteq Nat /\ members \cup {n} \subseteq Nodes /\ members \cup {n} # {}
    BY CpgVirtAssumption
<1>2. IsFiniteSet(members \cup {n})
    BY <1>1, CpgVirtAssumption, FS_Subset
<1>3. \E h \in members \cup {n} : \A m \in members \cup {n} : m <= h
    BY <1>1, <1>2, HasLargest
<1> QED BY <1>3 DEF HighId

LEMMA ConfigOne ==
    ASSUME OneConnection, Types, Types', Settled, One, NEW n \in Nodes, cpg_config_change(n)
    PROVE  One'
<1> DEFINE m == Head1(n)
<1>0. /\ inbox[n] # <<>> /\ m.type = "conf"
      /\ high' = [high EXCEPT ![n] = HighId(n, m.members)]
      /\ remote' = [remote EXCEPT ![n] = vl_remove_by_owner(@, m.left)]
      /\ UNCHANGED <<member, host, asked, replies>>
    BY DEF cpg_config_change, hostVars, history
<1>1. PICK msgs \in update_local_vms(n) : inbox' = Mcast(Popped(n), msgs)
    BY DEF cpg_config_change
<1>2. /\ msgs \in Seq(Messages)
      /\ \A x \in Elements(msgs) : x.type = "store" /\ \A v \in x.vms : host[v] = x.owner
    BY <1>1, TrueAnnouncements
<1>3. m \in Confs
    BY <1>0, FewerBoxes, MessageKinds
<1>4. m = inbox[n][1] /\ 1 \in 1 .. Len(inbox[n])
  <2>1. inbox[n] \in Seq(Messages)
      BY DEF Types
  <2>2. Len(inbox[n]) \in Nat /\ Len(inbox[n]) # 0
      BY <1>0, <2>1, EmptySeq, LenProperties
  <2> QED BY <2>1, <2>2 DEF Head1
<1> HIDE DEF m
<1>5. n \in member
    BY <1>0 DEF Settled, Types
<1>6. Known(n, 1) \subseteq m.members /\ m.members \in SUBSET Nodes
    BY <1>0, <1>3, <1>4, <1>5 DEF One, HighKnown, Confs
<1>7. \A x \in Known(n, 1) : x <= HighId(n, m.members)
    BY <1>6, HighIdBounds
<1>8. member \subseteq Nodes
    BY DEF Types
<1>9. \A k \in member : IF k = n THEN \A x \in Known(k, 1) : x <= high'[k] ELSE high'[k] = high[k]
    BY <1>0, <1>7, <1>8 DEF Types
<1>10. ASSUME NEW k \in Nodes, NEW v \in VMs
       PROVE  \/ remote'[k][v] = remote[k][v]
              \/ k = n /\ remote'[k][v] = None /\ remote[k][v] \in m.left
    BY <1>0 DEF vl_remove_by_owner, Types
<1>11. \A k \in Nodes, v \in VMs : remote'[k][v] \in Claims(v) \cup {None}
    BY <1>10, RemoteClaims
<1>12. \A k \in member, v \in VMs :
          \/ remote'[k][v] = remote[k][v]
          \/ k = n /\ inbox[k][1].type = "conf" /\ remote[k][v] \in inbox[k][1].left
    BY <1>0, <1>4, <1>8, <1>10
<1>13. OneReply' /\ \A r \in Rids : replies'[r] # {} => r \in 1 .. Len(asked)
    BY <1>0, NoNewReply
<1> QED BY <1>0, <1>1, <1>2, <1>9, <1>11, <1>12, <1>13, SendingOne

LEMMA DeliverOne ==
    ASSUME Types, Types', Settled, One, NEW n \in Nodes, deliver_reply(n)
    PROVE  One'
<1>0. /\ inbox[n] # <<>> /\ inbox' = Popped(n)
      /\ UNCHANGED <<member, host, high, asked, replies, remote>>
    BY DEF deliver_reply, hostVars, history
<1>1. <<>> \in Seq(Messages) /\ Elements(<<>>) = {}
    BY NoElement
<1>2. inbox' = Mcast(Popped(n), <<>>)
  <2>1. Popped(n) \in [Nodes -> Seq(Messages)]
      BY <1>0, FewerBoxes DEF Fewer
  <2>2. \A k \in Nodes : Popped(n)[k] \o <<>> = Popped(n)[k]
      BY <2>1, ConcatEmptySeq
  <2> QED BY <1>0, <2>1, <2>2 DEF Mcast
<1>3. \A k \in Nodes, v \in VMs : remote'[k][v] \in Claims(v)
    BY <1>0, RemoteClaims
<1>4. OneReply' /\ \A r \in Rids : replies'[r] # {} => r \in 1 .. Len(asked)
    BY <1>0, NoNewReply
<1> QED BY <1>0, <1>1, <1>2, <1>3, <1>4, SendingOne

\* A step that announces the machines of n and replies to nothing.
LEMMA AnnouncingOne ==
    ASSUME OneConnection, Types, Types', Settled, One, NEW n \in Nodes, NEW d \in {0, 1}, NEW boxes,
           boxes = IF d = 1 THEN Popped(n) ELSE inbox, d = 1 => inbox[n] # <<>>,
           NEW msgs, msgs \in update_local_vms(n), inbox' = Mcast(boxes, msgs),
           UNCHANGED <<member, host, high, asked, replies, remote>>
    PROVE  One'
<1>1. /\ msgs \in Seq(Messages)
      /\ \A x \in Elements(msgs) : x.type = "store" /\ \A v \in x.vms : host[v] = x.owner
    BY TrueAnnouncements
<1>2. \A k \in Nodes, v \in VMs : remote'[k][v] \in Claims(v)
    BY RemoteClaims
<1>3. OneReply' /\ \A r \in Rids : replies'[r] # {} => r \in 1 .. Len(asked)
    BY NoNewReply
<1> QED BY <1>1, <1>2, <1>3, SendingOne

\* The request that a node dispatches, at the front of its queue.
LEMMA FrontRequest ==
    ASSUME Types, Settled, One, NEW n \in Nodes, inbox[n] # <<>>, Head1(n).type = "req"
    PROVE  /\ n \in member /\ Head1(n) \in Requests /\ Head1(n).vm \in VMs /\ Head1(n).op \in Ops
           /\ Head1(n).rid \in Rids /\ Head1(n).rid \in 1 .. Len(asked)
           /\ Head1(n).vm = asked[Head1(n).rid].vm
           /\ \A x \in replies[Head1(n).rid] : x = n \/ Yields(x, n, 1)
           /\ Head1(n) = inbox[n][1]
<1>1. n \in member
    BY DEF Settled, Types
<1>2. Head1(n) \in Requests /\ Head1(n) \in Waiting(n)
    BY FewerBoxes, MessageKinds
<1>3. Head1(n) = inbox[n][1] /\ 1 \in 1 .. Len(inbox[n])
  <2>1. inbox[n] \in Seq(Messages)
      BY DEF Types
  <2>2. Len(inbox[n]) \in Nat /\ Len(inbox[n]) # 0
      BY <2>1, EmptySeq, LenProperties
  <2> QED BY <2>1, <2>2 DEF Head1
<1>4. \A x \in replies[Head1(n).rid] : x = n \/ Yields(x, n, 1)
    BY <1>1, <1>3 DEF One, OthersYield
<1>5. /\ Head1(n).vm \in VMs /\ Head1(n).op \in Ops /\ Head1(n).rid \in Rids
    BY <1>2 DEF Requests
<1>6. Head1(n).rid \in 1 .. Len(asked) /\ Head1(n).vm = asked[Head1(n).rid].vm
    BY <1>2 DEF One, Genuine
<1> QED BY <1>1, <1>2, <1>3, <1>4, <1>5, <1>6

\* A node that replies to a request: nobody else has, and all others yield.
LEMMA WorkOne ==
    ASSUME OneConnection, Types, Types', Settled, One, NEW n \in Nodes,
           inbox[n] # <<>>, Head1(n).type = "req",
           NEW code \in Codes, NEW s \in update_local_vms(n),
           NEW r \in cpg_send_reply(Reply(n, Head1(n), code)),
           inbox' = Mcast(Popped(n), s \o r),
           UNCHANGED <<member, high, asked, remote>>,
           \A v \in VMs : host'[v] \in {host[v], None},
           replies' = replies \/ replies' = [replies EXCEPT ![Head1(n).rid] = @ \cup {n}],
           \A x \in replies[Head1(n).rid] : x = n,
           \A k \in member : k = n \/ (/\ host'[Head1(n).vm] # k
                                       /\ n > k \/ remote[k][Head1(n).vm] = n)
    PROVE  One'
<1> DEFINE m == Head1(n)
<1>1. /\ n \in member /\ m \in Requests /\ m.vm \in VMs /\ m.rid \in Rids
      /\ m.rid \in 1 .. Len(asked) /\ m.vm = asked[m.rid].vm
    BY FrontRequest
<1>2. /\ s \in Seq(Messages)
      /\ \A x \in Elements(s) : x.type = "store" /\ \A v \in x.vms : host[v] = x.owner
    BY TrueAnnouncements
<1>3. r \in Seq(Messages) /\ \A x \in Elements(r) : x.type = "reply"
  <2>1. r \in Seq(Messages) /\ \A x \in Elements(r) : x \in Answers
      BY <1>1, Replied
  <2>2. \A x \in Answers : x.type = "reply"
      BY DEF Answers
  <2> QED BY <2>1, <2>2
<1>4. /\ s \o r \in Seq(Messages)
      /\ \A x \in Elements(s \o r) :
            x.type = "reply" \/ (x.type = "store" /\ \A v \in x.vms : host[v] = x.owner)
    BY <1>2, <1>3, ConcatElements
<1> HIDE DEF m
<1>5. \A q \in Rids, x \in Nodes : x \in replies'[q] => x \in replies[q] \/ (q = m.rid /\ x = n)
  <2>1. CASE replies' = replies
      BY <2>1
  <2>2. CASE replies' = [replies EXCEPT ![m.rid] = replies[m.rid] \cup {n}]
      BY <1>1, <2>2 DEF Types
  <2> QED BY <2>1, <2>2 DEF m
<1>6. replies' \in [Rids -> SUBSET Nodes]
    BY DEF Types
<1>7. OneReply'
  <2> SUFFICES ASSUME NEW q \in Rids, NEW x \in replies'[q], NEW y \in replies'[q] PROVE x = y
      BY DEF OneReply
  <2>1. x \in Nodes /\ y \in Nodes
      BY <1>6
  <2>2. x \in replies[q] \/ (q = m.rid /\ x = n)
      BY <1>5, <2>1
  <2>3. y \in replies[q] \/ (q = m.rid /\ y = n)
      BY <1>5, <2>1
  <2>4. q = m.rid => \A z \in replies[q] : z = n
      BY DEF m
  <2> QED BY <2>2, <2>3, <2>4 DEF One, OneReply
<1>8. \A q \in Rids : replies'[q] # {} => q \in 1 .. Len(asked)
  <2> SUFFICES ASSUME NEW q \in Rids, NEW x \in replies'[q] PROVE q \in 1 .. Len(asked)
      OBVIOUS
  <2>1. x \in replies[q] \/ q = m.rid
      BY <1>5, <1>6
  <2> QED BY <1>1, <2>1 DEF One, Genuine
<1>9. ASSUME NEW k \in member, NEW q \in 1 .. Len(inbox[k]), inbox[k][q].type = "req",
             NEW x \in replies'[inbox[k][q].rid]
      PROVE  \/ x = k \/ x \in replies[inbox[k][q].rid]
             \/ /\ x \in member /\ host'[inbox[k][q].vm] # k
                /\ x > k \/ remote'[k][inbox[k][q].vm] = x
  <2>1. k \in Nodes /\ inbox[k][q] \in Waiting(k)
      BY DEF Types, Waiting
  <2>2. inbox[k][q] \in Requests /\ inbox[k][q].vm = asked[inbox[k][q].rid].vm
      BY <1>9, <2>1, WaitingMessages, MessageKinds DEF One, Genuine
  <2>3. inbox[k][q].rid \in Rids
      BY <2>2 DEF Requests
  <2>4. x \in replies[inbox[k][q].rid] \/ (inbox[k][q].rid = m.rid /\ x = n)
      BY <1>5, <1>6, <2>3
  <2>5. inbox[k][q].rid = m.rid => inbox[k][q].vm = m.vm
      BY <1>1, <2>2
  <2> QED BY <1>1, <2>4, <2>5 DEF m
<1>10. \A k \in Nodes, v \in VMs : remote'[k][v] \in Claims(v)
    BY RemoteClaims
<1> QED BY <1>4, <1>7, <1>8, <1>9, <1>10, SendingOne

LEMMA LocalWorkOne ==
    ASSUME OneConnection, Types, Types', Settled, One, NEW n \in Nodes, do_real_work_local(n)
    PROVE  One'
<1> DEFINE m == Head1(n)
<1>0. /\ inbox[n] # <<>> /\ m.type = "req" /\ m.vm \in Refreshed(n)
      /\ UNCHANGED <<phase, member, remote, high, asked>>
    BY DEF do_real_work_local
<1>1. /\ n \in member /\ m.vm \in VMs /\ m.op \in Ops /\ m = inbox[n][1]
      /\ \A x \in replies[m.rid] : x = n \/ Yields(x, n, 1)
    BY <1>0, FrontRequest
<1>2. PICK e \in Effects(m.vm, m.op) :
         /\ host' = [host EXCEPT ![m.vm] = e.h]
         /\ \E s \in update_local_vms(n), r \in cpg_send_reply(Reply(n, m, e.code)) :
               /\ inbox' = Mcast(Popped(n), s \o r)
               /\ replies' = IF r = <<>> THEN replies
                             ELSE [replies EXCEPT ![m.rid] = @ \cup {n}]
    BY DEF do_real_work_local
<1>3. PICK s \in update_local_vms(n), r \in cpg_send_reply(Reply(n, m, e.code)) :
         /\ inbox' = Mcast(Popped(n), s \o r)
         /\ replies' = IF r = <<>> THEN replies ELSE [replies EXCEPT ![m.rid] = @ \cup {n}]
    BY <1>2
<1>4. e.code \in Codes /\ e.h \in {host[m.vm], None}
    BY <1>1, EffectTypes, EffectHost
<1>5. host[m.vm] = n
    BY <1>0, <1>1, AllListed DEF Refreshed, Hosted, Settled, Types
<1>6. \A v \in VMs : host'[v] \in {host[v], None}
    BY <1>1, <1>2, <1>4 DEF Types
<1>7. \A x \in replies[m.rid] : x = n
    BY <1>1, <1>5 DEF Yields
<1>8. ASSUME NEW k \in member, k # n PROVE host'[m.vm] # k /\ remote[k][m.vm] = n
  <2>1. k # None
      BY CpgVirtAssumption DEF Types, None
  <2> QED BY <1>1, <1>5, <1>6, <1>8, <2>1 DEF Settled
<1> QED BY <1>0, <1>3, <1>4, <1>6, <1>7, <1>8, WorkOne

LEMMA UnknownWorkOne ==
    ASSUME OneConnection, Types, Types', Settled, One, NEW n \in Nodes, do_real_work_unknown(n)
    PROVE  One'
<1> DEFINE m == Head1(n)
<1>0. /\ inbox[n] # <<>> /\ m.type = "req" /\ m.vm \notin Refreshed(n)
      /\ ~KnownRemote(n, m.vm) /\ IsHigh(n)
      /\ UNCHANGED <<phase, member, remote, high, asked, host>>
    BY DEF do_real_work_unknown, hostVars
<1>1. /\ n \in member /\ m.vm \in VMs /\ m.op \in Ops /\ m = inbox[n][1] /\ m.rid \in Rids
      /\ \A x \in replies[m.rid] : x = n \/ Yields(x, n, 1)
    BY <1>0, FrontRequest
<1>2. PICK s \in update_local_vms(n), r \in cpg_send_reply(Reply(n, m, UnknownCode(m.op))) :
         /\ inbox' = Mcast(Popped(n), s \o r)
         /\ replies' = IF r = <<>> THEN replies ELSE [replies EXCEPT ![m.rid] = @ \cup {n}]
    BY DEF do_real_work_unknown
<1>3. UnknownCode(m.op) \in Codes
    BY <1>1 DEF UnknownCode, Ops, Codes
<1>4. host[m.vm] \notin member
    BY <1>0, <1>1, UnknownIsNowhere
<1>5. \A x \in Known(n, 0) : x <= n
    BY <1>0, <1>1 DEF One, HighKnown, IsHigh
<1>6. n \in Nat /\ member \subseteq Nat /\ Nodes \subseteq Nat /\ None \notin Nodes
    BY CpgVirtAssumption DEF Types, None
<1>7. ASSUME NEW x \in replies[m.rid] PROVE x = n
  <2>1. x \in Nodes
      BY <1>1 DEF Types
  <2>2. SUFFICES ASSUME Yields(x, n, 1) PROVE FALSE
      BY <1>1, <1>7
  <2>3. remote[n][m.vm] # x
      BY <1>0, <1>6, <2>1 DEF KnownRemote
  <2>4. x > n /\ x \in Known(n, 1)
      BY <1>1, <2>2, <2>3 DEF Yields
  <2>5. x \in Known(n, 0)
      BY <2>4, KnownShrinks
  <2>6. x \in Nat /\ x <= n
      BY <1>5, <1>6, <2>1, <2>5
  <2> QED BY <1>6, <2>4, <2>6
<1>8. ASSUME NEW k \in member, k # n PROVE host[m.vm] # k /\ n > k
  <2>1. k \in Known(n, 0)
      BY KnownShrinks
  <2> QED BY <1>4, <1>5, <1>6, <1>8, <2>1
<1> QED BY <1>0, <1>2, <1>3, <1>7, <1>8, WorkOne

\* A daemon that goes: its departure is behind all that waits.
LEMMA GoneKnown ==
    ASSUME Types, Types', NEW n \in member, member' = member \ {n}, NEW c, c.type = "conf",
           c.left = {n}, NEW k \in member', inbox'[k] = Append(inbox[k], c), c \in Messages
    PROVE  /\ Shifted(k, 0, {c}) /\ Len(inbox'[k]) = Len(inbox[k]) + 1
           /\ \A p \in Nat : p <= Len(inbox[k]) => Known(k, p)' = Known(k, p)
           /\ \A p \in Nat : p > Len(inbox[k]) => Known(k, p)' = member'
<1>0. k \in Nodes /\ n \in Nodes /\ inbox[k] \in Seq(Messages) /\ Len(inbox[k]) \in Nat
    BY LenProperties DEF Types
<1> DEFINE L == Len(inbox[k])
<1>1. /\ Len(inbox'[k]) = L + 1 /\ \A i \in 1 .. L : inbox'[k][i] = inbox[k][i]
      /\ inbox'[k][L + 1] = c
    BY <1>0, AppendProperties
<1> HIDE DEF L
<1>2. L \in Nat /\ \A i \in 1 .. L + 1 : i \in 1 .. L \/ i = L + 1
    BY <1>0 DEF L
<1>3. Shifted(k, 0, {c})
  <2>1. ASSUME NEW i \in 1 .. Len(inbox'[k])
        PROVE  \/ i + 0 <= L /\ inbox'[k][i] = inbox[k][i + 0]
               \/ i + 0 > L /\ inbox'[k][i] \in {c}
    <3>1. i + 0 = i /\ (i \in 1 .. L \/ i = L + 1)
        BY <1>1, <1>2
    <3> QED BY <1>1, <1>2, <3>1
  <2>2. Len(inbox'[k]) + 0 >= L
      BY <1>1, <1>2
  <2> QED BY <2>1, <2>2 DEF Shifted, L
<1>4. ASSUME NEW p \in Nat, p <= L PROVE Known(k, p)' = Known(k, p)
  <2>1. ASSUME NEW x \in Known(k, p)' PROVE x \in Known(k, p)
    <3>1. CASE x \in member'
        BY <3>1 DEF Known
    <3>2. CASE x \in Nodes /\ \E i \in 1 .. Len(inbox'[k]) :
                  i > p /\ inbox'[k][i].type = "conf" /\ x \in inbox'[k][i].left
      <4>1. PICK i \in 1 .. L + 1 : i > p /\ inbox'[k][i].type = "conf" /\ x \in inbox'[k][i].left
          BY <1>1, <3>2
      <4>2. CASE i = L + 1
          BY <1>1, <4>1, <4>2 DEF Known
      <4>3. CASE i \in 1 .. L
          BY <1>1, <3>2, <4>1, <4>3 DEF Known, L
      <4> QED BY <1>2, <4>2, <4>3
    <3> QED BY <2>1, <3>1, <3>2 DEF Known
  <2>2. ASSUME NEW x \in Known(k, p) PROVE x \in Known(k, p)'
    <3>1. CASE x \in member'
        BY <3>1 DEF Known
    <3>2. CASE x = n
      <4>1. L + 1 \in 1 .. Len(inbox'[k]) /\ L + 1 > p
          BY <1>1, <1>2, <1>4
      <4> QED BY <1>0, <1>1, <3>2, <4>1 DEF Known
    <3>3. CASE x \in Nodes /\ \E i \in 1 .. L :
                  i > p /\ inbox[k][i].type = "conf" /\ x \in inbox[k][i].left
      <4>1. PICK i \in 1 .. L : i > p /\ inbox[k][i].type = "conf" /\ x \in inbox[k][i].left
          BY <3>3
      <4>2. i \in 1 .. Len(inbox'[k]) /\ inbox'[k][i] = inbox[k][i]
          BY <1>1, <1>2
      <4> QED BY <3>3, <4>1, <4>2 DEF Known
    <3> QED BY <2>2, <3>1, <3>2, <3>3 DEF Known, L
  <2> QED BY <2>1, <2>2
<1>5. ASSUME NEW p \in Nat, p > L PROVE Known(k, p)' = member'
  <2>1. ~\E i \in 1 .. Len(inbox'[k]) : i > p
      BY <1>1, <1>2, <1>5
  <2> QED BY <2>1 DEF Known
<1> QED BY <1>1, <1>3, <1>4, <1>5 DEF L

LEMMA GoneOne ==
    ASSUME Types, Types', Settled, One, NEW n \in Nodes, phase[n] # "down", Gone(n),
           UNCHANGED <<host, asked, replies>>
    PROVE  One'
<1> DEFINE off == [k \in Nodes |-> 0]
<1>0. PICK c : c = [type |-> "conf", members |-> member \ {n}, left |-> {n}, joined |-> {}]
    OBVIOUS
<1>1. PICK new : new = {c}
    OBVIOUS
<1>2. /\ member' = member \ {n} /\ n \in member /\ member \subseteq Nodes
      /\ inbox' = [m \in Nodes |-> IF m \in member \ {n} THEN Append(inbox[m], c)
                                   ELSE IF m = n THEN <<>> ELSE inbox[m]]
      /\ high' = [high EXCEPT ![n] = None]
      /\ remote' = [remote EXCEPT ![n] = [v \in VMs |-> None]]
    BY <1>0 DEF Gone, Types
<1>3. c \in Messages /\ c.type = "conf" /\ c.left = {n} /\ c.members = member'
  <2>1. c \in Confs
      BY <1>2, <1>0 DEF Confs
  <2> QED BY <1>2, <1>0, <2>1, MessageKinds
<1>4. off \in [Nodes -> {0, 1}] /\ \A k \in Nodes : off[k] = 0
    OBVIOUS
<1> HIDE DEF off
<1>5. ASSUME NEW k \in member'
      PROVE  /\ k \in Nodes /\ k \in member /\ k # n /\ Len(inbox[k]) \in Nat /\ off[k] = 0
             /\ inbox'[k] = Append(inbox[k], c) /\ high'[k] = high[k] /\ remote'[k] = remote[k]
    BY <1>2, <1>4, LenNat DEF Types
<1>6. ASSUME NEW k \in member'
      PROVE  /\ Shifted(k, 0, {c}) /\ Len(inbox'[k]) = Len(inbox[k]) + 1
             /\ \A p \in Nat : p <= Len(inbox[k]) => Known(k, p)' = Known(k, p)
             /\ \A p \in Nat : p > Len(inbox[k]) => Known(k, p)' = member'
    BY <1>2, <1>3, <1>5, GoneKnown
<1>7. \A k \in member' : Shifted(k, off[k], new) /\ off[k] <= Len(inbox[k])
  <2> SUFFICES ASSUME NEW k \in member' PROVE Shifted(k, off[k], new) /\ off[k] <= Len(inbox[k])
      OBVIOUS
  <2>1. off[k] = 0 /\ Len(inbox[k]) \in Nat
      BY <1>5
  <2>2. Shifted(k, 0, new)
      BY <1>6, <1>1
  <2> QED BY <2>1, <2>2
<1>8. ASSUME NEW k \in member', NEW p \in Nat, p + off[k] <= Len(inbox[k])
      PROVE  Known(k, p)' = Known(k, p + off[k])
  <2>1. off[k] = 0 /\ p + off[k] = p
      BY <1>5
  <2> QED BY <1>6, <1>8, <2>1
<1>9. HighKnown'
  <2>1. \A k \in member' : \A x \in Known(k, off[k]) : x <= high'[k]
      BY <1>5 DEF One, HighKnown
  <2>2. ASSUME NEW k \in member', NEW p \in 1 .. Len(inbox'[k]), p + off[k] > Len(inbox[k])
        PROVE  Known(k, p)' \subseteq inbox'[k][p].members
    <3>1. off[k] = 0 /\ p > Len(inbox[k]) /\ p \in Nat
        BY <1>5, <2>2
    <3>2. inbox'[k][p] = c
        BY <1>5, <1>6, <3>1 DEF Shifted
    <3> QED BY <1>3, <1>6, <3>1, <3>2
  <2>3. member' \subseteq member /\ HighKnown
      BY <1>2 DEF One
  <2>4. \A k \in member' : \A p \in 1 .. Len(inbox'[k]) :
           p + off[k] > Len(inbox[k]) /\ inbox'[k][p].type = "conf" =>
              Known(k, p)' \subseteq inbox'[k][p].members
      BY <2>2
  <2>5. \A k \in member' : \A p \in Nat :
           p + off[k] <= Len(inbox[k]) => Known(k, p)' = Known(k, p + off[k])
      BY <1>8
  <2> QED BY <1>4, <1>7, <2>1, <2>3, <2>4, <2>5, HighKept
<1>10. OthersYield'
  <2>1. \A k \in member', v \in VMs :
           \/ remote'[k][v] = remote[k][v] \/ remote[k][v] = None
           \/ /\ off[k] = 1 /\ inbox[k][1].type = "conf"
              /\ remote[k][v] \in inbox[k][1].left
      BY <1>5
  <2>2. \A m \in new : m.type = "req" => replies'[m.rid] = {}
      BY <1>3, <1>1
  <2>3. member' \subseteq member /\ OthersYield
      BY <1>2 DEF One
  <2>4. \A k \in member' : \A p \in Nat :
           p + off[k] <= Len(inbox[k]) => Known(k, p)' = Known(k, p + off[k])
      BY <1>8
  <2>5. \A k \in member' : \A q \in 1 .. Len(inbox[k]) : inbox[k][q].type = "req" =>
           \A x \in replies'[inbox[k][q].rid] :
              \/ x = k \/ x \in replies[inbox[k][q].rid]
              \/ /\ x \in member' /\ host'[inbox[k][q].vm] # k
                 /\ x > k \/ remote'[k][inbox[k][q].vm] = x
      OBVIOUS
  <2>6. \A v \in VMs : host'[v] \in {host[v], None}
      OBVIOUS
  <2> QED BY <1>4, <1>7, <2>1, <2>2, <2>3, <2>4, <2>5, <2>6, YieldsKept
<1>11. ASSUME NEW k \in Nodes PROVE Waiting(k)' \subseteq Waiting(k) \cup {c}
  <2>1. inbox[k] \in Seq(Messages)
      BY DEF Types
  <2>2. inbox'[k] = Append(inbox[k], c) \/ inbox'[k] = <<>> \/ inbox'[k] = inbox[k]
      BY <1>2
  <2>3. CASE inbox'[k] = Append(inbox[k], c)
      BY <1>3, <2>1, <2>3, AppendElements DEF Waiting, Elements
  <2>4. CASE inbox'[k] = <<>>
      BY <2>4, NoElement DEF Waiting, Elements
  <2>5. CASE inbox'[k] = inbox[k]
      BY <2>5 DEF Waiting
  <2> QED BY <2>2, <2>3, <2>4, <2>5
<1>12. OneReply' /\ \A r \in Rids : replies'[r] # {} => r \in 1 .. Len(asked)
    BY NoNewReply
<1>13. Genuine'
  <2>1. Genuine /\ \A m \in new : m.type # "req"
      BY <1>3, <1>1 DEF One
  <2>2. \A k \in Nodes : Waiting(k)' \subseteq Waiting(k) \cup new
      BY <1>11, <1>1
  <2> QED BY <1>12, <2>1, <2>2, GenuineKept
<1>14. OneOwner'
  <2>1. \A k \in Nodes, v \in VMs : remote'[k][v] \in Claims(v) \cup {None}
    <3>1. \A k \in Nodes, v \in VMs : remote'[k][v] = remote[k][v] \/ remote'[k][v] = None
        BY <1>2 DEF Types
    <3> QED BY <3>1, RemoteClaims
  <2> QED BY <1>3, <1>11, <2>1, OwnerKept DEF One
<1> QED BY <1>9, <1>10, <1>12, <1>13, <1>14 DEF One

LEMMA QuietOne ==
    ASSUME One, UNCHANGED <<member, inbox, high, host, remote, asked, replies>>
    PROVE  One'
<1>1. \A k, p : Known(k, p)' = Known(k, p)
    BY DEF Known
<1>2. \A k : Waiting(k)' = Waiting(k)
    BY DEF Waiting
<1>3. \A v : Claims(v)' = Claims(v)
    BY <1>2 DEF Claims
<1>4. HighKnown'
    BY <1>1 DEF One, HighKnown
<1>5. Genuine' /\ OneReply' /\ OneOwner'
    BY <1>2, <1>3 DEF One, Genuine, OneReply, OneOwner
<1>6. \A n, k, p : Yields(n, k, p) => Yields(n, k, p)'
    BY <1>1 DEF Yields
<1>7. OthersYield'
    BY <1>6 DEF One, OthersYield
<1> QED BY <1>4, <1>5, <1>7 DEF One

LEMMA SendOne ==
    ASSUME Types, Types', Settled, One, NEW n \in Nodes, NEW v \in VMs, NEW op \in Asks,
           cpg_send_req(n, v, op)
    PROVE  One'
<1> DEFINE a == [from |-> n, vm |-> v, op |-> op]
<1>0. PICK rid : rid = Len(asked) + 1
    OBVIOUS
<1>1. PICK req : req = [type |-> "req", from |-> n, seqno |-> seqnum[n] + 1, vm |-> v, op |-> op,
                        rid |-> rid]
    OBVIOUS
<1>2. /\ rid <= MaxRequests /\ UNCHANGED <<member, host, remote, high, replies>>
      /\ \/ inbox' = Mcast(inbox, <<req>>) /\ asked' = Append(asked, a)
         \/ inbox' = inbox /\ asked' = asked
    BY <1>0, <1>1 DEF cpg_send_req, hostVars
<1>3. Len(asked) \in Nat /\ seqnum[n] \in Nat /\ MaxRequests \in Nat
    BY LenProperties, CpgVirtAssumption DEF Types
<1>4. rid \in Rids /\ op \in Ops /\ rid \notin 1 .. Len(asked)
    BY <1>2, <1>3, <1>0, CpgVirtAssumption DEF Rids
<1>5. req \in Messages /\ req.type = "req" /\ req.rid = rid /\ req.vm = v
  <2>1. req \in Requests
      BY <1>3, <1>4, <1>1 DEF Requests
  <2> QED BY <1>1, <2>1, MessageKinds
<1>6. replies'[rid] = {}
    BY <1>2, <1>4 DEF One, Genuine
<1>7. CASE inbox' = Mcast(inbox, <<req>>) /\ asked' = Append(asked, a)
  <2>0. a \in [from : Nodes, vm : VMs, op : Ops] /\ a.vm = v
      BY <1>4
  <2> HIDE DEF a
  <2>1. /\ Len(asked') = Len(asked) + 1 /\ asked'[rid] = a
        /\ \A r \in 1 .. Len(asked) : asked'[r] = asked[r]
      BY <1>7, <1>0, <2>0, AppendProperties DEF Types
  <2>2. <<req>> \in Seq(Messages) /\ Elements(<<req>>) = {req}
      BY <1>5, OneElement
  <2>3. \A k \in Nodes, w \in VMs : remote'[k][w] \in Claims(w)
      BY <1>2, RemoteClaims
  <2>4. HighKnown' /\ OneOwner' /\ OthersYield'
    <3>1. inbox = (IF 0 = 1 THEN Popped(n) ELSE inbox) /\ 0 \in {0, 1} /\ 0 # 1
        OBVIOUS
    <3>2. \A m \in Elements(<<req>>) : m.type = "req" /\ replies'[m.rid] = {}
        BY <1>5, <1>6, <2>2
    <3>3. \A w \in VMs : host'[w] \in {host[w], None}
        BY <1>2
    <3>4. \A k \in member, w \in VMs : remote'[k][w] = remote[k][w]
        BY <1>2
    <3>5. \A k \in member : \A q \in 1 .. Len(inbox[k]) : inbox[k][q].type = "req" =>
             \A x \in replies'[inbox[k][q].rid] : x \in replies[inbox[k][q].rid]
        BY <1>2
    <3> QED BY <1>2, <1>7, <2>2, <2>3, <3>1, <3>2, <3>3, <3>4, <3>5, SendingMost
  <2>5. \A k \in Nodes : Waiting(k)' \subseteq Waiting(k) \cup {req}
      BY <1>7, <2>2, FewerBoxes, McastAdds
  <2>6. /\ 1 .. Len(asked) \subseteq 1 .. Len(asked') /\ rid \in 1 .. Len(asked')
        /\ 1 .. Len(asked') \subseteq Rids
      BY <1>2, <1>3, <1>0, <2>1 DEF Rids
  <2>7. Genuine'
      BY <1>2, <1>5, <2>0, <2>1, <2>5, <2>6 DEF One, Genuine
  <2>8. OneReply'
      BY <1>2, NoNewReply
  <2> QED BY <2>4, <2>7, <2>8 DEF One
<1>8. CASE inbox' = inbox /\ asked' = asked
    BY <1>2, <1>8, QuietOne
<1> QED BY <1>2, <1>7, <1>8

LEMMA HostlistOne ==
    ASSUME OneConnection, Types, Types', Settled, One, NEW n \in Nodes, cpg_virt_hostlist(n)
    PROVE  One'
<1>0. phase[n] # "down" /\ UNCHANGED <<host, asked, replies>>
    BY DEF cpg_virt_hostlist, hostVars, history
<1>1. CASE Gone(n)
    BY <1>0, <1>1, GoneOne
<1>2. CASE /\ \E msgs \in update_local_vms(n) : inbox' = Mcast(inbox, msgs)
           /\ UNCHANGED <<phase, member, high, remote>>
  <2>1. PICK msgs \in update_local_vms(n) : inbox' = Mcast(inbox, msgs)
      BY <1>2
  <2>2. inbox = (IF 0 = 1 THEN Popped(n) ELSE inbox) /\ 0 \in {0, 1} /\ 0 # 1
      OBVIOUS
  <2> QED BY <1>0, <1>2, <2>1, <2>2, AnnouncingOne
<1> QED BY <1>1, <1>2 DEF cpg_virt_hostlist

LEMMA SilentWorkOne ==
    ASSUME OneConnection, Types, Types', Settled, One, NEW n \in Nodes, do_real_work_silent(n)
    PROVE  One'
<1>0. inbox[n] # <<>> /\ UNCHANGED <<member, remote, high, asked, host, replies>>
    BY DEF do_real_work_silent, hostVars, history
<1>1. PICK s \in update_local_vms(n) : inbox' = Mcast(Popped(n), s)
    BY DEF do_real_work_silent
<1> QED BY <1>0, <1>1, AnnouncingOne

LEMMA NextOne ==
    ASSUME OneConnection, MaxMoves = 0, OneInv, [Next]_vars
    PROVE  OneInv'
<1>0. OffInv /\ Types /\ moves \in Nat
    BY DEF OneInv, OffInv, IInv
<1>1. OffInv' /\ Types'
    BY <1>0, NextOff DEF OffInv, IInv
<1> SUFFICES ASSUME starts' = 0 PROVE One'
    BY <1>1 DEF OneInv
<1>2. starts = 0
    BY <1>0, MembersLeave
<1>3. One /\ Settled
    BY <1>2 DEF OneInv, OffInv
<1>4. \A n \in Nodes : ~cpg_start(n) /\ \A v \in VMs : ~Migrate(v, n)
    BY <1>0, <1>2 DEF Migrate, cpg_start
<1>5. ASSUME NEW n \in Nodes, Crash(n) \/ do_real_work_null(n) PROVE One'
    BY <1>0, <1>1, <1>3, <1>5, GoneOne DEF Crash, do_real_work_null, hostVars, history
<1>6. ASSUME NEW n \in Nodes, Dispatch(n) PROVE One'
    BY <1>0, <1>1, <1>3, <1>5, <1>6, DeliverOne, StoreOne, ConfigOne, LocalWorkOne, UnknownWorkOne,
       SilentWorkOne DEF Dispatch
<1>7. ASSUME NEW n \in Nodes, Startup(n) PROVE FALSE
    BY <1>3, <1>7 DEF Startup, cpg_virt_init_list, cpg_virt_init_handle, Settled
<1>8. ASSUME NEW n \in Nodes, Listen(n) \/ cpg_wait_reply_spurious(n) PROVE One'
    BY <1>3, <1>8, QuietOne DEF Listen, cpg_wait_reply, cpg_wait_reply_woken,
       cpg_wait_reply_spurious, hostVars, history
<1>9. CASE UNCHANGED vars
    BY <1>3, <1>9, QuietOne DEF vars, daemonVars, hostVars, history
<1> QED BY <1>0, <1>1, <1>3, <1>4, <1>5, <1>6, <1>7, <1>8, <1>9, HostlistOne, SendOne DEF Next

LEMMA InitOne ==
    ASSUME OneConnection, Init
    PROVE  OneInv
<1>1. OffInv /\ Types
    BY InitIInv, InitSettled DEF OffInv, Init, IInv
<1>2. \A n \in Nodes : Waiting(n) = {} /\ Len(inbox[n]) = 0 /\ 1 .. Len(inbox[n]) = {}
  <2>1. \A n \in Nodes : inbox[n] = <<>>
      BY DEF Init
  <2>2. Elements(<<>>) = {} /\ Len(<<>>) = 0 /\ 1 .. 0 = {}
      BY NoElement, EmptySeq
  <2> QED BY <1>1, <2>1, <2>2, WaitingMessages
<1>3. member = InitUp /\ member \subseteq Nodes
    BY CpgVirtAssumption DEF Init
<1>4. HighKnown
  <2>1. \A k \in member : \A p \in {0} : Known(k, p) = member
      BY <1>2, <1>3 DEF Known
  <2>2. \A k \in member : \A x \in member : x <= high[k]
      BY <1>3, CpgVirtAssumption, HighIdBounds DEF Init
  <2> QED BY <1>2, <1>3, <2>1, <2>2 DEF HighKnown
<1>5. 1 .. Len(asked) = {}
    BY EmptySeq DEF Init
<1>6. \A r \in Rids : replies[r] = {}
    BY DEF Init
<1>7. Genuine /\ OneReply /\ OthersYield
    BY <1>2, <1>3, <1>5, <1>6 DEF Genuine, OneReply, OthersYield
<1>8. OneOwner
  <2>1. \A v \in VMs, k \in Nodes : remote[k][v] \in {host[v], None}
      BY DEF Init
  <2>2. \A v \in VMs : \A x \in Claims(v) : x \in {host[v], None}
      BY <1>2, <2>1 DEF Claims
  <2> QED BY <2>2 DEF OneOwner
<1> QED BY <1>1, <1>4, <1>7, <1>8 DEF OneInv, One

\* A machine is not fenced by one node and reported off by another: in a group
\* that daemons leave and none joins, with one libvirt connection per host and
\* no migration, at most one node replies to a request, whoever dies before,
\* between or after the dispatches and whatever is lost.
THEOREM OneReplyUntilJoinCorrect ==
    ASSUME OneConnection, MaxMoves = 0
    PROVE  Spec => []OneReplyUntilJoin
<1>1. Init => OneInv
    BY InitOne
<1>2. OneInv /\ [Next]_vars => OneInv'
    BY NextOne
<1>3. OneInv => OneReplyUntilJoin
  <2> SUFFICES ASSUME OneInv, starts = 0, NEW r \in DOMAIN asked
               PROVE  Cardinality(replies[r]) <= 1
      BY DEF OneReplyUntilJoin
  <2>1. One /\ Types
      BY DEF OneInv, OffInv, IInv
  <2>2. r \in 1 .. Len(asked)
      BY <2>1, LenProperties DEF Types
  <2>3. \A x, y \in replies[r] : x = y
      BY <2>1, <2>2 DEF One, OneReply, Genuine
  <2>4. CASE replies[r] = {}
      BY <2>4, FS_EmptySet
  <2>5. ASSUME NEW x \in replies[r] PROVE Cardinality(replies[r]) = 1
    <3>1. replies[r] = {x}
        BY <2>3, <2>5
    <3> QED BY <3>1, FS_Singleton
  <2> QED BY <2>4, <2>5
<1> QED BY <1>1, <1>2, <1>3, PTL DEF Spec
----------------------------------------------------------------------------
(* Everybody knows all machines: when one daemon starts.                   *)

\* Node n has machine v on its list as one of h, or an announcement of it on its
\* way, and no departure of h after that.
Told(n, h, v) ==
    \/ /\ remote[n][v] = h
       /\ \A i \in 1 .. Len(inbox[n]) : inbox[n][i].type = "conf" => h \notin inbox[n][i].left
    \/ \E p \in 1 .. Len(inbox[n]) :
          /\ inbox[n][p].type = "store" /\ inbox[n][p].owner = h /\ v \in inbox[n][p].vms
          /\ \A i \in 1 .. Len(inbox[n]) :
                i > p /\ inbox[n][i].type = "conf" => h \notin inbox[n][i].left

\* Node h is going to announce its machines.
Owes(h) ==
    \/ phase[h] = "joined"
    \/ phase[h] = "ready" /\ \E m \in Waiting(h) : m.type = "conf"

Spread ==
    /\ \A n \in Nodes : \A m \in Waiting(n) :
          m.type = "store" => \A v \in m.vms : host[v] \in {m.owner, None}
    /\ \A n, h \in member : \A v \in VMs : host[v] = h /\ n # h => Told(n, h, v) \/ Owes(h)

SpreadInv ==
    /\ IInv /\ moves \in Nat
    /\ starts = 0 => \A n \in member : phase[n] = "ready"
    /\ starts <= 1 => Spread

\* What was told stays told while the queue of n moves.
LEMMA ToldKept ==
    ASSUME NEW n, NEW h, NEW v, NEW d \in {0, 1}, NEW new, Shifted(n, d, new),
           Len(inbox[n]) \in Nat, Len(inbox'[n]) \in Nat,
           \A m \in new : m.type = "conf" => h \notin m.left,
           \/ remote'[n][v] = remote[n][v] \/ remote[n][v] # h
           \/ remote'[n][v] = h
           \/ d = 1 /\ inbox[n][1].type = "conf" /\ h \in inbox[n][1].left,
           \/ d = 0 \/ inbox[n][1].type # "store" \/ inbox[n][1].owner # h
           \/ v \notin inbox[n][1].vms \/ remote'[n][v] = h,
           d = 1 => Len(inbox[n]) > 0,
           Told(n, h, v)
    PROVE  Told(n, h, v)'
<1> DEFINE L == Len(inbox[n])
           M == Len(inbox'[n])
<1>1. /\ M + d >= L
      /\ \A i \in 1 .. M : \/ i + d <= L /\ inbox'[n][i] = inbox[n][i + d]
                           \/ i + d > L /\ inbox'[n][i] \in new
    BY DEF Shifted
<1>2. L \in Nat /\ M \in Nat /\ (d = 1 => L > 0)
    OBVIOUS
<1>3. ASSUME NEW q \in Nat, \A i \in 1 .. L : i > q /\ inbox[n][i].type = "conf" => h \notin inbox[n][i].left
      PROVE  \A i \in 1 .. M : i + d > q /\ inbox'[n][i].type = "conf" => h \notin inbox'[n][i].left
  <2> HIDE DEF L, M
  <2>1. SUFFICES ASSUME NEW i \in 1 .. M, i + d > q, inbox'[n][i].type = "conf"
                 PROVE  h \notin inbox'[n][i].left
      OBVIOUS
  <2>2. CASE i + d <= L /\ inbox'[n][i] = inbox[n][i + d]
    <3>1. i + d \in 1 .. L
        BY <1>2, <2>2
    <3> QED BY <1>3, <2>1, <2>2, <3>1
  <2>3. CASE inbox'[n][i] \in new
      BY <2>1, <2>3
  <2> QED BY <1>1, <2>2, <2>3
<1>4. CASE /\ remote[n][v] = h
           /\ \A i \in 1 .. L : inbox[n][i].type = "conf" => h \notin inbox[n][i].left
  <2>1. \A i \in 1 .. M : i + d > 0
      BY <1>2
  <2>2. \A i \in 1 .. M : inbox'[n][i].type = "conf" => h \notin inbox'[n][i].left
      BY <1>3, <1>4, <2>1
  <2>3. d = 1 => 1 \in 1 .. L
      BY <1>2
  <2>4. remote'[n][v] = h
      BY <1>4, <2>3
  <2> QED BY <2>2, <2>4 DEF Told
<1>5. CASE \E p \in 1 .. L :
              /\ inbox[n][p].type = "store" /\ inbox[n][p].owner = h /\ v \in inbox[n][p].vms
              /\ \A i \in 1 .. L : i > p /\ inbox[n][i].type = "conf" => h \notin inbox[n][i].left
  <2>1. PICK p \in 1 .. L :
              /\ inbox[n][p].type = "store" /\ inbox[n][p].owner = h /\ v \in inbox[n][p].vms
              /\ \A i \in 1 .. L : i > p /\ inbox[n][i].type = "conf" => h \notin inbox[n][i].left
      BY <1>5
  <2>2. p \in Nat /\ p >= 1
      BY <1>2
  <2>3. \A i \in 1 .. M : i + d > p /\ inbox'[n][i].type = "conf" => h \notin inbox'[n][i].left
      BY <1>3, <2>1, <2>2
  <2>4. CASE p > d
    <3>1. PICK q : q = p - d
        OBVIOUS
    <3>2. q \in 1 .. M /\ q + d = p /\ p <= L
        BY <1>1, <1>2, <2>2, <2>4, <3>1
    <3>3. inbox'[n][q] = inbox[n][p]
      <4> HIDE DEF L, M
      <4>1. ~(q + d > L)
          BY <1>2, <3>2
      <4>2. inbox'[n][q] = inbox[n][q + d]
          BY <1>1, <3>2, <4>1
      <4> QED BY <3>2, <4>2
    <3>4. \A i \in 1 .. M : i > q => i + d > p
        BY <1>2, <2>2, <3>2
    <3>5. \A i \in 1 .. M : i > q /\ inbox'[n][i].type = "conf" => h \notin inbox'[n][i].left
        BY <2>3, <3>4
    <3> QED BY <2>1, <3>2, <3>3, <3>5 DEF Told
  <2>5. CASE ~(p > d)
    <3>1. p = 1 /\ d = 1
        BY <2>2, <2>5
    <3>2. remote'[n][v] = h
        BY <2>1, <3>1
    <3>3. \A i \in 1 .. M : i + d > p
        BY <1>2, <3>1
    <3> QED BY <2>3, <3>2, <3>3 DEF Told
  <2> QED BY <2>4, <2>5
<1> QED BY <1>4, <1>5 DEF Told

\* A configuration that waits makes its node announce its machines.
LEMMA OwesKept ==
    ASSUME NEW h, NEW d \in {0, 1}, NEW new, Shifted(h, d, new), Len(inbox[h]) \in Nat,
           Len(inbox'[h]) \in Nat, phase'[h] = phase[h],
           d = 1 => inbox[h][1].type # "conf" \/ phase[h] # "ready",
           Owes(h)
    PROVE  Owes(h)'
<1>1. CASE phase[h] = "joined"
    BY <1>1 DEF Owes
<1>2. CASE phase[h] = "ready" /\ \E m \in Waiting(h) : m.type = "conf"
  <2>1. PICK p \in 1 .. Len(inbox[h]) : inbox[h][p].type = "conf"
      BY <1>2 DEF Waiting
  <2>2. p > d
      BY <1>2, <2>1
  <2>3. PICK q : q = p - d
      OBVIOUS
  <2>4. q \in 1 .. Len(inbox'[h]) /\ q + d = p /\ p <= Len(inbox[h])
      BY <2>1, <2>2, <2>3 DEF Shifted
  <2>5. ~(q + d > Len(inbox[h]))
      BY <2>4
  <2>6. inbox'[h][q] = inbox[h][p]
    <3>1. inbox'[h][q] = inbox[h][q + d]
        BY <2>4, <2>5 DEF Shifted
    <3> QED BY <2>4, <3>1
  <2>7. \E m \in Waiting(h)' : m.type = "conf"
      BY <2>1, <2>4, <2>6 DEF Waiting
  <2> QED BY <1>2, <2>7 DEF Owes
<1> QED BY <1>1, <1>2 DEF Owes

\* An announcement reaches every member.
LEMMA ToldBySending ==
    ASSUME Types, NEW boxes, Fewer(boxes), NEW m \in Stores, inbox' = Mcast(boxes, <<m>>),
           NEW k \in member, NEW v \in m.vms
    PROVE  Told(k, m.owner, v)'
<1>0. k \in Nodes /\ boxes[k] \in Seq(Messages) /\ m \in Messages /\ m.type = "store"
    BY MessageKinds DEF Types, Fewer, Stores
<1>1. <<m>> \in Seq(Messages) /\ Len(<<m>>) = 1 /\ <<m>>[1] = m
    BY <1>0
<1>2. Len(boxes[k]) \in Nat
    BY <1>0, LenProperties
<1>3. inbox'[k] = boxes[k] \o <<m>>
    BY <1>0 DEF Mcast
<1> DEFINE L == Len(boxes[k])
<1>4. /\ Len(inbox'[k]) = L + 1
      /\ \A i \in 1 .. L + 1 : inbox'[k][i] = IF i <= L THEN boxes[k][i] ELSE <<m>>[i - L]
  <2>1. /\ Len(boxes[k] \o <<m>>) = Len(boxes[k]) + Len(<<m>>)
        /\ \A i \in 1 .. Len(boxes[k]) + Len(<<m>>) : (boxes[k] \o <<m>>)[i] =
               IF i <= Len(boxes[k]) THEN boxes[k][i] ELSE <<m>>[i - Len(boxes[k])]
      BY <1>0, <1>1, ConcatProperties
  <2> QED BY <1>1, <1>3, <2>1
<1>5. L + 1 \in 1 .. Len(inbox'[k]) /\ inbox'[k][L + 1] = m
    BY <1>1, <1>2, <1>4
<1>6. ~\E i \in 1 .. Len(inbox'[k]) : i > L + 1
    BY <1>2, <1>4
<1> QED BY <1>0, <1>5, <1>6 DEF Told

LEMMA AppendShifts ==
    ASSUME Types, NEW k \in Nodes, NEW c \in Messages, inbox'[k] = Append(inbox[k], c)
    PROVE  /\ Shifted(k, 0, {c}) /\ Len(inbox'[k]) = Len(inbox[k]) + 1
           /\ c \in Waiting(k)'
<1>0. inbox[k] \in Seq(Messages) /\ Len(inbox[k]) \in Nat
    BY LenProperties DEF Types
<1> DEFINE L == Len(inbox[k])
<1>1. /\ Len(inbox'[k]) = L + 1 /\ \A i \in 1 .. L : inbox'[k][i] = inbox[k][i]
      /\ inbox'[k][L + 1] = c
    BY <1>0, AppendProperties
<1> HIDE DEF L
<1>2. L \in Nat /\ (\A i \in 1 .. L + 1 : i \in 1 .. L \/ i = L + 1) /\ L + 1 \in 1 .. L + 1
    BY <1>0 DEF L
<1>3. ASSUME NEW i \in 1 .. Len(inbox'[k])
      PROVE  \/ i + 0 <= L /\ inbox'[k][i] = inbox[k][i + 0]
             \/ i + 0 > L /\ inbox'[k][i] \in {c}
  <2>1. i + 0 = i /\ (i \in 1 .. L \/ i = L + 1)
      BY <1>1, <1>2
  <2> QED BY <1>1, <1>2, <2>1
<1>4. Len(inbox'[k]) + 0 >= L
    BY <1>1, <1>2
<1>5. c \in Waiting(k)'
    BY <1>1, <1>2 DEF Waiting
<1> QED BY <1>1, <1>3, <1>4, <1>5 DEF Shifted, L

\* The messages of a callback or of a thread keep it, when each node that owes
\* an announcement still does or has sent it.
LEMMA SendingSpread ==
    ASSUME Types, Types', Spread, NEW n \in Nodes, NEW d \in {0, 1}, NEW boxes,
           boxes = IF d = 1 THEN Popped(n) ELSE inbox, d = 1 => inbox[n] # <<>>,
           NEW msgs \in Seq(Messages), inbox' = Mcast(boxes, msgs), member' = member,
           \A m \in Elements(msgs) :
              \/ m.type \in {"req", "reply"}
              \/ m.type = "store" /\ \A v \in m.vms : host[v] = m.owner,
           \A v \in VMs : host'[v] \in {host[v], None},
           \A k \in member, v \in VMs : host[v] \in member \ {k} =>
              \/ remote'[k][v] = remote[k][v] \/ remote[k][v] # host[v]
              \/ remote'[k][v] = host[v]
              \/ k = n /\ d = 1 /\ inbox[n][1].type = "conf" /\ host[v] \in inbox[n][1].left,
           \A v \in VMs : host[v] \in member \ {n} =>
              \/ d = 0 \/ inbox[n][1].type # "store" \/ inbox[n][1].owner # host[v]
              \/ v \notin inbox[n][1].vms \/ remote'[n][v] = host[v],
           \A h \in member :
              \/ /\ phase'[h] = phase[h] \/ phase[h] = "listed"
                 /\ h = n /\ d = 1 => inbox[n][1].type # "conf" \/ phase[n] # "ready"
              \/ \A k \in member, v \in VMs : host[v] = h => Told(k, h, v)'
    PROVE  Spread'
<1>0. /\ member \subseteq Nodes /\ None \notin member
      /\ \A k \in member : Len(inbox[k]) \in Nat /\ Len(inbox'[k]) \in Nat
    BY LenProperties, CpgVirtAssumption DEF Types, None
<1>1. \A k \in member : Shifted(k, IF k = n THEN d ELSE 0, Elements(msgs))
    BY McastShifts
<1>2. Fewer(boxes)
    BY FewerBoxes
<1>3. \A k \in Nodes : Waiting(k)' \subseteq Waiting(k) \cup Elements(msgs)
    BY <1>2, McastAdds
<1>4. d = 1 => Len(inbox[n]) > 0
  <2>1. inbox[n] \in Seq(Messages)
      BY DEF Types
  <2> QED BY <2>1, EmptySeq, LenProperties
<1>5. ASSUME NEW k \in Nodes, NEW m \in Waiting(k)', m.type = "store", NEW v \in m.vms
      PROVE  host'[v] \in {m.owner, None}
  <2>1. m \in Messages
    <3>1. inbox'[k] \in Seq(Messages)
        BY DEF Types
    <3> QED BY <1>5, <3>1, ElementOfSeq DEF Waiting
  <2>2. v \in VMs
      BY <1>5, <2>1, MessageKinds DEF Stores
  <2>3. host[v] \in {m.owner, None}
      BY <1>3, <1>5 DEF Spread
  <2> QED BY <2>2, <2>3
<1>6. ASSUME NEW k \in member, NEW h \in member, NEW v \in VMs, host'[v] = h, k # h
      PROVE  Told(k, h, v)' \/ Owes(h)'
  <2>1. host[v] = h
      BY <1>0, <1>6
  <2>2. CASE Told(k, h, v)
    <3>1. PICK e : e = IF k = n THEN d ELSE 0
        OBVIOUS
    <3>2. /\ e \in {0, 1} /\ Shifted(k, e, Elements(msgs)) /\ (e = 1 => k = n /\ d = 1)
          /\ e = 1 => Len(inbox[k]) > 0
        BY <1>1, <1>4, <3>1
    <3>3. /\ Len(inbox[k]) \in Nat /\ Len(inbox'[k]) \in Nat
          /\ \A m \in Elements(msgs) : m.type = "conf" => h \notin m.left
        BY <1>0
    <3>4. \/ remote'[k][v] = remote[k][v] \/ remote[k][v] # h
          \/ remote'[k][v] = h
          \/ e = 1 /\ inbox[k][1].type = "conf" /\ h \in inbox[k][1].left
        BY <1>6, <2>1, <3>1
    <3>5. \/ e = 0 \/ inbox[k][1].type # "store" \/ inbox[k][1].owner # h
          \/ v \notin inbox[k][1].vms \/ remote'[k][v] = h
        BY <1>6, <2>1, <3>2
    <3> QED BY <2>2, <3>2, <3>3, <3>4, <3>5, ToldKept
  <2>3. CASE Owes(h) /\ phase'[h] = phase[h]
             /\ (h = n /\ d = 1 => inbox[n][1].type # "conf" \/ phase[n] # "ready")
    <3>1. PICK e : e = IF h = n THEN d ELSE 0
        OBVIOUS
    <3>2. /\ e \in {0, 1} /\ Shifted(h, e, Elements(msgs))
          /\ e = 1 => inbox[h][1].type # "conf" \/ phase[h] # "ready"
        BY <1>1, <2>3, <3>1
    <3>3. Len(inbox[h]) \in Nat /\ Len(inbox'[h]) \in Nat
        BY <1>0
    <3> QED BY <2>3, <3>2, <3>3, OwesKept
  <2>4. Owes(h) => phase[h] # "listed"
      BY DEF Owes
  <2> QED BY <1>6, <2>1, <2>2, <2>3, <2>4 DEF Spread
<1> QED BY <1>5, <1>6 DEF Spread

\* What one daemon announces, when nothing is lost: all its machines.
LEMMA AllTold ==
    ASSUME OneConnection, "store" \notin Lossy, Types, NEW n \in Nodes, NEW boxes, Fewer(boxes),
           NEW msgs \in store_domains(n, vl_get(n)), inbox' = Mcast(boxes, msgs),
           NEW k \in member, NEW v \in VMs, host[v] = n
    PROVE  Told(k, n, v)'
<1>1. v \in vl_get(n) /\ vl_get(n) \subseteq VMs
    BY AllListed, Listed DEF Hosted
<1>2. PICK m : m = [type |-> "store", owner |-> n, vms |-> vl_get(n)]
    OBVIOUS
<1>3. m \in Stores /\ m.owner = n /\ v \in m.vms
    BY <1>1, <1>2 DEF Stores
<1>4. msgs = <<m>>
    BY <1>1, <1>2 DEF store_domains
<1> QED BY <1>3, <1>4, ToldBySending

\* A step that announces the machines of n, and takes no configuration.
LEMMA AnnouncingSpread ==
    ASSUME OneConnection, Types, Types', Spread, NEW n \in Nodes, NEW d \in {0, 1}, NEW boxes,
           boxes = IF d = 1 THEN Popped(n) ELSE inbox,
           d = 1 => inbox[n] # <<>> /\ inbox[n][1].type \notin {"conf", "store"},
           NEW msgs \in Seq(Messages), inbox' = Mcast(boxes, msgs),
           \A m \in Elements(msgs) :
              \/ m.type \in {"req", "reply"}
              \/ m.type = "store" /\ \A v \in m.vms : host[v] = m.owner,
           \A v \in VMs : host'[v] \in {host[v], None},
           UNCHANGED <<phase, member, remote>>
    PROVE  Spread'
<1>1. \A k \in member, v \in VMs : remote'[k][v] = remote[k][v]
    OBVIOUS
<1>2. d = 0 \/ inbox[n][1].type # "store"
    OBVIOUS
<1>3. \A h \in member : /\ phase'[h] = phase[h]
                        /\ h = n /\ d = 1 => inbox[n][1].type # "conf"
    OBVIOUS
<1> QED BY <1>1, <1>2, <1>3, SendingSpread

LEMMA FrontMessage ==
    ASSUME Types, NEW n \in Nodes, inbox[n] # <<>>
    PROVE  Head1(n) = inbox[n][1] /\ Head1(n) \in Waiting(n) /\ Head1(n) \in Messages
<1>1. inbox[n] \in Seq(Messages)
    BY DEF Types
<1>2. Head(inbox[n]) = inbox[n][1]
    BY <1>1
<1> QED BY <1>2, FewerBoxes DEF Head1

LEMMA StoreSpread ==
    ASSUME OneConnection, Types, Types', Spread, NEW n \in Nodes, store_cb(n)
    PROVE  Spread'
<1> DEFINE m == Head1(n)
           fresh == m.owner # n /\ local[n] = {}
<1>0. /\ inbox[n] # <<>> /\ m.type = "store"
      /\ remote' = IF m.owner = n THEN remote ELSE [remote EXCEPT ![n] = vl_update(@, m)]
      /\ UNCHANGED <<phase, member, host>>
    BY DEF store_cb, hostVars
<1>1. PICK msgs \in IF fresh THEN update_local_vms(n) ELSE {<<>>} : inbox' = Mcast(Popped(n), msgs)
    BY DEF store_cb
<1>2. /\ msgs \in Seq(Messages)
      /\ \A x \in Elements(msgs) : x.type = "store" /\ \A v \in x.vms : host[v] = x.owner
    BY <1>1, TrueAnnouncements
<1>3. m = inbox[n][1] /\ \A v \in m.vms : host[v] \in {m.owner, None}
    BY <1>0, FrontMessage DEF Spread
<1> HIDE DEF m
<1>4. member \subseteq Nodes /\ None \notin member
    BY CpgVirtAssumption DEF Types, None
<1>5. \A k \in Nodes, v \in VMs :
         remote'[k][v] = remote[k][v] \/ (k = n /\ v \in m.vms /\ remote'[k][v] = m.owner)
    BY <1>0 DEF vl_update, Types
<1>6. \A k \in member, v \in VMs : host[v] \in member \ {k} =>
         remote'[k][v] = remote[k][v] \/ remote'[k][v] = host[v]
    BY <1>3, <1>4, <1>5
<1>7. \A v \in VMs : host[v] \in member \ {n} =>
         m.owner # host[v] \/ v \notin m.vms \/ remote'[n][v] = host[v]
    BY <1>0 DEF vl_update, Types
<1>8. \A v \in VMs : host'[v] \in {host[v], None}
    BY <1>0
<1>9. \A h \in member : phase'[h] = phase[h] /\ inbox[n][1].type # "conf"
    BY <1>0, <1>3
<1>10. Popped(n) = (IF 1 = 1 THEN Popped(n) ELSE inbox) /\ 1 \in {0, 1}
    OBVIOUS
<1> QED BY <1>0, <1>1, <1>2, <1>3, <1>6, <1>7, <1>8, <1>9, <1>10, SendingSpread

LEMMA ConfigSpread ==
    ASSUME OneConnection, "store" \notin Lossy, Types, Types', Spread, NEW n \in Nodes,
           cpg_config_change(n)
    PROVE  Spread'
<1> DEFINE m == Head1(n)
<1>0. /\ inbox[n] # <<>> /\ m.type = "conf"
      /\ remote' = [remote EXCEPT ![n] = vl_remove_by_owner(@, m.left)]
      /\ UNCHANGED <<phase, member, host>>
    BY DEF cpg_config_change, hostVars
<1>1. PICK msgs \in update_local_vms(n) : inbox' = Mcast(Popped(n), msgs)
    BY DEF cpg_config_change
<1>2. /\ msgs \in Seq(Messages)
      /\ \A x \in Elements(msgs) : x.type = "store" /\ \A v \in x.vms : host[v] = x.owner
    BY <1>1, TrueAnnouncements
<1>3. m = inbox[n][1]
    BY <1>0, FrontMessage
<1> HIDE DEF m
<1>4. member \subseteq Nodes
    BY DEF Types
<1>5. \A k \in member, v \in VMs :
         remote'[k][v] = remote[k][v] \/ (k = n /\ remote[k][v] \in m.left)
    BY <1>0, <1>4 DEF vl_remove_by_owner, Types
<1>6. \A k \in member, v \in VMs : host[v] \in member \ {k} =>
         \/ remote'[k][v] = remote[k][v] \/ remote[k][v] # host[v]
         \/ k = n /\ inbox[n][1].type = "conf" /\ host[v] \in inbox[n][1].left
    BY <1>0, <1>3, <1>5
<1>7. ASSUME phase[n] = "ready", NEW k \in member, NEW v \in VMs, host[v] = n
      PROVE  Told(k, n, v)'
  <2>1. Fewer(Popped(n)) /\ msgs \in store_domains(n, vl_get(n))
      BY <1>0, <1>1, <1>7, FewerBoxes DEF update_local_vms
  <2> QED BY <1>1, <1>7, <2>1, AllTold
<1>8. \A h \in member :
         \/ phase'[h] = phase[h] /\ (h = n => phase[n] # "ready")
         \/ \A k \in member, v \in VMs : host[v] = h => Told(k, h, v)'
    BY <1>0, <1>7
<1>9. inbox[n][1].type # "store" /\ \A v \in VMs : host'[v] \in {host[v], None}
    BY <1>0, <1>3
<1>10. Popped(n) = (IF 1 = 1 THEN Popped(n) ELSE inbox) /\ 1 \in {0, 1}
    OBVIOUS
<1> QED BY <1>0, <1>1, <1>2, <1>6, <1>8, <1>9, <1>10, SendingSpread

\* The requests and the replies that a daemon takes from its queue.
LEMMA DeliverSpread ==
    ASSUME OneConnection, Types, Types', Spread, NEW n \in Nodes, deliver_reply(n)
    PROVE  Spread'
<1>0. /\ inbox[n] # <<>> /\ inbox' = Popped(n) /\ Head1(n).type = "reply"
      /\ UNCHANGED <<phase, member, host, remote>>
    BY DEF deliver_reply, hostVars
<1>1. <<>> \in Seq(Messages) /\ Elements(<<>>) = {}
    BY NoElement
<1>2. inbox' = Mcast(Popped(n), <<>>)
  <2>1. Popped(n) \in [Nodes -> Seq(Messages)]
      BY <1>0, FewerBoxes DEF Fewer
  <2>2. \A k \in Nodes : Popped(n)[k] \o <<>> = Popped(n)[k]
      BY <2>1, ConcatEmptySeq
  <2> QED BY <1>0, <2>1, <2>2 DEF Mcast
<1>3. inbox[n][1].type \notin {"conf", "store"} /\ \A v \in VMs : host'[v] \in {host[v], None}
    BY <1>0, FrontMessage
<1>4. Popped(n) = (IF 1 = 1 THEN Popped(n) ELSE inbox) /\ 1 \in {0, 1}
    OBVIOUS
<1> QED BY <1>0, <1>1, <1>2, <1>3, <1>4, AnnouncingSpread

LEMMA LocalWorkSpread ==
    ASSUME OneConnection, Types, Types', Spread, NEW n \in Nodes, do_real_work_local(n)
    PROVE  Spread'
<1> DEFINE m == Head1(n)
<1>0. inbox[n] # <<>> /\ m.type = "req" /\ UNCHANGED <<phase, member, remote>>
    BY DEF do_real_work_local
<1>1. m.vm \in VMs /\ m.op \in Ops
  <2>1. m \in Requests
      BY <1>0, FewerBoxes, MessageKinds
  <2> QED BY <2>1 DEF Requests
<1>2. PICK e \in Effects(m.vm, m.op) :
         /\ host' = [host EXCEPT ![m.vm] = e.h]
         /\ \E s \in update_local_vms(n), r \in cpg_send_reply(Reply(n, m, e.code)) :
               inbox' = Mcast(Popped(n), s \o r)
    BY DEF do_real_work_local
<1>3. PICK s \in update_local_vms(n), r \in cpg_send_reply(Reply(n, m, e.code)) :
         inbox' = Mcast(Popped(n), s \o r)
    BY <1>2
<1>4. e.code \in Codes /\ e.h \in {host[m.vm], None}
    BY <1>1, EffectTypes, EffectHost
<1>5. /\ s \o r \in Seq(Messages)
      /\ \A x \in Elements(s \o r) :
            \/ x.type \in {"req", "reply"}
            \/ x \in Stores /\ \A v \in x.vms : host[v] = x.owner
    BY <1>0, <1>4, WorkAnnounces
<1>6. \A x \in Elements(s \o r) :
         \/ x.type \in {"req", "reply"}
         \/ x.type = "store" /\ \A v \in x.vms : host[v] = x.owner
    BY <1>5 DEF Stores
<1>7. inbox[n][1].type \notin {"conf", "store"}
    BY <1>0, FrontMessage
<1> HIDE DEF m
<1>8. \A v \in VMs : host'[v] \in {host[v], None}
    BY <1>1, <1>2, <1>4 DEF Types
<1>9. Popped(n) = (IF 1 = 1 THEN Popped(n) ELSE inbox) /\ 1 \in {0, 1}
    OBVIOUS
<1> QED BY <1>0, <1>3, <1>5, <1>6, <1>7, <1>8, <1>9, AnnouncingSpread

LEMMA UnknownWorkSpread ==
    ASSUME OneConnection, Types, Types', Spread, NEW n \in Nodes, do_real_work_unknown(n)
    PROVE  Spread'
<1> DEFINE m == Head1(n)
<1>0. inbox[n] # <<>> /\ m.type = "req" /\ UNCHANGED <<phase, member, remote, host>>
    BY DEF do_real_work_unknown, hostVars
<1>1. UnknownCode(m.op) \in Codes
  <2>1. m \in Requests
      BY <1>0, FewerBoxes, MessageKinds
  <2> QED BY <2>1 DEF Requests, UnknownCode, Codes, Ops
<1>2. PICK s \in update_local_vms(n), r \in cpg_send_reply(Reply(n, m, UnknownCode(m.op))) :
         inbox' = Mcast(Popped(n), s \o r)
    BY DEF do_real_work_unknown
<1>3. /\ s \o r \in Seq(Messages)
      /\ \A x \in Elements(s \o r) :
            \/ x.type \in {"req", "reply"}
            \/ x \in Stores /\ \A v \in x.vms : host[v] = x.owner
    BY <1>0, <1>1, WorkAnnounces
<1>4. \A x \in Elements(s \o r) :
         \/ x.type \in {"req", "reply"}
         \/ x.type = "store" /\ \A v \in x.vms : host[v] = x.owner
    BY <1>3 DEF Stores
<1>5. inbox[n][1].type \notin {"conf", "store"} /\ \A v \in VMs : host'[v] \in {host[v], None}
    BY <1>0, FrontMessage
<1> HIDE DEF m
<1>6. Popped(n) = (IF 1 = 1 THEN Popped(n) ELSE inbox) /\ 1 \in {0, 1}
    OBVIOUS
<1> QED BY <1>0, <1>2, <1>3, <1>4, <1>5, <1>6, AnnouncingSpread

LEMMA SilentWorkSpread ==
    ASSUME OneConnection, Types, Types', Spread, NEW n \in Nodes, do_real_work_silent(n)
    PROVE  Spread'
<1>0. inbox[n] # <<>> /\ Head1(n).type = "req" /\ UNCHANGED <<phase, member, remote, host>>
    BY DEF do_real_work_silent, hostVars
<1>1. PICK s \in update_local_vms(n) : inbox' = Mcast(Popped(n), s)
    BY DEF do_real_work_silent
<1>2. /\ s \in Seq(Messages)
      /\ \A x \in Elements(s) : x.type = "store" /\ \A v \in x.vms : host[v] = x.owner
    BY TrueAnnouncements
<1>3. inbox[n][1].type \notin {"conf", "store"} /\ \A v \in VMs : host'[v] \in {host[v], None}
    BY <1>0, FrontMessage
<1>4. Popped(n) = (IF 1 = 1 THEN Popped(n) ELSE inbox) /\ 1 \in {0, 1}
    OBVIOUS
<1> QED BY <1>0, <1>1, <1>2, <1>3, <1>4, AnnouncingSpread

\* A daemon comes up: it announces its machines when it has listed them.
LEMMA StartupSpread ==
    ASSUME OneConnection, "store" \notin Lossy, Types, Types', Spread, NEW n \in Nodes, Startup(n)
    PROVE  Spread'
<1>1. CASE cpg_virt_init_list(n)
  <2>0. /\ phase' = [phase EXCEPT ![n] = "listed"]
        /\ UNCHANGED <<member, remote, host>>
      BY <1>1 DEF cpg_virt_init_list, hostVars
  <2>1. PICK msgs \in store_domains(n, vl_get(n)) : inbox' = Mcast(inbox, msgs)
      BY <1>1 DEF cpg_virt_init_list
  <2>2. msgs \in Seq(Messages)
      BY Listed, Announced
  <2>3. \A x \in Elements(msgs) : x.type = "store" /\ \A v \in x.vms : host[v] = x.owner
      BY AnnouncedTrue
  <2>4. Fewer(inbox)
      BY FewerBoxes
  <2>5. \A k \in member, v \in VMs : host[v] = n => Told(k, n, v)'
      BY <2>1, <2>4, AllTold
  <2>6. \A h \in member :
           \/ phase'[h] = phase[h]
           \/ \A k \in member, v \in VMs : host[v] = h => Told(k, h, v)'
      BY <2>0, <2>5 DEF Types
  <2>7. /\ \A k \in member, v \in VMs : remote'[k][v] = remote[k][v]
        /\ \A v \in VMs : host'[v] \in {host[v], None}
      BY <2>0
  <2>8. inbox = (IF 0 = 1 THEN Popped(n) ELSE inbox) /\ 0 \in {0, 1} /\ 0 # 1
      OBVIOUS
  <2> QED BY <2>0, <2>1, <2>2, <2>3, <2>6, <2>7, <2>8, SendingSpread
<1>2. CASE cpg_virt_init_handle(n)
  <2>0. /\ phase[n] = "listed" /\ phase' = [phase EXCEPT ![n] = "ready"]
        /\ UNCHANGED <<member, inbox, remote, host>>
      BY <1>2 DEF cpg_virt_init_handle, hostVars
  <2>1. \A k \in Nodes : Waiting(k)' = Waiting(k)
      BY <2>0 DEF Waiting
  <2>2. \A k, h, v : Told(k, h, v)' = Told(k, h, v)
      BY <2>0 DEF Told
  <2>3. \A h \in member : Owes(h) => Owes(h)'
      BY <2>0, <2>1 DEF Owes, Types
  <2> QED BY <2>0, <2>1, <2>2, <2>3 DEF Spread
<1> QED BY <1>1, <1>2 DEF Startup

\* A daemon starts among others that are up: each of them has the new
\* configuration to answer.
LEMMA StartSpread ==
    ASSUME Types, Types', Spread, NEW n \in Nodes, cpg_start(n),
           \A k \in member : phase[k] = "ready"
    PROVE  Spread'
<1>1. PICK c : c = [type |-> "conf", members |-> member \cup {n}, left |-> {}, joined |-> {n}]
    OBVIOUS
<1>2. /\ phase' = [phase EXCEPT ![n] = "joined"] /\ member' = member \cup {n}
      /\ inbox' = [m \in Nodes |-> IF m \in member \cup {n} THEN Append(inbox[m], c) ELSE inbox[m]]
      /\ host' = host
    BY <1>1 DEF cpg_start, hostVars
<1>3. c \in Messages /\ c.type = "conf"
  <2>1. member \cup {n} \subseteq Nodes
      BY DEF Types
  <2>2. c \in Confs /\ c.type = "conf"
      BY <1>1, <2>1 DEF Confs
  <2> QED BY <2>2, MessageKinds
<1>4. ASSUME NEW k \in Nodes
      PROVE  Waiting(k)' \subseteq Waiting(k) \cup {c} /\ (k \in member => c \in Waiting(k)')
  <2>1. CASE inbox'[k] = Append(inbox[k], c)
    <3>1. inbox[k] \in Seq(Messages)
        BY DEF Types
    <3> QED BY <1>3, <2>1, <3>1, AppendShifts, AppendElements DEF Waiting, Elements
  <2>2. CASE k \notin member /\ inbox'[k] = inbox[k]
      BY <2>2 DEF Waiting
  <2> QED BY <1>2, <2>1, <2>2
<1>5. \A h \in member' : Owes(h)'
  <2>1. ASSUME NEW h \in member' PROVE Owes(h)'
    <3>1. CASE h = n
        BY <1>2, <3>1 DEF Owes, Types
    <3>2. CASE h # n
      <4>1. h \in member /\ h \in Nodes /\ phase'[h] = "ready"
          BY <1>2, <3>2 DEF Types
      <4> QED BY <1>3, <1>4, <4>1 DEF Owes
    <3> QED BY <3>1, <3>2
  <2> QED BY <2>1
<1>6. \A k \in Nodes : \A m \in Waiting(k)' :
          m.type = "store" => \A v \in m.vms : host'[v] \in {m.owner, None}
    BY <1>2, <1>3, <1>4 DEF Spread
<1> QED BY <1>5, <1>6 DEF Spread

\* A daemon goes: what it announced goes with it, and nothing else.
LEMMA GoneSpread ==
    ASSUME Types, Types', Spread, NEW n \in Nodes, Gone(n), host' = host
    PROVE  Spread'
<1>1. PICK c : c = [type |-> "conf", members |-> member \ {n}, left |-> {n}, joined |-> {}]
    OBVIOUS
<1>2. /\ phase' = [phase EXCEPT ![n] = "down"] /\ member' = member \ {n}
      /\ inbox' = [m \in Nodes |-> IF m \in member \ {n} THEN Append(inbox[m], c)
                                   ELSE IF m = n THEN <<>> ELSE inbox[m]]
      /\ remote' = [remote EXCEPT ![n] = [v \in VMs |-> None]]
    BY <1>1 DEF Gone
<1>3. c \in Messages /\ c.type = "conf" /\ c.left = {n}
  <2>1. member \subseteq Nodes
      BY DEF Types
  <2>2. c \in Confs /\ c.type = "conf"
      BY <1>1, <2>1 DEF Confs
  <2> QED BY <1>1, <2>2, MessageKinds
<1>4. ASSUME NEW m \in Nodes PROVE Waiting(m)' \subseteq Waiting(m) \cup {c}
  <2>1. inbox[m] \in Seq(Messages)
      BY DEF Types
  <2>2. inbox'[m] = Append(inbox[m], c) \/ inbox'[m] = <<>> \/ inbox'[m] = inbox[m]
      BY <1>2
  <2>3. CASE inbox'[m] = Append(inbox[m], c)
      BY <1>3, <2>1, <2>3, AppendElements DEF Waiting, Elements
  <2>4. CASE inbox'[m] = <<>>
      BY <2>4, NoElement DEF Waiting, Elements
  <2>5. CASE inbox'[m] = inbox[m]
      BY <2>5 DEF Waiting
  <2> QED BY <2>2, <2>3, <2>4, <2>5
<1>5. ASSUME NEW k \in member'
      PROVE  /\ k \in member /\ k \in Nodes /\ k # n /\ Shifted(k, 0, {c}) /\ remote'[k] = remote[k]
             /\ phase'[k] = phase[k] /\ Len(inbox[k]) \in Nat /\ Len(inbox'[k]) \in Nat
  <2>1. k \in member /\ k \in Nodes /\ k # n /\ inbox'[k] = Append(inbox[k], c)
      BY <1>2 DEF Types
  <2>2. remote'[k] = remote[k] /\ phase'[k] = phase[k]
      BY <1>2, <2>1 DEF Types
  <2>3. Shifted(k, 0, {c})
      BY <1>3, <2>1, AppendShifts
  <2> QED BY <2>1, <2>2, <2>3, LenProperties DEF Types
<1>6. ASSUME NEW k \in member', NEW h \in member', NEW v \in VMs, host'[v] = h, k # h
      PROVE  Told(k, h, v)' \/ Owes(h)'
  <2>1. 0 \in {0, 1} /\ 0 # 1
      OBVIOUS
  <2>2. CASE Told(k, h, v)
    <3>1. \A m \in {c} : m.type = "conf" => h \notin m.left
        BY <1>3, <1>5, <1>6
    <3>2. remote'[k][v] = remote[k][v]
        BY <1>5
    <3> QED BY <1>5, <2>1, <2>2, <3>1, <3>2, ToldKept
  <2>3. CASE Owes(h)
      BY <1>5, <2>1, <2>3, OwesKept
  <2> QED BY <1>5, <1>6, <2>2, <2>3 DEF Spread
<1>7. \A k \in Nodes : \A m \in Waiting(k)' :
          m.type = "store" => \A v \in m.vms : host'[v] \in {m.owner, None}
    BY <1>3, <1>4 DEF Spread
<1> QED BY <1>6, <1>7 DEF Spread

LEMMA QuietSpread ==
    ASSUME Spread, UNCHANGED <<phase, member, inbox, remote, host>>
    PROVE  Spread'
<1>1. \A k \in Nodes : Waiting(k)' = Waiting(k)
    BY DEF Waiting
<1>2. \A k, h, v : Told(k, h, v)' = Told(k, h, v)
    BY DEF Told
<1>3. \A h : Owes(h)' = Owes(h)
    BY DEF Owes, Waiting
<1> QED BY <1>1, <1>2, <1>3 DEF Spread

LEMMA HostlistSpread ==
    ASSUME OneConnection, Types, Types', Spread, NEW n \in Nodes, cpg_virt_hostlist(n)
    PROVE  Spread'
<1>0. host' = host
    BY DEF cpg_virt_hostlist, hostVars
<1>1. CASE Gone(n)
    BY <1>0, <1>1, GoneSpread
<1>2. CASE /\ \E msgs \in update_local_vms(n) : inbox' = Mcast(inbox, msgs)
           /\ UNCHANGED <<phase, member, remote>>
  <2>1. PICK msgs \in update_local_vms(n) : inbox' = Mcast(inbox, msgs)
      BY <1>2
  <2>2. /\ msgs \in Seq(Messages)
        /\ \A x \in Elements(msgs) : x.type = "store" /\ \A v \in x.vms : host[v] = x.owner
      BY TrueAnnouncements
  <2>3. inbox = (IF 0 = 1 THEN Popped(n) ELSE inbox) /\ 0 \in {0, 1} /\ 0 # 1
      OBVIOUS
  <2>4. \A v \in VMs : host'[v] \in {host[v], None}
      BY <1>0
  <2> QED BY <1>2, <2>1, <2>2, <2>3, <2>4, AnnouncingSpread
<1> QED BY <1>1, <1>2 DEF cpg_virt_hostlist

LEMMA SendSpread ==
    ASSUME OneConnection, Types, Types', Spread, NEW n \in Nodes, NEW v \in VMs, NEW op \in Asks,
           cpg_send_req(n, v, op)
    PROVE  Spread'
<1>0. PICK rid : rid = Len(asked) + 1
    OBVIOUS
<1>1. PICK req : req = [type |-> "req", from |-> n, seqno |-> seqnum[n] + 1, vm |-> v, op |-> op,
                        rid |-> rid]
    OBVIOUS
<1>2. /\ rid <= MaxRequests /\ UNCHANGED <<phase, member, host, remote>>
      /\ inbox' = Mcast(inbox, <<req>>) \/ inbox' = inbox
    BY <1>0, <1>1 DEF cpg_send_req, hostVars
<1>3. Len(asked) \in Nat /\ seqnum[n] \in Nat /\ MaxRequests \in Nat
    BY LenProperties, CpgVirtAssumption DEF Types
<1>4. rid \in Rids /\ op \in Ops
    BY <1>2, <1>3, <1>0, CpgVirtAssumption DEF Rids
<1>5. req \in Messages /\ req.type = "req"
  <2>1. req \in Requests
      BY <1>3, <1>4, <1>1 DEF Requests
  <2> QED BY <1>1, <2>1, MessageKinds
<1>6. CASE inbox' = Mcast(inbox, <<req>>)
  <2>1. <<req>> \in Seq(Messages) /\ Elements(<<req>>) = {req}
      BY <1>5, OneElement
  <2>2. \A x \in Elements(<<req>>) : x.type \in {"req", "reply"}
      BY <1>5, <2>1
  <2>3. inbox = (IF 0 = 1 THEN Popped(n) ELSE inbox) /\ 0 \in {0, 1} /\ 0 # 1
      OBVIOUS
  <2>4. \A w \in VMs : host'[w] \in {host[w], None}
      BY <1>2
  <2> QED BY <1>2, <1>6, <2>1, <2>2, <2>3, <2>4, AnnouncingSpread
<1>7. CASE inbox' = inbox
    BY <1>2, <1>7, QuietSpread
<1> QED BY <1>2, <1>6, <1>7

\* Only the start of a daemon counts as one, and no other step takes a member
\* back from "ready", except by its departure.
LEMMA OneStarts ==
    ASSUME Types, moves \in Nat, MaxMoves = 0, [Next]_vars
    PROVE  /\ moves' = moves
           /\ \/ starts' = starts + 1 /\ \E n \in Nodes : cpg_start(n)
              \/ /\ starts' = starts /\ ~\E n \in Nodes : cpg_start(n)
                 /\ (\A n \in member : phase[n] = "ready")
                        => \A n \in member' : phase'[n] = "ready"
<1>0. starts \in Nat
    BY DEF Types
<1>1. ASSUME NEW n \in Nodes, cpg_start(n) PROVE moves' = moves /\ starts' = starts + 1
    BY <1>1 DEF cpg_start
<1>2. ASSUME NEW n \in Nodes, Gone(n), \A k \in member : phase[k] = "ready"
      PROVE  \A k \in member' : phase'[k] = "ready"
    BY <1>2 DEF Gone, Types
<1>3. ASSUME NEW n \in Nodes, Startup(n) PROVE moves' = moves /\ starts' = starts
    BY <1>3 DEF Startup, cpg_virt_init_list, cpg_virt_init_handle, bounds
<1>4. ASSUME NEW n \in Nodes, Startup(n) PROVE n \in member /\ phase[n] # "ready"
    BY <1>4 DEF Startup, cpg_virt_init_list, cpg_virt_init_handle, Types
<1>5. ASSUME NEW n \in Nodes, do_real_work_null(n) \/ Crash(n) PROVE moves' = moves /\ starts' = starts /\ Gone(n)
    BY <1>5 DEF do_real_work_null, Crash, bounds
<1>6. ASSUME NEW n \in Nodes, Dispatch(n), ~do_real_work_null(n)
      PROVE  UNCHANGED <<moves, starts, phase, member>>
    BY <1>6 DEF Dispatch, deliver_reply, store_cb, cpg_config_change, do_real_work_local,
       do_real_work_unknown, do_real_work_silent, bounds
<1>7. ASSUME NEW n \in Nodes, Listen(n) \/ cpg_wait_reply_spurious(n)
      PROVE  UNCHANGED <<moves, starts, phase, member>>
    BY <1>7 DEF Listen, cpg_wait_reply, cpg_wait_reply_woken, cpg_wait_reply_spurious, bounds
<1>8. ASSUME NEW n \in Nodes, cpg_virt_hostlist(n)
      PROVE  moves' = moves /\ starts' = starts /\ (Gone(n) \/ UNCHANGED <<phase, member>>)
    BY <1>8 DEF cpg_virt_hostlist
<1>9. ASSUME NEW n \in Nodes, NEW v \in VMs, NEW op \in Asks, cpg_send_req(n, v, op)
      PROVE  UNCHANGED <<moves, starts, phase, member>>
    BY <1>9 DEF cpg_send_req, bounds
<1>10. CASE UNCHANGED vars
  <2>1. UNCHANGED <<moves, starts, phase, member>>
      BY <1>10 DEF vars, bounds, daemonVars
  <2> QED BY <1>0, <1>1, <2>1
<1>11. \A n \in Nodes, v \in VMs : ~Migrate(v, n)
    BY DEF Migrate
<1>12. \A n \in Nodes : cpg_start(n) => starts' # starts
    BY <1>0, <1>1
<1>13. CASE \E n \in Nodes : cpg_start(n)
    BY <1>1, <1>13
<1>14. CASE Next /\ ~\E n \in Nodes : cpg_start(n)
  <2>1. ASSUME NEW n \in Nodes,
               Dispatch(n) \/ Listen(n) \/ Startup(n) \/ Crash(n) \/ cpg_wait_reply_spurious(n)
               \/ cpg_virt_hostlist(n)
        PROVE  /\ moves' = moves /\ starts' = starts
               /\ (\A k \in member : phase[k] = "ready") => \A k \in member' : phase'[k] = "ready"
      BY <1>2, <1>3, <1>4, <1>5, <1>6, <1>7, <1>8, <2>1
  <2> QED BY <1>9, <1>11, <1>14, <2>1 DEF Next
<1> QED BY <1>10, <1>13, <1>14

LEMMA NextSpread ==
    ASSUME OneConnection, MaxMoves = 0, "store" \notin Lossy, SpreadInv, [Next]_vars
    PROVE  SpreadInv'
<1>0. IInv /\ Types /\ moves \in Nat /\ starts \in Nat
    BY DEF SpreadInv, IInv, Types
<1>1. IInv' /\ Types'
    BY <1>0, NextIInv DEF IInv
<1>2. /\ moves' = moves
      /\ \/ starts' = starts + 1 /\ \E n \in Nodes : cpg_start(n)
         \/ /\ starts' = starts /\ ~\E n \in Nodes : cpg_start(n)
            /\ (\A n \in member : phase[n] = "ready") => \A n \in member' : phase'[n] = "ready"
    BY <1>0, OneStarts
<1>3. starts' = 0 => \A n \in member' : phase'[n] = "ready"
    BY <1>0, <1>2 DEF SpreadInv
<1>4. ASSUME starts' <= 1 PROVE Spread'
  <2>1. Spread
      BY <1>0, <1>2, <1>4 DEF SpreadInv
  <2>2. ASSUME NEW n \in Nodes, cpg_start(n) PROVE Spread'
    <3>1. starts = 0
        BY <1>0, <1>4, <2>2 DEF cpg_start
    <3> QED BY <1>0, <1>1, <2>1, <2>2, <3>1, StartSpread DEF SpreadInv
  <2>3. ASSUME NEW n \in Nodes, Crash(n) \/ do_real_work_null(n) PROVE Spread'
      BY <1>0, <1>1, <2>1, <2>3, GoneSpread DEF Crash, do_real_work_null, hostVars
  <2>4. ASSUME NEW n \in Nodes, Dispatch(n) PROVE Spread'
      BY <1>0, <1>1, <2>1, <2>3, <2>4, DeliverSpread, StoreSpread, ConfigSpread, LocalWorkSpread,
         UnknownWorkSpread, SilentWorkSpread DEF Dispatch
  <2>5. ASSUME NEW n \in Nodes, Listen(n) \/ cpg_wait_reply_spurious(n) PROVE Spread'
      BY <2>1, <2>5, QuietSpread DEF Listen, cpg_wait_reply, cpg_wait_reply_woken,
         cpg_wait_reply_spurious, hostVars
  <2>6. CASE UNCHANGED vars
      BY <2>1, <2>6, QuietSpread DEF vars, daemonVars, hostVars
  <2>7. \A n \in Nodes, v \in VMs : ~Migrate(v, n)
      BY <1>0 DEF Migrate
  <2> QED BY <1>0, <1>1, <2>1, <2>2, <2>3, <2>4, <2>5, <2>6, <2>7, StartupSpread, HostlistSpread,
             SendSpread DEF Next
<1> QED BY <1>0, <1>1, <1>2, <1>3, <1>4 DEF SpreadInv

LEMMA InitSpread ==
    ASSUME OneConnection, Init
    PROVE  SpreadInv
<1>1. IInv /\ Types /\ Settled /\ moves = 0 /\ starts = 0
    BY InitIInv, InitSettled DEF IInv, Init
<1>2. \A n \in member : n \in Nodes /\ phase[n] = "ready"
    BY CpgVirtAssumption DEF Init
<1>3. \A n \in Nodes : inbox[n] = <<>>
    BY DEF Init
<1>4. Len(<<>>) = 0 /\ 1 .. 0 = {}
    BY EmptySeq
<1>5. \A n \in Nodes : Waiting(n) = {}
    BY <1>3, <1>4 DEF Waiting
<1>6. ASSUME NEW n \in member, NEW h \in member, NEW v \in VMs, host[v] = h, n # h
      PROVE  Told(n, h, v)
  <2>1. remote[n][v] = h
      BY <1>1, <1>6 DEF Settled
  <2>2. Len(inbox[n]) = 0
      BY <1>2, <1>3, <1>4
  <2> QED BY <1>4, <2>1, <2>2 DEF Told
<1> QED BY <1>1, <1>2, <1>5, <1>6 DEF SpreadInv, Spread

\* The comment in do_real_work, "We know about all domains on all nodes in the
\* CPG group": after at most one daemon has started, whichever crashed, once all
\* that are up have their handle and nothing waits to be dispatched, every
\* member has each machine of the other members on its remote list.
THEOREM KnowsAllCorrect ==
    ASSUME OneConnection, MaxMoves = 0, "store" \notin Lossy
    PROVE  Spec => [](starts <= 1 => KnowsAll)
<1>1. Init => SpreadInv
    BY InitSpread
<1>2. SpreadInv /\ [Next]_vars => SpreadInv'
    BY NextSpread
<1>3. SpreadInv => (starts <= 1 => KnowsAll)
  <2> SUFFICES ASSUME SpreadInv, starts <= 1,
                      \A n \in member : phase[n] = "ready" /\ inbox[n] = <<>>,
                      NEW n \in member, NEW v \in VMs, host[v] \in member \ {n}
               PROVE  remote[n][v] = host[v]
      BY DEF KnowsAll
  <2>1. Told(n, host[v], v) \/ Owes(host[v])
      BY DEF SpreadInv, Spread
  <2>2. Len(<<>>) = 0 /\ 1 .. 0 = {}
      BY EmptySeq
  <2>3. ~Owes(host[v])
    <3>1. phase[host[v]] = "ready" /\ Waiting(host[v]) = {}
        BY <2>2 DEF Waiting
    <3> QED BY <3>1 DEF Owes
  <2>4. 1 .. Len(inbox[n]) = {}
      BY <2>2
  <2> QED BY <2>1, <2>3, <2>4 DEF Told
<1> QED BY <1>1, <1>2, <1>3, PTL DEF Spec
=============================================================================
