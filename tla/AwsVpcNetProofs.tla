-------------------------- MODULE AwsVpcNetProofs --------------------------
(***************************************************************************)
(* Proofs about AwsVpcNet for any processes, interfaces, security groups   *)
(* and options, any number of runs, failing calls and killed agents.       *)
(***************************************************************************)
EXTENDS AwsVpcNet, FiniteSetTheorems, TLAPS

Maps == [Nics -> SUBSET Groups]

\* Where a process is before it has changed anything.
Early == {"status", "fenced", "lastfence", "tags", "set", "modify"}
\* Where it holds groups that it writes.
Holding == {"modify", "backup", "stamp", "update", "details", "give"}
Pcs == Early \cup Holding \cup {"idle", "match", "shutdown", "restore", "collect", "delete", "options",
                                "put", "check", "verify"}

Recs == [pc : Pcs, action : {"none", "on", "off"}, t : Nat, seen : Maps, bk : Maps, at : Nics,
         chunk : Nat, modified : SUBSET Nics, tries : Nat, polls : Nat]

Types ==
    /\ setup \in Setups /\ sgs \in Maps /\ lastfence \in Nat /\ now \in Nat
    /\ proc \in [Procs -> Recs]

\* The groups that interface n may have.
Whole(n) == {g \in SUBSET Groups :
                /\ g # {}
                /\ \E h \in {Home[n], Desired("on", n), Desired("off", n)} : g \in {h, updated_sgs(h)}}

\* Chunk i of a backup of the groups g.
Tag(t, n, i, g) == [t |-> t, nic |-> n, i |-> i, total |-> Cardinality(g), s |-> Nth(g, i)]

\* All tags of one time and interface are chunks of the same groups.
Tags ==
    /\ \A b \in backups : b.t \in 1 .. now
    /\ \A t \in Nat, n \in Nics : \E g \in Whole(n) : \A b \in backups :
          b.t = t /\ b.nic = n => \E i \in 0 .. Cardinality(g) - 1 : b = Tag(t, n, i, g)

\* A process that writes tags has a time of its own, and holds what the tags of
\* that time say.
Writing(r) == r.pc \in {"modify", "backup"}

Backing(r, bs) ==
    /\ r.chunk \in 0 .. Cardinality(r.seen[r.at]) - 1
    /\ \A b \in bs : b.t = r.t =>
          \E n \in Nics : \E i \in 0 .. Cardinality(r.seen[n]) - 1 : b = Tag(r.t, n, i, r.seen[n])

ProcOK(r, bs, k) ==
    /\ r.pc # "idle" => r.action # "none"
    /\ r.pc \in Early => r.chunk = 0
    /\ r.pc \in {"backup", "stamp", "update"} => \A n \in Nics : r.seen[n] \in Whole(n)
    /\ r.pc \in {"details", "give"} => \A n \in Nics : r.bk[n] \in Whole(n) \cup {{}}
    /\ Writing(r) => r.t \in 1 .. k
    /\ r.pc = "modify" => \A b \in bs : b.t # r.t
    /\ r.pc = "backup" => Backing(r, bs)

Apart == \A p, q \in Procs : Writing(proc[p]) /\ Writing(proc[q]) /\ p # q => proc[p].t # proc[q].t

IInv ==
    /\ Types /\ Tags /\ Apart
    /\ \A n \in Nics : sgs[n] \in Whole(n)
    /\ \A p \in Procs : ProcOK(proc[p], backups, now)

----------------------------------------------------------------------------
(* A backup with all its chunks says what the groups were.                 *)

\* Each group of g has a place of its own in the order of g.
Rank(g, x) == Cardinality({y \in g : y < x})

LEMMA IntervalSize ==
    ASSUME NEW c \in Nat
    PROVE  IsFiniteSet(0 .. c - 1) /\ Cardinality(0 .. c - 1) = c
BY FS_Interval

LEMMA Ranks ==
    ASSUME NEW g \in SUBSET Nat, IsFiniteSet(g)
    PROVE  /\ Cardinality(g) \in Nat
           /\ \A x \in g : Nth(g, Rank(g, x)) = x
           /\ \A x \in g : Rank(g, x) \in 0 .. Cardinality(g) - 1
           /\ \A i \in 0 .. Cardinality(g) - 1 : Nth(g, i) \in g
<1>1. Cardinality(g) \in Nat
    BY FS_CardinalityType
<1>2. ASSUME NEW x \in g
      PROVE  Rank(g, x) \in 0 .. Cardinality(g) - 1
  <2> DEFINE below == {y \in g : y < x}
  <2>1. below \subseteq g \ {x}
      OBVIOUS
  <2>2. IsFiniteSet(g \ {x}) /\ Cardinality(g \ {x}) = Cardinality(g) - 1
      BY FS_RemoveElement
  <2>3. IsFiniteSet(below) /\ Cardinality(below) <= Cardinality(g) - 1
      BY <2>1, <2>2, FS_Subset
  <2>4. Cardinality(below) \in Nat
      BY <2>3, FS_CardinalityType
  <2> QED BY <1>1, <2>3, <2>4 DEF Rank
<1>3. ASSUME NEW x \in g, NEW z \in g, x < z
      PROVE  Rank(g, x) # Rank(g, z)
  <2> DEFINE low == {y \in g : y < x}
             up == {y \in g : y < z}
  <2>0. \A y \in g : y \in Nat /\ (y < x => y < z) /\ ~(x < x)
      BY <1>3
  <2>1. low \subseteq up /\ x \in up /\ x \notin low
      BY <1>3, <2>0
  <2>2. IsFiniteSet(up)
      BY FS_Subset
  <2>3. low # up
      BY <2>1
  <2> QED BY <2>1, <2>2, <2>3, FS_Subset DEF Rank
<1>4. \A x, z \in g : Rank(g, x) = Rank(g, z) => x = z
  <2>1. \A x, z \in g : x < z \/ z < x \/ x = z
      OBVIOUS
  <2> QED BY <1>3, <2>1
<1>5. \A x \in g : Nth(g, Rank(g, x)) = x
  <2> SUFFICES ASSUME NEW x \in g PROVE Nth(g, Rank(g, x)) = x
      OBVIOUS
  <2>1. Nth(g, Rank(g, x)) = CHOOSE z \in g : Rank(g, z) = Rank(g, x)
      BY DEF Nth, Rank
  <2>2. (CHOOSE z \in g : Rank(g, z) = Rank(g, x)) \in g
      OBVIOUS
  <2>3. Rank(g, CHOOSE z \in g : Rank(g, z) = Rank(g, x)) = Rank(g, x)
      OBVIOUS
  <2> QED BY <1>4, <2>1, <2>2, <2>3
<1>6. ASSUME NEW i \in 0 .. Cardinality(g) - 1
      PROVE  Nth(g, i) \in g
  <2> DEFINE f == [x \in g |-> Rank(g, x)]
             I == 0 .. Cardinality(g) - 1
  <2>1. f \in Injection(g, I)
      BY <1>2, <1>4 DEF Injection, IsInjective
  <2>2. IsFiniteSet(I) /\ Cardinality(I) = Cardinality(g)
      BY <1>1, IntervalSize
  <2>3. f \in Surjection(g, I)
      BY <2>1, <2>2, FS_Injection
  <2>4. PICK x \in g : f[x] = i
      BY <2>3 DEF Surjection
  <2> QED BY <1>5, <2>4
<1> QED BY <1>1, <1>2, <1>5, <1>6

LEMMA CompleteIsWhole ==
    ASSUME NEW g \in SUBSET Nat, IsFiniteSet(g), NEW t, NEW n, NEW bs,
           \A b \in bs : \E i \in 0 .. Cardinality(g) - 1 : b = Tag(t, n, i, g),
           Cardinality(bs) = Cardinality(g)
    PROVE  {b.s : b \in bs} = g
<1> DEFINE I == 0 .. Cardinality(g) - 1
           f == [b \in bs |-> b.i]
<1>0. Cardinality(g) \in Nat
    BY FS_CardinalityType
<1>1. \A b \in bs : b.i \in I /\ b = Tag(t, n, b.i, g) /\ b.s = Nth(g, b.i)
  <2> SUFFICES ASSUME NEW b \in bs PROVE b.i \in I /\ b = Tag(t, n, b.i, g) /\ b.s = Nth(g, b.i)
      OBVIOUS
  <2>1. PICK i \in I : b = Tag(t, n, i, g)
      OBVIOUS
  <2>2. b.i = i /\ b.s = Nth(g, i)
      BY <2>1 DEF Tag
  <2> QED BY <2>1, <2>2
<1>2. f \in Injection(bs, I)
  <2>1. f \in [bs -> I]
      BY <1>1
  <2>2. \A b, c \in bs : f[b] = f[c] => b = c
      BY <1>1
  <2> QED BY <2>1, <2>2 DEF Injection, IsInjective
<1>3. IsFiniteSet(I) /\ Cardinality(I) = Cardinality(g)
    BY <1>0, IntervalSize
<1>4. f \in Surjection(bs, I)
    BY <1>2, <1>3, FS_Injection
<1>5. ASSUME NEW x \in g PROVE \E b \in bs : b.s = x
  <2>1. Rank(g, x) \in I /\ Nth(g, Rank(g, x)) = x
      BY Ranks
  <2>2. PICK b \in bs : f[b] = Rank(g, x)
      BY <1>4, <2>1 DEF Surjection
  <2> QED BY <1>1, <2>1, <2>2
<1>6. \A b \in bs : b.s \in g
    BY <1>1, Ranks
<1> QED BY <1>5, <1>6

LEMMA SetupTypes ==
    ASSUME setup \in Setups, NEW n \in Nics
    PROVE  /\ setup.secg \subseteq Groups /\ IsFiniteSet(setup.secg)
           /\ \A h \in {Home[n], Desired("on", n), Desired("off", n)} :
                 h \subseteq Groups /\ IsFiniteSet(h)
<1>1. setup.desired \in [{"on", "off"} -> [Nics -> SUBSET Groups]]
    BY AwsVpcNetAssumption
<1>2. \A a \in {"on", "off"} : Desired(a, n) \subseteq Groups /\ IsFiniteSet(Desired(a, n))
    BY <1>1, AwsVpcNetAssumption DEF Desired
<1>3. Home[n] \subseteq Groups /\ IsFiniteSet(Home[n])
    BY AwsVpcNetAssumption
<1> QED BY <1>2, <1>3, AwsVpcNetAssumption

\* Fencing keeps groups whole, unless none is left.
LEMMA WholeSets ==
    ASSUME setup \in Setups, NEW n \in Nics, NEW g \in Whole(n)
    PROVE  /\ g \in SUBSET Nat /\ IsFiniteSet(g) /\ g # {}
           /\ updated_sgs(g) # {} => updated_sgs(g) \in Whole(n)
<1>1. PICK h \in {Home[n], Desired("on", n), Desired("off", n)} : g \in {h, updated_sgs(h)}
    BY DEF Whole
<1>2. h \subseteq Groups /\ IsFiniteSet(h) /\ setup.secg \subseteq Groups /\ IsFiniteSet(setup.secg)
    BY SetupTypes
<1>3. IsFiniteSet(updated_sgs(h)) /\ updated_sgs(h) \subseteq Groups
  <2>1. IsFiniteSet(h \ setup.secg)
      BY <1>2, FS_Difference
  <2> QED BY <1>2, <2>1 DEF updated_sgs
<1>4. updated_sgs(g) = updated_sgs(h)
    BY <1>1 DEF updated_sgs
<1>5. g \in SUBSET Nat /\ IsFiniteSet(g) /\ g # {}
  <2>1. g # {}
      BY DEF Whole
  <2>2. g \subseteq Groups /\ IsFiniteSet(g)
      BY <1>1, <1>2, <1>3
  <2> QED BY <2>1, <2>2 DEF Groups
<1>6. updated_sgs(g) # {} => updated_sgs(g) \in Whole(n)
    BY <1>1, <1>3, <1>4 DEF Whole
<1> QED BY <1>5, <1>6

LEMMA MatchingIsWhole ==
    ASSUME Types, Tags, NEW t \in Nat, NEW n \in Nics
    PROVE  matching_backups(t, n) \in Whole(n) \cup {{}}
<1> DEFINE bs == {b \in backups : b.t = t /\ b.nic = n}
<1>1. matching_backups(t, n) = IF \A b \in bs : Cardinality(bs) = b.total THEN {b.s : b \in bs} ELSE {}
    BY DEF matching_backups
<1>2. PICK g \in Whole(n) : \A b \in bs : \E i \in 0 .. Cardinality(g) - 1 : b = Tag(t, n, i, g)
    BY DEF Tags
<1> HIDE DEF bs
<1>3. CASE bs = {}
    BY <1>1, <1>3
<1>4. CASE bs # {} /\ \A b \in bs : Cardinality(bs) = b.total
  <2>1. Cardinality(bs) = Cardinality(g)
    <3>1. PICK b \in bs : TRUE
        BY <1>4
    <3>2. b.total = Cardinality(g)
        BY <1>2 DEF Tag
    <3> QED BY <1>4, <3>2
  <2>2. g \in SUBSET Nat /\ IsFiniteSet(g)
      BY WholeSets DEF Types
  <2>3. {b.s : b \in bs} = g
      BY <1>2, <2>1, <2>2, CompleteIsWhole
  <2> QED BY <1>1, <1>4, <2>3
<1>5. CASE ~\A b \in bs : Cardinality(bs) = b.total
    BY <1>1, <1>5
<1> QED BY <1>3, <1>4, <1>5

----------------------------------------------------------------------------
(* What a step of a process keeps.                                         *)

\* Fewer tags and a later time are no worse for a process.
LEMMA ProcLater ==
    ASSUME setup' = setup, NEW r, NEW bs, NEW cs \in SUBSET bs, NEW j \in Nat, NEW k \in Nat, j <= k,
           ProcOK(r, bs, j), r.t \in Nat
    PROVE  ProcOK(r, cs, k)
<1>1. r.t \in 1 .. j => r.t \in 1 .. k
    OBVIOUS
<1> QED BY <1>1 DEF ProcOK, Backing

\* The service is left with whole groups and with tags it had.
Service ==
    /\ setup' = setup /\ sgs' \in Maps /\ \A n \in Nics : sgs'[n] \in Whole(n)
    /\ backups' \subseteq backups /\ lastfence' \in Nat /\ now' \in {now, now + 1}

LEMMA SameWhole ==
    ASSUME setup' = setup
    PROVE  /\ \A n : Whole(n)' = Whole(n)
           /\ \A p \in Procs : ProcOK(proc'[p], backups', now') => ProcOK(proc[p], backups, now)'
<1>1. \A n : Whole(n)' = Whole(n)
    BY DEF Whole, updated_sgs, Desired
<1> QED BY <1>1 DEF ProcOK, Backing, Writing

\* The process goes on with r, and holds nothing that it should not.
LEMMA StepKeeps ==
    ASSUME IInv, NEW p \in Procs, NEW r \in Recs, Goes(p, r), Service, ProcOK(r, backups, now'),
           Writing(r) => r.t = now + 1 \/ (Writing(proc[p]) /\ r.t = proc[p].t)
    PROVE  IInv'
<1>0. Types /\ Tags /\ Apart /\ now \in Nat /\ now' \in Nat /\ now <= now'
    BY DEF IInv, Types, Service
<1>1. /\ proc' \in [Procs -> Recs] /\ proc'[p] = r
      /\ \A q \in Procs \ {p} : proc'[q] = proc[q]
    BY <1>0 DEF Goes, Types
<1>2. Types'
    BY <1>0, <1>1 DEF Types, Service
<1>3. \A n : Whole(n)' = Whole(n)
    BY SameWhole DEF Service
<1>4. \A n \in Nics : sgs'[n] \in Whole(n)'
    BY <1>3 DEF Service
<1>5. Tags'
  <2>1. \A b \in backups' : b.t \in 1 .. now'
      BY <1>0 DEF Tags, Service
  <2> QED BY <1>0, <1>3, <2>1 DEF Tags, Service
<1>6. \A q \in Procs : proc[q] \in Recs /\ proc[q].t \in Nat /\ r.t \in Nat
    BY <1>0 DEF Types, Recs
<1>7. \A q \in Procs : ProcOK(proc'[q], backups', now')
  <2>1. ProcOK(r, backups', now')
      BY <1>0, <1>6, ProcLater DEF Service
  <2>2. ASSUME NEW q \in Procs \ {p} PROVE ProcOK(proc[q], backups', now')
      BY <1>0, <1>6, ProcLater DEF Service, IInv
  <2> QED BY <1>1, <2>1, <2>2
<1>8. \A q \in Procs : ProcOK(proc[q], backups, now)'
    BY <1>7, SameWhole DEF Service
<1>9. Apart'
  <2>1. \A q \in Procs : Writing(proc[q]) => proc[q].t \in 1 .. now
      BY DEF IInv, ProcOK
  <2>2. \A q \in Procs : Writing(proc[q]) => proc[q].t # now + 1
      BY <1>0, <2>1
  <2>3. \A q \in Procs \ {p} : Writing(proc[q]) /\ Writing(r) => proc[q].t # r.t
      BY <1>0, <2>2 DEF Apart
  <2> QED BY <1>0, <1>1, <2>3 DEF Apart
<1> QED BY <1>2, <1>4, <1>5, <1>8, <1>9 DEF IInv

\* Most steps leave the process with nothing in its hands.
Plain(r) == /\ r \in Recs /\ r.pc \notin Holding
            /\ r.pc # "idle" => r.action # "none"
            /\ r.pc \in Early => r.chunk = 0

LEMMA PlainKeeps ==
    ASSUME IInv, NEW p \in Procs, NEW r, Plain(r), Goes(p, r), Service
    PROVE  IInv'
<1>1. r \in Recs /\ ~Writing(r) /\ ProcOK(r, backups, now')
    BY DEF Plain, Holding, Writing, ProcOK
<1> QED BY <1>1, StepKeeps

LEMMA IdleIsPlain == Plain(Idle) /\ Idle \in Recs /\ Idle.chunk = 0
<1>1. Nothing \in Maps /\ 1 \in Nics
    BY AwsVpcNetAssumption DEF Nothing, Maps, Nics
<1>2. Idle \in Recs /\ Idle.pc = "idle" /\ Idle.chunk = 0
    BY <1>1 DEF Idle, Recs, Pcs
<1> QED BY <1>2 DEF Plain, Holding, Early

\* A process that polls, or starts.
LEMMA FreshIsPlain ==
    ASSUME NEW r \in Recs, r.chunk = 0, NEW a \in {"on", "off"}, NEW k \in Nat
    PROVE  /\ Plain([r EXCEPT !.pc = "status", !.action = a, !.polls = k])
           /\ Plain([r EXCEPT !.pc = "status", !.action = a])
<1> DEFINE x == [r EXCEPT !.pc = "status", !.action = a, !.polls = k]
           y == [r EXCEPT !.pc = "status", !.action = a]
<1>1. "status" \in Pcs /\ "status" \notin Holding
    BY DEF Pcs, Early, Holding
<1>2. x \in Recs /\ x.pc = "status" /\ x.action = a /\ x.chunk = 0
    BY <1>1 DEF Recs
<1>3. y \in Recs /\ y.pc = "status" /\ y.action = a /\ y.chunk = 0
    BY <1>1 DEF Recs
<1> HIDE DEF x, y
<1>4. Plain(x) /\ Plain(y)
    BY <1>1, <1>2, <1>3 DEF Plain
<1> QED BY <1>4 DEF x, y

LEMMA MovedIsPlain ==
    ASSUME NEW r \in Recs, r.action # "none", NEW l \in Pcs \ Holding, l \in Early => r.chunk = 0
    PROVE  Plain([r EXCEPT !.pc = l])
<1>1. [r EXCEPT !.pc = l] \in Recs
    BY DEF Recs
<1>2. /\ [r EXCEPT !.pc = l].pc = l /\ [r EXCEPT !.pc = l].action = r.action
      /\ [r EXCEPT !.pc = l].chunk = r.chunk
    BY DEF Recs
<1> QED BY <1>1, <1>2 DEF Plain

LEMMA ProcType ==
    ASSUME IInv, NEW p \in Procs
    PROVE  /\ proc[p] \in Recs /\ Cur(p) \in Nics /\ proc[p].polls \in Nat /\ proc[p].chunk \in Nat
           /\ proc[p].tries \in Nat /\ proc[p].t \in Nat /\ proc[p].modified \subseteq Nics
           /\ ~At(p, "idle") => Act(p) \in {"on", "off"}
           /\ ProcOK(proc[p], backups, now)
<1>1. proc[p] \in Recs
    BY DEF IInv, Types
<1>2. ProcOK(proc[p], backups, now)
    BY DEF IInv
<1>3. proc[p].action \in {"none", "on", "off"}
    BY <1>1 DEF Recs
<1> QED BY <1>1, <1>2, <1>3 DEF Recs, Cur, At, Act, ProcOK

LEMMA ExitsKeeps ==
    ASSUME IInv, NEW p \in Procs, Exits(p), Service
    PROVE  IInv'
BY IdleIsPlain, PlainKeeps DEF Exits

LEMMA PollsKeeps ==
    ASSUME IInv, NEW p \in Procs, ~At(p, "idle"), Polls(p), Service
    PROVE  IInv'
<1>1. Act(p) \in {"on", "off"}
    BY ProcType
<1>2. Plain([Idle EXCEPT !.pc = "status", !.action = Act(p), !.polls = 1])
    BY <1>1, IdleIsPlain, FreshIsPlain
<1> QED BY <1>2, PlainKeeps DEF Polls

LEMMA GoesToKeeps ==
    ASSUME IInv, NEW p \in Procs, ~At(p, "idle"), NEW l \in Pcs \ Holding, GoesTo(p, l), Service,
           l \in Early => proc[p].pc \in Early
    PROVE  IInv'
<1>1. proc[p] \in Recs /\ proc[p].action # "none" /\ (l \in Early => proc[p].chunk = 0)
    BY ProcType DEF ProcOK, At, Act
<1>2. Plain([proc[p] EXCEPT !.pc = l])
    BY <1>1, MovedIsPlain
<1> QED BY <1>2, PlainKeeps DEF GoesTo

LEMMA StatusIsKeeps ==
    ASSUME IInv, NEW p \in Procs, proc[p].pc \in Early, NEW s, StatusIs(p, s), Service
    PROVE  IInv'
<1>1. ~At(p, "idle") /\ "set" \in Pcs \ Holding
    BY DEF At, Early, Pcs, Holding
<1>2. CASE Exits(p)
    BY <1>2, ExitsKeeps
<1>3. CASE GoesTo(p, "set")
    BY <1>1, <1>3, GoesToKeeps
<1>4. CASE Goes(p, [Idle EXCEPT !.pc = "status", !.action = Act(p), !.polls = proc[p].polls + 1])
  <2>1. Act(p) \in {"on", "off"} /\ proc[p].polls + 1 \in Nat
      BY <1>1, ProcType
  <2>2. Plain([Idle EXCEPT !.pc = "status", !.action = Act(p), !.polls = proc[p].polls + 1])
      BY <2>1, IdleIsPlain, FreshIsPlain
  <2> QED BY <1>4, <2>2, PlainKeeps
<1> QED BY <1>2, <1>3, <1>4 DEF StatusIs

\* Nothing of the service changes.
LEMMA SameService ==
    ASSUME IInv, UNCHANGED <<setup, cloudVars>>, now' \in {now, now + 1}
    PROVE  Service
BY DEF IInv, Types, Service, cloudVars

LEMMA StatusKeeps ==
    ASSUME IInv, NEW p \in Procs, Status(p)
    PROVE  IInv'
<1>1. UNCHANGED <<setup, cloudVars, now>> /\ proc[p].pc \in {"status", "fenced", "lastfence", "tags"}
    BY DEF Status, status_by_interfaces, is_instance_fenced, is_instance_fenced_lastfence,
       is_instance_fenced_tags, At
<1>2. Service /\ proc[p].pc \in Early /\ ~At(p, "idle")
    BY <1>1, SameService DEF Early, At
<1>3. {"fenced", "lastfence", "tags"} \subseteq Pcs \ Holding
    BY DEF Early, Pcs, Holding
<1>4. CASE \E s : StatusIs(p, s)
    BY <1>2, <1>4, StatusIsKeeps
<1>5. CASE GoesTo(p, "fenced") \/ GoesTo(p, "lastfence")
    BY <1>2, <1>3, <1>5, GoesToKeeps
<1>6. CASE Goes(p, [proc[p] EXCEPT !.pc = "tags", !.t = lastfence])
  <2> DEFINE r == [proc[p] EXCEPT !.pc = "tags", !.t = lastfence]
  <2>1. proc[p] \in Recs /\ proc[p].action # "none" /\ proc[p].chunk = 0 /\ lastfence \in Nat
      BY <1>2, ProcType DEF ProcOK, At, Act, IInv, Types
  <2>2. r \in Recs /\ r.pc = "tags" /\ r.action = proc[p].action /\ r.chunk = proc[p].chunk
      BY <1>3, <2>1 DEF Recs
  <2> HIDE DEF r
  <2>3. Plain(r)
      BY <1>3, <2>1, <2>2 DEF Plain
  <2> QED BY <1>2, <1>6, <2>3, PlainKeeps DEF r
<1> QED BY <1>4, <1>5, <1>6 DEF Status, status_by_interfaces, is_instance_fenced,
           is_instance_fenced_lastfence, is_instance_fenced_tags

----------------------------------------------------------------------------
(* set_power_status and modify_security_groups.                            *)

LEMMA SetKeeps ==
    ASSUME IInv, NEW p \in Procs,
           self_check(p) \/ set_power_status(p) \/ set_power_status_match(p)
    PROVE  IInv'
<1>1. /\ UNCHANGED <<setup, cloudVars>> /\ now' \in {now, now + 1}
      /\ ~At(p, "idle")
    BY DEF self_check, set_power_status, set_power_status_match, At
<1>2. Service
    BY <1>1, SameService
<1>3. CASE Exits(p) \/ Polls(p)
    BY <1>1, <1>2, <1>3, ExitsKeeps, PollsKeeps
<1>4. CASE GoesTo(p, "options")
  <2>1. "options" \in Pcs \ Holding /\ "options" \notin Early
      BY DEF Pcs, Holding, Early
  <2> QED BY <1>1, <1>2, <1>4, <2>1, GoesToKeeps
<1>5. CASE /\ At(p, "set") /\ Branch(p) # "return" /\ now' = now + 1
           /\ Goes(p, [proc[p] EXCEPT !.pc = Branch(p), !.t = now + 1])
  <2> DEFINE r == [proc[p] EXCEPT !.pc = Branch(p), !.t = now + 1]
  <2>1. /\ proc[p] \in Recs /\ proc[p].action # "none" /\ proc[p].chunk = 0
        /\ now \in Nat /\ now + 1 \in 1 .. now' /\ now + 1 \in Nat
    <3>1. now \in Nat /\ "set" \in Early
        BY DEF IInv, Types, Early
    <3>2. proc[p] \in Recs /\ proc[p].action # "none" /\ proc[p].chunk = 0
        BY <1>5, <3>1, ProcType DEF ProcOK, At, Act
    <3> QED BY <1>5, <3>1, <3>2
  <2>2. Branch(p) \in {"options", "restore", "modify", "match"}
      BY <1>5 DEF Branch
  <2>3. Branch(p) \in Pcs
      BY <2>2 DEF Pcs, Early, Holding
  <2>4. /\ r \in Recs /\ r.pc = Branch(p) /\ r.action = proc[p].action /\ r.chunk = proc[p].chunk
        /\ r.t = now + 1
      BY <2>1, <2>3 DEF Recs
  <2> HIDE DEF r
  <2>5. \A b \in backups : b.t # r.t
    <3>1. \A b \in backups : b.t \in 1 .. now
        BY DEF IInv, Tags
    <3> QED BY <2>1, <2>4, <3>1
  <2>6. ProcOK(r, backups, now')
      BY <2>1, <2>2, <2>4, <2>5 DEF ProcOK, Writing
  <2> QED BY <1>2, <1>5, <2>4, <2>6, StepKeeps DEF r
<1> QED BY <1>3, <1>4, <1>5 DEF self_check, set_power_status, set_power_status_match

LEMMA ModifyKeeps ==
    ASSUME IInv, NEW p \in Procs, modify_security_groups(p)
    PROVE  IInv'
<1>1. UNCHANGED <<setup, cloudVars, now>> /\ ~At(p, "idle") /\ proc[p].pc = "modify"
    BY DEF modify_security_groups, At
<1>2. Service
    BY <1>1, SameService
<1>3. CASE Exits(p) \/ ConnectionError(p)
    BY <1>1, <1>2, <1>3, ExitsKeeps, PollsKeeps DEF ConnectionError
<1>4. CASE Goes(p, [proc[p] EXCEPT !.pc = IF UsesTags THEN "backup" ELSE "update", !.seen = sgs])
  <2> DEFINE l == IF UsesTags THEN "backup" ELSE "update"
             r == [proc[p] EXCEPT !.pc = l, !.seen = sgs]
  <2>1. /\ proc[p] \in Recs /\ proc[p].action # "none" /\ proc[p].chunk = 0
        /\ proc[p].t \in 1 .. now /\ (\A b \in backups : b.t # proc[p].t) /\ proc[p].at \in Nics
    <3>1. ProcOK(proc[p], backups, now) /\ "modify" \in Early /\ proc[p] \in Recs /\ Act(p) # "none"
          /\ Cur(p) \in Nics
        BY <1>1, ProcType DEF Early
    <3> QED BY <1>1, <3>1 DEF ProcOK, Writing, Act, Cur
  <2>2. l \in {"backup", "update"} /\ l \in Pcs /\ l \notin Early /\ sgs \in Maps
      BY DEF Pcs, Holding, Early, IInv, Types
  <2> HIDE DEF l
  <2>3. /\ r \in Recs /\ r.pc = l /\ r.action = proc[p].action /\ r.chunk = proc[p].chunk
        /\ r.t = proc[p].t /\ r.seen = sgs /\ r.at = proc[p].at
      BY <2>1, <2>2 DEF Recs
  <2> HIDE DEF r
  <2>4. \A n \in Nics : r.seen[n] \in Whole(n)
      BY <2>3 DEF IInv
  <2>5. r.chunk \in 0 .. Cardinality(r.seen[r.at]) - 1
    <3>1. r.seen[r.at] \in Whole(r.at) /\ r.at \in Nics /\ setup \in Setups
        BY <2>1, <2>3, <2>4 DEF IInv, Types
    <3>2. IsFiniteSet(r.seen[r.at]) /\ r.seen[r.at] # {}
        BY <3>1, WholeSets
    <3>3. Cardinality(r.seen[r.at]) \in Nat /\ Cardinality(r.seen[r.at]) # 0
        BY <3>2, FS_CardinalityType, FS_EmptySet
    <3> QED BY <2>1, <2>3, <3>3
  <2>6. ProcOK(r, backups, now)
      BY <2>1, <2>2, <2>3, <2>4, <2>5 DEF ProcOK, Writing, Backing
  <2>7. Goes(p, r) /\ now' = now /\ Writing(proc[p])
      BY <1>1, <1>4 DEF r, l, Writing
  <2> QED BY <1>2, <2>3, <2>6, <2>7, StepKeeps
<1> QED BY <1>3, <1>4 DEF modify_security_groups

\* A process that has its tags, or goes on without them.
LEMMA ToUpdateKeeps ==
    ASSUME IInv, NEW p \in Procs, proc[p].pc \in {"backup", "stamp", "update"}, Service, now' = now,
           NEW r \in Recs, Goes(p, r), r.pc \in {"stamp", "update"}, r.action = proc[p].action,
           r.seen = proc[p].seen
    PROVE  IInv'
<1>1. ProcOK(proc[p], backups, now)
    BY ProcType
<1>2. r.action # "none" /\ \A n \in Nics : r.seen[n] \in Whole(n)
    BY <1>1 DEF ProcOK
<1>3. r.pc \notin Early /\ ~Writing(r) /\ r.pc \notin {"details", "give", "modify", "backup"}
    BY DEF Early, Writing
<1>4. ProcOK(r, backups, now')
    BY <1>2, <1>3 DEF ProcOK
<1> QED BY <1>3, <1>4, StepKeeps

LEMMA UpdateRecs ==
    ASSUME NEW r \in Recs, NEW l \in {"stamp", "update"}
    PROVE  /\ [r EXCEPT !.pc = l] \in Recs /\ [r EXCEPT !.pc = l].pc = l
           /\ [r EXCEPT !.pc = l].action = r.action /\ [r EXCEPT !.pc = l].seen = r.seen
           /\ [r EXCEPT !.pc = l, !.at = 1] \in Recs /\ [r EXCEPT !.pc = l, !.at = 1].pc = l
           /\ [r EXCEPT !.pc = l, !.at = 1].action = r.action
           /\ [r EXCEPT !.pc = l, !.at = 1].seen = r.seen
<1>1. l \in Pcs /\ 1 \in Nics
    BY AwsVpcNetAssumption DEF Pcs, Holding, Nics
<1> QED BY <1>1 DEF Recs

LEMMA StampKeeps ==
    ASSUME IInv, NEW p \in Procs, set_lastfence_tag(p)
    PROVE  IInv'
<1>1. /\ UNCHANGED <<setup, sgs, backups, now>> /\ proc[p].pc = "stamp"
      /\ lastfence' \in {lastfence, proc[p].t}
    BY DEF set_lastfence_tag, At
<1>2. Service
    BY <1>1, ProcType DEF Service, IInv, Types
<1>3. CASE GoesTo(p, "update")
  <2>1. proc[p] \in Recs
      BY ProcType
  <2> QED BY <1>1, <1>2, <1>3, <2>1, UpdateRecs, ToUpdateKeeps DEF GoesTo
<1>4. CASE Goes(p, [proc[p] EXCEPT !.pc = "update", !.at = 1])
  <2>1. proc[p] \in Recs
      BY ProcType
  <2> QED BY <1>1, <1>2, <1>4, <2>1, UpdateRecs, ToUpdateKeeps
<1>5. CASE Exits(p)
    BY <1>2, <1>5, ExitsKeeps
<1> QED BY <1>3, <1>4, <1>5 DEF set_lastfence_tag, TagFails

----------------------------------------------------------------------------
(* create_backup_tag: the one step that adds a tag.                        *)

LEMMA ChunkIsTag ==
    ASSUME IInv, NEW p \in Procs, proc[p].pc = "backup"
    PROVE  /\ Chunk(p) = Tag(proc[p].t, Cur(p), proc[p].chunk, proc[p].seen[Cur(p)])
           /\ Chunk(p).t = proc[p].t /\ Chunk(p).nic = Cur(p) /\ Cur(p) \in Nics
           /\ proc[p].chunk \in 0 .. Cardinality(proc[p].seen[Cur(p)]) - 1
           /\ \A n \in Nics : proc[p].seen[n] \in Whole(n)
           /\ proc[p].t \in 1 .. now
           /\ \A b \in backups : b.t = proc[p].t =>
                 \E n \in Nics : \E i \in 0 .. Cardinality(proc[p].seen[n]) - 1 :
                     b = Tag(proc[p].t, n, i, proc[p].seen[n])
<1>1. Chunk(p) = Tag(proc[p].t, Cur(p), proc[p].chunk, proc[p].seen[Cur(p)])
    BY DEF Chunk, Tag
<1>2. Chunk(p).t = proc[p].t /\ Chunk(p).nic = Cur(p)
    BY DEF Chunk
<1>3. ProcOK(proc[p], backups, now) /\ Cur(p) \in Nics
    BY ProcType
<1>4. Backing(proc[p], backups) /\ proc[p].t \in 1 .. now /\ \A n \in Nics : proc[p].seen[n] \in Whole(n)
    BY <1>3 DEF ProcOK, Writing
<1> QED BY <1>1, <1>2, <1>3, <1>4 DEF Backing, Cur

LEMMA GrowKeeps ==
    ASSUME IInv, NEW p \in Procs, proc[p].pc = "backup", NEW r \in Recs, Goes(p, r),
           UNCHANGED <<setup, sgs, lastfence, now>>,
           backups' \in {backups, backups \cup {Chunk(p)}},
           ProcOK(r, backups', now), Writing(r) => r.t = proc[p].t
    PROVE  IInv'
<1>0. Types /\ Tags /\ Apart /\ now' = now /\ setup' = setup
    BY DEF IInv
<1>1. /\ proc' \in [Procs -> Recs] /\ proc'[p] = r
      /\ \A q \in Procs \ {p} : proc'[q] = proc[q]
    BY <1>0 DEF Goes, Types
<1>2. Types'
    BY <1>0, <1>1 DEF Types
<1>3. \A n : Whole(n)' = Whole(n)
    BY SameWhole
<1>4. \A n \in Nics : sgs'[n] \in Whole(n)'
    BY <1>3 DEF IInv
<1>5. \A b \in backups' : b \in backups \/ b = Chunk(p)
    OBVIOUS
<1>6. Tags'
  <2>1. \A b \in backups' : b.t \in 1 .. now
      BY <1>0, <1>5, ChunkIsTag DEF Tags
  <2>2. ASSUME NEW t \in Nat, NEW n \in Nics
        PROVE  \E g \in Whole(n) : \A b \in backups' :
                  b.t = t /\ b.nic = n => \E i \in 0 .. Cardinality(g) - 1 : b = Tag(t, n, i, g)
    <3>1. CASE t = proc[p].t
      <4> DEFINE g == proc[p].seen[n]
      <4>1. g \in Whole(n)
          BY ChunkIsTag
      <4>2. ASSUME NEW b \in backups', b.t = t, b.nic = n
            PROVE  \E i \in 0 .. Cardinality(g) - 1 : b = Tag(t, n, i, g)
        <5>1. CASE b = Chunk(p)
            BY <3>1, <4>2, <5>1, ChunkIsTag
        <5>2. CASE b \in backups
          <6>1. PICK m \in Nics : \E i \in 0 .. Cardinality(proc[p].seen[m]) - 1 :
                    b = Tag(t, m, i, proc[p].seen[m])
              BY <3>1, <4>2, <5>2, ChunkIsTag
          <6>2. m = n
              BY <4>2, <6>1 DEF Tag
          <6> QED BY <6>1, <6>2
        <5> QED BY <1>5, <5>1, <5>2
      <4> QED BY <4>1, <4>2
    <3>2. CASE t # proc[p].t
      <4>1. \A b \in backups' : b.t = t => b \in backups
          BY <1>5, <3>2, ChunkIsTag
      <4> QED BY <1>0, <4>1 DEF Tags
    <3> QED BY <3>1, <3>2
  <2> QED BY <1>0, <1>3, <2>1, <2>2 DEF Tags
<1>7. Writing(proc[p])
    BY DEF Writing
<1>8. \A q \in Procs : ProcOK(proc'[q], backups', now')
  <2>1. ASSUME NEW q \in Procs \ {p} PROVE ProcOK(proc[q], backups', now)
    <3>1. ProcOK(proc[q], backups, now)
        BY DEF IInv
    <3>2. Writing(proc[q]) => \A b \in backups' : b.t = proc[q].t => b \in backups
        BY <1>0, <1>5, <1>7, ChunkIsTag DEF Apart
    <3> QED BY <3>1, <3>2 DEF ProcOK, Backing, Writing
  <2> QED BY <1>0, <1>1, <2>1
<1>9. \A q \in Procs : ProcOK(proc[q], backups, now)'
    BY <1>0, <1>8, SameWhole
<1>10. Apart'
    BY <1>0, <1>1, <1>7 DEF Apart
<1> QED BY <1>2, <1>4, <1>6, <1>9, <1>10 DEF IInv

LEMMA BackupKeeps ==
    ASSUME IInv, NEW p \in Procs, create_backup_tag(p)
    PROVE  IInv'
<1>1. /\ UNCHANGED <<setup, sgs, lastfence, now>> /\ proc[p].pc = "backup"
      /\ backups' \in {backups, backups \cup {Chunk(p)}}
    BY DEF create_backup_tag, At
<1>2. /\ proc[p] \in Recs /\ proc[p].action # "none" /\ Cur(p) \in Nics
      /\ (\A n \in Nics : proc[p].seen[n] \in Whole(n)) /\ proc[p].chunk \in Nat /\ proc[p].at \in Nics
    BY <1>1, ProcType DEF ProcOK, At, Act, Cur
<1>3. ASSUME NEW r \in Recs, Goes(p, r), r.pc \in {"stamp", "update"}, r.action = proc[p].action,
             r.seen = proc[p].seen
      PROVE  IInv'
  <2>1. r.pc \notin Early /\ ~Writing(r) /\ r.pc \notin {"details", "give", "modify", "backup"}
      BY <1>3 DEF Early, Writing
  <2>2. ProcOK(r, backups', now)
      BY <1>2, <1>3, <2>1 DEF ProcOK
  <2> QED BY <1>1, <1>3, <2>1, <2>2, GrowKeeps
<1>4. CASE Exits(p)
  <2>1. Idle \in Recs /\ ~Writing(Idle) /\ ProcOK(Idle, backups', now)
      BY IdleIsPlain DEF Plain, Holding, Writing, ProcOK, Idle
  <2> QED BY <1>1, <1>4, <2>1, GrowKeeps DEF Exits
<1>5. CASE Goes(p, [proc[p] EXCEPT !.pc = "update", !.at = 1])
    BY <1>2, <1>3, <1>5, UpdateRecs
<1>6. CASE Goes(p, [proc[p] EXCEPT !.pc = "stamp", !.at = 1, !.chunk = 0])
  <2> DEFINE r == [proc[p] EXCEPT !.pc = "stamp", !.at = 1, !.chunk = 0]
  <2>1. "stamp" \in Pcs /\ 1 \in Nics /\ 0 \in Nat
      BY AwsVpcNetAssumption DEF Pcs, Holding, Nics
  <2>2. r \in Recs /\ r.pc = "stamp" /\ r.action = proc[p].action /\ r.seen = proc[p].seen
      BY <1>2, <2>1 DEF Recs
  <2> HIDE DEF r
  <2> QED BY <1>3, <1>6, <2>2 DEF r
<1>7. ASSUME NEW r \in Recs, Goes(p, r), r.pc = "backup", r.action = proc[p].action,
             r.seen = proc[p].seen, r.t = proc[p].t,
             r.chunk \in 0 .. Cardinality(r.seen[r.at]) - 1
      PROVE  IInv'
  <2>1. \A b \in backups' : b.t = r.t =>
          \E n \in Nics : \E i \in 0 .. Cardinality(r.seen[n]) - 1 : b = Tag(r.t, n, i, r.seen[n])
      BY <1>1, <1>7, ChunkIsTag
  <2>2. r.t \in 1 .. now
      BY <1>1, <1>7, ChunkIsTag
  <2>3. ProcOK(r, backups', now)
      BY <1>2, <1>7, <2>1, <2>2 DEF ProcOK, Backing, Early
  <2> QED BY <1>1, <1>7, <2>3, GrowKeeps
<1>8. CASE ~ChunksDone(p) /\ Goes(p, [proc[p] EXCEPT !.chunk = @ + 1])
  <2> DEFINE r == [proc[p] EXCEPT !.chunk = proc[p].chunk + 1]
  <2>1. /\ proc[p].chunk + 1 \in Nat
        /\ proc[p].chunk + 1 \in 0 .. Cardinality(proc[p].seen[Cur(p)]) - 1
    <3>1. Cardinality(proc[p].seen[Cur(p)]) \in Nat
        BY <1>2, WholeSets, FS_CardinalityType DEF IInv, Types
    <3>2. proc[p].chunk \in 0 .. Cardinality(proc[p].seen[Cur(p)]) - 1
        BY <1>1, ChunkIsTag
    <3> QED BY <1>8, <3>1, <3>2 DEF ChunksDone
  <2>2. /\ r \in Recs /\ r.pc = proc[p].pc /\ r.action = proc[p].action /\ r.seen = proc[p].seen
        /\ r.t = proc[p].t /\ r.at = proc[p].at /\ r.chunk = proc[p].chunk + 1
      BY <1>2, <2>1 DEF Recs
  <2>3. Goes(p, r)
      BY <1>8
  <2> HIDE DEF r
  <2> QED BY <1>1, <1>7, <2>1, <2>2, <2>3 DEF Cur
<1>9. CASE Cur(p) < NNics /\ Goes(p, [proc[p] EXCEPT !.at = @ + 1, !.chunk = 0])
  <2> DEFINE r == [proc[p] EXCEPT !.at = proc[p].at + 1, !.chunk = 0]
  <2>1. proc[p].at + 1 \in Nics
      BY <1>2, <1>9, AwsVpcNetAssumption DEF Nics, Cur
  <2>2. /\ r \in Recs /\ r.pc = proc[p].pc /\ r.action = proc[p].action /\ r.seen = proc[p].seen
        /\ r.t = proc[p].t /\ r.at = proc[p].at + 1 /\ r.chunk = 0
      BY <1>2, <2>1 DEF Recs
  <2>3. Goes(p, r)
      BY <1>9
  <2> HIDE DEF r
  <2>4. r.chunk \in 0 .. Cardinality(r.seen[r.at]) - 1
    <3>1. r.seen[r.at] \in Whole(r.at) /\ r.at \in Nics /\ setup \in Setups
        BY <1>2, <2>1, <2>2 DEF IInv, Types
    <3>2. IsFiniteSet(r.seen[r.at]) /\ r.seen[r.at] # {}
        BY <3>1, WholeSets
    <3>3. Cardinality(r.seen[r.at]) \in Nat /\ Cardinality(r.seen[r.at]) # 0
        BY <3>2, FS_CardinalityType, FS_EmptySet
    <3> QED BY <2>2, <3>3
  <2> QED BY <1>1, <1>7, <2>2, <2>3, <2>4
<1> QED BY <1>4, <1>5, <1>6, <1>8, <1>9 DEF create_backup_tag, TagFails

----------------------------------------------------------------------------
(* The steps that change the groups of an interface.                       *)

\* One interface gets groups that are whole, or none does.
LEMMA WriteIsService ==
    ASSUME IInv, NEW n \in Nics, NEW g \in Whole(n), sgs' \in {sgs, [sgs EXCEPT ![n] = g]},
           UNCHANGED <<setup, backups, lastfence, now>>
    PROVE  Service
<1>1. sgs \in Maps /\ g \subseteq Groups /\ \A m \in Nics : sgs[m] \in Whole(m)
    BY DEF IInv, Types, Whole
<1>2. sgs' \in Maps /\ \A m \in Nics : sgs'[m] \in Whole(m)
    BY <1>1 DEF Maps
<1> QED BY <1>2 DEF Service, IInv, Types

\* The loop over the interfaces goes on.
LEMMA NextRecs ==
    ASSUME NEW r \in Recs, r.at < NNics, NEW m \in SUBSET Nics
    PROVE  /\ [r EXCEPT !.at = @ + 1, !.modified = m] \in Recs
           /\ [r EXCEPT !.at = @ + 1, !.modified = m].pc = r.pc
           /\ [r EXCEPT !.at = @ + 1, !.modified = m].action = r.action
           /\ [r EXCEPT !.at = @ + 1, !.modified = m].seen = r.seen
           /\ [r EXCEPT !.at = @ + 1, !.modified = m].bk = r.bk
<1>1. r.at \in Nics
    BY DEF Recs
<1>2. r.at + 1 \in Nics
    BY <1>1, AwsVpcNetAssumption DEF Nics
<1> QED BY <1>2 DEF Recs

LEMMA NextUpdateKeeps ==
    ASSUME IInv, NEW p \in Procs, proc[p].pc = "update", NEW m \in SUBSET Nics, NextUpdate(p, m),
           Service, now' = now
    PROVE  IInv'
<1>1. ~At(p, "idle") /\ proc[p] \in Recs
    BY ProcType DEF At
<1>2. CASE Cur(p) < NNics /\ Goes(p, [proc[p] EXCEPT !.at = @ + 1, !.modified = m])
  <2> DEFINE r == [proc[p] EXCEPT !.at = @ + 1, !.modified = m]
  <2>0. proc[p].at < NNics
      BY <1>2 DEF Cur
  <2>1. r \in Recs /\ r.pc = "update" /\ r.action = proc[p].action /\ r.seen = proc[p].seen
      BY <1>1, <2>0, NextRecs
  <2> HIDE DEF r
  <2> QED BY <1>2, <2>1, ToUpdateKeeps DEF r
<1>3. CASE Exits(p) \/ Polls(p)
    BY <1>1, <1>3, ExitsKeeps, PollsKeeps
<1>4. CASE GoesTo(p, "shutdown")
  <2>1. "shutdown" \in Pcs \ Holding /\ "shutdown" \notin Early
      BY DEF Pcs, Holding, Early
  <2> QED BY <1>1, <1>4, <2>1, GoesToKeeps
<1> QED BY <1>2, <1>3, <1>4 DEF NextUpdate

LEMMA UpdateKeeps ==
    ASSUME IInv, NEW p \in Procs, modify_interface(p)
    PROVE  IInv'
<1> DEFINE n == Cur(p)
           g == proc[p].seen[n]
<1>1. /\ proc[p].pc = "update" /\ ~At(p, "idle") /\ UNCHANGED <<setup, backups, lastfence, now>>
      /\ UNCHANGED sgs \/ (~Untouched(g) /\ sgs' \in {sgs, [sgs EXCEPT ![n] = updated_sgs(g)]})
    BY DEF modify_interface, At
<1>2. n \in Nics /\ proc[p].modified \subseteq Nics /\ ProcOK(proc[p], backups, now)
    BY ProcType
<1>3. Service
  <2>1. CASE UNCHANGED sgs
      BY <1>1, <2>1 DEF Service, IInv, Types
  <2>2. CASE ~Untouched(g) /\ sgs' \in {sgs, [sgs EXCEPT ![n] = updated_sgs(g)]}
    <3>1. g \in Whole(n)
        BY <1>1, <1>2 DEF ProcOK
    <3>2. updated_sgs(g) \in Whole(n)
        BY <1>2, <2>2, <3>1, WholeSets DEF Untouched, IInv, Types
    <3> HIDE DEF n, g
    <3> QED BY <1>1, <1>2, <2>2, <3>2, WriteIsService
  <2> QED BY <1>1, <2>1, <2>2
<1>4. CASE ConnectionError(p)
    BY <1>1, <1>3, <1>4, ExitsKeeps, PollsKeeps DEF ConnectionError
<1>5. CASE NextUpdate(p, proc[p].modified) \/ NextUpdate(p, proc[p].modified \cup {n})
  <2>1. proc[p].modified \in SUBSET Nics /\ proc[p].modified \cup {n} \in SUBSET Nics
      BY <1>2
  <2> QED BY <1>1, <1>3, <1>5, <2>1, NextUpdateKeeps
<1> QED BY <1>4, <1>5 DEF modify_interface

LEMMA ShutdownKeeps ==
    ASSUME IInv, NEW p \in Procs, shutdown_instance(p)
    PROVE  IInv'
<1>1. UNCHANGED <<setup, sgs, backups, lastfence, now>> /\ ~At(p, "idle")
    BY DEF shutdown_instance, At
<1>2. Service
    BY <1>1 DEF Service, IInv, Types
<1> QED BY <1>1, <1>2, ExitsKeeps, PollsKeeps DEF shutdown_instance

----------------------------------------------------------------------------
(* restore_security_groups.                                                *)

\* A process that holds what the tags say.
LEMMA HoldsKeeps ==
    ASSUME IInv, NEW p \in Procs, ~At(p, "idle"), Service, NEW r \in Recs, Goes(p, r),
           r.pc \in {"details", "give"}, r.action = proc[p].action,
           \A n \in Nics : r.bk[n] \in Whole(n) \cup {{}}
    PROVE  IInv'
<1>1. r.action # "none"
    BY ProcType DEF Act
<1>2. r.pc \notin Early /\ ~Writing(r) /\ r.pc \notin {"modify", "backup", "stamp", "update"}
    BY DEF Early, Writing
<1>3. ProcOK(r, backups, now')
    BY <1>1, <1>2 DEF ProcOK
<1> QED BY <1>2, <1>3, StepKeeps

LEMMA CollectKeeps ==
    ASSUME IInv, NEW p \in Procs, restore_lastfence(p) \/ restore_collect(p) \/ restore_details(p)
    PROVE  IInv'
<1>1. UNCHANGED <<setup, cloudVars, now>> /\ ~At(p, "idle")
    BY DEF restore_lastfence, restore_collect, restore_details, At
<1>2. Service
    BY <1>1, SameService
<1>3. proc[p] \in Recs /\ proc[p].t \in Nat /\ proc[p].action # "none" /\ lastfence \in Nat /\ sgs \in Maps
    BY <1>1, ProcType DEF Act, IInv, Types
<1>4. CASE Exits(p)
    BY <1>2, <1>4, ExitsKeeps
<1>5. CASE Goes(p, [proc[p] EXCEPT !.pc = "collect", !.t = lastfence])
  <2> DEFINE r == [proc[p] EXCEPT !.pc = "collect", !.t = lastfence]
  <2>1. "collect" \in Pcs \ Holding /\ "collect" \notin Early
      BY DEF Pcs, Holding, Early
  <2>2. r \in Recs /\ r.pc = "collect" /\ r.action = proc[p].action
      BY <1>3, <2>1 DEF Recs
  <2> HIDE DEF r
  <2>3. Plain(r)
      BY <1>3, <2>1, <2>2 DEF Plain
  <2> QED BY <1>2, <1>5, <2>3, PlainKeeps DEF r
<1>6. CASE restore_collect(p) /\ ~Exits(p)
  <2> DEFINE bk == [n \in Nics |-> matching_backups(proc[p].t, n)]
             r == [proc[p] EXCEPT !.pc = "details", !.bk = bk]
  <2>1. Goes(p, r)
      BY <1>6 DEF restore_collect
  <2>2. \A n \in Nics : matching_backups(proc[p].t, n) \in Whole(n) \cup {{}}
      BY <1>3, MatchingIsWhole DEF IInv
  <2>3. (\A n \in Nics : bk[n] \in Whole(n) \cup {{}}) /\ bk \in Maps
      BY <2>2 DEF Maps, Whole
  <2> HIDE DEF bk
  <2>4. "details" \in Pcs
      BY DEF Pcs, Holding
  <2>5. r \in Recs /\ r.pc = "details" /\ r.action = proc[p].action /\ r.bk = bk
      BY <1>3, <2>3, <2>4 DEF Recs
  <2> HIDE DEF r
  <2> QED BY <1>1, <1>2, <2>1, <2>3, <2>5, HoldsKeeps
<1>7. CASE restore_details(p) /\ ~Exits(p)
  <2> DEFINE r == [proc[p] EXCEPT !.pc = "give", !.seen = sgs]
  <2>1. Goes(p, r) /\ proc[p].pc = "details"
      BY <1>7 DEF restore_details, At
  <2>2. "give" \in Pcs
      BY DEF Pcs, Holding
  <2>3. r \in Recs /\ r.pc = "give" /\ r.action = proc[p].action /\ r.bk = proc[p].bk
      BY <1>3, <2>2 DEF Recs
  <2> HIDE DEF r
  <2>4. \A n \in Nics : r.bk[n] \in Whole(n) \cup {{}}
      BY <2>1, <2>3, ProcType DEF ProcOK
  <2> QED BY <1>1, <1>2, <2>1, <2>3, <2>4, HoldsKeeps
<1> QED BY <1>4, <1>5, <1>6, <1>7 DEF restore_lastfence

LEMMA GiveKeeps ==
    ASSUME IInv, NEW p \in Procs, restore_interface(p)
    PROVE  IInv'
<1> DEFINE n == Cur(p)
           g == proc[p].bk[n]
<1>1. /\ proc[p].pc = "give" /\ ~At(p, "idle") /\ UNCHANGED <<setup, backups, lastfence, now>>
      /\ UNCHANGED sgs \/ (g # {} /\ sgs' \in {sgs, [sgs EXCEPT ![n] = g]})
    BY DEF restore_interface, At
<1>2. /\ n \in Nics /\ proc[p].modified \subseteq Nics /\ proc[p] \in Recs
      /\ \A m \in Nics : proc[p].bk[m] \in Whole(m) \cup {{}}
    BY <1>1, ProcType DEF ProcOK
<1>3. Service
  <2>1. CASE UNCHANGED sgs
      BY <1>1, <2>1 DEF Service, IInv, Types
  <2>2. CASE g # {} /\ sgs' \in {sgs, [sgs EXCEPT ![n] = g]}
    <3>1. g \in Whole(n)
        BY <1>2, <2>2
    <3> HIDE DEF n, g
    <3> QED BY <1>1, <1>2, <2>2, <3>1, WriteIsService
  <2> QED BY <1>1, <2>1, <2>2
<1>4. CASE Exits(p)
    BY <1>3, <1>4, ExitsKeeps
<1>5. ASSUME NEW m \in SUBSET Nics, NextRestore(p, m) PROVE IInv'
  <2>1. CASE Cur(p) < NNics /\ Goes(p, [proc[p] EXCEPT !.at = @ + 1, !.modified = m])
    <3> DEFINE r == [proc[p] EXCEPT !.at = @ + 1, !.modified = m]
    <3>0. proc[p].at < NNics
        BY <2>1 DEF Cur
    <3>1. r \in Recs /\ r.pc = "give" /\ r.action = proc[p].action /\ r.bk = proc[p].bk
        BY <1>1, <1>2, <1>5, <3>0, NextRecs
    <3> HIDE DEF r
    <3> QED BY <1>1, <1>2, <1>3, <2>1, <3>1, HoldsKeeps DEF r
  <2>2. CASE Exits(p)
      BY <1>3, <2>2, ExitsKeeps
  <2>3. CASE GoesTo(p, "delete")
    <3>1. "delete" \in Pcs \ Holding /\ "delete" \notin Early
        BY DEF Pcs, Holding, Early
    <3> QED BY <1>1, <1>3, <2>3, <3>1, GoesToKeeps
  <2> QED BY <1>5, <2>1, <2>2, <2>3 DEF NextRestore
<1>6. CASE NextRestore(p, proc[p].modified) \/ NextRestore(p, proc[p].modified \cup {n})
  <2>1. proc[p].modified \in SUBSET Nics /\ proc[p].modified \cup {n} \in SUBSET Nics
      BY <1>2
  <2> QED BY <1>5, <1>6, <2>1
<1> QED BY <1>4, <1>6 DEF restore_interface

LEMMA DeleteKeeps ==
    ASSUME IInv, NEW p \in Procs, restore_delete(p)
    PROVE  IInv'
<1>1. /\ UNCHANGED <<setup, sgs, now>> /\ ~At(p, "idle")
      /\ backups' \subseteq backups /\ lastfence' \in {0, lastfence}
    BY DEF restore_delete, At, Kept
<1>2. Service
    BY <1>1 DEF Service, IInv, Types
<1> QED BY <1>1, <1>2, ExitsKeeps, PollsKeeps DEF restore_delete

----------------------------------------------------------------------------
(* restore_security_groups_from_options.                                   *)

LEMMA ReturnsKeeps ==
    ASSUME IInv, NEW p \in Procs, ~At(p, "idle"), NEW ok, Returns(p, ok), Service
    PROVE  IInv'
BY ExitsKeeps, PollsKeeps DEF Returns

\* A process that goes on with the options holds nothing.
LEMMA PutKeeps ==
    ASSUME IInv, NEW p \in Procs, ~At(p, "idle"), Service, NEW r \in Recs, Goes(p, r),
           r.pc \in {"put", "verify"}, r.action = proc[p].action
    PROVE  IInv'
<1>1. r.action # "none"
    BY ProcType DEF Act
<1>2. r.pc \notin Early /\ r.pc \notin Holding
    BY DEF Early, Holding
<1> QED BY <1>1, <1>2, PlainKeeps DEF Plain

LEMMA NextPutKeeps ==
    ASSUME IInv, NEW p \in Procs, ~At(p, "idle"), Service, NEW m \in SUBSET Nics, NextPut(p, m)
    PROVE  IInv'
<1>1. proc[p] \in Recs /\ proc[p].at \in Nics /\ {"put", "verify"} \subseteq Pcs
    BY ProcType DEF Cur, Pcs
<1>2. CASE Cur(p) < NNics /\ Goes(p, [proc[p] EXCEPT !.pc = "put", !.at = @ + 1, !.tries = 0, !.modified = m])
  <2> DEFINE r == [proc[p] EXCEPT !.pc = "put", !.at = proc[p].at + 1, !.tries = 0, !.modified = m]
  <2>1. proc[p].at + 1 \in Nics
      BY <1>1, <1>2, AwsVpcNetAssumption DEF Nics, Cur
  <2>2. r \in Recs /\ r.pc = "put" /\ r.action = proc[p].action
      BY <1>1, <2>1 DEF Recs
  <2>3. Goes(p, r)
      BY <1>2
  <2> HIDE DEF r
  <2> QED BY <2>2, <2>3, PutKeeps
<1>3. CASE Returns(p, FALSE)
    BY <1>3, ReturnsKeeps
<1>4. CASE Goes(p, [proc[p] EXCEPT !.pc = "verify", !.modified = m])
  <2> DEFINE r == [proc[p] EXCEPT !.pc = "verify", !.modified = m]
  <2>1. r \in Recs /\ r.pc = "verify" /\ r.action = proc[p].action
      BY <1>1 DEF Recs
  <2> HIDE DEF r
  <2> QED BY <1>4, <2>1, PutKeeps DEF r
<1> QED BY <1>2, <1>3, <1>4 DEF NextPut

LEMMA RetryKeeps ==
    ASSUME IInv, NEW p \in Procs, ~At(p, "idle"), Service, Retry(p)
    PROVE  IInv'
<1>1. proc[p] \in Recs /\ proc[p].tries + 1 \in Nat /\ "put" \in Pcs /\ proc[p].modified \in SUBSET Nics
    BY ProcType DEF Pcs
<1>2. CASE Goes(p, [proc[p] EXCEPT !.pc = "put", !.tries = @ + 1])
  <2> DEFINE r == [proc[p] EXCEPT !.pc = "put", !.tries = proc[p].tries + 1]
  <2>1. r \in Recs /\ r.pc = "put" /\ r.action = proc[p].action
      BY <1>1 DEF Recs
  <2>2. Goes(p, r)
      BY <1>2
  <2> HIDE DEF r
  <2> QED BY <2>1, <2>2, PutKeeps
<1>3. CASE NextPut(p, proc[p].modified)
    BY <1>1, <1>3, NextPutKeeps
<1> QED BY <1>2, <1>3 DEF Retry

LEMMA OptionsPutKeeps ==
    ASSUME IInv, NEW p \in Procs, options_put(p)
    PROVE  IInv'
<1> DEFINE n == Cur(p)
           g == Desired(Act(p), n)
<1>1. /\ ~At(p, "idle") /\ UNCHANGED <<setup, backups, lastfence, now>>
      /\ UNCHANGED sgs \/ (g # {} /\ sgs' \in {sgs, [sgs EXCEPT ![n] = g]})
    BY DEF options_put, At
<1>2. n \in Nics /\ proc[p].modified \in SUBSET Nics /\ Act(p) \in {"on", "off"} /\ setup \in Setups
    BY <1>1, ProcType DEF IInv, Types
<1>3. Service
  <2>1. CASE UNCHANGED sgs
      BY <1>1, <2>1 DEF Service, IInv, Types
  <2>2. CASE g # {} /\ sgs' \in {sgs, [sgs EXCEPT ![n] = g]}
    <3>1. g \in {Home[n], Desired("on", n), Desired("off", n)}
        BY <1>2
    <3>2. g \subseteq Groups
        BY <1>2, <3>1, SetupTypes
    <3> HIDE DEF n, g
    <3>3. g \in Whole(n)
        BY <2>2, <3>1, <3>2 DEF Whole
    <3> QED BY <1>1, <1>2, <2>2, <3>3, WriteIsService
  <2> QED BY <1>1, <2>1, <2>2
<1>4. CASE Exits(p)
    BY <1>3, <1>4, ExitsKeeps
<1>5. CASE NextPut(p, proc[p].modified) \/ Retry(p)
    BY <1>1, <1>2, <1>3, <1>5, NextPutKeeps, RetryKeeps
<1>6. CASE GoesTo(p, "check")
  <2>1. "check" \in Pcs \ Holding /\ "check" \notin Early
      BY DEF Pcs, Holding, Early
  <2> QED BY <1>1, <1>3, <1>6, <2>1, GoesToKeeps
<1> QED BY <1>4, <1>5, <1>6 DEF options_put

LEMMA OptionsKeeps ==
    ASSUME IInv, NEW p \in Procs, options_details(p) \/ options_check(p) \/ options_verify(p)
    PROVE  IInv'
<1>1. UNCHANGED <<setup, cloudVars, now>> /\ ~At(p, "idle")
    BY DEF options_details, options_check, options_verify, At
<1>2. Service
    BY <1>1, SameService
<1>3. /\ proc[p] \in Recs /\ sgs \in Maps
      /\ proc[p].modified \in SUBSET Nics /\ proc[p].modified \cup {Cur(p)} \in SUBSET Nics
    BY ProcType DEF IInv, Types
<1>4. CASE Exits(p) \/ Retry(p)
    BY <1>1, <1>2, <1>4, ExitsKeeps, RetryKeeps
<1>5. CASE \E m \in SUBSET Nics : NextPut(p, m)
    BY <1>1, <1>2, <1>5, NextPutKeeps
<1>6. CASE \E ok : Returns(p, ok)
    BY <1>1, <1>2, <1>6, ReturnsKeeps
<1>7. CASE Goes(p, [proc[p] EXCEPT !.pc = "put", !.seen = sgs])
  <2> DEFINE r == [proc[p] EXCEPT !.pc = "put", !.seen = sgs]
  <2>1. "put" \in Pcs
      BY DEF Pcs
  <2>2. r \in Recs /\ r.pc = "put" /\ r.action = proc[p].action
      BY <1>3, <2>1 DEF Recs
  <2> HIDE DEF r
  <2> QED BY <1>1, <1>2, <1>7, <2>2, PutKeeps DEF r
<1>8. CASE options_details(p)
    BY <1>4, <1>7, <1>8 DEF options_details
<1>9. CASE options_check(p)
    BY <1>3, <1>4, <1>5, <1>9 DEF options_check
<1>10. CASE options_verify(p)
    BY <1>4, <1>6, <1>10 DEF options_verify
<1> QED BY <1>8, <1>9, <1>10

----------------------------------------------------------------------------
(* The specification.                                                      *)

LEMMA InitIInv == Init => IInv
<1> SUFFICES ASSUME Init PROVE IInv
    OBVIOUS
<1>1. Idle \in Recs /\ Home \in Maps
    BY IdleIsPlain, AwsVpcNetAssumption DEF Maps
<1>2. Types
    BY <1>1 DEF Init, Types
<1>3. \A n \in Nics : Home[n] \in Whole(n)
    BY AwsVpcNetAssumption DEF Whole
<1>4. Tags
    BY <1>3 DEF Init, Tags
<1>5. \A p \in Procs : proc[p] = Idle /\ ~Writing(proc[p]) /\ ProcOK(proc[p], backups, now)
    BY DEF Init, Idle, Writing, ProcOK, Early
<1> QED BY <1>2, <1>3, <1>4, <1>5 DEF Init, IInv, Apart

LEMMA NextIInv == IInv /\ [Next]_vars => IInv'
<1> SUFFICES ASSUME IInv, [Next]_vars PROVE IInv'
    OBVIOUS
<1>1. CASE UNCHANGED vars
  <2>1. /\ setup' = setup /\ sgs' = sgs /\ backups' = backups /\ lastfence' = lastfence
        /\ proc' = proc /\ now' = now
      BY <1>1 DEF vars, cloudVars
  <2>2. (\A n : Whole(n)' = Whole(n)) /\ \A p \in Procs : ProcOK(proc[p], backups, now)'
      BY <2>1, SameWhole DEF IInv
  <2> QED BY <2>1, <2>2 DEF IInv, Types, Tags, Apart, Writing
<1>2. ASSUME NEW p \in Procs, Status(p) \/ Set(p) \/ Kill(p) \/ \E a \in {"on", "off"} : Start(p, a)
      PROVE  IInv'
  <2>1. CASE Status(p)
      BY <2>1, StatusKeeps
  <2>2. CASE Set(p)
      BY <2>2, SetKeeps, ModifyKeeps, BackupKeeps, StampKeeps, UpdateKeeps, ShutdownKeeps,
         CollectKeeps, GiveKeeps, DeleteKeeps, OptionsPutKeeps, OptionsKeeps DEF Set
  <2>3. CASE Kill(p)
    <3>1. UNCHANGED <<setup, cloudVars, now>> /\ Exits(p)
        BY <2>3 DEF Kill
    <3> QED BY <3>1, SameService, ExitsKeeps
  <2>4. ASSUME NEW a \in {"on", "off"}, Start(p, a) PROVE IInv'
    <3>1. UNCHANGED <<setup, cloudVars, now>> /\ Goes(p, [Idle EXCEPT !.pc = "status", !.action = a])
        BY <2>4 DEF Start
    <3>2. Plain([Idle EXCEPT !.pc = "status", !.action = a])
        BY IdleIsPlain, FreshIsPlain
    <3> QED BY <3>1, <3>2, SameService, PlainKeeps
  <2> QED BY <1>2, <2>1, <2>2, <2>3, <2>4
<1> QED BY <1>1, <1>2 DEF Next

\* However many agents run at the same time, fail or are killed, and whatever
\* the machine, its groups and the options are, no interface is left without a
\* group, and none gets groups that are not those of its service or of its
\* options, or what fencing makes of them: restore_security_groups never puts
\* together a backup from chunks of two runs, nor restores a part of one.
THEOREM GroupsWholeCorrect == Spec => []GroupsWhole
<1>1. Init => IInv
    BY InitIInv
<1>2. IInv /\ [Next]_vars => IInv'
    BY NextIInv
<1>3. IInv => GroupsWhole
    BY DEF IInv, GroupsWhole, Whole
<1> QED BY <1>1, <1>2, <1>3, PTL DEF Spec

----------------------------------------------------------------------------
(* The groups that an interface had are not lost.                          *)

\* The options for an on name the groups that the machine has in service.
OptionsNameHome == \A s \in Setups, n \in Nics : s.desired["on"][n] \in {{}, Home[n]}

Live == UsesTags /\ ~setup.ignoreTags /\ ~refused /\ {"on", "off"} \notin overlaps

\* Where a process is in an off, in an on by tags and in an on by options.
Fencing == {"modify", "backup", "stamp", "update", "shutdown"}
Restoring == {"restore", "collect", "details", "give", "delete"}
Optional == {"options", "put", "check", "verify"}
\* Where it has a time of its own, and where it has read the tags.
Owning == {"modify", "backup", "stamp"}
Informed == {"details", "give", "delete"}

\* All chunks of the groups g are among the tags bs.
Full(bs, t, n, g) == \A i \in 0 .. Cardinality(g) - 1 : Tag(t, n, i, g) \in bs

Gone(bs, t) == \A b \in bs : b.t # t

\* matching_backups, of the tags bs.
Says(bs, t, n) ==
    LET cs == {b \in bs : b.t = t /\ b.nic = n}
    IN IF \A b \in cs : Cardinality(cs) = b.total THEN {b.s : b \in cs} ELSE {}

Safe(g, bs, k) == \A n \in Nics : g[n] # Home[n] => \E t \in 1 .. k : Full(bs, t, n, Home[n])

\* A restore would not put the groups of a fenced machine over those of one
\* that is in service.
Stamped(g, bs, lf, k) ==
    /\ lf \in 0 .. k
    /\ lf # 0 /\ ~interface_sg_present("on") =>
          \A n \in Nics : g[n] = Home[n] => Says(bs, lf, n) \in {Home[n], {}}

Place(r) ==
    /\ r.pc = "idle" => r.action = "none"
    /\ r.pc \in Early \cup {"restore", "collect", "details"} => r.at = 1
    /\ r.pc \in Fencing => r.action = "off"
    /\ r.pc \in Restoring => r.action = "on" /\ ~interface_sg_present("on")
    /\ r.pc \in Optional => r.action = "on" /\ interface_sg_present("on")
    /\ r.pc # "match"

\* An off has written what it has seen, before it changes it.
OffOK(r, g, bs, lf, k) ==
    /\ r.pc \in {"backup", "stamp", "update"} => \A n \in Nics : r.seen[n] # Home[n] => g[n] # Home[n]
    /\ r.pc = "backup" =>
          /\ \A n \in Nics : n < r.at => Full(bs, r.t, n, r.seen[n])
          /\ \A i \in 0 .. r.chunk - 1 : Tag(r.t, r.at, i, r.seen[r.at]) \in bs
    /\ r.pc \in {"stamp", "update"} => \A n \in Nics : Full(bs, r.t, n, r.seen[n])
    /\ r.pc \in Owning => r.t \in 1 .. k /\ lf # r.t

\* An on has given back what the tags say, before it deletes them.
OnOK(r, g, bs, lf) ==
    /\ r.pc \in Informed \cup {"collect"} => lf = r.t \/ (lf = 0 /\ Gone(bs, r.t))
    /\ r.pc \in Informed => Gone(bs, r.t) \/ \A n \in Nics : r.bk[n] = Says(bs, r.t, n)
    /\ r.pc \in {"details", "give"} => \A n \in Nics : g[n] = Home[n] => r.bk[n] \in {Home[n], {}}
    /\ r.pc = "give" => \A n \in Nics :
          (n < r.at \/ r.seen[n] = Home[n]) /\ r.bk[n] = Home[n] => g[n] = Home[n]
    /\ r.pc = "delete" => \A n \in Nics : r.bk[n] = Home[n] => g[n] = Home[n]

Pair(r, s) ==
    /\ r.pc \in Owning /\ s.pc \in Owning => r.t # s.t
    /\ r.pc \in Informed /\ s.pc \in Informed => r.bk = s.bk
    /\ ~(r.action = "on" /\ s.action = "off")

LiveInv ==
    /\ Safe(sgs, backups, now) /\ Stamped(sgs, backups, lastfence, now)
    /\ \A p \in Procs : /\ Place(proc[p]) /\ OffOK(proc[p], sgs, backups, lastfence, now)
                        /\ OnOK(proc[p], sgs, backups, lastfence)
    /\ \A p, q \in Procs : p # q => Pair(proc[p], proc[q])

HomeInv == IInv /\ (Live => LiveInv)

\* With tags an interface has its groups, or what fencing makes of them.
LEMMA TwoValues ==
    ASSUME OptionsNameHome, UsesTags, setup \in Setups, NEW n \in Nics, NEW g \in Whole(n)
    PROVE  /\ g = Home[n] \/ g = updated_sgs(Home[n])
           /\ updated_sgs(g) = updated_sgs(Home[n])
<1>1. Desired("off", n) = {} /\ Desired("on", n) \in {{}, Home[n]}
    BY DEF UsesTags, interface_sg_present, OptionsNameHome, Desired
<1>2. g # {} /\ (g \in {Home[n], updated_sgs(Home[n])} \/ g \in {{}, updated_sgs({})})
    BY <1>1 DEF Whole
<1>3. updated_sgs({}) = {} \/ updated_sgs({}) = updated_sgs(Home[n])
    BY DEF updated_sgs
<1>4. g = Home[n] \/ g = updated_sgs(Home[n])
    BY <1>2, <1>3
<1>5. updated_sgs(updated_sgs(Home[n])) = updated_sgs(Home[n])
    BY DEF updated_sgs
<1> QED BY <1>4, <1>5

LEMMA SaysIsMatching ==
    ASSUME NEW t, NEW n
    PROVE  matching_backups(t, n) = Says(backups, t, n)
BY DEF matching_backups, Says

LEMMA GoneSays ==
    ASSUME NEW bs, NEW t, NEW n, Gone(bs, t)
    PROVE  Says(bs, t, n) = {}
<1> DEFINE cs == {b \in bs : b.t = t /\ b.nic = n}
<1>1. cs = {}
    BY DEF Gone
<1>2. {b.s : b \in cs} = {}
    BY <1>1
<1> QED BY <1>2 DEF Says

\* A backup with all its chunks is read as what it was made of.
LEMMA FullSays ==
    ASSUME IInv, NEW t \in Nat, NEW n \in Nics, NEW g \in Whole(n), Full(backups, t, n, g)
    PROVE  /\ Says(backups, t, n) = g
           /\ {b.s : b \in {x \in backups : x.t = t /\ x.nic = n}} = g
           /\ t \in 1 .. now /\ ~Gone(backups, t)
<1> DEFINE cs == {b \in backups : b.t = t /\ b.nic = n}
           I == 0 .. Cardinality(g) - 1
           f == [b \in cs |-> b.i]
<1>1. g \in SUBSET Nat /\ IsFiniteSet(g) /\ g # {}
    BY WholeSets DEF IInv, Types
<1>2. Cardinality(g) \in Nat /\ Cardinality(g) # 0
    BY <1>1, FS_CardinalityType, FS_EmptySet
<1>3. PICK h \in Whole(n) : \A b \in cs : \E i \in 0 .. Cardinality(h) - 1 : b = Tag(t, n, i, h)
    BY DEF IInv, Tags
<1>4. \A i \in I : Tag(t, n, i, g) \in cs /\ Tag(t, n, i, g).i = i
    BY DEF Full, Tag
<1>5. Cardinality(h) = Cardinality(g)
  <2>1. 0 \in I
      BY <1>2
  <2>2. PICK i \in 0 .. Cardinality(h) - 1 : Tag(t, n, 0, g) = Tag(t, n, i, h)
      BY <1>3, <1>4, <2>1
  <2> QED BY <2>2 DEF Tag
<1>6. ASSUME NEW b \in cs PROVE b.i \in I /\ b = Tag(t, n, b.i, g) /\ b.total = Cardinality(g)
  <2>1. PICK i \in I : b = Tag(t, n, i, h)
      BY <1>3, <1>5
  <2>2. b.i = i /\ Tag(t, n, i, g) \in cs
      BY <1>4, <2>1 DEF Tag
  <2>3. PICK j \in I : Tag(t, n, i, g) = Tag(t, n, j, h)
      BY <1>3, <1>5, <2>2
  <2>4. i = j
      BY <2>3 DEF Tag
  <2> QED BY <2>1, <2>2, <2>3, <2>4 DEF Tag
<1>7. Cardinality(cs) = Cardinality(g)
  <2>1. f \in Injection(cs, I)
    <3>1. f \in [cs -> I]
        BY <1>6
    <3>2. \A b, c \in cs : f[b] = f[c] => b = c
        BY <1>6
    <3> QED BY <3>1, <3>2 DEF Injection, IsInjective
  <2>2. f \in Surjection(cs, I)
    <3>1. f \in [cs -> I]
        BY <1>6
    <3>2. \A i \in I : \E b \in cs : f[b] = i
        BY <1>4
    <3> QED BY <3>1, <3>2 DEF Surjection
  <2>3. IsFiniteSet(I) /\ Cardinality(I) = Cardinality(g)
      BY <1>2, IntervalSize
  <2> QED BY <2>1, <2>2, <2>3, FS_Injection
<1>8. {b.s : b \in cs} = g
  <2>1. \A b \in cs : \E i \in 0 .. Cardinality(g) - 1 : b = Tag(t, n, i, g)
      BY <1>6
  <2> HIDE DEF cs
  <2> QED BY <1>1, <1>7, <2>1, CompleteIsWhole
<1>9. t \in 1 .. now /\ ~Gone(backups, t)
  <2>1. 0 \in I
      BY <1>2
  <2>2. Tag(t, n, 0, g) \in backups /\ Tag(t, n, 0, g).t = t
      BY <2>1 DEF Full, Tag
  <2>3. \A b \in backups : b.t \in 1 .. now
      BY DEF IInv, Tags
  <2> QED BY <2>2, <2>3 DEF Gone
<1>10. Says(backups, t, n) = {b.s : b \in cs}
    BY <1>6, <1>7 DEF Says
<1> QED BY <1>8, <1>9, <1>10

LEMMA HomeIsWhole == \A n \in Nics : Home[n] \in Whole(n) /\ Home[n] # {}
BY AwsVpcNetAssumption DEF Whole

\* What a step leaves to the service and to the other processes.
Others(p, g, bs, lf, k) ==
    /\ Safe(g, bs, k) /\ Stamped(g, bs, lf, k)
    /\ \A q \in Procs \ {p} : OffOK(proc[q], g, bs, lf, k) /\ OnOK(proc[q], g, bs, lf)

LEMMA MoveKeeps ==
    ASSUME IInv, LiveInv, NEW p \in Procs, setup' = setup, NEW r, Goes(p, r),
           Others(p, sgs', backups', lastfence', now'), Place(r),
           OffOK(r, sgs', backups', lastfence', now'), OnOK(r, sgs', backups', lastfence'),
           \A q \in Procs \ {p} : Pair(r, proc[q]) /\ Pair(proc[q], r)
    PROVE  LiveInv'
<1>1. proc'[p] = r /\ \A q \in Procs \ {p} : proc'[q] = proc[q]
    BY DEF Goes, IInv, Types
<1>2. interface_sg_present("on")' = interface_sg_present("on")
    BY DEF interface_sg_present, Desired
<1>3. Safe(sgs, backups, now)' /\ Stamped(sgs, backups, lastfence, now)'
  <2>1. Safe(sgs, backups, now)'
      BY DEF Others, Safe, Full, Tag
  <2>2. Stamped(sgs, backups, lastfence, now)'
      BY <1>2 DEF Others, Stamped, Says
  <2> QED BY <2>1, <2>2
<1>4. \A q \in Procs : Place(proc'[q]) /\ OffOK(proc'[q], sgs', backups', lastfence', now')
                       /\ OnOK(proc'[q], sgs', backups', lastfence')
    BY <1>1 DEF LiveInv, Others
<1>5. \A q \in Procs : Place(proc[q])'
    BY <1>2, <1>4 DEF Place
<1>6. \A q \in Procs : OffOK(proc[q], sgs, backups, lastfence, now)'
                       /\ OnOK(proc[q], sgs, backups, lastfence)'
    BY <1>4 DEF OffOK, OnOK, Full, Gone, Says
<1>7. \A q, s \in Procs : q # s => Pair(proc'[q], proc'[s])
    BY <1>1 DEF LiveInv
<1>8. \A q, s \in Procs : q # s => Pair(proc[q], proc[s])'
    BY <1>7 DEF Pair
<1> QED BY <1>3, <1>5, <1>6, <1>8 DEF LiveInv

\* Where a process has to keep nothing.
Bound == Owning \cup Informed \cup {"update", "collect"}

LEMMA FreeKeeps ==
    ASSUME IInv, LiveInv, NEW p \in Procs, setup' = setup, NEW r, Goes(p, r),
           Others(p, sgs', backups', lastfence', now'), Place(r), r.pc \notin Bound,
           r.action \in {"none", Act(p)}
    PROVE  LiveInv'
<1>1. OffOK(r, sgs', backups', lastfence', now') /\ OnOK(r, sgs', backups', lastfence')
    BY DEF Bound, Owning, Informed, OffOK, OnOK
<1>2. \A q \in Procs \ {p} : Pair(r, proc[q]) /\ Pair(proc[q], r)
    BY DEF LiveInv, Pair, Bound, Act
<1> QED BY <1>1, <1>2, MoveKeeps

LEMMA SameOthers ==
    ASSUME IInv, LiveInv, NEW p \in Procs, UNCHANGED <<sgs, backups, lastfence>>, now' \in {now, now + 1}
    PROVE  Others(p, sgs', backups', lastfence', now')
<1>1. now \in Nat /\ now' \in Nat /\ now <= now'
    BY DEF IInv, Types
<1>2. \A t : (t \in 1 .. now => t \in 1 .. now') /\ (t \in 0 .. now => t \in 0 .. now')
    BY <1>1
<1>3. Safe(sgs', backups', now') /\ Stamped(sgs', backups', lastfence', now')
    BY <1>2 DEF LiveInv, Safe, Stamped
<1>4. \A q \in Procs : OffOK(proc[q], sgs', backups', lastfence', now')
    BY <1>2 DEF LiveInv, OffOK
<1>5. \A q \in Procs : OnOK(proc[q], sgs', backups', lastfence')
    BY DEF LiveInv
<1> QED BY <1>3, <1>4, <1>5 DEF Others

----------------------------------------------------------------------------
(* A process that ends, polls or goes on with nothing to keep.             *)

LEMMA ExitsFree ==
    ASSUME IInv, LiveInv, NEW p \in Procs, setup' = setup, Others(p, sgs', backups', lastfence', now'),
           Exits(p)
    PROVE  LiveInv'
<1>1. Place(Idle) /\ Idle.pc = "idle" /\ Idle.action = "none"
    BY DEF Idle, Place, Early, Fencing, Restoring, Optional
<1>2. Idle.pc \notin Bound
    BY <1>1 DEF Bound, Owning, Informed
<1> QED BY <1>1, <1>2, FreeKeeps DEF Exits

LEMMA FreshFree ==
    ASSUME IInv, LiveInv, NEW p \in Procs, setup' = setup, Others(p, sgs', backups', lastfence', now'),
           NEW k \in Nat, Act(p) \in {"on", "off"},
           Goes(p, [Idle EXCEPT !.pc = "status", !.action = Act(p), !.polls = k])
    PROVE  LiveInv'
<1> DEFINE r == [Idle EXCEPT !.pc = "status", !.action = Act(p), !.polls = k]
<1>1. r.pc = "status" /\ r.action = Act(p) /\ r.at = 1
    BY DEF Idle
<1> HIDE DEF r
<1>2. Place(r) /\ r.pc \notin Bound
    BY <1>1 DEF Place, Fencing, Restoring, Optional, Bound, Owning, Informed
<1> QED BY <1>1, <1>2, FreeKeeps DEF r

LEMMA PollsFree ==
    ASSUME IInv, LiveInv, NEW p \in Procs, setup' = setup, Others(p, sgs', backups', lastfence', now'),
           ~At(p, "idle"), Polls(p)
    PROVE  LiveInv'
<1>1. Act(p) \in {"on", "off"}
    BY ProcType
<1> QED BY <1>1, FreshFree DEF Polls

LEMMA GoesToFree ==
    ASSUME IInv, LiveInv, NEW p \in Procs, setup' = setup, Others(p, sgs', backups', lastfence', now'),
           NEW l, GoesTo(p, l), l \notin Bound,
           Place([proc[p] EXCEPT !.pc = l])
    PROVE  LiveInv'
<1> DEFINE r == [proc[p] EXCEPT !.pc = l]
<1>1. r.pc = l /\ r.action = Act(p)
    BY ProcType DEF Recs, Act
<1> HIDE DEF r
<1> QED BY <1>1, FreeKeeps DEF r, GoesTo

LEMMA MovedFields ==
    ASSUME NEW r \in Recs, NEW l
    PROVE  /\ [r EXCEPT !.pc = l].pc = l /\ [r EXCEPT !.pc = l].action = r.action
           /\ [r EXCEPT !.pc = l].at = r.at /\ [r EXCEPT !.pc = l].t = r.t
           /\ [r EXCEPT !.pc = l].seen = r.seen /\ [r EXCEPT !.pc = l].bk = r.bk
BY DEF Recs

LEMMA StatusIsFree ==
    ASSUME IInv, LiveInv, NEW p \in Procs, setup' = setup, Others(p, sgs', backups', lastfence', now'),
           proc[p].pc \in Early, NEW s, StatusIs(p, s)
    PROVE  LiveInv'
<1>1. ~At(p, "idle") /\ proc[p] \in Recs /\ proc[p].polls + 1 \in Nat
    BY ProcType DEF At, Early
<1>2. CASE Exits(p)
    BY <1>2, ExitsFree
<1>3. CASE GoesTo(p, "set")
  <2>1. proc[p].at = 1
      BY DEF LiveInv, Place
  <2>2. Place([proc[p] EXCEPT !.pc = "set"]) /\ "set" \notin Bound
      BY <1>1, <2>1, MovedFields DEF Place, Fencing, Restoring, Optional, Bound, Owning, Informed
  <2> QED BY <1>3, <2>2, GoesToFree
<1>4. CASE Goes(p, [Idle EXCEPT !.pc = "status", !.action = Act(p), !.polls = proc[p].polls + 1])
  <2>1. Act(p) \in {"on", "off"}
      BY <1>1, ProcType
  <2> QED BY <1>1, <1>4, <2>1, FreshFree
<1> QED BY <1>2, <1>3, <1>4 DEF StatusIs

LEMMA StatusFree ==
    ASSUME IInv, LiveInv, NEW p \in Procs, Status(p)
    PROVE  LiveInv'
<1>1. UNCHANGED <<setup, cloudVars, now>> /\ proc[p].pc \in {"status", "fenced", "lastfence", "tags"}
    BY DEF Status, status_by_interfaces, is_instance_fenced, is_instance_fenced_lastfence,
       is_instance_fenced_tags, At
<1>2. proc[p].pc \in Early /\ setup' = setup /\ Others(p, sgs', backups', lastfence', now')
    BY <1>1, SameOthers DEF Early, cloudVars
<1>3. proc[p] \in Recs /\ proc[p].at = 1 /\ lastfence \in Nat
    BY <1>2, ProcType DEF LiveInv, Place, IInv, Types
<1>4. CASE \E s : StatusIs(p, s)
    BY <1>2, <1>4, StatusIsFree
<1>5. CASE GoesTo(p, "fenced") \/ GoesTo(p, "lastfence")
  <2>1. ASSUME NEW l \in {"fenced", "lastfence"}, GoesTo(p, l) PROVE LiveInv'
    <3>1. Place([proc[p] EXCEPT !.pc = l]) /\ l \notin Bound
        BY <1>3, MovedFields DEF Place, Fencing, Restoring, Optional, Bound, Owning, Informed
    <3> QED BY <1>2, <2>1, <3>1, GoesToFree
  <2> QED BY <1>5, <2>1
<1>6. CASE Goes(p, [proc[p] EXCEPT !.pc = "tags", !.t = lastfence])
  <2> DEFINE r == [proc[p] EXCEPT !.pc = "tags", !.t = lastfence]
  <2>1. r.pc = "tags" /\ r.action = Act(p) /\ r.at = 1
      BY <1>3 DEF Recs, Act
  <2> HIDE DEF r
  <2>2. Place(r) /\ r.pc \notin Bound
      BY <2>1 DEF Place, Fencing, Restoring, Optional, Bound, Owning, Informed
  <2> QED BY <1>2, <1>6, <2>1, <2>2, FreeKeeps DEF r
<1> QED BY <1>4, <1>5, <1>6 DEF Status, status_by_interfaces, is_instance_fenced,
           is_instance_fenced_lastfence, is_instance_fenced_tags

----------------------------------------------------------------------------
(* Off.                                                                    *)

LEMMA SetLive ==
    ASSUME IInv, Live, LiveInv, NEW p \in Procs,
           self_check(p) \/ set_power_status(p) \/ set_power_status_match(p)
    PROVE  LiveInv'
<1>1. UNCHANGED <<setup, cloudVars>> /\ now' \in {now, now + 1} /\ ~At(p, "idle")
    BY DEF self_check, set_power_status, set_power_status_match, At
<1>2. setup' = setup /\ Others(p, sgs', backups', lastfence', now')
    BY <1>1, SameOthers DEF cloudVars
<1>3. CASE Exits(p) \/ Polls(p)
    BY <1>1, <1>2, <1>3, ExitsFree, PollsFree
<1>4. CASE set_power_status_match(p)
    BY <1>4 DEF set_power_status_match, At, LiveInv, Place
<1>5. CASE /\ At(p, "set") /\ Branch(p) # "return" /\ now' = now + 1
           /\ Goes(p, [proc[p] EXCEPT !.pc = Branch(p), !.t = now + 1])
  <2> DEFINE r == [proc[p] EXCEPT !.pc = Branch(p), !.t = now + 1]
  <2>1. /\ proc[p] \in Recs /\ proc[p].at = 1 /\ Act(p) \in {"on", "off"} /\ now \in Nat
        /\ now + 1 \in 1 .. now' /\ now' = now + 1
    <3>1. now \in Nat /\ "set" \in Early
        BY DEF IInv, Types, Early
    <3> QED BY <1>1, <1>5, <3>1, ProcType DEF LiveInv, Place, At
  <2>2. r.pc = Branch(p) /\ r.action = Act(p) /\ r.at = 1 /\ r.t = now + 1
      BY <2>1 DEF Recs, Act
  <2> HIDE DEF r
  <2>3. setup.secg # {}
      BY DEF Live, UsesTags
  <2>4. CASE Act(p) = "on"
    <3>1. \/ r.pc = "options" /\ interface_sg_present("on")
          \/ r.pc = "restore" /\ ~interface_sg_present("on")
        BY <1>5, <2>2, <2>4 DEF Branch
    <3>2. Place(r) /\ r.pc \notin Bound
        BY <2>2, <2>4, <3>1 DEF Place, Early, Fencing, Restoring, Optional, Bound, Owning, Informed
    <3> QED BY <1>2, <1>5, <2>2, <3>2, FreeKeeps DEF r
  <2>5. CASE Act(p) = "off"
    <3>1. r.pc = "modify"
        BY <2>2, <2>3, <2>5 DEF Branch
    <3>2. Place(r)
        BY <2>2, <2>5, <3>1 DEF Place, Early, Fencing, Restoring, Optional
    <3>3. UNCHANGED <<sgs, backups, lastfence>>
        BY <1>1 DEF cloudVars
    <3>4. lastfence # r.t /\ \A q \in Procs : proc[q].pc \in Owning => proc[q].t # r.t
      <4>1. \A q \in Procs : proc[q].pc \in Owning => proc[q].t \in 1 .. now
          BY DEF LiveInv, OffOK
      <4>2. lastfence \in 0 .. now
          BY DEF LiveInv, Stamped
      <4> QED BY <2>1, <2>2, <4>1, <4>2
    <3>5. OffOK(r, sgs', backups', lastfence', now')
        BY <2>1, <2>2, <3>1, <3>3, <3>4 DEF OffOK
    <3>6. OnOK(r, sgs', backups', lastfence')
        BY <3>1 DEF OnOK, Informed
    <3>7. \A q \in Procs \ {p} : Pair(r, proc[q]) /\ Pair(proc[q], r)
        BY <2>2, <3>1, <3>4 DEF LiveInv, Pair, Informed, Act
    <3> QED BY <1>2, <1>5, <3>2, <3>5, <3>6, <3>7, MoveKeeps DEF r
  <2> QED BY <2>1, <2>4, <2>5
<1> QED BY <1>3, <1>4, <1>5 DEF self_check, set_power_status

\* While an off runs no on does, and the other way round.
LEMMA NoOns ==
    ASSUME LiveInv, NEW p \in Procs, Act(p) = "off", NEW q \in Procs \ {p}, NEW g, NEW bs, NEW lf
    PROVE  OnOK(proc[q], g, bs, lf)
<1>1. proc[q].action # "on"
    BY DEF LiveInv, Pair, Act
<1>2. proc[q].pc \notin Restoring
    BY <1>1 DEF LiveInv, Place
<1> QED BY <1>2 DEF OnOK, Restoring, Informed

LEMMA NoOffs ==
    ASSUME LiveInv, NEW p \in Procs, Act(p) = "on", NEW q \in Procs \ {p}, NEW g, NEW bs, NEW lf, NEW k
    PROVE  OffOK(proc[q], g, bs, lf, k)
<1>1. proc[q].action # "off"
    BY DEF LiveInv, Pair, Act
<1>2. proc[q].pc \notin Fencing
    BY <1>1 DEF LiveInv, Place
<1> QED BY <1>2 DEF OffOK, Fencing, Owning

\* A process of an off goes on with r, which holds the same time and groups.
LEMMA OffMoves ==
    ASSUME IInv, LiveInv, NEW p \in Procs, setup' = setup, Others(p, sgs', backups', lastfence', now'),
           NEW r, Goes(p, r), r.action = Act(p), r.t = proc[p].t, proc[p].pc \in Fencing,
           r.pc \in {"backup", "stamp", "update"},
           r.pc \in Owning => proc[p].pc \in Owning,
           OffOK(r, sgs', backups', lastfence', now')
    PROVE  LiveInv'
<1>1. Act(p) = "off"
    BY DEF LiveInv, Place, Act
<1>2. Place(r)
    BY <1>1 DEF Place, Fencing, Restoring, Optional, Early
<1>3. OnOK(r, sgs', backups', lastfence')
    BY DEF OnOK, Informed
<1>4. \A q \in Procs \ {p} : Pair(r, proc[q]) /\ Pair(proc[q], r)
    BY DEF LiveInv, Pair, Act, Informed
<1> QED BY <1>2, <1>3, <1>4, MoveKeeps

LEMMA ModifyLive ==
    ASSUME IInv, Live, LiveInv, NEW p \in Procs, modify_security_groups(p)
    PROVE  LiveInv'
<1>1. UNCHANGED <<setup, sgs, backups, lastfence, now>> /\ ~At(p, "idle") /\ proc[p].pc = "modify"
    BY DEF modify_security_groups, At, cloudVars
<1>2. Others(p, sgs', backups', lastfence', now')
    BY <1>1, SameOthers
<1>3. CASE Exits(p) \/ ConnectionError(p)
    BY <1>1, <1>2, <1>3, ExitsFree, PollsFree DEF ConnectionError
<1>4. CASE Goes(p, [proc[p] EXCEPT !.pc = IF UsesTags THEN "backup" ELSE "update", !.seen = sgs])
  <2> DEFINE r == [proc[p] EXCEPT !.pc = "backup", !.seen = sgs]
  <2>1. Goes(p, r)
      BY <1>4 DEF Live
  <2>2. /\ proc[p] \in Recs /\ proc[p].at = 1 /\ proc[p].chunk = 0 /\ proc[p].t \in 1 .. now
        /\ lastfence # proc[p].t
    <3>1. "modify" \in Early /\ "modify" \in Owning
        BY DEF Early, Owning
    <3>2. ProcOK(proc[p], backups, now) /\ Place(proc[p])
          /\ OffOK(proc[p], sgs, backups, lastfence, now)
        BY ProcType DEF LiveInv
    <3> QED BY <1>1, <3>1, <3>2, ProcType DEF ProcOK, Place, OffOK
  <2>3. /\ r.pc = "backup" /\ r.seen = sgs /\ r.action = Act(p) /\ r.t = proc[p].t /\ r.at = 1
        /\ r.chunk = 0
      BY <2>2 DEF Recs, Act
  <2> HIDE DEF r
  <2>4. (\A n \in Nics : ~(n < 1)) /\ 0 .. r.chunk - 1 = {}
      BY <2>3, AwsVpcNetAssumption DEF Nics
  <2>5. OffOK(r, sgs', backups', lastfence', now')
      BY <1>1, <2>2, <2>3, <2>4 DEF OffOK
  <2>6. proc[p].pc \in Fencing /\ proc[p].pc \in Owning
      BY <1>1 DEF Fencing, Owning
  <2> QED BY <1>1, <1>2, <2>1, <2>3, <2>5, <2>6, OffMoves
<1> QED BY <1>3, <1>4 DEF modify_security_groups

LEMMA TagOthers ==
    ASSUME IInv, LiveInv, NEW p \in Procs, proc[p].pc = "backup",
           backups' \in {backups, backups \cup {Chunk(p)}}, UNCHANGED <<sgs, lastfence, now>>
    PROVE  Others(p, sgs', backups', lastfence', now')
<1>1. /\ Act(p) = "off" /\ lastfence # proc[p].t /\ backups \subseteq backups'
      /\ \A b \in backups' : b \in backups \/ b.t = proc[p].t
  <2>1. Act(p) = "off" /\ lastfence # proc[p].t
      BY DEF LiveInv, Place, OffOK, Fencing, Owning, Act
  <2>2. Chunk(p).t = proc[p].t
      BY DEF Chunk
  <2> QED BY <2>1, <2>2
<1>2. \A t, n, g : Full(backups, t, n, g) => Full(backups', t, n, g)
    BY <1>1 DEF Full
<1>3. Safe(sgs', backups', now')
    BY <1>2 DEF LiveInv, Safe
<1>4. Stamped(sgs', backups', lastfence', now')
  <2>1. \A n : Says(backups', lastfence, n) = Says(backups, lastfence, n)
    <3>1. \A n : {b \in backups' : b.t = lastfence /\ b.nic = n} = {b \in backups : b.t = lastfence /\ b.nic = n}
        BY <1>1
    <3> QED BY <3>1 DEF Says
  <2> QED BY <2>1 DEF LiveInv, Stamped
<1>5. ASSUME NEW q \in Procs \ {p} PROVE OffOK(proc[q], sgs', backups', lastfence', now')
  <2>1. OffOK(proc[q], sgs, backups, lastfence, now)
      BY DEF LiveInv
  <2> QED BY <1>1, <1>2, <2>1 DEF OffOK
<1> QED BY <1>1, <1>3, <1>4, <1>5, NoOns DEF Others

LEMMA BackupLive ==
    ASSUME IInv, Live, LiveInv, NEW p \in Procs, create_backup_tag(p)
    PROVE  LiveInv'
<1>1. /\ UNCHANGED <<setup, sgs, lastfence, now>> /\ proc[p].pc = "backup"
      /\ backups' \in {backups, backups \cup {Chunk(p)}}
    BY DEF create_backup_tag, At
<1>2. Others(p, sgs', backups', lastfence', now') /\ setup' = setup
    BY <1>1, TagOthers
<1>3. CASE Exits(p)
    BY <1>2, <1>3, ExitsFree
<1>4. CASE backups' = backups \cup {Chunk(p)} /\ ~Exits(p)
  <2> DEFINE m == Cur(p)
             s == proc[p].seen
             t == proc[p].t
             c == proc[p].chunk
  <2>1. /\ proc[p] \in Recs /\ m \in Nics /\ c \in Nat /\ m \in Nat /\ NNics \in Nat
        /\ \A n \in Nics : n \in Nat /\ n <= NNics
      BY ProcType, AwsVpcNetAssumption DEF Nics
  <2>2. /\ \A n \in Nics : s[n] # Home[n] => sgs'[n] # Home[n]
        /\ \A n \in Nics : n < m => Full(backups, t, n, s[n])
        /\ \A i \in 0 .. c - 1 : Tag(t, m, i, s[m]) \in backups
        /\ t \in 1 .. now' /\ lastfence' # t
    <3>1. OffOK(proc[p], sgs, backups, lastfence, now) /\ "backup" \in Owning
        BY DEF LiveInv, Owning
    <3> QED BY <1>1, <3>1 DEF OffOK, Cur
  <2>3. \A n \in Nics : n < m => Full(backups', t, n, s[n])
      BY <1>4, <2>2 DEF Full
  <2>4. \A i \in 0 .. c : Tag(t, m, i, s[m]) \in backups'
    <3>1. Tag(t, m, c, s[m]) \in backups'
        BY <1>1, <1>4, ChunkIsTag
    <3>2. \A i \in 0 .. c : i \in 0 .. c - 1 \/ i = c
        BY <2>1
    <3> QED BY <1>4, <2>2, <3>1, <3>2
  <2>5. proc[p].pc \in Fencing /\ proc[p].pc \in Owning
      BY <1>1 DEF Fencing, Owning
  <2>6. CASE ~ChunksDone(p) /\ Goes(p, [proc[p] EXCEPT !.chunk = @ + 1])
    <3> DEFINE r == [proc[p] EXCEPT !.chunk = proc[p].chunk + 1]
    <3>1. Goes(p, r)
        BY <2>6
    <3>2. /\ r.pc = "backup" /\ r.action = Act(p) /\ r.t = t /\ r.at = m /\ r.seen = s
          /\ r.chunk - 1 = c
        BY <1>1, <2>1 DEF Recs, Act, Cur
    <3> HIDE DEF r, m, s, t, c
    <3>3. OffOK(r, sgs', backups', lastfence', now')
        BY <2>2, <2>3, <2>4, <3>2 DEF OffOK
    <3> QED BY <1>2, <2>5, <3>1, <3>2, <3>3, OffMoves DEF t
  <2>7. ChunksDone(p) => Full(backups', t, m, s[m])
    <3>1. ChunksDone(p) => Cardinality(s[m]) - 1 = c
        BY <2>1 DEF ChunksDone
    <3> QED BY <2>4, <3>1 DEF Full
  <2>8. CASE ChunksDone(p) /\ Cur(p) < NNics /\ Goes(p, [proc[p] EXCEPT !.at = @ + 1, !.chunk = 0])
    <3> DEFINE r == [proc[p] EXCEPT !.at = proc[p].at + 1, !.chunk = 0]
    <3>1. Goes(p, r)
        BY <2>8
    <3>2. /\ r.pc = "backup" /\ r.action = Act(p) /\ r.t = t /\ r.at = m + 1 /\ r.seen = s
          /\ 0 .. r.chunk - 1 = {}
        BY <1>1, <2>1 DEF Recs, Act, Cur
    <3> HIDE DEF r, m, s, t, c
    <3>3. \A n \in Nics : n < r.at => n < m \/ n = m
        BY <2>1, <3>2
    <3>4. OffOK(r, sgs', backups', lastfence', now')
        BY <2>2, <2>3, <2>7, <2>8, <3>2, <3>3 DEF OffOK
    <3> QED BY <1>2, <2>5, <3>1, <3>2, <3>4, OffMoves DEF t
  <2>9. CASE /\ ChunksDone(p) /\ ~(Cur(p) < NNics)
             /\ Goes(p, [proc[p] EXCEPT !.pc = "stamp", !.at = 1, !.chunk = 0])
    <3> DEFINE r == [proc[p] EXCEPT !.pc = "stamp", !.at = 1, !.chunk = 0]
    <3>2. r.pc = "stamp" /\ r.action = Act(p) /\ r.t = t /\ r.seen = s
        BY <2>1 DEF Recs, Act
    <3>3. \A n \in Nics : n < m \/ n = m
        BY <2>1, <2>9
    <3> HIDE DEF r, m, s, t, c
    <3>4. OffOK(r, sgs', backups', lastfence', now')
        BY <2>2, <2>3, <2>7, <2>9, <3>2, <3>3 DEF OffOK
    <3> QED BY <1>2, <2>5, <2>9, <3>2, <3>4, OffMoves DEF t, r
  <2>10. ~setup.ignoreTags
      BY DEF Live
  <2> QED BY <1>4, <2>6, <2>8, <2>9, <2>10 DEF create_backup_tag, TagFails
<1> QED BY <1>1, <1>3, <1>4 DEF create_backup_tag, TagFails, Live

LEMMA StampLive ==
    ASSUME IInv, Live, LiveInv, NEW p \in Procs, set_lastfence_tag(p)
    PROVE  LiveInv'
<1>1. /\ UNCHANGED <<setup, sgs, backups, now>> /\ proc[p].pc = "stamp" /\ ~setup.ignoreTags
      /\ lastfence' \in {lastfence, proc[p].t}
    BY DEF set_lastfence_tag, At, Live
<1>2. /\ proc[p] \in Recs /\ Act(p) = "off" /\ proc[p].t \in 1 .. now
      /\ \A n \in Nics : proc[p].seen[n] # Home[n] => sgs[n] # Home[n]
      /\ \A n \in Nics : Full(backups, proc[p].t, n, proc[p].seen[n])
  <2>1. OffOK(proc[p], sgs, backups, lastfence, now) /\ Place(proc[p])
        /\ "stamp" \in Owning /\ "stamp" \in Fencing
      BY DEF LiveInv, Owning, Fencing
  <2> QED BY <1>1, <2>1, ProcType DEF OffOK, Place, Act
<1>3. now \in Nat /\ proc[p].t \in Nat /\ proc[p].t \in 0 .. now
    BY <1>2 DEF IInv, Types
<1>4. Others(p, sgs', backups', lastfence', now')
  <2>1. Safe(sgs', backups', now')
      BY <1>1 DEF LiveInv, Safe
  <2>2. Stamped(sgs', backups', lastfence', now')
    <3>1. CASE lastfence' = lastfence
        BY <1>1, <3>1 DEF LiveInv, Stamped
    <3>2. CASE lastfence' = proc[p].t
      <4>1. \A n \in Nics : sgs[n] = Home[n] => Says(backups, proc[p].t, n) = Home[n]
          BY <1>2, <1>3, FullSays, HomeIsWhole
      <4> QED BY <1>1, <1>3, <3>2, <4>1 DEF Stamped
    <3> QED BY <1>1, <3>1, <3>2
  <2>3. ASSUME NEW q \in Procs \ {p} PROVE OffOK(proc[q], sgs', backups', lastfence', now')
    <3>1. OffOK(proc[q], sgs, backups, lastfence, now)
        BY DEF LiveInv
    <3>2. proc[q].pc \in Owning => proc[q].t # proc[p].t
        BY <1>1 DEF LiveInv, Pair, Owning
    <3> QED BY <1>1, <3>1, <3>2 DEF OffOK
  <2> QED BY <1>2, <2>1, <2>2, <2>3, NoOns DEF Others
<1>5. CASE Exits(p)
    BY <1>1, <1>4, <1>5, ExitsFree
<1>6. CASE GoesTo(p, "update")
  <2> DEFINE r == [proc[p] EXCEPT !.pc = "update"]
  <2>1. r.pc = "update" /\ r.action = Act(p) /\ r.t = proc[p].t /\ r.seen = proc[p].seen
      BY <1>2, MovedFields DEF Act
  <2> HIDE DEF r
  <2>2. OffOK(r, sgs', backups', lastfence', now') /\ r.pc \notin Owning
      BY <1>1, <1>2, <2>1 DEF OffOK, Owning
  <2>3. proc[p].pc \in Fencing
      BY <1>1 DEF Fencing
  <2> QED BY <1>1, <1>4, <1>6, <2>1, <2>2, <2>3, OffMoves DEF r, GoesTo
<1> QED BY <1>1, <1>5, <1>6 DEF set_lastfence_tag, TagFails

LEMMA UpdateLive ==
    ASSUME IInv, Live, LiveInv, OptionsNameHome, NEW p \in Procs, modify_interface(p)
    PROVE  LiveInv'
<1> DEFINE n == Cur(p)
           g == proc[p].seen[n]
<1>1. /\ proc[p].pc = "update" /\ ~At(p, "idle") /\ UNCHANGED <<setup, backups, lastfence, now>>
      /\ UNCHANGED sgs \/ (~Untouched(g) /\ sgs' \in {sgs, [sgs EXCEPT ![n] = updated_sgs(g)]})
    BY DEF modify_interface, At
<1>2. /\ proc[p] \in Recs /\ n \in Nics /\ Act(p) = "off" /\ proc[p].modified \subseteq Nics
      /\ \A m \in Nics : proc[p].seen[m] # Home[m] => sgs[m] # Home[m]
      /\ \A m \in Nics : Full(backups, proc[p].t, m, proc[p].seen[m])
      /\ \A m \in Nics : proc[p].seen[m] \in Whole(m)
  <2>1. OffOK(proc[p], sgs, backups, lastfence, now) /\ Place(proc[p]) /\ "update" \in Fencing
        /\ ProcOK(proc[p], backups, now)
      BY ProcType DEF LiveInv, Fencing
  <2> QED BY <1>1, <2>1, ProcType DEF OffOK, Place, Act, ProcOK
<1>3. \/ UNCHANGED sgs
      \/ /\ sgs' = [sgs EXCEPT ![n] = updated_sgs(g)] /\ updated_sgs(g) # Home[n] /\ g = Home[n]
  <2>1. CASE ~Untouched(g)
    <3>1. (g = Home[n] \/ g = updated_sgs(Home[n])) /\ updated_sgs(g) = updated_sgs(Home[n])
        BY <1>2, TwoValues DEF Live, IInv, Types
    <3>2. updated_sgs(g) # g
        BY <2>1 DEF Untouched
    <3>3. g = Home[n] /\ updated_sgs(g) # Home[n]
        BY <3>1, <3>2
    <3> QED BY <1>1, <3>3
  <2> QED BY <1>1, <2>1
<1>4. sgs \in Maps /\ \A m \in Nics : sgs'[m] = sgs[m] \/ (m = n /\ sgs'[m] # Home[m] /\ g = Home[m])
    BY <1>3 DEF IInv, Types, Maps
<1>5. Others(p, sgs', backups', lastfence', now')
  <2>1. g = Home[n] => proc[p].t \in 1 .. now
      BY <1>2, FullSays, HomeIsWhole, ProcType
  <2>2. Safe(sgs', backups', now')
    <3> SUFFICES ASSUME NEW m \in Nics, sgs'[m] # Home[m]
                 PROVE  \E t \in 1 .. now : Full(backups, t, m, Home[m])
        BY <1>1 DEF Safe
    <3>1. CASE sgs'[m] = sgs[m]
        BY <3>1 DEF LiveInv, Safe
    <3>2. CASE m = n /\ g = Home[m]
        BY <1>2, <2>1, <3>2
    <3> QED BY <1>4, <3>1, <3>2
  <2>3. Stamped(sgs', backups', lastfence', now')
      BY <1>1, <1>4 DEF LiveInv, Stamped
  <2>4. ASSUME NEW q \in Procs \ {p} PROVE OffOK(proc[q], sgs', backups', lastfence', now')
    <3>1. OffOK(proc[q], sgs, backups, lastfence, now)
        BY DEF LiveInv
    <3> QED BY <1>1, <1>4, <3>1 DEF OffOK
  <2> QED BY <1>2, <2>2, <2>3, <2>4, NoOns DEF Others
<1>6. CASE Exits(p) \/ Polls(p)
    BY <1>1, <1>5, <1>6, ExitsFree, PollsFree
<1>7. CASE GoesTo(p, "shutdown")
  <2>1. Place([proc[p] EXCEPT !.pc = "shutdown"]) /\ "shutdown" \notin Bound
      BY <1>2, MovedFields DEF Place, Early, Fencing, Restoring, Optional, Bound, Owning, Informed, Act
  <2> QED BY <1>1, <1>5, <1>7, <2>1, GoesToFree
<1>8. ASSUME NEW m \in SUBSET Nics, NextUpdate(p, m) PROVE LiveInv'
  <2>1. CASE Cur(p) < NNics /\ Goes(p, [proc[p] EXCEPT !.at = @ + 1, !.modified = m])
    <3> DEFINE r == [proc[p] EXCEPT !.at = @ + 1, !.modified = m]
    <3>1. r.pc = "update" /\ r.action = Act(p) /\ r.t = proc[p].t /\ r.seen = proc[p].seen
        BY <1>1, <1>2 DEF Recs, Act
    <3> HIDE DEF r
    <3>2. \A k \in Nics : r.seen[k] # Home[k] => sgs'[k] # Home[k]
        BY <1>2, <1>4, <3>1
    <3>3. OffOK(r, sgs', backups', lastfence', now') /\ r.pc \notin Owning
        BY <1>1, <1>2, <3>1, <3>2 DEF OffOK, Owning
    <3>4. proc[p].pc \in Fencing
        BY <1>1 DEF Fencing
    <3> QED BY <1>1, <1>5, <2>1, <3>1, <3>3, <3>4, OffMoves DEF r
  <2> QED BY <1>6, <1>7, <1>8, <2>1 DEF NextUpdate
<1>9. CASE ConnectionError(p)
    BY <1>6, <1>9 DEF ConnectionError
<1>10. proc[p].modified \in SUBSET Nics /\ proc[p].modified \cup {n} \in SUBSET Nics
    BY <1>2
<1> QED BY <1>8, <1>9, <1>10 DEF modify_interface

LEMMA ShutdownLive ==
    ASSUME IInv, LiveInv, NEW p \in Procs, shutdown_instance(p)
    PROVE  LiveInv'
<1>1. UNCHANGED <<setup, sgs, backups, lastfence, now>> /\ ~At(p, "idle")
    BY DEF shutdown_instance, At
<1>2. Others(p, sgs', backups', lastfence', now')
    BY <1>1, SameOthers
<1> QED BY <1>1, <1>2, ExitsFree, PollsFree DEF shutdown_instance

----------------------------------------------------------------------------
(* On.                                                                     *)

\* A process of an on goes on with r.
LEMMA OnMoves ==
    ASSUME IInv, LiveInv, NEW p \in Procs, setup' = setup, Others(p, sgs', backups', lastfence', now'),
           NEW r, Goes(p, r), r.action = Act(p), r.pc \in Informed \cup {"collect"}, Place(r),
           OnOK(r, sgs', backups', lastfence'),
           r.pc \in Informed => \A q \in Procs \ {p} : proc[q].pc \in Informed => proc[q].bk = r.bk
    PROVE  LiveInv'
<1>1. OffOK(r, sgs', backups', lastfence', now')
    BY DEF OffOK, Informed, Owning
<1>2. \A q \in Procs \ {p} : Pair(r, proc[q]) /\ Pair(proc[q], r)
    BY DEF LiveInv, Pair, Act, Informed, Owning
<1> QED BY <1>1, <1>2, MoveKeeps

LEMMA OnFacts ==
    ASSUME IInv, LiveInv, NEW p \in Procs, proc[p].pc \in Restoring
    PROVE  /\ proc[p] \in Recs /\ Act(p) = "on" /\ proc[p].action = "on" /\ ~interface_sg_present("on")
           /\ ~At(p, "idle") /\ OnOK(proc[p], sgs, backups, lastfence)
BY ProcType DEF LiveInv, Place, Act, At, Restoring

LEMMA CollectLive ==
    ASSUME IInv, Live, LiveInv, NEW p \in Procs,
           restore_lastfence(p) \/ restore_collect(p) \/ restore_details(p)
    PROVE  LiveInv'
<1>1. /\ UNCHANGED <<setup, sgs, backups, lastfence, now>>
      /\ proc[p].pc \in {"restore", "collect", "details"}
    BY DEF restore_lastfence, restore_collect, restore_details, At, cloudVars
<1>2. Others(p, sgs', backups', lastfence', now')
    BY <1>1, SameOthers
<1>3. /\ proc[p] \in Recs /\ Act(p) = "on" /\ proc[p].action = "on" /\ ~interface_sg_present("on")
      /\ OnOK(proc[p], sgs, backups, lastfence) /\ proc[p].at = 1
  <2>1. proc[p].pc \in Restoring /\ proc[p].at = 1
      BY <1>1 DEF Restoring, LiveInv, Place
  <2> QED BY <2>1, OnFacts
<1>4. CASE Exits(p)
    BY <1>1, <1>2, <1>4, ExitsFree
<1>5. CASE restore_lastfence(p) /\ ~Exits(p)
  <2> DEFINE r == [proc[p] EXCEPT !.pc = "collect", !.t = lastfence]
  <2>1. Goes(p, r)
      BY <1>5 DEF restore_lastfence
  <2>2. r.pc = "collect" /\ r.action = "on" /\ r.t = lastfence /\ r.at = 1
      BY <1>3 DEF Recs
  <2> HIDE DEF r
  <2>3. Place(r)
      BY <1>3, <2>2 DEF Place, Fencing, Restoring, Optional
  <2>4. OnOK(r, sgs', backups', lastfence') /\ r.pc \notin Informed
      BY <1>1, <2>2 DEF OnOK, Informed
  <2> QED BY <1>1, <1>2, <1>3, <2>1, <2>2, <2>3, <2>4, OnMoves
<1>6. CASE restore_collect(p) /\ ~Exits(p)
  <2> DEFINE t == proc[p].t
             bk == [n \in Nics |-> matching_backups(t, n)]
             r == [proc[p] EXCEPT !.pc = "details", !.bk = bk]
  <2>1. Goes(p, r) /\ bk # Nothing /\ proc[p].pc = "collect"
      BY <1>6 DEF restore_collect, At
  <2>2. \A n \in Nics : bk[n] = Says(backups, t, n)
      BY SaysIsMatching
  <2>3. ~Gone(backups, t)
    <3> SUFFICES ASSUME Gone(backups, t) PROVE \A n \in Nics : bk[n] = {}
        BY <2>1 DEF Nothing
    <3> QED BY <2>2, GoneSays
  <2>4. lastfence = t /\ lastfence # 0
    <3>1. lastfence = t
        BY <1>3, <2>1, <2>3 DEF OnOK
    <3>2. \A b \in backups : b.t \in 1 .. now
        BY DEF IInv, Tags
    <3>3. \A b \in backups : b.t # 0
        BY <3>2 DEF IInv, Types
    <3> QED BY <2>3, <3>1, <3>3 DEF Gone
  <2>5. r.pc = "details" /\ r.action = "on" /\ r.t = t /\ r.at = 1 /\ r.bk = bk
      BY <1>3 DEF Recs
  <2>6. bk \in [Nics -> {Says(backups, t, n) : n \in Nics}]
      BY <2>2
  <2> HIDE DEF r, bk, t
  <2>7. Place(r)
      BY <1>3, <2>5 DEF Place, Fencing, Restoring, Optional
  <2>8. \A n \in Nics : sgs[n] = Home[n] => bk[n] \in {Home[n], {}}
      BY <1>3, <2>2, <2>4 DEF LiveInv, Stamped
  <2>9. OnOK(r, sgs', backups', lastfence')
      BY <1>1, <2>2, <2>4, <2>5, <2>8 DEF OnOK
  <2>10. ASSUME NEW q \in Procs \ {p}, proc[q].pc \in Informed PROVE proc[q].bk = bk
    <3>1. OnOK(proc[q], sgs, backups, lastfence)
        BY DEF LiveInv
    <3>2. proc[q].t = t
        BY <2>4, <2>10, <3>1 DEF OnOK
    <3>3. \A n \in Nics : proc[q].bk[n] = bk[n]
        BY <2>2, <2>3, <2>10, <3>1, <3>2 DEF OnOK
    <3>4. proc[q].bk \in Maps
        BY ProcType DEF Recs
    <3> QED BY <2>6, <3>3, <3>4 DEF Maps
  <2> QED BY <1>1, <1>2, <1>3, <2>1, <2>5, <2>7, <2>9, <2>10, OnMoves DEF Informed
<1>7. CASE restore_details(p) /\ ~Exits(p)
  <2> DEFINE r == [proc[p] EXCEPT !.pc = "give", !.seen = sgs]
  <2>1. Goes(p, r) /\ proc[p].pc = "details"
      BY <1>7 DEF restore_details, At
  <2>2. /\ r.pc = "give" /\ r.action = "on" /\ r.t = proc[p].t /\ r.at = 1 /\ r.bk = proc[p].bk
        /\ r.seen = sgs
      BY <1>3 DEF Recs
  <2> HIDE DEF r
  <2>3. Place(r)
      BY <1>3, <2>2 DEF Place, Early, Fencing, Restoring, Optional
  <2>4. \A n \in Nics : ~(n < 1)
      BY AwsVpcNetAssumption DEF Nics
  <2>5. OnOK(r, sgs', backups', lastfence')
      BY <1>1, <1>3, <2>1, <2>2, <2>4 DEF OnOK, Informed
  <2>6. \A q \in Procs \ {p} : proc[q].pc \in Informed => proc[q].bk = r.bk
      BY <2>1, <2>2 DEF LiveInv, Pair, Informed
  <2> QED BY <1>1, <1>2, <1>3, <2>1, <2>2, <2>3, <2>5, <2>6, OnMoves DEF Informed
<1> QED BY <1>4, <1>5, <1>6, <1>7

LEMMA GiveLive ==
    ASSUME IInv, Live, LiveInv, NEW p \in Procs, restore_interface(p), ~refused'
    PROVE  LiveInv'
<1> DEFINE n == Cur(p)
           g == proc[p].bk[n]
<1>1. /\ proc[p].pc = "give" /\ UNCHANGED <<setup, backups, lastfence, now>>
      /\ UNCHANGED sgs \/ (g # {} /\ sgs' = [sgs EXCEPT ![n] = g])
    BY DEF restore_interface, At
<1>2. /\ proc[p] \in Recs /\ Act(p) = "on" /\ proc[p].action = "on" /\ ~interface_sg_present("on")
      /\ OnOK(proc[p], sgs, backups, lastfence) /\ n \in Nics /\ proc[p].modified \subseteq Nics
      /\ n \in Nat /\ NNics \in Nat /\ (\A m \in Nics : m \in Nat /\ m <= NNics) /\ sgs \in Maps
    BY <1>1, OnFacts, ProcType, AwsVpcNetAssumption DEF Restoring, Nics, IInv, Types
<1>3. \A m \in Nics : \/ sgs'[m] = sgs[m]
                      \/ m = n /\ sgs'[m] = proc[p].bk[m] /\ proc[p].bk[m] # {}
    BY <1>1, <1>2 DEF Maps
<1>4. \A q \in Procs \ {p} : proc[q].pc \in Informed => proc[q].bk = proc[p].bk
    BY <1>1 DEF LiveInv, Pair, Informed
<1>5. Others(p, sgs', backups', lastfence', now')
  <2>1. Safe(sgs', backups', now')
    <3> SUFFICES ASSUME NEW m \in Nics, sgs'[m] # Home[m]
                 PROVE  \E t \in 1 .. now : Full(backups, t, m, Home[m])
        BY <1>1 DEF Safe
    <3>1. sgs[m] # Home[m]
        BY <1>1, <1>2, <1>3 DEF OnOK
    <3> QED BY <3>1 DEF LiveInv, Safe
  <2>2. Stamped(sgs', backups', lastfence', now')
    <3>1. ASSUME NEW m \in Nics, sgs'[m] = Home[m], sgs[m] # Home[m], lastfence # 0
          PROVE  Says(backups, lastfence, m) \in {Home[m], {}}
      <4>1. proc[p].bk[m] = Home[m] /\ lastfence = proc[p].t
          BY <1>1, <1>2, <1>3, <3>1 DEF OnOK, Informed
      <4>2. CASE Gone(backups, proc[p].t)
          BY <4>1, <4>2, GoneSays
      <4>3. CASE ~Gone(backups, proc[p].t)
          BY <1>1, <1>2, <4>1, <4>3 DEF OnOK, Informed
      <4> QED BY <4>2, <4>3
    <3> QED BY <1>1, <3>1 DEF LiveInv, Stamped
  <2>3. ASSUME NEW q \in Procs \ {p} PROVE OnOK(proc[q], sgs', backups', lastfence')
    <3>1. OnOK(proc[q], sgs, backups, lastfence)
        BY DEF LiveInv
    <3>2. proc[q].pc \in {"give", "details", "delete"} => proc[q].pc \in Informed
        BY DEF Informed
    <3> QED BY <1>1, <1>3, <1>4, <3>1, <3>2 DEF OnOK
  <2> QED BY <1>2, <2>1, <2>2, <2>3, NoOffs DEF Others
<1>6. CASE Exits(p)
    BY <1>1, <1>5, <1>6, ExitsFree
<1>7. \A m \in Nics : (m < n \/ proc[p].seen[m] = Home[m]) /\ proc[p].bk[m] = Home[m] => sgs'[m] = Home[m]
    BY <1>1, <1>2, <1>3 DEF OnOK, Cur
<1>8. \A m \in Nics : sgs'[m] = Home[m] => proc[p].bk[m] \in {Home[m], {}}
    BY <1>1, <1>2, <1>3 DEF OnOK
<1>9. ASSUME NEW k \in SUBSET Nics, NextRestore(p, k), proc[p].bk[n] = Home[n] => sgs'[n] = Home[n]
      PROVE  LiveInv'
  <2>1. CASE Cur(p) < NNics /\ Goes(p, [proc[p] EXCEPT !.at = @ + 1, !.modified = k])
    <3> DEFINE r == [proc[p] EXCEPT !.at = proc[p].at + 1, !.modified = k]
    <3>1. Goes(p, r)
        BY <2>1
    <3>2. /\ r.pc = "give" /\ r.action = "on" /\ r.t = proc[p].t /\ r.at = n + 1 /\ r.bk = proc[p].bk
          /\ r.seen = proc[p].seen
        BY <1>1, <1>2 DEF Recs, Cur
    <3> HIDE DEF r, n
    <3>3. Place(r)
        BY <1>2, <3>2 DEF Place, Early, Fencing, Restoring, Optional
    <3>4. \A m \in Nics : m < r.at => m < n \/ m = n
        BY <1>2, <3>2
    <3>5. \A m \in Nics : (m < r.at \/ r.seen[m] = Home[m]) /\ r.bk[m] = Home[m] => sgs'[m] = Home[m]
        BY <1>7, <1>9, <3>2, <3>4
    <3>6. OnOK(r, sgs', backups', lastfence')
        BY <1>1, <1>2, <1>8, <3>2, <3>5 DEF OnOK, Informed
    <3> QED BY <1>1, <1>2, <1>4, <1>5, <3>1, <3>2, <3>3, <3>6, OnMoves DEF Informed
  <2>2. CASE ~(Cur(p) < NNics) /\ GoesTo(p, "delete")
    <3> DEFINE r == [proc[p] EXCEPT !.pc = "delete"]
    <3>1. r.pc = "delete" /\ r.action = "on" /\ r.t = proc[p].t /\ r.bk = proc[p].bk
        BY <1>2, MovedFields
    <3>2. \A m \in Nics : m < n \/ m = n
        BY <1>2, <2>2
    <3> HIDE DEF r, n
    <3>3. Place(r)
        BY <1>2, <3>1 DEF Place, Early, Fencing, Restoring, Optional
    <3>4. OnOK(r, sgs', backups', lastfence')
        BY <1>1, <1>2, <1>7, <1>9, <3>1, <3>2 DEF OnOK, Informed
    <3> QED BY <1>1, <1>2, <1>4, <1>5, <2>2, <3>1, <3>3, <3>4, OnMoves DEF Informed, GoesTo, r
  <2> QED BY <1>6, <1>9, <2>1, <2>2 DEF NextRestore
<1>10. proc[p].modified \in SUBSET Nics /\ proc[p].modified \cup {n} \in SUBSET Nics
    BY <1>2
<1>11. CASE (g = {} \/ g = proc[p].seen[n]) /\ NextRestore(p, proc[p].modified)
  <2>1. proc[p].bk[n] = Home[n] => sgs'[n] = Home[n]
      BY <1>2, <1>7, <1>11, HomeIsWhole
  <2> QED BY <1>9, <1>10, <1>11, <2>1
<1>12. CASE sgs' = [sgs EXCEPT ![n] = g] /\ NextRestore(p, proc[p].modified \cup {n})
  <2>1. proc[p].bk[n] = Home[n] => sgs'[n] = Home[n]
      BY <1>2, <1>12 DEF Maps
  <2> QED BY <1>9, <1>10, <1>12, <2>1
<1> QED BY <1>6, <1>11, <1>12 DEF restore_interface

LEMMA DeleteLive ==
    ASSUME IInv, LiveInv, NEW p \in Procs, restore_delete(p)
    PROVE  LiveInv'
<1>1. /\ proc[p].pc = "delete" /\ UNCHANGED <<setup, sgs, now>> /\ (Exits(p) \/ Polls(p))
      /\ UNCHANGED <<backups, lastfence>> \/ (backups' = Kept(proc[p].t) /\ lastfence' = 0)
    BY DEF restore_delete, At
<1>2. Act(p) = "on" /\ ~At(p, "idle") /\ OnOK(proc[p], sgs, backups, lastfence)
    BY <1>1, OnFacts DEF Restoring
<1>3. CASE UNCHANGED <<backups, lastfence>>
  <2>1. Others(p, sgs', backups', lastfence', now')
      BY <1>1, <1>3, SameOthers
  <2> QED BY <1>1, <1>2, <2>1, ExitsFree, PollsFree
<1>4. CASE backups' = Kept(proc[p].t) /\ lastfence' = 0
  <2>1. Safe(sgs', backups', now')
    <3> SUFFICES ASSUME NEW m \in Nics, sgs[m] # Home[m]
                 PROVE  \E t \in 1 .. now : Full(backups', t, m, Home[m])
        BY <1>1 DEF Safe
    <3>1. PICK t \in 1 .. now : Full(backups, t, m, Home[m])
        BY DEF LiveInv, Safe
    <3>2. Says(backups, t, m) = Home[m] /\ ~Gone(backups, t)
      <4>1. t \in Nat
          BY DEF IInv, Types
      <4> QED BY <3>1, <4>1, FullSays, HomeIsWhole
    <3>3. t # proc[p].t
        BY <1>1, <1>2, <3>2 DEF OnOK, Informed
    <3>4. Full(backups', t, m, Home[m])
        BY <1>4, <3>1, <3>3 DEF Full, Kept, Tag
    <3> QED BY <3>4
  <2>2. Stamped(sgs', backups', lastfence', now')
      BY <1>1, <1>4 DEF Stamped, IInv, Types
  <2>3. ASSUME NEW q \in Procs \ {p} PROVE OnOK(proc[q], sgs', backups', lastfence')
    <3>1. OnOK(proc[q], sgs, backups, lastfence)
        BY DEF LiveInv
    <3>2. Gone(backups, 0)
      <4>1. \A b \in backups : b.t \in 1 .. now
          BY DEF IInv, Tags
      <4> QED BY <4>1 DEF Gone, IInv, Types
    <3>3. \A t : Gone(backups, t) \/ t = proc[p].t => Gone(backups', t)
        BY <1>4 DEF Gone, Kept
    <3>4. proc[q].pc \in Informed \cup {"collect"} => Gone(backups', proc[q].t)
        BY <1>1, <1>2, <3>1, <3>2, <3>3 DEF OnOK, Informed
    <3> QED BY <1>1, <1>4, <3>1, <3>4 DEF OnOK
  <2>4. Others(p, sgs', backups', lastfence', now')
      BY <1>2, <2>1, <2>2, <2>3, NoOffs DEF Others
  <2> QED BY <1>1, <1>2, <2>4, ExitsFree, PollsFree
<1> QED BY <1>1, <1>3, <1>4

LEMMA OptionFacts ==
    ASSUME IInv, LiveInv, NEW p \in Procs, proc[p].pc \in Optional
    PROVE  proc[p] \in Recs /\ Act(p) = "on" /\ interface_sg_present("on") /\ ~At(p, "idle")
BY ProcType DEF LiveInv, Place, Act, At, Optional

LEMMA OptionFree ==
    ASSUME IInv, LiveInv, NEW p \in Procs, proc[p].pc \in Optional, setup' = setup,
           Others(p, sgs', backups', lastfence', now'),
           NEW r, Goes(p, r), r.pc \in Optional, r.action = Act(p)
    PROVE  LiveInv'
<1>1. Place(r) /\ r.pc \notin Bound
    BY OptionFacts DEF Place, Early, Fencing, Restoring, Optional, Bound, Owning, Informed
<1> QED BY <1>1, FreeKeeps

LEMMA ReturnsFree ==
    ASSUME IInv, LiveInv, NEW p \in Procs, proc[p].pc \in Optional, setup' = setup,
           Others(p, sgs', backups', lastfence', now'), NEW ok, Returns(p, ok)
    PROVE  LiveInv'
BY OptionFacts, ExitsFree, PollsFree DEF Returns

LEMMA NextPutFree ==
    ASSUME IInv, LiveInv, NEW p \in Procs, proc[p].pc \in Optional, setup' = setup,
           Others(p, sgs', backups', lastfence', now'), NEW m, NextPut(p, m)
    PROVE  LiveInv'
<1>1. proc[p] \in Recs /\ {"put", "verify"} \subseteq Optional
    BY OptionFacts DEF Optional
<1>2. CASE Goes(p, [proc[p] EXCEPT !.pc = "put", !.at = @ + 1, !.tries = 0, !.modified = m])
  <2> DEFINE r == [proc[p] EXCEPT !.pc = "put", !.at = @ + 1, !.tries = 0, !.modified = m]
  <2>1. r.pc = "put" /\ r.action = Act(p)
      BY <1>1 DEF Recs, Act
  <2> HIDE DEF r
  <2> QED BY <1>1, <1>2, <2>1, OptionFree DEF r
<1>3. CASE Returns(p, FALSE)
    BY <1>3, ReturnsFree
<1>4. CASE Goes(p, [proc[p] EXCEPT !.pc = "verify", !.modified = m])
  <2> DEFINE r == [proc[p] EXCEPT !.pc = "verify", !.modified = m]
  <2>1. r.pc = "verify" /\ r.action = Act(p)
      BY <1>1 DEF Recs, Act
  <2> HIDE DEF r
  <2> QED BY <1>1, <1>4, <2>1, OptionFree DEF r
<1> QED BY <1>2, <1>3, <1>4 DEF NextPut

LEMMA RetryFree ==
    ASSUME IInv, LiveInv, NEW p \in Procs, proc[p].pc \in Optional, setup' = setup,
           Others(p, sgs', backups', lastfence', now'), Retry(p)
    PROVE  LiveInv'
<1>1. CASE Goes(p, [proc[p] EXCEPT !.pc = "put", !.tries = @ + 1])
  <2> DEFINE r == [proc[p] EXCEPT !.pc = "put", !.tries = @ + 1]
  <2>1. r.pc = "put" /\ r.action = Act(p) /\ "put" \in Optional
      BY OptionFacts DEF Recs, Act, Optional
  <2> HIDE DEF r
  <2> QED BY <1>1, <2>1, OptionFree DEF r
<1>2. CASE NextPut(p, proc[p].modified)
    BY <1>2, NextPutFree
<1> QED BY <1>1, <1>2 DEF Retry

LEMMA OptionsLive ==
    ASSUME IInv, LiveInv, NEW p \in Procs, options_details(p) \/ options_check(p) \/ options_verify(p)
    PROVE  LiveInv'
<1>1. UNCHANGED <<setup, sgs, backups, lastfence, now>> /\ proc[p].pc \in Optional
    BY DEF options_details, options_check, options_verify, At, Optional, cloudVars
<1>2. Others(p, sgs', backups', lastfence', now') /\ setup' = setup
    BY <1>1, SameOthers
<1>3. CASE Exits(p) \/ Retry(p)
    BY <1>1, <1>2, <1>3, ExitsFree, RetryFree
<1>4. CASE \E m : NextPut(p, m)
    BY <1>1, <1>2, <1>4, NextPutFree
<1>5. CASE \E ok : Returns(p, ok)
    BY <1>1, <1>2, <1>5, ReturnsFree
<1>6. CASE Goes(p, [proc[p] EXCEPT !.pc = "put", !.seen = sgs])
  <2> DEFINE r == [proc[p] EXCEPT !.pc = "put", !.seen = sgs]
  <2>1. r.pc = "put" /\ r.action = Act(p) /\ "put" \in Optional
      BY <1>1, OptionFacts DEF Recs, Act, Optional
  <2> HIDE DEF r
  <2> QED BY <1>1, <1>2, <1>6, <2>1, OptionFree DEF r
<1>7. CASE options_details(p)
    BY <1>3, <1>6, <1>7 DEF options_details
<1>8. CASE options_check(p)
    BY <1>3, <1>4, <1>8 DEF options_check
<1>9. CASE options_verify(p)
    BY <1>3, <1>5, <1>9 DEF options_verify
<1> QED BY <1>7, <1>8, <1>9

LEMMA OptionsPutLive ==
    ASSUME IInv, LiveInv, OptionsNameHome, NEW p \in Procs, options_put(p)
    PROVE  LiveInv'
<1> DEFINE n == Cur(p)
           g == Desired(Act(p), n)
<1>1. /\ proc[p].pc = "put" /\ proc[p].pc \in Optional /\ UNCHANGED <<setup, backups, lastfence, now>>
      /\ UNCHANGED sgs \/ (g # {} /\ sgs' \in {sgs, [sgs EXCEPT ![n] = g]})
    BY DEF options_put, At, Optional
<1>2. /\ proc[p] \in Recs /\ Act(p) = "on" /\ interface_sg_present("on") /\ ~At(p, "idle")
      /\ n \in Nics /\ setup \in Setups /\ sgs \in Maps
    BY <1>1, OptionFacts, ProcType DEF IInv, Types
<1>3. g # {} => g = Home[n]
    BY <1>2 DEF OptionsNameHome, Desired
<1>4. \A m \in Nics : sgs'[m] \in {sgs[m], Home[m]}
    BY <1>1, <1>2, <1>3 DEF Maps
<1>5. Others(p, sgs', backups', lastfence', now')
  <2>1. Safe(sgs', backups', now')
      BY <1>1, <1>4 DEF LiveInv, Safe
  <2>2. Stamped(sgs', backups', lastfence', now')
      BY <1>1, <1>2 DEF LiveInv, Stamped
  <2>3. ASSUME NEW q \in Procs \ {p} PROVE OnOK(proc[q], sgs', backups', lastfence')
    <3>1. proc[q].pc \notin Restoring
        BY <1>2 DEF LiveInv, Place
    <3> QED BY <3>1 DEF OnOK, Restoring, Informed
  <2> QED BY <1>2, <2>1, <2>2, <2>3, NoOffs DEF Others
<1>6. CASE Exits(p)
    BY <1>1, <1>5, <1>6, ExitsFree
<1>7. CASE NextPut(p, proc[p].modified) \/ Retry(p)
    BY <1>1, <1>5, <1>7, NextPutFree, RetryFree
<1>8. CASE GoesTo(p, "check")
  <2> DEFINE r == [proc[p] EXCEPT !.pc = "check"]
  <2>1. r.pc = "check" /\ r.action = Act(p) /\ "check" \in Optional
      BY <1>2, MovedFields DEF Act, Optional
  <2> HIDE DEF r
  <2> QED BY <1>1, <1>5, <1>8, <2>1, OptionFree DEF r, GoesTo
<1> QED BY <1>6, <1>7, <1>8 DEF options_put

LEMMA StartLive ==
    ASSUME IInv, LiveInv, NEW p \in Procs, NEW a \in {"on", "off"}, Start(p, a),
           {"on", "off"} \notin overlaps'
    PROVE  LiveInv'
<1> DEFINE r == [Idle EXCEPT !.pc = "status", !.action = a]
<1>1. /\ UNCHANGED <<setup, sgs, backups, lastfence, now>> /\ Goes(p, r)
      /\ overlaps' = overlaps \cup {{a, Act(q)} : q \in {s \in Procs : ~At(s, "idle")}}
    BY DEF Start, cloudVars
<1>2. r.pc = "status" /\ r.action = a /\ r.at = 1
    BY DEF Idle
<1> HIDE DEF r
<1>3. Others(p, sgs', backups', lastfence', now')
    BY <1>1, SameOthers
<1>4. /\ Place(r) /\ OffOK(r, sgs', backups', lastfence', now')
      /\ OnOK(r, sgs', backups', lastfence')
    BY <1>2 DEF Place, Fencing, Restoring, Optional, Informed, Owning, OffOK, OnOK
<1>5. ASSUME NEW q \in Procs \ {p}
      PROVE  Pair(r, proc[q]) /\ Pair(proc[q], r)
  <2>1. At(q, "idle") => proc[q].action = "none"
      BY DEF LiveInv, Place, At
  <2>2. ~At(q, "idle") => {a, Act(q)} # {"on", "off"}
      BY <1>1
  <2>3. ~(a = "on" /\ proc[q].action = "off") /\ ~(a = "off" /\ proc[q].action = "on")
      BY <2>1, <2>2 DEF Act
  <2>4. r.pc \notin Owning /\ r.pc \notin Informed
      BY <1>2 DEF Owning, Informed
  <2> QED BY <1>2, <2>3, <2>4 DEF Pair
<1> QED BY <1>1, <1>3, <1>4, <1>5, MoveKeeps

----------------------------------------------------------------------------

LEMMA InitHome == Init => HomeInv
<1> SUFFICES ASSUME Init PROVE LiveInv
    BY InitIInv DEF HomeInv
<1>1. \A p \in Procs : proc[p] = Idle
    BY DEF Init
<1>2. Idle.pc = "idle" /\ Idle.action = "none"
    BY DEF Idle
<1>3. /\ Place(Idle) /\ OffOK(Idle, sgs, backups, lastfence, now)
      /\ OnOK(Idle, sgs, backups, lastfence)
    BY <1>2 DEF Place, Early, Fencing, Restoring, Optional, Informed, Owning, OffOK, OnOK
<1>4. Pair(Idle, Idle)
    BY <1>2 DEF Pair, Informed, Owning
<1>5. Safe(sgs, backups, now)
    BY DEF Init, Safe
<1>6. Stamped(sgs, backups, lastfence, now)
    BY DEF Init, Stamped
<1> QED BY <1>1, <1>3, <1>4, <1>5, <1>6 DEF LiveInv

LEMMA NextHome ==
    ASSUME OptionsNameHome
    PROVE  HomeInv /\ [Next]_vars => HomeInv'
<1> SUFFICES ASSUME HomeInv, [Next]_vars, Live' PROVE LiveInv'
    BY NextIInv DEF HomeInv
<1>0. IInv
    BY DEF HomeInv
<1>1. CASE UNCHANGED vars
  <2>1. UNCHANGED <<setup, sgs, backups, lastfence, proc, now, overlaps, refused>>
      BY <1>1 DEF vars, cloudVars, history
  <2>2. Live /\ interface_sg_present("on")' = interface_sg_present("on")
      BY <2>1 DEF Live, UsesTags, interface_sg_present, Desired
  <2>3. LiveInv
      BY <2>2 DEF HomeInv
  <2>4. Safe(sgs, backups, now)'
      BY <2>1, <2>3 DEF LiveInv, Safe, Full
  <2>5. Stamped(sgs, backups, lastfence, now)'
      BY <2>1, <2>2, <2>3 DEF LiveInv, Stamped, Says
  <2>6. \A p \in Procs : Place(proc[p])'
      BY <2>1, <2>2, <2>3 DEF LiveInv, Place
  <2>7. \A p \in Procs : OffOK(proc[p], sgs, backups, lastfence, now)'
      BY <2>1, <2>3 DEF LiveInv, OffOK, Full
  <2>8. \A p \in Procs : OnOK(proc[p], sgs, backups, lastfence)'
    <3>1. \A p \in Procs : OnOK(proc'[p], sgs', backups', lastfence')
        BY <2>1, <2>3 DEF LiveInv
    <3> QED BY <3>1 DEF OnOK, Gone, Says
  <2>9. \A p, q \in Procs : p # q => Pair(proc[p], proc[q])'
      BY <2>1, <2>3 DEF LiveInv, Pair
  <2> QED BY <2>4, <2>5, <2>6, <2>7, <2>8, <2>9 DEF LiveInv
<1>2. ASSUME NEW p \in Procs, Status(p) \/ Set(p) \/ Kill(p) \/ \E a \in {"on", "off"} : Start(p, a)
      PROVE  LiveInv'
  <2>1. setup' = setup /\ overlaps \subseteq overlaps' /\ (refused => refused')
    <3>1. CASE Status(p)
        BY <3>1 DEF Status, status_by_interfaces, is_instance_fenced, is_instance_fenced_lastfence,
           is_instance_fenced_tags, StatusIs, history
    <3>2. CASE Set(p)
      <4>1. CASE restore_interface(p)
          BY <4>1 DEF restore_interface
      <4>2. CASE Set(p) /\ ~restore_interface(p)
        <5>1. setup' = setup /\ UNCHANGED history
            BY <4>2 DEF Set, self_check, set_power_status, set_power_status_match,
               modify_security_groups, create_backup_tag, set_lastfence_tag, modify_interface,
               shutdown_instance, restore_lastfence, restore_collect, restore_details, restore_delete,
               options_details, options_put, options_check, options_verify
        <5> QED BY <5>1 DEF history
      <4> QED BY <3>2, <4>1, <4>2
    <3>3. CASE Kill(p) \/ \E a \in {"on", "off"} : Start(p, a)
        BY <3>3 DEF Kill, Start, history
    <3> QED BY <1>2, <3>1, <3>2, <3>3
  <2>2. Live /\ ~refused' /\ {"on", "off"} \notin overlaps'
      BY <2>1 DEF Live, UsesTags, interface_sg_present, Desired
  <2>3. LiveInv
      BY <2>2 DEF HomeInv
  <2>4. CASE Status(p)
      BY <1>0, <2>3, <2>4, StatusFree
  <2>5. CASE Set(p)
      BY <1>0, <2>2, <2>3, <2>5, SetLive, ModifyLive, BackupLive, StampLive, UpdateLive, ShutdownLive,
         CollectLive, GiveLive, DeleteLive, OptionsPutLive, OptionsLive DEF Set
  <2>6. CASE Kill(p)
    <3>1. UNCHANGED <<setup, sgs, backups, lastfence, now>> /\ Exits(p)
        BY <2>6 DEF Kill, cloudVars
    <3>2. Others(p, sgs', backups', lastfence', now')
        BY <1>0, <2>3, <3>1, SameOthers
    <3> QED BY <1>0, <2>3, <3>1, <3>2, ExitsFree
  <2>7. CASE \E a \in {"on", "off"} : Start(p, a)
      BY <1>0, <2>2, <2>3, <2>7, StartLive
  <2> QED BY <1>2, <2>4, <2>5, <2>6, <2>7
<1> QED BY <1>1, <1>2 DEF Next

\* Where the options for an on, if there are any, name the groups that the
\* machine has in service: an interface that has lost its groups has a complete
\* backup of them among the tags, with any number of agents that overlap, fail
\* or are killed, until an on is refused an update or runs beside an off.
THEOREM HomeKeptCorrect ==
    ASSUME OptionsNameHome
    PROVE  Spec => []HomeKept
<1>1. HomeInv => HomeKept
  <2> SUFFICES ASSUME HomeInv, Live, NEW n \in Nics, sgs[n] # Home[n]
               PROVE  \E t \in 1 .. now : Home[n] = {b.s : b \in {x \in backups : x.t = t /\ x.nic = n}}
      BY DEF HomeKept, Live
  <2>1. PICK t \in 1 .. now : Full(backups, t, n, Home[n])
      BY DEF HomeInv, LiveInv, Safe
  <2>2. t \in Nat /\ IInv
      BY DEF HomeInv, IInv, Types
  <2> QED BY <2>1, <2>2, FullSays, HomeIsWhole
<1>2. Init => HomeInv
    BY InitHome
<1>3. HomeInv /\ [Next]_vars => HomeInv'
    BY NextHome
<1> QED BY <1>1, <1>2, <1>3, PTL DEF Spec
----------------------------------------------------------------------------
(* An off is reported when the machine is separated.                       *)

\* Tags are used, agents run one after the other, and nothing fails.
Calm == UsesTags /\ faults = 0 /\ overlaps = {} /\ ~LeavesOne /\ ~LeavesTags

AllFenced(g) == \A n \in Nics : Fenced(g[n])

\* Where the tag lastfence may not say that the machine is fenced.
Between == {"update", "give", "delete"}

\* A process on its own: what the status has left out, what the loops over the
\* interfaces have done so far.
OwnOK(r, g, lf) ==
    /\ r.pc \notin {"fenced", "tags", "match"} \cup Optional
    /\ r.pc = "lastfence" => lf = 0
    /\ r.pc \in {"backup", "stamp"} => \A n \in Nics : g[n] = r.seen[n]
    /\ r.pc \in Early \cup {"stamp"} => r.at = 1
    /\ r.pc \in Early \cup {"restore", "collect", "details"} => r.modified = {}
    /\ r.pc = "update" => \A n \in Nics : IF n < r.at THEN Fenced(g[n]) ELSE g[n] = r.seen[n]
    /\ r.pc \in {"collect", "details"} => lf # 0
    /\ r.pc = "give" /\ r.modified = {} => AllFenced(g)

CalmInv ==
    /\ \A p, q \in Procs : p # q => At(p, "idle") \/ At(q, "idle")
    /\ lastfence # 0 /\ (\A p \in Procs : proc[p].pc \notin Between) => AllFenced(sgs)
    /\ \A p \in Procs : OwnOK(proc[p], sgs, lastfence)
    /\ ~wrongOff

\* Without tags none are ever written.
NoTags == backups = {} /\ (\A p \in Procs : ~At(p, "backup")) /\ ~wrongOff

SeparateInv ==
    /\ IInv /\ faults \in Nat
    /\ ~UsesTags => NoTags
    /\ Calm => CalmInv

LEMMA SameSetup ==
    ASSUME setup' = setup
    PROVE  /\ UsesTags' = UsesTags /\ LeavesOne' = LeavesOne /\ LeavesTags' = LeavesTags
           /\ \A g : Fenced(g)' = Fenced(g)
<1>1. UsesTags' = UsesTags
    BY DEF UsesTags, interface_sg_present, Desired
<1> QED BY <1>1 DEF LeavesOne, LeavesTags, Fenced, interface_sg_present, Desired

\* The process that is at work takes a step, and the others are idle.
LEMMA CalmMove ==
    ASSUME IInv, CalmInv, NEW p \in Procs, ~At(p, "idle"), setup' = setup, NEW r, Goes(p, r),
           OwnOK(r, sgs', lastfence'), ~wrongOff',
           lastfence' # 0 /\ r.pc \notin Between => AllFenced(sgs')
    PROVE  CalmInv'
<1>1. proc'[p] = r /\ \A q \in Procs \ {p} : proc'[q] = proc[q]
    BY DEF Goes, IInv, Types
<1>2. \A q \in Procs \ {p} : proc'[q].pc = "idle"
    BY <1>1 DEF CalmInv, At
<1>3. \A g : Fenced(g)' = Fenced(g)
    BY SameSetup
<1>4. \A q, s \in Procs : q # s => At(q, "idle")' \/ At(s, "idle")'
    BY <1>2 DEF At
<1>5. lastfence' # 0 /\ (\A q \in Procs : proc'[q].pc \notin Between) => AllFenced(sgs)'
    BY <1>1, <1>3 DEF AllFenced
<1>6. \A q \in Procs : OwnOK(proc'[q], sgs', lastfence')
    BY <1>1, <1>2 DEF OwnOK, Optional, Early
<1>7. \A q \in Procs : OwnOK(proc[q], sgs, lastfence)'
    BY <1>3, <1>6 DEF OwnOK, AllFenced
<1> QED BY <1>4, <1>5, <1>7 DEF CalmInv

\* What is known of the process that is at work.
LEMMA CalmFacts ==
    ASSUME IInv, CalmInv, NEW p \in Procs, ~At(p, "idle")
    PROVE  /\ OwnOK(proc[p], sgs, lastfence) /\ proc[p] \in Recs /\ Act(p) \in {"on", "off"}
           /\ lastfence # 0 /\ proc[p].pc \notin Between => AllFenced(sgs)
<1>1. \A q \in Procs \ {p} : proc[q].pc = "idle"
    BY DEF CalmInv, At
<1>2. lastfence # 0 /\ proc[p].pc \notin Between => AllFenced(sgs)
    BY <1>1 DEF CalmInv, Between
<1> QED BY <1>2, ProcType DEF CalmInv

\* The process has nothing to keep.
LEMMA CalmFree ==
    ASSUME IInv, CalmInv, NEW p \in Procs, ~At(p, "idle"), setup' = setup, ~wrongOff',
           lastfence' # 0 => AllFenced(sgs'),
           NEW r, Goes(p, r), r.pc \in {"idle", "status", "set", "shutdown", "modify", "restore"},
           r.at = 1 \/ r.pc \in {"shutdown", "restore"}, r.modified = {} \/ r.pc = "shutdown"
    PROVE  CalmInv'
<1>1. OwnOK(r, sgs', lastfence')
    BY DEF OwnOK, Optional, Early
<1> QED BY <1>1, CalmMove

LEMMA CalmExits ==
    ASSUME IInv, CalmInv, NEW p \in Procs, ~At(p, "idle"), setup' = setup, ~wrongOff',
           lastfence' # 0 => AllFenced(sgs'), Exits(p) \/ Polls(p)
    PROVE  CalmInv'
<1>1. CASE Exits(p)
  <2>1. Idle.pc = "idle" /\ Idle.at = 1 /\ Idle.modified = {}
      BY DEF Idle
  <2> QED BY <1>1, <2>1, CalmFree DEF Exits
<1>2. CASE Polls(p)
  <2> DEFINE r == [Idle EXCEPT !.pc = "status", !.action = Act(p), !.polls = 1]
  <2>1. r.pc = "status" /\ r.at = 1 /\ r.modified = {}
      BY DEF Idle
  <2>2. Goes(p, r)
      BY <1>2 DEF Polls
  <2> HIDE DEF r
  <2> QED BY <2>1, <2>2, CalmFree
<1> QED BY <1>1, <1>2

LEMMA CalmStatusIs ==
    ASSUME IInv, CalmInv, NEW p \in Procs, proc[p].pc \in Early, UNCHANGED <<setup, sgs, lastfence>>,
           NEW s, StatusIs(p, s), s = "off" => Separated
    PROVE  CalmInv'
<1>0. ~At(p, "idle") /\ proc[p].pc \notin Between
    BY DEF At, Early, Between
<1>1. /\ ~wrongOff' /\ OwnOK(proc[p], sgs, lastfence) /\ proc[p] \in Recs
      /\ lastfence' # 0 => AllFenced(sgs')
  <2>1. ~wrongOff'
      BY DEF StatusIs, CalmInv
  <2> QED BY <1>0, <2>1, CalmFacts
<1>2. proc[p].at = 1 /\ proc[p].modified = {}
    BY <1>1 DEF OwnOK
<1>3. CASE Exits(p)
    BY <1>0, <1>1, <1>3, CalmExits
<1>4. CASE GoesTo(p, "set")
  <2> DEFINE r == [proc[p] EXCEPT !.pc = "set"]
  <2>1. r.pc = "set" /\ r.at = 1 /\ r.modified = {}
      BY <1>1, <1>2 DEF Recs
  <2>2. Goes(p, r)
      BY <1>4 DEF GoesTo
  <2> HIDE DEF r
  <2> QED BY <1>0, <1>1, <2>1, <2>2, CalmFree
<1>5. CASE Goes(p, [Idle EXCEPT !.pc = "status", !.action = Act(p), !.polls = proc[p].polls + 1])
  <2> DEFINE r == [Idle EXCEPT !.pc = "status", !.action = Act(p), !.polls = proc[p].polls + 1]
  <2>1. r.pc = "status" /\ r.at = 1 /\ r.modified = {}
      BY DEF Idle
  <2> HIDE DEF r
  <2> QED BY <1>0, <1>1, <1>5, <2>1, CalmFree DEF r
<1> QED BY <1>3, <1>4, <1>5 DEF StatusIs

\* Where the setup is calm.
LEMMA CalmSetup ==
    ASSUME Calm, Calm'
    PROVE  /\ ~Fault /\ setup.secg # {} /\ UsesTags
           /\ \A a \in {"on", "off"} : ~interface_sg_present(a)
           /\ Separated <=> AllFenced(sgs)
           /\ check_sg_modifications <=> AllFenced(sgs)
<1>1. ~Fault
    BY DEF Calm, Fault
<1>2. setup.secg # {} /\ ~interface_sg_present("off") /\ ~interface_sg_present("on")
    BY DEF Calm, UsesTags, LeavesTags
<1> QED BY <1>1, <1>2 DEF Calm, Separated, AllFenced, check_sg_modifications

LEMMA CalmStatus ==
    ASSUME IInv, Calm, Calm', CalmInv, NEW p \in Procs, Status(p)
    PROVE  CalmInv'
<1>1. UNCHANGED <<setup, sgs, lastfence>> /\ proc[p].pc \in {"status", "fenced", "lastfence", "tags"}
    BY DEF Status, status_by_interfaces, is_instance_fenced, is_instance_fenced_lastfence,
       is_instance_fenced_tags, At, cloudVars
<1>2. proc[p].pc \in Early /\ ~At(p, "idle") /\ proc[p].pc \notin Between
    BY <1>1 DEF Early, At, Between
<1>3. /\ OwnOK(proc[p], sgs, lastfence) /\ proc[p] \in Recs /\ Act(p) \in {"on", "off"}
      /\ lastfence # 0 => AllFenced(sgs)
    BY <1>2, CalmFacts
<1>4. ~At(p, "fenced") /\ ~At(p, "tags") /\ (At(p, "lastfence") => lastfence = 0)
    BY <1>3 DEF OwnOK, At
<1>5. ~ByInterfaces(p) /\ ~Fault
    BY <1>3, CalmSetup DEF ByInterfaces
<1>6. CASE is_instance_fenced(p)
  <2>1. CASE check_sg_modifications /\ StatusIs(p, "off")
      BY <1>1, <1>2, <2>1, CalmSetup, CalmStatusIs
  <2>2. CASE ~check_sg_modifications /\ GoesTo(p, "lastfence") /\ UNCHANGED history
    <3> DEFINE r == [proc[p] EXCEPT !.pc = "lastfence"]
    <3>1. lastfence = 0
        BY <1>3, <2>2, CalmSetup
    <3>2. proc[p].at = 1 /\ proc[p].modified = {}
        BY <1>2, <1>3 DEF OwnOK
    <3>3. r.pc = "lastfence" /\ r.at = 1 /\ r.modified = {}
        BY <1>3, <3>2 DEF Recs
    <3>4. Goes(p, r)
        BY <2>2 DEF GoesTo
    <3> HIDE DEF r
    <3>5. OwnOK(r, sgs', lastfence') /\ ~wrongOff'
        BY <1>1, <2>2, <3>1, <3>3 DEF OwnOK, Optional, history, CalmInv
    <3> QED BY <1>1, <1>2, <3>1, <3>4, <3>5, CalmMove
  <2> QED BY <1>5, <1>6, <2>1, <2>2 DEF is_instance_fenced
<1>7. CASE is_instance_fenced_lastfence(p)
  <2>1. StatusIs(p, "on")
      BY <1>4, <1>5, <1>7 DEF is_instance_fenced_lastfence
  <2> QED BY <1>1, <1>2, <2>1, CalmStatusIs
<1> QED BY <1>4, <1>5, <1>6, <1>7 DEF Status, status_by_interfaces, is_instance_fenced_tags

\* set_power_status and modify_security_groups.
LEMMA CalmOff ==
    ASSUME IInv, Calm, Calm', CalmInv, NEW p \in Procs,
           \/ self_check(p) \/ set_power_status(p) \/ modify_security_groups(p)
           \/ create_backup_tag(p) \/ set_lastfence_tag(p) \/ shutdown_instance(p)
    PROVE  CalmInv'
<1>1. setup' = setup /\ sgs' = sgs /\ ~wrongOff' /\ ~Fault /\ UsesTags
      /\ proc[p].pc \in {"set", "modify", "backup", "stamp", "shutdown"}
  <2>1. /\ setup' = setup /\ sgs' = sgs /\ wrongOff' = wrongOff
        /\ proc[p].pc \in {"set", "modify", "backup", "stamp", "shutdown"}
      BY DEF self_check, set_power_status, modify_security_groups, create_backup_tag,
         set_lastfence_tag, shutdown_instance, cloudVars, history, At
  <2> QED BY <2>1, CalmSetup DEF CalmInv
<1>2. ~At(p, "idle") /\ proc[p].pc \notin Between
    BY <1>1 DEF At, Between
<1>3. /\ OwnOK(proc[p], sgs, lastfence) /\ proc[p] \in Recs /\ Act(p) \in {"on", "off"}
      /\ lastfence # 0 => AllFenced(sgs)
    BY <1>2, CalmFacts
<1>4. CASE lastfence' = lastfence /\ (Exits(p) \/ Polls(p))
    BY <1>1, <1>2, <1>3, <1>4, CalmExits
<1>5. CASE self_check(p)
    BY <1>4, <1>5 DEF self_check, cloudVars
<1>6. CASE set_power_status(p)
  <2>1. CASE Branch(p) # "return" /\ Goes(p, [proc[p] EXCEPT !.pc = Branch(p), !.t = now + 1])
    <3> DEFINE r == [proc[p] EXCEPT !.pc = Branch(p), !.t = now + 1]
    <3>1. Branch(p) \in {"restore", "modify"}
        BY <2>1, CalmSetup DEF Branch
    <3>2. proc[p].pc \in Early
        BY <1>6 DEF set_power_status, At, Early
    <3>3. proc[p].at = 1 /\ proc[p].modified = {}
        BY <1>3, <3>2 DEF OwnOK
    <3>4. r.pc = Branch(p) /\ r.at = 1 /\ r.modified = {}
        BY <1>3, <3>3 DEF Recs
    <3>5. lastfence' = lastfence
        BY <1>6 DEF set_power_status, cloudVars
    <3> HIDE DEF r
    <3> QED BY <1>1, <1>2, <1>3, <2>1, <3>1, <3>4, <3>5, CalmFree DEF r
  <2> QED BY <1>1, <1>4, <1>6, <2>1 DEF set_power_status, cloudVars
<1>7. CASE modify_security_groups(p)
  <2> DEFINE r == [proc[p] EXCEPT !.pc = "backup", !.seen = sgs]
  <2>1. Goes(p, r) /\ lastfence' = lastfence
      BY <1>1, <1>7 DEF modify_security_groups, cloudVars
  <2>2. r.pc = "backup" /\ r.seen = sgs
      BY <1>3 DEF Recs
  <2> HIDE DEF r
  <2>3. OwnOK(r, sgs', lastfence')
      BY <1>1, <2>2 DEF OwnOK, Optional, Early
  <2> QED BY <1>1, <1>2, <1>3, <2>1, <2>3, CalmMove
<1>8. CASE create_backup_tag(p)
  <2>1. proc[p].pc = "backup" /\ \A n \in Nics : sgs[n] = proc[p].seen[n]
      BY <1>3, <1>8 DEF create_backup_tag, At, OwnOK
  <2>2. PICK r : /\ Goes(p, r) /\ r.pc \in {"backup", "stamp"} /\ r.seen = proc[p].seen
                 /\ r.pc = "stamp" => r.at = 1
    <3>1. CASE Goes(p, [proc[p] EXCEPT !.chunk = proc[p].chunk + 1])
      <4> DEFINE r == [proc[p] EXCEPT !.chunk = proc[p].chunk + 1]
      <4>1. r.pc = "backup" /\ r.seen = proc[p].seen
          BY <1>3, <2>1 DEF Recs
      <4> HIDE DEF r
      <4> QED BY <3>1, <4>1 DEF r
    <3>2. CASE Goes(p, [proc[p] EXCEPT !.at = proc[p].at + 1, !.chunk = 0])
      <4> DEFINE r == [proc[p] EXCEPT !.at = proc[p].at + 1, !.chunk = 0]
      <4>1. r.pc = "backup" /\ r.seen = proc[p].seen
          BY <1>3, <2>1 DEF Recs
      <4> HIDE DEF r
      <4> QED BY <3>2, <4>1 DEF r
    <3>3. CASE Goes(p, [proc[p] EXCEPT !.pc = "stamp", !.at = 1, !.chunk = 0])
      <4> DEFINE r == [proc[p] EXCEPT !.pc = "stamp", !.at = 1, !.chunk = 0]
      <4>1. r.pc = "stamp" /\ r.at = 1 /\ r.seen = proc[p].seen
          BY <1>3, <2>1 DEF Recs
      <4> HIDE DEF r
      <4> QED BY <3>3, <4>1 DEF r
    <3> QED BY <1>1, <1>8, <3>1, <3>2, <3>3 DEF create_backup_tag, TagFails
  <2>3. OwnOK(r, sgs', lastfence')
      BY <1>1, <2>1, <2>2 DEF OwnOK, Optional, Early
  <2>4. lastfence' = lastfence
      BY <1>8 DEF create_backup_tag
  <2> QED BY <1>1, <1>2, <1>3, <2>2, <2>3, <2>4, CalmMove
<1>9. CASE set_lastfence_tag(p)
  <2> DEFINE r == [proc[p] EXCEPT !.pc = "update"]
  <2>1. Goes(p, r) /\ At(p, "stamp")
      BY <1>1, <1>9 DEF set_lastfence_tag, TagFails, GoesTo
  <2>2. r.pc = "update" /\ r.seen = proc[p].seen /\ r.at = 1
      BY <1>3, <2>1 DEF Recs, OwnOK, At
  <2>3. \A n \in Nics : sgs[n] = proc[p].seen[n] /\ ~(n < 1)
      BY <1>3, <2>1 DEF OwnOK, At, Nics
  <2> HIDE DEF r
  <2>4. OwnOK(r, sgs', lastfence') /\ r.pc \in Between
      BY <1>1, <2>2, <2>3 DEF OwnOK, Optional, Early, Between
  <2> QED BY <1>1, <1>2, <2>1, <2>4, CalmMove
<1>10. CASE shutdown_instance(p)
    BY <1>1, <1>4, <1>10 DEF shutdown_instance
<1> QED BY <1>5, <1>6, <1>7, <1>8, <1>9, <1>10

\* An interface that an off has passed is separated.
LEMMA PassedIsFenced ==
    ASSUME IInv, Calm, NEW n \in Nics
    PROVE  /\ Untouched(sgs[n]) => Fenced(sgs[n])
           /\ \A g : Fenced(updated_sgs(g))
<1>1. setup.secg # {} /\ Desired("on", n) = {} /\ Desired("off", n) = {}
    BY DEF Calm, UsesTags, LeavesTags, interface_sg_present
<1>2. sgs[n] # {} /\ sgs[n] \in {Home[n], updated_sgs(Home[n]), updated_sgs({}), {}}
    BY <1>1 DEF IInv, Whole
<1>3. setup.keep \/ ~(Home[n] \subseteq setup.secg)
    BY DEF Calm, LeavesOne
<1>4. \A g : Fenced(updated_sgs(g))
    BY DEF Fenced, updated_sgs
<1>5. ASSUME Untouched(sgs[n]) PROVE Fenced(sgs[n])
  <2>1. CASE setup.keep
      BY <1>1, <1>5, <2>1 DEF Untouched, updated_sgs, Fenced
  <2>2. CASE ~setup.keep
    <3>1. updated_sgs(sgs[n]) # {}
        BY <1>2, <1>3, <2>2 DEF updated_sgs
    <3> QED BY <1>5, <2>2, <3>1 DEF Untouched, updated_sgs, Fenced
  <2> QED BY <2>1, <2>2
<1> QED BY <1>4, <1>5

LEMMA CalmUpdate ==
    ASSUME IInv, Calm, Calm', CalmInv, NEW p \in Procs, modify_interface(p)
    PROVE  CalmInv'
<1> DEFINE n == Cur(p)
<1>1. /\ setup' = setup /\ lastfence' = lastfence /\ ~wrongOff' /\ ~Fault
      /\ ~At(p, "idle") /\ At(p, "update")
    BY CalmSetup DEF modify_interface, history, CalmInv, At
<1>2. /\ OwnOK(proc[p], sgs, lastfence) /\ proc[p] \in Recs /\ n \in Nics /\ sgs \in Maps
    BY <1>1, CalmFacts, ProcType DEF IInv, Types
<1>3. \A m \in Nics : IF m < n THEN Fenced(sgs[m]) ELSE sgs[m] = proc[p].seen[m]
    BY <1>1, <1>2 DEF OwnOK, At, Cur
<1>4. sgs[n] = proc[p].seen[n]
    BY <1>2, <1>3 DEF Nics
<1>5. PICK M : NextUpdate(p, M) /\ sgs' \in Maps /\ Fenced(sgs'[n]) /\ \A m \in Nics \ {n} : sgs'[m] = sgs[m]
  <2>1. CASE Untouched(sgs[n]) /\ sgs' = sgs /\ NextUpdate(p, proc[p].modified)
      BY <1>2, <2>1, PassedIsFenced
  <2>2. CASE sgs' = [sgs EXCEPT ![n] = updated_sgs(sgs[n])] /\ NextUpdate(p, proc[p].modified \cup {n})
    <3>1. updated_sgs(sgs[n]) \in SUBSET Groups
        BY <1>2, SetupTypes DEF updated_sgs, Maps, IInv, Types
    <3>2. sgs' \in Maps /\ sgs'[n] = updated_sgs(sgs[n]) /\ \A m \in Nics \ {n} : sgs'[m] = sgs[m]
        BY <1>2, <2>2, <3>1 DEF Maps
    <3> QED BY <1>2, <2>2, <3>2, PassedIsFenced
  <2> QED BY <1>1, <1>4, <2>1, <2>2 DEF modify_interface
<1>6. \A m \in Nics : IF m < n + 1 THEN Fenced(sgs'[m]) ELSE sgs'[m] = proc[p].seen[m]
  <2> SUFFICES ASSUME NEW m \in Nics
               PROVE  IF m < n + 1 THEN Fenced(sgs'[m]) ELSE sgs'[m] = proc[p].seen[m]
      OBVIOUS
  <2>1. CASE m < n
      BY <1>2, <1>3, <1>5, <2>1 DEF Nics
  <2>2. CASE m = n
      BY <1>2, <1>5, <2>2 DEF Nics
  <2>3. CASE n < m
      BY <1>2, <1>3, <1>5, <2>3 DEF Nics
  <2> QED BY <1>2, <2>1, <2>2, <2>3 DEF Nics
<1>7. CASE n < NNics /\ Goes(p, [proc[p] EXCEPT !.at = proc[p].at + 1, !.modified = M])
  <2> DEFINE r == [proc[p] EXCEPT !.at = proc[p].at + 1, !.modified = M]
  <2>1. r.pc = "update" /\ r.seen = proc[p].seen /\ r.at = n + 1
      BY <1>1, <1>2 DEF Recs, At, Cur
  <2> HIDE DEF r
  <2>2. OwnOK(r, sgs', lastfence') /\ r.pc \in Between
      BY <1>6, <2>1 DEF OwnOK, Optional, Early, Between
  <2> QED BY <1>1, <1>7, <2>2, CalmMove DEF r
<1>8. CASE ~(n < NNics)
  <2>1. AllFenced(sgs')
    <3>1. \A m \in Nics : m < n + 1
        BY <1>2, <1>8, AwsVpcNetAssumption DEF Nics
    <3> QED BY <1>6, <3>1 DEF AllFenced
  <2>2. CASE Exits(p) \/ Polls(p)
      BY <1>1, <2>1, <2>2, CalmExits
  <2>3. CASE GoesTo(p, "shutdown")
    <3> DEFINE r == [proc[p] EXCEPT !.pc = "shutdown"]
    <3>1. r.pc = "shutdown" /\ Goes(p, r)
        BY <1>2, <2>3 DEF Recs, GoesTo
    <3> HIDE DEF r
    <3> QED BY <1>1, <2>1, <3>1, CalmFree
  <2> QED BY <1>5, <1>8, <2>2, <2>3 DEF NextUpdate
<1> QED BY <1>5, <1>7, <1>8 DEF NextUpdate

\* restore_security_groups.
LEMMA CalmOn ==
    ASSUME IInv, Calm, Calm', CalmInv, NEW p \in Procs,
           restore_lastfence(p) \/ restore_collect(p) \/ restore_details(p)
    PROVE  CalmInv'
<1>1. /\ setup' = setup /\ sgs' = sgs /\ lastfence' = lastfence /\ ~wrongOff' /\ ~Fault
      /\ proc[p].pc \in {"restore", "collect", "details"}
    BY CalmSetup DEF restore_lastfence, restore_collect, restore_details, cloudVars, history, CalmInv, At
<1>2. ~At(p, "idle") /\ proc[p].pc \notin Between
    BY <1>1 DEF At, Between
<1>3. /\ OwnOK(proc[p], sgs, lastfence) /\ proc[p] \in Recs /\ proc[p].modified = {}
      /\ lastfence # 0 => AllFenced(sgs)
    BY <1>1, <1>2, CalmFacts DEF OwnOK
<1>4. CASE Exits(p)
    BY <1>1, <1>2, <1>3, <1>4, CalmExits
<1>5. ASSUME NEW r, Goes(p, r), r.pc \in {"collect", "details", "give"}, r.modified = {}, lastfence # 0
      PROVE  CalmInv'
  <2>1. OwnOK(r, sgs', lastfence')
      BY <1>1, <1>3, <1>5 DEF OwnOK, Optional, Early
  <2> QED BY <1>1, <1>2, <1>3, <1>5, <2>1, CalmMove
<1>6. CASE restore_lastfence(p)
  <2> DEFINE r == [proc[p] EXCEPT !.pc = "collect", !.t = lastfence]
  <2>1. r.pc = "collect" /\ r.modified = {}
      BY <1>3 DEF Recs
  <2>2. Exits(p) \/ (lastfence # 0 /\ Goes(p, r))
      BY <1>1, <1>6 DEF restore_lastfence
  <2> HIDE DEF r
  <2> QED BY <1>4, <1>5, <2>1, <2>2
<1>7. CASE restore_collect(p)
  <2> DEFINE bk == [n \in Nics |-> matching_backups(proc[p].t, n)]
             r == [proc[p] EXCEPT !.pc = "details", !.bk = bk]
  <2>1. r.pc = "details" /\ r.modified = {}
      BY <1>3 DEF Recs
  <2>2. Exits(p) \/ Goes(p, r)
      BY <1>1, <1>7 DEF restore_collect
  <2>3. lastfence # 0
      BY <1>3, <1>7 DEF restore_collect, At, OwnOK
  <2> HIDE DEF r
  <2> QED BY <1>4, <1>5, <2>1, <2>2, <2>3
<1>8. CASE restore_details(p)
  <2> DEFINE r == [proc[p] EXCEPT !.pc = "give", !.seen = sgs]
  <2>1. r.pc = "give" /\ r.modified = {}
      BY <1>3 DEF Recs
  <2>2. Exits(p) \/ Goes(p, r)
      BY <1>1, <1>8 DEF restore_details
  <2>3. lastfence # 0
      BY <1>3, <1>8 DEF restore_details, At, OwnOK
  <2> HIDE DEF r
  <2> QED BY <1>4, <1>5, <2>1, <2>2, <2>3
<1> QED BY <1>6, <1>7, <1>8

LEMMA CalmGive ==
    ASSUME IInv, Calm, Calm', CalmInv, NEW p \in Procs, restore_interface(p) \/ restore_delete(p)
    PROVE  CalmInv'
<1>1. /\ setup' = setup /\ ~wrongOff' /\ ~Fault /\ ~At(p, "idle")
    BY CalmSetup DEF restore_interface, restore_delete, history, CalmInv, At
<1>2. /\ OwnOK(proc[p], sgs, lastfence) /\ proc[p] \in Recs
    BY <1>1, CalmFacts
<1>3. CASE restore_interface(p)
  <2>1. At(p, "give") /\ lastfence' = lastfence
      BY <1>3 DEF restore_interface
  <2>2. PICK M : NextRestore(p, M) /\ (M = {} => AllFenced(sgs'))
    <3>1. CASE sgs' = sgs /\ NextRestore(p, proc[p].modified)
        BY <1>2, <2>1, <3>1 DEF OwnOK, At
    <3>2. CASE NextRestore(p, proc[p].modified \cup {Cur(p)})
        BY <3>2
    <3> QED BY <1>1, <1>3, <3>1, <3>2 DEF restore_interface
  <2>3. CASE Goes(p, [proc[p] EXCEPT !.at = proc[p].at + 1, !.modified = M])
    <3> DEFINE r == [proc[p] EXCEPT !.at = proc[p].at + 1, !.modified = M]
    <3>1. r.pc = "give" /\ r.modified = M
        BY <1>2, <2>1 DEF Recs, At
    <3> HIDE DEF r
    <3>2. OwnOK(r, sgs', lastfence') /\ r.pc \in Between
        BY <2>2, <3>1 DEF OwnOK, Optional, Early, Between
    <3> QED BY <1>1, <2>3, <3>2, CalmMove DEF r
  <2>4. CASE M = {} /\ Exits(p)
      BY <1>1, <2>2, <2>4, CalmExits
  <2>5. CASE GoesTo(p, "delete")
    <3> DEFINE r == [proc[p] EXCEPT !.pc = "delete"]
    <3>1. r.pc = "delete" /\ Goes(p, r)
        BY <1>2, <2>5 DEF Recs, GoesTo
    <3> HIDE DEF r
    <3>2. OwnOK(r, sgs', lastfence') /\ r.pc \in Between
        BY <3>1 DEF OwnOK, Optional, Early, Between
    <3> QED BY <1>1, <3>1, <3>2, CalmMove
  <2> QED BY <2>2, <2>3, <2>4, <2>5 DEF NextRestore
<1>4. CASE restore_delete(p)
  <2>1. lastfence' = 0 /\ Polls(p)
      BY <1>1, <1>4 DEF restore_delete
  <2> QED BY <1>1, <2>1, CalmExits
<1> QED BY <1>3, <1>4

LEMMA CalmStart ==
    ASSUME IInv, Calm, Calm', CalmInv, NEW p \in Procs, NEW a \in {"on", "off"}, Start(p, a)
    PROVE  CalmInv'
<1> DEFINE r == [Idle EXCEPT !.pc = "status", !.action = a]
<1>1. UNCHANGED <<setup, sgs, lastfence, wrongOff>> /\ Goes(p, r)
    BY DEF Start, cloudVars
<1>2. r.pc = "status" /\ r.at = 1 /\ r.modified = {}
    BY DEF Idle
<1> HIDE DEF r
<1>3. proc'[p] = r /\ \A q \in Procs \ {p} : proc'[q] = proc[q]
    BY <1>1 DEF Goes, IInv, Types
<1>4. \A q \in Procs : At(q, "idle")
  <2>1. \A q \in Procs : ~At(q, "idle") => {a, Act(q)} \in overlaps'
      BY DEF Start
  <2> QED BY <2>1 DEF Calm
<1>5. \A q, s \in Procs : q # s => At(q, "idle")' \/ At(s, "idle")'
    BY <1>3, <1>4 DEF At
<1>6. \A g : Fenced(g)' = Fenced(g)
    BY <1>1, SameSetup
<1>7. lastfence # 0 => AllFenced(sgs)
    BY <1>4 DEF CalmInv, Between, At
<1>8. \A q \in Procs : OwnOK(proc'[q], sgs', lastfence')
    BY <1>2, <1>3, <1>4 DEF OwnOK, Optional, Early, At
<1>9. \A q \in Procs : OwnOK(proc[q], sgs, lastfence)'
    BY <1>6, <1>8 DEF OwnOK, AllFenced
<1>10. AllFenced(sgs)' <=> AllFenced(sgs)
    BY <1>1, <1>6 DEF AllFenced
<1> QED BY <1>1, <1>5, <1>7, <1>9, <1>10 DEF CalmInv

----------------------------------------------------------------------------

\* What set_power_status leads to: no step of the status, and a backup only
\* where tags are used.
LEMMA SetGoes ==
    ASSUME NEW p \in Procs, proc[p] \in Recs, Set(p)
    PROVE  \E r : /\ Goes(p, r) /\ r.pc \notin {"fenced", "lastfence", "tags"}
                  /\ r.pc = "backup" => UsesTags \/ At(p, "backup")
<1> DEFINE Fine == (Pcs \ {"fenced", "lastfence", "tags", "backup"}) \cup
                   (IF UsesTags \/ At(p, "backup") THEN {"backup"} ELSE {})
           Passes == \E r : Goes(p, r) /\ r.pc \in Fine
<1> SUFFICES Passes
  <2>1. \A l \in Fine : l \notin {"fenced", "lastfence", "tags"} /\ (l = "backup" => UsesTags \/ At(p, "backup"))
      OBVIOUS
  <2> HIDE DEF Fine
  <2> QED BY <2>1
<1>1. ASSUME NEW r, NEW l \in Fine, r.pc = l, Goes(p, r) PROVE Passes
    BY <1>1
<1> HIDE DEF Passes
<1>2. Exits(p) \/ Polls(p) => Passes
  <2>1. [Idle EXCEPT !.pc = "status", !.action = Act(p), !.polls = 1].pc = "status" /\ Idle.pc = "idle"
      BY DEF Idle
  <2>2. "status" \in Fine /\ "idle" \in Fine
      BY DEF Pcs, Early
  <2> HIDE DEF Fine
  <2> QED BY <1>1, <2>1, <2>2 DEF Exits, Polls
<1>3. /\ {"put", "verify", "check", "update", "stamp", "shutdown", "collect", "details", "give", "delete",
          "options"} \subseteq Fine
      /\ UsesTags \/ At(p, "backup") => "backup" \in Fine
      /\ Branch(p) # "return" => Branch(p) \in Fine
    BY DEF Branch, Pcs, Early, Holding
<1> HIDE DEF Fine
<1>4. ASSUME NEW l \in Fine, GoesTo(p, l) PROVE Passes
  <2>1. [proc[p] EXCEPT !.pc = l].pc = l
      BY MovedFields
  <2> QED BY <1>1, <1>4, <2>1 DEF GoesTo
<1>5. ASSUME NEW l \in Fine, NEW t, Goes(p, [proc[p] EXCEPT !.pc = l, !.t = t]) PROVE Passes
  <2>1. PICK r : r = [proc[p] EXCEPT !.pc = l, !.t = t]
      OBVIOUS
  <2>2. r.pc = l
      BY <2>1 DEF Recs
  <2> QED BY <1>1, <1>5, <2>1, <2>2
<1>6. ASSUME NEW l \in Fine, NEW g, Goes(p, [proc[p] EXCEPT !.pc = l, !.seen = g]) PROVE Passes
  <2>1. PICK r : r = [proc[p] EXCEPT !.pc = l, !.seen = g]
      OBVIOUS
  <2>2. r.pc = l
      BY <2>1 DEF Recs
  <2> QED BY <1>1, <1>6, <2>1, <2>2
<1>7. ASSUME NEW l \in Fine, NEW k, NEW c, Goes(p, [proc[p] EXCEPT !.pc = l, !.at = k, !.chunk = c])
      PROVE  Passes
  <2>1. PICK r : r = [proc[p] EXCEPT !.pc = l, !.at = k, !.chunk = c]
      OBVIOUS
  <2>2. r.pc = l
      BY <2>1 DEF Recs
  <2> QED BY <1>1, <1>7, <2>1, <2>2
<1>8. ASSUME NEW k, NEW m, Goes(p, [proc[p] EXCEPT !.at = k, !.modified = m]), proc[p].pc \in Fine
      PROVE  Passes
  <2>1. PICK r : r = [proc[p] EXCEPT !.at = k, !.modified = m]
      OBVIOUS
  <2>2. r.pc = proc[p].pc
      BY <2>1 DEF Recs
  <2> QED BY <1>1, <1>8, <2>1, <2>2
<1>9. CASE self_check(p) \/ set_power_status(p) \/ set_power_status_match(p)
    BY <1>2, <1>3, <1>4, <1>5, <1>9 DEF self_check, set_power_status, set_power_status_match
<1>10. TagFails(p) => Passes
  <2>1. [proc[p] EXCEPT !.pc = "update", !.at = 1].pc = "update"
      BY DEF Recs
  <2> QED BY <1>1, <1>2, <1>3, <2>1 DEF TagFails
<1>11. CASE modify_security_groups(p) \/ set_lastfence_tag(p) \/ shutdown_instance(p)
    BY <1>2, <1>3, <1>4, <1>6, <1>10, <1>11 DEF modify_security_groups, set_lastfence_tag,
       shutdown_instance, ConnectionError
<1>12. CASE create_backup_tag(p)
  <2>1. proc[p].pc = "backup" /\ "backup" \in Fine
      BY <1>3, <1>12 DEF create_backup_tag, At
  <2>2. /\ [proc[p] EXCEPT !.chunk = proc[p].chunk + 1].pc = "backup"
        /\ [proc[p] EXCEPT !.at = proc[p].at + 1, !.chunk = 0].pc = "backup"
      BY <2>1 DEF Recs
  <2> QED BY <1>1, <1>3, <1>7, <1>10, <1>12, <2>1, <2>2 DEF create_backup_tag
<1>13. CASE modify_interface(p)
  <2>1. proc[p].pc \in Fine
      BY <1>3, <1>13 DEF modify_interface, At
  <2> QED BY <1>2, <1>3, <1>4, <1>8, <1>13, <2>1 DEF modify_interface, NextUpdate, ConnectionError
<1>14. CASE restore_lastfence(p) \/ restore_collect(p) \/ restore_details(p)
  <2>1. ASSUME NEW g, Goes(p, [proc[p] EXCEPT !.pc = "details", !.bk = g]) PROVE Passes
    <3>1. PICK r : r = [proc[p] EXCEPT !.pc = "details", !.bk = g]
        OBVIOUS
    <3>2. r.pc = "details"
        BY <3>1 DEF Recs
    <3> QED BY <1>1, <1>3, <2>1, <3>1, <3>2
  <2> QED BY <1>2, <1>3, <1>5, <1>6, <1>14, <2>1 DEF restore_lastfence, restore_collect, restore_details
<1>15. CASE restore_interface(p) \/ restore_delete(p)
  <2>1. restore_interface(p) => proc[p].pc \in Fine
      BY <1>3 DEF restore_interface, At
  <2> QED BY <1>2, <1>3, <1>4, <1>8, <1>15, <2>1 DEF restore_interface, restore_delete, NextRestore
<1>16. CASE options_details(p) \/ options_put(p) \/ options_check(p) \/ options_verify(p)
  <2>1. \A ok : Returns(p, ok) => Passes
      BY <1>2 DEF Returns
  <2>2. ASSUME NEW m, NextPut(p, m) PROVE Passes
    <3>1. PICK r : r = [proc[p] EXCEPT !.pc = "put", !.at = proc[p].at + 1, !.tries = 0, !.modified = m]
        OBVIOUS
    <3>2. PICK s : s = [proc[p] EXCEPT !.pc = "verify", !.modified = m]
        OBVIOUS
    <3>3. r.pc = "put" /\ s.pc = "verify"
        BY <3>1, <3>2 DEF Recs
    <3>4. Goes(p, r) \/ Goes(p, s) \/ Returns(p, FALSE)
        BY <2>2, <3>1, <3>2 DEF NextPut
    <3> QED BY <1>1, <1>3, <2>1, <3>3, <3>4
  <2>3. Retry(p) => Passes
    <3>1. [proc[p] EXCEPT !.pc = "put", !.tries = proc[p].tries + 1].pc = "put"
        BY DEF Recs
    <3> QED BY <1>1, <1>3, <2>2, <3>1 DEF Retry
  <2> QED BY <1>2, <1>3, <1>4, <1>6, <1>16, <2>1, <2>2, <2>3 DEF options_details, options_put,
          options_check, options_verify
<1> QED BY <1>9, <1>11, <1>12, <1>13, <1>14, <1>15, <1>16 DEF Set

\* Nobody writes a tag where none are used, and without tags the status looks
\* at the groups themselves.
LEMMA NoTagsStep ==
    ASSUME IInv, ~UsesTags, NoTags, NEW p \in Procs,
           Status(p) \/ Set(p) \/ Kill(p) \/ \E a \in {"on", "off"} : Start(p, a)
    PROVE  NoTags'
<1>1. proc[p] \in Recs /\ ~At(p, "backup") /\ backups = {} /\ ~wrongOff
    BY ProcType DEF NoTags
<1> DEFINE Passes == \E r : Goes(p, r) /\ r.pc # "backup"
<1>a. ASSUME NEW r, Goes(p, r), r.pc # "backup" PROVE Passes
    BY <1>a
<1> HIDE DEF Passes
<1>2. ASSUME NEW s, StatusIs(p, s) PROVE Passes
  <2>1. [Idle EXCEPT !.pc = "status", !.action = Act(p), !.polls = proc[p].polls + 1].pc = "status"
      BY DEF Idle
  <2>2. Idle.pc = "idle" /\ [proc[p] EXCEPT !.pc = "set"].pc = "set"
      BY <1>1 DEF Idle, Recs
  <2> QED BY <1>2, <1>a, <2>1, <2>2 DEF StatusIs, Exits, GoesTo
<1>3. Exits(p) \/ Polls(p) => Passes
  <2>1. [Idle EXCEPT !.pc = "status", !.action = Act(p), !.polls = 1].pc = "status" /\ Idle.pc = "idle"
      BY DEF Idle
  <2> QED BY <1>a, <2>1 DEF Exits, Polls
<1>4. ASSUME NEW l, l # "backup", GoesTo(p, l) PROVE Passes
  <2>1. [proc[p] EXCEPT !.pc = l].pc = l
      BY <1>1, MovedFields
  <2> QED BY <1>a, <1>4, <2>1 DEF GoesTo
<1>5. CASE Status(p)
  <2>1. Passes
    <3>1. [proc[p] EXCEPT !.pc = "tags", !.t = lastfence].pc = "tags"
        BY <1>1 DEF Recs
    <3> QED BY <1>a, <1>2, <1>4, <1>5, <3>1 DEF Status, status_by_interfaces, is_instance_fenced,
               is_instance_fenced_lastfence, is_instance_fenced_tags
  <2>2. backups' = backups
      BY <1>5 DEF Status, status_by_interfaces, is_instance_fenced, is_instance_fenced_lastfence,
         is_instance_fenced_tags, cloudVars
  <2>3. ~wrongOff'
    <3>1. check_sg_modifications => Separated
        BY DEF check_sg_modifications, Separated
    <3>2. check_interface_sg_match("off") => Separated
        BY DEF check_interface_sg_match, Separated
    <3>3. \A s : StatusIs(p, s) /\ (s = "off" /\ Act(p) = "off" => Separated) => ~wrongOff'
        BY <1>1 DEF StatusIs
    <3>4. UNCHANGED history => ~wrongOff'
        BY <1>1 DEF history
    <3>5. CASE status_by_interfaces(p)
      <4>1. /\ Act(p) = "off"
            /\ (IF check_interface_sg_match(Act(p)) = (Act(p) = "on") THEN "on" ELSE "off") = "off"
            => check_interface_sg_match("off")
          BY DEF check_interface_sg_match, interface_sg_present
      <4> QED BY <3>2, <3>3, <3>4, <3>5, <4>1 DEF status_by_interfaces
    <3>6. CASE is_instance_fenced(p)
        BY <3>1, <3>3, <3>4, <3>6 DEF is_instance_fenced
    <3>7. CASE is_instance_fenced_lastfence(p)
        BY <3>3, <3>4, <3>7 DEF is_instance_fenced_lastfence
    <3>8. CASE is_instance_fenced_tags(p)
        BY <1>1, <3>3, <3>8 DEF is_instance_fenced_tags
    <3> QED BY <1>5, <3>5, <3>6, <3>7, <3>8 DEF Status
  <2>4. \A q \in Procs : ~At(q, "backup")'
      BY <2>1 DEF Passes, NoTags, Goes, At, IInv, Types
  <2> QED BY <1>1, <2>2, <2>3, <2>4 DEF NoTags
<1>6. ASSUME wrongOff' = wrongOff, backups' \subseteq backups, NEW r, Goes(p, r), r.pc # "backup"
      PROVE  NoTags'
  <2>1. \A q \in Procs : ~At(q, "backup")'
      BY <1>6 DEF NoTags, Goes, At, IInv, Types
  <2> QED BY <1>1, <1>6, <2>1 DEF NoTags
<1>7. CASE Kill(p)
    BY <1>3, <1>6, <1>7 DEF Passes, Kill, cloudVars, history
<1>8. CASE \E a \in {"on", "off"} : Start(p, a)
  <2>1. PICK a \in {"on", "off"} : Start(p, a)
      BY <1>8
  <2>2. [Idle EXCEPT !.pc = "status", !.action = a].pc = "status"
      BY DEF Idle
  <2> QED BY <1>6, <2>1, <2>2 DEF Start, cloudVars
<1>9. CASE Set(p)
  <2>1. wrongOff' = wrongOff
      BY <1>9 DEF Set, self_check, set_power_status, set_power_status_match, modify_security_groups,
         create_backup_tag, set_lastfence_tag, modify_interface, shutdown_instance, restore_lastfence,
         restore_collect, restore_details, restore_interface, restore_delete, options_details,
         options_put, options_check, options_verify, history
  <2>2. backups' \subseteq backups
    <3>1. CASE restore_delete(p)
        BY <3>1 DEF restore_delete, Kept
    <3> QED BY <1>1, <1>9, <3>1 DEF Set, self_check, set_power_status, set_power_status_match,
         modify_security_groups, create_backup_tag, set_lastfence_tag, modify_interface,
         shutdown_instance, restore_lastfence, restore_collect, restore_details, restore_interface,
         options_details, options_put, options_check, options_verify, cloudVars
  <2>3. Passes
      BY <1>1, <1>9, SetGoes DEF Passes
  <2> QED BY <1>6, <2>1, <2>2, <2>3 DEF Passes
<1> QED BY <1>5, <1>7, <1>8, <1>9

LEMMA InitSeparate == Init => SeparateInv
<1> SUFFICES ASSUME Init PROVE faults \in Nat /\ NoTags /\ CalmInv
    BY InitIInv DEF SeparateInv
<1>1. \A p \in Procs : proc[p] = Idle
    BY DEF Init
<1>2. Idle.pc = "idle"
    BY DEF Idle
<1>3. OwnOK(Idle, sgs, lastfence)
    BY <1>2 DEF OwnOK, Optional, Early
<1> QED BY <1>1, <1>2, <1>3 DEF Init, NoTags, CalmInv, At

\* The counters and the history only grow.
LEMMA Grow ==
    ASSUME IInv, faults \in Nat, NEW p \in Procs,
           Status(p) \/ Set(p) \/ Kill(p) \/ \E a \in {"on", "off"} : Start(p, a)
    PROVE  setup' = setup /\ faults' \in {faults, faults + 1} /\ overlaps \subseteq overlaps'
<1>1. CASE Status(p)
    BY <1>1 DEF Status, status_by_interfaces, is_instance_fenced, is_instance_fenced_lastfence,
       is_instance_fenced_tags, StatusIs, history, Fault, NoFault
<1>2. CASE Set(p)
  <2>1. setup' = setup /\ overlaps' = overlaps
      BY <1>2 DEF Set, self_check, set_power_status, set_power_status_match, modify_security_groups,
         create_backup_tag, set_lastfence_tag, modify_interface, shutdown_instance, restore_lastfence,
         restore_collect, restore_details, restore_interface, restore_delete, options_details,
         options_put, options_check, options_verify, history
  <2>2. faults' = faults \/ faults' = faults + 1
    <3>1. NoFault \/ Fault \/ faults' = faults
        BY <1>2 DEF Set, self_check, set_power_status, set_power_status_match, modify_security_groups,
           create_backup_tag, set_lastfence_tag, modify_interface, shutdown_instance, restore_lastfence,
           restore_collect, restore_details, restore_interface, restore_delete, options_details,
           options_put, options_check, options_verify, TagFails
    <3> QED BY <3>1 DEF Fault, NoFault
  <2> QED BY <2>1, <2>2
<1>3. CASE Kill(p) \/ \E a \in {"on", "off"} : Start(p, a)
    BY <1>3 DEF Kill, Start, Fault, history
<1> QED BY <1>1, <1>2, <1>3

LEMMA NextSeparate == SeparateInv /\ [Next]_vars => SeparateInv'
<1> SUFFICES ASSUME SeparateInv, [Next]_vars PROVE SeparateInv'
    OBVIOUS
<1>0. IInv /\ IInv' /\ faults \in Nat
    BY NextIInv DEF SeparateInv
<1>1. CASE UNCHANGED vars
  <2>1. UNCHANGED <<setup, sgs, backups, lastfence, proc, faults, overlaps, wrongOff>>
      BY <1>1 DEF vars, cloudVars, history
  <2>2. UsesTags' = UsesTags /\ Calm' = Calm /\ \A g : Fenced(g)' = Fenced(g)
      BY <2>1, SameSetup DEF Calm
  <2>3. NoTags' = NoTags
      BY <2>1 DEF NoTags, At
  <2>4. CalmInv => CalmInv'
    <3> SUFFICES ASSUME CalmInv PROVE CalmInv'
        OBVIOUS
    <3>1. \A q \in Procs : OwnOK(proc'[q], sgs', lastfence')
        BY <2>1 DEF CalmInv
    <3>2. \A q \in Procs : OwnOK(proc[q], sgs, lastfence)'
        BY <2>2, <3>1 DEF OwnOK, AllFenced
    <3>3. AllFenced(sgs)' <=> AllFenced(sgs)
        BY <2>1, <2>2 DEF AllFenced
    <3> QED BY <2>1, <3>2, <3>3 DEF CalmInv, At
  <2> QED BY <1>0, <2>1, <2>2, <2>3, <2>4 DEF SeparateInv
<1>2. ASSUME NEW p \in Procs, Status(p) \/ Set(p) \/ Kill(p) \/ \E a \in {"on", "off"} : Start(p, a)
      PROVE  SeparateInv'
  <2>1. setup' = setup /\ faults' \in {faults, faults + 1} /\ overlaps \subseteq overlaps'
      BY <1>0, <1>2, Grow
  <2>2. faults' \in Nat /\ (UsesTags' <=> UsesTags)
      BY <1>0, <2>1, SameSetup
  <2>3. ~UsesTags => NoTags'
      BY <1>0, <1>2, NoTagsStep DEF SeparateInv
  <2>4. ASSUME Calm' PROVE CalmInv'
    <3>1. Calm
      <4>1. faults = 0
          BY <1>0, <2>1, <2>4 DEF Calm
      <4>2. overlaps = {}
          BY <2>1, <2>4 DEF Calm
      <4>3. UsesTags /\ ~LeavesOne /\ ~LeavesTags
        <5>1. UsesTags' /\ ~LeavesOne' /\ ~LeavesTags'
            BY <2>4 DEF Calm
        <5>2. UsesTags' = UsesTags /\ LeavesOne' = LeavesOne /\ LeavesTags' = LeavesTags
            BY <2>1, SameSetup
        <5> QED BY <5>1, <5>2, Zenon
      <4> QED BY <4>1, <4>2, <4>3 DEF Calm
    <3>2. CalmInv
        BY <3>1 DEF SeparateInv
    <3>3. CASE Status(p)
        BY <1>0, <2>4, <3>1, <3>2, <3>3, CalmStatus
    <3>4. CASE Set(p)
      <4>1. ~At(p, "match") /\ ~At(p, "options") /\ ~At(p, "put") /\ ~At(p, "check") /\ ~At(p, "verify")
          BY <3>2 DEF CalmInv, OwnOK, At, Optional
      <4> QED BY <1>0, <2>4, <3>1, <3>2, <3>4, <4>1, CalmOff, CalmUpdate, CalmOn, CalmGive
              DEF Set, set_power_status_match, options_details, options_put, options_check, options_verify
    <3>5. CASE Kill(p)
        BY <2>4, <3>1, <3>5, CalmSetup DEF Kill
    <3>6. CASE \E a \in {"on", "off"} : Start(p, a)
        BY <1>0, <2>4, <3>1, <3>2, <3>6, CalmStart
    <3> QED BY <1>2, <3>3, <3>4, <3>5, <3>6
  <2> QED BY <1>0, <2>2, <2>3, <2>4 DEF SeparateInv
<1> QED BY <1>1, <1>2 DEF Next

\* Code 0 for an off of fence_aws_vpc_net means that every interface is
\* separated, with any interfaces, groups and options: always where the options
\* of the interfaces are used, and where tags are used for agents that run one
\* after the other without a failing call, if no interface has to be left alone
\* and an on deletes the tags.
THEOREM OffIsSeparatedCorrect == Spec => []OffIsSeparated
<1>1. SeparateInv => OffIsSeparated
    BY DEF SeparateInv, OffIsSeparated, NoTags, Calm, CalmInv
<1>2. Init => SeparateInv
    BY InitSeparate
<1>3. SeparateInv /\ [Next]_vars => SeparateInv'
    BY NextSeparate
<1> QED BY <1>1, <1>2, <1>3, PTL DEF Spec
----------------------------------------------------------------------------
(* An on is reported when the machine has its groups again.                *)

\* The setup can bring the groups back: the options for an on name those of
\* every interface, or there are none and it is not left to them.
Restorable ==
    \/ \A n \in Nics : Desired("on", n) = Home[n]
    \/ ~interface_sg_present("on") /\ (setup.secg # {} \/ ~interface_sg_present("off"))

\* Agents run one after the other and nothing fails.
Still == faults = 0 /\ overlaps = {} /\ ~LeavesOne /\ ~Unseen /\ Restorable

\* Where a process has changed some of the interfaces.
Changing == {"update", "give", "put", "check"}

\* A process on its own: an off that has something to do has found all groups
\* in their place, a restore has read them from the tags, and the interfaces
\* that a loop has passed are done.
RunOK(r, g, bs, lf) ==
    /\ r.pc \notin {"fenced", "match"}
    /\ r.pc \in Early \cup {"stamp", "restore", "collect", "details", "options"} => r.at = 1
    /\ r.pc \in Fencing => r.action = "off"
    /\ r.pc \in Optional => r.action = "on" /\ interface_sg_present("on")
    /\ r.pc \in {"lastfence", "tags"} \/ (r.pc = "set" /\ r.action = "off") => g = Home
    /\ r.pc \in {"modify", "backup", "stamp"} => g = Home
    /\ r.pc \in {"backup", "stamp", "update"} => r.seen = Home
    /\ r.pc = "backup" =>
          /\ \A n \in Nics : n < r.at => Full(bs, r.t, n, Home[n])
          /\ \A i \in 0 .. r.chunk - 1 : Tag(r.t, r.at, i, Home[r.at]) \in bs
    /\ r.pc = "stamp" => \A n \in Nics : Full(bs, r.t, n, Home[n])
    /\ r.pc = "update" => \A n \in Nics : IF n < r.at THEN Fenced(g[n]) ELSE g[n] = Home[n]
    /\ r.pc = "collect" => r.t = lf /\ lf # 0
    /\ r.pc \in {"details", "give"} => r.bk = Home
    /\ r.pc \in {"give", "put"} => \A n \in Nics : g[n] = IF n < r.at THEN Home[n] ELSE r.seen[n]
    /\ r.pc = "check" => \A n \in Nics : g[n] = IF n <= r.at THEN Home[n] ELSE r.seen[n]
    /\ r.pc \in {"delete", "verify"} => g = Home

RunInv ==
    /\ \A p, q \in Procs : p # q => At(p, "idle") \/ At(q, "idle")
    /\ (\A p \in Procs : proc[p].pc \notin Changing) => sgs = Home \/ AllFenced(sgs)
    /\ lastfence # 0 => \A n \in Nics : Full(backups, lastfence, n, Home[n])
    /\ \A p \in Procs : RunOK(proc[p], sgs, backups, lastfence)

\* Without --secg: the options show the status of an on, or nothing is done.
PlainInv ==
    IF interface_sg_present("on")
    THEN \A p \in Procs : proc[p].pc \in {"fenced", "lastfence", "tags"} => proc[p].action # "on"
    ELSE /\ sgs = Home /\ lastfence = 0
         /\ \A p \in Procs : proc[p].pc \in {"idle", "status", "lastfence", "set", "restore"}

OnInv ==
    /\ IInv /\ faults \in Nat
    /\ Still => /\ IF setup.secg # {} THEN RunInv ELSE PlainInv
                /\ ~wrongOn

LEMMA StillFacts ==
    ASSUME Still, Still', setup.secg # {}
    PROVE  /\ ~Fault /\ Home \in Maps
           /\ interface_sg_present("on") => \A n \in Nics : Desired("on", n) = Home[n]
           /\ check_sg_modifications <=> AllFenced(sgs)
           /\ check_interface_sg_match("off") <=> AllFenced(sgs)
           /\ \A n \in Nics : ~setup.keep => ~(Home[n] \subseteq setup.secg)
<1>1. ~Fault
    BY DEF Still, Fault
<1>2. interface_sg_present("on") => \A n \in Nics : Desired("on", n) = Home[n]
    BY DEF Still, Restorable
<1>3. \A n \in Nics : ~setup.keep => ~(Home[n] \subseteq setup.secg)
    BY DEF Still, LeavesOne
<1> QED BY <1>1, <1>2, <1>3, AwsVpcNetAssumption
        DEF check_sg_modifications, check_interface_sg_match, AllFenced, Maps

\* The process that is at work takes a step, and the others are idle.
LEMMA RunMove ==
    ASSUME IInv, RunInv, NEW p \in Procs, ~At(p, "idle"), setup' = setup, NEW r, Goes(p, r),
           RunOK(r, sgs', backups', lastfence'),
           r.pc \notin Changing => sgs' = Home \/ AllFenced(sgs'),
           lastfence' # 0 => \A n \in Nics : Full(backups', lastfence', n, Home[n])
    PROVE  RunInv'
<1>1. proc'[p] = r /\ \A q \in Procs \ {p} : proc'[q] = proc[q]
    BY DEF Goes, IInv, Types
<1>2. \A q \in Procs \ {p} : proc'[q].pc = "idle"
    BY <1>1 DEF RunInv, At
<1>3. (\A g : Fenced(g)' = Fenced(g)) /\ interface_sg_present("on")' = interface_sg_present("on")
    BY SameSetup DEF interface_sg_present, Desired
<1>4. \A q, s \in Procs : q # s => At(q, "idle")' \/ At(s, "idle")'
    BY <1>2 DEF At
<1>5. (\A q \in Procs : proc'[q].pc \notin Changing) => sgs' = Home \/ AllFenced(sgs)'
    BY <1>1, <1>3 DEF AllFenced
<1>6. \A q \in Procs : RunOK(proc'[q], sgs', backups', lastfence')
    BY <1>1, <1>2 DEF RunOK, Optional, Early, Fencing
<1>7. \A q \in Procs : RunOK(proc[q], sgs, backups, lastfence)'
    BY <1>3, <1>6 DEF RunOK
<1> QED BY <1>4, <1>5, <1>7 DEF RunInv

\* What is known of the process that is at work.
LEMMA RunFacts ==
    ASSUME IInv, RunInv, NEW p \in Procs, ~At(p, "idle")
    PROVE  /\ RunOK(proc[p], sgs, backups, lastfence) /\ proc[p] \in Recs /\ Act(p) \in {"on", "off"}
           /\ proc[p].pc \notin Changing => sgs = Home \/ AllFenced(sgs)
           /\ lastfence # 0 => \A n \in Nics : Full(backups, lastfence, n, Home[n])
<1>1. \A q \in Procs \ {p} : proc[q].pc = "idle"
    BY DEF RunInv, At
<1>2. proc[p].pc \notin Changing => sgs = Home \/ AllFenced(sgs)
    BY <1>1 DEF RunInv, Changing
<1> QED BY <1>2, ProcType DEF RunInv

\* The process has nothing to keep.
LEMMA RunFree ==
    ASSUME IInv, RunInv, NEW p \in Procs, ~At(p, "idle"), setup' = setup,
           sgs' = Home \/ AllFenced(sgs'),
           lastfence' # 0 => \A n \in Nics : Full(backups', lastfence', n, Home[n]),
           NEW r, Goes(p, r), r.pc \in {"idle", "status", "set", "shutdown", "restore", "options"},
           r.at = 1 \/ r.pc = "shutdown", r.pc = "shutdown" => r.action = "off",
           r.pc = "set" => r.action = "on" \/ sgs' = Home,
           r.pc = "options" => r.action = "on" /\ interface_sg_present("on")
    PROVE  RunInv'
<1>1. RunOK(r, sgs', backups', lastfence')
    BY DEF RunOK, Optional, Early, Fencing
<1> QED BY <1>1, RunMove

LEMMA RunExits ==
    ASSUME IInv, RunInv, NEW p \in Procs, ~At(p, "idle"), setup' = setup,
           sgs' = Home \/ AllFenced(sgs'),
           lastfence' # 0 => \A n \in Nics : Full(backups', lastfence', n, Home[n]),
           Exits(p) \/ Polls(p)
    PROVE  RunInv'
<1>1. CASE Exits(p)
  <2>1. Idle.pc = "idle" /\ Idle.at = 1
      BY DEF Idle
  <2> QED BY <1>1, <2>1, RunFree DEF Exits
<1>2. CASE Polls(p)
  <2>1. PICK r : r = [Idle EXCEPT !.pc = "status", !.action = Act(p), !.polls = 1]
      OBVIOUS
  <2>2. r.pc = "status" /\ r.at = 1 /\ Goes(p, r)
      BY <1>2, <2>1 DEF Idle, Polls
  <2> QED BY <2>2, RunFree
<1> QED BY <1>1, <1>2

LEMMA RunStatusIs ==
    ASSUME IInv, RunInv, ~wrongOn, NEW p \in Procs, proc[p].pc \in {"status", "lastfence", "tags"},
           UNCHANGED <<setup, sgs, lastfence, backups>>,
           NEW s \in {"on", "off"}, StatusIs(p, s), s = "on" => sgs = Home
    PROVE  RunInv' /\ ~wrongOn'
<1>0. ~At(p, "idle") /\ proc[p].pc \notin Changing /\ proc[p].pc \in Early /\ ~wrongOn'
    BY DEF At, Early, Changing, StatusIs
<1>1. /\ RunOK(proc[p], sgs, backups, lastfence) /\ proc[p] \in Recs /\ Act(p) \in {"on", "off"}
      /\ sgs' = Home \/ AllFenced(sgs')
      /\ lastfence' # 0 => \A n \in Nics : Full(backups', lastfence', n, Home[n])
    BY <1>0, RunFacts
<1>2. proc[p].at = 1
    BY <1>0, <1>1 DEF RunOK
<1>3. CASE Exits(p)
    BY <1>0, <1>1, <1>3, RunExits
<1>4. CASE GoesTo(p, "set") /\ s # Act(p)
  <2>1. PICK r : r = [proc[p] EXCEPT !.pc = "set"]
      OBVIOUS
  <2>2. r.pc = "set" /\ r.at = 1 /\ r.action = Act(p) /\ Goes(p, r)
      BY <1>1, <1>2, <1>4, <2>1 DEF Recs, GoesTo, Act
  <2>3. r.action = "on" \/ sgs' = Home
      BY <1>1, <1>4, <2>2
  <2> QED BY <1>0, <1>1, <2>2, <2>3, RunFree
<1>5. CASE Goes(p, [Idle EXCEPT !.pc = "status", !.action = Act(p), !.polls = proc[p].polls + 1])
  <2>1. PICK r : r = [Idle EXCEPT !.pc = "status", !.action = Act(p), !.polls = proc[p].polls + 1]
      OBVIOUS
  <2>2. r.pc = "status" /\ r.at = 1 /\ Goes(p, r)
      BY <1>5, <2>1 DEF Idle
  <2> QED BY <1>0, <1>1, <2>2, RunFree
<1> QED BY <1>0, <1>3, <1>4, <1>5 DEF StatusIs

LEMMA RunStatus ==
    ASSUME IInv, Still, Still', setup.secg # {}, RunInv, ~wrongOn, NEW p \in Procs, Status(p)
    PROVE  RunInv' /\ ~wrongOn'
<1>1. /\ UNCHANGED <<setup, sgs, lastfence, backups>>
      /\ proc[p].pc \in {"status", "fenced", "lastfence", "tags"}
    BY DEF Status, status_by_interfaces, is_instance_fenced, is_instance_fenced_lastfence,
       is_instance_fenced_tags, At, cloudVars
<1>2. proc[p].pc \in Early /\ ~At(p, "idle") /\ proc[p].pc \notin Changing
    BY <1>1 DEF Early, At, Changing
<1>3. /\ RunOK(proc[p], sgs, backups, lastfence) /\ proc[p] \in Recs /\ Act(p) \in {"on", "off"}
      /\ sgs' = Home \/ AllFenced(sgs')
      /\ lastfence' # 0 => \A n \in Nics : Full(backups', lastfence', n, Home[n])
    BY <1>1, <1>2, RunFacts
<1>4. /\ ~At(p, "fenced") /\ proc[p].at = 1 /\ (At(p, "lastfence") \/ At(p, "tags") => sgs = Home)
      /\ proc[p].pc \in {"status", "lastfence", "tags"}
    BY <1>1, <1>2, <1>3 DEF RunOK, At
<1>5. ASSUME NEW s \in {"on", "off"}, StatusIs(p, s), s = "on" => sgs = Home
      PROVE  RunInv' /\ ~wrongOn'
    BY <1>1, <1>4, <1>5, RunStatusIs
<1>6. ASSUME NEW r, Goes(p, r), UNCHANGED history, r.pc \in {"lastfence", "tags"}, r.at = 1, sgs = Home
      PROVE  RunInv' /\ ~wrongOn'
  <2>1. RunOK(r, sgs', backups', lastfence')
      BY <1>1, <1>6 DEF RunOK, Optional, Early, Fencing
  <2>2. RunInv'
      BY <1>1, <1>2, <1>3, <1>6, <2>1, RunMove
  <2> QED BY <1>6, <2>2 DEF history
<1>7. ~Fault
    BY StillFacts
<1>8. CASE status_by_interfaces(p)
  <2>1. PICK s : s = IF check_interface_sg_match(Act(p)) = (Act(p) = "on") THEN "on" ELSE "off"
      OBVIOUS
  <2>2. s \in {"on", "off"} /\ StatusIs(p, s) /\ interface_sg_present(Act(p))
      BY <1>7, <1>8, <2>1 DEF status_by_interfaces, ByInterfaces
  <2>3. CASE Act(p) = "on"
    <3>1. s = "on" => check_interface_sg_match("on")
        BY <2>1, <2>3 DEF check_interface_sg_match
    <3>2. \A n \in Nics : Desired("on", n) = Home[n] /\ Home[n] # {}
        BY <2>2, <2>3, StillFacts, AwsVpcNetAssumption
    <3>3. check_interface_sg_match("on") => \A n \in Nics : sgs[n] = Home[n]
        BY <3>2 DEF check_interface_sg_match
    <3>4. sgs \in Maps /\ Home \in Maps
        BY StillFacts DEF IInv, Types
    <3>5. (\A n \in Nics : sgs[n] = Home[n]) => sgs = Home
        BY <3>4 DEF Maps
    <3> QED BY <1>5, <2>2, <3>1, <3>3, <3>5
  <2>4. CASE Act(p) = "off"
    <3>1. s = "on" => ~check_interface_sg_match("off")
        BY <2>1, <2>4 DEF check_interface_sg_match
    <3> QED BY <1>1, <1>3, <1>5, <2>2, <3>1, StillFacts
  <2> QED BY <1>3, <2>3, <2>4
<1>9. CASE is_instance_fenced(p)
  <2>1. CASE StatusIs(p, "off")
      BY <1>5, <2>1
  <2>2. CASE ~check_sg_modifications /\ GoesTo(p, "lastfence") /\ UNCHANGED history
    <3>1. PICK r : r = [proc[p] EXCEPT !.pc = "lastfence"]
        OBVIOUS
    <3>2. r.pc = "lastfence" /\ r.at = 1 /\ Goes(p, r)
        BY <1>3, <1>4, <2>2, <3>1 DEF Recs, GoesTo
    <3>3. sgs = Home
        BY <1>1, <1>3, <2>2, StillFacts
    <3> QED BY <1>6, <2>2, <3>2, <3>3
  <2> QED BY <1>7, <1>9, <2>1, <2>2 DEF is_instance_fenced
<1>10. CASE is_instance_fenced_lastfence(p)
  <2>1. sgs = Home
      BY <1>4, <1>10 DEF is_instance_fenced_lastfence
  <2>2. CASE StatusIs(p, "on")
      BY <1>5, <2>1, <2>2
  <2>3. CASE Goes(p, [proc[p] EXCEPT !.pc = "tags", !.t = lastfence]) /\ UNCHANGED history
    <3>1. PICK r : r = [proc[p] EXCEPT !.pc = "tags", !.t = lastfence]
        OBVIOUS
    <3>2. r.pc = "tags" /\ r.at = 1 /\ Goes(p, r)
        BY <1>3, <1>4, <2>3, <3>1 DEF Recs
    <3> QED BY <1>6, <2>1, <2>3, <3>2
  <2> QED BY <1>10, <2>2, <2>3 DEF is_instance_fenced_lastfence
<1>11. CASE is_instance_fenced_tags(p)
  <2>1. sgs = Home
      BY <1>4, <1>11 DEF is_instance_fenced_tags
  <2>2. StatusIs(p, "on") \/ StatusIs(p, "off")
      BY <1>11 DEF is_instance_fenced_tags
  <2> QED BY <1>5, <2>1, <2>2
<1> QED BY <1>8, <1>9, <1>10, <1>11 DEF Status

\* set_power_status and modify_security_groups, up to the first update.
LEMMA RunOff ==
    ASSUME IInv, Still, Still', setup.secg # {}, RunInv, NEW p \in Procs,
           \/ self_check(p) \/ set_power_status(p) \/ modify_security_groups(p)
           \/ set_lastfence_tag(p) \/ shutdown_instance(p)
    PROVE  RunInv'
<1>1. setup' = setup /\ sgs' = sgs /\ backups' = backups /\ ~Fault
      /\ proc[p].pc \in {"set", "modify", "stamp", "shutdown"}
  <2>1. /\ setup' = setup /\ sgs' = sgs /\ backups' = backups
        /\ proc[p].pc \in {"set", "modify", "stamp", "shutdown"}
      BY DEF self_check, set_power_status, modify_security_groups, set_lastfence_tag,
         shutdown_instance, cloudVars, At
  <2> QED BY <2>1, StillFacts
<1>2. ~At(p, "idle") /\ proc[p].pc \notin Changing
    BY <1>1 DEF At, Changing
<1>3. /\ RunOK(proc[p], sgs, backups, lastfence) /\ proc[p] \in Recs /\ Act(p) \in {"on", "off"}
      /\ sgs' = Home \/ AllFenced(sgs')
      /\ lastfence # 0 => \A n \in Nics : Full(backups', lastfence, n, Home[n])
    BY <1>1, <1>2, RunFacts
<1>4. CASE lastfence' = lastfence /\ (Exits(p) \/ Polls(p))
    BY <1>1, <1>2, <1>3, <1>4, RunExits
<1>5. CASE self_check(p) \/ shutdown_instance(p)
    BY <1>1, <1>4, <1>5 DEF self_check, shutdown_instance, cloudVars
<1>6. CASE set_power_status(p)
  <2>0. lastfence' = lastfence /\ proc[p].pc = "set" /\ proc[p].at = 1 /\ (Act(p) = "off" => sgs' = Home)
    <3>1. lastfence' = lastfence /\ proc[p].pc = "set" /\ proc[p].pc \in Early
        BY <1>6 DEF set_power_status, cloudVars, At, Early
    <3> QED BY <1>1, <1>3, <3>1 DEF RunOK, Act
  <2>1. CASE Branch(p) # "return" /\ Goes(p, [proc[p] EXCEPT !.pc = Branch(p), !.t = now + 1])
    <3>1. PICK r : r = [proc[p] EXCEPT !.pc = Branch(p), !.t = now + 1]
        OBVIOUS
    <3>2. r.pc = Branch(p) /\ r.at = 1 /\ r.action = Act(p) /\ Goes(p, r)
        BY <1>3, <2>0, <2>1, <3>1 DEF Recs, Act
    <3>3. CASE Act(p) = "on"
      <4>1. r.pc \in {"restore", "options"} /\ (r.pc = "options" => interface_sg_present("on"))
          BY <2>1, <3>2, <3>3 DEF Branch
      <4> QED BY <1>1, <1>2, <1>3, <2>0, <3>2, <3>3, <4>1, RunFree
    <3>4. CASE Act(p) = "off"
      <4>1. r.pc = "modify"
          BY <3>2, <3>4 DEF Branch
      <4>2. RunOK(r, sgs', backups', lastfence')
          BY <2>0, <3>2, <3>4, <4>1 DEF RunOK, Optional, Early, Fencing
      <4> QED BY <1>1, <1>2, <1>3, <2>0, <3>2, <4>2, RunMove
    <3> QED BY <1>3, <3>3, <3>4
  <2> QED BY <1>1, <1>4, <1>6, <2>0, <2>1 DEF set_power_status
<1>7. CASE modify_security_groups(p)
  <2>0. lastfence' = lastfence /\ sgs = Home /\ Act(p) = "off" /\ proc[p].at = 1 /\ proc[p].chunk = 0
    <3>1. lastfence' = lastfence /\ proc[p].pc = "modify" /\ proc[p].pc \in Fencing /\ proc[p].pc \in Early
        BY <1>7 DEF modify_security_groups, cloudVars, At, Fencing, Early
    <3> QED BY <1>3, <3>1, ProcType DEF RunOK, Act, ProcOK
  <2>1. PICK l \in {"backup", "update"} : Goes(p, [proc[p] EXCEPT !.pc = l, !.seen = sgs])
      BY <1>1, <1>7 DEF modify_security_groups
  <2>2. PICK r : r = [proc[p] EXCEPT !.pc = l, !.seen = sgs]
      OBVIOUS
  <2>3. r.pc = l /\ r.seen = Home /\ r.at = 1 /\ r.chunk = 0 /\ r.action = "off" /\ Goes(p, r)
      BY <1>3, <2>0, <2>1, <2>2 DEF Recs, Act
  <2>4. \A n \in Nics : ~(n < 1)
      BY DEF Nics
  <2>5. 0 .. r.chunk - 1 = {}
      BY <2>3
  <2>6. RunOK(r, sgs', backups', lastfence')
      BY <1>1, <2>0, <2>3, <2>4, <2>5 DEF RunOK, Optional, Early, Fencing
  <2> QED BY <1>1, <1>2, <1>3, <2>0, <2>3, <2>6, RunMove
<1>8. CASE set_lastfence_tag(p)
  <2>0. /\ sgs = Home /\ Act(p) = "off" /\ proc[p].at = 1 /\ proc[p].seen = Home
        /\ \A n \in Nics : Full(backups, proc[p].t, n, Home[n])
    <3>1. proc[p].pc = "stamp" /\ proc[p].pc \in Fencing
        BY <1>8 DEF set_lastfence_tag, At, Fencing
    <3> QED BY <1>3, <3>1 DEF RunOK, Act
  <2>1. lastfence' = proc[p].t /\ GoesTo(p, "update")
      BY <1>1, <1>8 DEF set_lastfence_tag, TagFails
  <2>2. PICK r : r = [proc[p] EXCEPT !.pc = "update"]
      OBVIOUS
  <2>3. r.pc = "update" /\ r.seen = Home /\ r.at = 1 /\ r.action = "off" /\ Goes(p, r)
      BY <1>3, <2>0, <2>1, <2>2 DEF Recs, GoesTo, Act
  <2>4. \A n \in Nics : ~(n < 1)
      BY DEF Nics
  <2>5. RunOK(r, sgs', backups', lastfence')
      BY <1>1, <2>0, <2>3, <2>4 DEF RunOK, Optional, Early, Fencing
  <2> QED BY <1>1, <1>2, <1>3, <2>0, <2>1, <2>3, <2>5, RunMove
<1> QED BY <1>5, <1>6, <1>7, <1>8

\* create_backup_tag: the chunks of the groups in service are complete.
LEMMA RunBackup ==
    ASSUME IInv, Still, Still', setup.secg # {}, RunInv, NEW p \in Procs, create_backup_tag(p)
    PROVE  RunInv'
<1>1. /\ setup' = setup /\ sgs' = sgs /\ lastfence' = lastfence /\ ~Fault /\ proc[p].pc = "backup"
    BY StillFacts DEF create_backup_tag, At
<1>2. ~At(p, "idle") /\ proc[p].pc \notin Changing /\ proc[p].pc \in Fencing
    BY <1>1 DEF At, Changing, Fencing
<1>3. /\ RunOK(proc[p], sgs, backups, lastfence) /\ proc[p] \in Recs /\ sgs' = Home
      /\ lastfence # 0 => \A n \in Nics : Full(backups, lastfence, n, Home[n])
    BY <1>1, <1>2, RunFacts DEF RunOK
<1>4. backups' = backups \cup {Chunk(p)}
    BY <1>1 DEF create_backup_tag, TagFails
<1>5. lastfence' # 0 => \A n \in Nics : Full(backups', lastfence', n, Home[n])
    BY <1>1, <1>3, <1>4 DEF Full
<1> DEFINE m == Cur(p)
           t == proc[p].t
           c == proc[p].chunk
<1>6. /\ m \in Nics /\ c \in Nat /\ m \in Nat /\ NNics \in Nat /\ proc[p].seen = Home
      /\ Act(p) = "off" /\ \A n \in Nics : n \in Nat /\ n <= NNics
    BY <1>1, <1>2, <1>3, ProcType, AwsVpcNetAssumption DEF Nics, RunOK, Act
<1>7. /\ \A n \in Nics : n < m => Full(backups, t, n, Home[n])
      /\ \A i \in 0 .. c - 1 : Tag(t, m, i, Home[m]) \in backups
    BY <1>1, <1>3 DEF RunOK, Cur
<1>8. \A n \in Nics : n < m => Full(backups', t, n, Home[n])
    BY <1>4, <1>7 DEF Full
<1>9. \A i \in 0 .. c : Tag(t, m, i, Home[m]) \in backups'
  <2>1. Tag(t, m, c, Home[m]) \in backups'
      BY <1>4, <1>6 DEF Chunk, Tag
  <2>2. \A i \in 0 .. c : i \in 0 .. c - 1 \/ i = c
      BY <1>6
  <2> QED BY <1>4, <1>7, <2>1, <2>2
<1>10. ChunksDone(p) => Full(backups', t, m, Home[m])
  <2>1. IsFiniteSet(Home[m])
      BY <1>6, AwsVpcNetAssumption
  <2>2. Cardinality(Home[m]) \in Nat
      BY <2>1, FS_CardinalityType
  <2>3. ChunksDone(p) => Cardinality(Home[m]) - 1 = c
      BY <1>6, <2>2 DEF ChunksDone
  <2> QED BY <1>9, <2>3 DEF Full
<1>11. ASSUME NEW r, Goes(p, r), RunOK(r, sgs', backups', lastfence') PROVE RunInv'
    BY <1>1, <1>2, <1>3, <1>5, <1>11, RunMove
<1>12. CASE Goes(p, [proc[p] EXCEPT !.chunk = proc[p].chunk + 1])
  <2>1. PICK r : r = [proc[p] EXCEPT !.chunk = proc[p].chunk + 1]
      OBVIOUS
  <2>2. /\ r.pc = "backup" /\ r.action = "off" /\ r.t = t /\ r.at = m /\ r.seen = Home
        /\ r.chunk - 1 = c /\ Goes(p, r)
      BY <1>1, <1>3, <1>6, <1>12, <2>1 DEF Recs, Act, Cur
  <2> HIDE DEF m, t, c
  <2>3. RunOK(r, sgs', backups', lastfence')
      BY <1>3, <1>8, <1>9, <2>2 DEF RunOK, Optional, Early, Fencing
  <2> QED BY <1>11, <2>2, <2>3
<1>13. CASE ChunksDone(p) /\ Goes(p, [proc[p] EXCEPT !.at = proc[p].at + 1, !.chunk = 0])
  <2>1. PICK r : r = [proc[p] EXCEPT !.at = proc[p].at + 1, !.chunk = 0]
      OBVIOUS
  <2>2. /\ r.pc = "backup" /\ r.action = "off" /\ r.t = t /\ r.at = m + 1 /\ r.seen = Home
        /\ 0 .. r.chunk - 1 = {} /\ Goes(p, r)
      BY <1>1, <1>3, <1>6, <1>13, <2>1 DEF Recs, Act, Cur
  <2> HIDE DEF m, t, c
  <2>3. \A n \in Nics : n < r.at => n < m \/ n = m
      BY <1>6, <2>2
  <2>4. RunOK(r, sgs', backups', lastfence')
      BY <1>3, <1>8, <1>10, <1>13, <2>2, <2>3 DEF RunOK, Optional, Early, Fencing
  <2> QED BY <1>11, <2>2, <2>4
<1>14. CASE /\ ChunksDone(p) /\ ~(Cur(p) < NNics)
            /\ Goes(p, [proc[p] EXCEPT !.pc = "stamp", !.at = 1, !.chunk = 0])
  <2>1. PICK r : r = [proc[p] EXCEPT !.pc = "stamp", !.at = 1, !.chunk = 0]
      OBVIOUS
  <2>2. /\ r.pc = "stamp" /\ r.action = "off" /\ r.t = t /\ r.seen = Home /\ r.at = 1 /\ Goes(p, r)
      BY <1>3, <1>6, <1>14, <2>1 DEF Recs, Act
  <2>3. \A n \in Nics : n < m \/ n = m
      BY <1>6, <1>14
  <2> HIDE DEF m, t, c
  <2>4. RunOK(r, sgs', backups', lastfence')
      BY <1>3, <1>8, <1>10, <1>14, <2>2, <2>3 DEF RunOK, Optional, Early, Fencing
  <2> QED BY <1>11, <2>2, <2>4
<1> QED BY <1>1, <1>12, <1>13, <1>14 DEF create_backup_tag, TagFails

LEMMA RunUpdate ==
    ASSUME IInv, Still, Still', setup.secg # {}, RunInv, NEW p \in Procs, modify_interface(p)
    PROVE  RunInv'
<1> DEFINE n == Cur(p)
<1>1. /\ setup' = setup /\ lastfence' = lastfence /\ backups' = backups /\ ~Fault
      /\ ~At(p, "idle") /\ proc[p].pc = "update" /\ proc[p].pc \in Fencing
    BY StillFacts DEF modify_interface, At, Fencing
<1>2. /\ RunOK(proc[p], sgs, backups, lastfence) /\ proc[p] \in Recs /\ n \in Nics /\ sgs \in Maps
      /\ Home \in Maps
      /\ lastfence' # 0 => \A k \in Nics : Full(backups', lastfence', k, Home[k])
    BY <1>1, RunFacts, ProcType, StillFacts DEF IInv, Types
<1>3. /\ \A m \in Nics : IF m < n THEN Fenced(sgs[m]) ELSE sgs[m] = Home[m]
      /\ proc[p].seen = Home /\ Act(p) = "off"
    BY <1>1, <1>2 DEF RunOK, Cur, Act
<1>4. Untouched(Home[n]) => Fenced(Home[n])
  <2>1. Home[n] # {} /\ (~setup.keep => ~(Home[n] \subseteq setup.secg))
      BY <1>2, StillFacts, AwsVpcNetAssumption
  <2> QED BY <2>1 DEF Untouched, updated_sgs, Fenced
<1>5. PICK M : NextUpdate(p, M) /\ sgs' \in Maps /\ Fenced(sgs'[n]) /\ \A m \in Nics \ {n} : sgs'[m] = sgs[m]
  <2>0. ~(n < n) /\ sgs[n] = Home[n]
      BY <1>2, <1>3 DEF Nics
  <2>1. CASE Untouched(Home[n]) /\ sgs' = sgs /\ NextUpdate(p, proc[p].modified)
      BY <1>2, <1>4, <2>0, <2>1
  <2>2. CASE sgs' = [sgs EXCEPT ![n] = updated_sgs(Home[n])] /\ NextUpdate(p, proc[p].modified \cup {n})
    <3>1. updated_sgs(Home[n]) \in SUBSET Groups /\ Fenced(updated_sgs(Home[n]))
        BY <1>2, SetupTypes DEF updated_sgs, Maps, IInv, Types, Fenced
    <3>2. sgs' \in Maps /\ sgs'[n] = updated_sgs(Home[n]) /\ \A m \in Nics \ {n} : sgs'[m] = sgs[m]
        BY <1>2, <2>2, <3>1 DEF Maps
    <3> QED BY <2>2, <3>1, <3>2
  <2> QED BY <1>1, <1>3, <2>1, <2>2 DEF modify_interface
<1>6. \A m \in Nics : IF m < n + 1 THEN Fenced(sgs'[m]) ELSE sgs'[m] = Home[m]
  <2> SUFFICES ASSUME NEW m \in Nics
               PROVE  IF m < n + 1 THEN Fenced(sgs'[m]) ELSE sgs'[m] = Home[m]
      OBVIOUS
  <2>1. CASE m < n
      BY <1>2, <1>3, <1>5, <2>1 DEF Nics
  <2>2. CASE m = n
      BY <1>2, <1>5, <2>2 DEF Nics
  <2>3. CASE n < m
      BY <1>2, <1>3, <1>5, <2>3 DEF Nics
  <2> QED BY <1>2, <2>1, <2>2, <2>3 DEF Nics
<1>7. CASE Goes(p, [proc[p] EXCEPT !.at = proc[p].at + 1, !.modified = M])
  <2>1. PICK r : r = [proc[p] EXCEPT !.at = proc[p].at + 1, !.modified = M]
      OBVIOUS
  <2>2. r.pc = "update" /\ r.seen = Home /\ r.at = n + 1 /\ r.action = "off" /\ Goes(p, r)
      BY <1>1, <1>2, <1>3, <1>7, <2>1 DEF Recs, Cur, Act
  <2> HIDE DEF n
  <2>3. RunOK(r, sgs', backups', lastfence') /\ r.pc \in Changing
      BY <1>6, <2>2 DEF RunOK, Optional, Early, Fencing, Changing
  <2> QED BY <1>1, <1>2, <2>2, <2>3, RunMove
<1>8. CASE ~(n < NNics)
  <2>1. AllFenced(sgs')
    <3>1. \A m \in Nics : m < n + 1
        BY <1>2, <1>8, AwsVpcNetAssumption DEF Nics
    <3> QED BY <1>6, <3>1 DEF AllFenced
  <2>2. CASE Exits(p) \/ Polls(p)
      BY <1>1, <1>2, <2>1, <2>2, RunExits
  <2>3. CASE GoesTo(p, "shutdown")
    <3>1. PICK r : r = [proc[p] EXCEPT !.pc = "shutdown"]
        OBVIOUS
    <3>2. r.pc = "shutdown" /\ r.action = "off" /\ Goes(p, r)
        BY <1>2, <1>3, <2>3, <3>1 DEF Recs, GoesTo, Act
    <3> QED BY <1>1, <1>2, <2>1, <3>2, RunFree
  <2> QED BY <1>5, <1>8, <2>2, <2>3 DEF NextUpdate
<1> QED BY <1>5, <1>7, <1>8 DEF NextUpdate

\* restore_security_groups: the tags say what the groups in service are.
LEMMA RunRestore ==
    ASSUME IInv, Still, Still', setup.secg # {}, RunInv, NEW p \in Procs,
           restore_lastfence(p) \/ restore_collect(p) \/ restore_details(p)
    PROVE  RunInv'
<1>1. /\ setup' = setup /\ sgs' = sgs /\ lastfence' = lastfence /\ backups' = backups /\ ~Fault
      /\ proc[p].pc \in {"restore", "collect", "details"}
    BY StillFacts DEF restore_lastfence, restore_collect, restore_details, cloudVars, At
<1>2. ~At(p, "idle") /\ proc[p].pc \notin Changing
    BY <1>1 DEF At, Changing
<1>3. /\ RunOK(proc[p], sgs, backups, lastfence) /\ proc[p] \in Recs /\ proc[p].at = 1
      /\ sgs' = Home \/ AllFenced(sgs')
      /\ lastfence' # 0 => \A n \in Nics : Full(backups', lastfence', n, Home[n])
    BY <1>1, <1>2, RunFacts DEF RunOK
<1>4. CASE Exits(p)
    BY <1>1, <1>2, <1>3, <1>4, RunExits
<1>5. ASSUME NEW r, Goes(p, r), r.pc \in {"collect", "details", "give"}, r.at = 1,
             r.pc = "collect" => r.t = lastfence /\ lastfence # 0,
             r.pc \in {"details", "give"} => r.bk = Home, r.pc = "give" => r.seen = sgs
      PROVE  RunInv'
  <2>1. \A n \in Nics : ~(n < 1)
      BY DEF Nics
  <2>2. RunOK(r, sgs', backups', lastfence')
      BY <1>1, <1>5, <2>1 DEF RunOK, Optional, Early, Fencing
  <2> QED BY <1>1, <1>2, <1>3, <1>5, <2>2, RunMove
<1>6. CASE restore_lastfence(p)
  <2>1. PICK r : r = [proc[p] EXCEPT !.pc = "collect", !.t = lastfence]
      OBVIOUS
  <2>2. r.pc = "collect" /\ r.at = 1 /\ r.t = lastfence
      BY <1>3, <2>1 DEF Recs
  <2>3. Exits(p) \/ (lastfence # 0 /\ Goes(p, r))
      BY <1>1, <1>6, <2>1 DEF restore_lastfence
  <2> QED BY <1>4, <1>5, <2>2, <2>3
<1>7. CASE restore_collect(p)
  <2>1. PICK bk : bk = [n \in Nics |-> matching_backups(proc[p].t, n)]
      OBVIOUS
  <2>2. Exits(p) \/ Goes(p, [proc[p] EXCEPT !.pc = "details", !.bk = bk])
      BY <1>1, <1>7, <2>1 DEF restore_collect
  <2>3. proc[p].t = lastfence /\ lastfence # 0
      BY <1>3, <1>7 DEF restore_collect, At, RunOK
  <2>4. \A n \in Nics : matching_backups(proc[p].t, n) = Home[n]
    <3>1. ASSUME NEW n \in Nics PROVE Says(backups, lastfence, n) = Home[n]
      <4>1. lastfence \in Nat /\ Full(backups, lastfence, n, Home[n]) /\ Home[n] \in Whole(n)
          BY <1>1, <1>3, <2>3, HomeIsWhole DEF IInv, Types
      <4> QED BY <4>1, FullSays
    <3> QED BY <2>3, <3>1, SaysIsMatching
  <2>5. bk = Home
    <3>1. Home \in Maps
        BY StillFacts
    <3> QED BY <2>1, <2>4, <3>1 DEF Maps
  <2>6. PICK r : r = [proc[p] EXCEPT !.pc = "details", !.bk = bk]
      OBVIOUS
  <2>7. r.pc = "details" /\ r.at = 1 /\ r.bk = Home
      BY <1>3, <2>5, <2>6 DEF Recs
  <2> QED BY <1>4, <1>5, <2>2, <2>6, <2>7
<1>8. CASE restore_details(p)
  <2>1. proc[p].bk = Home
      BY <1>3, <1>8 DEF restore_details, At, RunOK
  <2>2. PICK r : r = [proc[p] EXCEPT !.pc = "give", !.seen = sgs]
      OBVIOUS
  <2>3. r.pc = "give" /\ r.at = 1 /\ r.bk = Home /\ r.seen = sgs
      BY <1>3, <2>1, <2>2 DEF Recs
  <2>4. Exits(p) \/ Goes(p, r)
      BY <1>1, <1>8, <2>2 DEF restore_details
  <2> QED BY <1>4, <1>5, <2>3, <2>4
<1> QED BY <1>6, <1>7, <1>8

\* One more interface has its groups back.
LEMMA OneMore ==
    ASSUME NEW g \in Maps, NEW h \in Maps, NEW seen, NEW n \in Nics, Home \in Maps, h[n] = Home[n],
           \A m \in Nics : g[m] = IF m < n THEN Home[m] ELSE seen[m],
           \A m \in Nics \ {n} : h[m] = g[m]
    PROVE  /\ \A m \in Nics : h[m] = IF m <= n THEN Home[m] ELSE seen[m]
           /\ \A m \in Nics : h[m] = IF m < n + 1 THEN Home[m] ELSE seen[m]
           /\ ~(n < NNics) => h = Home
<1>1. n \in Nat /\ NNics \in Nat /\ \A m \in Nics : m \in Nat /\ m <= NNics
    BY AwsVpcNetAssumption DEF Nics
<1>2. ASSUME NEW m \in Nics PROVE h[m] = IF m <= n THEN Home[m] ELSE seen[m]
  <2>0. m \in Nat /\ n \in Nat
      BY <1>1
  <2>1. CASE m < n
      BY <1>1, <2>1
  <2>2. CASE m = n
      BY <1>1, <2>2
  <2>3. CASE n < m
    <3>1. m # n /\ ~(m < n) /\ ~(m <= n)
        BY <2>0, <2>3
    <3>2. h[m] = g[m] /\ g[m] = seen[m]
        BY <3>1
    <3> QED BY <3>1, <3>2
  <2>4. m < n \/ m = n \/ n < m
      BY <2>0
  <2> QED BY <2>1, <2>2, <2>3, <2>4
<1>3. ASSUME NEW m \in Nics PROVE m <= n <=> m < n + 1
  <2>1. m \in Nat /\ n \in Nat
      BY <1>1
  <2> QED BY <2>1
<1>4. \A m \in Nics : h[m] = IF m < n + 1 THEN Home[m] ELSE seen[m]
    BY <1>2, <1>3
<1>5. ~(n < NNics) => h = Home
  <2>1. ~(n < NNics) => \A m \in Nics : m <= n
      BY <1>1
  <2>2. ~(n < NNics) => \A m \in Nics : h[m] = Home[m]
      BY <1>2, <2>1
  <2> QED BY <2>2 DEF Maps
<1> QED BY <1>2, <1>4, <1>5

LEMMA RunGive ==
    ASSUME IInv, Still, Still', setup.secg # {}, RunInv, NEW p \in Procs, restore_interface(p)
    PROVE  RunInv'
<1> DEFINE n == Cur(p)
<1>1. /\ setup' = setup /\ lastfence' = lastfence /\ backups' = backups /\ ~Fault
      /\ ~At(p, "idle") /\ proc[p].pc = "give"
    BY StillFacts DEF restore_interface, At
<1>2. /\ RunOK(proc[p], sgs, backups, lastfence) /\ proc[p] \in Recs /\ n \in Nics /\ sgs \in Maps
      /\ Home \in Maps
      /\ lastfence' # 0 => \A k \in Nics : Full(backups', lastfence', k, Home[k])
    BY <1>1, RunFacts, ProcType, StillFacts DEF IInv, Types
<1>3. /\ \A m \in Nics : sgs[m] = IF m < n THEN Home[m] ELSE proc[p].seen[m]
      /\ proc[p].bk = Home /\ Home[n] # {}
    BY <1>1, <1>2, AwsVpcNetAssumption DEF RunOK, Cur
<1>4. PICK M : NextRestore(p, M) /\ sgs' \in Maps /\ sgs'[n] = Home[n] /\ \A m \in Nics \ {n} : sgs'[m] = sgs[m]
  <2>0. ~(n < n) /\ sgs[n] = proc[p].seen[n]
      BY <1>2, <1>3 DEF Nics
  <2>1. CASE Home[n] = proc[p].seen[n] /\ sgs' = sgs /\ NextRestore(p, proc[p].modified)
      BY <1>2, <2>0, <2>1
  <2>2. CASE sgs' = [sgs EXCEPT ![n] = Home[n]] /\ NextRestore(p, proc[p].modified \cup {n})
    <3>1. Home[n] \in SUBSET Groups
        BY <1>2 DEF Maps
    <3>2. sgs' \in Maps /\ sgs'[n] = Home[n] /\ \A m \in Nics \ {n} : sgs'[m] = sgs[m]
        BY <1>2, <2>2, <3>1 DEF Maps
    <3> QED BY <2>2, <3>2
  <2> QED BY <1>1, <1>3, <2>1, <2>2 DEF restore_interface
<1>5. /\ \A m \in Nics : sgs'[m] = IF m < n + 1 THEN Home[m] ELSE proc[p].seen[m]
      /\ ~(n < NNics) => sgs' = Home
  <2> HIDE DEF n
  <2>1. PICK seen : seen = proc[p].seen
      OBVIOUS
  <2>2. \A m \in Nics : sgs[m] = IF m < n THEN Home[m] ELSE seen[m]
      BY <1>3, <2>1
  <2>3. /\ sgs \in Maps /\ sgs' \in Maps /\ n \in Nics /\ Home \in Maps /\ sgs'[n] = Home[n]
        /\ \A m \in Nics \ {n} : sgs'[m] = sgs[m]
      BY <1>2, <1>4
  <2>4. /\ \A m \in Nics : sgs'[m] = IF m < n + 1 THEN Home[m] ELSE seen[m]
        /\ ~(n < NNics) => sgs' = Home
      BY <2>2, <2>3, OneMore
  <2> QED BY <2>1, <2>4
<1>6. CASE Goes(p, [proc[p] EXCEPT !.at = proc[p].at + 1, !.modified = M])
  <2>1. PICK r : r = [proc[p] EXCEPT !.at = proc[p].at + 1, !.modified = M]
      OBVIOUS
  <2>2. r.pc = "give" /\ r.seen = proc[p].seen /\ r.at = n + 1 /\ r.bk = Home /\ Goes(p, r)
      BY <1>1, <1>2, <1>3, <1>6, <2>1 DEF Recs, Cur
  <2> HIDE DEF n
  <2>3. RunOK(r, sgs', backups', lastfence') /\ r.pc \in Changing
      BY <1>5, <2>2 DEF RunOK, Optional, Early, Fencing, Changing
  <2> QED BY <1>1, <1>2, <2>2, <2>3, RunMove
<1>7. CASE ~(n < NNics)
  <2>1. CASE Exits(p)
      BY <1>1, <1>2, <1>5, <1>7, <2>1, RunExits
  <2>2. CASE GoesTo(p, "delete")
    <3>1. PICK r : r = [proc[p] EXCEPT !.pc = "delete"]
        OBVIOUS
    <3>2. r.pc = "delete" /\ Goes(p, r)
        BY <1>2, <2>2, <3>1 DEF Recs, GoesTo
    <3>3. RunOK(r, sgs', backups', lastfence')
        BY <1>5, <1>7, <3>2 DEF RunOK, Optional, Early, Fencing
    <3> QED BY <1>1, <1>2, <1>5, <1>7, <3>2, <3>3, RunMove
  <2> QED BY <1>4, <1>7, <2>1, <2>2 DEF NextRestore
<1> QED BY <1>4, <1>6, <1>7 DEF NextRestore

LEMMA RunDelete ==
    ASSUME IInv, Still, Still', setup.secg # {}, RunInv, NEW p \in Procs, restore_delete(p)
    PROVE  RunInv'
<1>1. setup' = setup /\ sgs' = sgs /\ ~Fault /\ ~At(p, "idle") /\ proc[p].pc = "delete"
    BY StillFacts DEF restore_delete, At
<1>2. sgs' = Home
    BY <1>1, RunFacts DEF RunOK
<1>3. lastfence' = 0 /\ Polls(p)
    BY <1>1 DEF restore_delete
<1> QED BY <1>1, <1>2, <1>3, RunExits

\* restore_security_groups_from_options, for an on.
LEMMA RunOptions ==
    ASSUME IInv, Still, Still', setup.secg # {}, RunInv, NEW p \in Procs,
           options_details(p) \/ options_put(p) \/ options_check(p) \/ options_verify(p)
    PROVE  RunInv'
<1> DEFINE n == Cur(p)
<1>1. /\ setup' = setup /\ lastfence' = lastfence /\ backups' = backups /\ ~Fault /\ ~At(p, "idle")
      /\ proc[p].pc \in Optional
    BY StillFacts DEF options_details, options_put, options_check, options_verify, cloudVars, At, Optional
<1>2. /\ RunOK(proc[p], sgs, backups, lastfence) /\ proc[p] \in Recs /\ n \in Nics /\ sgs \in Maps
      /\ Home \in Maps /\ Act(p) = "on" /\ interface_sg_present("on")
      /\ lastfence' # 0 => \A k \in Nics : Full(backups', lastfence', k, Home[k])
    BY <1>1, RunFacts, ProcType, StillFacts DEF IInv, Types, RunOK, Act
<1>3. \A k \in Nics : Desired("on", k) = Home[k] /\ Home[k] # {}
    BY <1>2, StillFacts, AwsVpcNetAssumption
<1>4. ASSUME sgs' = Home \/ AllFenced(sgs'), Exits(p) \/ Polls(p) PROVE RunInv'
    BY <1>1, <1>2, <1>4, RunExits
<1>5. \A ok : Returns(p, ok) => Polls(p)
    BY <1>2 DEF Returns
<1>6. ASSUME NEW r, Goes(p, r), r.pc \in {"put", "check", "verify"}, r.action = "on",
             r.pc = "put" => \A k \in Nics : sgs'[k] = IF k < r.at THEN Home[k] ELSE r.seen[k],
             r.pc = "check" => \A k \in Nics : sgs'[k] = IF k <= r.at THEN Home[k] ELSE r.seen[k],
             r.pc = "verify" => sgs' = Home
      PROVE  RunInv'
  <2>1. RunOK(r, sgs', backups', lastfence')
      BY <1>2, <1>6 DEF RunOK, Optional, Early, Fencing
  <2>2. r.pc \notin Changing => sgs' = Home
      BY <1>6 DEF Changing
  <2> QED BY <1>1, <1>2, <1>6, <2>1, <2>2, RunMove
<1>7. ASSUME NEW M, NextPut(p, M),
             \A k \in Nics : sgs'[k] = IF k < n + 1 THEN Home[k] ELSE proc[p].seen[k],
             ~(n < NNics) => sgs' = Home
      PROVE  RunInv'
  <2>1. CASE Goes(p, [proc[p] EXCEPT !.pc = "put", !.at = proc[p].at + 1, !.tries = 0, !.modified = M])
    <3>1. PICK r : r = [proc[p] EXCEPT !.pc = "put", !.at = proc[p].at + 1, !.tries = 0, !.modified = M]
        OBVIOUS
    <3>2. r.pc = "put" /\ r.at = n + 1 /\ r.seen = proc[p].seen /\ r.action = "on" /\ Goes(p, r)
        BY <1>2, <2>1, <3>1 DEF Recs, Cur, Act
    <3> HIDE DEF n
    <3> QED BY <1>6, <1>7, <3>2
  <2>2. CASE ~(n < NNics) /\ Goes(p, [proc[p] EXCEPT !.pc = "verify", !.modified = M])
    <3>1. PICK r : r = [proc[p] EXCEPT !.pc = "verify", !.modified = M]
        OBVIOUS
    <3>2. r.pc = "verify" /\ r.action = "on" /\ Goes(p, r)
        BY <1>2, <2>2, <3>1 DEF Recs, Act
    <3> QED BY <1>6, <1>7, <2>2, <3>2
  <2>3. CASE ~(n < NNics) /\ Returns(p, FALSE)
      BY <1>4, <1>5, <1>7, <2>3
  <2> QED BY <1>7, <2>1, <2>2, <2>3 DEF NextPut
<1>8. CASE options_details(p)
  <2>1. sgs' = sgs /\ proc[p].pc = "options" /\ proc[p].at = 1
      BY <1>2, <1>8 DEF options_details, cloudVars, At, RunOK
  <2>2. sgs = Home \/ AllFenced(sgs)
      BY <1>1, <2>1, RunFacts DEF Changing
  <2>3. PICK r : r = [proc[p] EXCEPT !.pc = "put", !.seen = sgs]
      OBVIOUS
  <2>4. r.pc = "put" /\ r.at = 1 /\ r.seen = sgs /\ r.action = "on"
      BY <1>2, <2>1, <2>3 DEF Recs, Act
  <2>5. Exits(p) \/ Goes(p, r)
      BY <1>1, <1>8, <2>3 DEF options_details
  <2>6. \A k \in Nics : ~(k < 1)
      BY DEF Nics
  <2> QED BY <1>4, <1>6, <2>1, <2>2, <2>4, <2>5, <2>6
<1>9. CASE options_put(p)
  <2>0. /\ \A k \in Nics : sgs[k] = IF k < n THEN Home[k] ELSE proc[p].seen[k]
        /\ Desired(Act(p), n) = Home[n] /\ Home[n] # {} /\ proc[p].pc = "put"
      BY <1>2, <1>3, <1>9 DEF options_put, At, RunOK, Cur
  <2>1. ~(n < n) /\ sgs[n] = proc[p].seen[n]
      BY <1>2, <2>0 DEF Nics
  <2>2. PICK seen : seen = proc[p].seen
      OBVIOUS
  <2>3. CASE Home[n] = proc[p].seen[n] /\ sgs' = sgs /\ NextPut(p, proc[p].modified)
    <3>1. /\ \A k \in Nics : sgs'[k] = IF k < n + 1 THEN Home[k] ELSE seen[k]
          /\ ~(n < NNics) => sgs' = Home
      <4> HIDE DEF n
      <4>1. /\ \A m \in Nics : sgs[m] = IF m < n THEN Home[m] ELSE seen[m]
            /\ \A m \in Nics \ {n} : sgs'[m] = sgs[m]
            /\ sgs'[n] = Home[n] /\ sgs' \in Maps
          BY <1>2, <2>0, <2>1, <2>2, <2>3
      <4> QED BY <1>2, <4>1, OneMore
    <3> QED BY <1>7, <2>2, <2>3, <3>1
  <2>4. CASE sgs' = [sgs EXCEPT ![n] = Home[n]] /\ GoesTo(p, "check")
    <3>1. Home[n] \in SUBSET Groups
        BY <1>2 DEF Maps
    <3>2. sgs' \in Maps /\ sgs'[n] = Home[n] /\ \A m \in Nics \ {n} : sgs'[m] = sgs[m]
        BY <1>2, <2>4, <3>1 DEF Maps
    <3>3. \A k \in Nics : sgs'[k] = IF k <= n THEN Home[k] ELSE seen[k]
      <4> HIDE DEF n
      <4>1. \A m \in Nics : sgs[m] = IF m < n THEN Home[m] ELSE seen[m]
          BY <2>0, <2>2
      <4> QED BY <1>2, <3>2, <4>1, OneMore
    <3>4. PICK r : r = [proc[p] EXCEPT !.pc = "check"]
        OBVIOUS
    <3>5. r.pc = "check" /\ r.at = n /\ r.seen = seen /\ r.action = "on" /\ Goes(p, r)
        BY <1>2, <2>2, <2>4, <3>4 DEF Recs, Cur, Act, GoesTo
    <3> HIDE DEF n
    <3> QED BY <1>6, <3>3, <3>5
  <2> QED BY <1>1, <1>9, <2>0, <2>3, <2>4 DEF options_put
<1>10. CASE options_check(p)
  <2>0. /\ \A k \in Nics : sgs[k] = IF k <= n THEN Home[k] ELSE proc[p].seen[k]
        /\ sgs' = sgs
      BY <1>2, <1>10 DEF options_check, At, RunOK, Cur, cloudVars
  <2>1. n \in Nat /\ NNics \in Nat /\ \A k \in Nics : k \in Nat /\ k <= NNics /\ (k <= n <=> k < n + 1)
      BY <1>2, AwsVpcNetAssumption DEF Nics
  <2>2. sgs[n] = Desired(Act(p), n)
      BY <1>2, <1>3, <2>0, <2>1
  <2>3. NextPut(p, proc[p].modified \cup {n})
      BY <1>1, <1>10, <2>2 DEF options_check
  <2>4. \A k \in Nics : sgs'[k] = IF k < n + 1 THEN Home[k] ELSE proc[p].seen[k]
      BY <2>0, <2>1
  <2>5. ~(n < NNics) => sgs' = Home
    <3>1. ~(n < NNics) => \A k \in Nics : k <= n
        BY <2>1
    <3>2. ~(n < NNics) => \A k \in Nics : sgs[k] = Home[k]
        BY <2>0, <3>1
    <3> QED BY <1>2, <2>0, <3>2 DEF Maps
  <2> QED BY <1>7, <2>3, <2>4, <2>5
<1>11. CASE options_verify(p)
  <2>1. sgs' = Home
      BY <1>2, <1>11 DEF options_verify, At, RunOK, cloudVars
  <2> QED BY <1>1, <1>4, <1>5, <1>11, <2>1 DEF options_verify
<1> QED BY <1>8, <1>9, <1>10, <1>11

LEMMA RunStart ==
    ASSUME IInv, Still, Still', RunInv, NEW p \in Procs, NEW a \in {"on", "off"}, Start(p, a)
    PROVE  RunInv'
<1>1. PICK r : r = [Idle EXCEPT !.pc = "status", !.action = a]
    OBVIOUS
<1>2. UNCHANGED <<setup, sgs, lastfence, backups>> /\ Goes(p, r)
    BY <1>1 DEF Start, cloudVars
<1>3. r.pc = "status" /\ r.at = 1
    BY <1>1 DEF Idle
<1>4. proc'[p] = r /\ \A q \in Procs \ {p} : proc'[q] = proc[q]
    BY <1>2 DEF Goes, IInv, Types
<1>5. \A q \in Procs : At(q, "idle")
  <2>1. \A q \in Procs : ~At(q, "idle") => {a, Act(q)} \in overlaps'
      BY DEF Start
  <2> QED BY <2>1 DEF Still
<1>6. \A q, s \in Procs : q # s => At(q, "idle")' \/ At(s, "idle")'
    BY <1>4, <1>5 DEF At
<1>7. (\A g : Fenced(g)' = Fenced(g)) /\ interface_sg_present("on")' = interface_sg_present("on")
    BY <1>2, SameSetup DEF interface_sg_present, Desired
<1>8. sgs' = Home \/ AllFenced(sgs)'
  <2>1. sgs = Home \/ AllFenced(sgs)
      BY <1>5 DEF RunInv, Changing, At
  <2> QED BY <1>2, <1>7, <2>1 DEF AllFenced
<1>9. \A q \in Procs : RunOK(proc'[q], sgs', backups', lastfence')
    BY <1>3, <1>4, <1>5 DEF RunOK, Optional, Early, Fencing, At
<1>10. \A q \in Procs : RunOK(proc[q], sgs, backups, lastfence)'
    BY <1>7, <1>9 DEF RunOK
<1> QED BY <1>2, <1>6, <1>8, <1>10 DEF RunInv

\* The history of an on is only written by the status.
LEMMA SetHistory ==
    ASSUME NEW p \in Procs, Set(p)
    PROVE  wrongOn' = wrongOn
BY DEF Set, self_check, set_power_status, set_power_status_match, modify_security_groups,
   create_backup_tag, set_lastfence_tag, modify_interface, shutdown_instance, restore_lastfence,
   restore_collect, restore_details, restore_interface, restore_delete, options_details,
   options_put, options_check, options_verify, history

\* Where StatusIs leads to.
LEMMA StatusIsGoes ==
    ASSUME NEW p \in Procs, proc[p] \in Recs, NEW s, StatusIs(p, s)
    PROVE  \E r : Goes(p, r) /\ r.pc \in {"idle", "set", "status"}
<1>1. [Idle EXCEPT !.pc = "status", !.action = Act(p), !.polls = proc[p].polls + 1].pc = "status"
    BY DEF Idle
<1>2. Idle.pc = "idle" /\ [proc[p] EXCEPT !.pc = "set"].pc = "set"
    BY DEF Idle, Recs
<1>3. ASSUME NEW r, Goes(p, r), r.pc \in {"idle", "set", "status"}
      PROVE  \E x : Goes(p, x) /\ x.pc \in {"idle", "set", "status"}
    BY <1>3
<1> QED BY <1>1, <1>2, <1>3 DEF StatusIs, Exits, GoesTo

\* No --secg, and options for an on: its status is what they say.
LEMMA PlainOptions ==
    ASSUME IInv, Still, Still', setup' = setup, setup.secg = {}, interface_sg_present("on"), PlainInv,
           ~wrongOn, NEW p \in Procs,
           Status(p) \/ Set(p) \/ \E a \in {"on", "off"} : Start(p, a)
    PROVE  PlainInv' /\ ~wrongOn'
<1> DEFINE Asking == {"fenced", "lastfence", "tags"}
<1>1. /\ proc[p] \in Recs /\ ~Fault /\ setup.ignoreState /\ interface_sg_present("on")'
      /\ \A q \in Procs : proc[q].pc \in Asking => proc[q].action # "on"
  <2>1. interface_sg_present("on")'
      BY DEF interface_sg_present, Desired
  <2> QED BY <2>1, ProcType DEF Still, Fault, Unseen, PlainInv
<1>2. ASSUME NEW r, Goes(p, r), r.pc \in Asking => r.action # "on"
      PROVE  PlainInv'
  <2>1. \A q \in Procs : proc'[q].pc \in Asking => proc'[q].action # "on"
      BY <1>1, <1>2 DEF Goes, IInv, Types
  <2> QED BY <1>1, <2>1 DEF PlainInv
<1>3. ASSUME NEW s, StatusIs(p, s), s = "on" /\ Act(p) = "on" => sgs = Home
      PROVE  PlainInv' /\ ~wrongOn'
  <2>1. ~wrongOn'
      BY <1>3 DEF StatusIs
  <2> QED BY <1>1, <1>2, <1>3, <2>1, StatusIsGoes
<1>4. CASE Set(p)
  <2>1. PICK r : Goes(p, r) /\ r.pc \notin Asking
      BY <1>1, <1>4, SetGoes
  <2> QED BY <1>2, <1>4, <2>1, SetHistory
<1>5. CASE \E a \in {"on", "off"} : Start(p, a)
  <2>1. PICK a \in {"on", "off"} : Start(p, a)
      BY <1>5
  <2>2. [Idle EXCEPT !.pc = "status", !.action = a].pc = "status"
      BY DEF Idle
  <2> QED BY <1>2, <2>1, <2>2 DEF Start
<1>6. CASE status_by_interfaces(p)
  <2>1. PICK s : s = IF check_interface_sg_match(Act(p)) = (Act(p) = "on") THEN "on" ELSE "off"
      OBVIOUS
  <2>2. StatusIs(p, s)
      BY <1>1, <1>6, <2>1 DEF status_by_interfaces
  <2>3. s = "on" /\ Act(p) = "on" => check_interface_sg_match("on")
      BY <2>1 DEF check_interface_sg_match
  <2>4. \A n \in Nics : Desired("on", n) = Home[n] /\ Home[n] # {}
      BY AwsVpcNetAssumption DEF Still, Restorable
  <2>5. check_interface_sg_match("on") => \A n \in Nics : sgs[n] = Home[n]
      BY <2>4 DEF check_interface_sg_match
  <2>6. sgs \in Maps /\ Home \in Maps
      BY AwsVpcNetAssumption DEF IInv, Types, Maps
  <2>7. (\A n \in Nics : sgs[n] = Home[n]) => sgs = Home
      BY <2>6 DEF Maps
  <2> QED BY <1>3, <2>2, <2>3, <2>5, <2>7
<1>7. ASSUME NEW l \in Asking, Act(p) # "on", NEW t,
             GoesTo(p, l) \/ Goes(p, [proc[p] EXCEPT !.pc = l, !.t = t]), UNCHANGED history
      PROVE  PlainInv' /\ ~wrongOn'
  <2>1. PICK r : Goes(p, r) /\ r.action = Act(p)
    <3>1. [proc[p] EXCEPT !.pc = l].action = Act(p) /\ [proc[p] EXCEPT !.pc = l, !.t = t].action = Act(p)
        BY <1>1 DEF Recs, Act
    <3> QED BY <1>7, <3>1 DEF GoesTo
  <2> QED BY <1>2, <1>7, <2>1 DEF history
<1>8. CASE is_instance_fenced(p)
  <2>1. Act(p) # "on" /\ ~check_sg_modifications
      BY <1>1, <1>8 DEF is_instance_fenced, At, Act, ByInterfaces, check_sg_modifications
  <2> QED BY <1>7, <1>8, <2>1 DEF is_instance_fenced
<1>9. CASE is_instance_fenced_lastfence(p)
  <2>1. Act(p) # "on"
      BY <1>1, <1>9 DEF is_instance_fenced_lastfence, At, Act
  <2> QED BY <1>1, <1>3, <1>7, <1>9, <2>1 DEF is_instance_fenced_lastfence
<1>10. CASE is_instance_fenced_tags(p)
  <2>1. Act(p) # "on"
      BY <1>1, <1>10 DEF is_instance_fenced_tags, At, Act
  <2> QED BY <1>1, <1>3, <1>10, <2>1 DEF is_instance_fenced_tags
<1> QED BY <1>4, <1>5, <1>6, <1>8, <1>9, <1>10 DEF Status

\* Neither --secg nor options: nothing changes the groups.
LEMMA PlainNothing ==
    ASSUME IInv, Still, Still', setup' = setup, setup.secg = {}, ~interface_sg_present("on"), PlainInv,
           ~wrongOn, NEW p \in Procs,
           Status(p) \/ Set(p) \/ \E a \in {"on", "off"} : Start(p, a)
    PROVE  PlainInv' /\ ~wrongOn'
<1> DEFINE Places == {"idle", "status", "lastfence", "set", "restore"}
<1>1. /\ proc[p] \in Recs /\ ~Fault /\ ~interface_sg_present("on")' /\ sgs = Home /\ lastfence = 0
      /\ \A q \in Procs : proc[q].pc \in Places
  <2>1. interface_sg_present("on")' = interface_sg_present("on")
      BY DEF interface_sg_present, Desired
  <2> QED BY <2>1, ProcType DEF Still, Fault, PlainInv
<1>2. ~interface_sg_present("off")
  <2>1. 1 \in Nics
      BY AwsVpcNetAssumption DEF Nics
  <2>2. Desired("on", 1) = {} /\ Home[1] # {}
      BY <2>1, AwsVpcNetAssumption DEF interface_sg_present
  <2> QED BY <2>1, <2>2 DEF Still, Restorable
<1>3. ASSUME NEW r, Goes(p, r), r.pc \in Places, UNCHANGED <<sgs, lastfence>>, ~wrongOn'
      PROVE  PlainInv' /\ ~wrongOn'
  <2>1. \A q \in Procs : proc'[q].pc \in Places
      BY <1>1, <1>3 DEF Goes, IInv, Types
  <2> QED BY <1>1, <1>3, <2>1 DEF PlainInv
<1>4. ASSUME UNCHANGED <<sgs, lastfence>>, ~wrongOn', Exits(p) \/ Polls(p)
      PROVE  PlainInv' /\ ~wrongOn'
  <2>1. [Idle EXCEPT !.pc = "status", !.action = Act(p), !.polls = 1].pc = "status" /\ Idle.pc = "idle"
      BY DEF Idle
  <2> QED BY <1>3, <1>4, <2>1 DEF Exits, Polls
<1>5. CASE \E a \in {"on", "off"} : Start(p, a)
  <2>1. PICK a \in {"on", "off"} : Start(p, a)
      BY <1>5
  <2>2. [Idle EXCEPT !.pc = "status", !.action = a].pc = "status"
      BY DEF Idle
  <2> QED BY <1>3, <2>1, <2>2 DEF Start, cloudVars
<1>6. CASE Status(p)
  <2>1. UNCHANGED <<sgs, lastfence>> /\ ~At(p, "idle") /\ ~At(p, "fenced") /\ ~At(p, "tags")
    <3>1. UNCHANGED <<sgs, lastfence>> /\ ~At(p, "idle")
        BY <1>6 DEF Status, status_by_interfaces, is_instance_fenced, is_instance_fenced_lastfence,
           is_instance_fenced_tags, cloudVars, At
    <3> QED BY <1>1, <3>1 DEF At
  <2>2. ~ByInterfaces(p)
      BY <1>2, <2>1, ProcType DEF ByInterfaces
  <2>3. CASE is_instance_fenced(p)
    <3>1. GoesTo(p, "lastfence") /\ UNCHANGED history
        BY <2>3 DEF is_instance_fenced, check_sg_modifications
    <3>2. [proc[p] EXCEPT !.pc = "lastfence"].pc = "lastfence"
        BY <1>1, MovedFields
    <3> QED BY <1>3, <2>1, <3>1, <3>2 DEF GoesTo, history
  <2>4. CASE is_instance_fenced_lastfence(p)
    <3>1. StatusIs(p, "on")
        BY <1>1, <2>4 DEF is_instance_fenced_lastfence
    <3>2. ~wrongOn'
        BY <1>1, <3>1 DEF StatusIs
    <3> QED BY <1>1, <1>3, <2>1, <3>1, <3>2, StatusIsGoes
  <2> QED BY <1>6, <2>1, <2>2, <2>3, <2>4 DEF Status, status_by_interfaces, is_instance_fenced_tags
<1>7. CASE Set(p)
  <2>1. CASE At(p, "set")
    <3>1. self_check(p) \/ set_power_status(p)
        BY <1>7, <2>1 DEF Set, set_power_status_match, modify_security_groups, create_backup_tag,
           set_lastfence_tag, modify_interface, shutdown_instance, restore_lastfence, restore_collect,
           restore_details, restore_interface, restore_delete, options_details, options_put,
           options_check, options_verify, At
    <3>2. UNCHANGED <<sgs, lastfence>>
        BY <3>1 DEF self_check, set_power_status, cloudVars
    <3>3. ~At(p, "idle")
        BY <2>1 DEF At
    <3>4. Branch(p) \in {"return", "restore"}
        BY <1>2, <3>3, ProcType DEF Branch
    <3>5. [proc[p] EXCEPT !.pc = Branch(p), !.t = now + 1].pc = Branch(p)
        BY <1>1 DEF Recs
    <3>6. ASSUME Branch(p) = "restore", Goes(p, [proc[p] EXCEPT !.pc = Branch(p), !.t = now + 1])
          PROVE  PlainInv' /\ ~wrongOn'
        BY <1>3, <1>7, <3>2, <3>5, <3>6, SetHistory
    <3> QED BY <1>1, <1>4, <1>7, <3>1, <3>2, <3>4, <3>6, SetHistory DEF self_check, set_power_status
  <2>2. CASE At(p, "restore")
    <3>1. restore_lastfence(p)
        BY <1>7, <2>2 DEF Set, self_check, set_power_status, set_power_status_match,
           modify_security_groups, create_backup_tag, set_lastfence_tag, modify_interface,
           shutdown_instance, restore_collect, restore_details, restore_interface, restore_delete,
           options_details, options_put, options_check, options_verify, At
    <3>2. UNCHANGED <<sgs, lastfence>> /\ Exits(p)
        BY <1>1, <3>1 DEF restore_lastfence, cloudVars
    <3> QED BY <1>4, <1>7, <3>2, SetHistory
  <2>3. proc[p].pc \in {"set", "restore"}
    <3>1. proc[p].pc \notin {"idle", "status", "lastfence"}
        BY <1>7 DEF Set, self_check, set_power_status, set_power_status_match, modify_security_groups,
           create_backup_tag, set_lastfence_tag, modify_interface, shutdown_instance, restore_lastfence,
           restore_collect, restore_details, restore_interface, restore_delete, options_details,
           options_put, options_check, options_verify, At
    <3> QED BY <1>1, <3>1
  <2> QED BY <2>1, <2>2, <2>3 DEF At
<1> QED BY <1>5, <1>6, <1>7

LEMMA InitOn == Init => OnInv
<1> SUFFICES ASSUME Init PROVE faults \in Nat /\ (IF setup.secg # {} THEN RunInv ELSE PlainInv) /\ ~wrongOn
    BY InitIInv DEF OnInv
<1>1. \A p \in Procs : proc[p] = Idle
    BY DEF Init
<1>2. Idle.pc = "idle" /\ Idle.at = 1
    BY DEF Idle
<1>3. RunOK(Idle, sgs, backups, lastfence)
    BY <1>2 DEF RunOK, Optional, Early, Fencing
<1>4. RunInv
    BY <1>1, <1>2, <1>3 DEF Init, RunInv, At
<1>5. PlainInv
    BY <1>1, <1>2 DEF Init, PlainInv
<1> QED BY <1>4, <1>5 DEF Init

LEMMA NextOn == OnInv /\ [Next]_vars => OnInv'
<1> SUFFICES ASSUME OnInv, [Next]_vars PROVE OnInv'
    OBVIOUS
<1>0. IInv /\ IInv' /\ faults \in Nat
    BY NextIInv DEF OnInv
<1>a. setup' = setup => /\ LeavesOne' = LeavesOne /\ Unseen' = Unseen /\ Restorable' = Restorable
                        /\ (\A g : Fenced(g)' = Fenced(g))
                        /\ interface_sg_present("on")' = interface_sg_present("on")
    BY SameSetup DEF Unseen, Restorable, interface_sg_present, Desired
<1>1. CASE UNCHANGED vars
  <2>1. UNCHANGED <<setup, sgs, backups, lastfence, proc, faults, overlaps, wrongOn>>
      BY <1>1 DEF vars, cloudVars, history
  <2>2. Still' => Still
      BY <1>a, <2>1 DEF Still
  <2>3. RunInv => RunInv'
    <3> SUFFICES ASSUME RunInv PROVE RunInv'
        OBVIOUS
    <3>1. \A q \in Procs : RunOK(proc'[q], sgs', backups', lastfence')
        BY <2>1 DEF RunInv
    <3>2. \A q \in Procs : RunOK(proc[q], sgs, backups, lastfence)'
        BY <1>a, <2>1, <3>1 DEF RunOK
    <3>3. AllFenced(sgs)' <=> AllFenced(sgs)
        BY <1>a, <2>1 DEF AllFenced
    <3> QED BY <2>1, <3>2, <3>3 DEF RunInv, At
  <2>4. PlainInv => PlainInv'
      BY <1>a, <2>1 DEF PlainInv
  <2> QED BY <1>0, <2>1, <2>2, <2>3, <2>4 DEF OnInv
<1>2. ASSUME NEW p \in Procs, Status(p) \/ Set(p) \/ Kill(p) \/ \E a \in {"on", "off"} : Start(p, a)
      PROVE  OnInv'
  <2>1. setup' = setup /\ faults' \in {faults, faults + 1} /\ overlaps \subseteq overlaps'
      BY <1>0, <1>2, Grow
  <2>2. faults' \in Nat
      BY <1>0, <2>1
  <2>3. ASSUME Still' PROVE (IF setup'.secg # {} THEN RunInv' ELSE PlainInv') /\ ~wrongOn'
    <3>1. Still
      <4>1. faults = 0
          BY <1>0, <2>1, <2>3 DEF Still
      <4>2. overlaps = {}
          BY <2>1, <2>3 DEF Still
      <4>3. ~LeavesOne /\ ~Unseen /\ Restorable
        <5>1. ~LeavesOne' /\ ~Unseen' /\ Restorable'
            BY <2>3 DEF Still
        <5>2. LeavesOne' = LeavesOne /\ Unseen' = Unseen /\ Restorable' = Restorable
            BY <1>a, <2>1
        <5> QED BY <5>1, <5>2, Zenon
      <4> QED BY <4>1, <4>2, <4>3 DEF Still
    <3>2. (IF setup.secg # {} THEN RunInv ELSE PlainInv) /\ ~wrongOn
        BY <3>1 DEF OnInv
    <3>3. ~Kill(p)
        BY <2>3, <3>1 DEF Kill, Fault, Still
    <3>4. CASE setup.secg # {}
      <4>1. CASE Status(p)
          BY <1>0, <2>1, <2>3, <3>1, <3>2, <3>4, <4>1, RunStatus
      <4>2. CASE Set(p)
        <5>1. ~At(p, "match")
            BY <3>2, <3>4 DEF RunInv, RunOK, At
        <5>2. RunInv'
            BY <1>0, <2>3, <3>1, <3>2, <3>4, <4>2, <5>1, RunOff, RunBackup, RunUpdate, RunRestore, RunGive,
               RunDelete, RunOptions DEF Set, set_power_status_match
        <5> QED BY <2>1, <3>2, <3>4, <4>2, <5>2, SetHistory
      <4>3. CASE \E a \in {"on", "off"} : Start(p, a)
        <5>1. PICK a \in {"on", "off"} : Start(p, a)
            BY <4>3
        <5>2. RunInv'
            BY <1>0, <2>3, <3>1, <3>2, <3>4, <5>1, RunStart
        <5> QED BY <2>1, <3>2, <3>4, <5>1, <5>2 DEF Start
      <4> QED BY <1>2, <3>3, <4>1, <4>2, <4>3
    <3>5. CASE setup.secg = {}
      <4>1. PlainInv' /\ ~wrongOn'
          BY <1>0, <1>2, <2>1, <2>3, <3>1, <3>2, <3>3, <3>5, PlainOptions, PlainNothing
      <4> QED BY <2>1, <3>5, <4>1
    <3> QED BY <3>4, <3>5
  <2> QED BY <1>0, <2>2, <2>3 DEF OnInv
<1> QED BY <1>1, <1>2 DEF Next

\* Code 0 for an on of fence_aws_vpc_net means that every interface has the
\* groups of its service again, with any interfaces and groups, tags of any
\* number of chunks and any number of agents: for agents that run one after the
\* other without a failing call, if no interface has to be left alone, the
\* status can tell what was changed, and the options name, for every interface
\* or for none, the groups to be restored.
THEOREM OnIsHomeCorrect == Spec => [](Restorable => OnIsHome)
<1>1. OnInv => (Restorable => OnIsHome)
    BY DEF OnInv, OnIsHome, Still
<1>2. Init => OnInv
    BY InitOn
<1>3. OnInv /\ [Next]_vars => OnInv'
    BY NextOn
<1> QED BY <1>1, <1>2, <1>3, PTL DEF Spec
=============================================================================
