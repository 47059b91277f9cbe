---------------------------- MODULE DispatchProofs ----------------------------
(***************************************************************************)
(* Proofs about Dispatch, for every set of agents, links, connections and  *)
(* commands: the registry, the types, the fence, then the sessions.        *)
(***************************************************************************)
EXTENDS Dispatch, TLAPS

-----------------------------------------------------------------------------
(* The operators of Workers keep registry values.                          *)

\* The entry of an agent that is not registered is a registry entry.
LEMMA NoWorkerType == NoWorker \in Worker
BY DEF NoWorker, Worker

\* Renaming a reported link to the spelling its peer registered under gives a
\* link of the instance.
LEMMA FoldReportedType ==
    ASSUME NEW r \in [Agents -> Worker], NEW x \in Agents, NEW l \in Links
    PROVE  FoldReported(r, x, l) \in Links
<1>1. CASE \E k \in Known(r) : NameKey[k] = NameKey[l.to]
  <2> DEFINE k == CHOOSE k \in Known(r) : NameKey[k] = NameKey[l.to]
  <2>1. k \in Known(r) /\ NameKey[k] = NameKey[l.to]
    BY <1>1
  <2>2. k \in Agents
    BY <2>1 DEF Known
  <2>3. RenameTo(l, k) \in Links
    BY <2>1, <2>2, WorkersAssumption
  <2>4. QED
    BY <1>1, <2>3 DEF FoldReported
<1>2. CASE ~\E k \in Known(r) : NameKey[k] = NameKey[l.to]
  BY <1>2, WorkersAssumption DEF FoldReported
<1>3. QED
  BY <1>1, <1>2

\* Renaming the links of the other agents to a newcomer's spelling gives links.
LEMMA FoldOtherType ==
    ASSUME NEW x \in Agents, NEW l \in Links
    PROVE  FoldOther(x, l) \in Links
BY WorkersAssumption DEF FoldOther

\* WorkerRegistry::register keeps the registry well typed.
LEMMA RegisterType ==
    ASSUME NEW r \in [Agents -> Worker], NEW x \in Agents, NEW ls \in SUBSET Links
    PROVE  Register(r, x, ls) \in [Agents -> Worker]
<1> DEFINE folded == {FoldReported(r, x, l) : l \in ls}
<1>1. folded \in SUBSET Links
  BY FoldReportedType
<1>2. [known    |-> TRUE,
       links    |-> folded,
       gen      |-> r[x].gen,
       sent     |-> [l \in Links |-> NoCost],
       retry    |-> {},
       issued   |-> {p \in r[x].issued : p[1] \in folded},
       inflight |-> {p \in r[x].inflight : p[1] \in folded}] \in Worker
  BY <1>1 DEF Worker
<1>3. ASSUME NEW y \in Agents
      PROVE  [r[y] EXCEPT !.links = {FoldOther(x, l) : l \in @}] \in Worker
  <2>1. {FoldOther(x, l) : l \in r[y].links} \in SUBSET Links
    BY FoldOtherType DEF Worker
  <2>2. QED
    BY <2>1 DEF Worker
<1>4. QED
  BY <1>2, <1>3 DEF Register

\* WorkerRegistry::resolve_peers keeps the registry well typed.
LEMMA ResolvePeersType ==
    ASSUME NEW r \in [Agents -> Worker],
           NEW dir \in [Rids -> Agents \cup {NoName}],
           \A q \in Rids : dir[q] # NoName => RouterId[dir[q]] = q
    PROVE  ResolvePeers(r, dir) \in [Agents -> Worker]
<1>1. ASSUME NEW l \in Links PROVE NameByDirectory(dir, l) \in Links
  <2>1. l.interface \in Interfaces
    BY WorkersAssumption
  <2>2. CASE DirectoryName(dir, l) = NoName
    BY <2>2 DEF NameByDirectory
  <2>3. CASE DirectoryName(dir, l) # NoName
    <3>1. PeerRid[l.interface] \in Rids
      BY <2>3 DEF DirectoryName
    <3>2. DirectoryName(dir, l) = dir[PeerRid[l.interface]]
      BY <3>1 DEF DirectoryName
    <3>3. DirectoryName(dir, l) \in Agents
      BY <2>3, <3>1, <3>2
    <3>4. RouterId[DirectoryName(dir, l)] = PeerRid[l.interface]
      BY <2>3, <3>1, <3>2
    <3>5. RenameTo(l, DirectoryName(dir, l)) \in Links
      BY <3>1, <3>3, <3>4, WorkersAssumption
    <3>6. QED
      BY <2>3, <3>5 DEF NameByDirectory
  <2>4. QED
    BY <2>2, <2>3
<1>2. ASSUME NEW y \in Agents
      PROVE  [r[y] EXCEPT !.links = {NameByDirectory(dir, l) : l \in @}] \in Worker
  <2>1. {NameByDirectory(dir, l) : l \in r[y].links} \in SUBSET Links
    BY <1>1 DEF Worker
  <2>2. QED
    BY <2>1 DEF Worker
<1>3. QED
  BY <1>2 DEF ResolvePeers

\* WorkerRegistry::attach and detach keep the registry well typed.
LEMMA SessionOpsType ==
    ASSUME NEW r \in [Agents -> Worker], NEW x \in Agents, NEW own \in Nat, NEW g \in Nat
    PROVE  /\ Attach(r, x, own, g) \in [Agents -> Worker]
           /\ Detach(r, x, g) \in [Agents -> Worker]
<1>1. Attach(r, x, own, g) \in [Agents -> Worker]
  <2>1. r[x] \in Worker
    OBVIOUS
  <2>2. [r[x] EXCEPT !.known = TRUE, !.gen = g, !.inflight = {}] \in Worker
    BY <2>1 DEF Worker
  <2>3. QED
    BY <2>2 DEF Attach
<1>2. Detach(r, x, g) \in [Agents -> Worker]
  BY NoWorkerType DEF Detach
<1>3. QED
  BY <1>1, <1>2

\* Claiming and freeing a (link, kind) slot keep the registry well typed.
LEMMA SlotOpsType ==
    ASSUME NEW r \in [Agents -> Worker], NEW x \in Agents, NEW l \in Links, NEW k \in Kinds
    PROVE  /\ Begin(r, x, l, k) \in [Agents -> Worker]
           /\ End(r, x, l, k) \in [Agents -> Worker]
           /\ k \in Tiers => MarkIssued(r, x, l, k) \in [Agents -> Worker]
<1>1. r[x] \in Worker
  OBVIOUS
<1>2. Begin(r, x, l, k) \in [Agents -> Worker]
  <2>1. [r[x] EXCEPT !.inflight = @ \cup {<<l, k>>}] \in Worker
    BY <1>1 DEF Worker
  <2>2. QED
    BY <2>1 DEF Begin
<1>3. End(r, x, l, k) \in [Agents -> Worker]
  <2>1. [r[x] EXCEPT !.inflight = @ \ {<<l, k>>}] \in Worker
    BY <1>1 DEF Worker
  <2>2. QED
    BY <2>1 DEF End
<1>4. ASSUME k \in Tiers PROVE MarkIssued(r, x, l, k) \in [Agents -> Worker]
  <2>1. [r[x] EXCEPT !.issued = @ \cup {<<l, k>>}] \in Worker
    BY <1>1, <1>4 DEF Worker
  <2>2. QED
    BY <2>1 DEF MarkIssued
<1>5. QED
  BY <1>2, <1>3, <1>4

\* The cost fields of an entry may be replaced by others of their types.
LEMMA CostFieldsType ==
    ASSUME NEW w \in Worker, NEW s \in [Links -> Costs \cup {NoCost}], NEW t \in SUBSET Links
    PROVE  [w EXCEPT !.sent = s, !.retry = t] \in Worker
BY DEF Worker

\* Recording a cost as sent, or as failed, keeps the registry well typed.
LEMMA CostOpsType ==
    ASSUME NEW r \in [Agents -> Worker], NEW x \in Agents, NEW l \in Links,
           NEW k \in Costs \cup {NoCost}
    PROVE  /\ SetAppliedSent(r, x, l, k) \in [Agents -> Worker]
           /\ NoteApplyFailed(r, x, l) \in [Agents -> Worker]
<1>1. SetAppliedSent(r, x, l, k) \in [Agents -> Worker]
  <2>1. [r[x].sent EXCEPT ![l] = k] \in [Links -> Costs \cup {NoCost}]
    BY DEF Worker
  <2>2. r[x].retry \ {l} \in SUBSET Links
    BY DEF Worker
  <2>3. [r[x] EXCEPT !.sent = [r[x].sent EXCEPT ![l] = k],
                     !.retry = r[x].retry \ {l}] \in Worker
    BY <2>1, <2>2, CostFieldsType
  <2>4. QED
    BY <2>3 DEF SetAppliedSent
<1>2. NoteApplyFailed(r, x, l) \in [Agents -> Worker]
  <2>1. [r[x].sent EXCEPT ![l] = NoCost] \in [Links -> Costs \cup {NoCost}]
    BY DEF Worker
  <2>2. r[x].retry \cup {l} \in SUBSET Links
    BY DEF Worker
  <2>3. [r[x] EXCEPT !.sent = [r[x].sent EXCEPT ![l] = NoCost],
                     !.retry = r[x].retry \cup {l}] \in Worker
    BY <2>1, <2>2, CostFieldsType
  <2>4. QED
    BY <2>3 DEF NoteApplyFailed
<1>3. QED
  BY <1>1, <1>2

\* A probe interval or a retry delay that elapses keeps the registry well typed.
LEMMA ElapseType ==
    ASSUME NEW r \in [Agents -> Worker], NEW x \in Agents, NEW p, NEW l
    PROVE  /\ [r EXCEPT ![x].issued = @ \ {p}] \in [Agents -> Worker]
           /\ [r EXCEPT ![x].retry = @ \ {l}] \in [Agents -> Worker]
BY DEF Worker

-----------------------------------------------------------------------------
(* Types.                                                                  *)

\* The state the controller starts in is well typed.
LEMMA InitType == Init => TypeOK
<1> SUFFICES ASSUME Init PROVE TypeOK
  OBVIOUS
<1> USE DEF Init, NoLeases
<1>1. RegOK
  BY NoWorkerType DEF RegOK
<1>2. DirectoryOK
  BY DEF DirectoryOK
<1>3. ConnOK
  BY DEF ConnOK, Connection, UnusedConn
<1>4. TaskOK
  BY DEF TaskOK, Task, FreeTask, Kinds, Tiers
<1>5. FenceOK
  BY DEF FenceOK
<1>6. SchedOK
  BY DEF SchedOK, Scheduler, IdleScheduler, Kinds, Tiers
<1>7. QED
  BY <1>1, <1>2, <1>3, <1>4, <1>5, <1>6 DEF TypeOK

\* Spawning a command keeps the registry and the tasks well typed.
LEMMA SpawnType ==
    ASSUME RegOK, TaskOK, ConnOK, NEW i \in Ids, NEW x \in Agents, NEW l \in Links,
           NEW k \in Kinds, NEW v \in Costs \cup {NoCost}, Spawn(i, x, l, k, v)
    PROVE  /\ reg' \in [Agents -> Worker]
           /\ TaskOK'
<1>1. reg' \in [Agents -> Worker]
  BY SlotOpsType DEF Spawn, RegOK
<1>2. PICK y \in Conns : task' = [task EXCEPT ![i] =
          [st |-> "open", conn |-> y, agent |-> x, link |-> l, kind |-> k, cost |-> v]]
  BY DEF Spawn
<1>3. [st |-> "open", conn |-> y, agent |-> x, link |-> l, kind |-> k, cost |-> v] \in Task
  BY DEF Task
<1>4. task' \in [Ids -> Task]
  BY <1>2, <1>3 DEF TaskOK
<1>5. QED
  BY <1>1, <1>2, <1>4 DEF TaskOK

\* A connection whose handler makes progress stays well typed.
LEMMA ConnUpdateType ==
    ASSUME ConnOK, NEW x \in Conns, NEW u \in Connection,
           u.pc \notin {"unused", "done"} => u.agent \in Agents,
           u.pc = "seeded" => u.link \in Links,
           conn' = [conn EXCEPT ![x] = u]
    PROVE  ConnOK'
BY DEF ConnOK

\* A command whose reply or failure has been handled stays well typed.
LEMMA SettleType ==
    ASSUME TaskOK, NEW i \in Ids, task[i].st = "open", Settle(i)
    PROVE  TaskOK'
<1>1. task' = [task EXCEPT ![i].st = "ending"]
  BY DEF Settle
<1>2. [task[i] EXCEPT !.st = "ending"] \in Task
  BY DEF TaskOK, Task
<1>3. task' \in [Ids -> Task]
  BY <1>1, <1>2 DEF TaskOK
<1>4. ASSUME NEW j \in Ids, task'[j].st # "free"
      PROVE  task'[j].agent \in Agents /\ task'[j].link \in Links
  BY <1>1, <1>4 DEF TaskOK, Task
<1>5. QED
  BY <1>3, <1>4 DEF TaskOK

\* Acquiring, releasing and dropping leases keep the fence well typed.
LEMMA LeaseOpsType ==
    ASSUME FenceOK, NEW l \in Links, NEW i \in Ids
    PROVE  /\ Release(leases, l, i) \in [Links -> Ids \cup {NoToken}]
           /\ Retain(leases, lapsed) \in [Links -> Ids \cup {NoToken}]
           /\ Acquire(leases, lapsed, l, i) \in [Links -> Ids \cup {NoToken}]
<1>1. Release(leases, l, i) \in [Links -> Ids \cup {NoToken}]
  BY DEF FenceOK, Release
<1>2. Retain(leases, lapsed) \in [Links -> Ids \cup {NoToken}]
  BY DEF FenceOK, Retain
<1>3. Acquire(leases, lapsed, l, i) \in [Links -> Ids \cup {NoToken}]
  BY <1>2 DEF Acquire
<1>4. QED
  BY <1>1, <1>2, <1>3

\* The registered spelling of a link is a link (WorkerRegistry::canonical_peer).
LEMMA CanonicalType ==
    ASSUME RegOK, NEW l \in Links
    PROVE  RenameTo(l, CanonicalPeer(reg, l.to)) \in Links
<1>1. CASE l.to \in Known(reg)
  <2>1. l.to \in Agents
    BY <1>1 DEF Known
  <2>2. CanonicalPeer(reg, l.to) = l.to
    BY <1>1 DEF CanonicalPeer
  <2>3. QED
    BY <2>1, <2>2, WorkersAssumption
<1>2. CASE l.to \notin Known(reg) /\ \E k \in Known(reg) : NameKey[k] = NameKey[l.to]
  <2> DEFINE k == CHOOSE k \in Known(reg) : NameKey[k] = NameKey[l.to]
  <2>1. k \in Known(reg) /\ NameKey[k] = NameKey[l.to]
    BY <1>2
  <2>2. k \in Agents
    BY <2>1 DEF Known
  <2>3. CanonicalPeer(reg, l.to) = k
    BY <1>2 DEF CanonicalPeer
  <2>4. QED
    BY <2>1, <2>2, <2>3, WorkersAssumption
<1>3. CASE l.to \notin Known(reg) /\ ~\E k \in Known(reg) : NameKey[k] = NameKey[l.to]
  <2>1. CanonicalPeer(reg, l.to) = l.to
    BY <1>3 DEF CanonicalPeer
  <2>2. RenameTo(l, l.to) = l
    BY WorkersAssumption DEF RenameTo
  <2>3. QED
    BY <2>1, <2>2
<1>4. QED
  BY <1>1, <1>2, <1>3

\* Every step keeps the types.
LEMMA StepType == TypeOK /\ [Next]_vars => TypeOK'
<1> SUFFICES ASSUME TypeOK, [Next]_vars PROVE TypeOK'
  OBVIOUS
<1> USE DEF TypeOK
<1>1. ASSUME NEW x \in Conns, NEW y \in Agents, NEW ls \in Reports[y], RegisterLinks(x, y, ls)
      PROVE  TypeOK'
  <2>1. RegisterLinks(x, y, ls)
    BY <1>1
  <2>2. RegOK'
    <3>1. ls \in SUBSET Links
      BY DispatchAssumption
    <3>2. QED
      BY <2>1, <3>1, RegisterType DEF RegOK, RegisterLinks
  <2>3. ConnOK'
    <3>1. ls \in SUBSET Links
      BY DispatchAssumption
    <3>2. PICK u : u = [conn[x] EXCEPT !.pc = "directory", !.agent = y, !.links = ls]
      OBVIOUS
    <3>3. conn[x] \in Connection
      BY DEF ConnOK
    <3>4. u \in Connection /\ u.pc = "directory" /\ u.agent = y
      BY <3>1, <3>2, <3>3 DEF Connection
    <3>5. conn' = [conn EXCEPT ![x] = u]
      BY <2>1, <3>2 DEF RegisterLinks
    <3>6. QED
      BY <3>4, <3>5, ConnUpdateType
  <2>4. DirectoryOK' /\ TaskOK' /\ FenceOK' /\ SchedOK' /\ (kvCost \in [Links -> Costs \cup {NoCost}])'
    BY <2>1 DEF RegisterLinks, DirectoryOK, TaskOK, FenceOK, SchedOK
  <2>5. QED
    BY <2>2, <2>3, <2>4
<1>2. ASSUME NEW x \in Conns, SyncDirectory(x)
      PROVE  TypeOK'
  <2>1. SyncDirectory(x)
    BY <1>2
  <2>D. DirectoryOK'
    <3>1. conn[x].agent \in Agents
      BY <2>1 DEF SyncDirectory, ConnOK
    <3>2. QED
      BY <2>1, <3>1, WorkersAssumption DEF DirectoryOK, SyncDirectory, SetNode
  <2>3. RegOK'
    BY <2>1, <2>D, ResolvePeersType DEF RegOK, DirectoryOK, SyncDirectory
  <2>4. ConnOK'
    BY <2>1 DEF ConnOK, Connection, SyncDirectory
  <2>5. TaskOK' /\ FenceOK' /\ SchedOK' /\ (kvCost \in [Links -> Costs \cup {NoCost}])'
    BY <2>1 DEF SyncDirectory, TaskOK, FenceOK, SchedOK
  <2>6. QED
    BY <2>D, <2>3, <2>4, <2>5
<1>3. ASSUME NEW x \in Conns, AttachSession(x)
      PROVE  TypeOK'
  <2>1. AttachSession(x)
    BY <1>3
  <2>2. RegOK'
    <3>1. conn[x].agent \in Agents /\ conn[x].gen \in Nat
      BY <2>1 DEF AttachSession, ConnOK, Connection
    <3> DEFINE own == conn[x].gen
               g == IF KeepsSession(reg, conn[x].agent, own) THEN own ELSE generation + 1
    <3>2. g \in Nat
      BY <3>1 DEF RegOK
    <3>3. reg' = Attach(reg, conn[x].agent, own, g)
      BY <2>1 DEF AttachSession
    <3>4. generation' \in Nat
      BY <2>1, <3>2 DEF AttachSession, RegOK
    <3>5. QED
      BY <3>1, <3>2, <3>3, <3>4, SessionOpsType DEF RegOK
  <2>3. ConnOK'
    <3>1. conn[x].agent \in Agents /\ conn[x].gen \in Nat
      BY <2>1 DEF AttachSession, ConnOK, Connection
    <3>2. reg[conn[x].agent].links \in SUBSET Links
      BY <3>1 DEF RegOK, Worker
    <3> DEFINE a == conn[x].agent
               own == conn[x].gen
               keeps == KeepsSession(reg, a, own)
               g == IF keeps THEN own ELSE generation + 1
    <3>3. g \in Nat
      BY <3>1 DEF RegOK
    <3>4. [conn[x] EXCEPT !.pc = "seed", !.gen = g, !.todo = reg[a].links] \in Connection
      BY <3>2, <3>3 DEF ConnOK, Connection
    <3>5. \A y \in Conns : [conn[y] EXCEPT !.up = FALSE] \in Connection
      BY DEF ConnOK, Connection
    <3>6. conn' = [y \in Conns |->
              IF y = x THEN [conn[x] EXCEPT !.pc = "seed", !.gen = g, !.todo = reg[a].links]
              ELSE IF ~keeps /\ AttachedTo(a, y) THEN [conn[y] EXCEPT !.up = FALSE] ELSE conn[y]]
      BY <2>1 DEF AttachSession
    <3>7. conn' \in [Conns -> Connection]
      BY <3>4, <3>5, <3>6 DEF ConnOK
    <3>8. ASSUME NEW y \in Conns
          PROVE  /\ conn'[y].pc \notin {"unused", "done"} => conn'[y].agent \in Agents
                 /\ conn'[y].pc = "seeded" => conn'[y].link \in Links
      BY <3>1, <3>6 DEF ConnOK, Connection
    <3>9. QED
      BY <3>7, <3>8 DEF ConnOK
  <2>4. DirectoryOK' /\ TaskOK' /\ FenceOK' /\ SchedOK' /\ (kvCost \in [Links -> Costs \cup {NoCost}])'
    BY <2>1 DEF AttachSession, DirectoryOK, TaskOK, FenceOK, SchedOK
  <2>5. QED
    BY <2>2, <2>3, <2>4
<1>4. ASSUME NEW x \in Conns, NEW l \in Links, NEW i \in Ids, SeedCost(x, l, i)
      PROVE  TypeOK'
  <2>1. SeedCost(x, l, i)
    BY <1>4
  <2>S. reg' \in [Agents -> Worker] /\ TaskOK'
    <3>1. conn[x].agent \in Agents /\ kvCost[l] \in Costs \cup {NoCost} /\ "apply" \in Kinds
      BY <2>1 DEF SeedCost, ConnOK, Kinds
    <3>2. Spawn(i, conn[x].agent, l, "apply", kvCost[l])
      BY <2>1 DEF SeedCost
    <3>3. QED
      BY <3>1, <3>2, SpawnType
  <2>2. RegOK'
    BY <2>1, <2>S DEF RegOK, SeedCost
  <2>3. TaskOK'
    BY <2>S
  <2>4. ConnOK'
    <3>1. PICK u : u = [conn[x] EXCEPT !.pc = "seeded", !.link = l, !.cost = kvCost[l]]
      OBVIOUS
    <3>2. conn[x] \in Connection /\ conn[x].agent \in Agents
      BY <2>1 DEF SeedCost, ConnOK
    <3>3. u \in Connection /\ u.agent \in Agents /\ u.link = l
      BY <3>1, <3>2 DEF Connection
    <3>4. conn' = [conn EXCEPT ![x] = u]
      BY <2>1, <3>1 DEF SeedCost
    <3>5. QED
      BY <2>1, <3>3, <3>4, ConnUpdateType DEF SeedCost
  <2>5. DirectoryOK' /\ FenceOK' /\ SchedOK' /\ (kvCost \in [Links -> Costs \cup {NoCost}])'
    BY <2>1 DEF SeedCost, DirectoryOK, FenceOK, SchedOK
  <2>6. QED
    BY <2>2, <2>3, <2>4, <2>5
<1>5. ASSUME NEW x \in Conns, NEW l \in Links, SkipSeed(x, l)
      PROVE  TypeOK'
  <2>1. SkipSeed(x, l)
    BY <1>5
  <2>2. ConnOK'
    BY <2>1 DEF ConnOK, Connection, SkipSeed
  <2>3. RegOK' /\ DirectoryOK' /\ TaskOK' /\ FenceOK' /\ SchedOK' /\ (kvCost \in [Links -> Costs \cup {NoCost}])'
    BY <2>1 DEF SkipSeed, RegOK, DirectoryOK, TaskOK, FenceOK, SchedOK
  <2>4. QED
    BY <2>2, <2>3
<1>6. ASSUME NEW x \in Conns, RecordSeed(x)
      PROVE  TypeOK'
  <2>1. RecordSeed(x)
    BY <1>6
  <2>2. RegOK'
    <3>1. conn[x].agent \in Agents /\ conn[x].link \in Links /\ conn[x].cost \in Costs \cup {NoCost}
      BY <2>1 DEF RecordSeed, ConnOK, Connection
    <3>2. QED
      BY <2>1, <3>1, CostOpsType DEF RegOK, RecordSeed
  <2>3. ConnOK'
    <3>1. conn[x].todo \ {conn[x].link} \in SUBSET Links
      BY DEF ConnOK, Connection
    <3>2. PICK u : u = [conn[x] EXCEPT !.pc = "seed", !.todo = conn[x].todo \ {conn[x].link},
                                       !.link = NoLink, !.cost = NoCost]
      OBVIOUS
    <3>3. conn[x] \in Connection /\ conn[x].agent \in Agents
      BY <2>1 DEF RecordSeed, ConnOK
    <3>4. u \in Connection /\ u.agent \in Agents /\ u.pc = "seed"
      BY <3>1, <3>2, <3>3 DEF Connection
    <3>5. conn' = [conn EXCEPT ![x] = u]
      BY <2>1, <3>2 DEF RecordSeed
    <3>6. QED
      BY <3>4, <3>5, ConnUpdateType
  <2>4. DirectoryOK' /\ TaskOK' /\ FenceOK' /\ SchedOK' /\ (kvCost \in [Links -> Costs \cup {NoCost}])'
    BY <2>1 DEF RecordSeed, DirectoryOK, TaskOK, FenceOK, SchedOK
  <2>5. QED
    BY <2>2, <2>3, <2>4
<1>7. ASSUME NEW x \in Conns, Registered(x)
      PROVE  TypeOK'
  <2>1. Registered(x)
    BY <1>7
  <2>2. ConnOK'
    BY <2>1 DEF ConnOK, Connection, Registered
  <2>3. RegOK' /\ DirectoryOK' /\ TaskOK' /\ FenceOK' /\ SchedOK' /\ (kvCost \in [Links -> Costs \cup {NoCost}])'
    BY <2>1 DEF Registered, RegOK, DirectoryOK, TaskOK, FenceOK, SchedOK
  <2>4. QED
    BY <2>2, <2>3
<1>8. ASSUME NEW x \in Conns, Close(x)
      PROVE  TypeOK'
  <2>1. Close(x)
    BY <1>8
  <2>2. ConnOK'
    <3>1. /\ conn'[x].pc = conn[x].pc /\ conn'[x].agent = conn[x].agent
          /\ conn'[x].link = conn[x].link
      BY <2>1 DEF ConnOK, Connection, Close
    <3>0. [conn[x] EXCEPT !.up = FALSE] \in Connection
      BY DEF ConnOK, Connection
    <3>2. conn' \in [Conns -> Connection]
      BY <2>1, <3>0 DEF ConnOK, Close
    <3>3. \A y \in Conns : y # x => conn'[y] = conn[y]
      BY <2>1 DEF ConnOK, Close
    <3>4. QED
      BY <3>1, <3>2, <3>3 DEF ConnOK
  <2>3. RegOK' /\ DirectoryOK' /\ TaskOK' /\ FenceOK' /\ SchedOK' /\ (kvCost \in [Links -> Costs \cup {NoCost}])'
    BY <2>1 DEF Close, RegOK, DirectoryOK, TaskOK, FenceOK, SchedOK
  <2>4. QED
    BY <2>2, <2>3
<1>9. ASSUME NEW x \in Conns, DetachSession(x)
      PROVE  TypeOK'
  <2>1. DetachSession(x)
    BY <1>9
  <2>2. RegOK'
    <3>1. conn[x].agent \in Agents /\ conn[x].gen \in Nat
      BY <2>1 DEF DetachSession, ConnOK, Connection
    <3>2. QED
      BY <2>1, <3>1, SessionOpsType DEF RegOK, DetachSession
  <2>3. ConnOK'
    <3>1. [UnusedConn EXCEPT !.pc = "done", !.up = FALSE] \in Connection
      BY DEF UnusedConn, Connection
    <3>2. QED
      BY <2>1, <3>1, ConnUpdateType DEF Connection, DetachSession, UnusedConn
  <2>4. DirectoryOK' /\ TaskOK' /\ FenceOK' /\ SchedOK' /\ (kvCost \in [Links -> Costs \cup {NoCost}])'
    BY <2>1 DEF DetachSession, DirectoryOK, TaskOK, FenceOK, SchedOK
  <2>5. QED
    BY <2>2, <2>3, <2>4
<1>10. ASSUME NEW y \in Agents, LearnNode(y)
      PROVE  TypeOK'
  <2>1. LearnNode(y)
    BY <1>10
  <2>D. DirectoryOK'
    BY <2>1, WorkersAssumption DEF DirectoryOK, LearnNode
  <2>3. RegOK'
    BY <2>1, <2>D, ResolvePeersType DEF RegOK, DirectoryOK, LearnNode
  <2>4. ConnOK' /\ TaskOK' /\ FenceOK' /\ SchedOK' /\ (kvCost \in [Links -> Costs \cup {NoCost}])'
    BY <2>1 DEF LearnNode, ConnOK, TaskOK, FenceOK, SchedOK
  <2>5. QED
    BY <2>D, <2>3, <2>4
<1>11. ASSUME NEW i \in Ids, ReplyProbe(i)
      PROVE  TypeOK'
  <2>1. ReplyProbe(i)
    BY <1>11
  <2>2. TaskOK'
    BY <2>1, SettleType DEF ReplyProbe
  <2>3. FenceOK'
    <3>1. task[i].link \in Links
      BY <2>1 DEF ReplyProbe, TaskOK
    <3>2. QED
      BY <2>1, <3>1, CanonicalType, LeaseOpsType DEF FenceOK, ReplyProbe
  <2>4. RegOK' /\ DirectoryOK' /\ ConnOK' /\ SchedOK' /\ (kvCost \in [Links -> Costs \cup {NoCost}])'
    BY <2>1 DEF ReplyProbe, RegOK, DirectoryOK, ConnOK, SchedOK
  <2>5. QED
    BY <2>2, <2>3, <2>4
<1>12. ASSUME NEW i \in Ids, ReplyApplied(i)
      PROVE  TypeOK'
  <2>1. ReplyApplied(i)
    BY <1>12
  <2>2. TaskOK'
    BY <2>1, SettleType DEF ReplyApplied
  <2>3. RegOK'
    <3>1. task[i].agent \in Agents /\ task[i].link \in Links /\ task[i].cost \in Costs \cup {NoCost}
      BY <2>1 DEF ReplyApplied, TaskOK, Task
    <3>2. QED
      BY <2>1, <3>1, CostOpsType DEF RegOK, ReplyApplied
  <2>4. DirectoryOK' /\ ConnOK' /\ FenceOK' /\ SchedOK' /\ (kvCost \in [Links -> Costs \cup {NoCost}])'
    BY <2>1 DEF ReplyApplied, DirectoryOK, ConnOK, FenceOK, SchedOK
  <2>5. QED
    BY <2>2, <2>3, <2>4
<1>13. ASSUME NEW i \in Ids, ReplyNoted(i)
      PROVE  TypeOK'
  <2>1. ReplyNoted(i)
    BY <1>13
  <2>2. TaskOK'
    BY <2>1, SettleType DEF ReplyNoted
  <2>3. RegOK'
    <3>1. task[i].agent \in Agents /\ task[i].link \in Links /\ task[i].cost \in Costs \cup {NoCost}
      BY <2>1 DEF ReplyNoted, TaskOK, Task
    <3>2. QED
      BY <2>1, <3>1, CostOpsType DEF RegOK, ReplyNoted
  <2>4. DirectoryOK' /\ ConnOK' /\ FenceOK' /\ SchedOK' /\ (kvCost \in [Links -> Costs \cup {NoCost}])'
    BY <2>1 DEF ReplyNoted, DirectoryOK, ConnOK, FenceOK, SchedOK
  <2>5. QED
    BY <2>2, <2>3, <2>4
<1>14. ASSUME NEW i \in Ids, Fail(i)
      PROVE  TypeOK'
  <2>1. Fail(i)
    BY <1>14
  <2>2. TaskOK'
    BY <2>1, SettleType DEF Fail
  <2>3. RegOK'
    <3>1. task[i].agent \in Agents /\ task[i].link \in Links /\ task[i].cost \in Costs \cup {NoCost}
      BY <2>1 DEF Fail, TaskOK, Task
    <3>2. QED
      BY <2>1, <3>1, CostOpsType DEF RegOK, Fail
  <2>4. FenceOK'
    <3>1. task[i].link \in Links
      BY <2>1 DEF Fail, TaskOK
    <3>2. QED
      BY <2>1, <3>1, LeaseOpsType DEF FenceOK, Fail
  <2>5. DirectoryOK' /\ ConnOK' /\ SchedOK' /\ (kvCost \in [Links -> Costs \cup {NoCost}])'
    BY <2>1 DEF Fail, DirectoryOK, ConnOK, SchedOK
  <2>6. QED
    BY <2>2, <2>3, <2>4, <2>5
<1>15. ASSUME NEW i \in Ids, EndTask(i)
      PROVE  TypeOK'
  <2>1. EndTask(i)
    BY <1>15
  <2>2. TaskOK'
    BY <2>1 DEF TaskOK, Task, FreeTask, EndTask, Kinds, Tiers
  <2>3. RegOK'
    <3>1. task[i].agent \in Agents /\ task[i].link \in Links /\ task[i].kind \in Kinds
      BY <2>1 DEF EndTask, TaskOK, Task
    <3>2. QED
      BY <2>1, <3>1, SlotOpsType DEF RegOK, EndTask
  <2>4. FenceOK'
    BY <2>1 DEF FenceOK, EndTask
  <2>5. DirectoryOK' /\ ConnOK' /\ SchedOK' /\ (kvCost \in [Links -> Costs \cup {NoCost}])'
    BY <2>1 DEF EndTask, DirectoryOK, ConnOK, SchedOK
  <2>6. QED
    BY <2>2, <2>3, <2>4, <2>5
<1>16. ASSUME Tick
      PROVE  TypeOK'
  <2>1. Tick
    BY <1>16
  <2>2. SchedOK'
    BY <2>1 DEF SchedOK, Scheduler, Tick, OwnedLinks
  <2>3. RegOK' /\ DirectoryOK' /\ ConnOK' /\ TaskOK' /\ FenceOK' /\ (kvCost \in [Links -> Costs \cup {NoCost}])'
    BY <2>1 DEF Tick, RegOK, DirectoryOK, ConnOK, TaskOK, FenceOK
  <2>4. QED
    BY <2>2, <2>3
<1>17. ASSUME NEW p \in Agents \X Links, Pick(p)
      PROVE  TypeOK'
  <2>1. Pick(p)
    BY <1>17
  <2>2. SchedOK'
    BY <2>1 DEF SchedOK, Scheduler, Pick, Kinds, Tiers
  <2>3. RegOK' /\ DirectoryOK' /\ ConnOK' /\ TaskOK' /\ FenceOK' /\ (kvCost \in [Links -> Costs \cup {NoCost}])'
    BY <2>1 DEF Pick, RegOK, DirectoryOK, ConnOK, TaskOK, FenceOK
  <2>4. QED
    BY <2>2, <2>3
<1>18. ASSUME TickDone
      PROVE  TypeOK'
  <2>1. TickDone
    BY <1>18
  <2>2. SchedOK'
    BY <2>1 DEF SchedOK, Scheduler, TickDone, IdleScheduler, Kinds, Tiers
  <2>3. RegOK' /\ DirectoryOK' /\ ConnOK' /\ TaskOK' /\ FenceOK' /\ (kvCost \in [Links -> Costs \cup {NoCost}])'
    BY <2>1 DEF TickDone, RegOK, DirectoryOK, ConnOK, TaskOK, FenceOK
  <2>4. QED
    BY <2>2, <2>3
<1>19. ASSUME NEW i \in Ids, DispatchAlways(i)
      PROVE  TypeOK'
  <2>1. DispatchAlways(i)
    BY <1>19
  <2>S. reg' \in [Agents -> Worker] /\ TaskOK'
    <3>1. /\ sched.agent \in Agents /\ sched.link \in Links /\ i \in Ids
          /\ NoCost \in Costs \cup {NoCost} /\ "always" \in Kinds
      BY <2>1 DEF DispatchAlways, SchedOK, Kinds, Tiers
    <3>2. Spawn(i, sched.agent, sched.link, "always", NoCost)
      BY <2>1 DEF DispatchAlways
    <3>3. QED
      BY <3>1, <3>2, SpawnType
  <2>2. RegOK'
    BY <2>1, <2>S DEF RegOK, DispatchAlways
  <2>3. TaskOK'
    BY <2>S
  <2>4. SchedOK'
    BY <2>1 DEF SchedOK, Scheduler, DispatchAlways, Stamping, Kinds, Tiers
  <2>5. DirectoryOK' /\ ConnOK' /\ FenceOK' /\ (kvCost \in [Links -> Costs \cup {NoCost}])'
    BY <2>1 DEF DispatchAlways, DirectoryOK, ConnOK, FenceOK
  <2>6. QED
    BY <2>2, <2>3, <2>4, <2>5
<1>20. ASSUME DispatchThroughput
      PROVE  TypeOK'
  <2>1. DispatchThroughput
    BY <1>20
  <2>S. reg' \in [Agents -> Worker] /\ TaskOK'
    <3>1. /\ sched.agent \in Agents /\ sched.link \in Links /\ sched.token \in Ids
          /\ NoCost \in Costs \cup {NoCost} /\ "throughput" \in Kinds
      BY <2>1 DEF DispatchThroughput, SchedOK, Kinds, Tiers
    <3>2. Spawn(sched.token, sched.agent, sched.link, "throughput", NoCost)
      BY <2>1 DEF DispatchThroughput
    <3>3. QED
      BY <3>1, <3>2, SpawnType
  <2>2. RegOK'
    BY <2>1, <2>S DEF RegOK, DispatchThroughput
  <2>3. TaskOK'
    BY <2>S
  <2>4. SchedOK'
    BY <2>1 DEF SchedOK, Scheduler, DispatchThroughput, Stamping, Kinds, Tiers
  <2>5. DirectoryOK' /\ ConnOK' /\ FenceOK' /\ (kvCost \in [Links -> Costs \cup {NoCost}])'
    BY <2>1 DEF DispatchThroughput, DirectoryOK, ConnOK, FenceOK
  <2>6. QED
    BY <2>2, <2>3, <2>4, <2>5
<1>21. ASSUME NEW i \in Ids, DispatchApply(i)
      PROVE  TypeOK'
  <2>1. DispatchApply(i)
    BY <1>21
  <2>S. reg' \in [Agents -> Worker] /\ TaskOK'
    <3>1. /\ sched.agent \in Agents /\ sched.link \in Links /\ i \in Ids
          /\ kvCost[sched.link] \in Costs \cup {NoCost} /\ "apply" \in Kinds
      BY <2>1 DEF DispatchApply, SchedOK, Kinds, Tiers
    <3>2. Spawn(i, sched.agent, sched.link, "apply", kvCost[sched.link])
      BY <2>1 DEF DispatchApply
    <3>3. QED
      BY <3>1, <3>2, SpawnType
  <2>2. RegOK'
    BY <2>1, <2>S DEF RegOK, DispatchApply
  <2>3. TaskOK'
    BY <2>S
  <2>4. SchedOK'
    BY <2>1 DEF SchedOK, Scheduler, DispatchApply, Stamping, Kinds, Tiers
  <2>5. DirectoryOK' /\ ConnOK' /\ FenceOK' /\ (kvCost \in [Links -> Costs \cup {NoCost}])'
    BY <2>1 DEF DispatchApply, DirectoryOK, ConnOK, FenceOK
  <2>6. QED
    BY <2>2, <2>3, <2>4, <2>5
<1>22. ASSUME SkipAlways
      PROVE  TypeOK'
  <2>1. SkipAlways
    BY <1>22
  <2>2. SchedOK'
    BY <2>1 DEF SchedOK, Scheduler, SkipAlways, Goto, Kinds, Tiers
  <2>3. RegOK' /\ DirectoryOK' /\ ConnOK' /\ TaskOK' /\ FenceOK' /\ (kvCost \in [Links -> Costs \cup {NoCost}])'
    BY <2>1 DEF SkipAlways, RegOK, DirectoryOK, ConnOK, TaskOK, FenceOK
  <2>4. QED
    BY <2>2, <2>3
<1>23. ASSUME PassiveProof
      PROVE  TypeOK'
  <2>1. PassiveProof
    BY <1>23
  <2>2. RegOK'
    <3>1. sched.agent \in Agents /\ sched.link \in Links /\ "throughput" \in Kinds /\ "throughput" \in Tiers
      BY <2>1 DEF PassiveProof, SchedOK, Kinds, Tiers
    <3>2. QED
      BY <2>1, <3>1, SlotOpsType DEF RegOK, PassiveProof
  <2>3. SchedOK'
    BY <2>1 DEF SchedOK, Scheduler, PassiveProof, NextItem, IdleScheduler, Kinds, Tiers
  <2>4. DirectoryOK' /\ ConnOK' /\ TaskOK' /\ FenceOK' /\ (kvCost \in [Links -> Costs \cup {NoCost}])'
    BY <2>1 DEF PassiveProof, DirectoryOK, ConnOK, TaskOK, FenceOK
  <2>5. QED
    BY <2>2, <2>3, <2>4
<1>24. ASSUME NEW i \in Ids, AcquireFence(i)
      PROVE  TypeOK'
  <2>1. AcquireFence(i)
    BY <1>24
  <2>2. FenceOK'
    <3>1. sched.link \in Links
      BY <2>1 DEF AcquireFence, SchedOK
    <3>2. QED
      BY <2>1, <3>1, LeaseOpsType DEF FenceOK, AcquireFence
  <2>3. SchedOK'
    BY <2>1 DEF SchedOK, Scheduler, AcquireFence
  <2>4. RegOK' /\ DirectoryOK' /\ ConnOK' /\ TaskOK' /\ (kvCost \in [Links -> Costs \cup {NoCost}])'
    BY <2>1 DEF AcquireFence, RegOK, DirectoryOK, ConnOK, TaskOK
  <2>5. QED
    BY <2>2, <2>3, <2>4
<1>25. ASSUME SkipThroughput
      PROVE  TypeOK'
  <2>1. SkipThroughput
    BY <1>25
  <2>2. FenceOK'
    <3>1. Retain(leases, lapsed) \in [Links -> Ids \cup {NoToken}]
      BY DEF FenceOK, Retain
    <3>2. QED
      BY <2>1, <3>1 DEF FenceOK, SkipThroughput
  <2>3. SchedOK'
    BY <2>1 DEF SchedOK, Scheduler, SkipThroughput, Goto, Kinds, Tiers
  <2>4. RegOK' /\ DirectoryOK' /\ ConnOK' /\ TaskOK' /\ (kvCost \in [Links -> Costs \cup {NoCost}])'
    BY <2>1 DEF SkipThroughput, RegOK, DirectoryOK, ConnOK, TaskOK
  <2>5. QED
    BY <2>2, <2>3, <2>4
<1>26. ASSUME ReturnLease
      PROVE  TypeOK'
  <2>1. ReturnLease
    BY <1>26
  <2>2. FenceOK'
    <3>1. sched.link \in Links /\ sched.token \in Ids
      BY <2>1 DEF ReturnLease, SchedOK
    <3>2. QED
      BY <2>1, <3>1, LeaseOpsType DEF FenceOK, ReturnLease
  <2>3. SchedOK'
    BY <2>1 DEF SchedOK, Scheduler, ReturnLease, Kinds, Tiers
  <2>4. RegOK' /\ DirectoryOK' /\ ConnOK' /\ TaskOK' /\ (kvCost \in [Links -> Costs \cup {NoCost}])'
    BY <2>1 DEF ReturnLease, RegOK, DirectoryOK, ConnOK, TaskOK
  <2>5. QED
    BY <2>2, <2>3, <2>4
<1>27. ASSUME SkipApply
      PROVE  TypeOK'
  <2>1. SkipApply
    BY <1>27
  <2>2. SchedOK'
    BY <2>1 DEF SchedOK, Scheduler, SkipApply, NextItem, IdleScheduler, Kinds, Tiers
  <2>3. RegOK' /\ DirectoryOK' /\ ConnOK' /\ TaskOK' /\ FenceOK' /\ (kvCost \in [Links -> Costs \cup {NoCost}])'
    BY <2>1 DEF SkipApply, RegOK, DirectoryOK, ConnOK, TaskOK, FenceOK
  <2>4. QED
    BY <2>2, <2>3
<1>28. ASSUME Stamp
      PROVE  TypeOK'
  <2>1. Stamp
    BY <1>28
  <2>2. RegOK'
    <3>1. sched.agent \in Agents /\ sched.link \in Links /\ sched.kind \in Kinds /\ sched.cost \in Costs \cup {NoCost}
      BY <2>1 DEF Stamp, SchedOK, Scheduler
    <3>2. sched.kind # "apply" => sched.kind \in Tiers
      BY <3>1 DEF Kinds
    <3>3. QED
      BY <2>1, <3>1, <3>2, SlotOpsType, CostOpsType DEF RegOK, Stamp
  <2>3. SchedOK'
    BY <2>1 DEF SchedOK, Scheduler, Stamp, Goto, NextItem, IdleScheduler, Kinds, Tiers
  <2>4. DirectoryOK' /\ ConnOK' /\ TaskOK' /\ FenceOK' /\ (kvCost \in [Links -> Costs \cup {NoCost}])'
    BY <2>1 DEF Stamp, DirectoryOK, ConnOK, TaskOK, FenceOK
  <2>5. QED
    BY <2>2, <2>3, <2>4
<1>29. ASSUME NEW y \in Agents, NEW p \in Links \X Tiers, IntervalElapses(y, p)
      PROVE  TypeOK'
  <2>1. IntervalElapses(y, p)
    BY <1>29
  <2>2. RegOK'
    BY <2>1, ElapseType DEF RegOK, IntervalElapses
  <2>3. DirectoryOK' /\ ConnOK' /\ TaskOK' /\ FenceOK' /\ SchedOK' /\ (kvCost \in [Links -> Costs \cup {NoCost}])'
    BY <2>1 DEF IntervalElapses, DirectoryOK, ConnOK, TaskOK, FenceOK, SchedOK
  <2>4. QED
    BY <2>2, <2>3
<1>30. ASSUME NEW y \in Agents, NEW l \in Links, RetryElapses(y, l)
      PROVE  TypeOK'
  <2>1. RetryElapses(y, l)
    BY <1>30
  <2>2. RegOK'
    BY <2>1, ElapseType DEF RegOK, RetryElapses
  <2>3. DirectoryOK' /\ ConnOK' /\ TaskOK' /\ FenceOK' /\ SchedOK' /\ (kvCost \in [Links -> Costs \cup {NoCost}])'
    BY <2>1 DEF RetryElapses, DirectoryOK, ConnOK, TaskOK, FenceOK, SchedOK
  <2>4. QED
    BY <2>2, <2>3
<1>31. ASSUME NEW i \in Ids, LeaseLapses(i)
      PROVE  TypeOK'
  <2>1. LeaseLapses(i)
    BY <1>31
  <2>2. FenceOK'
    BY <2>1 DEF FenceOK, LeaseLapses
  <2>3. RegOK' /\ DirectoryOK' /\ ConnOK' /\ TaskOK' /\ SchedOK' /\ (kvCost \in [Links -> Costs \cup {NoCost}])'
    BY <2>1 DEF LeaseLapses, RegOK, DirectoryOK, ConnOK, TaskOK, SchedOK
  <2>4. QED
    BY <2>2, <2>3
<1>32. ASSUME NEW l \in Links, NEW v \in Costs, DeriveCost(l, v)
      PROVE  TypeOK'
  <2>1. DeriveCost(l, v)
    BY <1>32
  <2>2. (kvCost \in [Links -> Costs \cup {NoCost}])'
    BY <2>1 DEF DeriveCost
  <2>3. RegOK' /\ DirectoryOK' /\ ConnOK' /\ TaskOK' /\ FenceOK' /\ SchedOK'
    BY <2>1 DEF DeriveCost, RegOK, DirectoryOK, ConnOK, TaskOK, FenceOK, SchedOK
  <2>4. QED
    BY <2>2, <2>3
<1>33. ASSUME UNCHANGED vars PROVE TypeOK'
  BY <1>33 DEF vars, RegOK, DirectoryOK, ConnOK, TaskOK, FenceOK, SchedOK
<1>34. QED
  BY <1>1, <1>2, <1>3, <1>4, <1>5, <1>6, <1>7, <1>8, <1>9, <1>10, <1>11,
     <1>12, <1>13, <1>14, <1>15, <1>16, <1>17, <1>18, <1>19, <1>20, <1>21,
     <1>22, <1>23, <1>24, <1>25, <1>26, <1>27, <1>28, <1>29, <1>30, <1>31,
     <1>32, <1>33
  DEF Next, HandlerStep, TaskStep, SchedulerStep, EnvironmentStep

\* The registry, the connections, the commands, the fence and the scheduler
\* stay well typed, and the fields each phase reads are filled in.
THEOREM TypeCorrect == Spec => []TypeOK
BY InitType, StepType, PTL DEF Spec

-----------------------------------------------------------------------------
(***************************************************************************)
(* The fence excludes: for every set of agents, links, connections and     *)
(* commands, two throughput tests that name a common node are never both   *)
(* outstanding within the time to live of their leases.                    *)
(*                                                                         *)
(* NodeExclusive is not inductive: it says nothing of the lease table.     *)
(* FenceInv adds that a test holds the lease of its link (LeaseBacked),    *)
(* that the lease acquired in one lock section is still there when the     *)
(* command is dispatched under it in another (ClaimBacked), and that live  *)
(* leases are on disjoint nodes (LeasesApart).                             *)
(***************************************************************************)

-----------------------------------------------------------------------------
(* The lease table.                                                        *)

\* A lease occupies its own nodes, and sharing a node is symmetric.
LEMMA OccupiesSymmetric ==
    ASSUME NEW l1, NEW l2
    PROVE  /\ Occupies(l1, l1)
           /\ Occupies(l1, l2) => Occupies(l2, l1)
BY DEF Occupies

\* Fence::release frees the lease of the token it is given and no other.
LEMMA ReleaseOwn ==
    ASSUME FenceOK, NEW l \in Links, NEW i \in Ids
    PROVE  \A m \in Links :
              /\ leases[m] # i => Release(leases, l, i)[m] = leases[m]
              /\ Release(leases, l, i)[m] \in {leases[m], NoToken}
BY DispatchAssumption DEF FenceOK, Release

\* Fence::acquire on a free pair of nodes takes the link's entry, drops the
\* expired leases and keeps every live one.
LEMMA AcquireKeeps ==
    ASSUME FenceOK, NEW l \in Links, NEW i \in Ids, Grantable(leases, lapsed, l)
    PROVE  /\ Acquire(leases, lapsed, l, i)[l] = i
           /\ \A m \in Links : leases[m] \in Ids \ lapsed =>
                  /\ m # l
                  /\ Acquire(leases, lapsed, l, i)[m] = leases[m]
           /\ \A m \in Links : m # l =>
                  Acquire(leases, lapsed, l, i)[m] \in {leases[m], NoToken}
<1>1. DOMAIN leases = Links
  BY DEF FenceOK
<1>2. Acquire(leases, lapsed, l, i)[l] = i
  BY <1>1 DEF Acquire, Retain
<1>3. ASSUME NEW m \in Links, leases[m] \in Ids \ lapsed
      PROVE  m # l /\ Acquire(leases, lapsed, l, i)[m] = leases[m]
  <2>1. leases[m] # NoToken
    BY <1>3, DispatchAssumption
  <2>2. ~Occupies(m, l)
    BY <1>1, <1>3, <2>1 DEF Grantable
  <2>3. m # l
    BY <2>2, OccupiesSymmetric
  <2>4. QED
    BY <1>1, <1>3, <2>3 DEF Acquire, Retain
<1>4. \A m \in Links : m # l => Acquire(leases, lapsed, l, i)[m] \in {leases[m], NoToken}
  BY <1>1 DEF Acquire, Retain
<1>5. QED
  BY <1>2, <1>3, <1>4

-----------------------------------------------------------------------------
(* FenceInv is inductive.                                                  *)

\* No test, no lease, no claim in the initial state.
LEMMA InitFence == Init => FenceInv
BY DispatchAssumption
DEF Init, NoLeases, FenceInv, LeaseBacked, ClaimBacked, LeasesApart, Testing, FreeTask,
    IdleScheduler

\* A step that leaves the table, the lapsed tokens, the scheduler's claim and
\* the running tests alone keeps the invariant, whatever else it does: so do
\* the registrations, the supersessions and the passing of intervals.
LEMMA FrameFence ==
    ASSUME TypeOK, FenceInv,
           leases' = leases, lapsed' = lapsed, task' = task,
           sched'.pc = "claim" => sched' = sched
    PROVE  FenceInv'
BY DEF FenceInv, LeaseBacked, ClaimBacked, LeasesApart, Testing

\* Spawning a command that is not a throughput test, under an id that no
\* lease has as its token.
LEMMA SpawnFence ==
    ASSUME TypeOK, FenceInv, NEW i \in Ids, NEW x \in Agents, NEW l \in Links,
           NEW k \in Kinds \ {"throughput"}, NEW v \in Costs \cup {NoCost},
           FreshId(i), Spawn(i, x, l, k, v),
           leases' = leases, lapsed' = lapsed,
           sched'.pc = "claim" => sched' = sched
    PROVE  FenceInv'
<1>1. PICK y \in Conns : task' = [task EXCEPT ![i] =
          [st |-> "open", conn |-> y, agent |-> x, link |-> l, kind |-> k, cost |-> v]]
  BY DEF Spawn
<1>2. LeaseBacked'
  BY <1>1 DEF FenceInv, LeaseBacked, Testing, TypeOK, TaskOK
<1>3. ClaimBacked'
  <2> SUFFICES ASSUME sched'.pc = "claim" PROVE ClaimBacked'
    BY DEF ClaimBacked
  <2>1. sched' = sched /\ sched.pc = "claim"
    OBVIOUS
  <2>2. sched.token \in Ids /\ sched.link \in Links
    BY <2>1 DEF TypeOK, SchedOK
  <2>3. sched.token \in Held(leases)
    BY <2>1, <2>2, DispatchAssumption DEF FenceInv, ClaimBacked, Held, TypeOK, FenceOK
  <2>4. sched.token # i
    BY <2>3 DEF FreshId
  <2>5. QED
    BY <1>1, <2>1, <2>2, <2>4 DEF FenceInv, ClaimBacked, TypeOK, TaskOK
<1>4. LeasesApart'
  BY DEF FenceInv, LeasesApart
<1>5. QED
  BY <1>2, <1>3, <1>4 DEF FenceInv

\* Settling a command, whose token frees at most its own lease.
LEMMA SettleFence ==
    ASSUME TypeOK, FenceInv, NEW i \in Ids, task[i].st = "open", Settle(i),
           NEW l \in Links, leases' \in {leases, Release(leases, l, i)},
           lapsed' = lapsed, sched' = sched
    PROVE  FenceInv'
<1>1. task' = [task EXCEPT ![i].st = "ending"]
  BY DEF Settle
<1>2. \A m \in Links : /\ leases[m] # i => leases'[m] = leases[m]
                       /\ leases'[m] \in {leases[m], NoToken}
  BY ReleaseOwn DEF TypeOK
<1>3. LeaseBacked'
  <2> SUFFICES ASSUME NEW j \in Ids, Testing(j)', j \notin lapsed
               PROVE  leases'[task'[j].link] = j
    BY DEF LeaseBacked
  <2>1. j # i
    BY <1>1 DEF Testing, TypeOK, TaskOK, Task
  <2>2. task'[j] = task[j]
    BY <1>1, <2>1 DEF TypeOK, TaskOK
  <2>3. Testing(j) /\ task[j].link \in Links
    BY <2>2 DEF Testing, TypeOK, TaskOK
  <2>4. leases[task[j].link] = j
    BY <2>3 DEF FenceInv, LeaseBacked
  <2>5. QED
    BY <1>2, <2>1, <2>2, <2>3, <2>4
<1>4. ClaimBacked'
  <2> SUFFICES ASSUME sched.pc = "claim" PROVE ClaimBacked'
    BY DEF ClaimBacked
  <2>1. sched.token \in Ids /\ sched.link \in Links
    BY DEF TypeOK, SchedOK
  <2>2. leases[sched.link] = sched.token /\ task[sched.token].st = "free"
    BY DEF FenceInv, ClaimBacked
  <2>3. sched.token # i
    BY <2>2
  <2>4. QED
    BY <1>1, <1>2, <2>1, <2>2, <2>3 DEF ClaimBacked, TypeOK, TaskOK
<1>5. LeasesApart'
  BY <1>2, DispatchAssumption DEF FenceInv, LeasesApart
<1>6. QED
  BY <1>3, <1>4, <1>5 DEF FenceInv

\* Dropping the expired leases from the table disturbs no test that is
\* within its time to live.
LEMMA RetainFence ==
    ASSUME TypeOK, FenceInv, leases' \in {leases, Retain(leases, lapsed)},
           lapsed' = lapsed, task' = task, sched'.pc # "claim"
    PROVE  FenceInv'
<1>1. \A m \in Links : /\ leases[m] \notin lapsed => leases'[m] = leases[m]
                       /\ leases'[m] \in {leases[m], NoToken}
  BY DEF Retain, TypeOK, FenceOK
<1>2. LeaseBacked'
  BY <1>1 DEF FenceInv, LeaseBacked, Testing, TypeOK, TaskOK
<1>3. ClaimBacked'
  BY DEF ClaimBacked
<1>4. LeasesApart'
  BY <1>1, DispatchAssumption DEF FenceInv, LeasesApart
<1>5. QED
  BY <1>2, <1>3, <1>4 DEF FenceInv

\* An acquire: the new lease is apart from every live one, and its token is
\* that of no running test.
LEMMA AcquireFenceInv ==
    ASSUME TypeOK, FenceInv, NEW i \in Ids, AcquireFence(i)
    PROVE  FenceInv'
<1> DEFINE l == sched.link
<1>1. l \in Links /\ task[i].st = "free" /\ i \notin Held(leases)
  BY DEF AcquireFence, FreshId, TypeOK, SchedOK
<1>2. \A m \in Links : leases[m] # i
  BY <1>1, DispatchAssumption DEF Held, TypeOK, FenceOK
<1>3. leases' = Acquire(leases, lapsed, l, i) /\ Grantable(leases, lapsed, l)
  BY DEF AcquireFence
<1>4. /\ leases'[l] = i
      /\ \A m \in Links : leases[m] \in Ids \ lapsed => m # l /\ leases'[m] = leases[m]
      /\ \A m \in Links : m # l => leases'[m] \in {leases[m], NoToken}
  BY <1>1, <1>3, AcquireKeeps DEF TypeOK
<1>5. lapsed' = lapsed \ {i} /\ task' = task
  BY DEF AcquireFence
<1>6. LeaseBacked'
  <2> SUFFICES ASSUME NEW j \in Ids, Testing(j), j \notin lapsed'
               PROVE  leases'[task[j].link] = j
    BY <1>5 DEF LeaseBacked, Testing
  <2>1. j # i
    BY <1>1 DEF Testing
  <2>2. task[j].link \in Links /\ leases[task[j].link] = j
    BY <1>5, <2>1 DEF FenceInv, LeaseBacked, Testing, TypeOK, TaskOK
  <2>3. QED
    BY <1>4, <1>5, <2>1, <2>2
<1>7. ClaimBacked'
  <2>1. sched'.link = l /\ sched'.token = i
    BY DEF AcquireFence, TypeOK, SchedOK, Scheduler
  <2>2. QED
    BY <1>1, <1>4, <1>5, <2>1 DEF ClaimBacked
<1>8. LeasesApart'
  <2>1. ASSUME NEW m \in Links, m # l, leases'[m] \in Ids \ lapsed'
        PROVE  leases[m] \in Ids \ lapsed /\ leases'[m] = leases[m] /\ ~Occupies(m, l)
    <3>1. leases'[m] = leases[m] /\ leases[m] \in Ids
      BY <1>4, <2>1, DispatchAssumption
    <3>2. leases[m] \notin lapsed
      BY <1>2, <1>5, <2>1, <3>1
    <3>3. leases[m] # NoToken /\ m \in DOMAIN leases
      BY <3>1, DispatchAssumption DEF TypeOK, FenceOK
    <3>4. QED
      BY <1>3, <3>1, <3>2, <3>3 DEF Grantable
  <2> SUFFICES ASSUME NEW l1 \in Links, NEW l2 \in Links, l1 # l2,
                      leases'[l1] \in Ids \ lapsed', leases'[l2] \in Ids \ lapsed'
               PROVE  ~Occupies(l1, l2)
    BY DEF LeasesApart
  <2>2. CASE l1 = l
    BY <2>1, <2>2, OccupiesSymmetric
  <2>3. CASE l2 = l
    BY <2>1, <2>3
  <2>4. CASE l1 # l /\ l2 # l
    BY <2>1, <2>4 DEF FenceInv, LeasesApart
  <2>5. QED
    BY <2>2, <2>3, <2>4
<1>9. QED
  BY <1>6, <1>7, <1>8 DEF FenceInv

\* The dispatch under the lease: the claim becomes a test that holds it.
LEMMA DispatchFence ==
    ASSUME TypeOK, FenceInv, DispatchThroughput
    PROVE  FenceInv'
<1> DEFINE i == sched.token
<1>1. i \in Ids /\ sched.link \in Links /\ leases[sched.link] = i
  BY DEF DispatchThroughput, FenceInv, ClaimBacked, TypeOK, SchedOK
<1>2. leases' = leases /\ lapsed' = lapsed
  BY DEF DispatchThroughput
<1>3. PICK y \in Conns : task' = [task EXCEPT ![i] =
          [st |-> "open", conn |-> y, agent |-> sched.agent, link |-> sched.link,
           kind |-> "throughput", cost |-> NoCost]]
  BY DEF DispatchThroughput, Spawn
<1>4. LeaseBacked'
  BY <1>1, <1>2, <1>3 DEF FenceInv, LeaseBacked, Testing, TypeOK, TaskOK
<1>5. ClaimBacked'
  <2>1. sched'.pc = "stamp"
    BY DEF DispatchThroughput, Stamping, TypeOK, SchedOK, Scheduler
  <2>2. QED
    BY <2>1 DEF ClaimBacked
<1>6. LeasesApart'
  BY <1>2 DEF FenceInv, LeasesApart
<1>7. QED
  BY <1>4, <1>5, <1>6 DEF FenceInv

\* Giving a claim back frees the lease of its own token only.
LEMMA ReturnFence ==
    ASSUME TypeOK, FenceInv, ReturnLease
    PROVE  FenceInv'
<1> DEFINE i == sched.token
<1>1. i \in Ids /\ sched.link \in Links /\ task[i].st = "free"
  BY DEF ReturnLease, FenceInv, ClaimBacked, TypeOK, SchedOK
<1>2. leases' = Release(leases, sched.link, i) /\ lapsed' = lapsed /\ task' = task
  BY DEF ReturnLease
<1>3. \A m \in Links : /\ leases[m] # i => leases'[m] = leases[m]
                       /\ leases'[m] \in {leases[m], NoToken}
  BY <1>1, <1>2, ReleaseOwn DEF TypeOK
<1>4. LeaseBacked'
  BY <1>1, <1>2, <1>3 DEF FenceInv, LeaseBacked, Testing, TypeOK, TaskOK
<1>5. ClaimBacked'
  <2>1. sched'.pc = "apply"
    BY DEF ReturnLease, TypeOK, SchedOK, Scheduler
  <2>2. QED
    BY <2>1 DEF ClaimBacked
<1>6. LeasesApart'
  BY <1>2, <1>3, DispatchAssumption DEF FenceInv, LeasesApart
<1>7. QED
  BY <1>4, <1>5, <1>6 DEF FenceInv

\* Freeing a slot forgets the age of a token that is in no lease.
LEMMA EndFence ==
    ASSUME TypeOK, FenceInv, NEW i \in Ids, EndTask(i)
    PROVE  FenceInv'
<1>1. /\ task[i].st = "ending" /\ task' = [task EXCEPT ![i] = FreeTask]
      /\ lapsed' = lapsed \ ({i} \ Held(leases)) /\ leases' = leases /\ sched' = sched
  BY DEF EndTask
<1>2. LeaseBacked'
  <2> SUFFICES ASSUME NEW j \in Ids, Testing(j)', j \notin lapsed'
               PROVE  leases[task'[j].link] = j
    BY <1>1 DEF LeaseBacked
  <2>1. j # i
    BY <1>1 DEF Testing, FreeTask, TypeOK, TaskOK
  <2>2. QED
    BY <1>1, <2>1 DEF FenceInv, LeaseBacked, Testing, TypeOK, TaskOK
<1>3. ClaimBacked'
  BY <1>1 DEF FenceInv, ClaimBacked, TypeOK, TaskOK, SchedOK, FreeTask
<1>4. LeasesApart'
  <2>1. \A m \in Links : leases[m] \in Ids \ lapsed' => leases[m] \in Ids \ lapsed
    <3>1. ASSUME NEW m \in Links, leases[m] \in Ids PROVE leases[m] \in Held(leases)
      BY <3>1, DispatchAssumption DEF Held, TypeOK, FenceOK
    <3>2. QED
      BY <1>1, <3>1
  <2>2. QED
    BY <1>1, <2>1 DEF FenceInv, LeasesApart
<1>5. QED
  BY <1>2, <1>3, <1>4 DEF FenceInv

\* A lease that runs out gives up its claim on the nodes.
LEMMA LapseFence ==
    ASSUME TypeOK, FenceInv, NEW i \in Ids, LeaseLapses(i)
    PROVE  FenceInv'
BY DEF LeaseLapses, FenceInv, LeaseBacked, ClaimBacked, LeasesApart, Testing

\* Every step keeps the invariant.
LEMMA StepFence == TypeOK /\ FenceInv /\ [Next]_vars => FenceInv'
<1> SUFFICES ASSUME TypeOK, FenceInv, [Next]_vars PROVE FenceInv'
  OBVIOUS
<1>1. ASSUME NEW x \in Conns, NEW y \in Agents, NEW ls \in Reports[y], RegisterLinks(x, y, ls)
      PROVE  FenceInv'
  BY <1>1, FrameFence DEF RegisterLinks
<1>2. ASSUME NEW x \in Conns, SyncDirectory(x)
      PROVE  FenceInv'
  BY <1>2, FrameFence DEF SyncDirectory
<1>3. ASSUME NEW x \in Conns, AttachSession(x)
      PROVE  FenceInv'
  BY <1>3, FrameFence DEF AttachSession
<1>4. ASSUME NEW x \in Conns, NEW l \in Links, SkipSeed(x, l)
      PROVE  FenceInv'
  BY <1>4, FrameFence DEF SkipSeed
<1>5. ASSUME NEW x \in Conns, RecordSeed(x)
      PROVE  FenceInv'
  BY <1>5, FrameFence DEF RecordSeed
<1>6. ASSUME NEW x \in Conns, Registered(x)
      PROVE  FenceInv'
  BY <1>6, FrameFence DEF Registered
<1>7. ASSUME NEW x \in Conns, Close(x)
      PROVE  FenceInv'
  BY <1>7, FrameFence DEF Close
<1>8. ASSUME NEW x \in Conns, DetachSession(x)
      PROVE  FenceInv'
  BY <1>8, FrameFence DEF DetachSession
<1>9. ASSUME NEW y \in Agents, LearnNode(y)
      PROVE  FenceInv'
  BY <1>9, FrameFence DEF LearnNode
<1>10. ASSUME NEW y \in Agents, NEW p \in Links \X Tiers, IntervalElapses(y, p)
      PROVE  FenceInv'
  BY <1>10, FrameFence DEF IntervalElapses
<1>11. ASSUME NEW y \in Agents, NEW l \in Links, RetryElapses(y, l)
      PROVE  FenceInv'
  BY <1>11, FrameFence DEF RetryElapses
<1>12. ASSUME NEW l \in Links, NEW v \in Costs, DeriveCost(l, v)
      PROVE  FenceInv'
  BY <1>12, FrameFence DEF DeriveCost
<1>13. ASSUME Tick
      PROVE  FenceInv'
  <2>1. sched'.pc # "claim"
    BY <1>13 DEF Tick, TypeOK, SchedOK, Scheduler
  <2>2. QED
    BY <1>13, <2>1, FrameFence DEF Tick
<1>14. ASSUME NEW p \in Agents \X Links, Pick(p)
      PROVE  FenceInv'
  <2>1. sched'.pc # "claim"
    BY <1>14 DEF Pick, TypeOK, SchedOK, Scheduler
  <2>2. QED
    BY <1>14, <2>1, FrameFence DEF Pick
<1>15. ASSUME TickDone
      PROVE  FenceInv'
  <2>1. sched'.pc # "claim"
    BY <1>15 DEF TickDone, IdleScheduler, TypeOK, SchedOK, Scheduler
  <2>2. QED
    BY <1>15, <2>1, FrameFence DEF TickDone
<1>16. ASSUME SkipAlways
      PROVE  FenceInv'
  <2>1. sched'.pc # "claim"
    BY <1>16 DEF SkipAlways, Goto, TypeOK, SchedOK, Scheduler
  <2>2. QED
    BY <1>16, <2>1, FrameFence DEF SkipAlways
<1>17. ASSUME PassiveProof
      PROVE  FenceInv'
  <2>1. sched'.pc # "claim"
    BY <1>17 DEF PassiveProof, NextItem, IdleScheduler, TypeOK, SchedOK, Scheduler
  <2>2. QED
    BY <1>17, <2>1, FrameFence DEF PassiveProof
<1>18. ASSUME SkipApply
      PROVE  FenceInv'
  <2>1. sched'.pc # "claim"
    BY <1>18 DEF SkipApply, NextItem, IdleScheduler, TypeOK, SchedOK, Scheduler
  <2>2. QED
    BY <1>18, <2>1, FrameFence DEF SkipApply
<1>19. ASSUME Stamp
      PROVE  FenceInv'
  <2>1. sched'.pc # "claim"
    BY <1>19 DEF Stamp, Goto, NextItem, IdleScheduler, TypeOK, SchedOK, Scheduler
  <2>2. QED
    BY <1>19, <2>1, FrameFence DEF Stamp
<1>20. ASSUME NEW x \in Conns, NEW l \in Links, NEW i \in Ids, SeedCost(x, l, i)
      PROVE  FenceInv'
  <2>1. conn[x].agent \in Agents /\ kvCost[l] \in Costs \cup {NoCost}
    BY <1>20 DEF SeedCost, TypeOK, ConnOK
  <2>2. "apply" \in Kinds \ {"throughput"}
    BY DEF Kinds
  <2>3. QED
    BY <1>20, <2>1, <2>2, SpawnFence DEF SeedCost
<1>21. ASSUME NEW i \in Ids, DispatchAlways(i)
      PROVE  FenceInv'
  <2>1. sched.agent \in Agents /\ sched.link \in Links
    BY <1>21 DEF DispatchAlways, TypeOK, SchedOK
  <2>2. NoCost \in Costs \cup {NoCost} /\ "always" \in Kinds \ {"throughput"}
    BY <2>1 DEF TypeOK, Kinds, Tiers
  <2>3. sched'.pc = "stamp"
    BY <1>21 DEF DispatchAlways, Stamping, TypeOK, SchedOK, Scheduler
  <2>4. QED
    BY <1>21, <2>1, <2>2, <2>3, SpawnFence DEF DispatchAlways
<1>22. ASSUME NEW i \in Ids, DispatchApply(i)
      PROVE  FenceInv'
  <2>1. sched.agent \in Agents /\ sched.link \in Links
    BY <1>22 DEF DispatchApply, TypeOK, SchedOK
  <2>2. kvCost[sched.link] \in Costs \cup {NoCost} /\ "apply" \in Kinds \ {"throughput"}
    BY <2>1 DEF TypeOK, Kinds, Tiers
  <2>3. sched'.pc = "stamp"
    BY <1>22 DEF DispatchApply, Stamping, TypeOK, SchedOK, Scheduler
  <2>4. QED
    BY <1>22, <2>1, <2>2, <2>3, SpawnFence DEF DispatchApply
<1>23. ASSUME NEW i \in Ids, ReplyProbe(i)
      PROVE  FenceInv'
  <2>1. task[i].link \in Links
    BY <1>23 DEF ReplyProbe, TypeOK, TaskOK
  <2>2. RenameTo(task[i].link, CanonicalPeer(reg, task[i].link.to)) \in Links
    BY <2>1, CanonicalType DEF TypeOK
  <2>3. QED
    BY <1>23, <2>2, SettleFence DEF ReplyProbe
<1>24. ASSUME NEW i \in Ids, ReplyApplied(i)
      PROVE  FenceInv'
  <2>1. task[i].link \in Links
    BY <1>24 DEF ReplyApplied, TypeOK, TaskOK
  <2>2. QED
    BY <1>24, <2>1, SettleFence DEF ReplyApplied
<1>25. ASSUME NEW i \in Ids, ReplyNoted(i)
      PROVE  FenceInv'
  <2>1. task[i].link \in Links
    BY <1>25 DEF ReplyNoted, TypeOK, TaskOK
  <2>2. QED
    BY <1>25, <2>1, SettleFence DEF ReplyNoted
<1>26. ASSUME NEW i \in Ids, Fail(i)
      PROVE  FenceInv'
  <2>1. task[i].link \in Links
    BY <1>26 DEF Fail, TypeOK, TaskOK
  <2>2. QED
    BY <1>26, <2>1, SettleFence DEF Fail
<1>27. ASSUME SkipThroughput
      PROVE  FenceInv'
  <2>1. sched'.pc # "claim"
    BY <1>27 DEF SkipThroughput, Goto, TypeOK, SchedOK, Scheduler
  <2>2. QED
    BY <1>27, <2>1, RetainFence DEF SkipThroughput
<1>28. ASSUME UNCHANGED vars PROVE FenceInv'
  BY <1>28, FrameFence DEF vars
<1>29. QED
  BY <1>1, <1>2, <1>3, <1>4, <1>5, <1>6, <1>7, <1>8, <1>9, <1>10, <1>11,
     <1>12, <1>13, <1>14, <1>15, <1>16, <1>17, <1>18, <1>19, <1>20, <1>21,
     <1>22, <1>23, <1>24, <1>25, <1>26, <1>27, <1>28, AcquireFenceInv,
     DispatchFence, ReturnFence, EndFence, LapseFence
  DEF Next, HandlerStep, TaskStep, SchedulerStep, EnvironmentStep

-----------------------------------------------------------------------------
(* Theorems.                                                               *)

\* Every throughput test within its time to live holds its lease, a claim is
\* backed by the table, and live leases are on disjoint nodes.
THEOREM FenceCorrect == Spec => []FenceInv
BY InitType, StepType, InitFence, StepFence, PTL DEF Spec

\* Tests that back each other's leases apart are apart themselves.
LEMMA FenceImpliesExclusive == TypeOK /\ FenceInv => NodeExclusive
<1> SUFFICES ASSUME TypeOK, FenceInv, NEW i \in Ids, NEW j \in Ids, i # j,
                    Testing(i), Testing(j), i \notin lapsed, j \notin lapsed
             PROVE  ~Occupies(task[i].link, task[j].link)
  BY DEF NodeExclusive
<1>1. leases[task[i].link] = i /\ leases[task[j].link] = j
  BY DEF FenceInv, LeaseBacked
<1>2. task[i].link \in Links /\ task[j].link \in Links
  BY DEF TypeOK, TaskOK, Testing
<1>3. task[i].link # task[j].link
  BY <1>1
<1>4. QED
  BY <1>1, <1>2, <1>3 DEF FenceInv, LeasesApart

\* Two throughput tests that name a common node are never outstanding at once
\* within the time to live of their leases (fence.rs, scheduler.rs), whatever
\* sessions are superseded, commands lost, or replies late.
THEOREM Exclusion == Spec => []NodeExclusive
BY FenceCorrect, TypeCorrect, FenceImpliesExclusive, PTL
-----------------------------------------------------------------------------
(* No lease outlives its test, where its link is not renamed.              *)

\* A lease on l that is still live is accounted for.
Guarded(l) == leases[l] \in Ids \ lapsed => Accounted(l)

\* A test of l is answered under another id than the one it leased.
Renamed(l) == \E i \in Ids :
    Testing(i) /\ task[i].link = l /\ ReplyProbe(i) /\ CanonicalPeer(reg, l.to) # l.to

\* After the step, the command i is a test of l.
TestsLater(i, l) == task'[i].st = "open" /\ task'[i].kind = "throughput" /\ task'[i].link = l

\* A live lease on l has a test, or a claim, after the step.
LEMMA GuardedWhen ==
    ASSUME NEW l \in Links,
           leases'[l] \in Ids \ lapsed' =>
              \/ TestsLater(leases'[l], l)
              \/ sched'.pc = "claim" /\ sched'.token = leases'[l] /\ sched'.link = l
    PROVE  Guarded(l)'
BY DEF Guarded, Accounted, Testing, TestsLater

\* A step that neither adds a live lease on l, nor ends a test, nor drops a claim.
LEMMA FrameGuarded ==
    ASSUME NEW l \in Links, Guarded(l), TypeOK, TypeOK',
           leases'[l] \in Ids \ lapsed' => leases'[l] = leases[l] /\ leases[l] \notin lapsed,
           \A i \in Ids : Testing(i) => task'[i] = task[i],
           sched.pc = "claim" => sched' = sched
    PROVE  Guarded(l)'
<1> SUFFICES ASSUME leases'[l] \in Ids \ lapsed'
             PROVE  \/ TestsLater(leases'[l], l)
                    \/ sched'.pc = "claim" /\ sched'.token = leases'[l] /\ sched'.link = l
  BY GuardedWhen
<1>1. leases'[l] = leases[l] /\ leases[l] \in Ids \ lapsed
  OBVIOUS
<1>2. CASE Testing(leases[l]) /\ task[leases[l]].link = l
  BY <1>1, <1>2 DEF TestsLater, Testing
<1>3. CASE sched.pc = "claim" /\ sched.token = leases[l] /\ sched.link = l
  BY <1>1, <1>3
<1>4. QED
  BY <1>1, <1>2, <1>3 DEF Guarded, Accounted

\* Settling a throughput test frees its lease, or leaves those of other links
\* alone.
LEMMA SettleGuarded ==
    ASSUME NEW l \in Links, Guarded(l), TypeOK, FenceInv, NEW i \in Ids,
           task[i].st = "open", Settle(i), lapsed' = lapsed, sched' = sched,
           leases'[l] \in {leases[l], NoToken},
           Testing(i) /\ task[i].link = l => leases' = Release(leases, l, i)
    PROVE  Guarded(l)'
<1>1. task' = [task EXCEPT ![i].st = "ending"] /\ task[i].link \in Links
  BY DEF Settle, TypeOK, TaskOK
<1> SUFFICES ASSUME leases'[l] \in Ids \ lapsed
             PROVE  \/ TestsLater(leases'[l], l)
                    \/ sched.pc = "claim" /\ sched.token = leases'[l] /\ sched.link = l
  BY GuardedWhen
<1>3. leases'[l] = leases[l] /\ leases[l] \in Ids \ lapsed
  BY DispatchAssumption
<1>4. CASE sched.pc = "claim" /\ sched.token = leases[l] /\ sched.link = l
  BY <1>3, <1>4
<1>5. CASE Testing(leases[l]) /\ task[leases[l]].link = l
  <2>1. leases[l] # i
    <3>1. CASE leases[l] = i
      <4>1. leases' = Release(leases, l, i)
        BY <1>5, <3>1
      <4>2. leases'[l] = NoToken
        BY <3>1, <4>1 DEF Release, TypeOK, FenceOK
      <4>3. QED
        BY <1>3, <4>2, DispatchAssumption
    <3>2. QED
      BY <3>1
  <2>2. task'[leases[l]] = task[leases[l]]
    BY <1>1, <1>3, <2>1 DEF TypeOK, TaskOK
  <2>3. QED
    BY <1>3, <1>5, <2>2 DEF TestsLater, Testing
<1>6. QED
  BY <1>3, <1>4, <1>5 DEF Guarded, Accounted

\* A reply to a test of a link that is not renamed.
LEMMA ReplyGuarded ==
    ASSUME NEW l \in Links, Guarded(l), TypeOK, FenceInv, NEW i \in Ids, ReplyProbe(i),
           ~Renamed(l)
    PROVE  Guarded(l)'
<1>1. task[i].link \in Links
  BY DEF ReplyProbe, TypeOK, TaskOK
<1> DEFINE k == RenameTo(task[i].link, CanonicalPeer(reg, task[i].link.to))
<1>2. /\ task[i].st = "open" /\ Settle(i) /\ lapsed' = lapsed /\ sched' = sched
      /\ leases' = IF task[i].kind = "throughput" THEN Release(leases, k, i) ELSE leases
  BY DEF ReplyProbe
<1>3. leases'[l] \in {leases[l], NoToken}
  BY <1>2 DEF Release, TypeOK, FenceOK
<1>4. ASSUME Testing(i), task[i].link = l PROVE leases' = Release(leases, l, i)
  <2>1. CanonicalPeer(reg, l.to) = l.to
    BY <1>4 DEF Renamed
  <2>2. k = l
    BY <1>4, <2>1, WorkersAssumption DEF RenameTo
  <2>3. QED
    BY <1>2, <1>4, <2>2 DEF Testing
<1>5. QED
  BY <1>2, <1>3, <1>4, SettleGuarded

\* No step leaves a live lease on l behind, but a reply that finds l renamed.
LEMMA StepGuarded ==
    ASSUME NEW l \in Links, TypeOK, TypeOK', FenceInv, Guarded(l), [Next]_vars, ~Renamed(l)
    PROVE  Guarded(l)'
<1>A. ASSUME leases' = leases, lapsed' = lapsed,
             \A i \in Ids : Testing(i) => task'[i] = task[i],
             sched.pc = "claim" => sched' = sched
      PROVE  Guarded(l)'
  BY <1>A, FrameGuarded
<1>B. ASSUME NEW i \in Ids, FreshId(i), NEW x, NEW k, NEW j, NEW v, NEW n, Spawn(i, x, k, j, v)
      PROVE  \A h \in Ids : Testing(h) => task'[h] = task[h]
  BY <1>B DEF FreshId, Spawn, Testing, TypeOK, TaskOK
<1>1. ASSUME NEW x \in Conns, HandlerStep(x) PROVE Guarded(l)'
  <2>1. ASSUME NEW k \in Links, NEW i \in Ids, SeedCost(x, k, i) PROVE Guarded(l)'
    BY <2>1, <1>A, <1>B DEF SeedCost
  <2>2. CASE ~\E k \in Links, i \in Ids : SeedCost(x, k, i)
    BY <1>1, <2>2, <1>A DEF HandlerStep, SyncDirectory, AttachSession, SkipSeed, RecordSeed,
       Registered, DetachSession
  <2>3. QED
    BY <2>1, <2>2
<1>2. ASSUME NEW i \in Ids, TaskStep(i) PROVE Guarded(l)'
  <2>1. CASE ReplyProbe(i)
    BY <2>1, ReplyGuarded
  <2>2. CASE ReplyApplied(i)
    BY <2>2, SettleGuarded DEF ReplyApplied, Testing
  <2>3. CASE ReplyNoted(i)
    BY <2>3, SettleGuarded DEF ReplyNoted, Testing
  <2>4. CASE Fail(i)
    <3>1. task[i].link \in Links /\ FenceOK
      BY <2>4 DEF Fail, TypeOK, TaskOK
    <3>2. leases'[l] \in {leases[l], NoToken}
      BY <2>4, <3>1, ReleaseOwn DEF Fail
    <3>3. QED
      BY <2>4, <3>2, SettleGuarded DEF Fail, Testing
  <2>5. CASE EndTask(i)
    <3>1. \A j \in Ids : Testing(j) => task'[j] = task[j]
      BY <2>5 DEF EndTask, Testing, TypeOK, TaskOK
    <3>2. ASSUME leases'[l] \in Ids \ lapsed'
          PROVE  leases'[l] = leases[l] /\ leases[l] \notin lapsed
      <4>1. leases' = leases /\ lapsed' = lapsed \ ({i} \ Held(leases))
        BY <2>5 DEF EndTask
      <4>2. leases[l] \in Held(leases)
        BY <3>2, <4>1, DispatchAssumption DEF Held, TypeOK, FenceOK
      <4>3. QED
        BY <3>2, <4>1, <4>2
    <3>3. sched' = sched
      BY <2>5 DEF EndTask
    <3>4. QED
      BY <3>1, <3>2, <3>3, FrameGuarded
  <2>6. QED
    BY <1>2, <2>1, <2>2, <2>3, <2>4, <2>5 DEF TaskStep
<1>3. ASSUME SchedulerStep PROVE Guarded(l)'
  <2>1. CASE \/ Tick \/ TickDone \/ SkipAlways \/ PassiveProof \/ SkipApply \/ Stamp
             \/ \E p \in Agents \X Links : Pick(p)
    BY <2>1, <1>A DEF Tick, TickDone, SkipAlways, PassiveProof, SkipApply, Stamp, Pick
  <2>2. ASSUME NEW i \in Ids, DispatchAlways(i) PROVE Guarded(l)'
    BY <2>2, <1>A, <1>B DEF DispatchAlways
  <2>3. ASSUME NEW i \in Ids, DispatchApply(i) PROVE Guarded(l)'
    BY <2>3, <1>A, <1>B DEF DispatchApply
  <2>4. ASSUME NEW i \in Ids, AcquireFence(i) PROVE Guarded(l)'
    <3>1. /\ sched.link \in Links /\ sched.pc # "claim" /\ task' = task /\ lapsed' = lapsed \ {i}
          /\ leases' = Acquire(leases, lapsed, sched.link, i)
          /\ \A m \in Links : leases[m] # i
      BY <2>4, DispatchAssumption DEF AcquireFence, FreshId, Held, TypeOK, SchedOK, FenceOK
    <3>2. sched'.pc = "claim" /\ sched'.token = i /\ sched'.link = sched.link
      BY <2>4 DEF AcquireFence, TypeOK, SchedOK, Scheduler
    <3>3. l # sched.link =>
             leases'[l] = IF leases[l] \in lapsed THEN NoToken ELSE leases[l]
      BY <3>1 DEF Acquire, Retain, TypeOK, FenceOK
    <3>4. leases'[sched.link] = i
      BY <3>1 DEF Acquire, Retain, TypeOK, FenceOK
    <3>5. ASSUME l # sched.link, leases'[l] \in Ids \ lapsed'
          PROVE  TestsLater(leases'[l], l)
      <4>1. leases'[l] = leases[l] /\ leases[l] \in Ids \ lapsed
        BY <3>1, <3>3, <3>5, DispatchAssumption
      <4>2. Testing(leases[l]) /\ task[leases[l]].link = l
        BY <3>1, <4>1 DEF Guarded, Accounted
      <4>3. QED
        BY <3>1, <4>1, <4>2 DEF TestsLater, Testing
    <3>6. QED
      BY <3>2, <3>4, <3>5, GuardedWhen
  <2>5. CASE SkipThroughput
    <3>1. task' = task /\ lapsed' = lapsed /\ sched.pc # "claim"
      BY <2>5 DEF SkipThroughput
    <3>2. leases' \in {leases, Retain(leases, lapsed)}
      BY <2>5 DEF SkipThroughput
    <3>3. leases'[l] \in Ids \ lapsed' => leases'[l] = leases[l] /\ leases[l] \notin lapsed
      BY <3>1, <3>2, DispatchAssumption DEF Retain, TypeOK, FenceOK
    <3>4. QED
      BY <3>1, <3>3, FrameGuarded
  <2>6. CASE DispatchThroughput
    <3> DEFINE i == sched.token
    <3>1. i \in Ids /\ sched.link \in Links /\ leases' = leases /\ lapsed' = lapsed
      BY <2>6 DEF DispatchThroughput, TypeOK, SchedOK
    <3>2. PICK y \in Conns : task' = [task EXCEPT ![i] =
              [st |-> "open", conn |-> y, agent |-> sched.agent, link |-> sched.link,
               kind |-> "throughput", cost |-> NoCost]]
      BY <2>6 DEF DispatchThroughput, Spawn
    <3>3. task[i].st = "free"
      BY <2>6 DEF DispatchThroughput, FenceInv, ClaimBacked
    <3>4. TestsLater(i, sched.link)
      BY <3>1, <3>2 DEF TestsLater, TypeOK, TaskOK
    <3>5. \A j \in Ids : Testing(j) => task'[j] = task[j]
      BY <3>1, <3>2, <3>3 DEF Testing, TypeOK, TaskOK
    <3>6. ASSUME leases[l] \in Ids \ lapsed PROVE TestsLater(leases[l], l)
      <4>1. CASE Testing(leases[l]) /\ task[leases[l]].link = l
        BY <3>5, <3>6, <4>1 DEF TestsLater, Testing
      <4>2. CASE sched.token = leases[l] /\ sched.link = l
        BY <3>4, <4>2 DEF TestsLater
      <4>3. QED
        BY <3>6, <4>1, <4>2 DEF Guarded, Accounted
    <3>7. QED
      BY <3>1, <3>6, GuardedWhen
  <2>7. CASE ReturnLease
    <3> DEFINE i == sched.token
    <3>1. /\ i \in Ids /\ sched.link \in Links /\ lapsed' = lapsed /\ task' = task
          /\ leases' = Release(leases, sched.link, i)
          /\ leases[sched.link] = i
      BY <2>7 DEF ReturnLease, TypeOK, SchedOK, FenceInv, ClaimBacked
    <3>2. leases'[sched.link] = NoToken /\ (l # sched.link => leases'[l] = leases[l])
      BY <3>1 DEF Release, TypeOK, FenceOK
    <3>3. ASSUME leases'[l] \in Ids \ lapsed PROVE TestsLater(leases'[l], l)
      <4>1. l # sched.link /\ leases'[l] = leases[l]
        BY <3>2, <3>3, DispatchAssumption
      <4>2. QED
        BY <3>1, <3>3, <4>1 DEF TestsLater, Guarded, Testing, Accounted
    <3>4. QED
      BY <3>1, <3>3, GuardedWhen
  <2>8. QED
    BY <1>3, <2>1, <2>2, <2>3, <2>4, <2>5, <2>6, <2>7 DEF SchedulerStep
<1>4. ASSUME EnvironmentStep PROVE Guarded(l)'
  <2>1. ASSUME NEW i \in Ids, LeaseLapses(i) PROVE Guarded(l)'
    BY <2>1, FrameGuarded DEF LeaseLapses
  <2>2. CASE ~\E i \in Ids : LeaseLapses(i)
    BY <1>4, <2>2, <1>A DEF EnvironmentStep, RegisterLinks, Close, LearnNode, IntervalElapses,
       RetryElapses, DeriveCost
  <2>3. QED
    BY <2>1, <2>2
<1>5. ASSUME UNCHANGED vars PROVE Guarded(l)'
  BY <1>5, <1>A DEF vars
<1>6. QED
  BY <1>1, <1>2, <1>3, <1>4, <1>5 DEF Next

\* Every link carries its far end's registered name already: no agent reports
\* a node under another spelling.
NamesAgree ==
    \A l \in Links, k \in Agents : NameKey[k] = NameKey[l.to] => l.to = k

LEMMA NeverRenamed ==
    ASSUME NamesAgree, NEW l \in Links
    PROVE  ~Renamed(l)
<1>1. CanonicalPeer(reg, l.to) = l.to
  BY DEF CanonicalPeer, Known, NamesAgree
<1>2. QED
  BY <1>1 DEF Renamed

\* Where agents report their peers under the registered names, a lease within
\* its time to live belongs to a test that is outstanding or about to be issued:
\* "the controller releases the lease on receipt" (docs/protocol.md) and at
\* once when the command fails (session.rs, scheduler.rs, fence.rs).
THEOREM NoOrphans ==
    ASSUME NamesAgree
    PROVE  Spec => []NoOrphanLease
<1>1. Init => NoOrphanLease
  BY DispatchAssumption DEF Init, NoLeases, NoOrphanLease, Accounted
<1>2. TypeOK /\ TypeOK' /\ FenceInv /\ NoOrphanLease /\ [Next]_vars => NoOrphanLease'
  <2>1. SUFFICES ASSUME TypeOK, TypeOK', FenceInv, NoOrphanLease, [Next]_vars,
                        NEW l \in Links
                 PROVE  Guarded(l)'
    BY DEF NoOrphanLease, Guarded
  <2>2. Guarded(l)
    BY <2>1 DEF NoOrphanLease, Guarded
  <2>3. ~Renamed(l)
    BY NeverRenamed
  <2>4. QED
    BY <2>1, <2>2, <2>3, StepGuarded
<1>3. QED
  BY <1>1, <1>2, TypeCorrect, FenceCorrect, PTL DEF Spec

\* Whatever agents report and gossip renames: only a reply whose link was
\* renamed while its test ran (session.rs:345) leaves a live lease to its expiry.
\* Failures, refused dispatches, superseded sessions, detaches and the replies of
\* other links do not.
THEOREM OrphansByRename == Spec => OrphanedByRenameOnly
<1>1. TypeOK /\ TypeOK' /\ FenceInv /\ [Next]_vars =>
      [\A l \in Links :
          /\ leases[l] \in Ids \ lapsed /\ Accounted(l)
          /\ leases'[l] \in Ids \ lapsed' /\ ~Accounted(l)'
          => \E i \in Ids :
                /\ Testing(i) /\ task[i].link = l /\ ReplyProbe(i)
                /\ CanonicalPeer(reg, l.to) # l.to]_vars
  <2>1. SUFFICES ASSUME TypeOK, TypeOK', FenceInv, [Next]_vars, NEW l \in Links,
                        Accounted(l), leases'[l] \in Ids \ lapsed', ~Accounted(l)'
                 PROVE  Renamed(l)
    BY DEF Renamed
  <2>2. Guarded(l) /\ ~Guarded(l)'
    BY <2>1 DEF Guarded
  <2>3. QED
    BY <2>1, <2>2, StepGuarded
<1>2. QED
  BY <1>1, TypeCorrect, FenceCorrect, PTL DEF Spec, OrphanedByRenameOnly

-----------------------------------------------------------------------------
(***************************************************************************)
(* Sessions own their agents: for every set of agents, links and           *)
(* connections, in every interleaving of registrations, supersessions,     *)
(* closings and detaches.                                                  *)
(*                                                                         *)
(* SessionOwnsAgent and NoGhostAgent are not inductive: a detach goes by   *)
(* generation, so that one must know that generations are never shared by  *)
(* two connections, and never ahead of the counter they are drawn from.    *)
(***************************************************************************)

Attached == {"seed", "seeded", "serving"}
Joining  == {"directory", "attach"}

\* The generations in use were drawn from the counter.
GenerationsDrawn ==
    /\ \A x \in Conns : conn[x].gen <= generation
    /\ \A y \in Agents : reg[y].gen <= generation

\* No two connections hold one generation.
GenerationsApart ==
    \A x, z \in Conns : conn[x].gen # 0 /\ conn[x].gen = conn[z].gen => x = z

\* A connection has its generation once its registration is attached, and
\* none before its hello.
GenerationPhase ==
    \A x \in Conns :
        /\ conn[x].pc \in Attached => conn[x].gen # 0
        /\ conn[x].pc = "unused" => conn[x].gen = 0

\* Only an agent in the registry has a session or links.
EntriesKnown ==
    \A y \in Agents : reg[y].gen # 0 \/ reg[y].links # {} => reg[y].known

SessionInv ==
    /\ GenerationsDrawn /\ GenerationsApart /\ GenerationPhase
    /\ EntriesKnown /\ SessionOwnsAgent /\ NoGhostAgent

-----------------------------------------------------------------------------
(* Most steps leave sessions alone.                                        *)

\* What a step that is no registration, attach or detach leaves of an entry.
EntryKept(r, s, y) == s[y].gen = r[y].gen /\ s[y].known = r[y].known /\ s[y].links = r[y].links

\* What it leaves of a connection: it stays in its phase, or closes.
ConnKept(x) ==
    /\ conn'[x].agent = conn[x].agent /\ conn'[x].gen = conn[x].gen
    /\ conn'[x].up => conn[x].up
    /\ conn'[x].pc \in Attached <=> conn[x].pc \in Attached
    /\ conn'[x].pc \in Joining <=> conn[x].pc \in Joining
    /\ conn'[x].pc = "unused" <=> conn[x].pc = "unused"

Quiet ==
    /\ generation' = generation
    /\ \A y \in Agents : EntryKept(reg, reg', y)
    /\ \A x \in Conns : ConnKept(x)

\* Slots, stamps and remembered costs are kept beside the session and the
\* links of an entry.
LEMMA QuietOps ==
    ASSUME NEW r \in [Agents -> Worker], NEW x \in Agents, NEW l, NEW k, NEW v
    PROVE  \A y \in Agents :
              /\ EntryKept(r, Begin(r, x, l, k), y)
              /\ EntryKept(r, End(r, x, l, k), y)
              /\ EntryKept(r, MarkIssued(r, x, l, k), y)
              /\ EntryKept(r, SetAppliedSent(r, x, l, v), y)
              /\ EntryKept(r, NoteApplyFailed(r, x, l), y)
              /\ EntryKept(r, [r EXCEPT ![x].issued = @ \ {v}], y)
              /\ EntryKept(r, [r EXCEPT ![x].retry = @ \ {v}], y)
<1> SUFFICES ASSUME NEW y \in Agents
             PROVE  /\ EntryKept(r, Begin(r, x, l, k), y)
                    /\ EntryKept(r, End(r, x, l, k), y)
                    /\ EntryKept(r, MarkIssued(r, x, l, k), y)
                    /\ EntryKept(r, SetAppliedSent(r, x, l, v), y)
                    /\ EntryKept(r, NoteApplyFailed(r, x, l), y)
                    /\ EntryKept(r, [r EXCEPT ![x].issued = @ \ {v}], y)
                    /\ EntryKept(r, [r EXCEPT ![x].retry = @ \ {v}], y)
  OBVIOUS
<1>0. r[x] \in Worker /\ r[y] \in Worker
  OBVIOUS
<1>1. EntryKept(r, Begin(r, x, l, k), y) /\ EntryKept(r, End(r, x, l, k), y)
  BY <1>0 DEF EntryKept, Begin, End, Worker
<1>2. EntryKept(r, MarkIssued(r, x, l, k), y)
  BY <1>0 DEF EntryKept, MarkIssued, Worker
<1>3. EntryKept(r, SetAppliedSent(r, x, l, v), y)
  BY <1>0 DEF EntryKept, SetAppliedSent, Worker
<1>4. EntryKept(r, NoteApplyFailed(r, x, l), y)
  BY <1>0 DEF EntryKept, NoteApplyFailed, Worker
<1>5. /\ EntryKept(r, [r EXCEPT ![x].issued = @ \ {v}], y)
      /\ EntryKept(r, [r EXCEPT ![x].retry = @ \ {v}], y)
  BY <1>0 DEF EntryKept, Worker
<1>6. QED
  BY <1>1, <1>2, <1>3, <1>4, <1>5

\* Only a registration, a directory sync, an attach, a detach and a lesson of
\* the directory change sessions or link sets.
LEMMA QuietSteps ==
    ASSUME TypeOK, [Next]_vars
    PROVE  \/ \E x \in Conns, y \in Agents : \E ls \in Reports[y] : RegisterLinks(x, y, ls)
           \/ \E x \in Conns : SyncDirectory(x) \/ AttachSession(x) \/ DetachSession(x)
           \/ \E y \in Agents : LearnNode(y)
           \/ Quiet
<1> USE DEF TypeOK, RegOK
<1>A. ASSUME conn' = conn PROVE \A x \in Conns : ConnKept(x)
  BY <1>A DEF ConnKept
<1>B. ASSUME reg' = reg PROVE \A y \in Agents : EntryKept(reg, reg', y)
  BY <1>B DEF EntryKept
<1>1. ASSUME NEW x \in Conns, NEW l \in Links, NEW i \in Ids, SeedCost(x, l, i) PROVE Quiet
  <2>1. conn[x].agent \in Agents /\ conn[x] \in Connection
    BY <1>1 DEF SeedCost, ConnOK
  <2>2. reg' = Begin(reg, conn[x].agent, l, "apply") /\ generation' = generation
    BY <1>1 DEF SeedCost, Spawn
  <2>3. conn' = [conn EXCEPT ![x] =
          [conn[x] EXCEPT !.pc = "seeded", !.link = l, !.cost = kvCost[l]]] /\ conn[x].pc = "seed"
    BY <1>1 DEF SeedCost
  <2>4. \A z \in Conns : ConnKept(z)
    BY <2>1, <2>3 DEF ConnKept, ConnOK, Connection, Attached, Joining
  <2>5. QED
    BY <2>1, <2>2, <2>4, QuietOps DEF Quiet
<1>2. ASSUME NEW x \in Conns, NEW l \in Links, SkipSeed(x, l) PROVE Quiet
  <2>1. \A z \in Conns : ConnKept(z)
    BY <1>2 DEF SkipSeed, ConnKept, ConnOK, Connection
  <2>2. QED
    BY <1>2, <1>B, <2>1 DEF Quiet, SkipSeed
<1>3. ASSUME NEW x \in Conns, RecordSeed(x) PROVE Quiet
  <2>1. conn[x].agent \in Agents /\ conn[x] \in Connection
    BY <1>3 DEF RecordSeed, ConnOK
  <2>2. \A z \in Conns : ConnKept(z)
    BY <1>3, <2>1 DEF RecordSeed, ConnKept, ConnOK, Connection, Attached, Joining
  <2>3. QED
    BY <1>3, <2>1, <2>2, QuietOps DEF Quiet, RecordSeed
<1>4. ASSUME NEW x \in Conns, Registered(x) PROVE Quiet
  <2>1. \A z \in Conns : ConnKept(z)
    BY <1>4 DEF Registered, ConnKept, ConnOK, Connection, Attached, Joining
  <2>2. QED
    BY <1>4, <1>B, <2>1 DEF Quiet, Registered
<1>5. ASSUME NEW x \in Conns, Close(x) PROVE Quiet
  <2>1. \A z \in Conns : ConnKept(z)
    BY <1>5 DEF Close, ConnKept, ConnOK, Connection
  <2>2. QED
    BY <1>5, <1>B, <2>1 DEF Quiet, Close
<1>6. ASSUME NEW i \in Ids, TaskStep(i) PROVE Quiet
  <2>1. conn' = conn /\ generation' = generation
    BY <1>6 DEF TaskStep, ReplyProbe, ReplyApplied, ReplyNoted, Fail, EndTask
  <2>2. task[i].st # "free"
    BY <1>6 DEF TaskStep, ReplyProbe, ReplyApplied, ReplyNoted, Fail, EndTask
  <2>3. task[i].agent \in Agents
    BY <2>2 DEF TaskOK
  <2>4. \/ reg' = reg
        \/ reg' = SetAppliedSent(reg, task[i].agent, task[i].link, task[i].cost)
        \/ reg' = NoteApplyFailed(reg, task[i].agent, task[i].link)
        \/ reg' = End(reg, task[i].agent, task[i].link, task[i].kind)
    BY <1>6 DEF TaskStep, ReplyProbe, ReplyApplied, ReplyNoted, Fail, EndTask
  <2>5. \A y \in Agents : EntryKept(reg, reg', y)
    <3>1. CASE reg' = reg
      BY <1>B, <3>1
    <3>2. CASE reg' = SetAppliedSent(reg, task[i].agent, task[i].link, task[i].cost)
      BY <2>3, <3>2, QuietOps
    <3>3. CASE reg' = NoteApplyFailed(reg, task[i].agent, task[i].link)
      BY <2>3, <3>3, QuietOps
    <3>4. CASE reg' = End(reg, task[i].agent, task[i].link, task[i].kind)
      BY <2>3, <3>4, QuietOps
    <3>5. QED
      BY <2>4, <3>1, <3>2, <3>3, <3>4
  <2>6. QED
    BY <1>A, <2>1, <2>5 DEF Quiet
<1>7. ASSUME SchedulerStep PROVE Quiet
  <2>1. conn' = conn /\ generation' = generation
    BY <1>7 DEF SchedulerStep, Tick, Pick, TickDone, DispatchAlways, SkipAlways, PassiveProof,
         AcquireFence, SkipThroughput, DispatchThroughput, ReturnLease, DispatchApply, SkipApply,
         Stamp
  <2>2. \/ reg' = reg
        \/ /\ sched.pc \notin {"idle", "pick"}
           /\ \E k \in Kinds : \/ reg' = Begin(reg, sched.agent, sched.link, k)
                              \/ reg' = MarkIssued(reg, sched.agent, sched.link, k)
                              \/ reg' = SetAppliedSent(reg, sched.agent, sched.link, sched.cost)
    BY <1>7 DEF SchedulerStep, Tick, Pick, TickDone, DispatchAlways, SkipAlways, PassiveProof,
         AcquireFence, SkipThroughput, DispatchThroughput, ReturnLease, DispatchApply, SkipApply,
         Stamp, Spawn, Kinds, Tiers, SchedOK, Scheduler
  <2>3. sched.pc \notin {"idle", "pick"} => sched.agent \in Agents
    BY DEF SchedOK
  <2>4. \A y \in Agents : EntryKept(reg, reg', y)
    <3>1. CASE reg' = reg
      BY <1>B, <3>1
    <3>2. ASSUME NEW k \in Kinds, reg' = Begin(reg, sched.agent, sched.link, k),
                 sched.agent \in Agents
          PROVE  \A y \in Agents : EntryKept(reg, reg', y)
      BY <3>2, QuietOps
    <3>3. ASSUME NEW k \in Kinds, reg' = MarkIssued(reg, sched.agent, sched.link, k),
                 sched.agent \in Agents
          PROVE  \A y \in Agents : EntryKept(reg, reg', y)
      BY <3>3, QuietOps
    <3>4. ASSUME reg' = SetAppliedSent(reg, sched.agent, sched.link, sched.cost),
                 sched.agent \in Agents
          PROVE  \A y \in Agents : EntryKept(reg, reg', y)
      BY <3>4, QuietOps
    <3>5. QED
      BY <2>2, <2>3, <3>1, <3>2, <3>3, <3>4
  <2>5. QED
    BY <1>A, <2>1, <2>4 DEF Quiet
<1>8. ASSUME NEW y \in Agents, NEW p \in Links \X Tiers, IntervalElapses(y, p) PROVE Quiet
  BY <1>8, <1>A, QuietOps DEF IntervalElapses, Quiet
<1>9. ASSUME NEW y \in Agents, NEW l \in Links, RetryElapses(y, l) PROVE Quiet
  BY <1>9, <1>A, QuietOps DEF RetryElapses, Quiet
<1>10. ASSUME NEW i \in Ids, LeaseLapses(i) PROVE Quiet
  BY <1>10, <1>A, <1>B DEF LeaseLapses, Quiet
<1>11. ASSUME NEW l \in Links, NEW v \in Costs, DeriveCost(l, v) PROVE Quiet
  BY <1>11, <1>A, <1>B DEF DeriveCost, Quiet
<1>12. ASSUME UNCHANGED vars PROVE Quiet
  BY <1>12, <1>A, <1>B DEF vars, Quiet
<1>13. QED
  BY <1>1, <1>2, <1>3, <1>4, <1>5, <1>6, <1>7, <1>8, <1>9, <1>10, <1>11, <1>12
  DEF Next, HandlerStep, EnvironmentStep
-----------------------------------------------------------------------------
(* SessionInv is inductive.                                                *)

\* Naming links by the directory changes neither sessions nor who has links.
LEMMA ResolveKeeps ==
    ASSUME NEW r \in [Agents -> Worker], NEW dir, NEW y \in Agents
    PROVE  /\ ResolvePeers(r, dir)[y].gen = r[y].gen
           /\ ResolvePeers(r, dir)[y].known = r[y].known
           /\ ResolvePeers(r, dir)[y].links = {NameByDirectory(dir, l) : l \in r[y].links}
<1>1. r[y] \in Worker
  OBVIOUS
<1>2. ResolvePeers(r, dir)[y] =
          [r[y] EXCEPT !.links = {NameByDirectory(dir, l) : l \in r[y].links}]
  BY DEF ResolvePeers
<1>3. QED
  BY <1>1, <1>2 DEF Worker

\* WorkerRegistry::register keeps every session, registers the agent and gives
\* nobody else links.
LEMMA RegisterKeeps ==
    ASSUME NEW r \in [Agents -> Worker], NEW x \in Agents, NEW ls, NEW y \in Agents
    PROVE  /\ Register(r, x, ls)[y].gen = r[y].gen
           /\ Register(r, x, ls)[x].known
           /\ Register(r, x, ls)[x].links = {FoldReported(r, x, l) : l \in ls}
           /\ y # x => /\ Register(r, x, ls)[y].known = r[y].known
                       /\ Register(r, x, ls)[y].links = {FoldOther(x, l) : l \in r[y].links}
<1>1. r[y] \in Worker
  OBVIOUS
<1>2. y # x => Register(r, x, ls)[y] =
          [r[y] EXCEPT !.links = {FoldOther(x, l) : l \in r[y].links}]
  BY DEF Register
<1>3. /\ Register(r, x, ls)[x].known
      /\ Register(r, x, ls)[x].gen = r[x].gen
      /\ Register(r, x, ls)[x].links = {FoldReported(r, x, l) : l \in ls}
  BY DEF Register
<1>4. QED
  BY <1>1, <1>2, <1>3 DEF Worker

\* A step that leaves the sessions in the registry, and the phases of the
\* handlers, keeps the invariant.
LEMMA FrameSession ==
    ASSUME SessionInv, generation' = generation,
           \A y \in Agents : /\ reg'[y].gen = reg[y].gen /\ reg'[y].known = reg[y].known
                             /\ reg'[y].links # {} => reg[y].links # {},
           \A x \in Conns : ConnKept(x), TypeOK
    PROVE  SessionInv'
<1> USE DEF SessionInv
<1>1. GenerationsDrawn'
  BY DEF GenerationsDrawn, ConnKept
<1>2. GenerationsApart'
  BY DEF GenerationsApart, ConnKept
<1>3. GenerationPhase'
  BY DEF GenerationPhase, ConnKept
<1>4. EntriesKnown'
  BY DEF EntriesKnown
<1>5. SessionOwnsAgent'
  BY DEF SessionOwnsAgent, AttachedTo, ConnKept, Attached, TypeOK, ConnOK
<1>6. NoGhostAgent'
  BY DEF NoGhostAgent, AttachedTo, ConnKept, Joining
<1>7. QED
  BY <1>1, <1>2, <1>3, <1>4, <1>5, <1>6

\* The hello of a new connection, and a registration on a serving one.
LEMMA RegisterSession ==
    ASSUME TypeOK, SessionInv, NEW x \in Conns, NEW y \in Agents, NEW ls \in Reports[y],
           RegisterLinks(x, y, ls)
    PROVE  SessionInv'
<1> USE DEF SessionInv
<1>1. conn[x] \in Connection /\ conn \in [Conns -> Connection] /\ reg \in [Agents -> Worker]
  BY DEF TypeOK, ConnOK, RegOK
<1>2. /\ \/ conn[x].pc = "unused"
         \/ conn[x].pc = "serving" /\ conn[x].agent = y
      /\ reg' = Register(reg, y, ls) /\ generation' = generation
      /\ conn' = [conn EXCEPT ![x] =
            [conn[x] EXCEPT !.pc = "directory", !.agent = y, !.links = ls]]
  BY DEF RegisterLinks
<1>3. /\ conn'[x].pc = "directory" /\ conn'[x].agent = y /\ conn'[x].gen = conn[x].gen
      /\ \A z \in Conns : z # x => conn'[z] = conn[z]
  BY <1>1, <1>2 DEF Connection
<1>4. \A z \in Agents : /\ reg'[z].gen = reg[z].gen
                        /\ z # y => reg'[z].known = reg[z].known
                        /\ z # y /\ reg'[z].links # {} => reg[z].links # {}
  BY <1>1, <1>2, RegisterKeeps
<1>5. reg'[y].known
  BY <1>1, <1>2, RegisterKeeps
<1>6. GenerationsDrawn'
  BY <1>2, <1>3, <1>4 DEF GenerationsDrawn
<1>7. GenerationsApart'
  BY <1>3 DEF GenerationsApart
<1>8. GenerationPhase'
  BY <1>3 DEF GenerationPhase, Attached
<1>9. EntriesKnown'
  BY <1>4, <1>5 DEF EntriesKnown
<1>10. SessionOwnsAgent'
  <2> SUFFICES ASSUME NEW z \in Conns, conn'[z].pc \in Attached, conn'[z].up
               PROVE  AttachedTo(conn[z].agent, z)'
    BY <1>3 DEF SessionOwnsAgent, Attached
  <2>1. z # x /\ conn'[z] = conn[z]
    BY <1>3 DEF Attached
  <2>2. conn[z].agent \in Agents /\ AttachedTo(conn[z].agent, z)
    BY <2>1 DEF SessionOwnsAgent, Attached, TypeOK, ConnOK
  <2>3. QED
    BY <1>4, <2>1, <2>2 DEF AttachedTo
<1>11. NoGhostAgent'
  <2> SUFFICES ASSUME NEW z \in Agents, reg'[z].known
               PROVE  \E w \in Conns :
                         \/ AttachedTo(z, w)'
                         \/ reg'[z].gen = 0 /\ conn'[w].agent = z /\ conn'[w].pc \in Joining
    BY DEF NoGhostAgent, Joining
  <2>1. ASSUME NEW w \in Conns, AttachedTo(z, w) PROVE AttachedTo(z, w)'
    BY <1>2, <1>3, <1>4, <2>1 DEF AttachedTo, GenerationPhase
  <2>2. CASE z = y
    <3>1. CASE reg[z].gen = 0
      BY <1>3, <1>4, <2>2, <3>1 DEF Joining
    <3>2. CASE reg[z].gen # 0
      BY <2>1, <3>2 DEF NoGhostAgent, EntriesKnown
    <3>3. QED
      BY <3>1, <3>2
  <2>3. CASE z # y
    <3>1. PICK w \in Conns :
             \/ AttachedTo(z, w)
             \/ reg[z].gen = 0 /\ conn[w].agent = z /\ conn[w].pc \in Joining
      BY <1>4, <2>3 DEF NoGhostAgent, Joining
    <3>2. QED
      BY <1>2, <1>3, <1>4, <2>1, <3>1 DEF Joining
  <2>4. QED
    BY <2>2, <2>3
<1>12. QED
  BY <1>6, <1>7, <1>8, <1>9, <1>10, <1>11

\* An attach draws a new generation and closes the session it supersedes, or
\* keeps the session that is the connection's own.
LEMMA AttachInv ==
    ASSUME TypeOK, SessionInv, NEW x \in Conns, AttachSession(x)
    PROVE  SessionInv'
<1> USE DEF SessionInv
<1> DEFINE a == conn[x].agent
           own == conn[x].gen
           keeps == KeepsSession(reg, a, own)
           g == IF keeps THEN own ELSE generation + 1
<1>1. /\ conn \in [Conns -> Connection] /\ reg \in [Agents -> Worker] /\ generation \in Nat
      /\ conn[x].pc = "attach" /\ a \in Agents /\ own \in Nat
  BY DEF TypeOK, ConnOK, RegOK, AttachSession, Connection
<1>2. /\ reg' = Attach(reg, a, own, g)
      /\ generation' = IF keeps THEN generation ELSE g
      /\ conn' = [y \in Conns |->
              IF y = x THEN [conn[x] EXCEPT !.pc = "seed", !.gen = g, !.todo = reg[a].links]
              ELSE IF ~keeps /\ AttachedTo(a, y) THEN [conn[y] EXCEPT !.up = FALSE] ELSE conn[y]]
  BY DEF AttachSession
<1>3. \A z \in Conns : conn[z].gen \in Nat /\ conn[z].gen <= generation
  BY <1>1 DEF GenerationsDrawn, Connection
<1>4. \A z \in Agents : reg[z].gen \in Nat /\ reg[z].gen <= generation
  BY <1>1 DEF GenerationsDrawn, Worker
<1>5. /\ conn'[x].pc = "seed" /\ conn'[x].gen = g /\ conn'[x].agent = a
      /\ conn'[x].up = conn[x].up
  BY <1>1, <1>2 DEF Connection
<1>6. ASSUME NEW z \in Conns, z # x
      PROVE  /\ conn'[z].pc = conn[z].pc /\ conn'[z].gen = conn[z].gen
             /\ conn'[z].agent = conn[z].agent
             /\ conn'[z].up => conn[z].up /\ (keeps \/ ~AttachedTo(a, z))
  <2>1. conn[z] \in Connection
    BY <1>1
  <2>2. conn'[z] = IF ~keeps /\ AttachedTo(a, z) THEN [conn[z] EXCEPT !.up = FALSE] ELSE conn[z]
    BY <1>2, <1>6
  <2>3. QED
    BY <2>1, <2>2 DEF Connection
<1>7. /\ g \in Nat /\ g # 0 /\ generation' \in Nat /\ g <= generation' /\ generation <= generation'
      /\ keeps \/ g > generation
  <2>1. CASE keeps
    BY <1>1, <1>2, <1>3, <2>1 DEF KeepsSession
  <2>2. CASE ~keeps
    BY <1>1, <1>2, <2>2
  <2>3. QED
    BY <2>1, <2>2
<1>8. /\ reg'[a].gen = g
      /\ reg'[a].links = reg[a].links
      /\ reg'[a].known
      /\ \A z \in Agents : z # a => reg'[z] = reg[z]
  <2>1. reg[a] \in Worker
    BY <1>1
  <2>2. CASE keeps
    BY <1>1, <1>2, <2>2 DEF Attach, KeepsSession, EntriesKnown
  <2>3. CASE ~keeps
    BY <1>1, <1>2, <2>1, <2>3 DEF Attach, Worker
  <2>4. QED
    BY <2>2, <2>3
<1> HIDE DEF a, own, keeps, g
<1>9. GenerationsDrawn'
  <2>1. ASSUME NEW z \in Conns PROVE conn'[z].gen <= generation'
    BY <1>1, <1>3, <1>5, <1>6, <1>7
  <2>2. ASSUME NEW z \in Agents PROVE reg'[z].gen <= generation'
    BY <1>1, <1>4, <1>7, <1>8
  <2>3. QED
    BY <2>1, <2>2 DEF GenerationsDrawn
<1>10. GenerationsApart'
  <2>1. ASSUME NEW z \in Conns, z # x PROVE conn'[z].gen # g
    <3>1. CASE keeps
      <4>1. g = own /\ own # 0
        BY <3>1, <1>7 DEF g
      <4>2. QED
        BY <1>6, <2>1, <4>1 DEF GenerationsApart, own
    <3>2. CASE ~keeps
      BY <1>1, <1>3, <1>6, <1>7, <2>1, <3>2
    <3>3. QED
      BY <3>1, <3>2
  <2>2. QED
    BY <1>5, <1>6, <2>1 DEF GenerationsApart
<1>11. GenerationPhase'
  BY <1>5, <1>6, <1>7 DEF GenerationPhase
<1>12. EntriesKnown'
  BY <1>8 DEF EntriesKnown
<1>13. SessionOwnsAgent'
  <2> SUFFICES ASSUME NEW z \in Conns, conn'[z].pc \in Attached, conn'[z].up
               PROVE  conn'[z].gen # 0 /\ conn'[z].gen = reg'[conn'[z].agent].gen
    BY DEF SessionOwnsAgent, Attached, AttachedTo
  <2>1. CASE z = x
    BY <1>5, <1>7, <1>8, <2>1 DEF AttachedTo
  <2>2. CASE z # x
    <3>1. /\ AttachedTo(conn[z].agent, z) /\ conn[z].agent \in Agents
          /\ keeps \/ ~AttachedTo(a, z)
      BY <1>6, <2>2 DEF SessionOwnsAgent, Attached, TypeOK, ConnOK
    <3>2. CASE conn[z].agent # a
      BY <1>6, <1>8, <2>2, <3>1, <3>2 DEF AttachedTo
    <3>3. CASE conn[z].agent = a
      <4>1. keeps
        BY <3>1, <3>3
      <4>2. reg[a].gen = g
        BY <4>1 DEF keeps, g, KeepsSession
      <4>3. QED
        BY <1>6, <1>8, <2>2, <3>1, <3>3, <4>2 DEF AttachedTo
    <3>4. QED
      BY <3>2, <3>3
  <2>3. QED
    BY <2>1, <2>2
<1>14. NoGhostAgent'
  <2> SUFFICES ASSUME NEW z \in Agents, reg'[z].known
               PROVE  \E w \in Conns :
                         \/ AttachedTo(z, w)'
                         \/ reg'[z].gen = 0 /\ conn'[w].agent = z /\ conn'[w].pc \in Joining
    BY DEF NoGhostAgent, Joining
  <2>1. CASE z = a
    BY <1>5, <1>7, <1>8, <2>1 DEF AttachedTo
  <2>2. CASE z # a
    <3>1. PICK w \in Conns :
             \/ AttachedTo(z, w)
             \/ reg[z].gen = 0 /\ conn[w].agent = z /\ conn[w].pc \in Joining
      BY <1>8, <2>2 DEF NoGhostAgent, Joining
    <3>2. w # x
      BY <2>2, <3>1 DEF AttachedTo, a
    <3>3. QED
      BY <1>6, <1>8, <2>2, <3>1, <3>2 DEF AttachedTo
  <2>3. QED
    BY <2>1, <2>2
<1>15. QED
  BY <1>9, <1>10, <1>11, <1>12, <1>13, <1>14
\* A detach forgets the agent when the closing connection owns it, and nothing
\* else: the generation is nobody else's.
LEMMA DetachInv ==
    ASSUME TypeOK, SessionInv, NEW x \in Conns, DetachSession(x)
    PROVE  SessionInv'
<1> USE DEF SessionInv
<1> DEFINE a == conn[x].agent
           own == conn[x].gen
<1>1. /\ conn \in [Conns -> Connection] /\ reg \in [Agents -> Worker] /\ generation \in Nat
      /\ conn[x].pc = "serving" /\ a \in Agents /\ own # 0
  BY DEF TypeOK, ConnOK, RegOK, DetachSession, GenerationPhase, Attached
<1>2. /\ reg' = Detach(reg, a, own) /\ generation' = generation
      /\ conn' = [conn EXCEPT ![x] = [UnusedConn EXCEPT !.pc = "done", !.up = FALSE]]
  BY DEF DetachSession
<1>3. /\ conn'[x].pc = "done" /\ conn'[x].gen = 0 /\ ~conn'[x].up
      /\ \A z \in Conns : z # x => conn'[z] = conn[z]
  BY <1>1, <1>2 DEF UnusedConn
<1>4. \A z \in Agents : z # a => reg'[z] = reg[z]
  BY <1>1, <1>2 DEF Detach
<1>5. \/ reg'[a] = NoWorker /\ reg[a].gen = own
      \/ reg'[a] = reg[a] /\ reg[a].gen # own
  BY <1>1, <1>2 DEF Detach, EntriesKnown
<1>6. NoWorker.gen = 0 /\ ~NoWorker.known /\ NoWorker.links = {}
  BY DEF NoWorker
<1> HIDE DEF a, own
<1>7. GenerationsDrawn'
  <2>1. ASSUME NEW z \in Conns PROVE conn'[z].gen <= generation'
    BY <1>1, <1>2, <1>3 DEF GenerationsDrawn
  <2>2. ASSUME NEW z \in Agents PROVE reg'[z].gen <= generation'
    BY <1>1, <1>2, <1>4, <1>5, <1>6 DEF GenerationsDrawn
  <2>3. QED
    BY <2>1, <2>2 DEF GenerationsDrawn
<1>8. GenerationsApart'
  BY <1>3 DEF GenerationsApart
<1>9. GenerationPhase'
  BY <1>3 DEF GenerationPhase, Attached
<1>10. EntriesKnown'
  BY <1>4, <1>5, <1>6 DEF EntriesKnown
<1>11. SessionOwnsAgent'
  <2> SUFFICES ASSUME NEW z \in Conns, conn'[z].pc \in Attached, conn'[z].up
               PROVE  conn'[z].gen # 0 /\ conn'[z].gen = reg'[conn'[z].agent].gen
    BY DEF SessionOwnsAgent, Attached, AttachedTo
  <2>1. z # x /\ conn'[z] = conn[z]
    BY <1>3
  <2>2. conn[z].agent \in Agents /\ conn[z].gen # 0 /\ conn[z].gen = reg[conn[z].agent].gen
    BY <2>1 DEF SessionOwnsAgent, AttachedTo, Attached, TypeOK, ConnOK
  <2>3. conn[z].gen # own
    BY <2>1, <2>2 DEF GenerationsApart, own
  <2>4. QED
    BY <1>4, <1>5, <2>1, <2>2, <2>3
<1>12. NoGhostAgent'
  <2> SUFFICES ASSUME NEW z \in Agents, reg'[z].known
               PROVE  \E w \in Conns :
                         \/ AttachedTo(z, w)'
                         \/ reg'[z].gen = 0 /\ conn'[w].agent = z /\ conn'[w].pc \in Joining
    BY DEF NoGhostAgent, Joining
  <2>1. reg'[z] = reg[z]
    BY <1>4, <1>5, <1>6
  <2>2. PICK w \in Conns :
           \/ AttachedTo(z, w)
           \/ reg[z].gen = 0 /\ conn[w].agent = z /\ conn[w].pc \in Joining
    BY <2>1 DEF NoGhostAgent, Joining
  <2>3. w # x
    <3>1. CASE AttachedTo(z, w) /\ w = x
      <4>1. z = a /\ reg[z].gen = own
        BY <3>1 DEF AttachedTo, a, own
      <4>2. QED
        BY <1>5, <1>6, <2>1, <4>1
    <3>2. CASE conn[w].pc \in Joining
      BY <1>1, <3>2 DEF Joining
    <3>3. QED
      BY <2>2, <3>1, <3>2
  <2>4. QED
    BY <1>3, <2>1, <2>2, <2>3 DEF AttachedTo
<1>13. QED
  BY <1>7, <1>8, <1>9, <1>10, <1>11, <1>12

\* No connection has said hello and nobody is registered.
LEMMA InitSession == Init => SessionInv
BY DEF Init, NoWorker, UnusedConn, SessionInv, GenerationsDrawn, GenerationsApart, GenerationPhase,
       EntriesKnown, SessionOwnsAgent, NoGhostAgent, Attached

\* Every step keeps the invariant.
LEMMA StepSession == TypeOK /\ SessionInv /\ [Next]_vars => SessionInv'
<1> SUFFICES ASSUME TypeOK, SessionInv, [Next]_vars PROVE SessionInv'
  OBVIOUS
<1>1. ASSUME NEW x \in Conns, NEW y \in Agents, NEW ls \in Reports[y], RegisterLinks(x, y, ls)
      PROVE  SessionInv'
  BY <1>1, RegisterSession
<1>2. ASSUME NEW x \in Conns, SyncDirectory(x) PROVE SessionInv'
  <2>1. \A z \in Conns : ConnKept(z)
    BY <1>2 DEF SyncDirectory, ConnKept, TypeOK, ConnOK, Connection, Attached, Joining
  <2>2. reg' = ResolvePeers(reg, directory') /\ generation' = generation
    BY <1>2 DEF SyncDirectory
  <2>3. \A y \in Agents : /\ reg'[y].gen = reg[y].gen /\ reg'[y].known = reg[y].known
                          /\ reg'[y].links # {} => reg[y].links # {}
    BY <2>2, ResolveKeeps DEF TypeOK, RegOK
  <2>4. QED
    BY <2>1, <2>2, <2>3, FrameSession
<1>3. ASSUME NEW x \in Conns, AttachSession(x) PROVE SessionInv'
  BY <1>3, AttachInv
<1>4. ASSUME NEW x \in Conns, DetachSession(x) PROVE SessionInv'
  BY <1>4, DetachInv
<1>5. ASSUME NEW y \in Agents, LearnNode(y) PROVE SessionInv'
  <2>1. \A z \in Conns : ConnKept(z)
    BY <1>5 DEF LearnNode, ConnKept
  <2>2. reg' = ResolvePeers(reg, directory') /\ generation' = generation
    BY <1>5 DEF LearnNode
  <2>3. \A z \in Agents : /\ reg'[z].gen = reg[z].gen /\ reg'[z].known = reg[z].known
                          /\ reg'[z].links # {} => reg[z].links # {}
    BY <2>2, ResolveKeeps DEF TypeOK, RegOK
  <2>4. QED
    BY <2>1, <2>2, <2>3, FrameSession
<1>6. ASSUME Quiet PROVE SessionInv'
  BY <1>6, FrameSession DEF Quiet, EntryKept
<1>7. QED
  BY <1>1, <1>2, <1>3, <1>4, <1>5, <1>6, QuietSteps

\* A live connection whose registration completed is the one the agent's
\* commands go to, however hellos, attaches, closings and detaches of any
\* number of connections interleave (worker.rs, session.rs).
THEOREM SessionsOwn == Spec => []SessionOwnsAgent
<1>1. SessionInv => SessionOwnsAgent
  BY DEF SessionInv
<1>2. QED
  BY InitSession, StepSession, TypeCorrect, <1>1, PTL DEF Spec

\* An agent in the registry always has a handler that will forget it, so that
\* the closing of a session, for any reason, evicts the agent (session.rs).
THEOREM NoGhosts == Spec => []NoGhostAgent
<1>1. SessionInv => NoGhostAgent
  BY DEF SessionInv
<1>2. QED
  BY InitSession, StepSession, TypeCorrect, <1>1, PTL DEF Spec

-----------------------------------------------------------------------------
(* Names.                                                                  *)

\* The registry gives each registered node one spelling: settled before a
\* registration, settled after it.
LEMMA RegisterSettles ==
    ASSUME NEW r \in [Agents -> Worker], NEW x \in Agents, NEW ls \in SUBSET Links,
           \A z \in Agents : r[z].links # {} => r[z].known,
           \A y, z \in Agents : r[z].links # {} =>
               \A l \in r[y].links : NameKey[l.to] = NameKey[z] => l.to = z,
           NEW y \in Agents, NEW z \in Agents, Register(r, x, ls)[z].links # {},
           NEW l \in Register(r, x, ls)[y].links, NameKey[l.to] = NameKey[z]
    PROVE  l.to = z
<1>1. z # x => r[z].links # {} /\ z \in Known(r)
  BY RegisterKeeps DEF Known
<1>2. ASSUME NEW k \in Agents, NEW m \in Links, l = RenameTo(m, k) PROVE l.to = z
  <2>1. l.to = k
    BY <1>2, WorkersAssumption DEF RenameTo
  <2>2. QED
    BY <2>1, WorkersAssumption
<1>3. CASE y = x
  <2>1. PICK m \in ls : l = FoldReported(r, x, m)
    BY <1>3, RegisterKeeps
  <2>2. m \in Links
    OBVIOUS
  <2>3. CASE \E k \in Known(r) : NameKey[k] = NameKey[m.to]
    <3> DEFINE k == CHOOSE k \in Known(r) : NameKey[k] = NameKey[m.to]
    <3>1. k \in Known(r)
      BY <2>3
    <3>2. k \in Agents
      BY <3>1 DEF Known
    <3>3. l = RenameTo(m, k)
      BY <2>1, <2>3 DEF FoldReported
    <3>4. QED
      BY <1>2, <2>2, <3>2, <3>3
  <2>4. CASE (~\E k \in Known(r) : NameKey[k] = NameKey[m.to]) /\ NameKey[m.to] = NameKey[x]
    <3>1. l = RenameTo(m, x)
      BY <2>1, <2>4 DEF FoldReported
    <3>2. QED
      BY <1>2, <2>2, <3>1
  <2>5. CASE (~\E k \in Known(r) : NameKey[k] = NameKey[m.to]) /\ NameKey[m.to] # NameKey[x]
    <3>1. l = m
      BY <2>1, <2>5 DEF FoldReported
    <3>2. QED
      BY <1>1, <2>5, <3>1
  <2>6. QED
    BY <2>3, <2>4, <2>5
<1>4. CASE y # x
  <2>1. PICK m \in r[y].links : l = FoldOther(x, m)
    BY <1>4, RegisterKeeps
  <2>2. m \in Links
    BY DEF Worker
  <2>3. CASE NameKey[m.to] = NameKey[x]
    <3>1. l = RenameTo(m, x)
      BY <2>1, <2>3 DEF FoldOther
    <3>2. QED
      BY <1>2, <2>2, <3>1
  <2>4. CASE NameKey[m.to] # NameKey[x]
    <3>1. l = m
      BY <2>1, <2>4 DEF FoldOther
    <3>2. z # x
      BY <2>4, <3>1
    <3>3. QED
      BY <1>1, <3>1, <3>2
  <2>5. QED
    BY <2>3, <2>4
<1>5. QED
  BY <1>3, <1>4
\* The directory names nodes by the names they registered: it unsettles nothing.
LEMMA ResolveSettles ==
    ASSUME NEW r \in [Agents -> Worker], NEW dir \in [Rids -> Agents \cup {NoName}],
           \A y, z \in Agents : r[z].links # {} =>
               \A l \in r[y].links : NameKey[l.to] = NameKey[z] => l.to = z,
           NEW y \in Agents, NEW z \in Agents, ResolvePeers(r, dir)[z].links # {},
           NEW l \in ResolvePeers(r, dir)[y].links, NameKey[l.to] = NameKey[z]
    PROVE  l.to = z
<1>1. r[z].links # {}
  BY ResolveKeeps
<1>2. PICK m \in r[y].links : l = NameByDirectory(dir, m)
  BY ResolveKeeps
<1>3. m \in Links
  BY DEF Worker
<1>4. CASE DirectoryName(dir, m) = NoName
  BY <1>1, <1>2, <1>4 DEF NameByDirectory
<1>5. CASE DirectoryName(dir, m) # NoName
  <2>1. DirectoryName(dir, m) \in Agents
    BY <1>5 DEF DirectoryName
  <2>2. l = RenameTo(m, DirectoryName(dir, m))
    BY <1>2, <1>5 DEF NameByDirectory
  <2>3. l.to = DirectoryName(dir, m)
    BY <1>3, <2>2, WorkersAssumption DEF RenameTo
  <2>4. QED
    BY <2>1, <2>3, WorkersAssumption
<1>6. QED
  BY <1>4, <1>5

\* Every step keeps the names settled.
LEMMA StepSpelling ==
    TypeOK /\ TypeOK' /\ SessionInv /\ SpellingSettled /\ [Next]_vars => SpellingSettled'
<1> SUFFICES ASSUME TypeOK, TypeOK', SessionInv, SpellingSettled, [Next]_vars
             PROVE  SpellingSettled'
  OBVIOUS
<1>0. /\ reg \in [Agents -> Worker]
      /\ \A z \in Agents : reg[z].links # {} => reg[z].known
      /\ \A y, z \in Agents : reg[z].links # {} =>
             \A l \in reg[y].links : NameKey[l.to] = NameKey[z] => l.to = z
  BY DEF TypeOK, RegOK, SessionInv, EntriesKnown, SpellingSettled
<1>1. ASSUME NEW x \in Conns, NEW y \in Agents, NEW ls \in Reports[y], RegisterLinks(x, y, ls)
      PROVE  SpellingSettled'
  <2>1. ls \in SUBSET Links /\ reg' = Register(reg, y, ls)
    BY <1>1, DispatchAssumption DEF RegisterLinks
  <2>2. QED
    BY <1>0, <2>1, RegisterSettles DEF SpellingSettled
<1>2. ASSUME reg' = ResolvePeers(reg, directory') PROVE SpellingSettled'
  <2>1. directory' \in [Rids -> Agents \cup {NoName}]
    BY DEF TypeOK, DirectoryOK
  <2>2. QED
    BY <1>0, <1>2, <2>1, ResolveSettles DEF SpellingSettled
<1>3. ASSUME \A y \in Agents : reg'[y].links = reg[y].links \/ reg'[y].links = {}
      PROVE  SpellingSettled'
  BY <1>0, <1>3 DEF SpellingSettled
<1>4. ASSUME NEW x \in Conns, AttachSession(x) PROVE SpellingSettled'
  <2>1. conn[x].agent \in Agents
    BY <1>4 DEF AttachSession, TypeOK, ConnOK
  <2>2. \A y \in Agents : reg'[y].links = reg[y].links
    BY <1>0, <1>4, <2>1 DEF AttachSession, Attach, Worker
  <2>3. QED
    BY <1>3, <2>2
<1>5. ASSUME NEW x \in Conns, DetachSession(x) PROVE SpellingSettled'
  <2>1. conn[x].agent \in Agents
    BY <1>5 DEF DetachSession, TypeOK, ConnOK
  <2>2. \A y \in Agents : reg'[y].links = reg[y].links \/ reg'[y].links = {}
    BY <1>0, <1>5, <2>1 DEF DetachSession, Detach, NoWorker
  <2>3. QED
    BY <1>3, <2>2
<1>6. ASSUME NEW x \in Conns, SyncDirectory(x) PROVE SpellingSettled'
  BY <1>2, <1>6 DEF SyncDirectory
<1>7. ASSUME NEW y \in Agents, LearnNode(y) PROVE SpellingSettled'
  BY <1>2, <1>7 DEF LearnNode
<1>8. ASSUME Quiet PROVE SpellingSettled'
  BY <1>3, <1>8 DEF Quiet, EntryKept
<1>9. QED
  BY <1>1, <1>4, <1>5, <1>6, <1>7, <1>8, QuietSteps

\* Whichever side registers first, whatever the directory learns in between,
\* a link to a node with registered links carries the name that node registered
\* (WorkerRegistry::register, resolve_peers).
THEOREM Spelling == Spec => []SpellingSettled
<1>1. Init => SpellingSettled
  BY DEF Init, NoWorker, SpellingSettled
<1>2. QED
  BY <1>1, InitSession, StepSession, StepSpelling, TypeCorrect, PTL DEF Spec
=============================================================================
