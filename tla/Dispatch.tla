------------------------------- MODULE Dispatch -------------------------------
(***************************************************************************)
(* The controller's command path: agent sessions (session.rs), the worker  *)
(* registry (worker.rs, module Workers), the scheduler (scheduler.rs) and  *)
(* the probe fence (fence.rs, module Leases).                              *)
(*                                                                         *)
(* Three kinds of activity run on tokio's worker threads and interleave at *)
(* lock granularity:                                                       *)
(*   - one handler per agent connection: hello / re-register, directory    *)
(*     sync, attach, seeding of costs, and the detach when it closes;      *)
(*   - the scheduler loop, which walks a snapshot of the owned links and   *)
(*     dispatches due probes and cost applies;                             *)
(*   - one task per dispatched command, which waits for the reply, settles *)
(*     it and frees the (link, kind) slot.                                 *)
(* Closing of connections, replies, failures and the passing of time are   *)
(* the environment's.  A session is single use: Conns bounds how many an   *)
(* instance sees, Ids how many commands and leases are pending at once.    *)
(***************************************************************************)
EXTENDS Workers, Leases

CONSTANTS
    Conns,     \* connections that agents may open
    Ids,       \* identities of commands; a throughput command's id is its token
    Reports,   \* agent |-> the link sets its discovery may report
    ProbeTiers,\* the probe tiers this instance schedules
    NoAgent, NoLink, NoConn

ASSUME DispatchAssumption ==
    /\ NoToken \notin Ids /\ NoConn \notin Conns
    /\ NoAgent \notin Agents /\ NoLink \notin Links
    /\ ProbeTiers \subseteq Tiers
    /\ Reports \in [Agents -> SUBSET SUBSET Links]

VARIABLES
    reg,        \* WorkerRegistry.inner
    generation, \* WorkerRegistry.generation
    conn,       \* per connection: its handler's progress and its identity
    directory,  \* the node directory: router id |-> registered name
    kvCost,     \* the derived record's cost per link (NoCost: no record)
    task,       \* the commands outstanding
    leases,     \* Fence.lease
    lapsed,     \* tokens older than their time to live
    sched       \* the scheduler loop

vars == <<reg, generation, conn, directory, kvCost, task, leases, lapsed, sched>>

-----------------------------------------------------------------------------
(* State.                                                                  *)

\* pc of a connection handler: "unused" before the hello; "directory",
\* "attach", "seed", "seeded" inside register(); "serving" while it waits
\* for streams; "done" after its detach.  `links` is the set the agent
\* registered last on it, `todo` holds the links still to seed, `link` and
\* `cost` the seed whose dispatch went out but is not recorded yet; `up` is
\* whether the QUIC connection is still alive.
Connection ==
    [pc   : {"unused", "directory", "attach", "seed", "seeded", "serving", "done"},
     up   : BOOLEAN,
     agent: Agents \cup {NoAgent},
     gen  : Nat,
     links: SUBSET Links,
     todo : SUBSET Links,
     link : Links \cup {NoLink},
     cost : Costs \cup {NoCost}]

UnusedConn ==
    [pc |-> "unused", up |-> TRUE, agent |-> NoAgent, gen |-> 0,
     links |-> {}, todo |-> {}, link |-> NoLink, cost |-> NoCost]

\* A command: "open" from the spawn until its reply or failure is settled,
\* "ending" until its slot is freed.
Task ==
    [st    : {"free", "open", "ending"},
     conn  : Conns \cup {NoConn},
     agent : Agents \cup {NoAgent},
     link  : Links \cup {NoLink},
     kind  : Kinds,
     cost  : Costs \cup {NoCost}]

FreeTask ==
    [st |-> "free", conn |-> NoConn, agent |-> NoAgent, link |-> NoLink,
     kind |-> "apply", cost |-> NoCost]

\* The scheduler is about to look at the kind `pc` of the current item,
\* holds a lease it has not dispatched under ("claim"), or has dispatched a
\* command it has not stamped yet ("stamp").
Scheduler ==
    [pc    : {"idle", "pick", "claim", "stamp"} \cup Kinds,
     todo  : SUBSET (Agents \X Links),
     agent : Agents \cup {NoAgent},
     link  : Links \cup {NoLink},
     kind  : Kinds,
     cost  : Costs \cup {NoCost},
     token : Ids \cup {NoToken}]

IdleScheduler ==
    [pc |-> "idle", todo |-> {}, agent |-> NoAgent, link |-> NoLink,
     kind |-> "always", cost |-> NoCost, token |-> NoToken]

RegOK == reg \in [Agents -> Worker] /\ generation \in Nat

DirectoryOK ==
    /\ directory \in [Rids -> Agents \cup {NoName}]
    /\ \A r \in Rids : directory[r] # NoName => RouterId[directory[r]] = r

ConnOK ==
    /\ conn \in [Conns -> Connection]
    /\ \A x \in Conns :
        /\ conn[x].pc \notin {"unused", "done"} => conn[x].agent \in Agents
        /\ conn[x].pc = "seeded" => conn[x].link \in Links

TaskOK ==
    /\ task \in [Ids -> Task]
    /\ \A i \in Ids : task[i].st # "free" =>
            /\ task[i].agent \in Agents
            /\ task[i].link \in Links

FenceOK == leases \in [Links -> Ids \cup {NoToken}] /\ lapsed \in SUBSET Ids

SchedOK ==
    /\ sched \in Scheduler
    /\ sched.pc \notin {"idle", "pick"} => sched.agent \in Agents /\ sched.link \in Links
    /\ sched.pc = "claim" => sched.token \in Ids

\* Types, and which fields are filled in which phase.
TypeOK ==
    /\ RegOK /\ DirectoryOK /\ ConnOK /\ TaskOK /\ FenceOK /\ SchedOK
    /\ kvCost \in [Links -> Costs \cup {NoCost}]

Init ==
    /\ reg = [a \in Agents |-> NoWorker]
    /\ generation = 0
    /\ conn = [c \in Conns |-> UnusedConn]
    /\ directory = [r \in Rids |-> NoName]
    /\ kvCost = [l \in Links |-> NoCost]
    /\ task = [i \in Ids |-> FreeTask]
    /\ leases = NoLeases(Links)
    /\ lapsed = {}
    /\ sched = IdleScheduler

-----------------------------------------------------------------------------
(* dispatch(): the agent must have a session and the slot must be free;    *)
(* the command runs in a task of its own on that session.                  *)

AttachedTo(a, c) ==
    conn[c].agent = a /\ conn[c].gen # 0 /\ conn[c].gen = reg[a].gen

CanDispatch(a, l, k) ==
    /\ \E c \in Conns : AttachedTo(a, c)
    /\ SlotFree(reg, a, l, k)

FreshId(i) == task[i].st = "free" /\ i \notin Held(leases)

\* Claim the slot and spawn the task.
Spawn(i, a, l, k, cost) ==
    /\ CanDispatch(a, l, k)
    /\ reg' = Begin(reg, a, l, k)
    /\ \E c \in Conns :
          /\ AttachedTo(a, c)
          /\ task' = [task EXCEPT ![i] =
                [st |-> "open", conn |-> c, agent |-> a, link |-> l,
                 kind |-> k, cost |-> cost]]

-----------------------------------------------------------------------------
(* Connection handlers.                                                    *)

\* The hello of a new connection, or a re-register on one that serves the
\* agent: the registry takes the reported link set.  An agent registers
\* again only when its link set changed (agent/src/main.rs).
RegisterLinks(c, a, links) ==
    /\ conn[c].up
    /\ \/ conn[c].pc = "unused"
       \/ conn[c].pc = "serving" /\ conn[c].agent = a /\ conn[c].links # links
    /\ reg' = Register(reg, a, links)
    /\ conn' = [conn EXCEPT ![c] =
          [conn[c] EXCEPT !.pc = "directory", !.agent = a, !.links = links]]
    /\ UNCHANGED <<generation, directory, kvCost, task, leases, lapsed, sched>>

\* set_node: the directory names the router id of a, if it has one.
SetNode(dir, a) == IF RouterId[a] \in Rids THEN [dir EXCEPT ![RouterId[a]] = a] ELSE dir

\* Publish the node under its router id and name everyone's peers.
SyncDirectory(c) ==
    LET a == conn[c].agent IN
    /\ conn[c].pc = "directory"
    /\ directory' = SetNode(directory, a)
    /\ reg' = ResolvePeers(reg, directory')
    /\ conn' = [conn EXCEPT ![c].pc = "attach"]
    /\ UNCHANGED <<generation, kvCost, task, leases, lapsed, sched>>

\* Attach the session; the superseded one, if any, is closed.  The links to
\* seed are read right after.
AttachSession(c) ==
    LET a     == conn[c].agent
        own   == conn[c].gen
        keeps == KeepsSession(reg, a, own)
        g     == IF keeps THEN own ELSE generation + 1
    IN
    /\ conn[c].pc = "attach"
    /\ reg' = Attach(reg, a, own, g)
    /\ generation' = IF keeps THEN generation ELSE g
    /\ conn' = [d \in Conns |->
          IF d = c
          THEN [conn[c] EXCEPT !.pc = "seed", !.gen = g, !.todo = reg[a].links]
          ELSE IF ~keeps /\ AttachedTo(a, d)
               THEN [conn[d] EXCEPT !.up = FALSE] ELSE conn[d]]
    /\ UNCHANGED <<directory, kvCost, task, leases, lapsed, sched>>

\* Re-issue the known cost of one link; a refused dispatch is skipped.
SeedCost(c, l, i) ==
    /\ conn[c].pc = "seed" /\ l \in conn[c].todo
    /\ kvCost[l] # NoCost
    /\ FreshId(i)
    /\ Spawn(i, conn[c].agent, l, "apply", kvCost[l])
    /\ conn' = [conn EXCEPT ![c] =
          [conn[c] EXCEPT !.pc = "seeded", !.link = l, !.cost = kvCost[l]]]
    /\ UNCHANGED <<generation, directory, kvCost, leases, lapsed, sched>>

SkipSeed(c, l) ==
    /\ conn[c].pc = "seed" /\ l \in conn[c].todo
    /\ kvCost[l] = NoCost \/ ~CanDispatch(conn[c].agent, l, "apply")
    /\ conn' = [conn EXCEPT ![c].todo = @ \ {l}]
    /\ UNCHANGED <<reg, generation, directory, kvCost, task, leases, lapsed, sched>>

\* Only after the dispatch is the seeded cost remembered as sent.
RecordSeed(c) ==
    /\ conn[c].pc = "seeded"
    /\ reg' = SetAppliedSent(reg, conn[c].agent, conn[c].link, conn[c].cost)
    /\ conn' = [conn EXCEPT ![c] =
          [conn[c] EXCEPT !.pc = "seed", !.todo = conn[c].todo \ {conn[c].link},
                          !.link = NoLink, !.cost = NoCost]]
    /\ UNCHANGED <<generation, directory, kvCost, task, leases, lapsed, sched>>

\* register() returns and the handler waits for the next stream.
Registered(c) ==
    /\ conn[c].pc = "seed" /\ conn[c].todo = {}
    /\ conn' = [conn EXCEPT ![c].pc = "serving"]
    /\ UNCHANGED <<reg, generation, directory, kvCost, task, leases, lapsed, sched>>

\* The connection dies: the agent restarts, or the path is lost.
Close(c) ==
    /\ conn[c].up /\ conn[c].pc # "unused"
    /\ conn' = [conn EXCEPT ![c].up = FALSE]
    /\ UNCHANGED <<reg, generation, directory, kvCost, task, leases, lapsed, sched>>

\* The handler leaves its loop and evicts the agent if it still owns it.
DetachSession(c) ==
    /\ conn[c].pc = "serving" /\ ~conn[c].up
    /\ reg' = Detach(reg, conn[c].agent, conn[c].gen)
    /\ conn' = [conn EXCEPT ![c] = [UnusedConn EXCEPT !.pc = "done", !.up = FALSE]]
    /\ UNCHANGED <<generation, directory, kvCost, task, leases, lapsed, sched>>

\* A gossip exchange teaches this member the name of a router id.
LearnNode(a) ==
    /\ RouterId[a] \in Rids /\ directory[RouterId[a]] # a
    /\ directory' = [directory EXCEPT ![RouterId[a]] = a]
    /\ reg' = ResolvePeers(reg, directory')
    /\ UNCHANGED <<generation, conn, kvCost, task, leases, lapsed, sched>>

-----------------------------------------------------------------------------
(* Command tasks.                                                          *)

Settle(i) == task' = [task EXCEPT ![i].st = "ending"]

\* A measurement arrives: the link's far end is put in its registered
\* spelling, and the token it echoes releases the lease of that link.
ReplyProbe(i) ==
    /\ task[i].st = "open" /\ task[i].kind \in Tiers
    /\ Settle(i)
    /\ leases' = IF task[i].kind = "throughput"
                 THEN Release(leases,
                              RenameTo(task[i].link,
                                       CanonicalPeer(reg, task[i].link.to)), i)
                 ELSE leases
    /\ UNCHANGED <<reg, generation, conn, directory, kvCost, lapsed, sched>>

\* The agent applied the cost.
ReplyApplied(i) ==
    /\ task[i].st = "open" /\ task[i].kind = "apply"
    /\ Settle(i)
    /\ reg' = SetAppliedSent(reg, task[i].agent, task[i].link, task[i].cost)
    /\ UNCHANGED <<generation, conn, directory, kvCost, leases, lapsed, sched>>

\* The agent answers that it could not.
ReplyNoted(i) ==
    /\ task[i].st = "open" /\ task[i].kind = "apply"
    /\ Settle(i)
    /\ reg' = NoteApplyFailed(reg, task[i].agent, task[i].link)
    /\ UNCHANGED <<generation, conn, directory, kvCost, leases, lapsed, sched>>

\* Mutant: the lease of a failed test is left to expire.
FailKeeping(i) ==
    /\ task[i].st = "open"
    /\ Settle(i)
    /\ reg' = IF task[i].kind = "apply"
              THEN NoteApplyFailed(reg, task[i].agent, task[i].link) ELSE reg
    /\ UNCHANGED <<generation, conn, directory, kvCost, leases, lapsed, sched>>

\* on_failure(): the stream broke, the deadline passed, or there was no
\* answer.
Fail(i) ==
    /\ task[i].st = "open"
    /\ Settle(i)
    /\ leases' = IF task[i].kind = "throughput"
                 THEN Release(leases, task[i].link, i) ELSE leases
    /\ reg' = IF task[i].kind = "apply"
              THEN NoteApplyFailed(reg, task[i].agent, task[i].link) ELSE reg
    /\ UNCHANGED <<generation, conn, directory, kvCost, lapsed, sched>>

\* The task's last step frees the slot.  (The age of a token nobody holds
\* any more is forgotten.)
EndTask(i) ==
    /\ task[i].st = "ending"
    /\ reg' = End(reg, task[i].agent, task[i].link, task[i].kind)
    /\ task' = [task EXCEPT ![i] = FreeTask]
    /\ lapsed' = lapsed \ ({i} \ Held(leases))
    /\ UNCHANGED <<generation, conn, directory, kvCost, leases, sched>>

-----------------------------------------------------------------------------
(* The scheduler: plan_tick over a snapshot of the owned links, in any     *)
(* order; per link the always tier, the throughput tier, the cost.         *)

Goto(pc) == sched' = [sched EXCEPT !.pc = pc]

\* On to the next (agent, link) of the snapshot.
NextItem == sched' = [IdleScheduler EXCEPT !.pc = "pick", !.todo = sched.todo]

Due(t) == t \in ProbeTiers /\ ProbeDue(reg, sched.agent, sched.link, t)

Tick ==
    /\ sched.pc = "idle"
    /\ sched' = [sched EXCEPT !.pc = "pick", !.todo = OwnedLinks(reg)]
    /\ UNCHANGED <<reg, generation, conn, directory, kvCost, task, leases, lapsed>>

Pick(p) ==
    /\ sched.pc = "pick" /\ p \in sched.todo
    /\ sched' = [sched EXCEPT !.pc = "always", !.agent = p[1], !.link = p[2],
                              !.todo = @ \ {p}]
    /\ UNCHANGED <<reg, generation, conn, directory, kvCost, task, leases, lapsed>>

TickDone ==
    /\ sched.pc = "pick" /\ sched.todo = {}
    /\ sched' = IdleScheduler
    /\ UNCHANGED <<reg, generation, conn, directory, kvCost, task, leases, lapsed>>

\* A command went out; its stamp is the scheduler's next step.
Stamping(k, cost) ==
    sched' = [sched EXCEPT !.pc = "stamp", !.kind = k, !.cost = cost,
                           !.token = NoToken]

DispatchAlways(i) ==
    /\ sched.pc = "always" /\ Due("always")
    /\ FreshId(i)
    /\ Spawn(i, sched.agent, sched.link, "always", NoCost)
    /\ Stamping("always", NoCost)
    /\ UNCHANGED <<generation, conn, directory, kvCost, leases, lapsed>>

SkipAlways ==
    /\ sched.pc = "always"
    /\ ~Due("always") \/ ~CanDispatch(sched.agent, sched.link, "always")
    /\ Goto("throughput")
    /\ UNCHANGED <<reg, generation, conn, directory, kvCost, task, leases, lapsed>>

\* Real traffic proved the link good: the test is skipped for an interval,
\* and with it the rest of this link's turn.
PassiveProof ==
    /\ sched.pc = "throughput" /\ Due("throughput")
    /\ reg' = MarkIssued(reg, sched.agent, sched.link, "throughput")
    /\ NextItem
    /\ UNCHANGED <<generation, conn, directory, kvCost, task, leases, lapsed>>

AcquireFence(i) ==
    /\ sched.pc = "throughput" /\ Due("throughput")
    /\ Grantable(leases, lapsed, sched.link)
    /\ FreshId(i)
    /\ leases' = Acquire(leases, lapsed, sched.link, i)
    /\ lapsed' = lapsed \ {i}
    /\ sched' = [sched EXCEPT !.pc = "claim", !.token = i]
    /\ UNCHANGED <<reg, generation, conn, directory, kvCost, task>>

\* Not due, or a live lease occupies one of the nodes.
SkipThroughput ==
    /\ sched.pc = "throughput"
    /\ ~(Due("throughput") /\ Grantable(leases, lapsed, sched.link))
    /\ leases' = IF Due("throughput") THEN Retain(leases, lapsed) ELSE leases
    /\ Goto("apply")
    /\ UNCHANGED <<reg, generation, conn, directory, kvCost, task, lapsed>>

DispatchThroughput ==
    /\ sched.pc = "claim"
    /\ Spawn(sched.token, sched.agent, sched.link, "throughput", NoCost)
    /\ Stamping("throughput", NoCost)
    /\ UNCHANGED <<generation, conn, directory, kvCost, leases, lapsed>>

\* No session, or a throughput command is outstanding: the lease is given
\* back.
ReturnLease ==
    /\ sched.pc = "claim"
    /\ ~CanDispatch(sched.agent, sched.link, "throughput")
    /\ leases' = Release(leases, sched.link, sched.token)
    /\ sched' = [sched EXCEPT !.pc = "apply", !.token = NoToken]
    /\ UNCHANGED <<reg, generation, conn, directory, kvCost, task, lapsed>>

ApplyWanted ==
    /\ kvCost[sched.link] # NoCost
    /\ ApplyDue(reg, sched.agent, sched.link, kvCost[sched.link])

DispatchApply(i) ==
    /\ sched.pc = "apply" /\ ApplyWanted
    /\ FreshId(i)
    /\ Spawn(i, sched.agent, sched.link, "apply", kvCost[sched.link])
    /\ Stamping("apply", kvCost[sched.link])
    /\ UNCHANGED <<generation, conn, directory, kvCost, leases, lapsed>>

SkipApply ==
    /\ sched.pc = "apply"
    /\ ~ApplyWanted \/ ~CanDispatch(sched.agent, sched.link, "apply")
    /\ NextItem
    /\ UNCHANGED <<reg, generation, conn, directory, kvCost, task, leases, lapsed>>

\* Only after the dispatch is the probe stamped, or the cost remembered as
\* sent.
Stamp ==
    /\ sched.pc = "stamp"
    /\ reg' = IF sched.kind = "apply"
              THEN SetAppliedSent(reg, sched.agent, sched.link, sched.cost)
              ELSE MarkIssued(reg, sched.agent, sched.link, sched.kind)
    /\ IF sched.kind = "apply" THEN NextItem
       ELSE Goto(IF sched.kind = "always" THEN "throughput" ELSE "apply")
    /\ UNCHANGED <<generation, conn, directory, kvCost, task, leases, lapsed>>

-----------------------------------------------------------------------------
(* The passing of time and the classifier.                                 *)

IntervalElapses(a, p) ==
    /\ p \in reg[a].issued
    /\ reg' = [reg EXCEPT ![a].issued = @ \ {p}]
    /\ UNCHANGED <<generation, conn, directory, kvCost, task, leases, lapsed, sched>>

RetryElapses(a, l) ==
    /\ l \in reg[a].retry
    /\ reg' = [reg EXCEPT ![a].retry = @ \ {l}]
    /\ UNCHANGED <<generation, conn, directory, kvCost, task, leases, lapsed, sched>>

LeaseLapses(i) ==
    /\ i \in Held(leases) \ lapsed
    /\ lapsed' = lapsed \cup {i}
    /\ UNCHANGED <<reg, generation, conn, directory, kvCost, task, leases, sched>>

DeriveCost(l, cost) ==
    /\ kvCost[l] # cost
    /\ kvCost' = [kvCost EXCEPT ![l] = cost]
    /\ UNCHANGED <<reg, generation, conn, directory, task, leases, lapsed, sched>>

-----------------------------------------------------------------------------
HandlerStep(c) ==
    \/ SyncDirectory(c)
    \/ AttachSession(c)
    \/ \E l \in Links, i \in Ids : SeedCost(c, l, i)
    \/ \E l \in Links : SkipSeed(c, l)
    \/ RecordSeed(c)
    \/ Registered(c)
    \/ DetachSession(c)

TaskStep(i) ==
    \/ ReplyProbe(i)
    \/ ReplyApplied(i)
    \/ ReplyNoted(i)
    \/ Fail(i)
    \/ EndTask(i)

SchedulerStep ==
    \/ Tick
    \/ \E p \in Agents \X Links : Pick(p)
    \/ TickDone
    \/ \E i \in Ids : DispatchAlways(i)
    \/ SkipAlways
    \/ PassiveProof
    \/ \E i \in Ids : AcquireFence(i)
    \/ SkipThroughput
    \/ DispatchThroughput
    \/ ReturnLease
    \/ \E i \in Ids : DispatchApply(i)
    \/ SkipApply
    \/ Stamp

EnvironmentStep ==
    \/ \E c \in Conns, a \in Agents : \E ls \in Reports[a] : RegisterLinks(c, a, ls)
    \/ \E c \in Conns : Close(c)
    \/ \E a \in Agents : LearnNode(a)
    \/ \E a \in Agents, p \in Links \X Tiers : IntervalElapses(a, p)
    \/ \E a \in Agents, l \in Links : RetryElapses(a, l)
    \/ \E i \in Ids : LeaseLapses(i)
    \/ \E l \in Links, cost \in Costs : DeriveCost(l, cost)

Next ==
    \/ \E c \in Conns : HandlerStep(c)
    \/ \E i \in Ids : TaskStep(i)
    \/ SchedulerStep
    \/ EnvironmentStep

Spec == Init /\ [][Next]_vars

\* The handlers, the scheduler and the command tasks are tokio tasks, which
\* are run; a command settles because it has a deadline.
Fairness ==
    /\ \A x \in Conns : WF_vars(HandlerStep(x))
    /\ \A i \in Ids : WF_vars(TaskStep(i))
    /\ WF_vars(SchedulerStep)

FairSpec == Spec /\ Fairness

-----------------------------------------------------------------------------
(* Properties.                                                             *)

Testing(i) == task[i].st = "open" /\ task[i].kind = "throughput"

\* A throughput test that has not outlived its lease holds it: no reply,
\* failure, superseding session or returned lease ever frees the lease of
\* another test (Fence::release is by token).
LeaseBacked ==
    \A i \in Ids : Testing(i) /\ i \notin lapsed => leases[task[i].link] = i

\* The lease the scheduler has acquired and not yet dispatched under is still
\* in the table, and no task runs under its token.
ClaimBacked ==
    sched.pc = "claim" =>
        /\ leases[sched.link] = sched.token
        /\ task[sched.token].st = "free"

\* Live leases occupy disjoint nodes.
LeasesApart ==
    \A l1, l2 \in Links :
        /\ l1 # l2
        /\ leases[l1] \in Ids \ lapsed
        /\ leases[l2] \in Ids \ lapsed
        => ~Occupies(l1, l2)

\* What the fence relies on between an acquire, the dispatch under the lease
\* and its release, which are three lock sections of two tasks: the token of
\* a lease is nobody else's, so that a reply, a failure or a returned lease
\* frees its own lease only.  It is the inductive form of NodeExclusive.
FenceInv == LeaseBacked /\ ClaimBacked /\ LeasesApart

\* The purpose of the fence (fence.rs, scheduler.rs): of two throughput
\* tests outstanding at once that name a common node, one has outlived its
\* lease.
NodeExclusive ==
    \A i, j \in Ids :
        /\ i # j
        /\ Testing(i) /\ Testing(j)
        /\ i \notin lapsed /\ j \notin lapsed
        => ~Occupies(task[i].link, task[j].link)

\* The lease's test is outstanding, or about to be issued.
Accounted(l) ==
    \/ Testing(leases[l]) /\ task[leases[l]].link = l
    \/ sched.pc = "claim" /\ sched.token = leases[l] /\ sched.link = l

\* "The controller releases the lease on receipt" (docs/protocol.md), and
\* at once when the command fails: a lease still within its time to live
\* belongs to a test that is outstanding, or that is about to be issued.
NoOrphanLease == \A l \in Links : leases[l] \in Ids \ lapsed => Accounted(l)

\* With renames it is not so: a reply releases under the link's registered
\* spelling (session.rs:345), which an agent or a gossip exchange may have
\* changed since the lease was taken.  That is the one way: no step but such a
\* reply leaves a live lease to its expiry, not a failure, a refused dispatch,
\* a superseded session or a detach.
OrphanedByRenameOnly ==
    [][\A l \in Links :
          /\ leases[l] \in Ids \ lapsed /\ Accounted(l)
          /\ leases'[l] \in Ids \ lapsed' /\ ~Accounted(l)'
          => \E i \in Ids :
                /\ Testing(i) /\ task[i].link = l /\ ReplyProbe(i)
                /\ CanonicalPeer(reg, l.to) # l.to]_vars

\* A live connection whose registration completed is the one the agent's
\* commands go to: no late detach of a superseded session evicts it, no
\* registration is attached over it without closing it.
SessionOwnsAgent ==
    \A c \in Conns :
        conn[c].pc \in {"seed", "seeded", "serving"} /\ conn[c].up
            => AttachedTo(conn[c].agent, c)

\* "The session closing, for any reason, evicts the agent" (docs/protocol.md):
\* an agent in the registry always has a handler that will forget it, the
\* one attached, or one still registering; no race leaves an agent behind
\* whose commands go to a session nobody watches.
NoGhostAgent ==
    \A a \in Agents : reg[a].known =>
        \E c \in Conns :
            \/ AttachedTo(a, c)
            \/ reg[a].gen = 0 /\ conn[c].agent = a /\ conn[c].pc \in {"directory", "attach"}

\* "Settle every link on the name the peer registers under, in both
\* directions of time" (worker.rs): whichever side registers first, a link
\* to a node with registered links carries the name that node registered.
\* (An entry without links may be one that attach recreated after a late
\* detach removed it; nobody's links are renamed to a node that comes back
\* like that.)
SpellingSettled ==
    \A x, y \in Agents : reg[y].links # {} =>
        \A l \in reg[x].links : NameKey[l.to] = NameKey[y] => l.to = y

\* Whatever is lost, superseded or late, no (link, kind) slot is claimed for
\* ever: a leaked slot would keep its link from ever being probed or costed
\* again (WorkerRegistry::begin refuses it).  The links of an agent start
\* at it.
SlotsDrain ==
    \A l \in Links, k \in Kinds : []<>(<<l, k>> \notin reg[l.from].inflight)
=============================================================================
