# mielofon-qoed: formal models

TLA+ models of the mielofon controller cluster and of its agents, the TLC
configurations that check them, and TLAPS proofs about the command path, the
store, gossip, the cost control, the classifier, the passive tier, the trace
walker and the agent's prober. File names below are relative to `crates/controller/src/` unless they
start with `agent/` (`crates/agent/src/`) or `docs/`.

Mielofon keeps the OSPF costs of a tunnel mesh in line with measured link
quality. An agent runs on every router, keeps one QUIC session to a controller,
executes probes and applies costs through BIRD. Controllers schedule the probes,
store the samples, classify each link, derive its cost and replicate samples and
derived records among themselves by gossip. Everything runs on multi-threaded
tokio, so two tasks interleave at every lock and at every await.

## 1. Inventory

| Component | State | Operations | Hard behaviours | What makes it correct |
|---|---|---|---|---|
| Worker registry (`worker.rs`) | per agent: links, session and generation, costs sent, apply back-offs, probe stamps, `(link, kind)` slots; a generation counter | register, resolve_peers, attach, detach, begin/end, mark_issued, set_applied_sent, note_apply_failed | each operation is one lock section, and callers take several in a row | a live session owns its agent; nobody owns an agent for ever; one spelling per node; slots are freed |
| Agent sessions (`session.rs`) | one handler per connection, one task per command | hello / re-register, directory sync, attach, seeding, detach; dispatch, reply, failure | reconnects race the old session's cleanup; replies and deadlines race each other | as above; one command per (link, kind) |
| Scheduler (`scheduler.rs`) | a snapshot of (agent, link) pairs during a tick | always probe, throughput test under a lease, cost apply, stamps | the snapshot ages while the tick runs; stamps follow the dispatch | no node is in two tests at once |
| Probe fence (`fence.rs`) | leases by link id | acquire, release, expiry | a test may outlive its lease | a release frees its own lease only; no lease lives for ever |
| Time-series store (`tsdb.rs`, `store.rs`) | rings with floors, buckets, delta queue, flush queues, two redb tables, watermarks | ingest, merge_delta, take_delta, prune, flush, load, query | ingest is five lock sections; a crash at any point; transactions fail | nothing dropped comes back; nothing counted twice; nothing lost but the queues; queue order |
| Records (`kv.rs`) | last-write-wins record per link, node directory | put, merge, set_node, merge_nodes, prune | equal time stamps; local expiry | the newest record wins; expired records go |
| Gossip (`gossip.rs`, `state.rs`) | a push per peer, a watermark per peer | tick, push, exchange, acknowledge | lost, late, repeated and reordered exchanges; restarts | watermarks pass nothing the peer lacks; resends change nothing; samples reach every member |
| Classifier (`classifier.rs`, `quality.rs`) | per link: class, candidate and its streak, pair, record | pair links, classify, hold, derive cost | late and replicated samples; passes between samples; data that ages out | no class change without its streak, and none missing after it; no recovery without a measurement |
| Alternate-marking join (`mark.rs`, `fold_marking` in `classifier.rs`) | totals and result per link | join two halves, summarize, fold into totals | halves that come late, out of order or never | each block counted once; a label that hides no loss |
| Trace walker (`trace.rs`) | one walk per request, cache of results | walk next hops breadth first, ask each hop, cache | ECMP, loops, hop cap, silent hops, a mesh that changes under the walk, stale cache | every request is answered; the result is the mesh's; what is served has a bounded age |
| HTTP API (`api.rs`, `map.rs`) | none of its own | ingest_quality, get_trace, views | – | – |
| Agent execution (`agent/agent.rs`, `agent/bird.rs`) | links, desired costs, apply lock | probe, apply, drift repair | repair races apply | BIRD ends at the desired cost |
| Agent session (`agent/session.rs`, `agent/main.rs`) | session, link set registered | dial, hello, serve, re-register | back-off, several controllers | an agent is always registering or registered |
| Agent marker (`agent/mark.rs`, `agent/nft.rs`) | colour, counters, baselines, block queue | flip, read, take_blocks | two clocks and packets in flight around each boundary; reloads; a queue at its limit; a reply lost with its blocks | each block is reported at most once, with its own counters |
| Agent prober (`agent/icmp.rs`, `agent/window.rs`), throughput (`agent/throughput.rs`) | ping tasks, windows, gate, test lock | reconcile, ping; begin, legs, end | a test around an echo; iperf3 that hangs; socket errors | no test in a window; pings resume |
| Agent discovery (`agent/discover.rs`, `Agent::refresh`) | links found last | select links | flaps; a failed status; two refreshes at once | a flap loses nothing; in the end what is pinged is what BIRD shows |
| Transport (`mielofon-transport`) | streams of a session | request, respond, frame codec | a request whose sender gave up is still handled | one answer per request |

Interactions: an agent's hello fills the registry and attaches the session; the
scheduler and the seeding dispatch commands on that session; a reply goes to the
store (and releases the lease) or to the registry; the classifier reads windows
of the store and writes records; gossip carries samples, records and node names
to the other members; the scheduler turns a record's cost into an apply command.
In the agent, the refresh decides which tunnels are pinged and repaired, a
throughput test pauses the pings and flags the marking blocks it overlaps, and
the always probe carries the ping window and the finished blocks back.

## 2. Modules

| Module | Models | Used by |
|---|---|---|
| `Workers` | one operator per lock section of `WorkerRegistry` | `Dispatch`, `CostControl` |
| `Leases` | one operator per lock section of `Fence` | `Dispatch` |
| `Dispatch` | handlers, command tasks, scheduler and fence, composed | `MCDispatch`, proofs |
| `DispatchProofs` | theorems about `Dispatch`: types, fence, sessions; what the registry's operators keep | |
| `CostControl` | one tunnel's cost from the derived record to BIRD: the controller's applies, the agent's command tasks, refresh and drift repair | `MCCostControl`, proofs |
| `CostControlProofs` | the controller's memory of the cost stays true | |
| `Samples` | samples, ring and floor, buckets, as operators | `Tsdb`, `Gossip` |
| `Tsdb` | one member's store for one link: ingest threads, flush loop, crash | `MCTsdb`, proofs |
| `TsdbProofs` | types; the floor holds; one writer loses nothing and counts once | |
| `Gossip` | several members: records, deltas, watermarks, pushes | `MCGossip`, proofs |
| `GossipProofs` | nothing is skipped where the queue is in order; records only get newer; echoes end | |
| `MarkJoin` | the join and the summary of marking blocks, as operators | `Marking`, `Passive` |
| `Marking` | the two agents of a tunnel that mark, count and read, and the packets between them | `Passive` |
| `Passive` | `Marking` composed with the replies, the store and the classifier's fold | `MCPassive`, proofs |
| `PassiveProofs` | types; `Passive` implements `BlockChannel`; tests, totals, exact loss, the clean label | |
| `BlockChannel` | abstract: an at-most-once channel | refined by `Passive` |
| `Classifier` | windows, pairs, classes, holds, hysteresis, the derived record | `MCClassifier`, proofs |
| `ClassifierProofs` | promptness, hysteresis, evidence | |
| `Trace` | requests, walks, the cache and a mesh that changes | `MCTrace`, proofs |
| `TraceProofs` | types, times, rows that hang together, the undisturbed walk is true | |
| `Probing` | the agent's discovery, ping tasks, gate and throughput tests | `MCProbing`, proofs |
| `ProbingProofs` | types, clean windows, flaps | |

### Dispatch

State: `reg` and `generation` are the registry; `conn[c]` is the progress of one
connection's handler; `task[i]` a spawned command; `leases`/`lapsed` the fence;
`sched` the scheduler's place in its tick; `directory` and `kvCost` what the
handlers read of the node directory and of the derived records.

Every lock section is an action:

- `register()` is `RegisterLinks`, `SyncDirectory`, `AttachSession`, then
  `SeedCost`/`SkipSeed`/`RecordSeed` per link, then `Registered`. `Close` ends a
  connection at any time; `DetachSession` is the handler's cleanup, which runs
  whenever it gets round to it.
- `plan_tick()` is `Tick`, `Pick`, and per link the always tier, the throughput
  tier (`AcquireFence`, then `DispatchThroughput` or `ReturnLease`), the cost
  (`DispatchApply`), each followed by a separate `Stamp`, with a skip action for
  each refused case. `PassiveProof` is a free choice: the rates it compares are
  not state of the command path.
- a command task is `ReplyProbe`, `ReplyApplied`, `ReplyNoted` or `Fail`, then
  `EndTask`.
- `LearnNode`, `DeriveCost` are the writes of gossip and of the classifier.

Time is abstracted to what has elapsed: the probe stamps that are still fresh
(`issued`), the applies still backing off (`retry`), the leases past their time
to live (`lapsed`). Connections are single use.

Two lock pairs are one step. `dispatch()` reads the session and then claims
the slot (`session.rs:247-250`); a session replaced in between only sends the
command to a session that is closed, which fails like any other. `set_node` and
`resolve_peers` write two tables, and the second reads the first again under its
own lock.

### CostControl

State: `kvCost` the derived record's cost, `reg` the registry, `issuer` the two
places that dispatch an apply (the scheduler, the seeding of a hello), `task` the
controller's command tasks; in the agent `run` the command tasks, `desired`, the
link's presence in `NodeState.links`, in `registered` and in `links_changed`, and
`refresh`; `bird` the cost BIRD has.

- the controller: `Issue`, then `Stamp` (`set_applied_sent` after `dispatch()`);
  `Applied`, `Noted`, `Unanswered` settle a command and free its slot;
  `RetryElapses` ends the back-off.
- the agent: `Receive`, `SetCost` or `SetCostFails`, `Record`. `SetCostFails` may
  have changed BIRD: the bus can lose the answer. `set_ospf_cost` with its retries
  runs under the apply lock and is one step.
- `refresh()`: `Sees`, `SeesNoCost` or `ReadNothing` (a failed `bird status` is an
  empty link set), `Compare` under the state lock, `Reapply` or `ReapplyFails`.
- `Reconnect` and `Reregister` are a hello on a new session and on the same one.
  What interleaves inside a hello is the subject of `Dispatch`.
- `Redeploy` (external) puts BIRD back to its static cost.

`overtaken` is a history variable. It is set when two applies are outstanding, or
at work in the agent, at once; when a command settles before its dispatch is
recorded as sent; and when an answer comes after a newer registration. In these
cases the controller's memory can be wrong until the next registration, so
`MemoryTrue` and `CostSettles` are stated for the behaviours without them.

### Samples, Tsdb

A sample has three dimensions: `probe`, `block` (the counters of an
alternate-marking block) and `joined` (the loss joined for it). Utilisation and
the busy state, which a merge only raises, are left out. A ring is a function
from seconds to samples, with the floor below which nothing is accepted. A bucket
keeps its counts; the sums, minima and maxima beside them follow the same rules.

An ingest is five actions (`IngestRing` … `IngestPending`), as in the code: the
ring lock, the bucket lock with the dirty map inside it, the counter, the delta
queue, the pending queue. The flush loop is `FlushTick`, `PruneBuckets`,
`PruneRecent`, `DrainPending`, `DrainDirty`, and `Commit`, `BeginFails` or
`CommitFails`. `Restart` is a crash at any point followed by `load()`.
`seen` is a history variable: what was accepted, by second and by bucket.

### Gossip

`mem[m]` holds a member's record of one link, its ring, its delta queue and its
watermark per peer; `work[m][w]` is a task of the member that ingests: a report of an
agent, or the samples of a peer's request, one by one.

An ingest is in the three sections that gossip depends on: `Report`, `Accept` or
`Refuse` (the ring lock), `Number` (`fetch_add`, `tsdb.rs:507`), `Queue` (the delta
queue's lock, `tsdb.rs:508`). The tasks of a member interleave between them, so one can
queue before another that has taken a smaller number; the history `reordered` has the
members where that happened. The binary search of `take_delta` may then end at any place
between an entry below the watermark and one above it (`Starts`). The bucket and the
pending queue are the subject of `Tsdb`.

`Tick` snapshots the records. Per peer the push is `Send` (takes the delta), `Serve` (a
task of the peer merges the records and takes the samples), that task's steps, `Answer`,
and `Acked` (the watermark moves, the answer merges). `PushFails` ends it at any point
from `Send` on, at its deadline at the latest, and the peer's task goes on with nobody
waiting. A request whose sender timed out stays in `late` and may be handled at any later
time (`PushTimesOut`, `LateServe`). `Restart` keeps the part of the history that was
flushed. `Reach` has the pairs of members between which packets arrive, `Slow` those
whose requests may be late.

### MarkJoin, Marking, Passive, BlockChannel

One direction of one tunnel. `table` and `mapped` are the kernel's sets and the
sender's colour map (external, as `nft.rs` uses them), `loop`, `last` and `queue`
the two agents' marker loops, `pauses` the gate's history, `net` the packets in
flight. Time runs in half blocks: a flip is due at a boundary, the read half a
block later. Within a half block everything interleaves, which is the clock error
between the ends; a packet arrives within the guard band of RFC 9341 or is lost.
`Reload`, `FlipFails`, `ReadFails` and a `Tick` that leaves a call hanging are the
faults. `Passive` adds the always replies (`AlwaysReply`, lost or late), the store
and `ClassifyPass`, the passive part of a classifier pass. A percentage is kept
as (lost, sent) and compared by cross multiplication.

`sent`, `arrived`, `flipped`, `readOn`, `rebuilt`, `tested` and `counted` are
history variables: what really happened, which the properties compare with what
was reported.

`BlockChannel` is what queue, reply and store promise together: an end numbers its
blocks upwards, each is delivered at most once, in any order, and one that is given
up never comes back. `AtMostOnce` is the refinement, with the queues and late
replies as its pending blocks and the store as its delivered ones.

### Classifier

`ring` is the part of the store that a window can see, by age instead of by time
stamp, so that time is not bounded. `ClassifyOnce` is a whole pass over the links
owned here: the window (`Tsdb::window`), the pair (`pair_links`, `merge_pair`), the
class of the worst dimension, the busy and the unknown hold, the hysteresis, the
record. `Report` brings a sample, now or late; `Move` is an agent that changes
member; `Restart` forgets the classes and the records. `streak` is a history
variable: the latest candidate, and at how many different newest samples it was
derived in a row. One dimension with upper and one with lower thresholds stand for
the measured ones.

### Trace

`links`, `route` and `up` are the mesh as agents registered it and as their BIRDs
forward; `walk[c]` is the request of a client. `Start` refuses, serves from the
cache or begins a walk; `Ask` takes the next node of the frontier; `Resolve` is the
agent's answer, `Expand` its arrival, which looks up the peers in what is
registered at that moment; `HopFails` and `HopTimesOut` end a hop; `Finish` caches.
`Reroute`, `Register` and `Disconnect` change the mesh under the walks.

### Probing

`picture` is what BIRD shows, `refresh[r]` the two tasks that refresh (the
refresher and a new session's hello), each `RefreshBegin`, `Status` or
`StatusFails`, `Reconcile`, `Store`, as the awaits and locks of `Agent::refresh`
separate them. A ping task is `Open`, `PingTick`, `Send`, `Outcome`, each of which
may fail. A throughput command is `Execute`, `InUse` or `TestBegin`, `LegEnds` or
`Overruns`, `TestEnd`; `Gate::end` writes its two fields apart, as here. The window
records of each outcome only whether a test loaded the uplink while the echo was
under way.

## 3. Runs

| Run | Instance | Checks |
|---|---|---|
| `fence` | two agents whose links share a node, two connections, two command ids | `TypeOK`, `FenceInv`, `NodeExclusive`, `NoOrphanLease` |
| `sessions` | two agents, two connections, one agent reports the other under its BIRD spelling; the other has a router id and reports its own end, which may go and come back; cost seeding and applies on the first one's link (constraint `CostsOfOneEnd`); the directory learns names | `SessionOwnsAgent`, `NoGhostAgent`, `SpellingSettled` |
| `drain` | the same agents with both probe tiers, one agent reporting the other under its BIRD spelling, under fairness | `SlotsDrain`, `OrphanedByRenameOnly` |
| `store` | one ingesting task, ring of one, two seconds in one bucket, retention, one failed transaction, one crash | `TypeOK`, `AboveFloor`, `CountedOnce`, `NothingLost` |
| `samples` | two members that both report, a record derived twice, delta limit one, one late request of one of them, expiry, one restart | `AcceptedOnce`, `NewestKept` |
| `converge` | a member that reports in two concurrent tasks, a peer it reaches and a peer to which every packet is dropped; two seconds, retention, one late request, under fairness | `NothingSkipped`, `Replicated` |
| `cost` | one tunnel, two costs, two command ids, one reconnect, one snapshot without the tunnel (symmetric in costs and ids) | `MemoryTrue` |
| `settle` | the same tunnel with one command id, one redeployment and one reconnect, under fairness | `DriftRepaired`, `CostSettles` |
| `marking` | one tunnel over five blocks, one length band, queue of one, one packet at any moment, one fault, test, lost or late reply | `TypeOK`, `ExactLoss`, `TotalsOnce`, `TestsExcluded`, `CleanIsClean`, `AtMostOnce` |
| `classify` | the two halves of a tunnel, symmetric pairing, hysteresis of two, unbounded time, one move or restart | `Prompt`, `Hysteresis`, `RecoversOnEvidence` |
| `trace` | three nodes, two meshes (equal-cost branches; a loop and a path to the cap), two clients, hop cap two, cache of one, two changes | `TypeOK`, `TrueMap`, `PathShown`, `BoundedWalk`, `BoundedAge`, `Answered` |
| `probing` | one tunnel, two throughput commands, two refreshing tasks, two changes of BIRD's picture or sessions dialled, one failed call | `TypeOK`, `CleanWindow`, `FlapKeeps`, `PingsResume`, `ProbesFollow` |

Why the bounds are enough. The races of the session handlers are between two
connections of one agent, or between the registrations of two agents; two
connections and two agents give both. The fence needs two tests that share a
node, each with a token. In `drain` one id is enough, since a slot that is kept or a
lease that is left behind needs one command; two connections let it be superseded. In the
store, a ring of one with two seconds overflows, evicts, refuses and merges; the
bucket of both seconds is shared; one failure and one crash each hit every step.
With a delta limit of one every backlog is cut. In `converge` two samples and two tasks
are the least that can be queued out of order, and the unreachable peer is in every round. In `cost` two ids let a late command
finish after its successor was issued; `settle` needs one, since `CostSettles` is
about behaviours in which commands do not overlap. The cost changes any number of
times there.

In `marking` a block counts with the baseline two blocks before it, so five blocks
(`LastBlock` 4) give joined blocks of both colours whose neighbours are read as
well, and one packet at any moment is enough for a miscount of any one block; one
upset hits every step. `classify` needs no bound on time: everything a window can
see has an age, and a hysteresis of two is the least that can be interrupted. In
`trace`, three nodes and a cap of two have nodes before, at and beyond the cap, a
cache of one is always full, and two clients put and read it at once. In `probing`
one tunnel suffices, since tunnels share only the gate; two commands contend for
the lock, a leg of two intervals leaves room for pings on both sides of the test.
The same properties hold with a UDP leg (`UdpLeg` TRUE and `LegLimit` 1: 840 000
states).

The bounds are constants named in the cfg files: `MinNow`, `MaxNow`, `Tasks`, `MaxIngests`, `MaxSeq`,
`MaxPuts`, `MaxLate`, `MaxRestarts`, `MaxFaults`, `MaxResets`, `MaxAbsences`,
`MaxReconnects`, `MaxUpsets`, `MaxPackets`, `LastBlock`. `sessions` has a state
constraint besides: what a derived cost of the other end changes is what one of the
first end does. No run stops at them: the
flush loop, the gossip ticks, the refresher, the classifier's passes and the
clients go on, so deadlock is checked everywhere.

What the properties say, in short:

- `NodeExclusive`: two outstanding throughput tests that name a common node are
  never both within the time to live of their leases. `FenceInv` is its inductive
  form. `NoOrphanLease`: a lease that is still live belongs to a test under way
  or about to be issued.
- `SessionOwnsAgent`: a live session that completed its registration is the one
  commands go to. `NoGhostAgent`: an entry of the registry always has a handler
  that will remove it. `SpellingSettled`: whichever side registers first, a link
  to a node that has registered links carries that node's own name.
- `SlotsDrain`: no slot blocks for ever. `OrphanedByRenameOnly`: where links are
  renamed, a live lease loses its test in one way only, by a reply whose link was
  renamed while the test ran.
- `AboveFloor`, `CountedOnce`, `NothingLost`: the store's promises in the comments
  of `tsdb.rs`, under the conditions each one needs.
- `NothingSkipped`: no watermark passes a sample that the peer lacks. `Replicated`:
  every sample reaches the peers that packets reach, or leaves by retention. Both except
  a member whose tasks queued out of order (`reordered`), for which the code does not
  have them (section 5), and `NothingSkipped` ends at a restart. A peer that does not
  hold a sample may have dropped its second, or be so full of newer ones that it refuses
  it. `AcceptedOnce`: echoes and resends end. `NewestKept`: no record gets older.
- `MemoryTrue`: between commands, the cost the controller remembers as sent is the
  one the agent repairs to. `DriftRepaired`: BIRD is never away from the desired
  cost for ever. `CostSettles`: a derived cost that no longer changes ends up in
  BIRD.
- `ExactLoss`: where the flips and reads around a block ran on time, its joined
  counts are the packets really sent in it and those of them that arrived.
  `TotalsOnce`: the totals are the sum of the blocks they took in, each once.
  `TestsExcluded`: none of these overlapped a throughput test at either end.
  `CleanIsClean`: a link labelled clean lost nothing in the recovery horizon.
- `Hysteresis`, `Prompt`: a class changes after enough different samples of the
  link agreed without interruption, not before and not later. `RecoversOnEvidence`:
  it improves only on a current ping of one of the halves.
- `TrueMap`: a walk that nothing disturbed lists exactly the nodes within the cap,
  each at its distance, with the right `complete` and `cap_hit`, against a
  reference definition of reachability. `PathShown`: a disturbed one still lists
  rows that hang together. `BoundedWalk`, `BoundedAge`, `Answered`: one deadline per
  node, one walk and one cache life time, and an answer although no agent answers.
- `CleanWindow`: no echo that a test disturbed is in a window. `FlapKeeps`: a flap
  loses neither the tunnel, nor its peer, nor its window. `PingsResume`: though
  iperf3 hangs. `ProbesFollow`: once BIRD's picture rests, the links reported,
  pinged and shown are the same.

Fairness. Handlers, command tasks and the scheduler are tokio tasks, which the
runtime runs: weak fairness of each. A command settles because every request has
a deadline (`session.rs`, `deadline`). Gossip ticks for ever, a member's tasks go on,
and a push ends at `PUSH_TIMEOUT`, with or without an answer (weak fairness of each). Of
the pushes to a peer in `Reach`, not all fail: if they are sent for ever, some are
answered for ever. That is an assumption on the network, the one under which replication
promises anything. Nothing is assumed of a push to any other peer but its deadline: a
round waits for all its pushes, so `Replicated` rests on that deadline. For costs the same is assumed of
commands and of BIRD: an apply that is issued for ever is received, taken and
answered in the end, and a snapshot taken for ever shows the cost in the end.
In `Trace` the walker's task and its deadline get weak fairness; agents need not
answer. In `Probing` the ping tasks, the refresher's timer, the refreshes and
iperf3's deadline do; iperf3 need not end. The clock of both (`Tick`) has strong
fairness: requests and tasks that do what is due disable it for a moment again and
again, and time passes all the same. Nothing is assumed about agents connecting,
closing, reporting or answering.

## 4. Proofs

Every theorem holds for every value of the constants that satisfies the named
assumptions of the modules, the bounds of the runs included. Where a theorem needs
more, it is a hypothesis of that theorem, given below. Each inductive invariant was
checked by TLC on the instance of its run before it was proved.

`DispatchProofs`. The assumptions are that registered names fold to distinct keys,
that a router id belongs to one node, and that the set of links is closed under the
renamings the registry performs.

- `TypeCorrect`: `Spec => []TypeOK`. `TypeOK` is inductive because it also says
  which fields each phase fills (a seeding handler knows its link, a claim has a
  token, an outstanding command its agent and link). One lemma per operator of
  `Workers` says that it keeps registry values; the renaming lemmas are where the
  closure assumption is used.
- `FenceCorrect`: `Spec => []FenceInv`, from `TypeCorrect`. `NodeExclusive` by
  itself is not inductive: it says nothing of a lease whose test is not
  dispatched yet. `FenceInv` adds that a test within its time to live holds the
  lease on its link (`LeaseBacked`), that the scheduler's claim is in the table
  under a token no task has (`ClaimBacked`), and that live leases are on disjoint
  nodes (`LeasesApart`). One lemma per kind of step: release frees the caller's
  own lease only, acquire drops expired leases and keeps the others, the dispatch
  turns a claim into a test, everything else leaves the three parts alone.
- `Exclusion`: `Spec => []NodeExclusive`, from the two.
- `OrphansByRename`: `Spec => OrphanedByRenameOnly`, without a hypothesis. It is shown
  link by link: a step that is not the reply of a renamed link keeps a guarded lease
  guarded (`StepGuarded`), from the types and `FenceInv`.
- `NoOrphans`: `Spec => []NoOrphanLease` under `NamesAgree`, that links already
  carry the registered spelling of their peer. Without it the statement is false
  (section 5): a reply then releases under another id. With it no link is ever renamed
  (`NeverRenamed`), and `StepGuarded` gives the rest.
- `SessionsOwn`, `NoGhosts`: `SessionInv` adds that generations in use were drawn
  from the counter, that two connections never share one, which phases have one,
  and that only known entries have links. A detach goes by generation, so that one
  has to know whose the generation can be.
- `Spelling`: `SpellingSettled`, by what registration and directory renaming do to
  the two spellings of a node. The proof corrected the property. It had been stated
  of every registered node; but an entry that `attach` recreates after a late detach
  (section 5) has no links and folds no names, and a link to it keeps the other
  spelling. It now says: of every node that has registered links.

`CostControlProofs`: `MemoryStaysTrue`, `Spec => []MemoryTrue`. `MemoryInv` follows
each command: while nothing was overtaken, at most one command is outstanding or at
work (`InOrder`), a command of the current registration carries the cost that the
issuer or the registry holds (`Fresh`), and between commands memory, desired cost and
announcement agree (`Memory`). `Registry` holds without that condition.

`TsdbProofs`, over `Samples`:

- `FloorHolds`: `Spec => []AboveFloor`, for any number of ingesting tasks, crashes and
  failed transactions. The lemmas are about the operators: insertion with eviction,
  retention, and the reload, where the rows that stay are counted from above. The
  invariant also says that what is stored, queued or under way is of a second that
  has begun.
- `OneWriterLosesNothing`: `Spec => []NothingLost`, with one ingesting task. `LossInv`
  adds the thread that carries a sample from the ring to the queue, and the batch of
  the flush. With two tasks it is false (section 5).
- `StoreTypeCorrect`: `Spec => []TypeOK`, for any number of ingesting tasks. It takes
  `StoreInv`, the invariant of `FloorHolds`, and `RestInv` for what that one leaves
  out: the buckets, the numbers, the delta queue and the history. The reload needs the
  rows in order, which `NthRow` gives: the n-th row exists because a finite set of
  seconds has a row with n - 1 below it, up to its size.
- `OneWriterCountsOnce`: `Spec => []CountedOnce`, with one ingesting task. A bucket
  counts a dimension at most as often as there are seconds that are done: written to
  the ring with it, and not owed by the task that is between its ring lock and its
  bucket lock (`DimsOK`, `ProbesOK`). What the ring holds of a second is what was
  accepted of it, and of a second above the floor that it does not hold nothing was
  accepted (`RememberedOK`), so nothing counts as new again. With two tasks it is false
  (section 5).

`GossipProofs`, over `Samples`, for any number of members:

- `SkipsNone`: `Spec => []NothingSkipped`, which speaks of members that queue in order
  while nobody has restarted. The code ensures neither. `SkipInv` says of such a member
  that its queue ascends, and that every number it has yet to give or to queue is above
  its queue, its watermarks and the ends of its deltas (`InOrder`); of each of its peers,
  that it has what is queued up to the watermark, and that it has what is queued from
  there to the end of a delta under way, or the delta has it, or the peer's task has yet
  to ingest it (`EntryOK`); and of that task, that it is the only one and that the push
  waits for it (`Handled`). Stepping is shown for one pair of members at a time: a member
  that ingests, merges or prunes only grows, so what it covered it covers. A ring full of
  newer seconds refuses an older one without raising its floor (`tsdb.rs:474-476`); the
  watermark passes such a sample, which is why `Covers` has that case.
- `RecordsOnlyGetNewer`: `Spec => NewestKept`. Each step leaves a record, drops it or
  merges it with another; the steps of an ingest leave it alone.
- `EchoesEnd`: `Spec => []AcceptedOnce`, under the hypothesis that reports of a second
  agree (section 5 tells what happens otherwise), for queues in any order. A queued
  version's measurements stay in the ring or its second below the floor, and so do those
  of a version that a task has put in the ring and not queued yet; so an accepted version
  measures something that none of these did (`OnceInv`).

`ClassifierProofs`: `ClassifierPrompt`, `ClassifierHysteresis`, `ClassifierEvidence`.
The invariant `Tracked` relates the code's pending entry to the history variable: the
entry is the streak, unless the streak is of the class the link has. The pass over all
links is one step; a lemma says what it does to each link.

`PassiveProofs`, for every number of blocks, packets and upsets, every queue and
every set of length bands:

- `PassiveAtMostOnce`: `Spec => AtMostOnce`, the refinement of `BlockChannel`. Each
  step maps to one of its steps or to a stutter. `ChannelInv` says that block numbers
  in queue, reply and store are below the number the loop is at, that no block is in
  two of these places, and what a loop's time says about its last block.
- `PassiveTypeCorrect`: `Spec => []TypeOK`. That the totals are numbers needs sums over
  sets, for which the module shows that the fold of `SumFunctionOnSet` exists and has
  the usual laws (`SumNat`, `SumRemove`, `SumUnion`, `SumCongruent`, `SumZero`). Each is
  proved by a smallest exception among the subsets of a finite set.
- `TotalsTakeOnce`: `Spec => []TotalsOnce`. An end reports one block per number
  (`Distinct`), so two joined blocks have different numbers, and what was counted is
  never above `last_n` (`Behind`): a pass adds a set that is disjoint from what the
  totals hold.
- `TestsNeverCounted`: `Spec /\ [][KeepsUnread]_vars => []TestsExcluded`. By
  `GateInv`, one end has a block that a test overlapped flagged wherever it is, and has
  either read it or still remembers the pause. The gate keeps `PAUSE_HISTORY` pauses (16),
  so this needs that no test pushes out a pause that reaches into a block still unread
  (`KeepsUnread`). The hypothesis is needed: with a history of one and two tests in one
  block, TLC reaches a block that a test overlapped and no flag says so.
  `FewTestsNeverCounted` is the same without it, when there are no more upsets than the
  history holds, as in the run.
- `LossIsExact`: `Spec => []ExactLoss`. Blocks are exact because the counters are: since
  the read two blocks ago, a colour's counter gained at the sender what was marked in the
  block (`SenderCount`), and at the receiver what arrived of it (`ReceiverCount`). The
  second needs that no packet of an older block of the colour and no unmarked one is on
  the way. `FlightInv` gives the first, from the guard band; `NoStray` the second, for as
  long as the sender's readings say that it marked without a break (`Steady`, `Quiet`).
  `MapInv`, `BaseInv`, `ReadInv` and `ReloadInv` place the map, the baselines, the reads
  and the reloads in time.
- `CleanReallyIsClean`: `Spec => []CleanIsClean`. What arrived of a block and what is on
  the way never exceed what was marked in it (`Conserved`). A sum of losses that is zero
  has no positive part, and the fast window is taken only if it shows loss, so a clean
  label speaks of the whole recovery horizon. With `LossIsExact`, each of its blocks that
  ran on time has sent what arrived.

`TraceProofs`, for every finite set of nodes, every mesh, hop cap, deadline and cache:

- `TraceTypeCorrect`: `Spec => []TypeOK`.
- `WalkTime`: `Spec => []BoundedWalk`. A walk has waited at most one hop deadline for each
  node it is done with, and as long as the one it asks has been asked (`Counted`); it asks
  no node twice, and there are finitely many.
- `ServedAge`: `Spec => []BoundedAge`, with the age at which a result was cached
  (`CacheAged`).
- `RowsHang`: `Spec => []PathShown`. `Hangs` says it of the rows and of the nodes still to
  be asked: each is the source or the far end of a row one hop nearer. What `Expand` adds
  for any number of next hops is shown by induction over the steps of its fold
  (`Stepwise`, `StepsExist`).
- `TrueWhenStill`: `Spec => []TrueMap`. `Layers` is the invariant of breadth-first search:
  while nothing disturbed the walk, each node met has a row or is still to be asked, at
  its distance and in order; what a node with a row forwards to has been met, and so has
  the whole layer of the node that is asked next.

`ProbingProofs`:

- `ProbingTypes`: `Spec => []TypeOK`.
- `WindowsClean`: `Spec => []CleanWindow`. One command at most holds the lock, the gate
  is shut while its streams run (`GateInv`), and an echo that a test loaded is settled
  before the grace after the test ends (`EchoInv`).
- `FlapsKeep`: `Spec => FlapKeeps`, from an invariant on what the one refresh under way
  knows and has found.

The library's induction theorems cannot be used here, since they take an operator.
Where an induction is needed (a finite set has a least and a greatest element) the
proofs take a least counterexample from the well-foundedness of `<` on the naturals.

Model-checked only:

- liveness (`SlotsDrain`, `Replicated`, `DriftRepaired`, `CostSettles`,
  `Answered`, `PingsResume`, `ProbesFollow`), which is out of TLAPS's reach.

Every invariant and action property of the runs has a theorem. Four of these theorems
have a hypothesis that the code alone does not give, and in which the run agrees with
them: `NoOrphans` (`NamesAgree`), `OneWriterLosesNothing` and `OneWriterCountsOnce` (one
ingesting task), `EchoesEnd` (reports that agree). `TestsNeverCounted` has the one above.
Other properties carry in their own statement a condition that the code does not ensure,
and their theorems say no more than that: `SkipsNone` is about members whose delta queue
is in order, in a cluster without a restart; `MemoryStaysTrue` about commands that were
not overtaken; `LossIsExact` about blocks that ran on time; `FlapsKeep` about refreshes
that do not overlap; the two theorems about one writer end at a restart
(`CountedOnce`) and at a failed transaction (`NothingLost`).

## 5. Weak spots

Behaviours the models have, each of which bounds a property above. First the ones
in which the code and its documents disagree:

- A hello fills the registry entry and attaches in two lock sections
  (`session.rs:156`, `174`). The old session's detach between them removes the
  entry; attach recreates it without links. The session lives and nothing of it is
  probed until its link set changes, where `docs/protocol.md:59-61` says that a
  session is a registration.
- Sequence numbers are taken outside the delta queue's lock (`tsdb.rs:507`). Two
  ingesting tasks can queue them in the opposite order; a peer's watermark then passes
  the smaller one, and `take_delta`'s binary search skips that sample until retention
  drops it, where `gossip.rs` counts on every sample being re-sent until it arrives.
  `Gossip` has these steps: without the exception for `reordered`, TLC finds both
  `NothingSkipped` and `Replicated` violated on the instance of `converge`.
- Members expire records locally and merge without looking at their age
  (`kv.rs:55`), so two of them revive each other's expired record for ever, where
  `docs/protocol.md:321-322` says records older than `grace_ttl_secs` expire.
- `classifier.rs:13-14` says the classifier stops touching a link that stays busy
  beyond `busy_hold_secs`; the code classifies it from its window.
- `classifier.rs:78-81` says that the totals advance by every block joined for the
  first time. A block whose second half comes after a newer block was joined is
  never counted: the totals are a lower bound.

Sessions and costs:

- A superseded session's command task frees its slot by (link, kind), so it can free
  its successor's, and a second command of that kind goes out.
- `set_applied_sent` follows the dispatch: a failure handled in between is
  overwritten, and the cost is not sent again under that registration.
- The answer to an apply of an earlier registration marks the cost as sent although
  the agent may have forgotten its desired cost since.
- A test's reply releases the lease under the peer's registered spelling. If the
  peer registered while the test ran, that is another id and the lease stays until
  it expires: `NoOrphanLease` is checked without renames, and `OrphanedByRenameOnly` says
  with them that nothing else does this.

Store and gossip:

- Records are stamped with their newest sample and an equal stamp wins a merge: a
  peer's copy of an earlier decision can replace the later one at its writer until
  the next pass.
- With two ingesting tasks a same-second merge can be counted before the sample it
  merges into, and counted twice: `CountedOnce` is checked with one.
- With two ingesting tasks the pending queue can have two versions of one second in
  the opposite order of the ring, and redb keeps the older one: `NothingLost` is
  about one.
- A crash between the flush of a bucket and of its sample lets a peer's resend be
  counted again (the floor is not stored): `CountedOnce` ends at a restart.
- A bucket that straddles the raw retention at a restart is rebuilt from the
  samples left, and overwrites the stored one.
- A transaction that fails to begin queues old samples behind newer versions of
  the same second; one that fails later drops them: `NothingLost` ends there.
- A member that restarts has lost samples its peers' watermarks have passed:
  `NothingSkipped` ends at a restart.
- Two reports of one second that disagree are exchanged by two members until
  retention drops them: `AcceptedOnce` is checked, and `EchoesEnd` proved, for
  reports that agree.

Measuring and classifying:

- A flip that fails or comes late moves packets to another block and is not
  flagged; a firewall reload of the sender between the two reads of a block can
  hide loss, since unmarked packets look like colour b. `ExactLoss` is about blocks
  that ran on time.
- The gate remembers 16 pauses (`icmp.rs:51` of the agent). More tests than that before a
  block is read push out the first, and the block may be unflagged: `TestsExcluded` is
  proved as long as that does not happen.
- A lost always reply loses the blocks it carried.
- A pass counts the stamps of the link's own half. While the other half is silent,
  its one sample can be the candidate for as long as it is fresh.
- A busy hold keeps the candidate and its count, so a streak may span one.
- `RecoversOnEvidence` speaks of ping data. Where a ping is current, another dimension
  that went silent no longer counts against the link, and its class may improve for that.
- The classifier pairs the links the store knows (`Tsdb::links`, `tsdb.rs:625`), and the
  store knows one until raw retention. `Known` forgets it as soon as no window can see
  it, so in `Classifier` a link whose parallel interface went silent is paired again
  earlier than in the code.
- Two walks of one request that run at once both cache their results, and the
  one that was put first is served.
- An echo whose send fails between the pause check and the send is recorded as loss
  even if a test has begun.
- Two refreshes that overlap can drop a tunnel with its window, and leave pinged and
  reported links different until the next refresh; `FlapKeeps` excepts them.
- `reconcile` compares whole links, the cost included: every applied cost restarts
  the ping task (its window stays).
- One failed `bird status` wipes all windows, remembered peers and desired costs.

## 6. Plan

1. The agent's dialling: back-off and the choice among controllers.
2. Two members that expire a record locally, as a property of `Gossip` beside `NewestKept`.

## 7. Not modelled

The TLS, certificate, configuration and command-line code, telemetry, the web
frontend and packaging keep no state that these properties are about. QUIC is
quinn's, redb's transactions are taken as atomic, the nft program and BIRD are
external. Of the modelled parts these are left out:

- byte counts and rates, the TCP rate a loss implies (`mark.rs`, floating point), and
  the metrics derived from them; ends that run different block lengths;
- the statistics of a ping window, echo identifiers, packet and utilisation
  counters;
- the address arithmetic and glob matching of discovery, which are the constants
  `Neighbour` and `TokenPeer`;
- the metric values of a trace's rows;
- aggregated queries and views, which only read;
- the agent's back-off and its choice of a controller.

`PROJECT.json` lists every part.
