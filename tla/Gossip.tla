-------------------------------- MODULE Gossip --------------------------------
(***************************************************************************)
(* Anti-entropy between cluster members (crates/controller/src/gossip.rs), *)
(* with the last-write-wins store (kv.rs) and the delta queue and the      *)
(* watermarks of the time-series store (tsdb.rs) it replicates, for one    *)
(* link.                                                                   *)
(*                                                                         *)
(* A round of gossip_loop() snapshots the records and pushes to every      *)
(* peer; a push takes its samples, sends them, and on the peer's answer    *)
(* advances the watermark and merges the peer's view.  A push may fail at  *)
(* any point, and a request whose sender gave up may still reach the peer. *)
(*                                                                         *)
(* Reports and requests are handled by concurrent tasks of a member.  A    *)
(* task ingests its samples one by one, and each in three steps: the ring  *)
(* under its lock, then the sequence number, then the delta queue under a  *)
(* lock of its own.                                                        *)
(***************************************************************************)
EXTENDS Samples, Sequences

CONSTANTS
    Members, Owner,  \* the members; the one that derives the link's record
    Peers,           \* the peers in each member's configuration
    Reach, Slow,     \* the pairs of members between which packets arrive, and
                     \* those whose requests may outlive their push
    Tasks,           \* bound on the tasks of a member that ingest at a time
    Reporters,       \* the members the link's agent may be registered with
    Costs,           \* what a record says
    Reports,         \* the reports that are ingested
    DeltaLimit,      \* DELTA_LIMIT
    RawKeep,         \* raw_retention_secs
    Grace,           \* grace_ttl_secs
    MinNow, MaxNow,  \* bounds on the clock
    MaxPuts,         \* bound on the records the owner derives
    MaxSeq,          \* bound on a member's sequence numbers
    MaxLate,         \* bound on the requests still under way to a peer
    MaxRestarts,     \* bound on restarts
    NoRec, NoMember

ASSUME GossipAssumption ==
    /\ Owner \in Members /\ Reporters \subseteq Members
    /\ Reports \subseteq Reportable
    /\ Peers \in [Members -> SUBSET Members] /\ \A m \in Members : m \notin Peers[m]
    /\ Reach \subseteq Members \X Members /\ Slow \subseteq Reach
    /\ NoMember \notin Members
    /\ DeltaLimit \in Nat \ {0}
    /\ {RawKeep, Grace, MaxNow, MaxPuts, MaxSeq, MaxLate, MaxRestarts} \subseteq Nat
    /\ MinNow \in 0..MaxNow

VARIABLES
    mem,       \* each member's stores
    work,      \* work[m][w]: what task w of member m ingests
    push,      \* push[m][p]: m's push to p in the current round
    late,      \* requests whose sender gave up, still under way
    now,
    puts, restarts,
    reordered  \* history: the members at which a task queued its sample
               \* before another one that had taken a smaller number

vars == <<mem, work, push, late, now, puts, restarts, reordered>>

Record == [ts : 0..MaxNow, cost : Costs]

Entry == [ts : Stamps, s : Sample]

Member == [kv    : Record \cup {NoRec},
           ring  : Ring,
           floor : Nat,
           log   : Seq([seq : Nat, ts : Stamps, s : Sample]),   \* recent
           seq   : Nat,
           sent  : [Members -> Nat]]

NewMember == [kv |-> NoRec, ring |-> EmptyRing, floor |-> 0, log |-> <<>>, seq |-> 1,
              sent |-> [p \in Members |-> 0]]

\* A task between two steps: `next` before it looks at the head of todo, or
\* answers when there is nothing left; `accepted` when the ring has it, and
\* `numbered` when it has taken its number.
Task == [pc   : {"idle", "next", "accepted", "numbered"},
         todo : Seq(Entry),
         seq  : Nat,
         from : Members \cup {NoMember}]    \* the peer that waits for it

IdleTask == [pc |-> "idle", todo |-> <<>>, seq |-> 0, from |-> NoMember]

Push == [pc    : {"idle", "begun", "sent", "served", "answered"},
         rec   : Record \cup {NoRec},     \* our view, then the peer's
         delta : Seq(Entry),
         last  : Nat]

IdlePush == [pc |-> "idle", rec |-> NoRec, delta |-> <<>>, last |-> 0]

Request == [to : Members, rec : Record \cup {NoRec}, delta : Seq(Entry)]

TypeOK ==
    /\ mem \in [Members -> Member]
    /\ work \in [Members -> [Tasks -> Task]]
    /\ reordered \subseteq Members
    /\ push \in [Members -> [Members -> Push]]
    /\ late \subseteq Request
    /\ now \in 0..MaxNow /\ puts \in 0..MaxPuts /\ restarts \in 0..MaxRestarts

Init ==
    /\ mem = [m \in Members |-> NewMember]
    /\ work = [m \in Members |-> [w \in Tasks |-> IdleTask]]
    /\ push = [m \in Members |-> [p \in Members |-> IdlePush]]
    /\ late = {} /\ reordered = {}
    /\ now = MinNow /\ puts = 0 /\ restarts = 0

-----------------------------------------------------------------------------
(* The stores.                                                             *)

\* Mutant: a record is taken whatever its age.
LwwMergeAny(old, new) == IF new = NoRec THEN old ELSE new

\* Merge a record of the peer's view: an equal or newer time stamp wins.
LwwMerge(old, new) ==
    IF new # NoRec /\ (old = NoRec \/ new.ts >= old.ts) THEN new ELSE old

\* A task that begins to ingest samples for whom `from` says.
Load(samples, from) ==
    IF samples = <<>> /\ from = NoMember THEN IdleTask
    ELSE [pc |-> "next", todo |-> samples, seq |-> 0, from |-> from]

\* A task that is through with its first sample.
Done(task) == Load(Tail(task.todo), task.from)

\* A task nobody waits for any more.
Orphan(task) ==
    IF task.pc = "next" /\ task.todo = <<>> THEN IdleTask ELSE [task EXCEPT !.from = NoMember]

\* Where a binary search for the first entry above a watermark may end: in an
\* ascending queue there is one such place.
Starts(log, after) ==
    {i \in 0..Len(log) : /\ i = 0 \/ log[i].seq <= after
                         /\ i = Len(log) \/ log[i + 1].seq > after}

\* The entries of the queue from such a place on, DELTA_LIMIT at most.
TakeDelta(log, start) == SubSeq(log, start + 1, Min({Len(log), start + DeltaLimit}))

-----------------------------------------------------------------------------
(* Ingesting, one lock section at a time.                                  *)

\* The numbers a member has given, and those its tasks are about to take.
Numbers(m) == mem[m].seq - 1 + Cardinality({w \in Tasks : work[m][w].pc = "accepted"})

\* A report of an agent, or the classifier's joined result of a block, up to
\* the end of the ring's section; one that is refused changes nothing.
Report(m, w, ts, s) ==
    LET x   == mem[m]
        new == Insert(x.ring, x.floor, ts, s)
    IN
    /\ m \in Reporters /\ ts <= now /\ Numbers(m) < MaxSeq
    /\ work[m][w].pc = "idle" /\ Accepts(x.ring, x.floor, ts, s)
    /\ mem' = [mem EXCEPT ![m] = [x EXCEPT !.ring = new.ring, !.floor = new.floor]]
    /\ work' = [work EXCEPT ![m][w] =
          [pc |-> "accepted", todo |-> <<[ts |-> ts, s |-> Merged(x.ring, ts, s)]>>,
           seq |-> 0, from |-> NoMember]]
    /\ UNCHANGED <<push, late, now, puts, restarts, reordered>>

\* The next sample of a request changes the ring: what the ring now holds is
\* what will be queued.
Accept(m, w) ==
    LET x    == mem[m]
        task == work[m][w]
        e    == Head(task.todo)
        new  == Insert(x.ring, x.floor, e.ts, e.s)
        held == [ts |-> e.ts, s |-> Merged(x.ring, e.ts, e.s)]
    IN
    /\ task.pc = "next" /\ task.todo # <<>> /\ Accepts(x.ring, x.floor, e.ts, e.s)
    /\ mem' = [mem EXCEPT ![m] = [x EXCEPT !.ring = new.ring, !.floor = new.floor]]
    /\ work' = [work EXCEPT ![m][w] =
          [task EXCEPT !.pc = "accepted", !.todo[1] = held]]
    /\ UNCHANGED <<push, late, now, puts, restarts, reordered>>

\* The next sample of a request is refused.
Refuse(m, w) ==
    LET task == work[m][w]
        e    == Head(task.todo)
    IN
    /\ task.pc = "next" /\ task.todo # <<>>
    /\ ~Accepts(mem[m].ring, mem[m].floor, e.ts, e.s)
    /\ work' = [work EXCEPT ![m][w] = Done(task)]
    /\ UNCHANGED <<mem, push, late, now, puts, restarts, reordered>>

\* The sample takes the next sequence number.
Number(m, w) ==
    /\ work[m][w].pc = "accepted"
    /\ work' = [work EXCEPT ![m][w] =
          [work[m][w] EXCEPT !.pc = "numbered", !.seq = mem[m].seq]]
    /\ mem' = [mem EXCEPT ![m].seq = mem[m].seq + 1]
    /\ UNCHANGED <<push, late, now, puts, restarts, reordered>>

\* The sample is queued behind whatever has been queued meanwhile.
Queue(m, w) ==
    LET task == work[m][w]
        e    == Head(task.todo)
    IN
    /\ task.pc = "numbered"
    /\ mem' = [mem EXCEPT ![m].log = Append(@, [seq |-> task.seq, ts |-> e.ts, s |-> e.s])]
    /\ work' = [work EXCEPT ![m][w] = Done(task)]
    /\ reordered' = IF \E v \in Tasks : /\ work[m][v].pc = "numbered"
                                       /\ work[m][v].seq < task.seq
                    THEN reordered \cup {m} ELSE reordered
    /\ UNCHANGED <<push, late, now, puts, restarts>>

-----------------------------------------------------------------------------
(* A member's own writes.                                                  *)

\* A classifier pass stamps the record with the newest sample's second,
\* which `now` stands for: later passes over the same sample may decide
\* otherwise, for the window ages.
Derive(cost) ==
    /\ puts < MaxPuts
    /\ puts' = puts + 1
    /\ mem' = [mem EXCEPT ![Owner].kv = LwwMerge(@, [ts |-> now, cost |-> cost])]
    /\ UNCHANGED <<work, push, late, now, restarts, reordered>>

Cut(t, keep) == IF t > keep THEN t - keep ELSE 0

\* The KV's expiry task.
Expired(rec) == rec # NoRec /\ Cut(now, Grace) > rec.ts

Expire(m) ==
    /\ Expired(mem[m].kv)
    /\ mem' = [mem EXCEPT ![m].kv = NoRec]
    /\ UNCHANGED <<work, push, late, now, puts, restarts, reordered>>

\* The retention of the time-series store: the ring, and the delta queue up
\* to its first young entry.
Retain(m) ==
    LET x     == mem[m]
        cut   == Cut(now, RawKeep)
        kept  == PruneRing(x.ring, x.floor, cut)
        young == {i \in DOMAIN x.log : x.log[i].ts >= cut}
        first == IF young = {} THEN Len(x.log) + 1 ELSE Min(young)
    IN
    /\ first > 1 \/ \E t \in Stored(x.ring) : t < cut
    /\ mem' = [mem EXCEPT ![m] = [x EXCEPT !.ring = kept.ring, !.floor = kept.floor,
                                           !.log = SubSeq(x.log, first, Len(x.log))]]
    /\ UNCHANGED <<work, push, late, now, puts, restarts, reordered>>

-----------------------------------------------------------------------------
(* Rounds.                                                                 *)

\* A tick: every push of the last round is over; the records are read once.
Tick(m) ==
    /\ \A p \in Peers[m] : push[m][p].pc = "idle"
    /\ push' = [push EXCEPT ![m] = [p \in Members |->
          IF p \in Peers[m] THEN [IdlePush EXCEPT !.pc = "begun", !.rec = mem[m].kv]
          ELSE IdlePush]]
    /\ UNCHANGED <<mem, work, late, now, puts, restarts, reordered>>

\* A push that has taken the samples of a delta above a watermark.
Sending(rec, taken, watermark) ==
    [pc |-> "sent", rec |-> rec,
     delta |-> [i \in DOMAIN taken |-> [ts |-> taken[i].ts, s |-> taken[i].s]],
     last |-> IF taken = <<>> THEN watermark ELSE taken[Len(taken)].seq]

\* Mutant: the watermark advances when the samples are sent.
SendNoting(m, p) ==
    /\ push[m][p].pc = "begun"
    /\ \E start \in Starts(mem[m].log, mem[m].sent[p]) :
          LET sent == Sending(push[m][p].rec, TakeDelta(mem[m].log, start), mem[m].sent[p])
          IN /\ push' = [push EXCEPT ![m][p] = sent]
             /\ mem' = [mem EXCEPT ![m].sent[p] = sent.last]
    /\ UNCHANGED <<work, late, now, puts, restarts, reordered>>

\* The push takes the samples above the peer's watermark and sends.
Send(m, p) ==
    /\ push[m][p].pc = "begun"
    /\ \E start \in Starts(mem[m].log, mem[m].sent[p]) :
          push' = [push EXCEPT ![m][p] =
             Sending(push[m][p].rec, TakeDelta(mem[m].log, start), mem[m].sent[p])]
    /\ UNCHANGED <<mem, work, late, now, puts, restarts, reordered>>

\* A task of the peer takes the request: the records are merged, the samples
\* are to be ingested.
Serve(m, p, w) ==
    /\ push[m][p].pc = "sent" /\ <<m, p>> \in Reach /\ work[p][w].pc = "idle"
    /\ mem' = [mem EXCEPT ![p].kv = LwwMerge(@, push[m][p].rec)]
    /\ work' = [work EXCEPT ![p][w] = Load(push[m][p].delta, m)]
    /\ push' = [push EXCEPT ![m][p] =
          [push[m][p] EXCEPT !.pc = "served", !.rec = NoRec, !.delta = <<>>]]
    /\ UNCHANGED <<late, now, puts, restarts, reordered>>

\* The task has ingested the request's samples and answers with the peer's
\* records.
Answer(p, w) ==
    LET m == work[p][w].from IN
    /\ work[p][w].pc = "next" /\ work[p][w].todo = <<>>
    /\ work' = [work EXCEPT ![p][w] = IdleTask]
    /\ push' = [push EXCEPT ![m][p] =
          [push[m][p] EXCEPT !.pc = "answered", !.rec = mem[p].kv]]
    /\ UNCHANGED <<mem, late, now, puts, restarts, reordered>>

\* The watermark of peer p moves to the last sequence number it was sent.
NoteSent(member, p, watermark) == [member EXCEPT !.sent[p] = watermark]

\* The answer arrives.
Acked(m, p) ==
    /\ push[m][p].pc = "answered"
    /\ mem' = [mem EXCEPT ![m] = [NoteSent(mem[m], p, push[m][p].last) EXCEPT
                                        !.kv = LwwMerge(@, push[m][p].rec)]]
    /\ push' = [push EXCEPT ![m][p] = IdlePush]
    /\ UNCHANGED <<work, late, now, puts, restarts, reordered>>

\* Nobody waits any more for what p does with the request of m.
Abandoned(m, p) ==
    [work EXCEPT ![p] = [w \in Tasks |->
        IF work[p][w].from = m THEN Orphan(work[p][w]) ELSE work[p][w]]]

\* Mutant: a push ends by an answer only.
PushFailsAnswered(m, p) ==
    /\ push[m][p].pc = "answered"
    /\ push' = [push EXCEPT ![m][p] = IdlePush]
    /\ UNCHANGED <<mem, work, late, now, puts, restarts, reordered>>

\* The push fails, at PUSH_TIMEOUT at the latest: no session, or the request
\* or its answer is lost, or the answer is not there in time.
PushFails(m, p) ==
    /\ push[m][p].pc \in {"sent", "served", "answered"}
    /\ push' = [push EXCEPT ![m][p] = IdlePush]
    /\ work' = Abandoned(m, p)
    /\ UNCHANGED <<mem, late, now, puts, restarts, reordered>>

\* The push times out while its request is still under way.
PushTimesOut(m, p) ==
    /\ push[m][p].pc = "sent" /\ <<m, p>> \in Slow /\ Cardinality(late) < MaxLate
    /\ late' = late \cup {[to |-> p, rec |-> push[m][p].rec, delta |-> push[m][p].delta]}
    /\ push' = [push EXCEPT ![m][p] = IdlePush]
    /\ UNCHANGED <<mem, work, now, puts, restarts, reordered>>

\* A late request is handled; nobody waits for the answer.
LateServe(r, w) ==
    /\ work[r.to][w].pc = "idle"
    /\ mem' = [mem EXCEPT ![r.to].kv = LwwMerge(@, r.rec)]
    /\ work' = [work EXCEPT ![r.to][w] = Load(r.delta, NoMember)]
    /\ late' = late \ {r}
    /\ UNCHANGED <<push, now, puts, restarts, reordered>>

-----------------------------------------------------------------------------
\* A member restarts: records, watermarks, floor, tasks and sessions are gone,
\* the samples that had been flushed are reloaded and queued for every peer.
Restart(m, flushed) ==
    LET order == [i \in 1..Cardinality(flushed) |->
                     CHOOSE t \in flushed : Cardinality({u \in flushed : u <= t}) = i]
    IN
    /\ restarts < MaxRestarts /\ flushed \subseteq Stored(mem[m].ring)
    /\ restarts' = restarts + 1
    /\ mem' = [mem EXCEPT ![m] =
          [NewMember EXCEPT
             !.ring = [t \in Stamps |-> IF t \in flushed THEN mem[m].ring[t] ELSE NoSample],
             !.log  = [i \in DOMAIN order |->
                          [seq |-> i, ts |-> order[i], s |-> mem[m].ring[order[i]]]],
             !.seq  = Len(order) + 1]]
    /\ work' = [n \in Members |-> [w \in Tasks |->
                   IF n = m THEN IdleTask
                   ELSE IF work[n][w].from = m THEN Orphan(work[n][w]) ELSE work[n][w]]]
    /\ push' = [n \in Members |-> [p \in Members |->
                   IF n = m \/ p = m THEN IdlePush ELSE push[n][p]]]
    /\ late' = {r \in late : r.to # m}
    /\ reordered' = reordered \ {m}
    /\ UNCHANGED <<now, puts>>

Elapse ==
    /\ now < MaxNow /\ now' = now + 1
    /\ UNCHANGED <<mem, work, push, late, puts, restarts, reordered>>

-----------------------------------------------------------------------------
TaskStep(m, w) ==
    \/ Accept(m, w)
    \/ Refuse(m, w)
    \/ Number(m, w)
    \/ Queue(m, w)
    \/ Answer(m, w)

Served(m, p) == \E w \in Tasks : Serve(m, p, w)

PushEnds(m, p) == PushFails(m, p) \/ PushTimesOut(m, p)

PushStep(m, p) ==
    \/ Send(m, p)
    \/ Served(m, p)
    \/ Acked(m, p)
    \/ PushEnds(m, p)

MemberStep(m) ==
    \/ \E w \in Tasks : TaskStep(m, w)
    \/ \E w \in Tasks, ts \in Stamps, s \in Reports : Report(m, w, ts, s)
    \/ Expire(m)
    \/ Retain(m)
    \/ Tick(m)
    \/ \E p \in Peers[m] : PushStep(m, p)
    \/ \E flushed \in SUBSET Stamps : Restart(m, flushed)

Next ==
    \/ \E m \in Members : MemberStep(m)
    \/ \E c \in Costs : Derive(c)
    \/ \E r \in late, w \in Tasks : LateServe(r, w)
    \/ Elapse

Spec == Init /\ [][Next]_vars

\* The loops tick for ever, time passes, a task goes on and a push ends by
\* PUSH_TIMEOUT.  Of the pushes to a peer that packets reach, not all fail:
\* when they are sent for ever, some are served and answered for ever.
Fairness ==
    /\ WF_vars(Elapse)
    /\ \A m \in Members :
          /\ WF_vars(Tick(m)) /\ WF_vars(Expire(m)) /\ WF_vars(Retain(m))
          /\ \A w \in Tasks : WF_vars(TaskStep(m, w))
          /\ \A p \in Peers[m] :
                /\ WF_vars(Send(m, p)) /\ WF_vars(PushEnds(m, p))
                /\ <<m, p>> \in Reach =>
                      ([]<><<Send(m, p)>>_vars => []<><<Acked(m, p)>>_vars)

FairSpec == Spec /\ Fairness

-----------------------------------------------------------------------------
(* Properties.                                                             *)

\* A member has dimension d of second t, or has dropped that second, or is
\* full of newer ones.
Covers(x, t, d) ==
    \/ t <= x.floor
    \/ x.ring[t] # NoSample /\ x.ring[t][d] # NoVal
    \/ Cardinality(Stored(x.ring)) >= RingCap /\ \A u \in Stored(x.ring) : u > t

\* "A dropped round is simply re-sent" (gossip.rs): what lies at or below a
\* peer's watermark, the peer has, however pushes fail, time out or arrive
\* late.  Two cases are excepted.  A member that restarts loses what it had not
\* flushed, and the watermarks of its peers do not go back.  And a member takes
\* a number (tsdb.rs:507) and queues it (tsdb.rs:508) in two steps: where a
\* task has queued before another with a smaller number, the queue is out of
\* order and the watermark may pass an entry that was never sent.
NothingSkipped ==
    restarts = 0 =>
    \A m \in Members \ reordered : \A p \in Peers[m] : \A i \in DOMAIN mem[m].log :
        LET e == mem[m].log[i] IN
        e.seq <= mem[m].sent[p] => \A d \in Measured(e.s) : Covers(mem[p], e.ts, d)

\* "Samples are idempotent on the receiver, so resends are harmless"
\* (gossip.rs): a member accepts no version of a second twice, so that an
\* echo of its own samples ends with it.
AcceptedOnce ==
    \A m \in Members : \A i, j \in DOMAIN mem[m].log :
        LET e == mem[m].log[i]  f == mem[m].log[j] IN
        i # j => e.ts # f.ts \/ e.s # f.s

\* LWW keeps the newest record: unless it expires or the member restarts, a
\* member never goes back to an older one, whatever order requests and
\* answers are handled in.
NewestKept ==
    [][\A m \in Members :
          mem[m].kv # NoRec /\ mem'[m].kv # NoRec => mem'[m].kv.ts >= mem[m].kv.ts]_vars

\* Every sample a member holds reaches every peer that packets reach, or leaves
\* by retention, though another peer may never answer: for each second there is
\* always a later moment at which the peer has all that the member measured in
\* it.  As in NothingSkipped, a member whose queue is out of order is excepted.
Replicated ==
    \A m \in Members : \A p \in Peers[m] : <<m, p>> \in Reach =>
        \A t \in Stamps :
            []<>(\/ m \in reordered
                 \/ mem[m].ring[t] = NoSample
                 \/ \A d \in Measured(mem[m].ring[t]) : Covers(mem[p], t, d))
=============================================================================
