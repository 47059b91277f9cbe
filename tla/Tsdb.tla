--------------------------------- MODULE Tsdb ---------------------------------
(***************************************************************************)
(* One member's time-series store (crates/controller/src/tsdb.rs) for one  *)
(* link: concurrent ingest, retention, the batched flush to redb, a crash  *)
(* and the reload at boot.                                                 *)
(*                                                                         *)
(* ingest() takes one lock after another: the ring, the buckets with the   *)
(* dirty map, the sequence counter, the delta queue, the pending queue.    *)
(* Each is an atomic step of the ingesting thread.  flush_loop() is one    *)
(* task: prune (three lock sections), then flush (two drains and a         *)
(* transaction, whose begin or commit may fail).                           *)
(***************************************************************************)
EXTENDS Samples, Sequences

CONSTANTS
    Threads,      \* tasks that ingest at once
    RawKeep,      \* raw_retention_secs
    AggKeep,      \* agg_retention_secs
    Reports,      \* the reports that are ingested
    MaxNow,       \* bound on the clock
    MaxIngests,   \* bound on the samples accepted before a crash
    MaxRestarts,  \* bound on crashes
    MaxFaults     \* bound on the redb transactions that fail

ASSUME TsdbAssumption ==
    /\ RawKeep \in Nat /\ AggKeep \in Nat
    /\ {MaxNow, MaxRestarts, MaxIngests, MaxFaults} \subseteq Nat
    /\ Reports \subseteq Reportable

VARIABLES
    ring, floor,   \* by_link: the samples and the floor
    buckets,       \* the aggregate buckets
    seq,           \* the next sequence number
    recent,        \* the delta queue: (seq, ts, sample)
    pending,       \* samples to be written: (ts, sample)
    dirty,         \* buckets to be written (NoBucket: none)
    raw, agg,      \* redb's two tables
    th,            \* the ingesting threads
    fl,            \* the flush loop
    now, restarts, faults,
    seen           \* history: what was accepted, by second and by bucket

vars == <<ring, floor, buckets, seq, recent, pending, dirty, raw, agg, th, fl,
          now, restarts, faults, seen>>

Entry == [ts : Stamps, s : Sample]

IdleThread == [pc |-> "idle", ts |-> 0, s |-> NoSample, prev |-> NoSample, seq |-> 0]

IdleFlush == [pc |-> "idle", now |-> 0, raw |-> <<>>,
              dirty |-> [b \in Buckets |-> NoBucket]]

TypeOK ==
    /\ ring \in Ring /\ floor \in Nat
    /\ buckets \in [Buckets -> Bucket \cup {NoBucket}]
    /\ seq \in Nat
    /\ recent \in Seq([seq : Nat, ts : Stamps, s : Sample])
    /\ pending \in Seq(Entry)
    /\ dirty \in [Buckets -> Bucket \cup {NoBucket}]
    /\ raw \in Ring /\ agg \in [Buckets -> Bucket \cup {NoBucket}]
    /\ th \in [Threads -> [pc : {"idle", "bucket", "seq", "recent", "pending"},
                           ts : Stamps \cup {0},
                           s : Sample \cup {NoSample},
                           prev : Sample \cup {NoSample},
                           seq : Nat]]
    /\ fl \in [pc : {"idle", "agg", "recent", "drain", "dirty", "write"},
               now : Nat, raw : Seq(Entry), dirty : [Buckets -> Bucket \cup {NoBucket}]]
    /\ now \in 0..MaxNow /\ restarts \in 0..MaxRestarts /\ faults \in 0..MaxFaults
    /\ seen \in [dims : [Stamps -> SUBSET Dims], probes : [Buckets -> Nat]]

Init ==
    /\ ring = EmptyRing /\ floor = 0
    /\ buckets = [b \in Buckets |-> NoBucket]
    /\ seq = 1 /\ recent = <<>> /\ pending = <<>>
    /\ dirty = [b \in Buckets |-> NoBucket]
    /\ raw = EmptyRing /\ agg = [b \in Buckets |-> NoBucket]
    /\ th = [t \in Threads |-> IdleThread]
    /\ fl = IdleFlush
    /\ now = 0 /\ restarts = 0 /\ faults = 0
    /\ seen = [dims |-> [t \in Stamps |-> {}], probes |-> [b \in Buckets |-> 0]]

-----------------------------------------------------------------------------
(* ingest().  A sample the ring refuses changes nothing.                   *)

\* A sample of a second that has begun enters the ring.
IngestRing(t, ts, s) ==
    LET new == Insert(ring, floor, ts, s) IN
    /\ th[t].pc = "idle" /\ ts <= now /\ seq <= MaxIngests
    /\ Accepts(ring, floor, ts, s)
    /\ ring' = new.ring /\ floor' = new.floor
    /\ th' = [th EXCEPT ![t] = [pc |-> "bucket", ts |-> ts, s |-> Merged(ring, ts, s),
                                prev |-> ring[ts], seq |-> 0]]
    /\ seen' = [seen EXCEPT !.dims[ts] = @ \cup Measured(s),
                            !.probes[BucketOf(ts)] = @ + (IF IsProbe(s) THEN 1 ELSE 0)]
    /\ UNCHANGED <<buckets, seq, recent, pending, dirty, raw, agg, fl, now, restarts, faults>>

\* A bucket that has no entry starts from the stored sample, merged or not.
Aggregate(b, s, prev) ==
    IF b = NoBucket \/ prev = NoSample THEN BucketAdd(b, s) ELSE BucketMerge(b, s, prev)

IngestBucket(t) ==
    LET b == BucketOf(th[t].ts) IN
    /\ th[t].pc = "bucket"
    /\ buckets' = [buckets EXCEPT ![b] = Aggregate(@, th[t].s, th[t].prev)]
    /\ dirty' = [dirty EXCEPT ![b] = buckets'[b]]
    /\ th' = [th EXCEPT ![t].pc = "seq"]
    /\ UNCHANGED <<ring, floor, seq, recent, pending, raw, agg, fl, now, restarts,
                   faults, seen>>

IngestSeq(t) ==
    /\ th[t].pc = "seq"
    /\ seq' = seq + 1
    /\ th' = [th EXCEPT ![t] = [@ EXCEPT !.pc = "recent", !.seq = seq]]
    /\ UNCHANGED <<ring, floor, buckets, recent, pending, dirty, raw, agg, fl, now,
                   restarts, faults, seen>>

IngestRecent(t) ==
    /\ th[t].pc = "recent"
    /\ recent' = Append(recent, [seq |-> th[t].seq, ts |-> th[t].ts, s |-> th[t].s])
    /\ th' = [th EXCEPT ![t].pc = "pending"]
    /\ UNCHANGED <<ring, floor, buckets, seq, pending, dirty, raw, agg, fl, now,
                   restarts, faults, seen>>

\* Mutant: only the first sample of a second is queued for the flush.
IngestPendingNew(t) ==
    /\ th[t].pc = "pending"
    /\ pending' = IF th[t].prev # NoSample THEN pending
                  ELSE Append(pending, [ts |-> th[t].ts, s |-> th[t].s])
    /\ th' = [th EXCEPT ![t] = IdleThread]
    /\ UNCHANGED <<ring, floor, buckets, seq, recent, dirty, raw, agg, fl, now,
                   restarts, faults, seen>>

IngestPending(t) ==
    /\ th[t].pc = "pending"
    /\ pending' = Append(pending, [ts |-> th[t].ts, s |-> th[t].s])
    /\ th' = [th EXCEPT ![t] = IdleThread]
    /\ UNCHANGED <<ring, floor, buckets, seq, recent, dirty, raw, agg, fl, now,
                   restarts, faults, seen>>

-----------------------------------------------------------------------------
(* flush_loop(): prune, then flush.                                        *)

Cut(t, keep) == IF t > keep THEN t - keep ELSE 0

FlushTick ==
    LET new == PruneRing(ring, floor, Cut(now, RawKeep)) IN
    /\ fl.pc = "idle"
    /\ ring' = new.ring /\ floor' = new.floor
    /\ fl' = [fl EXCEPT !.pc = "agg", !.now = now]
    /\ UNCHANGED <<buckets, seq, recent, pending, dirty, raw, agg, th, now, restarts,
                   faults, seen>>

PruneBuckets ==
    /\ fl.pc = "agg"
    /\ buckets' = [b \in Buckets |-> IF b < Cut(fl.now, AggKeep) THEN NoBucket ELSE buckets[b]]
    /\ fl' = [fl EXCEPT !.pc = "recent"]
    /\ UNCHANGED <<ring, floor, seq, recent, pending, dirty, raw, agg, th, now, restarts,
                   faults, seen>>

\* The delta queue loses its entries up to the first young one.
PruneRecent ==
    LET young == {i \in DOMAIN recent : recent[i].ts >= Cut(fl.now, RawKeep)}
        first == IF young = {} THEN Len(recent) + 1 ELSE Min(young)
    IN
    /\ fl.pc = "recent"
    /\ recent' = SubSeq(recent, first, Len(recent))
    /\ fl' = [fl EXCEPT !.pc = "drain"]
    /\ UNCHANGED <<ring, floor, buckets, seq, pending, dirty, raw, agg, th, now,
                   restarts, faults, seen>>

DrainPending ==
    /\ fl.pc = "drain"
    /\ fl' = [fl EXCEPT !.pc = "dirty", !.raw = pending]
    /\ pending' = <<>>
    /\ UNCHANGED <<ring, floor, buckets, seq, recent, dirty, raw, agg, th, now,
                   restarts, faults, seen>>

DrainDirty ==
    /\ fl.pc = "dirty"
    /\ fl' = [fl EXCEPT !.pc = "write", !.dirty = dirty]
    /\ dirty' = [b \in Buckets |-> NoBucket]
    /\ UNCHANGED <<ring, floor, buckets, seq, recent, pending, raw, agg, th, now,
                   restarts, faults, seen>>

\* A table after the entries of a queue are inserted in order.
Written(table, queue) ==
    [t \in Stamps |->
        LET at == {i \in DOMAIN queue : queue[i].ts = t} IN
        IF at = {} THEN table[t] ELSE queue[Max(at)].s]

\* The transaction commits: the rows are inserted in order, what is past
\* retention is removed.
Commit ==
    /\ fl.pc = "write"
    /\ raw' = [t \in Stamps |-> IF t < Cut(now, RawKeep) THEN NoSample
                                ELSE Written(raw, fl.raw)[t]]
    /\ agg' = [b \in Buckets |-> IF b < Cut(now, AggKeep) THEN NoBucket
                                 ELSE IF fl.dirty[b] # NoBucket THEN fl.dirty[b] ELSE agg[b]]
    /\ fl' = IdleFlush
    /\ UNCHANGED <<ring, floor, buckets, seq, recent, pending, dirty, th, now,
                   restarts, faults, seen>>

\* begin_write fails: the samples are queued again, behind the newer ones.
BeginFails ==
    /\ fl.pc = "write" /\ faults < MaxFaults
    /\ faults' = faults + 1
    /\ pending' = pending \o fl.raw
    /\ fl' = IdleFlush
    /\ UNCHANGED <<ring, floor, buckets, seq, recent, dirty, raw, agg, th, now,
                   restarts, seen>>

\* The transaction fails after it began: the flush gives up.
CommitFails ==
    /\ fl.pc = "write" /\ faults < MaxFaults
    /\ faults' = faults + 1
    /\ fl' = IdleFlush
    /\ UNCHANGED <<ring, floor, buckets, seq, recent, pending, dirty, raw, agg, th,
                   now, restarts, seen>>

-----------------------------------------------------------------------------
(* A crash, and load() at the next boot: rows within retention go through  *)
(* ingest() in key order without being queued for the flush; a stored      *)
(* bucket is taken only where the samples gave none.                       *)

Rows == {t \in Stored(raw) : t >= Cut(now, RawKeep)}

\* The rows that stay in the ring, which evicts the oldest.
Kept == {t \in Rows : Cardinality({u \in Rows : u > t}) < RingCap}

\* The bucket that the rows of its seconds give.
FromRows(b) ==
    LET in == {t \in Rows : BucketOf(t) = b} IN
    IF in = {} THEN NoBucket
    ELSE [n    |-> Cardinality({t \in in : IsProbe(raw[t])}),
          dims |-> [d \in Counted |-> Cardinality({t \in in : d \in Measured(raw[t])})]]

\* The rows in key order.
NthRow(i) == CHOOSE t \in Rows : Cardinality({u \in Rows : u < t}) = i - 1

Restart ==
    LET order == [i \in 1..Cardinality(Rows) |-> NthRow(i)] IN
    /\ restarts < MaxRestarts
    /\ restarts' = restarts + 1
    /\ ring' = [t \in Stamps |-> IF t \in Kept THEN raw[t] ELSE NoSample]
    /\ floor' = Max({0} \cup (Rows \ Kept))
    /\ dirty' = [b \in Buckets |-> FromRows(b)]
    /\ buckets' = [b \in Buckets |->
          IF FromRows(b) # NoBucket \/ b < Cut(now, AggKeep) THEN FromRows(b) ELSE agg[b]]
    /\ recent' = [i \in DOMAIN order |-> [seq |-> i, ts |-> order[i], s |-> raw[order[i]]]]
    /\ seq' = Len(order) + 1
    /\ pending' = <<>>
    /\ th' = [t \in Threads |-> IdleThread] /\ fl' = IdleFlush
    /\ UNCHANGED <<raw, agg, now, faults, seen>>

Elapse == now < MaxNow /\ now' = now + 1
          /\ UNCHANGED <<ring, floor, buckets, seq, recent, pending, dirty, raw, agg,
                         th, fl, restarts, faults, seen>>

-----------------------------------------------------------------------------
IngestStep(t) ==
    \/ \E ts \in Stamps, s \in Reports : IngestRing(t, ts, s)
    \/ IngestBucket(t)
    \/ IngestSeq(t)
    \/ IngestRecent(t)
    \/ IngestPending(t)

FlushStep ==
    \/ FlushTick
    \/ PruneBuckets
    \/ PruneRecent
    \/ DrainPending
    \/ DrainDirty
    \/ Commit
    \/ BeginFails
    \/ CommitFails

Next ==
    \/ \E t \in Threads : IngestStep(t)
    \/ FlushStep
    \/ Restart
    \/ Elapse

Spec == Init /\ [][Next]_vars

-----------------------------------------------------------------------------
(* Properties.                                                             *)

\* The floor is below everything the ring holds: no late sample, merge, eviction
\* or retention leaves a sample at or below the newest second that was dropped
\* since the store started.  (A full ring refuses more than that, and a restart
\* forgets the floor.)
AboveFloor == \A t \in Stored(ring) : t > floor

\* "The bucket only counts the dimensions that are new" (tsdb.rs, ingest): a
\* second contributes each dimension at most once to its bucket, in however
\* many reports it arrives, and a bucket counts no more probes than were
\* accepted.  A restart forgets the floor, and a bucket on disk whose sample
\* was not flushed counts it again when a peer sends it again.
CountedOnce ==
    restarts = 0 =>
    \A b \in Buckets :
        buckets[b] # NoBucket =>
        /\ buckets[b].n <= seen.probes[b]
        /\ \A d \in Counted : buckets[b].dims[d]
              <= Cardinality({t \in Stamps : BucketOf(t) = b /\ d \in seen.dims[t]})

\* The latest version of a second that the writers have queued: what redb
\* holds once everything queued is written.
Queued ==
    Written(Written(raw, fl.raw), pending)

\* "Flushed in batches by a background task and reloaded at boot, so history
\* survives controller restarts" (tsdb.rs): while no transaction has failed,
\* and with no ingest in progress, every sample of the ring within retention
\* is what redb will hold once the queues are written, so a crash loses at
\* most the queues.  A transaction that fails puts the older samples behind
\* the newer ones, or drops them.
NothingLost ==
    (faults = 0 /\ \A t \in Threads : th[t].pc = "idle") =>
        \A t \in Stored(ring) : t >= Cut(now, RawKeep) => Queued[t] = ring[t]
=============================================================================
