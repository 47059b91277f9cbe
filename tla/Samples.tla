------------------------------- MODULE Samples -------------------------------
(***************************************************************************)
(* Samples, the per-link ring and the aggregate buckets of the time-series *)
(* store (crates/controller/src/tsdb.rs), as operators on values.          *)
(*                                                                         *)
(* A sample maps each dimension to what it measured: "probe" stands for    *)
(* the dimensions of a probe report (rtt, loss, jitter, tcp, udp), "block" *)
(* for the counters of an alternate-marking block, "joined" for the loss   *)
(* and rate the classifier joined for it.  Utilisation and state, which a  *)
(* merge only ever raises, are left out.  A ring is the function from time *)
(* stamps to samples that its sorted deque stands for.                     *)
(***************************************************************************)
EXTENDS Naturals, FiniteSets, FiniteSetsExt

CONSTANTS
    Stamps,     \* time stamps, in seconds (positive)
    Vals,       \* what a dimension may measure
    RingCap,    \* RAW_RING_CAP
    BucketSecs, \* BUCKET_SECS
    NoVal, NoSample, NoBucket

Dims == {"probe", "block", "joined"}

Sample == [Dims -> Vals \cup {NoVal}]

ASSUME SamplesAssumption ==
    /\ Stamps \subseteq Nat \ {0}
    /\ RingCap \in Nat \ {0} /\ BucketSecs \in Nat \ {0}
    /\ NoVal \notin Vals /\ NoSample \notin Sample

Measured(s) == {d \in Dims : s[d] # NoVal}

\* What a report of the code may carry: a probe (that may have failed and
\* measured nothing), a block, or the joined result of a block.
Reportable == {s \in Sample : Cardinality(Measured(s)) <= 1}

\* Fold a same-second sample o into s: what o measured replaces ours.
MergedWith(s, o) == [d \in Dims |-> IF o[d] # NoVal THEN o[d] ELSE s[d]]

IsProbe(s) == s["probe"] # NoVal \/ (s["block"] = NoVal /\ s["joined"] = NoVal)

-----------------------------------------------------------------------------
(* The ring and its floor.                                                 *)

Ring == [Stamps -> Sample \cup {NoSample}]

EmptyRing == [t \in Stamps |-> NoSample]

Stored(ring) == {t \in Stamps : ring[t] # NoSample}

\* Mutant: what retention dropped is accepted again.
AcceptsAny(ring, floor, t, s) ==
    IF ring[t] # NoSample
    THEN MergedWith(ring[t], s) # ring[t]
    ELSE Cardinality(Stored(ring)) < RingCap \/ \E u \in Stored(ring) : u < t

\* Mutant: a resend of what the ring already holds is accepted again.
AcceptsSame(ring, floor, t, s) ==
    t > floor /\ (ring[t] # NoSample \/ Cardinality(Stored(ring)) < RingCap)

\* Whether a sample changes the ring: not at or below the floor, not an
\* exact resend, not one that a full ring would evict at once.
Accepts(ring, floor, t, s) ==
    /\ t > floor
    /\ IF ring[t] # NoSample
       THEN MergedWith(ring[t], s) # ring[t]
       ELSE Cardinality(Stored(ring)) < RingCap \/ \E u \in Stored(ring) : u < t

\* What an accepted sample is stored as.
Merged(ring, t, s) == IF ring[t] = NoSample THEN s ELSE MergedWith(ring[t], s)

\* The ring and the floor after a sample is accepted: a ring over its
\* capacity drops its oldest sample.
Insert(ring, floor, t, s) ==
    LET grown == [ring EXCEPT ![t] = Merged(ring, t, s)]
        old   == Min(Stored(grown))
    IN IF Cardinality(Stored(grown)) > RingCap
       THEN [ring |-> [grown EXCEPT ![old] = NoSample], floor |-> Max({floor, old})]
       ELSE [ring |-> grown, floor |-> floor]

\* Mutant: the floor is the cut less one, at a cut of zero too.
PruneRingToCut(ring, floor, cut) ==
    [ring  |-> [t \in Stamps |-> IF t < cut THEN NoSample ELSE ring[t]],
     floor |-> cut - 1]

\* The ring and the floor after retention drops what is older than `cut`.
PruneRing(ring, floor, cut) ==
    [ring  |-> [t \in Stamps |-> IF t < cut THEN NoSample ELSE ring[t]],
     floor |-> Max({floor} \cup {t \in Stored(ring) : t < cut})]

-----------------------------------------------------------------------------
(* Aggregate buckets.  Of a bucket the model keeps the counts: probes, and *)
(* values per dimension (block counters are not aggregated).               *)

Counted == Dims \ {"block"}

Bucket == [n : Nat, dims : [Counted -> Nat]]

ZeroBucket == [n |-> 0, dims |-> [d \in Counted |-> 0]]

BucketOf(t) == t - (t % BucketSecs)

Buckets == {BucketOf(t) : t \in Stamps}

\* Count a sample: the dimensions in ds, and one probe if `probe`.
Count(b, ds, probe) ==
    [n    |-> b.n + (IF probe THEN 1 ELSE 0),
     dims |-> [d \in Counted |-> b.dims[d] + (IF d \in ds THEN 1 ELSE 0)]]

BucketAdd(b, s) == Count(IF b = NoBucket THEN ZeroBucket ELSE b, Measured(s), IsProbe(s))

\* Mutant: a same-second merge counts every dimension anew.
BucketMergeAll(b, s, prev) == BucketAdd(b, s)

\* Fold in what s has that prev, the version counted before, did not.
BucketMerge(b, s, prev) ==
    Count(b, Measured(s) \ Measured(prev), IsProbe(s) /\ ~IsProbe(prev))
=============================================================================
