------------------------------ MODULE TsdbProofs ------------------------------
(***************************************************************************)
(* Proofs about one member's time-series store, for every ring capacity,   *)
(* retention, set of time stamps and reports, and any number of crashes.   *)
(***************************************************************************)
EXTENDS Tsdb, NaturalsInduction, FiniteSetTheorems, TLAPS

-----------------------------------------------------------------------------
(* Extrema of sets of numbers.                                             *)

LEMMA Least ==
    ASSUME NEW S \in SUBSET Nat, S # {}
    PROVE  Min(S) \in S /\ \A x \in S : Min(S) <= x
<1> DEFINE R == {p \in Nat \X Nat : p[1] < p[2]}
<1>1. IsWellFoundedOn(R, Nat)
  BY NatLessThanWellFounded, Zenon DEF OpToRel
<1> HIDE DEF R
<1>2. PICK m \in S : \A y \in S : ~(<<y, m>> \in R)
  BY <1>1, WFMin, Zenon
<1>3. \A x, y \in Nat : x < y => <<x, y>> \in R
  BY DEF R
<1>4. ASSUME NEW y \in S PROVE m <= y
  <2>1. m \in Nat /\ y \in Nat
    BY <1>2
  <2>2. ~(y < m)
    BY <1>2, <1>3, <2>1, Zenon
  <2>3. QED
    BY <2>1, <2>2
<1>5. QED
  BY <1>4 DEF Min

LEMMA Greatest ==
    ASSUME NEW S \in SUBSET Nat, S # {}, NEW n \in Nat, \A x \in S : x <= n
    PROVE  Max(S) \in S /\ \A x \in S : x <= Max(S)
<1> DEFINE B == {k \in Nat : \A x \in S : x <= k}
<1>1. B \in SUBSET Nat /\ n \in B
  OBVIOUS
<1>2. PICK m \in B : \A y \in B : m <= y
  <2>1. Min(B) \in B /\ \A y \in B : Min(B) <= y
    <3> HIDE DEF B
    <3>1. QED
      BY <1>1, Least
  <2>2. QED
    BY <2>1
<1>3. m \in S
  <2>1. SUFFICES ASSUME m \notin S PROVE FALSE
    OBVIOUS
  <2>2. \A x \in S : x <= m /\ x # m
    BY <2>1
  <2>3. m # 0
    <3>1. PICK x \in S : TRUE
      OBVIOUS
    <3>2. QED
      BY <2>2, <3>1
  <2>4. m - 1 \in Nat /\ \A x \in S : x <= m - 1
    BY <2>2, <2>3
  <2>5. QED
    BY <1>2, <2>4
<1>4. QED
  BY <1>2, <1>3 DEF Max

-----------------------------------------------------------------------------
(* The ring and its floor.                                                 *)

LEMMA MergedType ==
    ASSUME NEW r \in Ring, NEW t \in Stamps, NEW s \in Sample
    PROVE  Merged(r, t, s) \in Sample /\ Merged(r, t, s) # NoSample
<1>1. r[t] \in Sample \cup {NoSample}
  BY DEF Ring
<1>2. \A x, y \in Sample : MergedWith(x, y) \in Sample
  BY DEF MergedWith, Sample
<1>3. Merged(r, t, s) \in Sample
  BY <1>1, <1>2 DEF Merged
<1>4. QED
  BY <1>3, SamplesAssumption

Above(r, f) == \A t \in Stored(r) : t > f

\* A sample above the floor enters the ring; what the ring evicts for it, the
\* floor rises to.
LEMMA InsertAbove ==
    ASSUME NEW r \in Ring, NEW f \in Nat, NEW t \in Stamps, NEW s \in Sample,
           Above(r, f), t > f
    PROVE  /\ Insert(r, f, t, s).ring \in Ring /\ Insert(r, f, t, s).floor \in Nat
           /\ Above(Insert(r, f, t, s).ring, Insert(r, f, t, s).floor)
           /\ \A u \in Stamps : u # t => Insert(r, f, t, s).ring[u] \in {NoSample, r[u]}
           /\ Insert(r, f, t, s).ring[t] \in {NoSample, Merged(r, t, s)}
           /\ Insert(r, f, t, s).floor >= f
           /\ \A u \in Stamps : Insert(r, f, t, s).ring[u] = NoSample =>
                  u <= Insert(r, f, t, s).floor \/ (u # t /\ r[u] = NoSample)
<1> DEFINE m == Merged(r, t, s)
           grown == [r EXCEPT ![t] = m]
           old == Min(Stored(grown))
<1>1. m \in Sample /\ m # NoSample
  BY MergedType
<1> HIDE DEF m
<1>2. /\ grown \in Ring /\ grown[t] = m /\ \A u \in Stamps : u # t => grown[u] = r[u]
  BY <1>1 DEF Ring
<1> HIDE DEF grown
<1>3. /\ Stored(grown) \in SUBSET Nat /\ t \in Stored(grown) /\ Stored(grown) \subseteq Stamps
      /\ \A u \in Stored(grown) : u > f
  <2>1. Stored(grown) \subseteq Stamps /\ t \in Stored(grown)
    BY <1>1, <1>2 DEF Stored
  <2>2. ASSUME NEW u \in Stored(grown) PROVE u > f
    BY <1>2 DEF Stored, Above
  <2>3. QED
    BY <2>1, <2>2, SamplesAssumption
<1>4. old \in Stored(grown) /\ \A u \in Stored(grown) : old <= u
  BY <1>3, Least
<1> HIDE DEF old
<1>5. CASE Cardinality(Stored(grown)) > RingCap
  <2> DEFINE q == [grown EXCEPT ![old] = NoSample]
  <2>1. Insert(r, f, t, s) = [ring |-> q, floor |-> Max({f, old})]
    BY <1>5 DEF Insert, old, grown, m
  <2>2. /\ q \in Ring /\ q[old] = NoSample /\ \A u \in Stamps : u # old => q[u] = grown[u]
    BY <1>2, <1>3, <1>4 DEF Ring
  <2> HIDE DEF q
  <2>3. Max({f, old}) = old
    <3>1. f \in Nat /\ old \in Nat /\ f <= old
      BY <1>3, <1>4
    <3>2. Max({f, old}) \in {f, old} /\ \A x \in {f, old} : x <= Max({f, old})
      BY <3>1, Greatest
    <3>3. QED
      BY <3>1, <3>2
  <2>4. ASSUME NEW u \in Stored(q) PROVE u > old
    <3>1. u \in Stored(grown) /\ u # old
      BY <2>2, <2>4 DEF Stored
    <3>2. QED
      BY <1>3, <1>4, <3>1
  <2>5. ASSUME NEW u \in Stamps, q[u] = NoSample
        PROVE  u <= old \/ (u # t /\ r[u] = NoSample)
    <3>1. CASE u = old
      BY <1>3, <1>4, <3>1
    <3>2. CASE u # old
      BY <1>1, <1>2, <2>2, <2>5, <3>2
    <3>3. QED
      BY <3>1, <3>2
  <2>6. old >= f /\ old \in Nat
    BY <1>3, <1>4
  <2>7. QED
    BY <1>2, <1>3, <1>4, <2>1, <2>2, <2>3, <2>4, <2>5, <2>6 DEF Above, m
<1>6. CASE ~(Cardinality(Stored(grown)) > RingCap)
  <2>1. Insert(r, f, t, s) = [ring |-> grown, floor |-> f]
    BY <1>6 DEF Insert, old, grown, m
  <2>2. \A u \in Stamps : grown[u] = NoSample => u # t /\ r[u] = NoSample
    BY <1>1, <1>2
  <2>3. QED
    BY <1>2, <1>3, <2>1, <2>2 DEF Above, m
<1>7. QED
  BY <1>5, <1>6

\* What retention drops, the floor rises to.
LEMMA PruneAbove ==
    ASSUME NEW r \in Ring, NEW f \in Nat, NEW c \in Nat, Above(r, f)
    PROVE  /\ PruneRing(r, f, c).ring \in Ring /\ PruneRing(r, f, c).floor \in Nat
           /\ Above(PruneRing(r, f, c).ring, PruneRing(r, f, c).floor)
           /\ \A u \in Stamps : PruneRing(r, f, c).ring[u] \in {NoSample, r[u]}
           /\ PruneRing(r, f, c).floor >= f
           /\ \A u \in Stamps : PruneRing(r, f, c).ring[u] = NoSample =>
                  u <= PruneRing(r, f, c).floor \/ r[u] = NoSample
<1> DEFINE q == [t \in Stamps |-> IF t < c THEN NoSample ELSE r[t]]
           S == {f} \cup {t \in Stored(r) : t < c}
<1>1. PruneRing(r, f, c) = [ring |-> q, floor |-> Max(S)]
  BY DEF PruneRing
<1>2. /\ q \in Ring /\ \A u \in Stamps : q[u] \in {NoSample, r[u]}
      /\ \A u \in Stored(q) : u \in Stored(r) /\ ~(u < c)
  BY DEF Ring, Stored
<1>3. Stored(r) \subseteq Nat
  BY SamplesAssumption DEF Stored
<1>4. S \in SUBSET Nat /\ f \in S /\ f + c \in Nat /\ \A x \in S : x <= f + c
  BY <1>3
<1>5. /\ \A x \in S : x = f \/ x < c
      /\ \A u \in Stamps : q[u] = NoSample => u \in S \/ r[u] = NoSample
  BY DEF Stored
<1> HIDE DEF q, S
<1>6. Max(S) \in S /\ Max(S) \in Nat /\ \A x \in S : x <= Max(S)
  BY <1>4, Greatest
<1>7. ASSUME NEW u \in Stored(q) PROVE u > Max(S)
  <2>1. u \in Nat /\ u > f /\ ~(u < c)
    BY <1>2, <1>3 DEF Above
  <2>2. Max(S) = f \/ Max(S) < c
    BY <1>5, <1>6
  <2>3. QED
    BY <1>6, <2>1, <2>2
<1>8. Max(S) >= f
  BY <1>4, <1>6
<1>9. \A u \in Stamps : q[u] = NoSample => u <= Max(S) \/ r[u] = NoSample
  BY <1>5, <1>6
<1>10. QED
  BY <1>1, <1>2, <1>6, <1>7, <1>8, <1>9 DEF Above

-----------------------------------------------------------------------------
(* redb's table.                                                           *)

LEMMA ElementOf ==
    ASSUME NEW X, NEW q \in Seq(X), NEW i \in 1..Len(q)
    PROVE  q[i] \in X
OBVIOUS

\* A queue leaves each second its last version; other seconds stay.
LEMMA WrittenRows ==
    ASSUME NEW r \in Ring, NEW E \in SUBSET Stamps, NEW q \in Seq([ts : E, s : Sample])
    PROVE  /\ Written(r, q) \in Ring
           /\ \A t \in Stored(Written(r, q)) : t \in Stored(r) \/ t \in E
<1>1. ASSUME NEW t \in Stamps
      PROVE  \/ Written(r, q)[t] = r[t]
             \/ Written(r, q)[t] \in Sample /\ t \in E
  <2> DEFINE at == {i \in DOMAIN q : q[i].ts = t}
  <2>1. Written(r, q)[t] = IF at = {} THEN r[t] ELSE q[Max(at)].s
    BY DEF Written
  <2>2. at \in SUBSET Nat /\ Len(q) \in Nat /\ \A i \in at : i <= Len(q)
    OBVIOUS
  <2>3. ASSUME NEW i \in at PROVE q[i] \in [ts : E, s : Sample] /\ q[i].ts = t
    <3>1. i \in 1..Len(q) /\ q[i].ts = t
      OBVIOUS
    <3>2. q[i] \in [ts : E, s : Sample]
      BY <3>1, ElementOf
    <3>3. QED
      BY <3>1, <3>2
  <2> HIDE DEF at
  <2>4. CASE at = {}
    BY <2>1, <2>4
  <2>5. CASE at # {}
    <3>1. Max(at) \in at
      BY <2>2, <2>5, Greatest
    <3>2. q[Max(at)] \in [ts : E, s : Sample] /\ q[Max(at)].ts = t
      BY <2>3, <3>1
    <3>3. QED
      BY <2>1, <2>5, <3>2
  <2>6. QED
    BY <2>4, <2>5
<1>2. Written(r, q) = [t \in Stamps |-> Written(r, q)[t]]
  BY DEF Written
<1>3. \A t \in Stamps : r[t] \in Sample \cup {NoSample}
  BY DEF Ring
<1>4. Written(r, q) \in Ring
  BY <1>1, <1>2, <1>3 DEF Ring
<1>5. QED
  BY <1>1, <1>4 DEF Stored

LEMMA WrittenNothing ==
    ASSUME NEW r \in Ring
    PROVE  Written(r, <<>>) = r
<1>1. ASSUME NEW t \in Stamps PROVE {i \in DOMAIN <<>> : <<>>[i].ts = t} = {}
  OBVIOUS
<1>2. QED
  BY <1>1 DEF Written, Ring

\* The entry queued last is the version of its second.
LEMMA WrittenLast ==
    ASSUME NEW r, NEW X, NEW q \in Seq(X), NEW e \in X, NEW t \in Stamps
    PROVE  Written(r, Append(q, e))[t] = IF t = e.ts THEN e.s ELSE Written(r, q)[t]
<1> DEFINE n == Len(q) + 1
           a == Append(q, e)
           old == {i \in DOMAIN q : q[i].ts = t}
           new == {i \in DOMAIN a : a[i].ts = t}
<1>1. /\ a \in Seq(X) /\ n \in Nat \ {0} /\ DOMAIN a = 1..n /\ a[n] = e /\ DOMAIN q = 1..(n - 1)
      /\ \A i \in DOMAIN q : i \in 1..n /\ i # n /\ a[i] = q[i]
      /\ \A i \in 1..n : i # n => i \in DOMAIN q
  OBVIOUS
<1>2. /\ Written(r, q)[t] = IF old = {} THEN r[t] ELSE q[Max(old)].s
      /\ Written(r, a)[t] = IF new = {} THEN r[t] ELSE a[Max(new)].s
  BY DEF Written
<1> HIDE DEF n, a
<1>3. CASE t = e.ts
  <2>1. new \in SUBSET Nat /\ n \in new /\ \A i \in new : i <= n
    BY <1>1, <1>3
  <2> HIDE DEF new
  <2>2. Max(new) \in new /\ Max(new) \in Nat /\ n <= Max(new)
    BY <1>1, <2>1, Greatest
  <2>3. Max(new) = n
    BY <1>1, <2>1, <2>2
  <2>4. QED
    BY <1>1, <1>2, <1>3, <2>1, <2>3 DEF a
<1>4. CASE t # e.ts
  <2>1. new = old
    BY <1>1, <1>4
  <2>2. old \in SUBSET Nat /\ n \in Nat /\ \A i \in old : i <= n
    BY <1>1
  <2>3. \A i \in old : a[i] = q[i]
    BY <1>1
  <2> HIDE DEF old, new
  <2>4. CASE old = {}
    BY <1>2, <1>4, <2>1, <2>4 DEF a
  <2>5. CASE old # {}
    <3>1. Max(old) \in old
      BY <2>2, <2>5, Greatest
    <3>2. QED
      BY <1>2, <1>4, <2>1, <2>3, <2>5, <3>1 DEF a
  <2>6. QED
    BY <2>4, <2>5
<1>5. QED
  BY <1>3, <1>4

\* Of the rows within retention the ring keeps the newest ones: what it keeps is
\* above the floor that the others leave.
LEMMA KeptAbove ==
    ASSUME NEW R \in SUBSET (Nat \ {0}), NEW n \in Nat, \A x \in R : x <= n,
           NEW K, K = {t \in R : Cardinality({u \in R : u > t}) < RingCap}
    PROVE  Max({0} \cup (R \ K)) \in Nat /\ \A t \in K : t > Max({0} \cup (R \ K))
<1> DEFINE S == {0} \cup (R \ K)
           Over(t) == {u \in R : u > t}
<1>0. K \subseteq R /\ \A x \in R : x \in Nat /\ x > 0
  OBVIOUS
<1>1. S \in SUBSET Nat /\ 0 \in S /\ \A x \in S : x <= n
  <2>1. ASSUME NEW x \in S PROVE x \in Nat /\ x <= n
    <3>1. x = 0 \/ x \in R
      OBVIOUS
    <3>2. QED
      BY <1>0, <3>1
  <2>2. QED
    BY <2>1
<1>2. Max(S) \in S
  <2> HIDE DEF S
  <2>1. QED
    BY <1>1, Greatest
<1>3. IsFiniteSet(R)
  <2>1. IsFiniteSet(0..n)
    BY FS_Interval
  <2>2. R \subseteq 0..n
    OBVIOUS
  <2>3. QED
    BY <2>1, <2>2, FS_Subset
<1>4. ASSUME NEW t \in K, NEW u \in R \ K PROVE t > u
  <2>1. t \in R /\ t \in Nat /\ u \in Nat /\ t # u
    BY <1>4
  <2>2. SUFFICES ASSUME u > t PROVE FALSE
    BY <2>1
  <2>3. Over(u) \subseteq Over(t) /\ Over(t) \subseteq R
    <3>1. ASSUME NEW x \in R, x > u PROVE x > t
      BY <1>0, <2>1, <2>2, <3>1
    <3>2. QED
      BY <3>1
  <2>4. Cardinality(Over(t)) < RingCap /\ ~(Cardinality(Over(u)) < RingCap)
    BY <1>4
  <2> HIDE DEF Over
  <2>5. IsFiniteSet(Over(t))
    BY <1>3, <2>3, FS_Subset
  <2>6. IsFiniteSet(Over(u)) /\ Cardinality(Over(u)) <= Cardinality(Over(t))
    BY <2>3, <2>5, FS_Subset
  <2>7. Cardinality(Over(t)) \in Nat /\ Cardinality(Over(u)) \in Nat
    BY <2>5, <2>6, FS_CardinalityType
  <2>8. QED
    BY <2>4, <2>6, <2>7, SamplesAssumption
<1>5. ASSUME NEW t \in K PROVE t > Max(S)
  <2>1. Max(S) = 0 \/ Max(S) \in R \ K
    BY <1>2
  <2>2. QED
    BY <1>0, <1>4, <2>1
<1>6. QED
  BY <1>1, <1>2, <1>5

-----------------------------------------------------------------------------
(* The inductive invariant.                                                *)

\* The seconds that have begun, and what may be queued for redb.
Past == {t \in Stamps : t <= now}
PastEntry == [ts : Past, s : Sample]

ThreadOf(w) == [pc   : {"idle", "bucket", "seq", "recent", "pending"},
                ts   : Stamps \cup {0},
                s    : Sample \cup {NoSample},
                prev : Sample \cup {NoSample},
                seq  : {w.seq}]

FlushOf(w) == [pc    : {"idle", "agg", "recent", "drain", "dirty", "write"},
               now   : Nat,
               raw   : Seq(PastEntry),
               dirty : {w.dirty}]

\* What a thread has put into the ring is a sample of a second that has begun.
ThreadOK(w) ==
    /\ w \in ThreadOf(w)
    /\ w.pc # "idle" => w.ts \in Past /\ w.s \in Sample

ThreadsOK == th = [t \in Threads |-> th[t]] /\ \A t \in Threads : ThreadOK(th[t])

RowsOK == raw \in Ring /\ \A t \in Stored(raw) : t <= now

RingOK == now \in Nat /\ ring \in Ring /\ floor \in Nat /\ Above(ring, floor)

QueuesOK == pending \in Seq(PastEntry) /\ fl \in FlushOf(fl)

StoreInv == RingOK /\ RowsOK /\ QueuesOK /\ ThreadsOK

-----------------------------------------------------------------------------
(* One lemma per kind of step.                                             *)

LEMMA ConstantFacts ==
    /\ Reports \subseteq Sample /\ RawKeep \in Nat
    /\ \A x \in Nat : Cut(x, RawKeep) \in Nat
BY TsdbAssumption DEF Reportable, Cut

LEMMA ThreadMoves ==
    ASSUME ThreadsOK, NEW t \in Threads, NEW w, th' = [th EXCEPT ![t] = w],
           now' = now, ThreadOK(w)
    PROVE  ThreadsOK'
<1>1. th = [u \in Threads |-> th[u]] /\ \A u \in Threads : ThreadOK(th[u])
  BY DEF ThreadsOK
<1>2. /\ th' = [u \in Threads |-> th'[u]]
      /\ \A u \in Threads : th'[u] = IF u = t THEN w ELSE th[u]
  BY <1>1
<1>3. Past' = Past
  BY DEF Past
<1>4. ASSUME NEW u \in Threads PROVE ThreadOK(th[u])'
  <2>1. ThreadOK(th'[u])
    BY <1>1, <1>2
  <2>2. QED
    BY <1>3, <2>1 DEF ThreadOK, ThreadOf
<1>5. QED
  BY <1>2, <1>4 DEF ThreadsOK

LEMMA ThreadRests == ThreadOK(IdleThread) /\ IdleThread.pc = "idle"
BY DEF ThreadOK, ThreadOf, IdleThread

LEMMA ThreadGoes ==
    ASSUME NEW w, ThreadOK(w), w.pc # "idle", NEW k \in {"bucket", "seq", "recent", "pending"}
    PROVE  /\ ThreadOK([w EXCEPT !.pc = k])
           /\ [w EXCEPT !.pc = k].pc = k /\ [w EXCEPT !.pc = k].ts = w.ts
           /\ [w EXCEPT !.pc = k].s = w.s
<1> DEFINE v == [w EXCEPT !.pc = k]
<1>1. w \in ThreadOf(w) /\ w.ts \in Past /\ w.s \in Sample
  BY DEF ThreadOK
<1>2. v.pc = k /\ v.ts = w.ts /\ v.s = w.s /\ v.seq = w.seq /\ v \in ThreadOf(w)
  BY <1>1 DEF ThreadOf
<1>3. ThreadOf(v) = ThreadOf(w)
  BY <1>2 DEF ThreadOf
<1> HIDE DEF v
<1>4. ThreadOK(v)
  BY <1>1, <1>2, <1>3 DEF ThreadOK
<1>5. QED
  BY <1>2, <1>4 DEF v

\* The thread's steps after the ring: buckets, counter, delta queue.
LEMMA ThreadSteps ==
    ASSUME StoreInv, NEW t \in Threads, IngestBucket(t) \/ IngestSeq(t) \/ IngestRecent(t)
    PROVE  /\ ThreadsOK' /\ UNCHANGED <<ring, floor, raw, pending, fl, now, restarts, faults>>
           /\ th[t].pc # "idle" /\ th'[t].pc # "idle"
           /\ th'[t].ts = th[t].ts /\ th'[t].s = th[t].s
           /\ \A u \in Threads : u # t => th'[u] = th[u]
<1>1. ThreadsOK /\ ThreadOK(th[t]) /\ th = [u \in Threads |-> th[u]]
  BY DEF StoreInv, ThreadsOK
<1>2. UNCHANGED <<ring, floor, raw, pending, fl, now, restarts, faults>> /\ th[t].pc # "idle"
  BY DEF IngestBucket, IngestSeq, IngestRecent
<1>3. \E w : /\ th' = [th EXCEPT ![t] = w] /\ ThreadOK(w) /\ w.pc # "idle"
             /\ w.ts = th[t].ts /\ w.s = th[t].s
  <2>1. CASE IngestBucket(t)
    <3> DEFINE w == [th[t] EXCEPT !.pc = "seq"]
    <3>1. th' = [th EXCEPT ![t] = w]
      BY <1>1, <2>1 DEF IngestBucket
    <3>2. QED
      BY <1>1, <1>2, <3>1, ThreadGoes
  <2>2. CASE IngestRecent(t)
    <3> DEFINE w == [th[t] EXCEPT !.pc = "pending"]
    <3>1. th' = [th EXCEPT ![t] = w]
      BY <1>1, <2>2 DEF IngestRecent
    <3>2. QED
      BY <1>1, <1>2, <3>1, ThreadGoes
  <2>3. CASE IngestSeq(t)
    <3> DEFINE v == [th[t] EXCEPT !.pc = "recent"]
               w == [th[t] EXCEPT !.pc = "recent", !.seq = seq]
    <3>1. th' = [th EXCEPT ![t] = w]
      BY <1>1, <2>3 DEF IngestSeq
    <3>2. th[t] \in ThreadOf(th[t]) /\ th[t].ts \in Past /\ th[t].s \in Sample
      BY <1>1, <1>2 DEF ThreadOK
    <3>3. /\ w.pc = "recent" /\ w.ts = th[t].ts /\ w.s = th[t].s /\ w.seq = seq
          /\ w \in [pc : {"idle", "bucket", "seq", "recent", "pending"}, ts : Stamps \cup {0},
                    s : Sample \cup {NoSample}, prev : Sample \cup {NoSample}, seq : {seq}]
      BY <3>2 DEF ThreadOf
    <3> HIDE DEF w
    <3>4. ThreadOK(w)
      BY <3>2, <3>3 DEF ThreadOK, ThreadOf
    <3>5. QED
      BY <3>1, <3>3, <3>4
  <2>4. QED
    BY <2>1, <2>2, <2>3
<1>4. PICK w : /\ th' = [th EXCEPT ![t] = w] /\ ThreadOK(w) /\ w.pc # "idle"
               /\ w.ts = th[t].ts /\ w.s = th[t].s
  BY <1>3
<1>5. ThreadsOK'
  BY <1>1, <1>2, <1>4, ThreadMoves
<1>6. th'[t] = w /\ \A u \in Threads : u # t => th'[u] = th[u]
  BY <1>1, <1>4
<1>7. QED
  BY <1>2, <1>4, <1>5, <1>6

\* A sample enters the ring.
LEMMA RingStep ==
    ASSUME StoreInv, NEW t \in Threads, NEW ts \in Stamps, NEW s \in Reports,
           IngestRing(t, ts, s)
    PROVE  /\ RingOK' /\ ThreadsOK' /\ UNCHANGED <<raw, pending, fl, now, restarts, faults>>
           /\ th[t].pc = "idle" /\ th'[t].pc = "bucket" /\ th'[t].ts = ts
           /\ ring'[ts] \in {NoSample, th'[t].s}
           /\ \A u \in Stamps : u # ts => ring'[u] \in {NoSample, ring[u]}
           /\ \A u \in Threads : u # t => th'[u] = th[u]
<1> DEFINE w == [pc |-> "bucket", ts |-> ts, s |-> Merged(ring, ts, s), prev |-> ring[ts], seq |-> 0]
<1>1. RingOK /\ ThreadsOK /\ s \in Sample
  BY ConstantFacts DEF StoreInv
<1>2. /\ ring' = Insert(ring, floor, ts, s).ring /\ floor' = Insert(ring, floor, ts, s).floor
      /\ th' = [th EXCEPT ![t] = w] /\ th[t].pc = "idle" /\ ts <= now
      /\ UNCHANGED <<raw, pending, fl, now, restarts, faults>>
      /\ ts > floor
  BY DEF IngestRing, Accepts
<1>3. /\ ring' \in Ring /\ floor' \in Nat /\ Above(ring', floor')
      /\ \A u \in Stamps : u # ts => ring'[u] \in {NoSample, ring[u]}
      /\ ring'[ts] \in {NoSample, Merged(ring, ts, s)}
  BY <1>1, <1>2, InsertAbove DEF RingOK
<1>4. Merged(ring, ts, s) \in Sample /\ ring[ts] \in Sample \cup {NoSample}
  BY <1>1, MergedType DEF RingOK, Ring
<1>5. /\ w.pc = "bucket" /\ w.ts = ts /\ w.s = Merged(ring, ts, s)
      /\ w \in [pc : {"idle", "bucket", "seq", "recent", "pending"}, ts : Stamps \cup {0},
                s : Sample \cup {NoSample}, prev : Sample \cup {NoSample}, seq : {w.seq}]
  BY <1>4
<1> HIDE DEF w
<1>6. ThreadOK(w)
  BY <1>2, <1>4, <1>5 DEF ThreadOK, ThreadOf, Past
<1>7. ThreadsOK'
  BY <1>1, <1>2, <1>6, ThreadMoves
<1>8. th'[t] = w /\ \A u \in Threads : u # t => th'[u] = th[u]
  BY <1>1, <1>2 DEF ThreadsOK
<1>9. RingOK'
  BY <1>1, <1>2, <1>3 DEF RingOK, Above, Stored
<1>10. QED
  BY <1>2, <1>3, <1>5, <1>7, <1>8, <1>9

\* The sample is queued for redb.
LEMMA PendingStep ==
    ASSUME StoreInv, NEW t \in Threads, IngestPending(t)
    PROVE  /\ ThreadsOK' /\ pending' \in Seq(PastEntry)
           /\ pending' = Append(pending, [ts |-> th[t].ts, s |-> th[t].s])
           /\ [ts |-> th[t].ts, s |-> th[t].s] \in PastEntry
           /\ UNCHANGED <<ring, floor, raw, fl, now, restarts, faults>>
           /\ th[t].pc # "idle" /\ th'[t].pc = "idle"
           /\ \A u \in Threads : u # t => th'[u] = th[u]
<1> DEFINE e == [ts |-> th[t].ts, s |-> th[t].s]
<1>1. ThreadsOK /\ ThreadOK(th[t]) /\ pending \in Seq(PastEntry)
  BY DEF StoreInv, ThreadsOK, QueuesOK
<1>2. /\ pending' = Append(pending, e) /\ th' = [th EXCEPT ![t] = IdleThread]
      /\ th[t].pc # "idle" /\ UNCHANGED <<ring, floor, raw, fl, now, restarts, faults>>
  BY DEF IngestPending
<1>3. e \in PastEntry
  BY <1>1, <1>2 DEF ThreadOK, PastEntry
<1> HIDE DEF e
<1>4. pending' \in Seq(PastEntry)
  BY <1>1, <1>2, <1>3
<1>5. ThreadsOK'
  BY <1>1, <1>2, ThreadRests, ThreadMoves
<1>6. th'[t] = IdleThread /\ \A u \in Threads : u # t => th'[u] = th[u]
  BY <1>1, <1>2 DEF ThreadsOK
<1>7. QED
  BY <1>2, <1>3, <1>4, <1>5, <1>6, ThreadRests DEF e

\* Retention of the ring.
LEMMA TickStep ==
    ASSUME StoreInv, FlushTick
    PROVE  /\ RingOK' /\ fl' \in FlushOf(fl') /\ fl'.raw = fl.raw
           /\ fl.pc = "idle" /\ fl'.pc = "agg"
           /\ UNCHANGED <<raw, pending, th, now, restarts, faults>>
           /\ \A u \in Stamps : ring'[u] \in {NoSample, ring[u]}
<1> DEFINE c == Cut(now, RawKeep)
<1>1. RingOK /\ fl \in FlushOf(fl) /\ c \in Nat
  BY ConstantFacts DEF StoreInv, RingOK, QueuesOK
<1>2. /\ ring' = PruneRing(ring, floor, c).ring /\ floor' = PruneRing(ring, floor, c).floor
      /\ fl' = [fl EXCEPT !.pc = "agg", !.now = now] /\ fl.pc = "idle"
      /\ UNCHANGED <<raw, pending, th, now, restarts, faults>>
  BY DEF FlushTick
<1> HIDE DEF c
<1>3. /\ ring' \in Ring /\ floor' \in Nat /\ Above(ring', floor')
      /\ \A u \in Stamps : ring'[u] \in {NoSample, ring[u]}
  BY <1>1, <1>2, PruneAbove DEF RingOK
<1>4. fl'.raw = fl.raw /\ fl'.pc = "agg" /\ fl'.dirty = fl.dirty /\ fl' \in FlushOf(fl)
  BY <1>1, <1>2 DEF FlushOf, RingOK
<1>5. fl' \in FlushOf(fl')
  BY <1>4 DEF FlushOf
<1>6. RingOK'
  BY <1>1, <1>2, <1>3 DEF RingOK, Above, Stored
<1>7. QED
  BY <1>2, <1>3, <1>4, <1>5, <1>6

\* The steps of the flush loop that move nothing of ring, rows and queues.
LEMMA FlushQuiet ==
    ASSUME StoreInv, PruneBuckets \/ PruneRecent \/ DrainDirty
    PROVE  /\ fl' \in FlushOf(fl') /\ fl'.raw = fl.raw
           /\ UNCHANGED <<ring, floor, raw, pending, th, now, restarts, faults>>
           /\ IF DrainDirty THEN fl.pc = "dirty" /\ fl'.pc = "write"
                            ELSE fl'.pc \in {"recent", "drain"} /\ fl.pc \in {"agg", "recent"}
<1>1. fl \in FlushOf(fl)
  BY DEF StoreInv, QueuesOK
<1>2. UNCHANGED <<ring, floor, raw, pending, th, now, restarts, faults>>
  BY DEF PruneBuckets, PruneRecent, DrainDirty
<1>3. CASE PruneBuckets \/ PruneRecent
  <2>1. PICK k \in {"recent", "drain"} : fl' = [fl EXCEPT !.pc = k]
    BY <1>3 DEF PruneBuckets, PruneRecent
  <2>2. fl'.raw = fl.raw /\ fl'.pc = k /\ fl'.dirty = fl.dirty /\ fl' \in FlushOf(fl)
    BY <1>1, <2>1 DEF FlushOf
  <2>3. fl' \in FlushOf(fl') /\ fl.pc \in {"agg", "recent"} /\ ~DrainDirty
    BY <1>3, <2>2 DEF FlushOf, PruneBuckets, PruneRecent, DrainDirty
  <2>4. QED
    BY <1>2, <2>2, <2>3
<1>4. CASE DrainDirty
  <2>1. fl' = [fl EXCEPT !.pc = "write", !.dirty = dirty] /\ fl.pc = "dirty"
    BY <1>4 DEF DrainDirty
  <2>2. /\ fl'.raw = fl.raw /\ fl'.pc = "write" /\ fl'.dirty = dirty
        /\ fl' \in [pc : {"idle", "agg", "recent", "drain", "dirty", "write"}, now : Nat,
                    raw : Seq(PastEntry), dirty : {dirty}]
    BY <1>1, <2>1 DEF FlushOf
  <2>3. fl' \in FlushOf(fl')
    BY <2>2 DEF FlushOf
  <2>4. QED
    BY <1>2, <1>4, <2>1, <2>2, <2>3
<1>5. QED
  BY <1>3, <1>4

\* The queue is drained.
LEMMA DrainStep ==
    ASSUME StoreInv, DrainPending
    PROVE  /\ fl' \in FlushOf(fl') /\ fl'.raw = pending /\ pending' = <<>>
           /\ fl.pc = "drain" /\ fl'.pc = "dirty"
           /\ UNCHANGED <<ring, floor, raw, th, now, restarts, faults>>
<1>1. fl \in FlushOf(fl) /\ pending \in Seq(PastEntry)
  BY DEF StoreInv, QueuesOK
<1>2. /\ fl' = [fl EXCEPT !.pc = "dirty", !.raw = pending] /\ pending' = <<>> /\ fl.pc = "drain"
      /\ UNCHANGED <<ring, floor, raw, th, now, restarts, faults>>
  BY DEF DrainPending
<1>3. fl'.raw = pending /\ fl'.pc = "dirty" /\ fl'.dirty = fl.dirty /\ fl' \in FlushOf(fl)
  BY <1>1, <1>2 DEF FlushOf
<1>4. fl' \in FlushOf(fl')
  BY <1>3 DEF FlushOf
<1>5. QED
  BY <1>2, <1>3, <1>4

LEMMA FlushRests == IdleFlush \in FlushOf(IdleFlush) /\ IdleFlush.raw = <<>> /\ IdleFlush.pc = "idle"
BY DEF FlushOf, IdleFlush

\* The rows are written, and what is past retention is removed.
LEMMA CommitStep ==
    ASSUME StoreInv, Commit
    PROVE  /\ RowsOK' /\ fl' = IdleFlush /\ fl.pc = "write"
           /\ UNCHANGED <<ring, floor, pending, th, now, restarts, faults>>
           /\ \A t \in Stamps : ~(t < Cut(now, RawKeep)) => raw'[t] = Written(raw, fl.raw)[t]
<1> DEFINE W == Written(raw, fl.raw)
           c == Cut(now, RawKeep)
<1>1. /\ raw \in Ring /\ fl.raw \in Seq([ts : Past, s : Sample]) /\ Past \in SUBSET Stamps
      /\ \A t \in Stored(raw) : t <= now
  BY DEF StoreInv, RowsOK, QueuesOK, FlushOf, PastEntry, Past
<1>2. W \in Ring /\ \A t \in Stored(W) : t \in Stored(raw) \/ t \in Past
  BY <1>1, WrittenRows
<1>3. /\ raw' = [t \in Stamps |-> IF t < c THEN NoSample ELSE W[t]]
      /\ fl' = IdleFlush /\ fl.pc = "write"
      /\ UNCHANGED <<ring, floor, pending, th, now, restarts, faults>>
  BY DEF Commit
<1> HIDE DEF W, c
<1>4. raw' \in Ring /\ \A t \in Stored(raw') : t \in Stored(W)
  BY <1>2, <1>3 DEF Ring, Stored
<1>5. RowsOK'
  BY <1>1, <1>2, <1>3, <1>4 DEF RowsOK, Past, Stored
<1>6. QED
  BY <1>3, <1>5 DEF W, c

\* The transaction fails: the queue is taken up again, or dropped.
LEMMA FailStep ==
    ASSUME StoreInv, BeginFails \/ CommitFails
    PROVE  /\ pending' \in Seq(PastEntry) /\ fl' = IdleFlush /\ faults' = faults + 1
           /\ UNCHANGED <<ring, floor, raw, th, now, restarts>>
<1>1. pending \in Seq(PastEntry) /\ fl.raw \in Seq(PastEntry)
  BY DEF StoreInv, QueuesOK, FlushOf
<1>2. ASSUME NEW X, NEW p \in Seq(X), NEW q \in Seq(X) PROVE p \o q \in Seq(X)
  OBVIOUS
<1>3. pending \o fl.raw \in Seq(PastEntry)
  BY <1>1, <1>2
<1>4. QED
  BY <1>1, <1>3 DEF BeginFails, CommitFails

\* A crash and the reload: the ring is what it keeps of the rows.
LEMMA RestartStep ==
    ASSUME StoreInv, Restart
    PROVE  /\ RingOK' /\ ThreadsOK' /\ pending' = <<>> /\ fl' = IdleFlush
           /\ UNCHANGED <<raw, now, faults>>
           /\ \A t \in Threads : th'[t].pc = "idle"
           /\ \A t \in Stamps : ring'[t] \in {NoSample, raw[t]}
<1> DEFINE c == Cut(now, RawKeep)
<1>1. /\ raw \in Ring /\ now \in Nat /\ \A t \in Stored(raw) : t <= now
  BY DEF StoreInv, RowsOK, RingOK
<1>2. /\ ring' = [t \in Stamps |-> IF t \in Kept THEN raw[t] ELSE NoSample]
      /\ floor' = Max({0} \cup (Rows \ Kept))
      /\ th' = [t \in Threads |-> IdleThread] /\ fl' = IdleFlush /\ pending' = <<>>
      /\ UNCHANGED <<raw, now, faults>>
  BY DEF Restart
<1>3. /\ Rows \in SUBSET (Nat \ {0}) /\ \A x \in Rows : x <= now
  BY <1>1, SamplesAssumption DEF Rows, Stored
<1>4. Kept = {t \in Rows : Cardinality({u \in Rows : u > t}) < RingCap}
  BY DEF Kept
<1>5. floor' \in Nat /\ \A t \in Kept : t > floor'
  BY <1>1, <1>2, <1>3, <1>4, KeptAbove
<1>6. ring' \in Ring /\ Stored(ring') \subseteq Kept /\ \A t \in Stamps : ring'[t] \in {NoSample, raw[t]}
  BY <1>1, <1>2 DEF Ring, Stored
<1>7. RingOK'
  BY <1>1, <1>2, <1>5, <1>6 DEF RingOK, Above, Stored
<1>8. \A t \in Threads : th'[t] = IdleThread
  BY <1>2
<1>9. Past' = Past
  BY <1>2 DEF Past
<1>10. ThreadsOK'
  <2>1. ASSUME NEW t \in Threads PROVE ThreadOK(th[t])'
    BY <1>8, <1>9, ThreadRests DEF ThreadOK, ThreadOf
  <2>2. th' = [t \in Threads |-> th'[t]]
    BY <1>2
  <2>3. QED
    BY <2>1, <2>2 DEF ThreadsOK
<1>11. QED
  BY <1>2, <1>6, <1>7, <1>8, <1>10, ThreadRests

\* Time passes: what had begun has still begun.
LEMMA ElapseStep ==
    ASSUME StoreInv, Elapse
    PROVE  /\ StoreInv' /\ now' = now + 1
           /\ UNCHANGED <<ring, floor, raw, pending, fl, th, restarts, faults>>
<1>1. /\ now' = now + 1 /\ now \in Nat
      /\ UNCHANGED <<ring, floor, raw, pending, fl, th, restarts, faults>>
  BY DEF StoreInv, RingOK, Elapse
<1>2. Past \subseteq Past'
  <2>1. ASSUME NEW t \in Stamps, t <= now PROVE t <= now'
    <3>1. t \in Nat
      BY SamplesAssumption
    <3>2. QED
      BY <1>1, <2>1, <3>1
  <2>2. QED
    BY <2>1 DEF Past
<1>3. PastEntry \subseteq PastEntry'
  BY <1>2 DEF PastEntry
<1>4. Seq(PastEntry) \subseteq Seq(PastEntry')
  <2>1. ASSUME NEW X, NEW Y, X \subseteq Y PROVE Seq(X) \subseteq Seq(Y)
    BY <2>1
  <2>2. QED
    BY <1>3, <2>1
<1>5. RingOK'
  BY <1>1 DEF StoreInv, RingOK, Above, Stored
<1>6. RowsOK'
  <2>1. raw' \in Ring /\ Stored(raw)' = Stored(raw)
    BY <1>1 DEF StoreInv, RowsOK, Stored
  <2>2. ASSUME NEW t \in Stored(raw) PROVE t <= now'
    <3>1. t \in Nat /\ t <= now
      BY SamplesAssumption DEF StoreInv, RowsOK, Stored
    <3>2. QED
      BY <1>1, <3>1
  <2>3. QED
    BY <2>1, <2>2 DEF RowsOK
<1>7. QueuesOK'
  <2>1. pending \in Seq(PastEntry) /\ fl \in FlushOf(fl)
    BY DEF StoreInv, QueuesOK
  <2>2. fl \in [pc : {"idle", "agg", "recent", "drain", "dirty", "write"}, now : Nat,
                raw : Seq(PastEntry'), dirty : {fl.dirty}]
    BY <1>4, <2>1 DEF FlushOf
  <2>3. QED
    BY <1>1, <1>4, <2>1, <2>2 DEF QueuesOK, FlushOf
<1>8. ThreadsOK'
  BY <1>1, <1>2 DEF StoreInv, ThreadsOK, ThreadOK, ThreadOf
<1>9. QED
  BY <1>1, <1>5, <1>6, <1>7, <1>8 DEF StoreInv

\* With the clock at rest, an unchanged part of the invariant still holds.
LEMMA StoreFrame ==
    ASSUME StoreInv, now' = now
    PROVE  /\ ring' = ring /\ floor' = floor => RingOK'
           /\ raw' = raw => RowsOK'
           /\ pending' \in Seq(PastEntry) /\ fl' \in FlushOf(fl') => QueuesOK'
           /\ th' = th => ThreadsOK'
           /\ <<>> \in Seq(PastEntry) /\ pending \in Seq(PastEntry) /\ fl \in FlushOf(fl)
<1>1. Past' = Past /\ PastEntry' = PastEntry
  BY DEF Past, PastEntry
<1>2. ring' = ring /\ floor' = floor => RingOK'
  BY DEF StoreInv, RingOK, Above, Stored
<1>3. raw' = raw => RowsOK'
  BY DEF StoreInv, RowsOK, Stored
<1>4. pending' \in Seq(PastEntry) /\ fl' \in FlushOf(fl') => QueuesOK'
  BY <1>1 DEF QueuesOK, FlushOf
<1>5. th' = th => ThreadsOK'
  BY <1>1 DEF StoreInv, ThreadsOK, ThreadOK, ThreadOf
<1>6. <<>> \in Seq(PastEntry) /\ pending \in Seq(PastEntry) /\ fl \in FlushOf(fl)
  BY DEF StoreInv, QueuesOK
<1>7. QED
  BY <1>2, <1>3, <1>4, <1>5, <1>6

LEMMA StoreInit == Init => StoreInv
<1> SUFFICES ASSUME Init PROVE StoreInv
  OBVIOUS
<1>1. EmptyRing \in Ring /\ Stored(EmptyRing) = {}
  BY DEF EmptyRing, Ring, Stored
<1>2. RingOK /\ RowsOK
  BY <1>1 DEF Init, RingOK, RowsOK, Above
<1>3. QueuesOK
  BY FlushRests DEF Init, QueuesOK
<1>4. ThreadsOK
  BY ThreadRests DEF Init, ThreadsOK
<1>5. QED
  BY <1>2, <1>3, <1>4 DEF StoreInv

LEMMA StoreStep == StoreInv /\ [Next]_vars => StoreInv'
<1> SUFFICES ASSUME StoreInv, [Next]_vars PROVE StoreInv'
  OBVIOUS
<1>1. CASE \E t \in Threads : \E ts \in Stamps, s \in Reports : IngestRing(t, ts, s)
  BY <1>1, RingStep, StoreFrame DEF StoreInv
<1>2. CASE \E t \in Threads : IngestBucket(t) \/ IngestSeq(t) \/ IngestRecent(t)
  BY <1>2, ThreadSteps, StoreFrame DEF StoreInv
<1>3. CASE \E t \in Threads : IngestPending(t)
  BY <1>3, PendingStep, StoreFrame DEF StoreInv
<1>4. CASE FlushTick
  BY <1>4, TickStep, StoreFrame DEF StoreInv
<1>5. CASE PruneBuckets \/ PruneRecent \/ DrainDirty
  BY <1>5, FlushQuiet, StoreFrame DEF StoreInv
<1>6. CASE DrainPending
  BY <1>6, DrainStep, StoreFrame DEF StoreInv
<1>7. CASE Commit
  BY <1>7, CommitStep, FlushRests, StoreFrame DEF StoreInv
<1>8. CASE BeginFails \/ CommitFails
  BY <1>8, FailStep, FlushRests, StoreFrame DEF StoreInv
<1>9. CASE Restart
  BY <1>9, RestartStep, FlushRests, StoreFrame DEF StoreInv
<1>10. CASE Elapse
  BY <1>10, ElapseStep
<1>11. CASE UNCHANGED vars
  BY <1>11, StoreFrame DEF StoreInv, vars
<1>12. QED
  BY <1>1, <1>2, <1>3, <1>4, <1>5, <1>6, <1>7, <1>8, <1>9, <1>10, <1>11
     DEF Next, IngestStep, FlushStep

\* What eviction or retention dropped since the store started does not come back,
\* for every capacity, retention and number of ingesting tasks, and with failed
\* transactions: everything in the ring is above the floor at or below which
\* ingest refuses (LinkRing::insert, prune and load of tsdb.rs).  A crash forgets
\* the floor; after the reload the ring is above the new one.
THEOREM FloorHolds == Spec => []AboveFloor
<1>1. StoreInv => AboveFloor
  BY DEF StoreInv, RingOK, Above, AboveFloor
<1>2. QED
  BY <1>1, StoreInit, StoreStep, PTL DEF Spec

-----------------------------------------------------------------------------
(* Nothing is lost on the way to redb, with one ingesting task.            *)

\* A second that has queued versions only where its row says the same.
LEMMA WrittenAgree ==
    ASSUME NEW r, NEW z, NEW q, NEW t \in Stamps, r[t] = z[t]
    PROVE  Written(r, q)[t] = Written(z, q)[t]
BY DEF Written

\* While the flush has nothing in hand its batch is empty.
BatchOK == fl.pc \notin {"dirty", "write"} => fl.raw = <<>>

\* What a thread put into the ring is still there, or was dropped.
CarriedOK == \A u \in Threads : th[u].pc # "idle" => ring[th[u].ts] \in {NoSample, th[u].s}

Carried(t) == \E u \in Threads : th[u].pc # "idle" /\ th[u].ts = t

\* A sample within retention is queued or written as the ring has it, or a
\* thread is about to queue it.
LosslessOK ==
    \A t \in Stamps : ring[t] # NoSample /\ t >= Cut(now, RawKeep) =>
        Carried(t) \/ Queued[t] = ring[t]

LossInv == faults \in Nat /\ BatchOK /\ (faults = 0 => CarriedOK /\ LosslessOK)

LEMMA QueuedIdle ==
    ASSUME StoreInv, fl.raw = <<>>
    PROVE  Queued = Written(raw, pending)
BY WrittenNothing DEF Queued, StoreInv, RowsOK

LEMMA LossRing ==
    ASSUME StoreInv, LossInv, \A u, w \in Threads : u = w, NEW t \in Threads,
           NEW ts \in Stamps, NEW s \in Reports, IngestRing(t, ts, s)
    PROVE  LossInv'
<1>1. /\ UNCHANGED <<raw, pending, fl, now, restarts, faults>>
      /\ th[t].pc = "idle" /\ th'[t].pc = "bucket" /\ th'[t].ts = ts
      /\ ring'[ts] \in {NoSample, th'[t].s}
      /\ \A u \in Stamps : u # ts => ring'[u] \in {NoSample, ring[u]}
  BY RingStep
<1>2. faults' \in Nat /\ BatchOK'
  BY <1>1 DEF LossInv, BatchOK
<1>3. CarriedOK'
  BY <1>1 DEF CarriedOK
<1>4. \A x \in Stamps : ~Carried(x)
  BY <1>1 DEF Carried
<1>5. Queued' = Queued
  BY <1>1 DEF Queued, Written
<1>6. ASSUME faults = 0 PROVE LosslessOK'
  <2>1. SUFFICES ASSUME NEW x \in Stamps, ring'[x] # NoSample, x >= Cut(now, RawKeep)
                 PROVE  Carried(x)' \/ Queued[x] = ring'[x]
    BY <1>1, <1>5 DEF LosslessOK
  <2>2. CASE x = ts
    BY <1>1, <2>2 DEF Carried
  <2>3. CASE x # ts
    BY <1>1, <1>4, <1>6, <2>1, <2>3 DEF LossInv, LosslessOK
  <2>4. QED
    BY <2>2, <2>3
<1>7. QED
  BY <1>1, <1>2, <1>3, <1>6 DEF LossInv

LEMMA LossThread ==
    ASSUME StoreInv, LossInv, NEW t \in Threads,
           IngestBucket(t) \/ IngestSeq(t) \/ IngestRecent(t)
    PROVE  LossInv'
<1>1. /\ UNCHANGED <<ring, floor, raw, pending, fl, now, restarts, faults>>
      /\ th[t].pc # "idle" /\ th'[t].pc # "idle"
      /\ th'[t].ts = th[t].ts /\ th'[t].s = th[t].s
      /\ \A u \in Threads : u # t => th'[u] = th[u]
  BY ThreadSteps
<1>2. \A u \in Threads : /\ th'[u].pc # "idle" <=> th[u].pc # "idle"
                         /\ th'[u].ts = th[u].ts /\ th'[u].s = th[u].s
  BY <1>1
<1>3. \A x \in Stamps : Carried(x) => Carried(x)'
  BY <1>2 DEF Carried
<1>4. Queued' = Queued
  BY <1>1 DEF Queued, Written
<1>5. faults' \in Nat /\ BatchOK'
  BY <1>1 DEF LossInv, BatchOK
<1>6. CarriedOK => CarriedOK'
  BY <1>1, <1>2 DEF CarriedOK
<1>7. LosslessOK => LosslessOK'
  BY <1>1, <1>3, <1>4 DEF LosslessOK
<1>8. QED
  BY <1>1, <1>5, <1>6, <1>7 DEF LossInv

LEMMA LossPending ==
    ASSUME StoreInv, LossInv, \A u, w \in Threads : u = w, NEW t \in Threads, IngestPending(t)
    PROVE  LossInv'
<1> DEFINE e == [ts |-> th[t].ts, s |-> th[t].s]
           R == Written(raw, fl.raw)
<1>1. /\ pending' = Append(pending, e) /\ e \in PastEntry
      /\ UNCHANGED <<ring, floor, raw, fl, now, restarts, faults>>
      /\ th[t].pc # "idle" /\ th'[t].pc = "idle"
  BY PendingStep
<1>2. faults' \in Nat /\ BatchOK'
  BY <1>1 DEF LossInv, BatchOK
<1>3. CarriedOK'
  BY <1>1 DEF CarriedOK
<1>4. pending \in Seq(PastEntry) /\ e.ts = th[t].ts /\ e.s = th[t].s
  BY DEF StoreInv, QueuesOK
<1>5. R' = R
  BY <1>1 DEF Written
<1> HIDE DEF e
<1>6. Queued' = Written(R, Append(pending, e)) /\ Queued = Written(R, pending)
  BY <1>1, <1>5 DEF Queued, Written
<1> HIDE DEF R
<1>7. \A x \in Stamps : Queued'[x] = IF x = e.ts THEN e.s ELSE Queued[x]
  BY <1>1, <1>4, <1>6, WrittenLast
<1>8. ASSUME faults = 0 PROVE LosslessOK'
  <2>1. SUFFICES ASSUME NEW x \in Stamps, ring[x] # NoSample, x >= Cut(now, RawKeep)
                 PROVE  Queued'[x] = ring[x]
    BY <1>1 DEF LosslessOK
  <2>2. CASE x = e.ts
    BY <1>1, <1>4, <1>7, <1>8, <2>1, <2>2 DEF LossInv, CarriedOK
  <2>3. CASE x # e.ts
    <3>1. ~Carried(x)
      BY <1>4, <2>3 DEF Carried
    <3>2. QED
      BY <1>7, <1>8, <2>1, <2>3, <3>1 DEF LossInv, LosslessOK
  <2>4. QED
    BY <2>2, <2>3
<1>9. QED
  BY <1>1, <1>2, <1>3, <1>8 DEF LossInv

\* The ring only loses samples, and what the queues hold stays.
LEMMA LossKeeps ==
    ASSUME LossInv, BatchOK', UNCHANGED <<th, now, faults>>,
           \A x \in Stamps : ring'[x] \in {NoSample, ring[x]},
           \A x \in Stamps : x >= Cut(now, RawKeep) => Queued'[x] = Queued[x],
           \A u \in Threads : th[u].pc # "idle" => th[u].ts \in Stamps
    PROVE  LossInv'
<1>1. CarriedOK => CarriedOK'
  BY DEF CarriedOK
<1>2. \A x \in Stamps : Carried(x) => Carried(x)'
  BY DEF Carried
<1>3. LosslessOK => LosslessOK'
  BY <1>2 DEF LosslessOK
<1>4. QED
  BY <1>1, <1>3 DEF LossInv

LEMMA LossFlush ==
    ASSUME StoreInv, LossInv,
           FlushTick \/ PruneBuckets \/ PruneRecent \/ DrainDirty \/ DrainPending \/ Commit
    PROVE  LossInv'
<1>1. \A u \in Threads : th[u].pc # "idle" => th[u].ts \in Stamps
  BY DEF StoreInv, ThreadsOK, ThreadOK, Past
<1>2. CASE FlushTick
  <2>1. /\ fl'.raw = fl.raw /\ fl.pc = "idle" /\ fl'.pc = "agg"
        /\ UNCHANGED <<raw, pending, th, now, restarts, faults>>
        /\ \A u \in Stamps : ring'[u] \in {NoSample, ring[u]}
    BY <1>2, TickStep
  <2>2. BatchOK' /\ Queued' = Queued
    BY <2>1 DEF LossInv, BatchOK, Queued, Written
  <2>3. QED
    BY <1>1, <2>1, <2>2, LossKeeps
<1>3. CASE PruneBuckets \/ PruneRecent \/ DrainDirty
  <2>1. /\ fl'.raw = fl.raw
        /\ UNCHANGED <<ring, floor, raw, pending, th, now, restarts, faults>>
        /\ IF DrainDirty THEN fl.pc = "dirty" /\ fl'.pc = "write"
                         ELSE fl'.pc \in {"recent", "drain"} /\ fl.pc \in {"agg", "recent"}
    BY <1>3, FlushQuiet
  <2>2. BatchOK' /\ Queued' = Queued
    BY <2>1 DEF LossInv, BatchOK, Queued, Written
  <2>3. QED
    BY <1>1, <2>1, <2>2, LossKeeps
<1>4. CASE DrainPending
  <2>1. /\ fl'.raw = pending /\ pending' = <<>> /\ fl.pc = "drain" /\ fl'.pc = "dirty"
        /\ UNCHANGED <<ring, floor, raw, th, now, restarts, faults>>
    BY <1>4, DrainStep
  <2>2. BatchOK' /\ fl.raw = <<>>
    BY <2>1 DEF LossInv, BatchOK
  <2>3. raw \in Ring /\ pending \in Seq([ts : Past, s : Sample]) /\ Past \in SUBSET Stamps
    BY DEF StoreInv, RowsOK, QueuesOK, PastEntry, Past
  <2>4. Written(raw, pending) \in Ring
    BY <2>3, WrittenRows
  <2>5. Queued' = Written(Written(raw, pending), <<>>)
    BY <2>1 DEF Queued, Written
  <2>6. Queued' = Queued
    BY <2>2, <2>4, <2>5, WrittenNothing, QueuedIdle
  <2>7. QED
    BY <1>1, <2>1, <2>2, <2>6, LossKeeps
<1>5. CASE Commit
  <2> DEFINE R == Written(raw, fl.raw)
  <2>1. /\ RowsOK' /\ fl' = IdleFlush /\ fl.pc = "write"
        /\ UNCHANGED <<ring, floor, pending, th, now, restarts, faults>>
        /\ \A t \in Stamps : ~(t < Cut(now, RawKeep)) => raw'[t] = R[t]
    BY <1>5, CommitStep
  <2>2. BatchOK' /\ fl'.raw = <<>>
    BY <2>1, FlushRests DEF BatchOK
  <2>3. \E z : z = raw' /\ z \in Ring
    BY <2>1 DEF RowsOK
  <2>4. PICK z : z = raw' /\ z \in Ring
    BY <2>3
  <2>5. Queued' = Written(Written(z, <<>>), pending) /\ Queued = Written(R, pending)
    BY <2>1, <2>2, <2>4 DEF Queued, Written
  <2>6. Queued' = Written(z, pending)
    BY <2>4, <2>5, WrittenNothing
  <2> HIDE DEF R
  <2>7. ASSUME NEW x \in Stamps, x >= Cut(now, RawKeep) PROVE Queued'[x] = Queued[x]
    <3>1. x \in Nat /\ Cut(now, RawKeep) \in Nat
      BY SamplesAssumption, ConstantFacts DEF StoreInv, RingOK
    <3>2. ~(x < Cut(now, RawKeep))
      BY <2>7, <3>1
    <3>3. z[x] = R[x]
      BY <2>1, <2>4, <3>2
    <3>4. Written(z, pending)[x] = Written(R, pending)[x]
      BY <3>3, WrittenAgree
    <3>5. QED
      BY <2>5, <2>6, <3>4
  <2>8. QED
    BY <1>1, <2>1, <2>2, <2>7, LossKeeps
<1>6. QED
  BY <1>2, <1>3, <1>4, <1>5

LEMMA LossRestart ==
    ASSUME StoreInv, LossInv, Restart
    PROVE  LossInv'
<1>1. /\ pending' = <<>> /\ fl' = IdleFlush /\ UNCHANGED <<raw, now, faults>>
      /\ \A t \in Threads : th'[t].pc = "idle"
      /\ \A t \in Stamps : ring'[t] \in {NoSample, raw[t]}
  BY RestartStep
<1>2. BatchOK' /\ fl'.raw = <<>> /\ raw \in Ring
  BY <1>1, FlushRests DEF BatchOK, StoreInv, RowsOK
<1>3. Queued' = Written(Written(raw, <<>>), <<>>)
  BY <1>1, <1>2 DEF Queued, Written
<1>4. Queued' = raw
  BY <1>2, <1>3, WrittenNothing
<1>5. CarriedOK' /\ LosslessOK'
  BY <1>1, <1>4 DEF CarriedOK, LosslessOK
<1>6. QED
  BY <1>1, <1>2, <1>5 DEF LossInv

LEMMA LossElapse ==
    ASSUME StoreInv, LossInv, Elapse
    PROVE  LossInv'
<1>1. /\ now' = now + 1 /\ now \in Nat
      /\ UNCHANGED <<ring, floor, raw, pending, fl, th, restarts, faults>>
  BY ElapseStep DEF StoreInv, RingOK
<1>2. ASSUME NEW t \in Stamps, t >= Cut(now', RawKeep) PROVE t >= Cut(now, RawKeep)
  <2>1. t \in Nat /\ RawKeep \in Nat
    BY SamplesAssumption, ConstantFacts
  <2>2. QED
    BY <1>1, <1>2, <2>1 DEF Cut
<1>3. BatchOK' /\ Queued' = Queued /\ (CarriedOK => CarriedOK')
  BY <1>1 DEF LossInv, BatchOK, Queued, Written, CarriedOK
<1>4. \A x \in Stamps : Carried(x) => Carried(x)'
  BY <1>1 DEF Carried
<1>5. LosslessOK => LosslessOK'
  <2>1. SUFFICES ASSUME LosslessOK, NEW x \in Stamps, ring[x] # NoSample, x >= Cut(now', RawKeep)
                 PROVE  Carried(x)' \/ Queued[x] = ring[x]
    BY <1>1, <1>3 DEF LosslessOK
  <2>2. x >= Cut(now, RawKeep)
    BY <1>2, <2>1
  <2>3. QED
    BY <1>4, <2>1, <2>2 DEF LosslessOK
<1>6. QED
  BY <1>1, <1>3, <1>5 DEF LossInv

LEMMA LossInit == Init => LossInv
<1> SUFFICES ASSUME Init PROVE LossInv
  OBVIOUS
<1>1. BatchOK
  BY FlushRests DEF Init, BatchOK
<1>2. CarriedOK /\ LosslessOK
  BY ThreadRests DEF Init, CarriedOK, LosslessOK, EmptyRing
<1>3. QED
  BY <1>1, <1>2 DEF Init, LossInv

LEMMA LossStep ==
    ASSUME \A u, w \in Threads : u = w, StoreInv, LossInv, [Next]_vars
    PROVE  LossInv'
<1>1. CASE \E t \in Threads : \E ts \in Stamps, s \in Reports : IngestRing(t, ts, s)
  BY <1>1, LossRing
<1>2. CASE \E t \in Threads : IngestBucket(t) \/ IngestSeq(t) \/ IngestRecent(t)
  BY <1>2, LossThread
<1>3. CASE \E t \in Threads : IngestPending(t)
  BY <1>3, LossPending
<1>4. CASE FlushTick \/ PruneBuckets \/ PruneRecent \/ DrainDirty \/ DrainPending \/ Commit
  BY <1>4, LossFlush
<1>5. CASE BeginFails \/ CommitFails
  <2>1. faults' = faults + 1 /\ faults \in Nat /\ fl' = IdleFlush
    BY <1>5, FailStep DEF LossInv
  <2>2. BatchOK'
    BY <2>1, FlushRests DEF BatchOK
  <2>3. faults' \in Nat /\ faults' # 0
    BY <2>1
  <2>4. QED
    BY <2>2, <2>3 DEF LossInv
<1>6. CASE Restart
  BY <1>6, LossRestart
<1>7. CASE Elapse
  BY <1>7, LossElapse
<1>8. CASE UNCHANGED vars
  <2>1. UNCHANGED <<ring, raw, pending, fl, th, now, faults>>
    BY <1>8 DEF vars
  <2>2. Queued' = Queued
    BY <2>1 DEF Queued, Written
  <2>3. BatchOK' /\ \A u \in Threads : th[u].pc # "idle" => th[u].ts \in Stamps
    BY <2>1 DEF LossInv, BatchOK, StoreInv, ThreadsOK, ThreadOK, Past
  <2>4. QED
    BY <2>1, <2>2, <2>3, LossKeeps
<1>9. QED
  BY <1>1, <1>2, <1>3, <1>4, <1>5, <1>6, <1>7, <1>8 DEF Next, IngestStep, FlushStep

\* With one ingesting task at a time, every sample the ring holds within
\* retention is on disk, in the batch of the flush or in its queue in the
\* version the ring has, whatever the interleaving of ingest, retention,
\* flush, crash and reload, as long as no transaction failed (ingest, flush
\* and load of tsdb.rs).  Two tasks may queue two versions of one second in
\* the opposite order.
THEOREM OneWriterLosesNothing ==
    ASSUME \A u, w \in Threads : u = w
    PROVE  Spec => []NothingLost
<1>1. ASSUME LossInv PROVE NothingLost
  BY <1>1 DEF LossInv, LosslessOK, Carried, NothingLost, Stored
<1>2. StoreInv /\ LossInv /\ [Next]_vars => StoreInv' /\ LossInv'
  BY StoreStep, LossStep
<1>3. Init => StoreInv /\ LossInv
  BY StoreInit, LossInit
<1>4. QED
  BY <1>1, <1>2, <1>3, PTL DEF Spec

-----------------------------------------------------------------------------
(* The types of what is aggregated and of the delta queue.                 *)

Slots == Bucket \cup {NoBucket}

SeenSet == [dims : [Stamps -> SUBSET Dims], probes : [Buckets -> Nat]]

DeltaEntry == [seq : Nat, ts : Stamps, s : Sample]

\* The rest of the type: buckets, sequence numbers, the delta queue, the
\* bounds and the history.
AggregatesOK ==
    /\ buckets \in [Buckets -> Slots] /\ dirty \in [Buckets -> Slots]
    /\ agg \in [Buckets -> Slots] /\ fl.dirty \in [Buckets -> Slots]

NumbersOK ==
    /\ seq \in Nat /\ \A t \in Threads : th[t].seq \in Nat
    /\ now \in 0..MaxNow /\ restarts \in 0..MaxRestarts /\ faults \in 0..MaxFaults

DeltasOK == recent \in Seq(DeltaEntry)

SeenOK == seen \in SeenSet

RestInv == AggregatesOK /\ NumbersOK /\ DeltasOK /\ SeenOK

LEMMA CountType ==
    ASSUME NEW b \in Bucket, NEW ds, NEW p
    PROVE  Count(b, ds, p) \in Bucket
<1>1. b.n \in Nat /\ \A d \in Counted : b.dims[d] \in Nat
  BY DEF Bucket
<1>2. b.n + (IF p THEN 1 ELSE 0) \in Nat
  BY <1>1
<1>3. \A d \in Counted : b.dims[d] + (IF d \in ds THEN 1 ELSE 0) \in Nat
  BY <1>1
<1>4. QED
  BY <1>2, <1>3 DEF Count, Bucket

LEMMA AggregateType ==
    ASSUME NEW b \in Slots, NEW s, NEW p
    PROVE  Aggregate(b, s, p) \in Bucket
<1>1. ZeroBucket \in Bucket
  BY DEF ZeroBucket, Bucket
<1>2. \A c \in Bucket : \A x, y : Count(c, x, y) \in Bucket
  BY CountType
<1>3. b # NoBucket => b \in Bucket
  BY DEF Slots
<1>4. BucketAdd(b, s) \in Bucket
  BY <1>1, <1>2, <1>3, Zenon DEF BucketAdd
<1>5. b # NoBucket => BucketMerge(b, s, p) \in Bucket
  BY <1>2, <1>3, Zenon DEF BucketMerge
<1>6. QED
  BY <1>4, <1>5 DEF Aggregate

\* The rows of the table are of seconds that have begun: finitely many.
LEMMA RowsFinite ==
    ASSUME StoreInv
    PROVE  Rows \in SUBSET Nat /\ Rows \subseteq Stamps /\ IsFiniteSet(Rows)
           /\ \A t \in Rows : raw[t] \in Sample
<1>1. now \in Nat /\ Rows \in SUBSET Nat /\ Rows \subseteq Stamps /\ \A t \in Rows : t <= now
  BY SamplesAssumption DEF StoreInv, RowsOK, RingOK, Rows, Stored
<1>2. \A t \in Rows : raw[t] \in Sample
  BY DEF StoreInv, RowsOK, Rows, Stored, Ring
<1>3. IsFiniteSet(Rows)
  BY <1>1, FS_BoundedSetOfNaturals
<1>4. QED
  BY <1>1, <1>2, <1>3

LEMMA FromRowsType ==
    ASSUME StoreInv, NEW b
    PROVE  FromRows(b) \in Slots
<1> DEFINE in == {t \in Rows : BucketOf(t) = b}
           ps == {t \in in : IsProbe(raw[t])}
           Of(d) == {t \in in : d \in Measured(raw[t])}
<1>1. \A S \in SUBSET Rows : Cardinality(S) \in Nat
  BY RowsFinite, FS_Subset, FS_CardinalityType
<1>2. ps \in SUBSET Rows /\ \A d : Of(d) \in SUBSET Rows
  OBVIOUS
<1>3. FromRows(b) = IF in = {} THEN NoBucket
                    ELSE [n |-> Cardinality(ps), dims |-> [d \in Counted |-> Cardinality(Of(d))]]
  BY DEF FromRows
<1> HIDE DEF ps, Of, in
<1>4. Cardinality(ps) \in Nat /\ \A d : Cardinality(Of(d)) \in Nat
  BY <1>1, <1>2
<1>5. QED
  BY <1>3, <1>4 DEF Slots, Bucket

\* Every rank below its size is the rank of an element of a finite set of numbers.
LEMMA RankTaken ==
    ASSUME NEW R \in SUBSET Nat, IsFiniteSet(R), NEW k \in 0..(Cardinality(R) - 1)
    PROVE  \E t \in R : Cardinality({u \in R : u < t}) = k
<1> DEFINE n == Cardinality(R)
           Below(t) == {u \in R : u < t}
           f == [t \in R |-> Cardinality(Below(t))]
           I == 0..(n - 1)
<1>1. n \in Nat
  BY FS_CardinalityType
<1>2. \A S \in SUBSET R : IsFiniteSet(S) /\ Cardinality(S) \in Nat /\ Cardinality(S) <= n
                          /\ (n = Cardinality(S) => R = S)
  BY FS_Subset, FS_CardinalityType
<1>3. \A t \in R : Below(t) \in SUBSET R /\ t \notin Below(t)
  OBVIOUS
<1>4. ASSUME NEW t \in R PROVE Cardinality(Below(t)) \in I
  <2>1. Below(t) # R
    BY <1>3
  <2> HIDE DEF Below
  <2>2. QED
    BY <1>1, <1>2, <1>3, <2>1
<1>5. ASSUME NEW t \in R, NEW u \in R, u < t PROVE Cardinality(Below(u)) < Cardinality(Below(t))
  <2>0. ~(u < u) /\ \A x \in R : x < u => x < t
    BY <1>5
  <2>1. Below(u) \subseteq Below(t) /\ u \in Below(t) /\ u \notin Below(u)
    BY <1>5, <2>0, Zenon
  <2> HIDE DEF Below
  <2>2. /\ IsFiniteSet(Below(t)) /\ Cardinality(Below(u)) \in Nat /\ Cardinality(Below(t)) \in Nat
    BY <1>2, <1>3
  <2>3. /\ Cardinality(Below(u)) <= Cardinality(Below(t))
        /\ Cardinality(Below(t)) = Cardinality(Below(u)) => Below(t) = Below(u)
    BY <2>1, <2>2, FS_Subset
  <2>4. QED
    BY <2>1, <2>2, <2>3
<1> HIDE DEF Below
<1>6. f \in [R -> I]
  BY <1>4
<1>7. \A t, u \in R : f[t] = f[u] => t = u
  <2>1. SUFFICES ASSUME NEW t \in R, NEW u \in R, t # u PROVE f[t] # f[u]
    OBVIOUS
  <2>2. t \in Nat /\ u \in Nat /\ f[t] \in Nat /\ f[u] \in Nat
    BY <1>4
  <2>3. t < u \/ u < t
    BY <2>1, <2>2
  <2>4. QED
    BY <1>5, <2>2, <2>3
<1> HIDE DEF f
<1>8. f \in Injection(R, I)
  BY <1>6, <1>7 DEF Injection, IsInjective
<1>9. IsFiniteSet(I) /\ Cardinality(I) = n
  <2>1. n - 1 \in Int /\ (0 > n - 1 <=> n = 0)
    BY <1>1
  <2>2. QED
    BY <1>1, <2>1, FS_Interval
<1> HIDE DEF I, n
<1>10. f \in Surjection(R, I)
  BY <1>8, <1>9, FS_Injection DEF n
<1>11. k \in I
  BY DEF I, n
<1>12. \E t \in R : f[t] = k
  BY <1>10, <1>11 DEF Surjection
<1>13. QED
  BY <1>12 DEF f, Below

LEMMA NthRowType ==
    ASSUME StoreInv, NEW i \in 1..Cardinality(Rows)
    PROVE  NthRow(i) \in Rows
<1>1. Cardinality(Rows) \in Nat /\ Rows \in SUBSET Nat /\ IsFiniteSet(Rows)
  BY RowsFinite, FS_CardinalityType
<1>2. i - 1 \in 0..(Cardinality(Rows) - 1)
  BY <1>1
<1>3. \E t \in Rows : Cardinality({u \in Rows : u < t}) = i - 1
  BY <1>1, <1>2, RankTaken
<1>4. QED
  BY <1>3 DEF NthRow

-----------------------------------------------------------------------------
(* The steps keep these types.                                             *)

LEMMA AggregatesRest ==
    ASSUME AggregatesOK, UNCHANGED <<buckets, dirty, agg>>, fl'.dirty = fl.dirty
    PROVE  AggregatesOK'
BY DEF AggregatesOK

LEMMA NoSlots == [b \in Buckets |-> NoBucket] \in [Buckets -> Slots]
BY DEF Slots

\* A thread counts its sample into the bucket of its second.
LEMMA AggregatesIngest ==
    ASSUME StoreInv, AggregatesOK, NEW t \in Threads, IngestBucket(t)
    PROVE  AggregatesOK'
<1> DEFINE b == BucketOf(th[t].ts)
           g == Aggregate(buckets[b], th[t].s, th[t].prev)
<1>1. /\ buckets' = [buckets EXCEPT ![b] = g] /\ dirty' = [dirty EXCEPT ![b] = buckets'[b]]
      /\ th[t].pc = "bucket" /\ UNCHANGED <<agg, fl>>
  BY DEF IngestBucket
<1>2. th[t].ts \in Stamps
  BY <1>1 DEF StoreInv, ThreadsOK, ThreadOK, Past
<1>3. b \in Buckets
  BY <1>2 DEF Buckets
<1>4. buckets \in [Buckets -> Slots] /\ dirty \in [Buckets -> Slots] /\ buckets[b] \in Slots
  BY <1>3 DEF AggregatesOK
<1>5. g \in Slots
  BY <1>4, AggregateType DEF Slots
<1> HIDE DEF b, g
<1>6. buckets' \in [Buckets -> Slots] /\ buckets'[b] \in Slots
  BY <1>1, <1>3, <1>4, <1>5
<1>7. dirty' \in [Buckets -> Slots]
  BY <1>1, <1>4, <1>6
<1>8. QED
  BY <1>1, <1>6, <1>7 DEF AggregatesOK

LEMMA AggregatesFlush ==
    ASSUME StoreInv, AggregatesOK, FlushStep
    PROVE  AggregatesOK'
<1>1. /\ buckets \in [Buckets -> Slots] /\ dirty \in [Buckets -> Slots]
      /\ agg \in [Buckets -> Slots] /\ fl.dirty \in [Buckets -> Slots]
  BY DEF AggregatesOK
<1>2. fl \in FlushOf(fl) /\ IdleFlush.dirty \in [Buckets -> Slots]
  BY NoSlots DEF StoreInv, QueuesOK, IdleFlush
<1>3. CASE FlushTick
  BY <1>2, <1>3, AggregatesRest DEF FlushTick, FlushOf
<1>4. CASE PruneRecent
  BY <1>2, <1>4, AggregatesRest DEF PruneRecent, FlushOf
<1>5. CASE DrainPending
  BY <1>2, <1>5, AggregatesRest DEF DrainPending, FlushOf
<1>6. CASE PruneBuckets
  <2> DEFINE c == Cut(fl.now, AggKeep)
  <2>1. /\ buckets' = [b \in Buckets |-> IF b < c THEN NoBucket ELSE buckets[b]]
        /\ fl' = [fl EXCEPT !.pc = "recent"] /\ UNCHANGED <<dirty, agg>>
    BY <1>6 DEF PruneBuckets
  <2> HIDE DEF c
  <2>2. buckets' \in [Buckets -> Slots] /\ fl'.dirty = fl.dirty
    BY <1>1, <1>2, <2>1 DEF Slots, FlushOf
  <2>3. QED
    BY <1>1, <2>1, <2>2 DEF AggregatesOK
<1>7. CASE DrainDirty
  <2>1. /\ fl' = [fl EXCEPT !.pc = "write", !.dirty = dirty]
        /\ dirty' = [b \in Buckets |-> NoBucket] /\ UNCHANGED <<buckets, agg>>
    BY <1>7 DEF DrainDirty
  <2>2. fl'.dirty = dirty
    BY <1>2, <2>1 DEF FlushOf
  <2>3. QED
    BY <1>1, <2>1, <2>2, NoSlots DEF AggregatesOK
<1>8. CASE Commit
  <2> DEFINE c == Cut(now, AggKeep)
  <2>1. /\ agg' = [b \in Buckets |-> IF b < c THEN NoBucket
                                     ELSE IF fl.dirty[b] # NoBucket THEN fl.dirty[b] ELSE agg[b]]
        /\ fl' = IdleFlush /\ UNCHANGED <<buckets, dirty>>
    BY <1>8 DEF Commit
  <2> HIDE DEF c
  <2>2. agg' \in [Buckets -> Slots]
    BY <1>1, <2>1 DEF Slots
  <2>3. QED
    BY <1>1, <1>2, <2>1, <2>2 DEF AggregatesOK
<1>9. CASE BeginFails \/ CommitFails
  <2>1. fl' = IdleFlush /\ UNCHANGED <<buckets, dirty, agg>>
    BY <1>9 DEF BeginFails, CommitFails
  <2>2. QED
    BY <1>1, <1>2, <2>1 DEF AggregatesOK
<1>10. QED
  BY <1>3, <1>4, <1>5, <1>6, <1>7, <1>8, <1>9 DEF FlushStep

LEMMA AggregatesRestart ==
    ASSUME StoreInv, AggregatesOK, Restart
    PROVE  AggregatesOK'
<1> DEFINE c == Cut(now, AggKeep)
<1>1. \A b \in Buckets : FromRows(b) \in Slots /\ agg[b] \in Slots
  BY FromRowsType DEF AggregatesOK
<1>2. /\ dirty' = [b \in Buckets |-> FromRows(b)]
      /\ buckets' = [b \in Buckets |->
             IF FromRows(b) # NoBucket \/ b < c THEN FromRows(b) ELSE agg[b]]
      /\ fl' = IdleFlush /\ UNCHANGED agg
  BY DEF Restart
<1> HIDE DEF c
<1>3. dirty' \in [Buckets -> Slots] /\ buckets' \in [Buckets -> Slots]
  BY <1>1, <1>2
<1>4. IdleFlush.dirty \in [Buckets -> Slots]
  BY NoSlots DEF IdleFlush
<1>5. QED
  BY <1>2, <1>3, <1>4 DEF AggregatesOK

LEMMA NumbersThread ==
    ASSUME NumbersOK, ThreadsOK, NEW t \in Threads, NEW w, th' = [th EXCEPT ![t] = w],
           w.seq \in Nat, seq' \in Nat, UNCHANGED <<now, restarts, faults>>
    PROVE  NumbersOK'
<1>1. th = [u \in Threads |-> th[u]]
  BY DEF ThreadsOK
<1>2. \A u \in Threads : th'[u] = IF u = t THEN w ELSE th[u]
  BY <1>1
<1>3. \A u \in Threads : th'[u].seq \in Nat
  BY <1>2 DEF NumbersOK
<1>4. QED
  BY <1>3 DEF NumbersOK

\* The sequence numbers and the counters stay within their bounds.
LEMMA NumbersStep ==
    ASSUME StoreInv, NumbersOK, [Next]_vars
    PROVE  NumbersOK'
<1>1. /\ seq \in Nat /\ \A t \in Threads : th[t].seq \in Nat
      /\ now \in Nat /\ restarts \in Nat /\ faults \in Nat
      /\ MaxNow \in Nat /\ MaxRestarts \in Nat /\ MaxFaults \in Nat
      /\ now <= MaxNow /\ restarts <= MaxRestarts /\ faults <= MaxFaults
  BY TsdbAssumption DEF NumbersOK
<1>2. CASE \E t \in Threads : IngestStep(t)
  <2>1. PICK t \in Threads : IngestStep(t)
    BY <1>2
  <2>2. UNCHANGED <<now, restarts, faults>>
    BY <2>1 DEF IngestStep, IngestRing, IngestBucket, IngestSeq, IngestRecent, IngestPending
  <2>3. NumbersOK'
    <3>0. ThreadsOK
      BY DEF StoreInv
    <3>1. CASE \E ts \in Stamps, s \in Reports : IngestRing(t, ts, s)
      <4>1. PICK ts \in Stamps, s \in Reports : IngestRing(t, ts, s)
        BY <3>1
      <4> DEFINE w == [pc |-> "bucket", ts |-> ts, s |-> Merged(ring, ts, s),
                       prev |-> ring[ts], seq |-> 0]
      <4>2. seq' = seq /\ th' = [th EXCEPT ![t] = w]
        BY <4>1 DEF IngestRing
      <4>3. w.seq \in Nat
        OBVIOUS
      <4> HIDE DEF w
      <4>4. seq' \in Nat
        BY <1>1, <4>2
      <4>5. QED
        BY <2>2, <3>0, <4>2, <4>3, <4>4, NumbersThread
    <3>2. CASE IngestBucket(t) \/ IngestRecent(t)
      <4>1. PICK k \in {"seq", "pending"} : th' = [th EXCEPT ![t] = [th[t] EXCEPT !.pc = k]]
        BY <1>1, <3>2 DEF IngestBucket, IngestRecent
      <4> DEFINE w == [th[t] EXCEPT !.pc = k]
      <4>2. th[t] \in ThreadOf(th[t]) /\ seq' = seq
        BY <3>2 DEF StoreInv, ThreadsOK, ThreadOK, IngestBucket, IngestRecent
      <4>3. w.seq = th[t].seq
        BY <4>2 DEF ThreadOf
      <4> HIDE DEF w
      <4>4. QED
        BY <1>1, <2>2, <3>0, <4>1, <4>2, <4>3, NumbersThread DEF w
    <3>3. CASE IngestSeq(t)
      <4> DEFINE w == [th[t] EXCEPT !.pc = "recent", !.seq = seq]
      <4>1. th' = [th EXCEPT ![t] = w] /\ seq' = seq + 1
        BY <1>1, <3>3 DEF IngestSeq
      <4>2. th[t] \in ThreadOf(th[t])
        BY DEF StoreInv, ThreadsOK, ThreadOK
      <4>3. w.seq = seq
        BY <4>2 DEF ThreadOf
      <4> HIDE DEF w
      <4>4. seq' \in Nat
        BY <1>1, <4>1
      <4>5. QED
        BY <1>1, <2>2, <3>0, <4>1, <4>3, <4>4, NumbersThread
    <3>4. CASE IngestPending(t)
      <4>1. th' = [th EXCEPT ![t] = IdleThread] /\ seq' = seq
        BY <3>4 DEF IngestPending
      <4>2. IdleThread.seq \in Nat /\ seq' \in Nat
        BY <1>1, <4>1 DEF IdleThread
      <4>3. QED
        BY <2>2, <3>0, <4>1, <4>2, NumbersThread
    <3>5. QED
      BY <2>1, <3>1, <3>2, <3>3, <3>4 DEF IngestStep
  <2>4. QED
    BY <2>3
<1>3. CASE FlushTick \/ PruneBuckets \/ PruneRecent \/ DrainPending \/ DrainDirty \/ Commit
           \/ UNCHANGED vars
  <2>1. UNCHANGED <<seq, th, now, restarts, faults>>
    BY <1>3 DEF FlushTick, PruneBuckets, PruneRecent, DrainPending, DrainDirty, Commit, vars
  <2>2. QED
    BY <2>1 DEF NumbersOK
<1>4. CASE BeginFails \/ CommitFails
  <2>1. UNCHANGED <<seq, th, now, restarts>> /\ faults' = faults + 1 /\ faults < MaxFaults
    BY <1>4 DEF BeginFails, CommitFails
  <2>2. QED
    BY <1>1, <2>1 DEF NumbersOK
<1>5. CASE Elapse
  <2>1. UNCHANGED <<seq, th, restarts, faults>> /\ now' = now + 1 /\ now < MaxNow
    BY <1>5 DEF Elapse
  <2>2. QED
    BY <1>1, <2>1 DEF NumbersOK
<1>6. CASE Restart
  <2> DEFINE order == [i \in 1..Cardinality(Rows) |-> NthRow(i)]
  <2>0. Restart
    BY <1>6
  <2>1. /\ UNCHANGED <<now, faults>> /\ restarts' = restarts + 1 /\ restarts < MaxRestarts
        /\ seq' = Len(order) + 1 /\ th' = [t \in Threads |-> IdleThread]
    BY <2>0 DEF Restart
  <2>2. Cardinality(Rows) \in Nat
    BY RowsFinite, FS_CardinalityType
  <2>3. Len(order) = Cardinality(Rows)
    BY <2>2
  <2>4. \A t \in Threads : th'[t].seq \in Nat
    BY <2>1 DEF IdleThread
  <2>5. seq' \in Nat /\ restarts' \in 0..MaxRestarts
    BY <1>1, <2>1, <2>2, <2>3
  <2>6. now' = now /\ faults' = faults
    BY <2>1
  <2>7. QED
    BY <2>4, <2>5, <2>6 DEF NumbersOK
<1>7. QED
  BY <1>2, <1>3, <1>4, <1>5, <1>6 DEF Next, FlushStep

\* The delta queue gets what a thread carries, loses its oldest entries, and is
\* built anew from the rows at boot.
LEMMA DeltasStep ==
    ASSUME StoreInv, NumbersOK, DeltasOK, Next
    PROVE  DeltasOK'
<1>1. recent \in Seq(DeltaEntry) /\ Len(recent) \in Nat
  BY DEF DeltasOK
<1>2. CASE \E t \in Threads : IngestRecent(t)
  <2>1. PICK t \in Threads : IngestRecent(t)
    BY <1>2
  <2> DEFINE e == [seq |-> th[t].seq, ts |-> th[t].ts, s |-> th[t].s]
  <2>2. recent' = Append(recent, e) /\ th[t].pc # "idle"
    BY <2>1 DEF IngestRecent
  <2>3. th[t].seq \in Nat /\ th[t].ts \in Stamps /\ th[t].s \in Sample
    BY <2>2 DEF NumbersOK, StoreInv, ThreadsOK, ThreadOK, Past
  <2>4. e \in DeltaEntry
    BY <2>3 DEF DeltaEntry
  <2> HIDE DEF e
  <2>5. QED
    BY <1>1, <2>2, <2>4 DEF DeltasOK
<1>3. CASE PruneRecent
  <2> DEFINE young == {i \in DOMAIN recent : recent[i].ts >= Cut(fl.now, RawKeep)}
             first == IF young = {} THEN Len(recent) + 1 ELSE Min(young)
  <2>1. recent' = SubSeq(recent, first, Len(recent))
    BY <1>3 DEF PruneRecent
  <2>2. young \subseteq 1..Len(recent) /\ young \in SUBSET Nat
    BY <1>1
  <2> HIDE DEF young
  <2>3. first \in 1..(Len(recent) + 1)
    <3>1. CASE young = {}
      BY <1>1, <3>1
    <3>2. CASE young # {}
      <4>1. Min(young) \in 1..Len(recent) /\ first = Min(young)
        BY <2>2, <3>2, Least
      <4>2. QED
        BY <1>1, <4>1
    <3>3. QED
      BY <3>1, <3>2
  <2> HIDE DEF first
  <2>4. SubSeq(recent, first, Len(recent)) \in Seq(DeltaEntry)
    BY <1>1, <2>3
  <2>5. QED
    BY <2>1, <2>4 DEF DeltasOK
<1>4. CASE Restart
  <2> DEFINE n == Cardinality(Rows)
             order == [i \in 1..n |-> NthRow(i)]
  <2>1. recent' = [i \in DOMAIN order |-> [seq |-> i, ts |-> order[i], s |-> raw[order[i]]]]
    BY <1>4 DEF Restart
  <2>2. n \in Nat
    BY RowsFinite, FS_CardinalityType
  <2>3. \A i \in 1..n : order[i] \in Rows
    BY NthRowType
  <2>4. DOMAIN order = 1..n
    OBVIOUS
  <2> HIDE DEF n, order
  <2>5. \A i \in 1..n : [seq |-> i, ts |-> order[i], s |-> raw[order[i]]] \in DeltaEntry
    <3>1. Rows \subseteq Stamps /\ \A t \in Rows : raw[t] \in Sample
      BY RowsFinite
    <3>2. \A i \in 1..n : order[i] \in Stamps /\ raw[order[i]] \in Sample
      BY <2>3, <3>1, Zenon
    <3>3. \A i \in 1..n : i \in Nat
      BY <2>2
    <3>4. QED
      BY <3>2, <3>3 DEF DeltaEntry
  <2>6. recent' \in [1..n -> DeltaEntry]
    BY <2>1, <2>4, <2>5
  <2>7. QED
    BY <2>2, <2>6 DEF DeltasOK
<1>5. CASE UNCHANGED recent
  BY <1>5 DEF DeltasOK
<1>6. QED
  <2>1. CASE \E t \in Threads : IngestStep(t)
    BY <2>1, <1>2, <1>5 DEF IngestStep, IngestRing, IngestBucket, IngestSeq, IngestPending
  <2>2. CASE FlushStep
    BY <2>2, <1>3, <1>5
       DEF FlushStep, FlushTick, PruneBuckets, DrainPending, DrainDirty, Commit, BeginFails, CommitFails
  <2>3. CASE Elapse
    BY <2>3, <1>5 DEF Elapse
  <2>4. QED
    BY <1>4, <2>1, <2>2, <2>3 DEF Next

\* The history records one more sample of its second and, if it is a probe, of
\* its bucket.
LEMMA SeenRecords ==
    ASSUME SeenOK, NEW t \in Threads, NEW ts \in Stamps, NEW s \in Reports,
           IngestRing(t, ts, s)
    PROVE  /\ seen' \in SeenSet
           /\ \A x \in Stamps : seen'.dims[x] = IF x = ts THEN seen.dims[x] \cup Measured(s)
                                                         ELSE seen.dims[x]
           /\ \A b \in Buckets : seen'.probes[b] =
                  IF b = BucketOf(ts) /\ IsProbe(s) THEN seen.probes[b] + 1 ELSE seen.probes[b]
<1> DEFINE D == [seen.dims EXCEPT ![ts] = @ \cup Measured(s)]
           P == [seen.probes EXCEPT ![BucketOf(ts)] = @ + (IF IsProbe(s) THEN 1 ELSE 0)]
<1>1. seen \in SeenSet /\ seen.dims \in [Stamps -> SUBSET Dims] /\ seen.probes \in [Buckets -> Nat]
  BY DEF SeenOK, SeenSet
<1>2. seen' = [seen EXCEPT !.dims = D, !.probes = P]
  BY DEF IngestRing
<1>3. BucketOf(ts) \in Buckets /\ Measured(s) \in SUBSET Dims
  BY DEF Buckets, Measured
<1>4. D \in [Stamps -> SUBSET Dims] /\ \A x \in Stamps : D[x] =
          IF x = ts THEN seen.dims[x] \cup Measured(s) ELSE seen.dims[x]
  BY <1>1, <1>3
<1>5. P \in [Buckets -> Nat] /\ \A b \in Buckets : P[b] =
          IF b = BucketOf(ts) /\ IsProbe(s) THEN seen.probes[b] + 1 ELSE seen.probes[b]
  BY <1>1, <1>3
<1> HIDE DEF D, P
<1>6. seen'.dims = D /\ seen'.probes = P /\ seen' \in SeenSet
  BY <1>1, <1>2, <1>4, <1>5 DEF SeenSet
<1>7. QED
  BY <1>4, <1>5, <1>6

LEMMA SeenStep ==
    ASSUME SeenOK, Next
    PROVE  SeenOK'
<1>1. CASE \E t \in Threads : \E ts \in Stamps, s \in Reports : IngestRing(t, ts, s)
  <2>1. seen' \in SeenSet
    BY <1>1, SeenRecords
  <2>2. QED
    BY <2>1 DEF SeenOK, SeenSet
<1>2. CASE UNCHANGED seen
  BY <1>2 DEF SeenOK, SeenSet
<1>3. QED
  <2>1. CASE \E t \in Threads : IngestStep(t)
    BY <2>1, <1>1, <1>2 DEF IngestStep, IngestBucket, IngestSeq, IngestRecent, IngestPending
  <2>2. CASE FlushStep
    BY <2>2, <1>2 DEF FlushStep, FlushTick, PruneBuckets, PruneRecent, DrainPending, DrainDirty,
                     Commit, BeginFails, CommitFails
  <2>3. CASE Restart \/ Elapse
    BY <2>3, <1>2 DEF Restart, Elapse
  <2>4. QED
    BY <2>1, <2>2, <2>3 DEF Next

LEMMA RestInit == Init => RestInv
<1> SUFFICES ASSUME Init PROVE RestInv
  OBVIOUS
<1>1. AggregatesOK
  BY NoSlots DEF Init, AggregatesOK, IdleFlush
<1>2. NumbersOK
  BY TsdbAssumption DEF Init, NumbersOK, IdleThread
<1>3. DeltasOK
  BY DEF Init, DeltasOK
<1>4. SeenOK
  BY DEF Init, SeenOK, SeenSet
<1>5. QED
  BY <1>1, <1>2, <1>3, <1>4 DEF RestInv

LEMMA RestStep ==
    ASSUME StoreInv, RestInv, [Next]_vars
    PROVE  RestInv'
<1>1. AggregatesOK /\ NumbersOK /\ DeltasOK /\ SeenOK
  BY DEF RestInv
<1>2. CASE UNCHANGED vars
  <2>1. AggregatesOK'
    BY <1>1, <1>2, AggregatesRest DEF vars
  <2>2. NumbersOK' /\ DeltasOK' /\ SeenOK'
    BY <1>1, <1>2 DEF vars, NumbersOK, DeltasOK, SeenOK, SeenSet
  <2>3. QED
    BY <2>1, <2>2 DEF RestInv
<1>3. CASE Next
  <2>1. AggregatesOK'
    <3>1. CASE \E t \in Threads : IngestStep(t)
      <4>1. PICK t \in Threads : IngestStep(t)
        BY <3>1
      <4>2. CASE IngestBucket(t)
        BY <1>1, <4>2, AggregatesIngest
      <4>3. CASE ~IngestBucket(t)
        <5>1. UNCHANGED <<buckets, dirty, agg, fl>>
          BY <4>1, <4>3 DEF IngestStep, IngestRing, IngestSeq, IngestRecent, IngestPending
        <5>2. QED
          BY <1>1, <5>1, AggregatesRest
      <4>4. QED
        BY <4>2, <4>3
    <3>2. CASE FlushStep
      BY <1>1, <3>2, AggregatesFlush
    <3>3. CASE Restart
      BY <1>1, <3>3, AggregatesRestart
    <3>4. CASE Elapse
      BY <1>1, <3>4, AggregatesRest DEF Elapse
    <3>5. QED
      BY <1>3, <3>1, <3>2, <3>3, <3>4 DEF Next
  <2>2. NumbersOK' /\ DeltasOK' /\ SeenOK'
    BY <1>1, <1>3, NumbersStep, DeltasStep, SeenStep
  <2>3. QED
    BY <2>1, <2>2 DEF RestInv
<1>4. QED
  BY <1>2, <1>3

\* The store keeps its types, for every set of seconds and reports, bucket
\* width and retention, any number of ingesting tasks, and across crashes: what
\* ingest, flush_loop and load of tsdb.rs leave are rings, buckets, queues and
\* tables of samples; the delta queue that load rebuilds lists stored rows.
THEOREM StoreTypeCorrect == Spec => []TypeOK
<1>1. ASSUME StoreInv, RestInv PROVE TypeOK
  <2>1. /\ ring \in Ring /\ floor \in Nat /\ raw \in Ring /\ seq \in Nat
        /\ buckets \in [Buckets -> Slots] /\ dirty \in [Buckets -> Slots]
        /\ agg \in [Buckets -> Slots] /\ fl.dirty \in [Buckets -> Slots]
        /\ recent \in Seq(DeltaEntry) /\ seen \in SeenSet
        /\ now \in 0..MaxNow /\ restarts \in 0..MaxRestarts /\ faults \in 0..MaxFaults
    BY <1>1 DEF StoreInv, RestInv, RingOK, RowsOK, AggregatesOK, NumbersOK, DeltasOK, SeenOK
  <2>2. /\ pending \in Seq(PastEntry) /\ fl \in FlushOf(fl) /\ PastEntry \subseteq Entry
    BY <1>1 DEF StoreInv, QueuesOK, PastEntry, Past, Entry
  <2>3. Seq(PastEntry) \subseteq Seq(Entry)
    <3>1. ASSUME NEW X, NEW Y, X \subseteq Y PROVE Seq(X) \subseteq Seq(Y)
      BY <3>1
    <3>2. QED
      BY <2>2, <3>1
  <2>4. fl \in [pc : {"idle", "agg", "recent", "drain", "dirty", "write"}, now : Nat,
                raw : Seq(Entry), dirty : [Buckets -> Slots]]
    BY <2>1, <2>2, <2>3 DEF FlushOf
  <2>5. th \in [Threads -> [pc : {"idle", "bucket", "seq", "recent", "pending"},
                            ts : Stamps \cup {0}, s : Sample \cup {NoSample},
                            prev : Sample \cup {NoSample}, seq : Nat]]
    <3>1. th = [t \in Threads |-> th[t]] /\ \A t \in Threads : th[t] \in ThreadOf(th[t])
      BY <1>1 DEF StoreInv, ThreadsOK, ThreadOK
    <3>2. \A t \in Threads : th[t].seq \in Nat
      BY <1>1 DEF RestInv, NumbersOK
    <3>3. ASSUME NEW t \in Threads
          PROVE  th[t] \in [pc : {"idle", "bucket", "seq", "recent", "pending"},
                            ts : Stamps \cup {0}, s : Sample \cup {NoSample},
                            prev : Sample \cup {NoSample}, seq : Nat]
      <4>1. th[t] \in ThreadOf(th[t]) /\ th[t].seq \in Nat
        BY <3>1, <3>2
      <4>2. QED
        BY <4>1 DEF ThreadOf
    <3> QED
      BY <3>1, <3>3
  <2>6. QED
    BY <2>1, <2>2, <2>3, <2>4, <2>5 DEF TypeOK, Slots, SeenSet, DeltaEntry
<1>2. StoreInv /\ RestInv /\ [Next]_vars => StoreInv' /\ RestInv'
  BY StoreStep, RestStep
<1>3. Init => StoreInv /\ RestInv
  BY StoreInit, RestInit
<1>4. QED
  BY <1>1, <1>2, <1>3, PTL DEF Spec

-----------------------------------------------------------------------------
(* A bucket counts each second once, with one ingesting task, up to the    *)
(* first crash.                                                            *)

\* What a merge measured, and when it is a probe.
LEMMA MergedMeasures ==
    ASSUME NEW a \in Sample, NEW o \in Sample
    PROVE  /\ Measured(MergedWith(a, o)) = Measured(a) \cup Measured(o)
           /\ IsProbe(MergedWith(a, o)) => IsProbe(a) \/ IsProbe(o)
<1>1. \A d \in Dims : MergedWith(a, o)[d] = IF o[d] # NoVal THEN o[d] ELSE a[d]
  BY DEF MergedWith
<1>2. Measured(MergedWith(a, o)) = Measured(a) \cup Measured(o)
  BY <1>1 DEF Measured
<1>3. "probe" \in Dims /\ "block" \in Dims /\ "joined" \in Dims
  BY DEF Dims
<1>4. IsProbe(MergedWith(a, o)) => IsProbe(a) \/ IsProbe(o)
  <2> DEFINE m == MergedWith(a, o)
  <2>1. /\ m["probe"] = IF o["probe"] # NoVal THEN o["probe"] ELSE a["probe"]
        /\ m["block"] = IF o["block"] # NoVal THEN o["block"] ELSE a["block"]
        /\ m["joined"] = IF o["joined"] # NoVal THEN o["joined"] ELSE a["joined"]
    BY <1>1, <1>3
  <2> HIDE DEF m
  <2>2. IsProbe(m) => IsProbe(a) \/ IsProbe(o)
    BY <2>1 DEF IsProbe
  <2>3. QED
    BY <2>2 DEF m
<1>5. QED
  BY <1>2, <1>4

LEMMA BucketSpan ==
    ASSUME NEW b \in Buckets
    PROVE  IsFiniteSet({x \in Stamps : BucketOf(x) = b})
<1> DEFINE S == {x \in Stamps : BucketOf(x) = b}
<1>1. BucketSecs \in Nat \ {0} /\ Stamps \subseteq Nat
  BY SamplesAssumption
<1>2. ASSUME NEW x \in Nat PROVE x % BucketSecs \in 0..(BucketSecs - 1)
  BY <1>1
<1>3. ASSUME NEW x \in Stamps
      PROVE  BucketOf(x) + BucketSecs \in Nat /\ x <= BucketOf(x) + BucketSecs
  <2>1. x \in Nat /\ x % BucketSecs \in 0..(BucketSecs - 1)
    BY <1>1, <1>2
  <2>2. QED
    BY <1>1, <2>1 DEF BucketOf
<1>4. b + BucketSecs \in Nat
  BY <1>3 DEF Buckets
<1>5. S \in SUBSET Nat /\ \A x \in S : x <= b + BucketSecs
  BY <1>1, <1>3
<1> HIDE DEF S
<1>6. QED
  BY <1>4, <1>5, FS_BoundedSetOfNaturals DEF S

LEMMA MoreMembers ==
    ASSUME NEW T, IsFiniteSet(T), NEW S \in SUBSET T
    PROVE  /\ Cardinality(S) \in Nat /\ Cardinality(T) \in Nat
           /\ Cardinality(S) <= Cardinality(T)
           /\ \A x \in T : x \notin S => Cardinality(S) + 1 <= Cardinality(T)
<1>1. IsFiniteSet(S) /\ Cardinality(S) <= Cardinality(T)
  BY FS_Subset
<1>2. Cardinality(S) \in Nat /\ Cardinality(T) \in Nat
  BY <1>1, FS_CardinalityType
<1>3. Cardinality(T) = Cardinality(S) => T = S
  BY FS_Subset
<1>4. QED
  BY <1>1, <1>2, <1>3

\* The dimensions of a second that its bucket has counted: all that were seen,
\* but for those a thread is about to count.
Done(x) == {d \in seen.dims[x] :
               \A u \in Threads : th[u].pc = "bucket" /\ th[u].ts = x =>
                   th[u].prev # NoSample /\ d \in Measured(th[u].prev)}

Contributors(b, d) == {x \in Stamps : BucketOf(x) = b /\ d \in Done(x)}

\* The ring says what was measured in a second it holds; of a second above the
\* floor that it does not hold nothing was accepted.
RememberedOK ==
    /\ \A x \in Stamps : /\ ring[x] # NoSample => seen.dims[x] = Measured(ring[x])
                         /\ ring[x] = NoSample /\ x > floor => seen.dims[x] = {}
    /\ \A u \in Threads : th[u].pc = "bucket" => Measured(th[u].s) \subseteq seen.dims[th[u].ts]

DimsOK ==
    \A b \in Buckets : buckets[b] # NoBucket =>
        \A d \in Counted : buckets[b].dims[d] <= Cardinality(Contributors(b, d))

\* A thread is about to count a probe into the bucket.
Owed(b) == \E u \in Threads :
    /\ th[u].pc = "bucket" /\ BucketOf(th[u].ts) = b
    /\ IsProbe(th[u].s) /\ (th[u].prev = NoSample \/ ~IsProbe(th[u].prev))

ProbesOK ==
    /\ \A x \in Stamps : ring[x] # NoSample /\ IsProbe(ring[x]) => seen.probes[BucketOf(x)] >= 1
    /\ \A u \in Threads : th[u].pc = "bucket" /\ IsProbe(th[u].s) =>
                              seen.probes[BucketOf(th[u].ts)] >= 1
    /\ \A b \in Buckets : buckets[b] # NoBucket =>
           buckets[b].n + (IF Owed(b) THEN 1 ELSE 0) <= seen.probes[b]

OnceInv == restarts = 0 => RememberedOK /\ DimsOK /\ ProbesOK

\* A bucket that is kept and whose seconds are counted at least as before still
\* counts no more than its seconds.
LEMMA DimsKept ==
    ASSUME DimsOK, AggregatesOK, NEW b \in Buckets, buckets'[b] # NoBucket,
           buckets'[b] = buckets[b],
           \A x \in Stamps : Done(x) \subseteq Done(x)'
    PROVE  \A d \in Counted : buckets'[b].dims[d] <= Cardinality(Contributors(b, d)')
<1> SUFFICES ASSUME NEW d \in Counted
             PROVE  buckets'[b].dims[d] <= Cardinality(Contributors(b, d)')
  OBVIOUS
<1>1. buckets[b] \in Bucket
  BY DEF AggregatesOK, Slots
<1>2. buckets[b].dims[d] \in Nat /\ buckets[b].dims[d] <= Cardinality(Contributors(b, d))
  BY <1>1 DEF DimsOK, Bucket
<1>3. Contributors(b, d) \subseteq Contributors(b, d)'
  BY DEF Contributors
<1>4. IsFiniteSet(Contributors(b, d)')
  <2>1. Contributors(b, d)' \subseteq {x \in Stamps : BucketOf(x) = b}
    BY DEF Contributors
  <2>2. QED
    BY <2>1, BucketSpan, FS_Subset
<1>5. /\ Cardinality(Contributors(b, d)) \in Nat /\ Cardinality(Contributors(b, d)') \in Nat
      /\ Cardinality(Contributors(b, d)) <= Cardinality(Contributors(b, d)')
  <2> DEFINE S == Contributors(b, d)
             T == Contributors(b, d)'
  <2>1. IsFiniteSet(T) /\ S \in SUBSET T
    BY <1>3, <1>4
  <2> HIDE DEF S, T
  <2>2. Cardinality(S) \in Nat /\ Cardinality(T) \in Nat /\ Cardinality(S) <= Cardinality(T)
    BY <2>1, MoreMembers
  <2>3. QED
    BY <2>2 DEF S, T
<1>6. QED
  BY <1>2, <1>5

\* Steps that accept nothing and count nothing: the ring and the buckets only
\* lose, and what the ring loses is below the floor.
LEMMA OnceQuiet ==
    ASSUME AggregatesOK, SeenOK, OnceInv, restarts' = restarts, seen' = seen,
           floor \in Nat, floor' \in Nat, floor' >= floor,
           \A x \in Stamps : ring'[x] \in {NoSample, ring[x]},
           \A x \in Stamps : ring'[x] = NoSample => x <= floor' \/ ring[x] = NoSample,
           \A b \in Buckets : buckets'[b] \in {NoBucket, buckets[b]},
           \A u \in Threads : th'[u].pc = "bucket" => th'[u] = th[u]
    PROVE  OnceInv'
<1> SUFFICES ASSUME restarts = 0 PROVE RememberedOK' /\ DimsOK' /\ ProbesOK'
  BY DEF OnceInv
<1>1. RememberedOK /\ DimsOK /\ ProbesOK
  BY DEF OnceInv
<1>2. RememberedOK'
  <2>1. ASSUME NEW x \in Stamps, ring'[x] # NoSample PROVE seen'.dims[x] = Measured(ring'[x])
    BY <1>1, <2>1 DEF RememberedOK
  <2>2. ASSUME NEW x \in Stamps, ring'[x] = NoSample, x > floor' PROVE seen'.dims[x] = {}
    <3>1. x \in Nat
      BY SamplesAssumption
    <3>2. ring[x] = NoSample /\ x > floor
      BY <2>2, <3>1
    <3>3. QED
      BY <1>1, <3>2 DEF RememberedOK
  <2>3. \A u \in Threads : th'[u].pc = "bucket" => Measured(th'[u].s) \subseteq seen'.dims[th'[u].ts]
    BY <1>1 DEF RememberedOK
  <2>4. QED
    BY <2>1, <2>2, <2>3 DEF RememberedOK
<1>3. DimsOK'
  <2>1. \A x \in Stamps : Done(x) \subseteq Done(x)'
    BY DEF Done
  <2>2. QED
    BY <1>1, <2>1, DimsKept DEF DimsOK
<1>4. ProbesOK'
  <2>1. \A b \in Buckets : Owed(b)' => Owed(b)
    BY DEF Owed
  <2>2. ASSUME NEW b \in Buckets, buckets'[b] # NoBucket
        PROVE  buckets'[b].n + (IF Owed(b)' THEN 1 ELSE 0) <= seen'.probes[b]
    <3>1. buckets'[b] = buckets[b] /\ buckets[b].n \in Nat /\ seen.probes[b] \in Nat
      BY <2>2 DEF AggregatesOK, Slots, Bucket, SeenOK, SeenSet
    <3>2. buckets[b].n + (IF Owed(b) THEN 1 ELSE 0) <= seen.probes[b]
      BY <1>1, <2>2, <3>1 DEF ProbesOK
    <3>3. CASE Owed(b)'
      BY <2>1, <3>1, <3>2, <3>3
    <3>4. CASE ~Owed(b)'
      <4>1. buckets[b].n <= seen.probes[b]
        BY <3>1, <3>2
      <4>2. QED
        BY <3>1, <3>4, <4>1
    <3>5. QED
      BY <3>3, <3>4
  <2>3. QED
    BY <1>1, <2>2 DEF ProbesOK
<1>5. QED
  BY <1>2, <1>3, <1>4

\* A sample enters the ring: what was accepted is what the ring now holds.
LEMMA OnceRing ==
    ASSUME StoreInv, AggregatesOK, SeenOK, OnceInv, \A u, w \in Threads : u = w,
           NEW t \in Threads, NEW ts \in Stamps, NEW s \in Reports, IngestRing(t, ts, s)
    PROVE  OnceInv'
<1> DEFINE m == Merged(ring, ts, s)
           w == [pc |-> "bucket", ts |-> ts, s |-> m, prev |-> ring[ts], seq |-> 0]
<1>1. /\ ring' = Insert(ring, floor, ts, s).ring /\ floor' = Insert(ring, floor, ts, s).floor
      /\ th' = [th EXCEPT ![t] = w] /\ th[t].pc = "idle" /\ ts > floor
      /\ UNCHANGED <<buckets, restarts>>
  BY DEF IngestRing, Accepts
<1> SUFFICES ASSUME restarts = 0 PROVE RememberedOK' /\ DimsOK' /\ ProbesOK'
  BY <1>1 DEF OnceInv
<1>2. RememberedOK /\ DimsOK /\ ProbesOK
  BY DEF OnceInv
<1>3. /\ ring \in Ring /\ floor \in Nat /\ s \in Sample /\ ring[ts] \in Sample \cup {NoSample}
      /\ Above(ring, floor)
  BY ConstantFacts DEF StoreInv, RingOK, Ring
<1>4. /\ floor' \in Nat /\ floor' >= floor
      /\ \A x \in Stamps : x # ts => ring'[x] \in {NoSample, ring[x]}
      /\ ring'[ts] \in {NoSample, m}
      /\ \A x \in Stamps : ring'[x] = NoSample => x <= floor' \/ (x # ts /\ ring[x] = NoSample)
  BY <1>1, <1>3, InsertAbove
<1>5. th'[t] = w /\ \A u \in Threads : th'[u] = w
  BY <1>1 DEF StoreInv, ThreadsOK
<1>6. w.pc = "bucket" /\ w.ts = ts /\ w.s = m /\ w.prev = ring[ts]
  OBVIOUS
<1> HIDE DEF w
<1>7. /\ seen' \in SeenSet
      /\ \A x \in Stamps : seen'.dims[x] = IF x = ts THEN seen.dims[x] \cup Measured(s)
                                                    ELSE seen.dims[x]
      /\ \A b \in Buckets : seen'.probes[b] =
             IF b = BucketOf(ts) /\ IsProbe(s) THEN seen.probes[b] + 1 ELSE seen.probes[b]
  BY SeenRecords
<1>8. \A b \in Buckets : seen.probes[b] \in Nat /\ seen'.probes[b] \in Nat
                         /\ seen'.probes[b] >= seen.probes[b]
  BY <1>7 DEF SeenOK, SeenSet
<1>9. seen.dims[ts] = IF ring[ts] = NoSample THEN {} ELSE Measured(ring[ts])
  BY <1>1, <1>2 DEF RememberedOK
<1>10. Measured(m) = seen'.dims[ts]
  BY <1>3, <1>7, <1>9, MergedMeasures DEF Merged
<1>11. IsProbe(m) => IsProbe(s) \/ (ring[ts] # NoSample /\ IsProbe(ring[ts]))
  BY <1>3, MergedMeasures DEF Merged
<1> HIDE DEF m
<1>12. \A x \in Stamps : BucketOf(x) \in Buckets
  BY DEF Buckets
<1>13. RememberedOK'
  <2>1. ASSUME NEW x \in Stamps, ring'[x] # NoSample PROVE seen'.dims[x] = Measured(ring'[x])
    <3>1. CASE x = ts
      BY <1>4, <1>10, <2>1, <3>1
    <3>2. CASE x # ts
      BY <1>2, <1>4, <1>7, <2>1, <3>2 DEF RememberedOK
    <3>3. QED
      BY <3>1, <3>2
  <2>2. ASSUME NEW x \in Stamps, ring'[x] = NoSample, x > floor' PROVE seen'.dims[x] = {}
    <3>1. x \in Nat
      BY SamplesAssumption
    <3>2. x # ts /\ ring[x] = NoSample /\ x > floor
      BY <1>3, <1>4, <2>2, <3>1
    <3>3. QED
      BY <1>2, <1>7, <3>2 DEF RememberedOK
  <2>3. \A u \in Threads : Measured(th'[u].s) \subseteq seen'.dims[th'[u].ts]
    BY <1>5, <1>6, <1>10
  <2>4. QED
    BY <2>1, <2>2, <2>3 DEF RememberedOK
<1>14. DimsOK'
  <2>1. ASSUME NEW x \in Stamps PROVE Done(x) \subseteq Done(x)'
    <3>1. CASE x = ts
      <4>1. ASSUME NEW d \in Done(x) PROVE d \in Done(x)'
        <5>1. d \in seen.dims[x] /\ d \in seen'.dims[x]
          BY <1>7 DEF Done
        <5>2. ring[ts] # NoSample /\ d \in Measured(ring[ts])
          BY <1>9, <3>1, <5>1
        <5>3. \A u \in Threads : th'[u].prev = ring[ts]
          BY <1>5, <1>6
        <5>4. QED
          BY <5>1, <5>2, <5>3 DEF Done
      <4>2. QED
        BY <4>1
    <3>2. CASE x # ts
      BY <1>5, <1>6, <1>7, <3>2 DEF Done
    <3>3. QED
      BY <3>1, <3>2
  <2>2. \A b \in Buckets : buckets'[b] = buckets[b]
    BY <1>1
  <2>3. QED
    BY <1>2, <2>1, <2>2, DimsKept DEF DimsOK
<1>15. ProbesOK'
  <2>1. ASSUME NEW x \in Stamps, ring[x] # NoSample, IsProbe(ring[x])
        PROVE  seen'.probes[BucketOf(x)] >= 1
    <3>1. seen.probes[BucketOf(x)] >= 1
      BY <1>2, <2>1 DEF ProbesOK
    <3>2. QED
      BY <1>8, <1>12, <3>1
  <2>2. IsProbe(s) => seen'.probes[BucketOf(ts)] >= 1
    BY <1>7, <1>8, <1>12
  <2>3. IsProbe(m) => seen'.probes[BucketOf(ts)] >= 1
    BY <1>11, <2>1, <2>2
  <2>4. ASSUME NEW x \in Stamps, ring'[x] # NoSample, IsProbe(ring'[x])
        PROVE  seen'.probes[BucketOf(x)] >= 1
    <3>1. CASE x = ts
      BY <1>4, <2>3, <2>4, <3>1
    <3>2. CASE x # ts
      BY <1>4, <2>1, <2>4, <3>2
    <3>3. QED
      BY <3>1, <3>2
  <2>5. \A u \in Threads : IsProbe(th'[u].s) => seen'.probes[BucketOf(th'[u].ts)] >= 1
    BY <1>5, <1>6, <2>3
  <2>6. ASSUME NEW b \in Buckets, buckets'[b] # NoBucket
        PROVE  buckets'[b].n + (IF Owed(b)' THEN 1 ELSE 0) <= seen'.probes[b]
    <3>1. buckets'[b] = buckets[b] /\ buckets[b].n \in Nat
      BY <1>1, <2>6 DEF AggregatesOK, Slots, Bucket
    <3>2. buckets[b].n + (IF Owed(b) THEN 1 ELSE 0) <= seen.probes[b]
      BY <1>2, <2>6, <3>1 DEF ProbesOK
    <3>3. buckets[b].n <= seen.probes[b]
      BY <1>8, <3>1, <3>2
    <3>4. Owed(b)' => b = BucketOf(ts) /\ IsProbe(s)
      BY <1>5, <1>6, <1>11 DEF Owed
    <3>5. CASE Owed(b)'
      BY <1>7, <1>8, <3>1, <3>3, <3>4, <3>5
    <3>6. CASE ~Owed(b)'
      BY <1>8, <3>1, <3>3, <3>6
    <3>7. QED
      BY <3>5, <3>6
  <2>7. QED
    BY <2>4, <2>5, <2>6 DEF ProbesOK
<1>16. QED
  BY <1>13, <1>14, <1>15

\* The thread counts what it owes.
LEMMA OnceBucket ==
    ASSUME StoreInv, AggregatesOK, SeenOK, OnceInv, \A u, w \in Threads : u = w,
           NEW t \in Threads, IngestBucket(t)
    PROVE  OnceInv'
<1> DEFINE x0 == th[t].ts
           s == th[t].s
           p == th[t].prev
           b0 == BucketOf(x0)
           c == buckets[b0]
           g == Aggregate(c, s, p)
           z == IF c = NoBucket THEN ZeroBucket ELSE c
           D == IF c = NoBucket \/ p = NoSample THEN Measured(s) ELSE Measured(s) \ Measured(p)
           pr == IF c = NoBucket \/ p = NoSample THEN IsProbe(s) ELSE IsProbe(s) /\ ~IsProbe(p)
<1>1. /\ buckets' = [buckets EXCEPT ![b0] = g] /\ th[t].pc = "bucket"
      /\ UNCHANGED <<ring, floor, seen, restarts>>
  BY DEF IngestBucket
<1>2. th'[t].pc = "seq" /\ \A u \in Threads : th'[u].pc = "seq"
  <2>1. ThreadsOK /\ th[t] \in ThreadOf(th[t]) /\ th' = [th EXCEPT ![t] = [th[t] EXCEPT !.pc = "seq"]]
    BY DEF StoreInv, ThreadsOK, ThreadOK, IngestBucket
  <2>2. [th[t] EXCEPT !.pc = "seq"].pc = "seq"
    BY <2>1 DEF ThreadOf
  <2>3. th'[t].pc = "seq"
    BY <2>1, <2>2 DEF ThreadsOK
  <2>4. QED
    BY <2>3
<1> SUFFICES ASSUME restarts = 0 PROVE RememberedOK' /\ DimsOK' /\ ProbesOK'
  BY <1>1 DEF OnceInv
<1>3. RememberedOK /\ DimsOK /\ ProbesOK
  BY DEF OnceInv
<1>4. x0 \in Stamps /\ b0 \in Buckets /\ c \in Slots
  BY <1>1 DEF StoreInv, ThreadsOK, ThreadOK, Past, Buckets, AggregatesOK
<1>5. pr \in BOOLEAN
  BY DEF IsProbe
<1>6. /\ g.n = z.n + (IF pr THEN 1 ELSE 0)
      /\ \A d \in Counted : g.dims[d] = z.dims[d] + (IF d \in D THEN 1 ELSE 0)
  <2> HIDE DEF c, s, p
  <2>1. Aggregate(c, s, p) = Count(z, D, pr)
    BY DEF Aggregate, BucketAdd, BucketMerge
  <2> HIDE DEF z, D, pr
  <2>2. QED
    BY <2>1 DEF Count
<1>7. Measured(s) \subseteq seen.dims[x0] /\ D \subseteq Measured(s)
  BY <1>1, <1>3 DEF RememberedOK
<1>8. \A x \in Stamps : Done(x)' = seen.dims[x] /\ Done(x) \subseteq Done(x)'
  BY <1>1, <1>2 DEF Done
<1>9. c # NoBucket => \A d \in D : d \notin Done(x0)
  BY <1>1 DEF Done
<1>10. c # NoBucket /\ pr => Owed(b0)
  BY <1>1 DEF Owed
<1>11. IsProbe(s) => seen.probes[b0] >= 1
  BY <1>1, <1>3 DEF ProbesOK
<1>12. c # NoBucket => c \in Bucket
  BY <1>4 DEF Slots
<1>13. pr => IsProbe(s)
  OBVIOUS
<1>14. /\ buckets'[b0] = g
       /\ \A b \in Buckets : b # b0 => buckets'[b] = buckets[b]
  BY <1>1, <1>4 DEF AggregatesOK
<1> HIDE DEF g, D, pr
<1>15. RememberedOK'
  BY <1>1, <1>2, <1>3 DEF RememberedOK
<1>16. DimsOK'
  <2>1. ASSUME NEW b \in Buckets, b = b0, NEW d \in Counted
        PROVE  g.dims[d] <= Cardinality(Contributors(b, d)')
    <3> DEFINE T == Contributors(b, d)'
               S == Contributors(b, d)
    <3>1. T = {x \in Stamps : BucketOf(x) = b /\ d \in seen.dims[x]}
      BY <1>8 DEF Contributors
    <3>2. IsFiniteSet(T) /\ S \in SUBSET T
      <4>1. T \subseteq {x \in Stamps : BucketOf(x) = b}
        BY <3>1
      <4>2. S \subseteq T
        BY <1>8 DEF Contributors
      <4> HIDE DEF T, S
      <4>3. QED
        BY <4>1, <4>2, BucketSpan, FS_Subset
    <3>3. d \in D => x0 \in T
      BY <1>4, <1>7, <2>1, <3>1
    <3>4. c # NoBucket /\ d \in D => x0 \notin S
      BY <1>9 DEF Contributors
    <3>5. c # NoBucket => z.dims[d] \in Nat /\ z.dims[d] <= Cardinality(S)
      BY <1>3, <1>4, <1>12, <2>1 DEF DimsOK, Bucket
    <3>6. c = NoBucket => z.dims[d] = 0
      BY DEF ZeroBucket
    <3> HIDE DEF z, S, T, x0
    <3>7. /\ Cardinality(S) \in Nat /\ Cardinality(T) \in Nat /\ Cardinality(S) <= Cardinality(T)
          /\ d \in D /\ x0 \notin S => Cardinality(S) + 1 <= Cardinality(T)
      BY <3>2, <3>3, MoreMembers
    <3>8. d \in D => Cardinality(T) >= 1
      <4>1. \A y \in T : Cardinality({}) + 1 <= Cardinality(T)
        BY <3>2, MoreMembers
      <4>2. Cardinality({}) = 0
        BY FS_EmptySet
      <4>3. QED
        BY <3>3, <3>7, <4>1, <4>2
    <3>9. g.dims[d] = z.dims[d] + (IF d \in D THEN 1 ELSE 0)
      BY <1>6
    <3>10. g.dims[d] <= Cardinality(T)
      <4>1. CASE c = NoBucket
        BY <3>6, <3>7, <3>8, <3>9, <4>1
      <4>2. CASE c # NoBucket
        BY <3>4, <3>5, <3>7, <3>9, <4>2
      <4>3. QED
        BY <4>1, <4>2
    <3>11. QED
      BY <3>10 DEF T
  <2>2. \A b \in Buckets : b # b0 /\ buckets'[b] # NoBucket =>
            \A d \in Counted : buckets'[b].dims[d] <= Cardinality(Contributors(b, d)')
    BY <1>3, <1>8, <1>14, DimsKept
  <2>3. ASSUME NEW b \in Buckets, buckets'[b] # NoBucket, NEW d \in Counted
        PROVE  buckets'[b].dims[d] <= Cardinality(Contributors(b, d)')
    <3> HIDE DEF b0
    <3>1. CASE b = b0
      BY <1>14, <2>1, <3>1
    <3>2. CASE b # b0
      BY <2>2, <2>3, <3>2
    <3>3. QED
      BY <3>1, <3>2
  <2>4. QED
    BY <2>3 DEF DimsOK
<1>17. ProbesOK'
  <2>1. \A b : ~Owed(b)'
    BY <1>2 DEF Owed
  <2>2. \A b \in Buckets : seen.probes[b] \in Nat
    BY DEF SeenOK, SeenSet
  <2>3. g.n <= seen.probes[b0]
    <3>1. CASE c = NoBucket
      <4>1. z.n = 0
        BY <3>1 DEF ZeroBucket
      <4>2. QED
        BY <1>4, <1>6, <1>11, <1>13, <2>2, <4>1
    <3>2. CASE c # NoBucket
      <4>1. z.n \in Nat /\ z.n + (IF Owed(b0) THEN 1 ELSE 0) <= seen.probes[b0]
        BY <1>3, <1>4, <1>12, <3>2 DEF ProbesOK, Bucket
      <4>2. seen.probes[b0] \in Nat
        BY <1>4, <2>2
      <4> HIDE DEF z, b0, c
      <4>3. CASE pr
        BY <1>6, <1>10, <3>2, <4>1, <4>2, <4>3
      <4>4. CASE ~pr
        <5>1. z.n <= seen.probes[b0]
          BY <4>1, <4>2
        <5>2. QED
          BY <1>6, <4>1, <4>4, <5>1
      <4>5. QED
        BY <4>3, <4>4
    <3>3. QED
      BY <3>1, <3>2
  <2>4. ASSUME NEW b \in Buckets, buckets'[b] # NoBucket
        PROVE  buckets'[b].n + (IF Owed(b)' THEN 1 ELSE 0) <= seen'.probes[b]
    <3>1. g.n \in Nat /\ \A e \in Bucket : e.n \in Nat
      <4>1. g \in Bucket
        BY <1>4, AggregateType DEF g
      <4>2. QED
        BY <4>1 DEF Bucket
    <3>2. CASE b = b0
      BY <1>1, <1>14, <2>1, <2>3, <3>1, <3>2
    <3>3. CASE b # b0
      <4>1. buckets'[b] = buckets[b] /\ buckets[b].n \in Nat /\ seen.probes[b] \in Nat
        BY <1>14, <2>2, <2>4, <3>1, <3>3 DEF AggregatesOK, Slots
      <4>2. buckets[b].n + (IF Owed(b) THEN 1 ELSE 0) <= seen.probes[b]
        BY <1>3, <2>4, <4>1 DEF ProbesOK
      <4>3. buckets[b].n <= seen.probes[b]
        BY <4>1, <4>2
      <4>4. QED
        BY <1>1, <2>1, <4>1, <4>3
    <3>4. QED
      BY <3>2, <3>3
  <2>5. QED
    BY <1>1, <1>2, <1>3, <2>4 DEF ProbesOK
<1>18. QED
  BY <1>15, <1>16, <1>17

LEMMA OnceInit == Init => OnceInv
<1> SUFFICES ASSUME Init PROVE RememberedOK /\ DimsOK /\ ProbesOK
  BY DEF OnceInv
<1>1. RememberedOK
  BY ThreadRests DEF Init, RememberedOK, EmptyRing, IdleThread
<1>2. DimsOK
  BY DEF Init, DimsOK
<1>3. ProbesOK
  BY DEF Init, ProbesOK, EmptyRing, IdleThread
<1>4. QED
  BY <1>1, <1>2, <1>3

LEMMA OnceStep ==
    ASSUME \A u, w \in Threads : u = w, StoreInv, RestInv, OnceInv, [Next]_vars
    PROVE  OnceInv'
<1>1. AggregatesOK /\ SeenOK /\ ring \in Ring /\ floor \in Nat /\ floor >= floor
  BY DEF RestInv, StoreInv, RingOK
<1>2. CASE \E t \in Threads : \E ts \in Stamps, s \in Reports : IngestRing(t, ts, s)
  BY <1>1, <1>2, OnceRing
<1>3. CASE \E t \in Threads : IngestBucket(t)
  BY <1>1, <1>3, OnceBucket
<1>4. CASE \E t \in Threads : IngestSeq(t) \/ IngestRecent(t) \/ IngestPending(t)
  <2>1. PICK t \in Threads : IngestSeq(t) \/ IngestRecent(t) \/ IngestPending(t)
    BY <1>4
  <2>2. UNCHANGED <<ring, floor, buckets, seen, restarts>>
    BY <2>1 DEF IngestSeq, IngestRecent, IngestPending
  <2>3. \E w : th' = [th EXCEPT ![t] = w] /\ w.pc # "bucket"
    <3>1. CASE IngestPending(t)
      <4>1. th' = [th EXCEPT ![t] = IdleThread] /\ IdleThread.pc # "bucket"
        BY <3>1, ThreadRests DEF IngestPending
      <4>2. QED
        BY <4>1
    <3>2. CASE IngestSeq(t)
      <4> DEFINE w == [th[t] EXCEPT !.pc = "recent", !.seq = seq]
      <4>1. th[t] \in ThreadOf(th[t])
        BY DEF StoreInv, ThreadsOK, ThreadOK
      <4>2. w.pc # "bucket"
        BY <4>1 DEF ThreadOf
      <4>3. th' = [th EXCEPT ![t] = w]
        BY <3>2 DEF IngestSeq
      <4> HIDE DEF w
      <4>4. QED
        BY <4>2, <4>3
    <3>3. CASE IngestRecent(t)
      <4> DEFINE w == [th[t] EXCEPT !.pc = "pending"]
      <4>1. th[t] \in ThreadOf(th[t])
        BY DEF StoreInv, ThreadsOK, ThreadOK
      <4>2. w.pc # "bucket"
        BY <4>1 DEF ThreadOf
      <4>3. th' = [th EXCEPT ![t] = w]
        BY <3>3 DEF IngestRecent
      <4> HIDE DEF w
      <4>4. QED
        BY <4>2, <4>3
    <3>4. QED
      BY <2>1, <3>1, <3>2, <3>3
  <2>4. PICK w : th' = [th EXCEPT ![t] = w] /\ w.pc # "bucket"
    BY <2>3
  <2>5. \A u \in Threads : th'[u] = IF u = t THEN w ELSE th[u]
    BY <2>4 DEF StoreInv, ThreadsOK
  <2>6. \A u \in Threads : th'[u].pc = "bucket" => th'[u] = th[u]
    BY <2>4, <2>5
  <2>7. QED
    BY <1>1, <2>2, <2>6, OnceQuiet
<1>5. CASE FlushTick
  <2> DEFINE c == Cut(now, RawKeep)
  <2>1. c \in Nat /\ Above(ring, floor)
    BY ConstantFacts DEF StoreInv, RingOK
  <2>2. /\ ring' = PruneRing(ring, floor, c).ring /\ floor' = PruneRing(ring, floor, c).floor
        /\ UNCHANGED <<buckets, seen, restarts, th>>
    BY <1>5 DEF FlushTick
  <2> HIDE DEF c
  <2>3. /\ floor' \in Nat /\ floor' >= floor
        /\ \A x \in Stamps : ring'[x] \in {NoSample, ring[x]}
        /\ \A x \in Stamps : ring'[x] = NoSample => x <= floor' \/ ring[x] = NoSample
    BY <1>1, <2>1, <2>2, PruneAbove
  <2>4. QED
    BY <1>1, <2>2, <2>3, OnceQuiet
<1>6. CASE PruneBuckets
  <2>1. /\ \A b \in Buckets : buckets'[b] \in {NoBucket, buckets[b]}
        /\ UNCHANGED <<ring, floor, seen, restarts, th>>
    BY <1>6 DEF PruneBuckets
  <2>2. QED
    BY <1>1, <2>1, OnceQuiet
<1>7. CASE PruneRecent \/ DrainPending \/ DrainDirty \/ Commit \/ BeginFails \/ CommitFails
           \/ Elapse \/ UNCHANGED vars
  <2>1. UNCHANGED <<ring, floor, buckets, seen, restarts, th>>
    BY <1>7 DEF PruneRecent, DrainPending, DrainDirty, Commit, BeginFails, CommitFails, Elapse, vars
  <2>2. QED
    BY <1>1, <2>1, OnceQuiet
<1>8. CASE Restart
  <2>1. restarts' = restarts + 1 /\ restarts \in 0..MaxRestarts
    BY <1>8 DEF Restart, RestInv, NumbersOK
  <2>2. restarts' # 0
    BY <2>1, TsdbAssumption
  <2>3. QED
    BY <2>2 DEF OnceInv
<1>9. QED
  BY <1>2, <1>3, <1>4, <1>5, <1>6, <1>7, <1>8 DEF Next, IngestStep, FlushStep

\* With one ingesting task at a time and up to the first crash, a bucket counts
\* each dimension of a second at most once, in however many reports the second
\* arrives, and no more probes than were accepted, whatever retention and
\* eviction do in between (ingest and AggBucket::merge of tsdb.rs).  Two tasks
\* may count a second in the order opposite to the one in which the ring merged
\* it, and then a dimension counts twice.
THEOREM OneWriterCountsOnce ==
    ASSUME \A u, w \in Threads : u = w
    PROVE  Spec => []CountedOnce
<1>1. ASSUME StoreInv, RestInv, OnceInv PROVE CountedOnce
  <2>1. SUFFICES ASSUME restarts = 0, NEW b \in Buckets, buckets[b] # NoBucket
                 PROVE  /\ buckets[b].n <= seen.probes[b]
                        /\ \A d \in Counted : buckets[b].dims[d]
                              <= Cardinality({t \in Stamps : BucketOf(t) = b /\ d \in seen.dims[t]})
    BY DEF CountedOnce
  <2>2. DimsOK /\ ProbesOK
    BY <1>1, <2>1 DEF OnceInv
  <2>3. buckets[b] \in Bucket /\ seen.probes[b] \in Nat
    BY <1>1, <2>1 DEF RestInv, AggregatesOK, Slots, SeenOK, SeenSet
  <2>4. buckets[b].n <= seen.probes[b]
    <3>1. buckets[b].n \in Nat /\ buckets[b].n + (IF Owed(b) THEN 1 ELSE 0) <= seen.probes[b]
      BY <2>1, <2>2, <2>3 DEF ProbesOK, Bucket
    <3>2. QED
      BY <2>3, <3>1
  <2>5. ASSUME NEW d \in Counted
        PROVE  buckets[b].dims[d]
                   <= Cardinality({t \in Stamps : BucketOf(t) = b /\ d \in seen.dims[t]})
    <3> DEFINE S == Contributors(b, d)
               T == {t \in Stamps : BucketOf(t) = b /\ d \in seen.dims[t]}
               U == {t \in Stamps : BucketOf(t) = b}
    <3>1. S \subseteq T /\ T \subseteq U
      BY DEF Contributors, Done
    <3>2. IsFiniteSet(U)
      BY BucketSpan
    <3>3. buckets[b].dims[d] \in Nat /\ buckets[b].dims[d] <= Cardinality(S)
      BY <2>1, <2>2, <2>3 DEF DimsOK, Bucket
    <3> HIDE DEF S, T, U
    <3>4. IsFiniteSet(T)
      BY <3>1, <3>2, FS_Subset
    <3>5. Cardinality(S) \in Nat /\ Cardinality(T) \in Nat /\ Cardinality(S) <= Cardinality(T)
      BY <3>1, <3>4, MoreMembers
    <3>6. buckets[b].dims[d] <= Cardinality(T)
      BY <3>3, <3>5
    <3>7. QED
      BY <3>6 DEF T
  <2>6. QED
    BY <2>4, <2>5
<1>2. StoreInv /\ RestInv /\ OnceInv /\ [Next]_vars => StoreInv' /\ RestInv' /\ OnceInv'
  BY StoreStep, RestStep, OnceStep
<1>3. Init => StoreInv /\ RestInv /\ OnceInv
  BY StoreInit, RestInit, OnceInit
<1>4. QED
  BY <1>1, <1>2, <1>3, PTL DEF Spec
=============================================================================
