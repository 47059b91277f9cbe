----------------------------- MODULE GossipProofs -----------------------------
(***************************************************************************)
(* Proofs about gossip, for every set of members, peers, tasks, time stamps *)
(* and reports, every ring capacity, delta limit and retention, and any    *)
(* number of lost, late and repeated pushes.                               *)
(***************************************************************************)
EXTENDS Gossip, NaturalsInduction, FiniteSetTheorems, TLAPS

-----------------------------------------------------------------------------
(* Extrema of sets of numbers.                                             *)

LEMMA Least ==
    ASSUME NEW S \in SUBSET Nat, S # {}
    PROVE  Min(S) \in S /\ \A x \in S : Min(S) <= x
<1> DEFINE R == {p \in Nat \X Nat : p[1] < p[2]}
<1>1. IsWellFoundedOn(R, Nat)
  BY NatLessThanWellFounded, Zenon DEF OpToRel
<1> HIDE DEF R
<1>2. PICK m \in S : \A y \in S : ~(<<y, m>> \in R)
  BY <1>1, WFMin, Zenon
<1>3. \A x, y \in Nat : x < y => <<x, y>> \in R
  BY DEF R
<1>4. ASSUME NEW y \in S PROVE m <= y
  <2>1. m \in Nat /\ y \in Nat
    BY <1>2
  <2>2. ~(y < m)
    BY <1>2, <1>3, <2>1, Zenon
  <2>3. QED
    BY <2>1, <2>2
<1>5. QED
  BY <1>4 DEF Min

LEMMA Greatest ==
    ASSUME NEW S \in SUBSET Nat, S # {}, NEW n \in Nat, \A x \in S : x <= n
    PROVE  Max(S) \in S /\ \A x \in S : x <= Max(S)
<1> DEFINE B == {k \in Nat : \A x \in S : x <= k}
<1>1. B \in SUBSET Nat /\ n \in B
  OBVIOUS
<1>2. PICK m \in B : \A y \in B : m <= y
  <2>1. Min(B) \in B /\ \A y \in B : Min(B) <= y
    <3> HIDE DEF B
    <3>1. QED
      BY <1>1, Least
  <2>2. QED
    BY <2>1
<1>3. m \in S
  <2>1. SUFFICES ASSUME m \notin S PROVE FALSE
    OBVIOUS
  <2>2. \A x \in S : x <= m /\ x # m
    BY <2>1
  <2>3. m # 0
    <3>1. PICK x \in S : TRUE
      OBVIOUS
    <3>2. QED
      BY <2>2, <3>1
  <2>4. m - 1 \in Nat /\ \A x \in S : x <= m - 1
    BY <2>2, <2>3
  <2>5. QED
    BY <1>2, <2>4
<1>4. QED
  BY <1>2, <1>3 DEF Max

LEMMA ElementOf ==
    ASSUME NEW X, NEW q \in Seq(X), NEW i \in 1..Len(q)
    PROVE  q[i] \in X
OBVIOUS

-----------------------------------------------------------------------------
(* What a member has.                                                      *)

LEMMA MergedType ==
    ASSUME NEW r \in Ring, NEW t \in Stamps, NEW s \in Sample
    PROVE  Merged(r, t, s) \in Sample /\ Merged(r, t, s) # NoSample
<1>1. r[t] \in Sample \cup {NoSample}
  BY DEF Ring
<1>2. \A x, y \in Sample : MergedWith(x, y) \in Sample
  BY DEF MergedWith, Sample
<1>3. Merged(r, t, s) \in Sample
  BY <1>1, <1>2 DEF Merged
<1>4. QED
  BY <1>3, SamplesAssumption

\* The stamps of a ring are bounded, and so finitely many.
Ends(r) == \E b \in Nat : \A t \in Stored(r) : t <= b

LEMMA StoredFinite ==
    ASSUME NEW r \in Ring, Ends(r)
    PROVE  IsFiniteSet(Stored(r)) /\ Stored(r) \in SUBSET Nat /\ Cardinality(Stored(r)) \in Nat
<1>1. PICK b \in Nat : \A t \in Stored(r) : t <= b
  BY DEF Ends
<1>2. Stored(r) \in SUBSET Nat
  BY SamplesAssumption DEF Stored
<1>3. Stored(r) \subseteq 0..b
  BY <1>1, <1>2
<1>4. IsFiniteSet(Stored(r))
  <2>1. IsFiniteSet(0..b)
    BY FS_Interval
  <2>2. QED
    BY <1>3, <2>1, FS_Subset
<1>5. QED
  BY <1>2, <1>4, FS_CardinalityType

LogEntry == [seq : Nat, ts : Stamps, s : Sample]

Got(x, e) == \A d \in Measured(e.s) : Covers(x, e.ts, d)

\* What x has, y has.
Keeps(x, y) == \A t \in Stamps, d \in Dims : Covers(x, t, d) => Covers(y, t, d)

LEMMA KeepsGot ==
    ASSUME NEW x, NEW y, Keeps(x, y), NEW e \in LogEntry \cup Entry, Got(x, e)
    PROVE  Got(y, e)
BY DEF Keeps, Got, LogEntry, Entry, Measured

\* The record, the queue and the watermarks of a member play no part in what it
\* has.
LEMMA SameRing ==
    ASSUME NEW x, NEW y, y.ring = x.ring, y.floor = x.floor
    PROVE  Keeps(x, y)
BY DEF Keeps, Covers

-----------------------------------------------------------------------------
(* Ingest.                                                                 *)

\* The ring with a sample in it, before an eviction.
Grow(r, t, s) == [r EXCEPT ![t] = Merged(r, t, s)]

\* An insertion evicts nothing, or the oldest.
Evicts(g, f, r2, f2) ==
    \/ r2 = g /\ f2 = f
    \/ \E old \in Stored(g) :
          /\ \A u \in Stored(g) : old <= u
          /\ r2 = [g EXCEPT ![old] = NoSample]
          /\ f2 \in Nat /\ f2 >= f /\ f2 >= old

LEMMA InsertCases ==
    ASSUME NEW r \in Ring, NEW f \in Nat, NEW t \in Stamps, NEW s \in Sample, Ends(r)
    PROVE  /\ Grow(r, t, s) \in Ring /\ Stored(Grow(r, t, s)) = Stored(r) \cup {t}
           /\ Grow(r, t, s)[t] = Merged(r, t, s) /\ Merged(r, t, s) # NoSample
           /\ \A u \in Stamps : u # t => Grow(r, t, s)[u] = r[u]
           /\ Ends(Grow(r, t, s))
           /\ Evicts(Grow(r, t, s), f, Insert(r, f, t, s).ring, Insert(r, f, t, s).floor)
<1> DEFINE m == Merged(r, t, s)
           g == Grow(r, t, s)
           new == Insert(r, f, t, s)
           old == Min(Stored(g))
<1>1. m \in Sample /\ m # NoSample
  BY MergedType
<1>2. new = IF Cardinality(Stored(g)) > RingCap
            THEN [ring |-> [g EXCEPT ![old] = NoSample], floor |-> Max({f, old})]
            ELSE [ring |-> g, floor |-> f]
  BY DEF Insert, Grow
<1> HIDE DEF m
<1>3. g \in Ring /\ g[t] = m /\ \A u \in Stamps : u # t => g[u] = r[u]
  BY <1>1 DEF Ring, Grow, m
<1>4. Stored(g) = Stored(r) \cup {t}
  BY <1>1, <1>3 DEF Stored
<1>5. Stored(g) \in SUBSET Nat /\ Stored(g) # {} /\ t \in Nat
  BY <1>4, SamplesAssumption DEF Stored
<1>6. Ends(g)
  <2>1. PICK b \in Nat : \A u \in Stored(r) : u <= b
    BY DEF Ends
  <2>2. b + t \in Nat
    BY <1>5
  <2>3. ASSUME NEW u \in Stored(g) PROVE u <= b + t
    <3>1. u \in Nat /\ (u = t \/ u <= b)
      BY <1>4, <1>5, <2>1
    <3>2. QED
      BY <1>5, <2>1, <3>1
  <2>4. QED
    BY <2>2, <2>3 DEF Ends
<1> HIDE DEF g
<1>7. old \in Stored(g) /\ \A u \in Stored(g) : old <= u
  BY <1>5, Least
<1>8. Max({f, old}) \in Nat /\ Max({f, old}) >= f /\ Max({f, old}) >= old
  <2> HIDE DEF old
  <2>0. old \in Nat
    BY <1>5, <1>7
  <2>1. {f, old} \in SUBSET Nat /\ f + old \in Nat /\ \A x \in {f, old} : x <= f + old
    BY <2>0
  <2>2. Max({f, old}) \in {f, old} /\ \A x \in {f, old} : x <= Max({f, old})
    BY <2>1, Greatest
  <2>3. QED
    BY <2>0, <2>1, <2>2
<1> HIDE DEF old, new
<1>9. Evicts(g, f, new.ring, new.floor)
  <2>1. CASE Cardinality(Stored(g)) > RingCap
    <3>1. new.ring = [g EXCEPT ![old] = NoSample] /\ new.floor = Max({f, old})
      BY <1>2, <2>1
    <3>2. QED
      BY <1>7, <1>8, <3>1 DEF Evicts
  <2>2. CASE ~(Cardinality(Stored(g)) > RingCap)
    <3>1. new.ring = g /\ new.floor = f
      BY <1>2, <2>2
    <3>2. QED
      BY <3>1 DEF Evicts
  <2>3. QED
    BY <2>1, <2>2
<1>10. QED
  BY <1>1, <1>3, <1>4, <1>6, <1>9 DEF m, g, new

\* A merge keeps what was measured, and takes what is measured now.
LEMMA MergedMeasures ==
    ASSUME NEW r \in Ring, NEW t \in Stamps, NEW s \in Sample, NEW d \in Dims
    PROVE  /\ d \in Measured(s) => Merged(r, t, s)[d] # NoVal
           /\ r[t] # NoSample /\ r[t][d] # NoVal => Merged(r, t, s)[d] # NoVal
BY DEF Merged, MergedWith, Measured

\* A member that accepts a sample has it, and has what it had.
LEMMA Accepted ==
    ASSUME NEW x \in Member, Ends(x.ring), NEW e \in Entry,
           Accepts(x.ring, x.floor, e.ts, e.s),
           NEW y, y.ring = Insert(x.ring, x.floor, e.ts, e.s).ring,
           y.floor = Insert(x.ring, x.floor, e.ts, e.s).floor
    PROVE  /\ y.ring \in Ring /\ y.floor \in Nat /\ Ends(y.ring) /\ Got(y, e)
           /\ \A t \in Stamps, d \in Dims : Covers(x, t, d) => Covers(y, t, d)
<1> DEFINE r == x.ring
           f == x.floor
           c == e.ts
           s == e.s
           m == Merged(r, c, s)
           g == Grow(r, c, s)
           Near(t, d) == \/ t <= f
                         \/ g[t] # NoSample /\ g[t][d] # NoVal
                         \/ Cardinality(Stored(g)) >= RingCap /\ \A u \in Stored(g) : u > t
<1>1. r \in Ring /\ f \in Nat /\ c \in Stamps /\ s \in Sample /\ Ends(r)
  BY DEF Member, Entry
<1>2. /\ g \in Ring /\ Stored(g) = Stored(r) \cup {c} /\ g[c] = m /\ m # NoSample
      /\ \A u \in Stamps : u # c => g[u] = r[u]
      /\ Ends(g)
      /\ Evicts(g, f, y.ring, y.floor)
  <2>1. y.ring = Insert(r, f, c, s).ring /\ y.floor = Insert(r, f, c, s).floor
    OBVIOUS
  <2> HIDE DEF r, f, c, s
  <2>2. QED
    BY <1>1, <2>1, InsertCases
<1>3. /\ \A d \in Dims : d \in Measured(s) => m[d] # NoVal
      /\ \A d \in Dims : r[c] # NoSample /\ r[c][d] # NoVal => m[d] # NoVal
  <2> HIDE DEF r, c, s
  <2>1. QED
    BY <1>1, MergedMeasures
<1>4. c > f /\ (r[c] = NoSample => Cardinality(Stored(r)) < RingCap \/ \E u \in Stored(r) : u < c)
  BY DEF Accepts
<1>5. /\ Stored(g) \in SUBSET Nat /\ Stored(r) \in SUBSET Nat
      /\ Cardinality(Stored(r)) \in Nat /\ Cardinality(Stored(g)) \in Nat
      /\ IsFiniteSet(Stored(g)) /\ Cardinality(Stored(r)) <= Cardinality(Stored(g))
  <2> HIDE DEF r, g
  <2>1. IsFiniteSet(Stored(g)) /\ Stored(g) \in SUBSET Nat /\ Cardinality(Stored(g)) \in Nat
    BY <1>2, StoredFinite
  <2>2. Stored(r) \subseteq Stored(g)
    BY <1>2
  <2>3. IsFiniteSet(Stored(r)) /\ Cardinality(Stored(r)) <= Cardinality(Stored(g))
    BY <2>1, <2>2, FS_Subset
  <2>4. QED
    BY <2>1, <2>2, <2>3, FS_CardinalityType
<1>6. RingCap \in Nat /\ c \in Nat /\ \A t \in Stamps : t \in Nat
  BY <1>1, SamplesAssumption
<1>7. ASSUME NEW t \in Stamps, NEW d \in Dims, Covers(x, t, d) PROVE Near(t, d)
  <2>1. CASE t <= f
    BY <2>1
  <2>2. CASE r[t] # NoSample /\ r[t][d] # NoVal
    <3>1. CASE t = c
      BY <1>2, <1>3, <2>2, <3>1
    <3>2. CASE t # c
      BY <1>2, <2>2, <3>2
    <3>3. QED
      BY <3>1, <3>2
  <2>3. CASE Cardinality(Stored(r)) >= RingCap /\ \A u \in Stored(r) : u > t
    <3>1. c > t
      <4>1. CASE r[c] # NoSample
        BY <1>1, <2>3, <4>1 DEF Stored
      <4>2. CASE r[c] = NoSample
        <5>1. PICK u \in Stored(r) : u < c
          BY <1>4, <1>5, <1>6, <2>3, <4>2
        <5>2. u > t /\ u \in Nat /\ t \in Nat
          BY <1>5, <1>6, <2>3
        <5>3. QED
          BY <1>6, <5>1, <5>2
      <4>3. QED
        BY <4>1, <4>2
    <3>2. \A u \in Stored(g) : u > t
      BY <1>2, <2>3, <3>1
    <3>3. Cardinality(Stored(g)) >= RingCap
      BY <1>5, <1>6, <2>3
    <3>4. QED
      BY <3>2, <3>3
  <2>4. QED
    BY <1>7, <2>1, <2>2, <2>3 DEF Covers
<1>8. ASSUME NEW d \in Dims, d \in Measured(s) PROVE Near(c, d)
  BY <1>2, <1>3, <1>8
<1> HIDE DEF g, r, f, c, s
<1>9. CASE y.ring = g /\ y.floor = f
  <2>1. \A t \in Stamps, d \in Dims : Near(t, d) => Covers(y, t, d)
    BY <1>9 DEF Covers
  <2>2. Got(y, e)
    BY <1>1, <1>8, <2>1 DEF Got, c, s, Measured
  <2>3. QED
    BY <1>1, <1>2, <1>7, <1>9, <2>1, <2>2
<1>10. CASE \E old \in Stored(g) :
               /\ \A u \in Stored(g) : old <= u
               /\ y.ring = [g EXCEPT ![old] = NoSample]
               /\ y.floor \in Nat /\ y.floor >= f /\ y.floor >= old
  <2>1. PICK old \in Stored(g) :
               /\ \A u \in Stored(g) : old <= u
               /\ y.ring = [g EXCEPT ![old] = NoSample]
               /\ y.floor \in Nat /\ y.floor >= f /\ y.floor >= old
    BY <1>10
  <2>2. old \in Nat /\ old \in Stamps
    BY <1>5 DEF Stored
  <2>3. y.ring \in Ring /\ \A u \in Stamps : u # old => y.ring[u] = g[u]
    BY <1>2, <2>1, <2>2 DEF Ring
  <2>4. Stored(y.ring) \subseteq Stored(g)
    BY <1>2, <2>1, <2>2 DEF Stored, Ring
  <2>5. Ends(y.ring)
    BY <1>2, <2>4 DEF Ends
  <2>6. ASSUME NEW t \in Stamps, NEW d \in Dims, Near(t, d) PROVE Covers(y, t, d)
    <3>1. t \in Nat
      BY <1>6
    <3>2. CASE t <= f
      BY <1>1, <2>1, <3>1, <3>2 DEF Covers
    <3>3. CASE g[t] # NoSample /\ g[t][d] # NoVal
      <4>1. CASE t = old
        BY <2>1, <2>2, <4>1 DEF Covers
      <4>2. CASE t # old
        BY <2>3, <3>3, <4>2 DEF Covers
      <4>3. QED
        BY <4>1, <4>2
    <3>4. CASE Cardinality(Stored(g)) >= RingCap /\ \A u \in Stored(g) : u > t
      <4>1. old > t
        BY <2>1, <3>4
      <4>2. t <= y.floor
        BY <2>1, <2>2, <3>1, <4>1
      <4>3. QED
        BY <4>2 DEF Covers
    <3>5. QED
      BY <2>6, <3>2, <3>3, <3>4
  <2>7. Got(y, e)
    BY <1>1, <1>8, <2>6 DEF Got, c, s, Measured
  <2>8. QED
    BY <1>7, <2>1, <2>3, <2>5, <2>6, <2>7
<1>11. QED
  BY <1>2, <1>9, <1>10 DEF Evicts

\* A member that refuses a sample had it.
LEMMA Refused ==
    ASSUME NEW x \in Member, Ends(x.ring), NEW e \in Entry,
           ~Accepts(x.ring, x.floor, e.ts, e.s)
    PROVE  Got(x, e)
<1>1. x.ring \in Ring /\ x.floor \in Nat /\ e.ts \in Stamps /\ e.s \in Sample /\ e.ts \in Nat
  BY SamplesAssumption DEF Member, Entry
<1>2. SUFFICES ASSUME NEW d \in Measured(e.s) PROVE Covers(x, e.ts, d)
  BY DEF Got
<1>3. CASE ~(e.ts > x.floor)
  BY <1>1, <1>3 DEF Covers
<1>4. CASE x.ring[e.ts] # NoSample /\ MergedWith(x.ring[e.ts], e.s) = x.ring[e.ts]
  <2>1. d \in Dims /\ e.s[d] # NoVal
    BY DEF Measured
  <2>2. MergedWith(x.ring[e.ts], e.s)[d] = e.s[d]
    BY <2>1 DEF MergedWith
  <2>3. QED
    BY <1>4, <2>1, <2>2 DEF Covers
<1>5. CASE /\ x.ring[e.ts] = NoSample /\ ~(Cardinality(Stored(x.ring)) < RingCap)
           /\ \A u \in Stored(x.ring) : ~(u < e.ts)
  <2>1. Cardinality(Stored(x.ring)) \in Nat /\ Stored(x.ring) \in SUBSET Nat /\ RingCap \in Nat
    BY <1>1, StoredFinite, SamplesAssumption
  <2>2. \A u \in Stored(x.ring) : u # e.ts
    BY <1>5 DEF Stored
  <2>3. \A u \in Stored(x.ring) : u > e.ts
    BY <1>1, <1>5, <2>1, <2>2
  <2>4. QED
    BY <1>5, <2>1, <2>3 DEF Covers
<1>6. QED
  BY <1>3, <1>4, <1>5 DEF Accepts

-----------------------------------------------------------------------------
(* Sequences.                                                              *)

\* A part of a sequence.
LEMMA PartOf ==
    ASSUME NEW X, NEW q \in Seq(X), NEW a \in Nat, NEW b \in Nat, a <= b, b <= Len(q)
    PROVE  /\ SubSeq(q, a + 1, b) \in Seq(X) /\ Len(SubSeq(q, a + 1, b)) = b - a
           /\ \A i \in 1..(b - a) : SubSeq(q, a + 1, b)[i] = q[a + i]
OBVIOUS

\* A sequence without its first element.
LEMMA TailOf ==
    ASSUME NEW X, NEW q \in Seq(X), q # <<>>
    PROVE  /\ Head(q) \in X /\ Head(q) = q[1] /\ 1 \in 1..Len(q)
           /\ Tail(q) \in Seq(X) /\ Len(Tail(q)) = Len(q) - 1 /\ Len(q) \in Nat
           /\ \A i \in 1..Len(Tail(q)) : i + 1 \in 1..Len(q) /\ Tail(q)[i] = q[i + 1]
OBVIOUS

\* A sequence with another first element.
LEMMA HeadReplaced ==
    ASSUME NEW X, NEW q \in Seq(X), q # <<>>, NEW e \in X
    PROVE  /\ [q EXCEPT ![1] = e] \in Seq(X) /\ Len([q EXCEPT ![1] = e]) = Len(q)
           /\ [q EXCEPT ![1] = e] # <<>> /\ Head([q EXCEPT ![1] = e]) = e
           /\ \A i \in 1..Len(q) : i > 1 => [q EXCEPT ![1] = e][i] = q[i]
<1> DEFINE r == [q EXCEPT ![1] = e]
<1>1. Len(q) \in Nat /\ 1 \in 1..Len(q) /\ DOMAIN q = 1..Len(q)
  BY TailOf
<1>2. DOMAIN r = 1..Len(q) /\ r[1] = e /\ \A i \in 1..Len(q) : i > 1 => r[i] = q[i]
  BY <1>1
<1>3. \A i \in 1..Len(q) : r[i] \in X
  BY <1>1, <1>2, ElementOf
<1>4. r = [i \in 1..Len(q) |-> r[i]]
  BY <1>2
<1> HIDE DEF r
<1>5. r \in Seq(X) /\ Len(r) = Len(q)
  BY <1>1, <1>2, <1>3, <1>4
<1>6. r # <<>> /\ Head(r) = e
  BY <1>1, <1>2, <1>5
<1>7. QED
  BY <1>2, <1>5, <1>6 DEF r

-----------------------------------------------------------------------------
(* Tasks.                                                                  *)

\* A task between the ring and the queue.
Busy(task) == task.pc \in {"accepted", "numbered"}

\* A busy task has a sample, and one that has none left has somebody to answer.
Filled(task) ==
    /\ Busy(task) => task.todo # <<>>
    /\ task.pc = "next" /\ task.todo = <<>> => task.from # NoMember

Same(e, f) == e.ts = f.ts /\ e.s = f.s

\* The task has yet to ingest a sample like e for member m.
Owes(task, m, e) ==
    /\ task.from = m
    /\ \E i \in 1..Len(task.todo) :
          /\ task.pc = "next" \/ (Busy(task) /\ i > 1)
          /\ Same(task.todo[i], e)

LEMMA LoadOK ==
    ASSUME NEW q \in Seq(Entry), NEW from \in Members \cup {NoMember}
    PROVE  /\ Load(q, from) \in Task /\ Filled(Load(q, from)) /\ ~Busy(Load(q, from))
           /\ Load(q, from).pc # "numbered" /\ Load(q, from).from = from
           /\ \A i \in 1..Len(q) : Load(q, from).pc = "next" /\ Load(q, from).todo = q
<1>1. CASE q = <<>> /\ from = NoMember
  <2>1. Load(q, from) = IdleTask
    BY <1>1 DEF Load
  <2>2. /\ IdleTask \in Task /\ Filled(IdleTask) /\ ~Busy(IdleTask)
        /\ IdleTask.pc # "numbered" /\ IdleTask.from = NoMember
    BY DEF IdleTask, Task, Filled, Busy
  <2>3. \A i \in 1..Len(q) : FALSE
    BY <1>1
  <2>4. QED
    BY <1>1, <2>1, <2>2, <2>3
<1>2. CASE ~(q = <<>> /\ from = NoMember)
  <2> DEFINE task == [pc |-> "next", todo |-> q, seq |-> 0, from |-> from]
  <2>1. Load(q, from) = task
    BY <1>2 DEF Load
  <2>2. task \in Task
    BY DEF Task
  <2>3. /\ task.pc = "next" /\ task.todo = q /\ task.from = from
    OBVIOUS
  <2> HIDE DEF task
  <2>4. Filled(task) /\ ~Busy(task)
    BY <1>2, <2>3 DEF Filled, Busy
  <2>5. QED
    BY <2>1, <2>2, <2>3, <2>4
<1>3. QED
  BY <1>1, <1>2

LEMMA IdleOK ==
    /\ IdleTask \in Task /\ Filled(IdleTask) /\ ~Busy(IdleTask) /\ IdleTask.pc = "idle"
    /\ IdleTask.from = NoMember
BY DEF IdleTask, Task, Filled, Busy

\* Nobody waits for an orphan; it goes on with what it has to ingest.
LEMMA OrphanOK ==
    ASSUME NEW task \in Task, Filled(task)
    PROVE  /\ Orphan(task) \in Task /\ Filled(Orphan(task)) /\ Orphan(task).from = NoMember
           /\ Orphan(task).pc = "numbered" <=> task.pc = "numbered"
           /\ Busy(Orphan(task)) <=> Busy(task)
           /\ Busy(task) => Orphan(task).todo = task.todo /\ Orphan(task).seq = task.seq
<1>1. CASE task.pc = "next" /\ task.todo = <<>>
  <2>1. Orphan(task) = IdleTask
    BY <1>1 DEF Orphan
  <2>2. QED
    BY <1>1, <2>1, IdleOK DEF Busy
<1>2. CASE ~(task.pc = "next" /\ task.todo = <<>>)
  <2>1. Orphan(task) = [task EXCEPT !.from = NoMember]
    BY <1>2 DEF Orphan
  <2>2. PICK t : t = [task EXCEPT !.from = NoMember]
    OBVIOUS
  <2>3. /\ t \in Task /\ t.from = NoMember /\ t.pc = task.pc /\ t.todo = task.todo
        /\ t.seq = task.seq
    BY <2>2 DEF Task
  <2>4. Filled(t) /\ (Busy(t) <=> Busy(task))
    BY <1>2, <2>3 DEF Filled, Busy
  <2>5. QED
    BY <2>1, <2>2, <2>3, <2>4
<1>3. QED
  BY <1>1, <1>2

\* The rest of a task is what it owes but for its first sample.
LEMMA DoneOK ==
    ASSUME NEW task \in Task, task.todo # <<>>, task.pc \in {"next", "accepted", "numbered"}
    PROVE  /\ Done(task) \in Task /\ Filled(Done(task)) /\ ~Busy(Done(task))
           /\ Done(task).pc # "numbered" /\ Done(task).from = task.from
           /\ \A m \in Members, e \in LogEntry :
                 Owes(task, m, e) =>
                    \/ Owes(Done(task), m, e)
                    \/ task.pc = "next" /\ Same(Head(task.todo), e)
<1> DEFINE q == task.todo
           d == Done(task)
<1>1. q \in Seq(Entry) /\ task.from \in Members \cup {NoMember}
  BY DEF Task
<1>2. /\ Head(q) = q[1] /\ Tail(q) \in Seq(Entry) /\ Len(Tail(q)) = Len(q) - 1 /\ Len(q) \in Nat
      /\ \A i \in 1..Len(Tail(q)) : Tail(q)[i] = q[i + 1]
  BY <1>1, TailOf
<1>3. d = Load(Tail(q), task.from)
  BY DEF Done
<1>4. /\ d \in Task /\ Filled(d) /\ ~Busy(d) /\ d.pc # "numbered" /\ d.from = task.from
      /\ \A i \in 1..Len(Tail(q)) : d.pc = "next" /\ d.todo = Tail(q)
  <2> HIDE DEF d, q
  <2>1. QED
    BY <1>1, <1>2, <1>3, LoadOK
<1> HIDE DEF d
<1>5. ASSUME NEW m \in Members, NEW e \in LogEntry, Owes(task, m, e)
      PROVE  Owes(d, m, e) \/ (task.pc = "next" /\ Same(Head(q), e))
  <2>1. PICK i \in 1..Len(q) : /\ task.pc = "next" \/ (Busy(task) /\ i > 1)
                               /\ Same(q[i], e)
    BY <1>5 DEF Owes
  <2>2. CASE i = 1
    BY <1>2, <2>1, <2>2
  <2>3. CASE i # 1
    <3>1. i - 1 \in 1..Len(Tail(q)) /\ (i - 1) + 1 = i
      BY <1>2, <2>3
    <3>2. d.pc = "next" /\ d.todo = Tail(q) /\ Tail(q)[i - 1] = q[i]
      BY <1>2, <1>4, <3>1
    <3>3. i - 1 \in 1..Len(d.todo) /\ Same(d.todo[i - 1], e) /\ d.from = m
      BY <1>4, <1>5, <2>1, <3>1, <3>2 DEF Owes
    <3>4. QED
      BY <3>2, <3>3 DEF Owes
  <2>4. QED
    BY <2>2, <2>3
<1>6. QED
  BY <1>4, <1>5 DEF d

-----------------------------------------------------------------------------
(* Types, and tasks that have what they need.                              *)

Sound ==
    /\ TypeOK
    /\ \A m \in Members : Ends(mem[m].ring)
    /\ \A m \in Members, w \in Tasks : Filled(work[m][w])

Stores == [Members -> {x \in Member : Ends(x.ring)}]

Works == [Members -> [Tasks -> {task \in Task : Filled(task)}]]

Pushes == [Members -> [Members -> Push]]

LEMMA SoundSays ==
    Sound <=> /\ mem \in Stores /\ work \in Works /\ push \in Pushes
              /\ late \subseteq Request /\ reordered \subseteq Members
              /\ now \in 0..MaxNow /\ puts \in 0..MaxPuts /\ restarts \in 0..MaxRestarts
<1>1. mem \in [Members -> Member] /\ (\A m \in Members : Ends(mem[m].ring)) <=> mem \in Stores
  BY DEF Stores
<1>2. /\ work \in [Members -> [Tasks -> Task]]
      /\ \A m \in Members, w \in Tasks : Filled(work[m][w])
      <=> work \in Works
  <2>1. ASSUME work \in [Members -> [Tasks -> Task]],
               \A m \in Members, w \in Tasks : Filled(work[m][w])
        PROVE  work \in Works
    <3>1. ASSUME NEW m \in Members PROVE work[m] \in [Tasks -> {task \in Task : Filled(task)}]
      <4>1. work[m] \in [Tasks -> Task] /\ \A w \in Tasks : Filled(work[m][w])
        BY <2>1
      <4>2. QED
        BY <4>1
    <3>2. QED
      BY <2>1, <3>1 DEF Works
  <2>2. ASSUME work \in Works
        PROVE  /\ work \in [Members -> [Tasks -> Task]]
               /\ \A m \in Members, w \in Tasks : Filled(work[m][w])
    <3>1. ASSUME NEW m \in Members
          PROVE  work[m] \in [Tasks -> Task] /\ \A w \in Tasks : Filled(work[m][w])
      <4>1. work[m] \in [Tasks -> {task \in Task : Filled(task)}]
        BY <2>2 DEF Works
      <4>2. QED
        BY <4>1
    <3>2. work \in [Members -> [Tasks -> Task]]
      BY <2>2, <3>1 DEF Works
    <3>3. QED
      BY <3>1, <3>2
  <2>3. QED
    BY <2>1, <2>2
<1>3. QED
  BY <1>1, <1>2 DEF Sound, TypeOK, Pushes

LEMMA SoundWhen ==
    ASSUME mem' \in Stores, work' \in Works, push' \in Pushes,
           late' \subseteq Request, reordered' \subseteq Members,
           now' \in 0..MaxNow, puts' \in 0..MaxPuts, restarts' \in 0..MaxRestarts
    PROVE  Sound'
<1>1. (/\ mem \in Stores /\ work \in Works /\ push \in Pushes
       /\ late \subseteq Request /\ reordered \subseteq Members
       /\ now \in 0..MaxNow /\ puts \in 0..MaxPuts /\ restarts \in 0..MaxRestarts
       => Sound)'
  BY SoundSays, PTL
<1>2. QED
  BY <1>1

LEMMA Parts ==
    ASSUME Sound, NEW m \in Members
    PROVE  /\ mem[m] \in Member /\ Ends(mem[m].ring)
           /\ mem[m].kv \in Record \cup {NoRec} /\ mem[m].ring \in Ring /\ mem[m].floor \in Nat
           /\ mem[m].log \in Seq(LogEntry) /\ mem[m].seq \in Nat
           /\ mem[m].sent \in [Members -> Nat]
           /\ work[m] \in [Tasks -> Task]
           /\ \A w \in Tasks : work[m][w] \in Task /\ Filled(work[m][w])
           /\ push[m] \in [Members -> Push]
           /\ \A p \in Members : push[m][p] \in Push
<1>1. mem \in Stores /\ work \in Works /\ push \in Pushes
  BY SoundSays
<1>2. mem[m] \in Member /\ Ends(mem[m].ring)
  BY <1>1 DEF Stores
<1>3. /\ work[m] \in [Tasks -> Task]
      /\ \A w \in Tasks : work[m][w] \in Task /\ Filled(work[m][w])
  <2>1. work[m] \in [Tasks -> {task \in Task : Filled(task)}]
    BY <1>1 DEF Works
  <2>2. QED
    BY <2>1
<1>4. push[m] \in [Members -> Push]
  BY <1>1 DEF Pushes
<1>5. QED
  BY <1>2, <1>3, <1>4 DEF Member, LogEntry

\* One member's stores, or one of its tasks, or one push.
LEMMA OneStore ==
    ASSUME Sound, NEW m \in Members, NEW y \in Member, Ends(y.ring),
           mem' = [mem EXCEPT ![m] = y]
    PROVE  mem' \in Stores /\ mem'[m] = y /\ \A n \in Members \ {m} : mem'[n] = mem[n]
<1>1. mem \in Stores
  BY SoundSays
<1>2. y \in {x \in Member : Ends(x.ring)}
  OBVIOUS
<1>3. QED
  BY <1>1, <1>2 DEF Stores

LEMMA OneTask ==
    ASSUME Sound, NEW m \in Members, NEW w \in Tasks, NEW task \in Task, Filled(task),
           work' = [work EXCEPT ![m][w] = task]
    PROVE  /\ work' \in Works /\ work'[m][w] = task
           /\ \A v \in Tasks \ {w} : work'[m][v] = work[m][v]
           /\ \A n \in Members \ {m} : work'[n] = work[n]
<1>1. work \in [Members -> [Tasks -> {t \in Task : Filled(t)}]]
  BY SoundSays DEF Works
<1>2. task \in {t \in Task : Filled(t)}
  OBVIOUS
<1> DEFINE T == {t \in Task : Filled(t)}
<1>3. work \in [Members -> [Tasks -> T]] /\ task \in T
  BY <1>1, <1>2
<1>4. work' \in [Members -> [Tasks -> T]] => work' \in Works
  BY DEF Works
<1> HIDE DEF T
<1>5. QED
  BY <1>3, <1>4

LEMMA OnePush ==
    ASSUME Sound, NEW m \in Members, NEW p \in Members, NEW q \in Push,
           push' = [push EXCEPT ![m][p] = q]
    PROVE  /\ push' \in Pushes /\ push'[m][p] = q
           /\ \A r \in Members \ {p} : push'[m][r] = push[m][r]
           /\ \A n \in Members \ {m} : push'[n] = push[n]
<1>1. push \in Pushes
  BY SoundSays
<1>2. QED
  BY <1>1 DEF Pushes

LEMMA RecordType ==
    ASSUME NEW a \in Record \cup {NoRec}, NEW b \in Record \cup {NoRec}
    PROVE  /\ LwwMerge(a, b) \in Record \cup {NoRec}
           /\ a # NoRec /\ LwwMerge(a, b) # NoRec => LwwMerge(a, b).ts >= a.ts
BY DEF LwwMerge, Record

\* A member with another record.
LEMMA OnlyRecord ==
    ASSUME NEW x \in Member, NEW rec \in Record \cup {NoRec}, NEW y, y = [x EXCEPT !.kv = rec]
    PROVE  /\ y \in Member /\ y.kv = rec /\ y.ring = x.ring /\ y.floor = x.floor
           /\ y.log = x.log /\ y.seq = x.seq /\ y.sent = x.sent
BY DEF Member

-----------------------------------------------------------------------------
(* What the steps of a task do.                                            *)

Still == UNCHANGED <<push, late, now, puts, restarts, reordered>>

\* The store of a member with e in its ring.
Taken(x, y, e) ==
    /\ y \in Member /\ Ends(y.ring)
    /\ y.ring = Insert(x.ring, x.floor, e.ts, e.s).ring
    /\ y.floor = Insert(x.ring, x.floor, e.ts, e.s).floor
    /\ y.kv = x.kv /\ y.log = x.log /\ y.seq = x.seq /\ y.sent = x.sent

\* The task t goes on as u, about to number what the ring of x holds of e.
Accepting(x, t, u, e) ==
    /\ u \in Task /\ Filled(u) /\ u.pc = "accepted" /\ u.todo # <<>>
    /\ Head(u.todo) = [ts |-> e.ts, s |-> Merged(x.ring, e.ts, e.s)]
    /\ u.from \in {t.from, NoMember}
    /\ \A n \in Members, f \in LogEntry : Owes(t, n, f) => Owes(u, n, f) \/ Same(e, f)

\* A sample is accepted: by a report, or as a task's next one.
Takes(m, w) ==
    \E e \in Entry, y \in Member, u \in Task :
        /\ Accepts(mem[m].ring, mem[m].floor, e.ts, e.s)
        /\ Taken(mem[m], y, e) /\ Accepting(mem[m], work[m][w], u, e)
        /\ ~Busy(work[m][w])
        /\ mem' = [mem EXCEPT ![m] = y] /\ work' = [work EXCEPT ![m][w] = u]
        /\ Still

LEMMA TakenWhen ==
    ASSUME NEW x \in Member, Ends(x.ring), NEW e \in Entry,
           Accepts(x.ring, x.floor, e.ts, e.s), NEW new,
           new = Insert(x.ring, x.floor, e.ts, e.s),
           NEW y, y = [x EXCEPT !.ring = new.ring, !.floor = new.floor]
    PROVE  Taken(x, y, e)
<1>1. /\ y.ring = new.ring /\ y.floor = new.floor
      /\ y.kv = x.kv /\ y.log = x.log /\ y.seq = x.seq /\ y.sent = x.sent
  BY DEF Member
<1>2. y.ring \in Ring /\ y.floor \in Nat /\ Ends(y.ring)
  <2>1. /\ y.ring = Insert(x.ring, x.floor, e.ts, e.s).ring
        /\ y.floor = Insert(x.ring, x.floor, e.ts, e.s).floor
    BY <1>1
  <2>2. QED
    BY ONLY x \in Member, Ends(x.ring), e \in Entry, Accepts(x.ring, x.floor, e.ts, e.s),
            <2>1, Accepted
<1>3. y \in Member
  <2>1. new.ring \in Ring /\ new.floor \in Nat
    BY <1>1, <1>2
  <2>2. QED
    BY <2>1 DEF Member
<1>4. QED
  BY <1>1, <1>2, <1>3 DEF Taken

LEMMA HeldType ==
    ASSUME NEW x \in Member, NEW e \in Entry, NEW f,
           f = [ts |-> e.ts, s |-> Merged(x.ring, e.ts, e.s)]
    PROVE  f \in Entry /\ f.ts = e.ts /\ f.s = Merged(x.ring, e.ts, e.s)
<1>1. x.ring \in Ring /\ e.ts \in Stamps /\ e.s \in Sample
  BY DEF Member, Entry
<1>2. Merged(x.ring, e.ts, e.s) \in Sample
  BY <1>1, MergedType
<1>3. QED
  BY <1>1, <1>2 DEF Entry

LEMMA ReportTakes ==
    ASSUME Sound, NEW m \in Members, NEW w \in Tasks, NEW ts \in Stamps, NEW s \in Reports,
           Report(m, w, ts, s)
    PROVE  Takes(m, w)
<1> DEFINE x == mem[m]
           e == [ts |-> ts, s |-> s]
           new == Insert(x.ring, x.floor, ts, s)
           y == [x EXCEPT !.ring = new.ring, !.floor = new.floor]
           f == [ts |-> ts, s |-> Merged(x.ring, ts, s)]
           u == [pc |-> "accepted", todo |-> <<f>>, seq |-> 0, from |-> NoMember]
<1>1. x \in Member /\ Ends(x.ring) /\ work[m][w] \in Task
  BY Parts
<1>2. e \in Entry /\ e.ts = ts /\ e.s = s
  BY GossipAssumption DEF Entry, Reportable
<1>3. Accepts(x.ring, x.floor, e.ts, e.s) /\ work[m][w].pc = "idle" /\ Still
  BY <1>2 DEF Report, Still
<1>4. mem' = [mem EXCEPT ![m] = y] /\ work' = [work EXCEPT ![m][w] = u]
  BY DEF Report
<1>5. new = Insert(x.ring, x.floor, e.ts, e.s) /\ f = [ts |-> e.ts, s |-> Merged(x.ring, e.ts, e.s)]
  BY <1>2
<1> HIDE DEF x, e, new, f
<1>6. Taken(x, y, e)
  BY <1>1, <1>2, <1>3, <1>5, TakenWhen
<1>7. f \in Entry
  BY <1>1, <1>2, <1>5, HeldType
<1>8. u \in Task /\ u.pc = "accepted" /\ u.todo = <<f>> /\ u.from = NoMember
  <2>1. <<f>> \in Seq(Entry)
    BY <1>7
  <2>2. QED
    BY <2>1 DEF Task
<1> HIDE DEF y, u
<1>9. u.todo # <<>> /\ Head(u.todo) = f /\ Filled(u)
  BY <1>8 DEF Filled
<1>10. ~Busy(work[m][w]) /\ \A n \in Members, g \in LogEntry : ~Owes(work[m][w], n, g)
  BY <1>3 DEF Busy, Owes
<1>11. Accepting(x, work[m][w], u, e)
  BY <1>5, <1>8, <1>9, <1>10 DEF Accepting
<1>12. y \in Member
  BY <1>6 DEF Taken
<1>13. QED
  BY <1>2, <1>3, <1>4, <1>6, <1>8, <1>10, <1>11, <1>12 DEF Takes, x

LEMMA AcceptTakes ==
    ASSUME Sound, NEW m \in Members, NEW w \in Tasks, Accept(m, w)
    PROVE  Takes(m, w)
<1> DEFINE x == mem[m]
           task == work[m][w]
           e == Head(task.todo)
           new == Insert(x.ring, x.floor, e.ts, e.s)
           y == [x EXCEPT !.ring = new.ring, !.floor = new.floor]
           f == [ts |-> e.ts, s |-> Merged(x.ring, e.ts, e.s)]
           q == task.todo
           r == [q EXCEPT ![1] = f]
           u == [task EXCEPT !.pc = "accepted", !.todo = r]
<1>1. x \in Member /\ Ends(x.ring) /\ task \in Task /\ q \in Seq(Entry)
  <2>1. x \in Member /\ Ends(x.ring) /\ task \in Task
    BY Parts
  <2>2. QED
    BY <2>1 DEF Task
<1>2. /\ task.pc = "next" /\ q # <<>> /\ Accepts(x.ring, x.floor, e.ts, e.s) /\ Still
      /\ mem' = [mem EXCEPT ![m] = y]
  BY DEF Accept, Still
<1>3. work' = [work EXCEPT ![m][w] = u]
  <2>1. work' = [work EXCEPT ![m][w] = [task EXCEPT !.pc = "accepted", !.todo[1] = f]]
    BY DEF Accept
  <2>2. [task EXCEPT !.pc = "accepted", !.todo[1] = f] = u
    BY <1>1 DEF Task
  <2>3. QED
    BY <2>1, <2>2
<1>4. e \in Entry /\ e = q[1]
  <2> HIDE DEF q
  <2>1. Head(q) \in Entry /\ Head(q) = q[1]
    BY <1>1, <1>2, TailOf
  <2>2. QED
    BY <2>1 DEF q
<1> HIDE DEF e
<1>5. Taken(x, y, e)
  <2>1. new = Insert(x.ring, x.floor, e.ts, e.s)
    OBVIOUS
  <2> HIDE DEF new, x
  <2>2. QED
    BY <1>1, <1>2, <1>4, <2>1, TakenWhen
<1>6. f \in Entry
  <2>1. f = [ts |-> e.ts, s |-> Merged(x.ring, e.ts, e.s)]
    OBVIOUS
  <2> HIDE DEF f, x
  <2>2. QED
    BY <1>1, <1>4, <2>1, HeldType
<1> HIDE DEF x, y, new
<1>7. /\ r \in Seq(Entry) /\ Len(r) = Len(q) /\ r # <<>> /\ Head(r) = f
      /\ \A i \in 1..Len(q) : i > 1 => r[i] = q[i]
  <2> HIDE DEF f, q
  <2>1. QED
    BY <1>1, <1>2, <1>6, HeadReplaced
<1>8. u \in Task /\ u.pc = "accepted" /\ u.todo = r /\ u.from = task.from
  <2> HIDE DEF r, task
  <2>1. QED
    BY <1>1, <1>7 DEF Task
<1>9. ASSUME NEW n \in Members, NEW g \in LogEntry, Owes(task, n, g)
      PROVE  Owes(u, n, g) \/ Same(e, g)
  <2>1. PICK i \in 1..Len(q) : Same(q[i], g)
    BY <1>9 DEF Owes
  <2>2. task.from = n /\ Len(q) \in Nat
    BY <1>1, <1>9 DEF Owes
  <2> HIDE DEF u, r, task, q
  <2>3. CASE i = 1
    BY <1>4, <2>1, <2>3
  <2>4. CASE i # 1
    <3>1. i > 1 /\ r[i] = q[i]
      BY <1>7, <2>2, <2>4
    <3>2. u.from = n /\ Busy(u) /\ i \in 1..Len(u.todo) /\ Same(u.todo[i], g)
      BY <1>7, <1>8, <2>1, <2>2, <3>1 DEF Busy
    <3>3. QED
      BY <3>1, <3>2 DEF Owes
  <2>5. QED
    BY <2>3, <2>4
<1>10. ~Busy(task)
  BY <1>2 DEF Busy
<1> HIDE DEF u, r, f
<1>11. Filled(u) /\ u.todo # <<>> /\ Head(u.todo) = f
  BY <1>7, <1>8 DEF Filled
<1>12. Accepting(x, task, u, e)
  <2> HIDE DEF task
  <2>1. QED
    BY <1>8, <1>9, <1>11 DEF Accepting, f
<1>13. y \in Member
  BY <1>5 DEF Taken
<1>14. QED
  BY <1>2, <1>3, <1>4, <1>5, <1>8, <1>10, <1>12, <1>13 DEF Takes, x

LEMMA TakesSound ==
    ASSUME Sound, NEW m \in Members, NEW w \in Tasks, Takes(m, w)
    PROVE  Sound'
<1>1. PICK e \in Entry, y \in Member, u \in Task :
          /\ Taken(mem[m], y, e) /\ Accepting(mem[m], work[m][w], u, e)
          /\ mem' = [mem EXCEPT ![m] = y] /\ work' = [work EXCEPT ![m][w] = u]
          /\ Still
  BY DEF Takes
<1>2. Ends(y.ring) /\ Filled(u)
  BY <1>1 DEF Taken, Accepting
<1>3. mem' \in Stores
  BY <1>1, <1>2, OneStore
<1>4. work' \in Works
  BY <1>1, <1>2, OneTask
<1>5. QED
  <2>1. /\ push' \in Pushes /\ late' \subseteq Request /\ reordered' \subseteq Members
        /\ now' \in 0..MaxNow /\ puts' \in 0..MaxPuts /\ restarts' \in 0..MaxRestarts
    BY <1>1, SoundSays DEF Still, Pushes
  <2>2. QED
    BY <1>3, <1>4, <2>1, SoundWhen

\* The next sample is refused: the member has it.
LEMMA RefuseDoes ==
    ASSUME Sound, NEW m \in Members, NEW w \in Tasks, Refuse(m, w)
    PROVE  /\ work[m][w].pc = "next" /\ work[m][w].todo # <<>>
           /\ Head(work[m][w].todo) \in Entry /\ Got(mem[m], Head(work[m][w].todo))
           /\ mem' = mem /\ work' = [work EXCEPT ![m][w] = Done(work[m][w])] /\ Still
           /\ Sound'
<1> DEFINE task == work[m][w]
           e == Head(task.todo)
<1>1. mem[m] \in Member /\ Ends(mem[m].ring) /\ task \in Task /\ task.todo \in Seq(Entry)
  <2>1. mem[m] \in Member /\ Ends(mem[m].ring) /\ task \in Task
    BY Parts
  <2>2. QED
    BY <2>1 DEF Task
<1>2. /\ task.pc = "next" /\ task.todo # <<>> /\ ~Accepts(mem[m].ring, mem[m].floor, e.ts, e.s)
      /\ mem' = mem /\ work' = [work EXCEPT ![m][w] = Done(task)] /\ Still
  BY DEF Refuse, Still
<1> HIDE DEF task
<1>3. e \in Entry
  BY <1>1, <1>2, TailOf
<1> HIDE DEF e
<1>4. Got(mem[m], e)
  BY <1>1, <1>2, <1>3, Refused
<1>5. Done(task) \in Task /\ Filled(Done(task))
  BY <1>1, <1>2, DoneOK
<1>6. work' \in Works
  BY <1>2, <1>5, OneTask
<1>7. /\ mem' \in Stores /\ push' \in Pushes /\ late' \subseteq Request
      /\ reordered' \subseteq Members
      /\ now' \in 0..MaxNow /\ puts' \in 0..MaxPuts /\ restarts' \in 0..MaxRestarts
  BY <1>2, SoundSays DEF Still, Pushes, Stores
<1>8. Sound'
  BY <1>6, <1>7, SoundWhen
<1>9. QED
  BY <1>2, <1>3, <1>4, <1>8 DEF task, e

LEMMA NumberDoes ==
    ASSUME Sound, NEW m \in Members, NEW w \in Tasks, Number(m, w)
    PROVE  /\ \E y \in Member, u \in Task :
              /\ y.ring = mem[m].ring /\ y.floor = mem[m].floor /\ y.kv = mem[m].kv
              /\ y.log = mem[m].log /\ y.sent = mem[m].sent /\ y.seq = mem[m].seq + 1
              /\ work[m][w].pc = "accepted" /\ u.pc = "numbered" /\ u.seq = mem[m].seq
              /\ u.todo = work[m][w].todo /\ u.from = work[m][w].from /\ Filled(u)
              /\ mem' = [mem EXCEPT ![m] = y] /\ work' = [work EXCEPT ![m][w] = u]
           /\ Still /\ Sound'
<1>1. /\ mem[m] \in Member /\ Ends(mem[m].ring) /\ mem[m].seq \in Nat
      /\ work[m][w] \in Task /\ Filled(work[m][w])
  BY Parts
<1>2. /\ work[m][w].pc = "accepted" /\ Still
      /\ work' = [work EXCEPT ![m][w] =
            [work[m][w] EXCEPT !.pc = "numbered", !.seq = mem[m].seq]]
      /\ mem' = [mem EXCEPT ![m] = [mem[m] EXCEPT !.seq = mem[m].seq + 1]]
  BY DEF Number, Still
<1>3. PICK y : y = [mem[m] EXCEPT !.seq = mem[m].seq + 1]
  OBVIOUS
<1>4. PICK u : u = [work[m][w] EXCEPT !.pc = "numbered", !.seq = mem[m].seq]
  OBVIOUS
<1>5. /\ y \in Member /\ y.ring = mem[m].ring /\ y.floor = mem[m].floor /\ y.kv = mem[m].kv
      /\ y.log = mem[m].log /\ y.sent = mem[m].sent /\ y.seq = mem[m].seq + 1
  <2>1. mem[m].seq + 1 \in Nat
    BY ONLY <1>1
  <2>2. y \in Member /\ y.seq = mem[m].seq + 1
    BY ONLY <1>1, <1>3, <2>1 DEF Member
  <2>3. y.ring = mem[m].ring /\ y.floor = mem[m].floor /\ y.kv = mem[m].kv
    BY ONLY <1>1, <1>3 DEF Member
  <2>4. y.log = mem[m].log /\ y.sent = mem[m].sent
    BY ONLY <1>1, <1>3 DEF Member
  <2>5. QED
    BY <2>2, <2>3, <2>4
<1>6. /\ u \in Task /\ u.pc = "numbered" /\ u.seq = mem[m].seq
      /\ u.todo = work[m][w].todo /\ u.from = work[m][w].from
  BY <1>1, <1>4 DEF Task
<1>7. Filled(u)
  BY <1>1, <1>2, <1>6 DEF Filled, Busy
<1>8. mem' = [mem EXCEPT ![m] = y] /\ work' = [work EXCEPT ![m][w] = u]
  BY <1>2, <1>3, <1>4
<1>9. Sound'
  <2>1. mem' \in Stores
    BY <1>1, <1>5, <1>8, OneStore
  <2>2. work' \in Works
    BY <1>6, <1>7, <1>8, OneTask
  <2>3. /\ push' \in Pushes /\ late' \subseteq Request /\ reordered' \subseteq Members
        /\ now' \in 0..MaxNow /\ puts' \in 0..MaxPuts /\ restarts' \in 0..MaxRestarts
    BY <1>2, SoundSays DEF Still, Pushes
  <2>4. QED
    BY <2>1, <2>2, <2>3, SoundWhen
<1>10. QED
  BY <1>2, <1>5, <1>6, <1>7, <1>8, <1>9

\* The queue with one more entry.
LEMMA Appended ==
    ASSUME NEW q \in Seq(LogEntry), NEW n \in LogEntry
    PROVE  /\ Append(q, n) \in Seq(LogEntry) /\ Len(Append(q, n)) = Len(q) + 1
           /\ Len(q) \in Nat /\ Append(q, n)[Len(q) + 1] = n
           /\ \A i \in 1..Len(q) : Append(q, n)[i] = q[i]
           /\ \A i \in 1..Len(Append(q, n)) : i \in 1..Len(q) \/ i = Len(q) + 1
           /\ \A i \in 1..Len(q) : i # Len(q) + 1
OBVIOUS

LEMMA QueueDoes ==
    ASSUME Sound, NEW m \in Members, NEW w \in Tasks, Queue(m, w)
    PROVE  /\ \E y \in Member, n \in LogEntry :
              /\ y.ring = mem[m].ring /\ y.floor = mem[m].floor /\ y.kv = mem[m].kv
              /\ y.sent = mem[m].sent /\ y.seq = mem[m].seq
              /\ y.log = Append(mem[m].log, n) /\ n.seq = work[m][w].seq
              /\ Same(n, Head(work[m][w].todo))
              /\ mem' = [mem EXCEPT ![m] = y]
           /\ work[m][w].pc = "numbered" /\ work[m][w].todo # <<>>
           /\ work' = [work EXCEPT ![m][w] = Done(work[m][w])]
           /\ push' = push /\ late' = late /\ now' = now /\ puts' = puts /\ restarts' = restarts
           /\ reordered \subseteq reordered'
           /\ m \notin reordered' =>
                 \A v \in Tasks : work[m][v].pc = "numbered" =>
                    ~(work[m][v].seq < work[m][w].seq)
           /\ Sound'
<1> DEFINE task == work[m][w]
           e == Head(task.todo)
           n == [seq |-> task.seq, ts |-> e.ts, s |-> e.s]
           l == Append(mem[m].log, n)
<1>1. /\ mem[m] \in Member /\ Ends(mem[m].ring) /\ mem[m].log \in Seq(LogEntry)
      /\ task \in Task /\ Filled(task)
  BY Parts
<1>2. task.pc = "numbered" /\ task.todo # <<>>
  BY <1>1 DEF Queue, Filled, Busy
<1>3. n \in LogEntry /\ n.seq = task.seq /\ Same(n, e)
  <2>1. task.todo \in Seq(Entry) /\ task.seq \in Nat
    BY <1>1 DEF Task
  <2>2. e \in Entry
    <3> HIDE DEF task
    <3>1. QED
      BY <1>2, <2>1, TailOf
  <2>3. e.ts \in Stamps /\ e.s \in Sample
    BY <2>2 DEF Entry
  <2> HIDE DEF e
  <2>4. QED
    BY <2>1, <2>3 DEF LogEntry, Same
<1>4. /\ mem' = [mem EXCEPT ![m] = [mem[m] EXCEPT !.log = l]]
      /\ work' = [work EXCEPT ![m][w] = Done(task)]
      /\ push' = push /\ late' = late /\ now' = now /\ puts' = puts /\ restarts' = restarts
      /\ reordered' = IF \E v \in Tasks : /\ work[m][v].pc = "numbered"
                                         /\ work[m][v].seq < task.seq
                      THEN reordered \cup {m} ELSE reordered
  BY <1>1 DEF Queue, Member
<1>5. /\ reordered \subseteq reordered' /\ reordered' \subseteq reordered \cup {m}
      /\ m \notin reordered' => \A v \in Tasks : work[m][v].pc = "numbered" =>
                                   ~(work[m][v].seq < task.seq)
  BY <1>4
<1> HIDE DEF n
<1>6. l \in Seq(LogEntry)
  BY <1>1, <1>3, Appended
<1> HIDE DEF e
<1>7. PICK y : y = [mem[m] EXCEPT !.log = l]
  OBVIOUS
<1>8. /\ y \in Member /\ y.ring = mem[m].ring /\ y.floor = mem[m].floor /\ y.kv = mem[m].kv
      /\ y.sent = mem[m].sent /\ y.seq = mem[m].seq /\ y.log = l
  <2> HIDE DEF l
  <2>1. QED
    BY <1>1, <1>6, <1>7 DEF Member, LogEntry
<1>9. Done(task) \in Task /\ Filled(Done(task))
  <2> HIDE DEF task
  <2>1. QED
    BY <1>1, <1>2, DoneOK
<1>10. mem' = [mem EXCEPT ![m] = y]
  BY <1>4, <1>7
<1>11. Sound'
  <2>1. mem' \in Stores
    BY <1>1, <1>8, <1>10, OneStore
  <2>2. work' \in Works
    BY <1>4, <1>9, OneTask
  <2>3. /\ push' \in Pushes /\ late' \subseteq Request /\ reordered' \subseteq Members
        /\ now' \in 0..MaxNow /\ puts' \in 0..MaxPuts /\ restarts' \in 0..MaxRestarts
    BY <1>4, <1>5, SoundSays DEF Pushes
  <2>4. QED
    BY <2>1, <2>2, <2>3, SoundWhen
<1>12. QED
  BY <1>2, <1>3, <1>4, <1>5, <1>8, <1>10, <1>11 DEF e, task, l

LEMMA AnswerDoes ==
    ASSUME Sound, NEW p \in Members, NEW w \in Tasks, Answer(p, w)
    PROVE  \E m \in Members, q \in Push :
              /\ work[p][w].pc = "next" /\ work[p][w].todo = <<>> /\ work[p][w].from = m
              /\ q.pc = "answered" /\ q.last = push[m][p].last
              /\ work' = [work EXCEPT ![p][w] = IdleTask]
              /\ push' = [push EXCEPT ![m][p] = q]
              /\ UNCHANGED <<mem, late, now, puts, restarts, reordered>>
              /\ Sound'
<1>1. work[p][w] \in Task /\ Filled(work[p][w]) /\ mem[p].kv \in Record \cup {NoRec}
  BY Parts
<1>2. work[p][w].pc = "next" /\ work[p][w].todo = <<>>
  BY DEF Answer
<1>3. PICK m \in Members : m = work[p][w].from
  BY <1>1, <1>2 DEF Filled, Task
<1>4. push[m][p] \in Push
  BY Parts
<1>5. PICK q : q = [push[m][p] EXCEPT !.pc = "answered", !.rec = mem[p].kv]
  OBVIOUS
<1>6. q \in Push /\ q.pc = "answered" /\ q.last = push[m][p].last
  BY <1>1, <1>4, <1>5 DEF Push
<1>7. /\ work' = [work EXCEPT ![p][w] = IdleTask]
      /\ push' = [push EXCEPT ![m][p] = q]
      /\ UNCHANGED <<mem, late, now, puts, restarts, reordered>>
  BY <1>3, <1>5 DEF Answer
<1>8. Sound'
  <2>1. work' \in Works
    BY <1>7, IdleOK, OneTask
  <2>2. push' \in Pushes
    BY <1>6, <1>7, OnePush
  <2>3. /\ mem' \in Stores /\ late' \subseteq Request /\ reordered' \subseteq Members
        /\ now' \in 0..MaxNow /\ puts' \in 0..MaxPuts /\ restarts' \in 0..MaxRestarts
    BY <1>7, SoundSays
  <2>4. QED
    BY <2>1, <2>2, <2>3, SoundWhen
<1>9. QED
  BY <1>2, <1>3, <1>6, <1>7, <1>8

-----------------------------------------------------------------------------
(* What a member's own writes do.                                          *)

\* x and y differ in the record only.
ButRecord(x, y) ==
    /\ y \in Member /\ y.ring = x.ring /\ y.floor = x.floor
    /\ y.log = x.log /\ y.seq = x.seq /\ y.sent = x.sent

\* Member m merges a record.
Merges(m) ==
    \E y \in Member, rec \in Record \cup {NoRec} :
        /\ ButRecord(mem[m], y) /\ y.kv = LwwMerge(mem[m].kv, rec)
        /\ mem' = [mem EXCEPT ![m] = y]

LEMMA MergesWhen ==
    ASSUME Sound, NEW m \in Members, NEW rec \in Record \cup {NoRec},
           mem' = [mem EXCEPT ![m] = [mem[m] EXCEPT !.kv = LwwMerge(mem[m].kv, rec)]]
    PROVE  Merges(m) /\ mem' \in Stores
<1>1. mem[m] \in Member /\ Ends(mem[m].ring) /\ mem[m].kv \in Record \cup {NoRec}
  BY Parts
<1>2. PICK new : new = LwwMerge(mem[m].kv, rec)
  OBVIOUS
<1>3. new \in Record \cup {NoRec}
  BY <1>1, <1>2, RecordType
<1>4. PICK y : y = [mem[m] EXCEPT !.kv = new]
  OBVIOUS
<1>5. ButRecord(mem[m], y) /\ y.kv = new
  BY <1>1, <1>3, <1>4, OnlyRecord DEF ButRecord
<1>6. mem' = [mem EXCEPT ![m] = y]
  BY <1>2, <1>4
<1>7. mem' \in Stores
  BY <1>1, <1>5, <1>6, OneStore DEF ButRecord
<1>8. QED
  BY <1>2, <1>5, <1>6, <1>7 DEF Merges, ButRecord

LEMMA DeriveDoes ==
    ASSUME Sound, NEW c \in Costs, Derive(c)
    PROVE  /\ Merges(Owner) /\ Owner \in Members
           /\ UNCHANGED <<work, push, late, restarts, reordered>> /\ Sound'
<1>1. mem[Owner] \in Member /\ Owner \in Members
  BY GossipAssumption, Parts
<1>2. PICK rec : rec = [ts |-> now, cost |-> c]
  OBVIOUS
<1>3. rec \in Record \cup {NoRec}
  BY <1>2, SoundSays DEF Record
<1>4. /\ mem' = [mem EXCEPT ![Owner] = [mem[Owner] EXCEPT !.kv = LwwMerge(mem[Owner].kv, rec)]]
      /\ UNCHANGED <<work, push, late, now, restarts, reordered>>
      /\ puts < MaxPuts /\ puts' = puts + 1
  BY <1>1, <1>2 DEF Derive
<1>5. Merges(Owner) /\ mem' \in Stores
  BY <1>1, <1>3, <1>4, MergesWhen
<1>6. Sound'
  <2>1. puts' \in 0..MaxPuts
    BY <1>4, GossipAssumption, SoundSays
  <2>2. /\ work' \in Works /\ push' \in Pushes /\ late' \subseteq Request
        /\ reordered' \subseteq Members /\ now' \in 0..MaxNow /\ restarts' \in 0..MaxRestarts
    BY <1>4, SoundSays
  <2>3. QED
    BY <1>5, <2>1, <2>2, SoundWhen
<1>7. QED
  BY <1>1, <1>4, <1>5, <1>6

LEMMA ExpireDoes ==
    ASSUME Sound, NEW m \in Members, Expire(m)
    PROVE  /\ \E y : /\ ButRecord(mem[m], y) /\ y.kv = NoRec
                     /\ mem' = [mem EXCEPT ![m] = y]
           /\ UNCHANGED <<work, push, late, restarts, reordered>> /\ Sound'
<1>1. mem[m] \in Member /\ Ends(mem[m].ring)
  BY Parts
<1>2. PICK y : y = [mem[m] EXCEPT !.kv = NoRec]
  OBVIOUS
<1>3. ButRecord(mem[m], y) /\ y.kv = NoRec
  BY <1>1, <1>2, OnlyRecord DEF ButRecord
<1>4. /\ mem' = [mem EXCEPT ![m] = y]
      /\ UNCHANGED <<work, push, late, now, puts, restarts, reordered>>
  BY <1>2 DEF Expire
<1>5. Sound'
  <2>1. mem' \in Stores
    BY <1>1, <1>3, <1>4, OneStore DEF ButRecord
  <2>2. /\ work' \in Works /\ push' \in Pushes /\ late' \subseteq Request
        /\ reordered' \subseteq Members
        /\ now' \in 0..MaxNow /\ puts' \in 0..MaxPuts /\ restarts' \in 0..MaxRestarts
    BY <1>4, SoundSays
  <2>3. QED
    BY <2>1, <2>2, SoundWhen
<1>6. QED
  BY <1>3, <1>4, <1>5

\* The queue without its first entries.
LEMMA DropsFirst ==
    ASSUME NEW q \in Seq(LogEntry), NEW a \in 1..(Len(q) + 1)
    PROVE  /\ SubSeq(q, a, Len(q)) \in Seq(LogEntry)
           /\ Len(SubSeq(q, a, Len(q))) = Len(q) - a + 1
           /\ \A i \in 1..(Len(q) - a + 1) :
                 a - 1 + i \in 1..Len(q) /\ SubSeq(q, a, Len(q))[i] = q[a - 1 + i]
<1>1. Len(q) \in Nat /\ a - 1 \in Nat /\ a - 1 <= Len(q) /\ (a - 1) + 1 = a
  OBVIOUS
<1>2. /\ SubSeq(q, (a - 1) + 1, Len(q)) \in Seq(LogEntry)
      /\ Len(SubSeq(q, (a - 1) + 1, Len(q))) = Len(q) - (a - 1)
      /\ \A i \in 1..(Len(q) - (a - 1)) : SubSeq(q, (a - 1) + 1, Len(q))[i] = q[(a - 1) + i]
  BY <1>1, PartOf
<1>3. Len(q) - (a - 1) = Len(q) - a + 1
  BY <1>1
<1>4. \A i \in 1..(Len(q) - a + 1) : a - 1 + i \in 1..Len(q)
  BY <1>1
<1>5. QED
  BY <1>1, <1>2, <1>3, <1>4

\* Retention: what the ring drops, the floor covers.
LEMMA PruneCovers ==
    ASSUME NEW x \in Member, Ends(x.ring), NEW cut \in Nat, NEW y,
           y.ring = PruneRing(x.ring, x.floor, cut).ring,
           y.floor = PruneRing(x.ring, x.floor, cut).floor
    PROVE  /\ y.ring \in Ring /\ y.floor \in Nat /\ Ends(y.ring)
           /\ \A t \in Stamps, d \in Dims : Covers(x, t, d) => Covers(y, t, d)
<1> DEFINE r == x.ring
           F == {x.floor} \cup {t \in Stored(r) : t < cut}
<1>1. r \in Ring /\ x.floor \in Nat /\ Stored(r) \in SUBSET Nat
  BY StoredFinite DEF Member
<1>2. y.ring = [t \in Stamps |-> IF t < cut THEN NoSample ELSE r[t]] /\ y.floor = Max(F)
  BY DEF PruneRing
<1>3. Max(F) \in Nat /\ \A t \in F : t <= Max(F)
  <2>1. F \in SUBSET Nat /\ F # {} /\ x.floor + cut \in Nat
    BY <1>1
  <2>2. ASSUME NEW t \in F PROVE t <= x.floor + cut
    <3>1. t \in Nat /\ (t = x.floor \/ t < cut)
      BY <1>1
    <3>2. QED
      BY <1>1, <3>1
  <2> HIDE DEF F
  <2>3. Max(F) \in F /\ \A t \in F : t <= Max(F)
    BY <2>1, <2>2, Greatest
  <2>4. QED
    BY <2>1, <2>3
<1>4. y.ring \in Ring /\ Stored(y.ring) \subseteq Stored(r)
  BY <1>1, <1>2 DEF Ring, Stored
<1>5. Ends(y.ring)
  BY <1>4 DEF Ends
<1>6. ASSUME NEW t \in Stamps, NEW d \in Dims, Covers(x, t, d) PROVE Covers(y, t, d)
  <2>1. t \in Nat /\ y.floor \in Nat /\ x.floor <= y.floor
    BY <1>2, <1>3, SamplesAssumption
  <2>2. CASE t <= x.floor
    BY <1>1, <2>1, <2>2 DEF Covers
  <2>3. CASE r[t] # NoSample /\ r[t][d] # NoVal
    <3>1. CASE t < cut
      <4>1. t \in F
        BY <2>3, <3>1 DEF Stored
      <4>2. QED
        BY <1>2, <1>3, <4>1 DEF Covers
    <3>2. CASE ~(t < cut)
      BY <1>2, <2>3, <3>2 DEF Covers
    <3>3. QED
      BY <3>1, <3>2
  <2>4. CASE Cardinality(Stored(r)) >= RingCap /\ \A u \in Stored(r) : u > t
    <3>1. CASE \E u \in Stored(r) : u < cut
      <4>1. PICK u \in Stored(r) : u < cut
        BY <3>1
      <4>2. u \in F /\ u \in Nat /\ u > t
        BY <1>1, <2>4, <4>1
      <4>3. u <= y.floor
        BY <1>2, <1>3, <4>2
      <4>4. t <= y.floor
        BY <2>1, <4>2, <4>3
      <4>5. QED
        BY <4>4 DEF Covers
    <3>2. CASE \A u \in Stored(r) : ~(u < cut)
      <4>1. Stored(y.ring) = Stored(r)
        BY <1>1, <1>2, <3>2 DEF Stored, Ring
      <4>2. QED
        BY <2>4, <4>1 DEF Covers
    <3>3. QED
      BY <3>1, <3>2
  <2>5. QED
    BY <1>6, <2>2, <2>3, <2>4 DEF Covers
<1>7. QED
  BY <1>2, <1>3, <1>4, <1>5, <1>6

\* A queue of which the first entries are gone.
Rest(new, old) == \E k \in Nat : \A i \in 1..Len(new) :
    k + i \in 1..Len(old) /\ new[i] = old[k + i]

\* A member's stores after retention.
Retained(x, cut, first) ==
    [x EXCEPT !.ring = PruneRing(x.ring, x.floor, cut).ring,
              !.floor = PruneRing(x.ring, x.floor, cut).floor,
              !.log = SubSeq(x.log, first, Len(x.log))]

LEMMA RetainedOK ==
    ASSUME NEW x \in Member, Ends(x.ring), NEW cut \in Nat, NEW first \in Nat,
           first \in 1..(Len(x.log) + 1), NEW y, y = Retained(x, cut, first)
    PROVE  /\ y \in Member /\ Ends(y.ring) /\ Keeps(x, y)
           /\ y.kv = x.kv /\ y.sent = x.sent /\ y.seq = x.seq
           /\ y.ring = PruneRing(x.ring, x.floor, cut).ring
           /\ y.floor = PruneRing(x.ring, x.floor, cut).floor
           /\ Len(y.log) \in Nat /\ Rest(y.log, x.log)
<1> DEFINE p == PruneRing(x.ring, x.floor, cut)
           l == SubSeq(x.log, first, Len(x.log))
<1>1. x.log \in Seq(LogEntry) /\ Len(x.log) \in Nat
  BY DEF Member, LogEntry
<1>2. /\ y.kv = x.kv /\ y.sent = x.sent /\ y.seq = x.seq /\ y.log = l
      /\ y.ring = p.ring /\ y.floor = p.floor
  BY DEF Member, Retained
<1>3. /\ y.ring \in Ring /\ y.floor \in Nat /\ Ends(y.ring)
      /\ \A t \in Stamps, d \in Dims : Covers(x, t, d) => Covers(y, t, d)
  BY <1>2, PruneCovers
<1>4. /\ l \in Seq(LogEntry) /\ Len(l) = Len(x.log) - first + 1
      /\ \A i \in 1..(Len(x.log) - first + 1) :
            first - 1 + i \in 1..Len(x.log) /\ l[i] = x.log[first - 1 + i]
  BY <1>1, DropsFirst
<1>5. y \in Member
  <2>1. p.ring \in Ring /\ p.floor \in Nat
    BY <1>2, <1>3
  <2>2. y = [x EXCEPT !.ring = p.ring, !.floor = p.floor, !.log = l]
    BY DEF Retained
  <2> HIDE DEF p, l
  <2>3. QED
    BY <1>4, <2>1, <2>2 DEF Member, LogEntry
<1>6. Len(y.log) \in Nat /\ Rest(y.log, x.log)
  <2>1. \A i \in 1..Len(y.log) :
            first - 1 + i \in 1..Len(x.log) /\ y.log[i] = x.log[first - 1 + i]
    BY <1>2, <1>4
  <2>2. first - 1 \in Nat /\ Len(y.log) \in Nat
    BY <1>2, <1>4
  <2>3. QED
    BY <2>1, <2>2 DEF Rest
<1>7. QED
  BY <1>2, <1>3, <1>5, <1>6 DEF Keeps

\* Retention is a Retained for the cut and the queue's first young entry.
LEMMA RetainDoes ==
    ASSUME Sound, NEW m \in Members, Retain(m)
    PROVE  /\ \E cut \in Nat, first \in Nat :
                 /\ first \in 1..(Len(mem[m].log) + 1)
                 /\ mem' = [mem EXCEPT ![m] = Retained(mem[m], cut, first)]
           /\ UNCHANGED <<work, push, late, restarts, reordered>> /\ Sound'
<1> DEFINE x == mem[m]
           cut == Cut(now, RawKeep)
           young == {i \in DOMAIN x.log : x.log[i].ts >= cut}
           first == IF young = {} THEN Len(x.log) + 1 ELSE Min(young)
<1>1. x \in Member /\ Ends(x.ring) /\ x.log \in Seq(LogEntry)
  BY Parts
<1>2. now \in Nat /\ RawKeep \in Nat
  BY GossipAssumption, SoundSays
<1>3. /\ mem' = [mem EXCEPT ![m] = Retained(x, cut, first)]
      /\ UNCHANGED <<work, push, late, now, puts, restarts, reordered>>
  BY DEF Retain, Retained
<1>4. cut \in Nat
  BY <1>2 DEF Cut
<1> HIDE DEF x, cut
<1>5. Len(x.log) \in Nat /\ DOMAIN x.log = 1..Len(x.log)
  BY <1>1
<1>6. young \in SUBSET Nat /\ young \subseteq 1..Len(x.log)
  BY <1>5
<1>7. young # {} => Min(young) \in young
  <2> HIDE DEF young
  <2>1. QED
    BY <1>6, Least
<1> HIDE DEF young
<1>8. first \in Nat /\ first \in 1..(Len(x.log) + 1)
  <2>1. CASE young = {}
    BY <1>5, <2>1
  <2>2. CASE young # {}
    <3>1. first = Min(young) /\ Min(young) \in 1..Len(x.log)
      BY <1>6, <1>7, <2>2
    <3>2. QED
      BY <1>5, <3>1
  <2>3. QED
    BY <2>1, <2>2
<1> HIDE DEF first
<1>9. PICK y : y = Retained(x, cut, first)
  OBVIOUS
<1>10. y \in Member /\ Ends(y.ring)
  BY <1>1, <1>4, <1>8, <1>9, RetainedOK
<1>11. Sound'
  <2>1. mem' \in Stores
    BY <1>3, <1>9, <1>10, OneStore
  <2>2. /\ work' \in Works /\ push' \in Pushes /\ late' \subseteq Request
        /\ reordered' \subseteq Members
        /\ now' \in 0..MaxNow /\ puts' \in 0..MaxPuts /\ restarts' \in 0..MaxRestarts
    BY <1>3, SoundSays
  <2>3. QED
    BY <2>1, <2>2, SoundWhen
<1>12. QED
  BY <1>3, <1>4, <1>8, <1>11 DEF x

-----------------------------------------------------------------------------
(* What the steps of a round do.                                           *)

LEMMA IdlePushOK ==
    /\ IdlePush \in Push /\ IdlePush.pc = "idle" /\ IdlePush.last = 0
BY DEF IdlePush, Push

LEMMA TickDoes ==
    ASSUME Sound, NEW m \in Members, Tick(m)
    PROVE  /\ \A p \in Peers[m] : push[m][p].pc = "idle"
           /\ \A p \in Members : push'[m][p].pc \in {"idle", "begun"} /\ push'[m][p].last = 0
           /\ \A n \in Members \ {m} : push'[n] = push[n]
           /\ UNCHANGED <<mem, work, late, restarts, reordered>> /\ Sound'
<1> DEFINE q == [IdlePush EXCEPT !.pc = "begun", !.rec = mem[m].kv]
           all == [p \in Members |-> IF p \in Peers[m] THEN q ELSE IdlePush]
<1>1. mem[m].kv \in Record \cup {NoRec}
  BY Parts
<1>2. /\ push' = [push EXCEPT ![m] = all]
      /\ UNCHANGED <<mem, work, late, now, puts, restarts, reordered>>
      /\ \A p \in Peers[m] : push[m][p].pc = "idle"
  BY DEF Tick
<1>3. q \in Push /\ q.pc = "begun" /\ q.last = 0
  <2>1. PICK i : i = IdlePush
    OBVIOUS
  <2>2. i \in Push /\ i.last = 0 /\ q = [i EXCEPT !.pc = "begun", !.rec = mem[m].kv]
    BY <2>1, IdlePushOK
  <2> HIDE DEF q
  <2>3. QED
    BY <1>1, <2>2 DEF Push
<1> HIDE DEF q
<1>4. /\ all \in [Members -> Push]
      /\ \A p \in Members : all[p].pc \in {"idle", "begun"} /\ all[p].last = 0
  BY <1>3, IdlePushOK
<1> HIDE DEF all
<1>5. push \in [Members -> [Members -> Push]]
  BY SoundSays DEF Pushes
<1>6. /\ push' \in Pushes /\ push'[m] = all /\ \A n \in Members \ {m} : push'[n] = push[n]
  BY <1>2, <1>4, <1>5 DEF Pushes
<1>7. Sound'
  <2>1. /\ mem' \in Stores /\ work' \in Works /\ late' \subseteq Request
        /\ reordered' \subseteq Members
        /\ now' \in 0..MaxNow /\ puts' \in 0..MaxPuts /\ restarts' \in 0..MaxRestarts
    BY <1>2, SoundSays
  <2>2. QED
    BY <1>6, <2>1, SoundWhen
<1>8. QED
  BY <1>2, <1>4, <1>6, <1>7

\* A push q with the entries k + 1 to b of a queue, above the watermark s.
Carries(q, log, k, b, s) ==
    /\ k \in Nat /\ b \in Nat /\ k <= b /\ b <= Len(log)
    /\ k = 0 \/ log[k].seq <= s
    /\ b = k => q.last = s
    /\ b # k => q.last = log[b].seq
    /\ Len(q.delta) = b - k
    /\ \A j \in 1..(b - k) : Same(q.delta[j], log[k + j])

LEMMA SendingOK ==
    ASSUME NEW log \in Seq(LogEntry), NEW s \in Nat, NEW k \in Starts(log, s),
           NEW rec \in Record \cup {NoRec}, NEW q, q = Sending(rec, TakeDelta(log, k), s)
    PROVE  q \in Push /\ q.pc = "sent" /\ \E b \in Nat : Carries(q, log, k, b, s)
<1> DEFINE n == Len(log)
           b == Min({n, k + DeltaLimit})
           taken == SubSeq(log, k + 1, b)
           delta == [i \in DOMAIN taken |-> [ts |-> taken[i].ts, s |-> taken[i].s]]
           last == IF taken = <<>> THEN s ELSE taken[Len(taken)].seq
<1>1. n \in Nat /\ k \in Nat /\ k <= n /\ DeltaLimit \in Nat /\ (k = 0 \/ log[k].seq <= s)
  BY GossipAssumption DEF Starts
<1>2. q = [pc |-> "sent", rec |-> rec, delta |-> delta, last |-> last]
  BY DEF Sending, TakeDelta
<1>3. b \in Nat /\ k <= b /\ b <= n
  <2>1. {n, k + DeltaLimit} \in SUBSET Nat /\ {n, k + DeltaLimit} # {}
    BY <1>1
  <2>2. b \in {n, k + DeltaLimit} /\ \A y \in {n, k + DeltaLimit} : b <= y
    BY <2>1, Least
  <2> HIDE DEF b, n
  <2>3. QED
    BY <1>1, <2>2
<1> HIDE DEF b
<1>4. /\ taken \in Seq(LogEntry) /\ Len(taken) = b - k
      /\ \A i \in 1..(b - k) : taken[i] = log[k + i]
  BY <1>1, <1>3, PartOf
<1> HIDE DEF taken
<1>5. DOMAIN taken = 1..(b - k) /\ b - k \in Nat
  BY <1>1, <1>3, <1>4
<1>6. \A i \in 1..(b - k) : delta[i] \in Entry /\ Same(delta[i], log[k + i])
  <2>1. ASSUME NEW i \in 1..(b - k) PROVE delta[i] \in Entry /\ Same(delta[i], log[k + i])
    <3>1. taken[i] \in LogEntry /\ taken[i] = log[k + i]
      BY <1>4, ElementOf
    <3>2. delta[i] = [ts |-> taken[i].ts, s |-> taken[i].s]
      BY <1>5
    <3> HIDE DEF delta
    <3>3. QED
      BY <3>1, <3>2 DEF LogEntry, Entry, Same
  <2>2. QED
    BY <2>1
<1>7. delta \in Seq(Entry) /\ Len(delta) = b - k
  <2>1. DOMAIN delta = 1..(b - k) /\ delta = [i \in 1..(b - k) |-> delta[i]]
    BY <1>5
  <2> HIDE DEF delta
  <2>2. QED
    BY <1>5, <1>6, <2>1
<1>8. /\ b = k => last = s
      /\ b # k => last = log[b].seq
      /\ last \in Nat
  <2>1. CASE b = k
    <3>1. Len(taken) = 0
      BY <1>3, <1>4, <2>1
    <3>2. taken = <<>>
      BY <1>4, <3>1
    <3>3. last = s
      BY <3>2
    <3> HIDE DEF last
    <3>4. QED
      BY <2>1, <3>3
  <2>2. CASE b # k
    <3>1. b - k \in 1..(b - k) /\ k + (b - k) = b /\ taken # <<>> /\ b \in 1..n
      BY <1>1, <1>3, <1>4, <2>2
    <3>2. last = log[b].seq
      BY <1>4, <3>1
    <3>3. log[b] \in LogEntry
      BY <3>1, ElementOf
    <3>4. QED
      BY <2>2, <3>2, <3>3 DEF LogEntry
  <2>3. QED
    BY <2>1, <2>2
<1> HIDE DEF delta, last
<1>9. /\ q \in Push /\ q.pc = "sent" /\ q.last = last /\ q.delta = delta
  BY <1>2, <1>7, <1>8 DEF Push
<1>10. Carries(q, log, k, b, s)
  BY <1>1, <1>3, <1>6, <1>7, <1>8, <1>9 DEF Carries, n
<1>11. QED
  BY <1>3, <1>9, <1>10

LEMMA SendDoes ==
    ASSUME Sound, NEW m \in Members, NEW p \in Members, Send(m, p)
    PROVE  /\ \E q \in Push, k \in Nat, b \in Nat :
                 /\ q.pc = "sent" /\ Carries(q, mem[m].log, k, b, mem[m].sent[p])
                 /\ push' = [push EXCEPT ![m][p] = q]
           /\ push[m][p].pc = "begun"
           /\ UNCHANGED <<mem, work, late, restarts, reordered>> /\ Sound'
<1>1. /\ mem[m].log \in Seq(LogEntry) /\ mem[m].sent \in [Members -> Nat]
      /\ push[m][p] \in Push
  BY Parts
<1>2. push[m][p].rec \in Record \cup {NoRec} /\ mem[m].sent[p] \in Nat
  BY <1>1 DEF Push
<1>3. PICK k \in Starts(mem[m].log, mem[m].sent[p]) :
         push' = [push EXCEPT ![m][p] =
             Sending(push[m][p].rec, TakeDelta(mem[m].log, k), mem[m].sent[p])]
  BY DEF Send
<1>4. PICK q : q = Sending(push[m][p].rec, TakeDelta(mem[m].log, k), mem[m].sent[p])
  OBVIOUS
<1>5. /\ q \in Push /\ q.pc = "sent"
      /\ \E b \in Nat : Carries(q, mem[m].log, k, b, mem[m].sent[p])
  BY <1>1, <1>2, <1>4, SendingOK
<1>6. /\ push' = [push EXCEPT ![m][p] = q] /\ push[m][p].pc = "begun"
      /\ UNCHANGED <<mem, work, late, now, puts, restarts, reordered>>
  BY <1>3, <1>4 DEF Send
<1>7. Sound'
  <2>1. push' \in Pushes
    BY <1>5, <1>6, OnePush
  <2>2. /\ mem' \in Stores /\ work' \in Works /\ late' \subseteq Request
        /\ reordered' \subseteq Members
        /\ now' \in 0..MaxNow /\ puts' \in 0..MaxPuts /\ restarts' \in 0..MaxRestarts
    BY <1>6, SoundSays
  <2>3. QED
    BY <2>1, <2>2, SoundWhen
<1>8. k \in Nat
  BY <1>5 DEF Carries
<1>9. QED
  BY <1>5, <1>6, <1>7, <1>8

\* Another task u ingests the samples in delta, for whom `from` says.
Loads(u, delta, from) ==
    /\ u \in Task /\ Filled(u) /\ ~Busy(u) /\ u.from = from
    /\ \A i \in 1..Len(delta) : u.pc = "next" /\ u.todo = delta

LEMMA LoadsWhen ==
    ASSUME NEW q \in Seq(Entry), NEW from \in Members \cup {NoMember}, NEW u, u = Load(q, from)
    PROVE  Loads(u, q, from)
BY LoadOK DEF Loads

LEMMA ServeDoes ==
    ASSUME Sound, NEW m \in Members, NEW p \in Members, NEW w \in Tasks, Serve(m, p, w)
    PROVE  /\ \E q \in Push, u \in Task :
                 /\ q.pc = "served" /\ q.last = push[m][p].last
                 /\ Loads(u, push[m][p].delta, m)
                 /\ push' = [push EXCEPT ![m][p] = q]
                 /\ work' = [work EXCEPT ![p][w] = u]
           /\ push[m][p].pc = "sent" /\ work[p][w].pc = "idle" /\ Merges(p)
           /\ UNCHANGED <<late, restarts, reordered>> /\ Sound'
<1>1. push[m][p] \in Push /\ mem[p] \in Member /\ mem \in [Members -> Member]
  BY Parts, SoundSays DEF Stores
<1>2. push[m][p].rec \in Record \cup {NoRec} /\ push[m][p].delta \in Seq(Entry)
  BY <1>1 DEF Push
<1>3. PICK q : q = [push[m][p] EXCEPT !.pc = "served", !.rec = NoRec, !.delta = <<>>]
  OBVIOUS
<1>4. q \in Push /\ q.pc = "served" /\ q.last = push[m][p].last
  <2>0. <<>> \in Seq(Entry)
    OBVIOUS
  <2>1. PICK none \in Seq(Entry) : none = <<>>
    BY <2>0
  <2>2. q = [push[m][p] EXCEPT !.pc = "served", !.rec = NoRec, !.delta = none]
    BY <1>3, <2>1
  <2>3. QED
    BY <1>1, <2>1, <2>2 DEF Push
<1>5. PICK u : u = Load(push[m][p].delta, m)
  OBVIOUS
<1>6. Loads(u, push[m][p].delta, m)
  BY <1>2, <1>5, LoadsWhen
<1>7. /\ push' = [push EXCEPT ![m][p] = q] /\ work' = [work EXCEPT ![p][w] = u]
      /\ push[m][p].pc = "sent" /\ work[p][w].pc = "idle"
      /\ UNCHANGED <<late, now, puts, restarts, reordered>>
  BY <1>3, <1>5 DEF Serve
<1>8. Merges(p) /\ mem' \in Stores
  <2>1. mem' = [mem EXCEPT ![p] =
                   [mem[p] EXCEPT !.kv = LwwMerge(mem[p].kv, push[m][p].rec)]]
    BY <1>1 DEF Serve
  <2>2. QED
    BY <1>2, <2>1, MergesWhen
<1>9. Sound'
  <2>1. work' \in Works
    BY <1>6, <1>7, OneTask DEF Loads
  <2>2. push' \in Pushes
    BY <1>4, <1>7, OnePush
  <2>3. /\ late' \subseteq Request /\ reordered' \subseteq Members
        /\ now' \in 0..MaxNow /\ puts' \in 0..MaxPuts /\ restarts' \in 0..MaxRestarts
    BY <1>7, SoundSays
  <2>4. QED
    BY <1>8, <2>1, <2>2, <2>3, SoundWhen
<1>10. QED
  BY <1>4, <1>6, <1>7, <1>8, <1>9 DEF Loads

LEMMA LateServeDoes ==
    ASSUME Sound, NEW r \in late, NEW w \in Tasks, LateServe(r, w)
    PROVE  /\ \E u \in Task :
                 /\ Loads(u, r.delta, NoMember) /\ work' = [work EXCEPT ![r.to][w] = u]
           /\ r.to \in Members /\ work[r.to][w].pc = "idle" /\ Merges(r.to)
           /\ late' \subseteq late
           /\ UNCHANGED <<push, restarts, reordered>> /\ Sound'
<1>1. /\ r.to \in Members /\ r.rec \in Record \cup {NoRec} /\ r.delta \in Seq(Entry)
      /\ mem \in [Members -> Member]
  BY SoundSays DEF Request, Stores
<1>2. PICK u : u = Load(r.delta, NoMember)
  OBVIOUS
<1>3. Loads(u, r.delta, NoMember)
  BY <1>1, <1>2, LoadsWhen
<1>4. /\ work' = [work EXCEPT ![r.to][w] = u] /\ work[r.to][w].pc = "idle"
      /\ late' \subseteq late
      /\ UNCHANGED <<push, now, puts, restarts, reordered>>
  BY <1>2 DEF LateServe
<1>5. Merges(r.to) /\ mem' \in Stores
  <2>1. mem' = [mem EXCEPT ![r.to] =
                   [mem[r.to] EXCEPT !.kv = LwwMerge(mem[r.to].kv, r.rec)]]
    BY <1>1 DEF LateServe
  <2>2. QED
    BY <1>1, <2>1, MergesWhen
<1>6. Sound'
  <2>1. work' \in Works
    BY <1>1, <1>3, <1>4, OneTask DEF Loads
  <2>2. /\ push' \in Pushes /\ late' \subseteq Request /\ reordered' \subseteq Members
        /\ now' \in 0..MaxNow /\ puts' \in 0..MaxPuts /\ restarts' \in 0..MaxRestarts
    BY <1>4, SoundSays
  <2>3. QED
    BY <1>5, <2>1, <2>2, SoundWhen
<1>7. QED
  BY <1>1, <1>3, <1>4, <1>5, <1>6 DEF Loads

LEMMA AckedDoes ==
    ASSUME Sound, NEW m \in Members, NEW p \in Members, Acked(m, p)
    PROVE  /\ \E y \in Member, rec \in Record \cup {NoRec} :
                 /\ y.ring = mem[m].ring /\ y.floor = mem[m].floor
                 /\ y.log = mem[m].log /\ y.seq = mem[m].seq
                 /\ y.sent[p] = push[m][p].last
                 /\ \A r \in Members \ {p} : y.sent[r] = mem[m].sent[r]
                 /\ y.kv = LwwMerge(mem[m].kv, rec)
                 /\ mem' = [mem EXCEPT ![m] = y]
           /\ push[m][p].pc = "answered" /\ push' = [push EXCEPT ![m][p] = IdlePush]
           /\ UNCHANGED <<work, late, restarts, reordered>> /\ Sound'
<1>1. /\ mem[m] \in Member /\ Ends(mem[m].ring) /\ push[m][p] \in Push
      /\ mem[m].kv \in Record \cup {NoRec} /\ mem[m].sent \in [Members -> Nat]
  BY Parts
<1>2. push[m][p].rec \in Record \cup {NoRec} /\ push[m][p].last \in Nat
  BY <1>1 DEF Push
<1>3. PICK z : z = NoteSent(mem[m], p, push[m][p].last)
  OBVIOUS
<1>4. /\ z \in Member /\ z.kv = mem[m].kv /\ z.ring = mem[m].ring /\ z.floor = mem[m].floor
      /\ z.log = mem[m].log /\ z.seq = mem[m].seq /\ z.sent[p] = push[m][p].last
      /\ \A r \in Members \ {p} : z.sent[r] = mem[m].sent[r]
  <2>1. PICK s : s = [mem[m].sent EXCEPT ![p] = push[m][p].last]
    OBVIOUS
  <2>2. /\ s \in [Members -> Nat] /\ s[p] = push[m][p].last
        /\ \A r \in Members \ {p} : s[r] = mem[m].sent[r]
    BY <1>1, <1>2, <2>1
  <2>3. z = [mem[m] EXCEPT !.sent = s]
    BY <1>3, <2>1 DEF NoteSent
  <2>4. QED
    BY <1>1, <2>2, <2>3 DEF Member
<1>5. PICK new : new = LwwMerge(mem[m].kv, push[m][p].rec)
  OBVIOUS
<1>6. new \in Record \cup {NoRec}
  BY <1>1, <1>2, <1>5, RecordType
<1>7. PICK y : y = [z EXCEPT !.kv = new]
  OBVIOUS
<1>8. /\ y \in Member /\ y.kv = new /\ y.ring = z.ring /\ y.floor = z.floor
      /\ y.log = z.log /\ y.seq = z.seq /\ y.sent = z.sent
  BY <1>4, <1>6, <1>7, OnlyRecord
<1>9. /\ mem' = [mem EXCEPT ![m] = y] /\ push' = [push EXCEPT ![m][p] = IdlePush]
      /\ push[m][p].pc = "answered"
      /\ UNCHANGED <<work, late, now, puts, restarts, reordered>>
  <2>1. mem' = [mem EXCEPT ![m] = [z EXCEPT !.kv = LwwMerge(z.kv, push[m][p].rec)]]
    BY <1>3 DEF Acked
  <2>2. QED
    BY <1>4, <1>5, <1>7, <2>1 DEF Acked
<1>10. Sound'
  <2>1. Ends(y.ring)
    BY <1>1, <1>4, <1>8
  <2>2. mem' \in Stores
    BY <1>8, <1>9, <2>1, OneStore
  <2>3. push' \in Pushes
    BY <1>9, IdlePushOK, OnePush
  <2>4. /\ work' \in Works /\ late' \subseteq Request /\ reordered' \subseteq Members
        /\ now' \in 0..MaxNow /\ puts' \in 0..MaxPuts /\ restarts' \in 0..MaxRestarts
    BY <1>9, SoundSays
  <2>5. QED
    BY <2>2, <2>3, <2>4, SoundWhen
<1>11. QED
  BY <1>2, <1>4, <1>5, <1>8, <1>9, <1>10

\* Task u is what is left of t when nobody waits for what it does for m.
Leaves(t, u, m) ==
    /\ u \in Task /\ Filled(u)
    /\ t.from # m => u = t
    /\ t.from = m => u.from = NoMember
    /\ u.pc = "numbered" <=> t.pc = "numbered"
    /\ Busy(u) <=> Busy(t)
    /\ Busy(t) => u.todo = t.todo /\ u.seq = t.seq

LEMMA LeavesWhen ==
    ASSUME NEW t \in Task, Filled(t), NEW m,
           NEW u, u = IF t.from = m THEN Orphan(t) ELSE t
    PROVE  Leaves(t, u, m)
<1>1. CASE t.from = m
  BY <1>1, OrphanOK DEF Leaves
<1>2. CASE t.from # m
  BY <1>2 DEF Leaves
<1>3. QED
  BY <1>1, <1>2

LEMMA PushFailsDoes ==
    ASSUME Sound, NEW m \in Members, NEW p \in Members, PushFails(m, p)
    PROVE  /\ \A w \in Tasks : Leaves(work[p][w], work'[p][w], m)
           /\ \A n \in Members \ {p} : work'[n] = work[n]
           /\ push' = [push EXCEPT ![m][p] = IdlePush]
           /\ UNCHANGED <<mem, late, restarts, reordered>> /\ Sound'
<1> DEFINE all == [w \in Tasks |->
                      IF work[p][w].from = m THEN Orphan(work[p][w]) ELSE work[p][w]]
<1>1. /\ work' = [work EXCEPT ![p] = all] /\ push' = [push EXCEPT ![m][p] = IdlePush]
      /\ UNCHANGED <<mem, late, now, puts, restarts, reordered>>
  BY DEF PushFails, Abandoned
<1>2. \A w \in Tasks : Leaves(work[p][w], all[w], m)
  <2>1. ASSUME NEW w \in Tasks PROVE Leaves(work[p][w], all[w], m)
    <3>1. work[p][w] \in Task /\ Filled(work[p][w])
      BY Parts
    <3>2. all[w] = IF work[p][w].from = m THEN Orphan(work[p][w]) ELSE work[p][w]
      OBVIOUS
    <3> HIDE DEF all
    <3>3. QED
      BY <3>1, <3>2, LeavesWhen
  <2>2. QED
    BY <2>1
<1>3. all = [w \in Tasks |-> all[w]]
  OBVIOUS
<1> HIDE DEF all
<1>4. all \in [Tasks -> {t \in Task : Filled(t)}]
  BY <1>2, <1>3 DEF Leaves
<1>5. work \in [Members -> [Tasks -> {t \in Task : Filled(t)}]]
  BY SoundSays DEF Works
<1>6. work' \in Works /\ work'[p] = all /\ \A n \in Members \ {p} : work'[n] = work[n]
  <2> DEFINE T == [Tasks -> {t \in Task : Filled(t)}]
  <2>1. work \in [Members -> T] /\ all \in T
    BY <1>4, <1>5
  <2>2. work' \in [Members -> T] => work' \in Works
    BY DEF Works
  <2> HIDE DEF T
  <2>3. QED
    BY <1>1, <2>1, <2>2
<1>7. Sound'
  <2>1. push' \in Pushes
    BY <1>1, IdlePushOK, OnePush
  <2>2. /\ mem' \in Stores /\ late' \subseteq Request /\ reordered' \subseteq Members
        /\ now' \in 0..MaxNow /\ puts' \in 0..MaxPuts /\ restarts' \in 0..MaxRestarts
    BY <1>1, SoundSays
  <2>3. QED
    BY <1>6, <2>1, <2>2, SoundWhen
<1>8. QED
  BY <1>1, <1>2, <1>6, <1>7

LEMMA PushTimesOutDoes ==
    ASSUME Sound, NEW m \in Members, NEW p \in Members, PushTimesOut(m, p)
    PROVE  /\ push[m][p].pc = "sent" /\ push' = [push EXCEPT ![m][p] = IdlePush]
           /\ UNCHANGED <<mem, work, restarts, reordered>> /\ Sound'
<1>1. push[m][p] \in Push
  BY Parts
<1>2. push[m][p].rec \in Record \cup {NoRec} /\ push[m][p].delta \in Seq(Entry)
  BY <1>1 DEF Push
<1>3. /\ push[m][p].pc = "sent" /\ push' = [push EXCEPT ![m][p] = IdlePush]
      /\ UNCHANGED <<mem, work, now, puts, restarts, reordered>>
      /\ late' = late \cup {[to |-> p, rec |-> push[m][p].rec, delta |-> push[m][p].delta]}
  BY DEF PushTimesOut
<1>4. late' \subseteq Request
  <2>1. [to |-> p, rec |-> push[m][p].rec, delta |-> push[m][p].delta] \in Request
    BY <1>2 DEF Request
  <2>2. QED
    BY <1>3, <2>1, SoundSays
<1>5. Sound'
  <2>1. push' \in Pushes
    BY <1>3, IdlePushOK, OnePush
  <2>2. /\ mem' \in Stores /\ work' \in Works /\ reordered' \subseteq Members
        /\ now' \in 0..MaxNow /\ puts' \in 0..MaxPuts /\ restarts' \in 0..MaxRestarts
    BY <1>3, SoundSays
  <2>3. QED
    BY <1>4, <2>1, <2>2, SoundWhen
<1>6. QED
  BY <1>3, <1>5

LEMMA ElapseDoes ==
    ASSUME Sound, Elapse
    PROVE  UNCHANGED <<mem, work, push, restarts, reordered>> /\ Sound'
<1>1. /\ UNCHANGED <<mem, work, push, late, puts, restarts, reordered>>
      /\ now < MaxNow /\ now' = now + 1
  BY DEF Elapse
<1>2. now' \in 0..MaxNow
  BY <1>1, GossipAssumption, SoundSays
<1>3. /\ mem' \in Stores /\ work' \in Works /\ push' \in Pushes /\ late' \subseteq Request
      /\ reordered' \subseteq Members /\ puts' \in 0..MaxPuts /\ restarts' \in 0..MaxRestarts
  BY <1>1, SoundSays
<1>4. QED
  BY <1>1, <1>2, <1>3, SoundWhen

-----------------------------------------------------------------------------
(* A restart: what was flushed is queued in the order of its stamps.       *)

\* Of a finite set of numbers there is an i-th: the least number that has i of
\* them at or below it.
LEMMA TheIth ==
    ASSUME NEW F \in SUBSET (Nat \ {0}), NEW b \in Nat, \A t \in F : t <= b,
           NEW i \in 1..Cardinality(F)
    PROVE  \E t \in F : Cardinality({u \in F : u <= t}) = i
<1> DEFINE Upto(k) == {u \in F : u <= k}
           S == {k \in Nat : Cardinality(Upto(k)) >= i}
<1>1. IsFiniteSet(F) /\ Cardinality(F) \in Nat /\ i \in Nat /\ i >= 1
  <2>1. IsFiniteSet(0..b)
    BY FS_Interval
  <2>2. F \subseteq 0..b
    OBVIOUS
  <2>3. IsFiniteSet(F)
    BY <2>1, <2>2, FS_Subset
  <2>4. Cardinality(F) \in Nat
    BY <2>3, FS_CardinalityType
  <2>5. QED
    BY <2>3, <2>4
<1>2. \A k \in Nat : IsFiniteSet(Upto(k)) /\ Cardinality(Upto(k)) \in Nat
  <2>1. ASSUME NEW k \in Nat PROVE IsFiniteSet(Upto(k)) /\ Cardinality(Upto(k)) \in Nat
    <3>1. Upto(k) \subseteq F
      OBVIOUS
    <3> HIDE DEF Upto
    <3>2. IsFiniteSet(Upto(k))
      BY <1>1, <3>1, FS_Subset
    <3>3. QED
      BY <3>2, FS_CardinalityType
  <2>2. QED
    BY <2>1
<1>3. b \in S
  <2>1. Upto(b) = F
    OBVIOUS
  <2> HIDE DEF Upto
  <2>2. QED
    BY <1>1, <2>1
<1>4. PICK k \in S : \A j \in S : k <= j
  <2>1. S \in SUBSET Nat /\ S # {}
    BY <1>3
  <2> HIDE DEF S
  <2>2. QED
    BY <2>1, Least
<1>5. k \in Nat /\ Cardinality(Upto(k)) >= i
  OBVIOUS
<1>6. k # 0
  <2>1. Upto(0) = {}
    <3>1. ASSUME NEW u \in F PROVE ~(u <= 0)
      <4>1. u \in Nat /\ u # 0
        OBVIOUS
      <4>2. QED
        BY <4>1
    <3>2. QED
      BY <3>1
  <2>2. Cardinality(Upto(0)) = 0
    BY <2>1, FS_EmptySet
  <2> HIDE DEF Upto
  <2>3. QED
    BY <1>1, <1>5, <2>2
<1>7. k - 1 \in Nat /\ ~(k <= k - 1)
  BY <1>5, <1>6
<1>8. Cardinality(Upto(k - 1)) < i /\ Cardinality(Upto(k - 1)) \in Nat
  <2>1. k - 1 \notin S
    BY <1>4, <1>7
  <2> HIDE DEF Upto
  <2>2. QED
    BY <1>1, <1>2, <1>7, <2>1
<1>9. Upto(k) \ {k} = Upto(k - 1)
  <2>1. ASSUME NEW u \in F PROVE (u <= k /\ u # k) <=> u <= k - 1
    BY <1>5, <1>6
  <2>2. QED
    BY <2>1
<1>10. k \in F
  <2>1. SUFFICES ASSUME k \notin F PROVE FALSE
    OBVIOUS
  <2>2. Upto(k) = Upto(k - 1)
    BY <1>9, <2>1
  <2> HIDE DEF Upto
  <2>3. QED
    BY <1>1, <1>5, <1>8, <2>2
<1>11. Cardinality(Upto(k - 1)) = Cardinality(Upto(k)) - 1
  <2>1. k \in Upto(k)
    BY <1>5, <1>10
  <2> HIDE DEF Upto
  <2>2. QED
    BY <1>2, <1>5, <1>9, <2>1, FS_RemoveElement
<1>12. Cardinality(Upto(k)) = i
  <2> HIDE DEF Upto
  <2>1. Cardinality(Upto(k)) \in Nat
    BY <1>2, <1>5
  <2>2. QED
    BY <1>1, <1>5, <1>8, <1>11, <2>1
<1>13. QED
  BY <1>10, <1>12

Nth(F, i) == CHOOSE t \in F : Cardinality({u \in F : u <= t}) = i

Order(F) == [i \in 1..Cardinality(F) |-> Nth(F, i)]

ReloadedLog(r, order) ==
    [i \in DOMAIN order |-> [seq |-> i, ts |-> order[i], s |-> r[order[i]]]]

ReloadedRing(r, F) == [t \in Stamps |-> IF t \in F THEN r[t] ELSE NoSample]

Reloaded(r, F) ==
    [NewMember EXCEPT !.ring = ReloadedRing(r, F), !.log = ReloadedLog(r, Order(F)),
                      !.seq = Len(Order(F)) + 1]

LEMMA ReloadedOK ==
    ASSUME NEW r \in Ring, Ends(r), NEW F \in SUBSET Stored(r)
    PROVE  /\ Reloaded(r, F) \in Member /\ Ends(Reloaded(r, F).ring)
           /\ Reloaded(r, F).kv = NoRec
<1> DEFINE n == Cardinality(F)
           order == Order(F)
           ring == ReloadedRing(r, F)
           log == ReloadedLog(r, order)
           y == Reloaded(r, F)
<1>1. PICK b \in Nat : \A t \in Stored(r) : t <= b
  BY DEF Ends
<1>2. F \in SUBSET (Nat \ {0}) /\ \A t \in F : t \in Stamps /\ t <= b /\ r[t] \in Sample
  BY <1>1, SamplesAssumption DEF Stored, Ring
<1>3. n \in Nat
  <2>1. F \subseteq 0..b
    BY <1>2
  <2>2. IsFiniteSet(F)
    <3>1. IsFiniteSet(0..b)
      BY FS_Interval
    <3>2. QED
      BY <2>1, <3>1, FS_Subset
  <2>3. QED
    BY <2>2, FS_CardinalityType
<1>4. ASSUME NEW i \in 1..n PROVE Nth(F, i) \in F
  <2>1. \E t \in F : Cardinality({u \in F : u <= t}) = i
    BY <1>2, TheIth
  <2>2. QED
    BY <2>1, Zenon DEF Nth
<1>5. /\ order \in Seq(F) /\ DOMAIN order = 1..n /\ Len(order) = n
      /\ \A i \in 1..n : order[i] \in F
  <2>1. order = [i \in 1..n |-> Nth(F, i)]
    BY DEF Order
  <2> HIDE DEF n, order
  <2>2. order \in Seq(F)
    BY <1>3, <1>4, <2>1
  <2>3. QED
    BY <1>3, <1>4, <2>1, <2>2
<1> HIDE DEF n, order
<1>6. /\ log \in Seq(LogEntry) /\ Len(log) = n
      /\ \A i \in 1..n : log[i].seq = i
  <2>1. ASSUME NEW i \in 1..n
        PROVE  [seq |-> i, ts |-> order[i], s |-> r[order[i]]] \in LogEntry
    <3>1. i \in Nat /\ order[i] \in Stamps /\ r[order[i]] \in Sample
      <4>1. order[i] \in F
        BY <1>5
      <4>2. i \in Nat
        BY <1>3
      <4>3. QED
        BY <1>2, <4>1, <4>2
    <3>2. QED
      BY <3>1 DEF LogEntry
  <2>2. log = [i \in 1..n |-> [seq |-> i, ts |-> order[i], s |-> r[order[i]]]]
    BY <1>5 DEF ReloadedLog
  <2>3. log \in Seq(LogEntry)
    <3>1. \A i \in 1..n : log[i] \in LogEntry
      BY <2>1, <2>2
    <3>2. DOMAIN log = 1..n
      BY <2>2
    <3>3. log = [i \in 1..n |-> log[i]]
      BY <2>2
    <3> HIDE DEF log
    <3>4. QED
      BY <1>3, <3>1, <3>2, <3>3
  <2>4. \A i \in 1..n : log[i].seq = i
    BY <2>2
  <2>5. DOMAIN log = 1..n
    BY <2>2
  <2> HIDE DEF log
  <2>6. QED
    BY <1>3, <2>3, <2>4, <2>5
<1>7. ring \in Ring
  BY <1>2 DEF Ring, ReloadedRing
<1>8. y = [NewMember EXCEPT !.ring = ring, !.log = log, !.seq = Len(order) + 1]
  BY DEF Reloaded, order
<1> HIDE DEF ring, log, y
<1>9. /\ NewMember \in Member /\ NewMember.kv = NoRec
      /\ NewMember.sent = [q \in Members |-> 0]
  BY DEF NewMember, Member, EmptyRing, Ring
<1>10. /\ y \in Member /\ y.kv = NoRec /\ y.ring = ring /\ y.log = log /\ y.seq = n + 1
       /\ \A q \in Members : y.sent[q] = 0
  <2>1. Len(order) + 1 \in Nat /\ Len(order) + 1 = n + 1
    BY <1>3, <1>5
  <2>2. log \in Seq([seq : Nat, ts : Stamps, s : Sample])
    BY <1>6 DEF LogEntry
  <2>3. /\ y \in Member /\ y.kv = NewMember.kv /\ y.ring = ring /\ y.log = log
        /\ y.seq = Len(order) + 1 /\ y.sent = NewMember.sent
    BY <1>7, <1>8, <1>9, <2>1, <2>2 DEF Member
  <2>4. QED
    BY <1>9, <2>1, <2>3
<1>11. Ends(y.ring)
  <2>1. \A t \in Stored(ring) : t <= b
    BY <1>2 DEF Stored, ring, ReloadedRing
  <2>2. QED
    BY <1>10, <2>1 DEF Ends
<1>12. QED
  BY <1>10, <1>11 DEF y

LEMMA RestartDoes ==
    ASSUME Sound, NEW m \in Members, NEW flushed, Restart(m, flushed)
    PROVE  /\ flushed \in SUBSET Stored(mem[m].ring)
           /\ mem' = [mem EXCEPT ![m] = Reloaded(mem[m].ring, flushed)]
           /\ \A w \in Tasks : work'[m][w] = IdleTask
           /\ \A n \in Members \ {m}, w \in Tasks : Leaves(work[n][w], work'[n][w], m)
           /\ restarts' = restarts + 1 /\ Sound'
<1> DEFINE y == Reloaded(mem[m].ring, flushed)
           After(n, w) == IF n = m THEN IdleTask
                         ELSE IF work[n][w].from = m THEN Orphan(work[n][w]) ELSE work[n][w]
<1>1. mem[m].ring \in Ring /\ Ends(mem[m].ring)
  BY Parts
<1>2. /\ flushed \in SUBSET Stored(mem[m].ring) /\ mem' = [mem EXCEPT ![m] = y]
      /\ restarts < MaxRestarts /\ restarts' = restarts + 1
      /\ work' = [n \in Members |-> [w \in Tasks |-> After(n, w)]]
      /\ push' = [n \in Members |-> [p \in Members |->
                     IF n = m \/ p = m THEN IdlePush ELSE push[n][p]]]
      /\ late' = {r \in late : r.to # m} /\ reordered' = reordered \ {m}
      /\ UNCHANGED <<now, puts>>
  BY DEF Restart, Nth, Order, ReloadedLog, ReloadedRing, Reloaded
<1>3. y \in Member /\ Ends(y.ring)
  <2> HIDE DEF y
  <2>1. QED
    BY <1>1, <1>2, ReloadedOK DEF y
<1> HIDE DEF y
<1>4. \A n \in Members, w \in Tasks :
          /\ After(n, w) \in Task /\ Filled(After(n, w))
          /\ n = m => After(n, w) = IdleTask
          /\ n # m => Leaves(work[n][w], After(n, w), m)
  <2>1. ASSUME NEW n \in Members, NEW w \in Tasks
        PROVE  /\ After(n, w) \in Task /\ Filled(After(n, w))
               /\ n = m => After(n, w) = IdleTask
               /\ n # m => Leaves(work[n][w], After(n, w), m)
    <3>1. CASE n = m
      BY <3>1, IdleOK
    <3>2. CASE n # m
      <4>1. work[n][w] \in Task /\ Filled(work[n][w])
        BY Parts
      <4>2. After(n, w) = IF work[n][w].from = m THEN Orphan(work[n][w]) ELSE work[n][w]
        BY <3>2
      <4> HIDE DEF After
      <4>3. Leaves(work[n][w], After(n, w), m)
        BY <4>1, <4>2, LeavesWhen
      <4>4. QED
        BY <3>2, <4>3 DEF Leaves
    <3>3. QED
      BY <3>1, <3>2
  <2>2. QED
    BY <2>1
<1> HIDE DEF After
<1>5. \A n \in Members, w \in Tasks : work'[n][w] = After(n, w)
  BY <1>2
<1>6. work' \in Works
  BY <1>2, <1>4 DEF Works
<1>7. push' \in Pushes
  <2>1. push \in [Members -> [Members -> Push]]
    BY SoundSays DEF Pushes
  <2>2. QED
    BY <1>2, <2>1, IdlePushOK DEF Pushes
<1>8. Sound'
  <2>1. mem' \in Stores
    BY <1>2, <1>3, OneStore
  <2>2. restarts' \in 0..MaxRestarts
    BY <1>2, GossipAssumption, SoundSays
  <2>3. /\ late' \subseteq Request /\ reordered' \subseteq Members
        /\ now' \in 0..MaxNow /\ puts' \in 0..MaxPuts
    BY <1>2, SoundSays
  <2>4. QED
    BY <1>6, <1>7, <2>1, <2>2, <2>3, SoundWhen
<1>9. QED
  BY <1>2, <1>4, <1>5, <1>8 DEF y

-----------------------------------------------------------------------------
(* What the peers have.  While nothing restarts, what a member has queued  *)
(* at or below a peer's watermark the peer has; and what lies at or below  *)
(* the end of a delta under way the peer has, or it is in the delta, or a  *)
(* task of the peer has yet to ingest it.                                  *)

InDelta(q, e) == \E j \in 1..Len(q.delta) : Same(q.delta[j], e)

Awaits(ts, m, e) == \E w \in Tasks : Owes(ts[w], m, e)

EntryOK(e, s, q, y, ts, m) ==
    /\ e.seq <= s => Got(y, e)
    /\ q.pc \in {"sent", "served", "answered"} /\ e.seq <= q.last =>
          \/ Got(y, e)
          \/ q.pc = "sent" /\ InDelta(q, e)
          \/ q.pc = "served" /\ Awaits(ts, m, e)

PairOK(x, p, q, y, ts, m) == \A i \in 1..Len(x.log) : EntryOK(x.log[i], x.sent[p], q, y, ts, m)

\* n is below every number that a member has yet to give or to queue.
Low(n, x, ts) == n < x.seq /\ \A w \in Tasks : ts[w].pc = "numbered" => n < ts[w].seq

\* The queue ascends, and every number still to come is a new and higher one.
InOrder(x, ts, q) ==
    /\ \A i, j \in 1..Len(x.log) : i < j => x.log[i].seq < x.log[j].seq
    /\ \A i \in 1..Len(x.log) : Low(x.log[i].seq, x, ts)
    /\ \A p \in Members : Low(x.sent[p], x, ts) /\ Low(q[p].last, x, ts)
    /\ \A v, w \in Tasks : ts[v].pc = "numbered" =>
          /\ ts[v].seq < x.seq
          /\ ts[w].pc = "numbered" /\ v # w => ts[v].seq # ts[w].seq

\* At most one task handles a push, and the push waits for it.
Handled == \A p, m \in Members : \A w \in Tasks : work[p][w].from = m =>
    /\ p \in Peers[m] /\ push[m][p].pc = "served"
    /\ \A v \in Tasks : work[p][v].from = m => v = w

SkipInv ==
    restarts = 0 =>
    /\ Handled
    /\ \A m \in Members \ reordered :
          /\ InOrder(mem[m], work[m], push[m])
          /\ \A p \in Peers[m] : PairOK(mem[m], p, push[m][p], mem[p], work[p], m)

\* What the tasks owe m, they still do, or have.
Passes(ts, ts2, y, m) == \A e \in LogEntry :
    Awaits(ts, m, e) => Awaits(ts2, m, e) \/ Got(y, e)

\* What is new in the queue of x2 is above the watermark and the delta's end.
Beyond(x, p, q, x2) == \A i \in 1..Len(x2.log) :
    \/ \E j \in 1..Len(x.log) : x2.log[i] = x.log[j]
    \/ x2.log[i].seq > x.sent[p] /\ x2.log[i].seq > q.last

LEMMA PairKept ==
    ASSUME NEW x \in Member, NEW x2 \in Member, NEW y, NEW y2, NEW ts, NEW ts2,
           NEW q \in Push, NEW q2, NEW m \in Members, NEW p \in Members,
           PairOK(x, p, q, y, ts, m), x2.sent[p] = x.sent[p],
           q2 = q \/ q2.pc \in {"idle", "begun"}, Keeps(y, y2),
           Passes(ts, ts2, y2, m), Beyond(x, p, q, x2)
    PROVE  PairOK(x2, p, q2, y2, ts2, m)
<1>1. SUFFICES ASSUME NEW i \in 1..Len(x2.log)
               PROVE  EntryOK(x2.log[i], x2.sent[p], q2, y2, ts2, m)
  BY DEF PairOK
<1>2. PICK e : e = x2.log[i]
  OBVIOUS
<1>3. e \in LogEntry /\ e.seq \in Nat
  <2>1. x2.log \in Seq(LogEntry)
    BY DEF Member, LogEntry
  <2>2. e \in LogEntry
    BY <1>2, <2>1, ElementOf
  <2>3. QED
    BY <2>2 DEF LogEntry
<1>4. x.sent[p] \in Nat /\ q.last \in Nat
  BY DEF Member, Push
<1>5. CASE \E j \in 1..Len(x.log) : e = x.log[j]
  <2>1. EntryOK(e, x.sent[p], q, y, ts, m)
    BY <1>5 DEF PairOK
  <2>2. Got(y, e) => Got(y2, e)
    BY <1>3, KeepsGot
  <2>3. Awaits(ts, m, e) => Awaits(ts2, m, e) \/ Got(y2, e)
    BY <1>3 DEF Passes
  <2>4. CASE q2 = q
    BY <1>2, <2>1, <2>2, <2>3, <2>4 DEF EntryOK
  <2>5. CASE q2.pc \in {"idle", "begun"}
    BY <1>2, <2>1, <2>2, <2>5 DEF EntryOK
  <2>6. QED
    BY <2>4, <2>5
<1>6. CASE e.seq > x.sent[p] /\ e.seq > q.last
  <2>1. ~(e.seq <= x.sent[p]) /\ ~(e.seq <= q.last)
    BY <1>3, <1>4, <1>6
  <2>2. CASE q2 = q
    BY <1>2, <2>1, <2>2 DEF EntryOK
  <2>3. CASE q2.pc \in {"idle", "begun"}
    BY <1>2, <2>1, <2>3 DEF EntryOK
  <2>4. QED
    BY <2>2, <2>3
<1>7. QED
  BY <1>2, <1>5, <1>6 DEF Beyond

\* A member of which nothing new is numbered or queued.
NothingNew(x, ts, q, x2, ts2, q2) ==
    /\ x2.seq = x.seq
    /\ Rest(x2.log, x.log)
    /\ \A p \in Members : x2.sent[p] \in {x.sent[p], q[p].last}
    /\ \A p \in Members : \/ q2[p].last \in {0, q[p].last, x.sent[p]}
                          \/ \E i \in 1..Len(x.log) : q2[p].last = x.log[i].seq
    /\ \A w \in Tasks : ts2[w].pc = "numbered" =>
          ts[w].pc = "numbered" /\ ts2[w].seq = ts[w].seq

LEMMA OrderKept ==
    ASSUME NEW x \in Member, NEW x2 \in Member, NEW ts \in [Tasks -> Task], NEW ts2,
           NEW q, NEW q2, InOrder(x, ts, q), NothingNew(x, ts, q, x2, ts2, q2)
    PROVE  InOrder(x2, ts2, q2)
<1>0. PICK k \in Nat : \A i \in 1..Len(x2.log) :
         k + i \in 1..Len(x.log) /\ x2.log[i] = x.log[k + i]
  BY DEF NothingNew, Rest
<1>1. \A n : Low(n, x, ts) => Low(n, x2, ts2)
  BY DEF Low, NothingNew
<1>2. ASSUME NEW p \in Members PROVE Low(x2.sent[p], x2, ts2) /\ Low(q2[p].last, x2, ts2)
  <2>1. Low(x.sent[p], x, ts) /\ Low(q[p].last, x, ts)
    BY DEF InOrder
  <2>2. Low(0, x, ts)
    <3>1. x.sent[p] \in Nat /\ x.seq \in Nat /\ \A w \in Tasks : ts[w].seq \in Nat
      BY DEF Member, Task
    <3>2. QED
      BY <2>1, <3>1 DEF Low
  <2>3. Low(q2[p].last, x, ts)
    <3>0. \/ q2[p].last \in {0, q[p].last, x.sent[p]}
          \/ \E i \in 1..Len(x.log) : q2[p].last = x.log[i].seq
      BY DEF NothingNew
    <3>1. CASE q2[p].last \in {0, q[p].last, x.sent[p]}
      BY <2>1, <2>2, <3>1
    <3>2. CASE \E i \in 1..Len(x.log) : q2[p].last = x.log[i].seq
      BY <3>2 DEF InOrder
    <3>3. QED
      BY <3>0, <3>1, <3>2
  <2>4. Low(x2.sent[p], x, ts)
    BY <2>1 DEF NothingNew
  <2>5. QED
    BY <1>1, <2>3, <2>4
<1>3. Len(x2.log) \in Nat /\ Len(x.log) \in Nat
  BY DEF Member
<1>4. ASSUME NEW i \in 1..Len(x2.log), NEW j \in 1..Len(x2.log), i < j
      PROVE  x2.log[i].seq < x2.log[j].seq
  <2>1. k + i \in 1..Len(x.log) /\ k + j \in 1..Len(x.log) /\ k + i < k + j
    BY <1>0, <1>3, <1>4
  <2>2. QED
    BY <1>0, <2>1 DEF InOrder
<1>5. \A i \in 1..Len(x2.log) : Low(x2.log[i].seq, x2, ts2)
  BY <1>0, <1>1 DEF InOrder
<1>6. ASSUME NEW v \in Tasks, NEW w \in Tasks, ts2[v].pc = "numbered"
      PROVE  /\ ts2[v].seq < x2.seq
             /\ ts2[w].pc = "numbered" /\ v # w => ts2[v].seq # ts2[w].seq
  BY <1>6 DEF InOrder, NothingNew
<1>7. QED
  BY <1>2, <1>4, <1>5, <1>6 DEF InOrder

LEMMA HandledKept ==
    ASSUME Handled,
           \A n, r \in Members, w \in Tasks : work'[r][w].from = n =>
              work[r][w].from = n /\ push'[n][r].pc = push[n][r].pc
    PROVE  Handled'
<1>1. ASSUME NEW r \in Members, NEW n \in Members, NEW w \in Tasks, work'[r][w].from = n
      PROVE  /\ r \in Peers[n] /\ push'[n][r].pc = "served"
             /\ \A v \in Tasks : work'[r][v].from = n => v = w
  BY <1>1 DEF Handled
<1>2. QED
  BY <1>1 DEF Handled

\* Tasks that go on: nobody new waits for them, and what they owe they still
\* owe, or the member has it.
Onward(ts, ts2, y) ==
    /\ \A w \in Tasks : ts2[w].from \in {ts[w].from, NoMember}
    /\ \A w \in Tasks, n \in Members, e \in LogEntry :
          Owes(ts[w], n, e) => Owes(ts2[w], n, e) \/ Got(y, e)

\* No task has a new number.
NoNumber(ts, ts2) == \A w \in Tasks :
    ts2[w].pc = "numbered" => ts[w].pc = "numbered" /\ ts2[w].seq = ts[w].seq

\* What is new in the queue is above every watermark and every delta's end.
Above(x, q, y) == \A i \in 1..Len(y.log) :
    \/ \E j \in 1..Len(x.log) : y.log[i] = x.log[j]
    \/ \A p \in Members : y.log[i].seq > x.sent[p] /\ y.log[i].seq > q[p].last

\* Only the stores and the tasks of member m change: it has what it had, and
\* what is new in its queue is above every watermark.
LEMMA MemberMoves ==
    ASSUME Sound, Sound', SkipInv, NEW m \in Members, push' = push, restarts' = restarts,
           reordered \subseteq reordered',
           \A n \in Members \ {m} : mem'[n] = mem[n] /\ work'[n] = work[n],
           Keeps(mem[m], mem'[m]), mem'[m].sent = mem[m].sent,
           Onward(work[m], work'[m], mem'[m]),
           restarts = 0 /\ m \notin reordered' =>
              InOrder(mem'[m], work'[m], push[m]) /\ Above(mem[m], push[m], mem'[m])
    PROVE  SkipInv'
<1> SUFFICES ASSUME restarts = 0 PROVE SkipInv'
  BY DEF SkipInv
<1>1. Handled'
  <2>1. Handled
    BY DEF SkipInv
  <2>2. ASSUME NEW n \in Members, NEW r \in Members, NEW w \in Tasks, work'[r][w].from = n
        PROVE  work[r][w].from = n /\ push'[n][r].pc = push[n][r].pc
    <3>1. n # NoMember
      BY GossipAssumption
    <3>2. CASE r = m
      BY <2>2, <3>1, <3>2 DEF Onward
    <3>3. CASE r # m
      BY <2>2, <3>3
    <3>4. QED
      BY <3>2, <3>3
  <2>3. QED
    BY <2>1, <2>2, HandledKept
<1>2. ASSUME NEW n \in Members \ reordered'
      PROVE  InOrder(mem'[n], work'[n], push'[n])
  <2>1. n \notin reordered /\ InOrder(mem[n], work[n], push[n])
    BY <1>2 DEF SkipInv
  <2>2. CASE n = m
    BY <1>2, <2>2
  <2>3. CASE n # m
    BY <2>1, <2>3
  <2>4. QED
    BY <2>2, <2>3
<1>3. ASSUME NEW n \in Members \ reordered', NEW p \in Peers[n]
      PROVE  PairOK(mem'[n], p, push'[n][p], mem'[p], work'[p], n)
  <2>1. p \in Members /\ n \in Members
    BY GossipAssumption
  <2>2. mem[n] \in Member /\ push[n][p] \in Push
    BY <2>1, Parts
  <2>3. mem'[n] \in Member
    <3>1. (Sound => mem \in Stores)'
      BY SoundSays, PTL
    <3>2. QED
      BY <2>1, <3>1 DEF Stores
  <2>4. PairOK(mem[n], p, push[n][p], mem[p], work[p], n)
    BY <1>3 DEF SkipInv
  <2>5. mem'[n].sent[p] = mem[n].sent[p]
    BY <2>1
  <2>6. Keeps(mem[p], mem'[p])
    <3>1. CASE p = m
      BY <3>1
    <3>2. CASE p # m
      BY <2>1, <3>2, SameRing
    <3>3. QED
      BY <3>1, <3>2
  <2>7. ASSUME NEW e \in LogEntry, Awaits(work[p], n, e)
        PROVE  Awaits(work'[p], n, e) \/ Got(mem'[p], e)
    <3>1. PICK w \in Tasks : Owes(work[p][w], n, e)
      BY <2>7 DEF Awaits
    <3>2. CASE p = m
      <4>1. Owes(work'[m][w], n, e) \/ Got(mem'[m], e)
        BY <2>1, <3>1, <3>2 DEF Onward
      <4>2. QED
        BY <3>2, <4>1 DEF Awaits
    <3>3. CASE p # m
      <4>1. work'[p] = work[p]
        BY <2>1, <3>3
      <4>2. QED
        BY <2>7, <4>1
    <3>4. QED
      BY <3>2, <3>3
  <2>8. ASSUME NEW i \in 1..Len(mem'[n].log)
        PROVE  \/ \E j \in 1..Len(mem[n].log) : mem'[n].log[i] = mem[n].log[j]
               \/ mem'[n].log[i].seq > mem[n].sent[p] /\ mem'[n].log[i].seq > push[n][p].last
    <3>1. CASE n = m
      BY <1>3, <2>1, <3>1 DEF Above
    <3>2. CASE n # m
      BY <2>1, <3>2
    <3>3. QED
      BY <3>1, <3>2
  <2>9. push'[n][p] = push[n][p]
    OBVIOUS
  <2>10. Passes(work[p], work'[p], mem'[p], n)
    BY <2>7 DEF Passes
  <2>11. Beyond(mem[n], p, push[n][p], mem'[n])
    BY <2>8 DEF Beyond
  <2>12. QED
    BY ONLY <2>1, <2>2, <2>3, <2>4, <2>5, <2>6, <2>9, <2>10, <2>11, PairKept
<1>4. QED
  BY <1>1, <1>2, <1>3 DEF SkipInv

\* Only the push of m to p moves: nothing is queued, no other push loses a task
\* that works for it, and the watermark is what it was or the end of the delta.
Moving(m, p) ==
    /\ \A n \in Members : /\ mem'[n].ring = mem[n].ring /\ mem'[n].floor = mem[n].floor
                          /\ mem'[n].log = mem[n].log /\ mem'[n].seq = mem[n].seq
                          /\ NoNumber(work[n], work'[n])
    /\ \A n, r \in Members : n # m \/ r # p =>
          /\ mem'[n].sent[r] = mem[n].sent[r] /\ push'[n][r] = push[n][r]
          /\ \A e \in LogEntry : Awaits(work[r], n, e) => Awaits(work'[r], n, e)
    /\ mem'[m].sent[p] \in {mem[m].sent[p], push[m][p].last}
    /\ \/ push'[m][p].last \in {0, push[m][p].last, mem[m].sent[p]}
       \/ \E i \in 1..Len(mem[m].log) : push'[m][p].last = mem[m].log[i].seq

LEMMA PushMoves ==
    ASSUME Sound, Sound', SkipInv, NEW m \in Members, NEW p \in Peers[m],
           restarts' = restarts, reordered' = reordered, Moving(m, p),
           restarts = 0 => Handled',
           restarts = 0 /\ m \notin reordered =>
              PairOK(mem'[m], p, push'[m][p], mem'[p], work'[p], m)
    PROVE  SkipInv'
<1> SUFFICES ASSUME restarts = 0 PROVE SkipInv'
  BY DEF SkipInv
<1>0. \A n \in Members : mem'[n] \in Member
  <2>1. (Sound => mem \in Stores)'
    BY SoundSays, PTL
  <2>2. QED
    BY <2>1 DEF Stores
<1>1. p \in Members
  BY GossipAssumption
<1>2. ASSUME NEW n \in Members \ reordered
      PROVE  InOrder(mem'[n], work'[n], push'[n])
  <2>1. /\ n \in Members /\ mem[n] \in Member /\ mem'[n] \in Member
        /\ work[n] \in [Tasks -> Task] /\ push[n] \in [Members -> Push]
    BY <1>0, Parts
  <2>2. InOrder(mem[n], work[n], push[n])
    BY DEF SkipInv
  <2>3. Rest(mem'[n].log, mem[n].log)
    <3>1. mem'[n].log = mem[n].log /\ Len(mem[n].log) \in Nat
      BY <2>1 DEF Member, Moving
    <3>2. \A i \in 1..Len(mem'[n].log) :
              0 + i \in 1..Len(mem[n].log) /\ mem'[n].log[i] = mem[n].log[0 + i]
      BY <3>1
    <3>3. QED
      BY <3>2 DEF Rest
  <2>4. ASSUME NEW r \in Members
        PROVE  /\ mem'[n].sent[r] \in {mem[n].sent[r], push[n][r].last}
               /\ \/ push'[n][r].last \in {0, push[n][r].last, mem[n].sent[r]}
                  \/ \E i \in 1..Len(mem[n].log) : push'[n][r].last = mem[n].log[i].seq
    <3>1. CASE n = m /\ r = p
      BY <3>1 DEF Moving
    <3>2. CASE n # m \/ r # p
      BY <2>1, <3>2 DEF Moving
    <3>3. QED
      BY <3>1, <3>2
  <2>5. NothingNew(mem[n], work[n], push[n], mem'[n], work'[n], push'[n])
    BY <2>1, <2>3, <2>4 DEF NothingNew, NoNumber, Moving
  <2>6. QED
    BY <2>1, <2>2, <2>5, OrderKept
<1>3. ASSUME NEW n \in Members \ reordered, NEW r \in Peers[n]
      PROVE  PairOK(mem'[n], r, push'[n][r], mem'[r], work'[r], n)
  <2>1. CASE n = m /\ r = p
    BY <1>3, <2>1
  <2>2. CASE n # m \/ r # p
    <3>1. r \in Members /\ n \in Members
      BY GossipAssumption
    <3>2. mem[n] \in Member /\ mem'[n] \in Member /\ push[n][r] \in Push
      BY <1>0, <3>1, Parts
    <3>3. PairOK(mem[n], r, push[n][r], mem[r], work[r], n)
      BY <1>3 DEF SkipInv
    <3>4. Keeps(mem[r], mem'[r])
      BY <3>1, SameRing DEF Moving
    <3>5. /\ mem'[n].sent[r] = mem[n].sent[r] /\ push'[n][r] = push[n][r]
          /\ \A e \in LogEntry :
                Awaits(work[r], n, e) => Awaits(work'[r], n, e) \/ Got(mem'[r], e)
      BY <2>2, <3>1 DEF Moving
    <3>6. Passes(work[r], work'[r], mem'[r], n)
      BY <3>5 DEF Passes
    <3>7. Beyond(mem[n], r, push[n][r], mem'[n])
      BY <3>1 DEF Moving, Beyond
    <3>8. push'[n][r] = push[n][r] /\ mem'[n].sent[r] = mem[n].sent[r]
      BY <3>5
    <3>9. QED
      BY ONLY <3>1, <3>2, <3>3, <3>4, <3>6, <3>7, <3>8, PairKept
  <2>3. QED
    BY <2>1, <2>2
<1>4. QED
  BY <1>2, <1>3 DEF SkipInv

\* Only member m changes, and takes or queues no number.
LEMMA QuietMember ==
    ASSUME Sound, Sound', SkipInv, NEW m \in Members, push' = push, restarts' = restarts,
           reordered' = reordered,
           \A n \in Members \ {m} : mem'[n] = mem[n] /\ work'[n] = work[n],
           Keeps(mem[m], mem'[m]), mem'[m].sent = mem[m].sent, mem'[m].seq = mem[m].seq,
           Rest(mem'[m].log, mem[m].log),
           NoNumber(work[m], work'[m]), Onward(work[m], work'[m], mem'[m])
    PROVE  SkipInv'
<1>1. NothingNew(mem[m], work[m], push[m], mem'[m], work'[m], push[m])
  BY DEF NothingNew, NoNumber
<1>2. /\ mem[m] \in Member /\ work[m] \in [Tasks -> Task]
      /\ mem'[m] \in Member
  <2>1. (Sound => mem \in Stores)'
    BY SoundSays, PTL
  <2>2. QED
    BY <2>1, Parts DEF Stores
<1>3. restarts = 0 /\ m \notin reordered' => InOrder(mem'[m], work'[m], push[m])
  <2>1. SUFFICES ASSUME restarts = 0 /\ m \notin reordered
                 PROVE  InOrder(mem'[m], work'[m], push[m])
    OBVIOUS
  <2>2. InOrder(mem[m], work[m], push[m])
    BY <2>1 DEF SkipInv
  <2>3. QED
    BY ONLY <1>1, <1>2, <2>2, OrderKept
<1>4. Above(mem[m], push[m], mem'[m])
  BY DEF Rest, Above
<1>5. QED
  BY <1>3, <1>4, MemberMoves

LEMMA SameLog ==
    ASSUME NEW x \in Member, NEW y, y.log = x.log
    PROVE  Rest(y.log, x.log)
<1>1. Len(x.log) \in Nat
  BY DEF Member
<1>2. \A i \in 1..Len(y.log) : 0 + i \in 1..Len(x.log) /\ y.log[i] = x.log[0 + i]
  BY <1>1
<1>3. QED
  BY <1>2 DEF Rest

LEMMA TakesSkips ==
    ASSUME Sound, SkipInv, NEW m \in Members, NEW w \in Tasks, Takes(m, w)
    PROVE  SkipInv'
<1>1. PICK e \in Entry, y \in Member, u \in Task :
          /\ Accepts(mem[m].ring, mem[m].floor, e.ts, e.s)
          /\ Taken(mem[m], y, e) /\ Accepting(mem[m], work[m][w], u, e)
          /\ mem' = [mem EXCEPT ![m] = y] /\ work' = [work EXCEPT ![m][w] = u]
          /\ Still
  BY DEF Takes
<1>2. Sound'
  BY TakesSound
<1>3. /\ Ends(y.ring) /\ y.log = mem[m].log /\ y.seq = mem[m].seq /\ y.sent = mem[m].sent
      /\ Filled(u) /\ u.pc = "accepted" /\ u.from \in {work[m][w].from, NoMember}
      /\ \A n \in Members, f \in LogEntry :
            Owes(work[m][w], n, f) => Owes(u, n, f) \/ Same(e, f)
  BY <1>1 DEF Taken, Accepting
<1>4. mem'[m] = y /\ \A n \in Members \ {m} : mem'[n] = mem[n]
  BY <1>1, <1>3, OneStore
<1>5. /\ work'[m][w] = u /\ \A v \in Tasks \ {w} : work'[m][v] = work[m][v]
      /\ \A n \in Members \ {m} : work'[n] = work[n]
  BY <1>1, <1>3, OneTask
<1>6. Keeps(mem[m], y) /\ Got(y, e) /\ mem[m] \in Member
  <2>1. mem[m] \in Member /\ Ends(mem[m].ring)
    BY Parts
  <2>2. /\ y.ring = Insert(mem[m].ring, mem[m].floor, e.ts, e.s).ring
        /\ y.floor = Insert(mem[m].ring, mem[m].floor, e.ts, e.s).floor
    BY <1>1 DEF Taken
  <2>3. Got(y, e) /\ \A t \in Stamps, d \in Dims : Covers(mem[m], t, d) => Covers(y, t, d)
    BY <1>1, <2>1, <2>2, Accepted
  <2>4. QED
    BY <2>1, <2>3 DEF Keeps
<1>7. ASSUME NEW v \in Tasks, NEW n \in Members, NEW f \in LogEntry, Owes(work[m][v], n, f)
      PROVE  Owes(work'[m][v], n, f) \/ Got(y, f)
  <2>1. CASE v = w
    <3>1. Same(e, f) => Got(y, f)
      BY <1>6 DEF Same, Got
    <3>2. QED
      BY <1>3, <1>5, <1>7, <2>1, <3>1
  <2>2. CASE v # w
    BY <1>5, <1>7, <2>2
  <2>3. QED
    BY <2>1, <2>2
<1>8. Onward(work[m], work'[m], mem'[m]) /\ NoNumber(work[m], work'[m])
  BY <1>3, <1>4, <1>5, <1>7 DEF Onward, NoNumber
<1>9. push' = push /\ restarts' = restarts /\ reordered' = reordered
  BY <1>1 DEF Still
<1>10. Rest(mem'[m].log, mem[m].log)
  BY <1>3, <1>4, <1>6, SameLog
<1>11. QED
  BY <1>2, <1>3, <1>4, <1>5, <1>6, <1>8, <1>9, <1>10, QuietMember

LEMMA RefuseSkips ==
    ASSUME Sound, SkipInv, NEW m \in Members, NEW w \in Tasks, Refuse(m, w)
    PROVE  SkipInv'
<1> DEFINE task == work[m][w]
           e == Head(task.todo)
<1>1. /\ task.pc = "next" /\ task.todo # <<>> /\ e \in Entry /\ Got(mem[m], e)
      /\ mem' = mem /\ work' = [work EXCEPT ![m][w] = Done(task)] /\ Still /\ Sound'
  BY RefuseDoes
<1>2. task \in Task /\ mem[m] \in Member
  BY Parts
<1> HIDE DEF task
<1>3. /\ Done(task) \in Task /\ Filled(Done(task)) /\ Done(task).pc # "numbered"
      /\ Done(task).from = task.from
      /\ \A n \in Members, f \in LogEntry : Owes(task, n, f) => Owes(Done(task), n, f) \/ Same(e, f)
  BY <1>1, <1>2, DoneOK
<1>4. /\ work'[m][w] = Done(task) /\ \A v \in Tasks \ {w} : work'[m][v] = work[m][v]
      /\ \A n \in Members \ {m} : work'[n] = work[n]
  BY <1>1, <1>3, OneTask
<1>5. ASSUME NEW v \in Tasks, NEW n \in Members, NEW f \in LogEntry, Owes(work[m][v], n, f)
      PROVE  Owes(work'[m][v], n, f) \/ Got(mem'[m], f)
  <2>1. CASE v = w
    <3>1. Same(e, f) => Got(mem[m], f)
      BY <1>1 DEF Same, Got
    <3>2. QED
      BY <1>1, <1>3, <1>4, <1>5, <2>1, <3>1 DEF task
  <2>2. CASE v # w
    BY <1>4, <1>5, <2>2
  <2>3. QED
    BY <2>1, <2>2
<1>6. Onward(work[m], work'[m], mem'[m]) /\ NoNumber(work[m], work'[m])
  BY <1>3, <1>4, <1>5 DEF task, Onward, NoNumber
<1>7. push' = push /\ restarts' = restarts /\ reordered' = reordered
  BY <1>1 DEF Still
<1>8. Keeps(mem[m], mem'[m])
  BY <1>1, SameRing
<1>9. Rest(mem'[m].log, mem[m].log)
  BY <1>1, <1>2, SameLog
<1>10. /\ mem'[m].sent = mem[m].sent /\ mem'[m].seq = mem[m].seq
       /\ \A n \in Members \ {m} : mem'[n] = mem[n] /\ work'[n] = work[n]
  BY <1>1, <1>4
<1>11. Sound'
  BY <1>1
<1>12. QED
  BY <1>6, <1>7, <1>8, <1>9, <1>10, <1>11, QuietMember

\* A new number is above all that the member has given.
LEMMA NumberOrder ==
    ASSUME NEW x \in Member, NEW y \in Member, NEW ts \in [Tasks -> Task],
           NEW ts2 \in [Tasks -> Task], NEW q \in [Members -> Push], NEW w \in Tasks,
           InOrder(x, ts, q), y.log = x.log, y.sent = x.sent, y.seq = x.seq + 1,
           ts2[w].seq = x.seq, \A v \in Tasks \ {w} : ts2[v] = ts[v]
    PROVE  InOrder(y, ts2, q)
<1>1. x.seq \in Nat
  BY DEF Member
<1>2. ASSUME NEW n \in Nat, Low(n, x, ts) PROVE Low(n, y, ts2)
  <2>1. n < x.seq /\ n < y.seq
    BY <1>1, <1>2 DEF Low
  <2>2. ASSUME NEW v \in Tasks, ts2[v].pc = "numbered" PROVE n < ts2[v].seq
    <3>1. CASE v = w
      BY <2>1, <3>1
    <3>2. CASE v # w
      BY <1>2, <2>2, <3>2 DEF Low
    <3>3. QED
      BY <3>1, <3>2
  <2>3. QED
    BY <2>1, <2>2 DEF Low
<1>3. /\ \A i \in 1..Len(x.log) : x.log[i].seq \in Nat
      /\ \A p \in Members : x.sent[p] \in Nat /\ q[p].last \in Nat
      /\ \A v \in Tasks : ts[v].seq \in Nat
  <2>1. \A i \in 1..Len(x.log) : x.log[i].seq \in Nat
    <3>1. x.log \in Seq(LogEntry)
      BY DEF Member, LogEntry
    <3>2. \A i \in 1..Len(x.log) : x.log[i] \in LogEntry
      BY <3>1, ElementOf
    <3>3. QED
      BY <3>2 DEF LogEntry
  <2>2. QED
    BY <2>1 DEF Member, Push, Task
<1>4. /\ \A i \in 1..Len(y.log) : Low(y.log[i].seq, y, ts2)
      /\ \A p \in Members : Low(y.sent[p], y, ts2) /\ Low(q[p].last, y, ts2)
  BY <1>2, <1>3 DEF InOrder
<1>5. ASSUME NEW v \in Tasks, NEW u \in Tasks, ts2[v].pc = "numbered"
      PROVE  /\ ts2[v].seq < y.seq
             /\ ts2[u].pc = "numbered" /\ v # u => ts2[v].seq # ts2[u].seq
  <2>1. \A z \in Tasks \ {w} : ts2[z].pc = "numbered" => ts2[z].seq < x.seq
    BY DEF InOrder
  <2>2. CASE v = w
    BY <1>1, <2>1, <2>2
  <2>3. CASE v # w
    <3>1. ts2[v].seq < y.seq /\ ts2[v].seq # x.seq
      BY <1>1, <1>3, <1>5, <2>1, <2>3
    <3>2. CASE u = w
      BY <3>1, <3>2
    <3>3. CASE u # w
      BY <1>5, <2>3, <3>1, <3>3 DEF InOrder
    <3>4. QED
      BY <3>2, <3>3
  <2>4. QED
    BY <2>2, <2>3
<1>6. QED
  BY <1>4, <1>5 DEF InOrder

LEMMA NumberSkips ==
    ASSUME Sound, SkipInv, NEW m \in Members, NEW w \in Tasks, Number(m, w)
    PROVE  SkipInv'
<1>1. PICK y \in Member, u \in Task :
          /\ y.ring = mem[m].ring /\ y.floor = mem[m].floor
          /\ y.log = mem[m].log /\ y.sent = mem[m].sent /\ y.seq = mem[m].seq + 1
          /\ work[m][w].pc = "accepted" /\ u.pc = "numbered" /\ u.seq = mem[m].seq
          /\ u.todo = work[m][w].todo /\ u.from = work[m][w].from /\ Filled(u)
          /\ mem' = [mem EXCEPT ![m] = y] /\ work' = [work EXCEPT ![m][w] = u]
  BY NumberDoes
<1>2. Still /\ Sound'
  BY NumberDoes
<1>3. /\ mem[m] \in Member /\ Ends(mem[m].ring) /\ work[m] \in [Tasks -> Task]
      /\ push[m] \in [Members -> Push]
  BY Parts
<1>4. mem'[m] = y /\ \A n \in Members \ {m} : mem'[n] = mem[n]
  BY <1>1, <1>3, OneStore
<1>5. /\ work'[m][w] = u /\ \A v \in Tasks \ {w} : work'[m][v] = work[m][v]
      /\ \A n \in Members \ {m} : work'[n] = work[n]
      /\ work'[m] \in [Tasks -> Task]
  <2>1. work' \in Works
    BY <1>1, OneTask
  <2>2. QED
    BY <1>1, <2>1, OneTask DEF Works
<1>6. \A n \in Members, f \in LogEntry : Owes(work[m][w], n, f) => Owes(u, n, f)
  BY <1>1 DEF Owes, Busy
<1>7. Onward(work[m], work'[m], mem'[m])
  BY <1>1, <1>5, <1>6 DEF Onward
<1>8. Keeps(mem[m], mem'[m])
  BY <1>1, <1>4, SameRing
<1>9. restarts = 0 /\ m \notin reordered' => InOrder(mem'[m], work'[m], push[m])
  <2>1. SUFFICES ASSUME restarts = 0 /\ m \notin reordered'
                 PROVE  InOrder(y, work'[m], push[m])
    BY <1>4
  <2>2. InOrder(mem[m], work[m], push[m])
    BY <1>2, <2>1 DEF SkipInv, Still
  <2>3. work'[m][w].seq = mem[m].seq
    BY <1>1, <1>5
  <2>4. QED
    BY ONLY <1>1, <1>3, <1>5, <2>2, <2>3, y \in Member, w \in Tasks, NumberOrder
<1>10. Above(mem[m], push[m], mem'[m])
  BY <1>1, <1>4 DEF Above
<1>11. /\ push' = push /\ restarts' = restarts /\ reordered \subseteq reordered'
       /\ mem'[m].sent = mem[m].sent
  BY <1>1, <1>2, <1>4 DEF Still
<1>12. QED
  BY <1>2, <1>4, <1>5, <1>7, <1>8, <1>9, <1>10, <1>11, MemberMoves

\* An entry with the smallest number under way keeps the queue ascending.
SmallestOf(ts, w) ==
    /\ ts[w].pc = "numbered"
    /\ \A v \in Tasks : ts[v].pc = "numbered" => ~(ts[v].seq < ts[w].seq)

LEMMA QueueOrder ==
    ASSUME NEW x \in Member, NEW y \in Member, NEW ts \in [Tasks -> Task], NEW ts2,
           NEW q \in [Members -> Push], NEW w \in Tasks, NEW n \in LogEntry,
           InOrder(x, ts, q), y.log = Append(x.log, n), y.sent = x.sent, y.seq = x.seq,
           SmallestOf(ts, w), n.seq = ts[w].seq, NEW u, u.pc # "numbered",
           ts2 = [ts EXCEPT ![w] = u]
    PROVE  InOrder(y, ts2, q) /\ Above(x, q, y)
<1>0. /\ ts[w].pc = "numbered" /\ ts2[w].pc # "numbered"
      /\ \A v \in Tasks : ts[v].pc = "numbered" => ~(ts[v].seq < ts[w].seq)
      /\ \A v \in Tasks \ {w} : ts2[v] = ts[v]
  BY DEF SmallestOf
<1>1. x.log \in Seq(LogEntry)
  BY DEF Member, LogEntry
<1>2. /\ Len(y.log) = Len(x.log) + 1 /\ Len(x.log) \in Nat /\ y.log[Len(x.log) + 1] = n
      /\ \A i \in 1..Len(x.log) : y.log[i] = x.log[i]
      /\ \A i \in 1..Len(y.log) : i \in 1..Len(x.log) \/ i = Len(x.log) + 1
  BY <1>1, Appended
<1>3. /\ x.seq \in Nat /\ n.seq \in Nat
      /\ \A i \in 1..Len(x.log) : x.log[i].seq \in Nat
      /\ \A p \in Members : x.sent[p] \in Nat /\ q[p].last \in Nat
      /\ \A v \in Tasks : ts[v].seq \in Nat
  <2>1. \A i \in 1..Len(x.log) : x.log[i].seq \in Nat
    <3>1. \A i \in 1..Len(x.log) : x.log[i] \in LogEntry
      BY <1>1, ElementOf
    <3>2. QED
      BY <3>1 DEF LogEntry
  <2>2. QED
    BY <2>1 DEF Member, Push, Task, LogEntry
<1>4. \A k : Low(k, x, ts) => Low(k, y, ts2) /\ k < n.seq
  BY <1>0 DEF Low
<1>5. Low(n.seq, y, ts2)
  <2>1. n.seq < y.seq
    BY <1>0 DEF InOrder
  <2>2. ASSUME NEW v \in Tasks, ts2[v].pc = "numbered" PROVE n.seq < ts2[v].seq
    <3>1. v # w /\ ts[v].pc = "numbered" /\ ts2[v].seq = ts[v].seq
      BY <1>0, <2>2
    <3>2. ts[v].seq # n.seq /\ ~(ts[v].seq < n.seq)
      BY <1>0, <3>1 DEF InOrder
    <3>3. QED
      BY <1>3, <3>1, <3>2
  <2>3. QED
    BY <2>1, <2>2 DEF Low
<1>6. ASSUME NEW i \in 1..Len(y.log), NEW j \in 1..Len(y.log), i < j
      PROVE  y.log[i].seq < y.log[j].seq
  <2>1. i \in 1..Len(x.log)
    BY <1>2, <1>6
  <2>2. CASE j \in 1..Len(x.log)
    BY <1>2, <1>6, <2>1, <2>2 DEF InOrder
  <2>3. CASE j = Len(x.log) + 1
    <3>1. Low(x.log[i].seq, x, ts)
      BY <2>1 DEF InOrder
    <3>2. QED
      BY <1>2, <1>4, <2>1, <2>3, <3>1
  <2>4. QED
    BY <1>2, <2>2, <2>3
<1>7. \A i \in 1..Len(y.log) : Low(y.log[i].seq, y, ts2)
  <2>1. \A i \in 1..Len(x.log) : Low(x.log[i].seq, x, ts)
    BY DEF InOrder
  <2>2. QED
    BY <1>2, <1>4, <1>5, <2>1
<1>8. \A p \in Members : Low(x.sent[p], x, ts) /\ Low(q[p].last, x, ts)
  BY DEF InOrder
<1>9. ASSUME NEW v \in Tasks, NEW o \in Tasks, ts2[v].pc = "numbered"
      PROVE  /\ ts2[v].seq < y.seq
             /\ ts2[o].pc = "numbered" /\ v # o => ts2[v].seq # ts2[o].seq
  BY <1>0, <1>9 DEF InOrder
<1>10. InOrder(y, ts2, q)
  <2>1. \A p \in Members : Low(y.sent[p], y, ts2) /\ Low(q[p].last, y, ts2)
    BY <1>4, <1>8
  <2>2. QED
    BY <1>6, <1>7, <1>9, <2>1 DEF InOrder
<1>11. ASSUME NEW i \in 1..Len(y.log)
       PROVE  \/ \E j \in 1..Len(x.log) : y.log[i] = x.log[j]
              \/ \A p \in Members : y.log[i].seq > x.sent[p] /\ y.log[i].seq > q[p].last
  <2>1. CASE i \in 1..Len(x.log)
    BY <1>2, <2>1
  <2>2. CASE i = Len(x.log) + 1
    BY <1>2, <1>3, <1>4, <1>8, <2>2
  <2>3. QED
    BY <1>2, <2>1, <2>2
<1>12. QED
  BY <1>10, <1>11 DEF Above

LEMMA QueueSkips ==
    ASSUME Sound, SkipInv, NEW m \in Members, NEW w \in Tasks, Queue(m, w)
    PROVE  SkipInv'
<1>1. /\ work[m][w].pc = "numbered" /\ work[m][w].todo # <<>>
      /\ work' = [work EXCEPT ![m][w] = Done(work[m][w])]
      /\ push' = push /\ restarts' = restarts /\ reordered \subseteq reordered'
      /\ m \notin reordered' =>
            \A v \in Tasks : work[m][v].pc = "numbered" => ~(work[m][v].seq < work[m][w].seq)
      /\ Sound'
  BY QueueDoes
<1>2. PICK y \in Member, new \in LogEntry :
          /\ y.ring = mem[m].ring /\ y.floor = mem[m].floor
          /\ y.sent = mem[m].sent /\ y.seq = mem[m].seq
          /\ y.log = Append(mem[m].log, new) /\ new.seq = work[m][w].seq
          /\ mem' = [mem EXCEPT ![m] = y]
  BY QueueDoes
<1>3. /\ mem[m] \in Member /\ Ends(mem[m].ring) /\ work[m] \in [Tasks -> Task]
      /\ work[m][w] \in Task /\ push[m] \in [Members -> Push]
  BY Parts
<1>4. PICK u \in Task : u = Done(work[m][w]) /\ Filled(u)
  BY <1>1, <1>3, DoneOK
<1>5. /\ u.pc # "numbered" /\ u.from = work[m][w].from
      /\ \A n \in Members, f \in LogEntry : Owes(work[m][w], n, f) => Owes(u, n, f)
  BY <1>1, <1>3, <1>4, DoneOK
<1>6. mem'[m] = y /\ \A n \in Members \ {m} : mem'[n] = mem[n]
  BY <1>2, <1>3, OneStore
<1>7. /\ work'[m][w] = u /\ \A v \in Tasks \ {w} : work'[m][v] = work[m][v]
      /\ \A n \in Members \ {m} : work'[n] = work[n]
  <2>1. work' = [work EXCEPT ![m][w] = u] /\ Filled(u)
    BY <1>1, <1>4
  <2>2. work \in [Members -> [Tasks -> {task \in Task : Filled(task)}]]
    BY SoundSays DEF Works
  <2>3. QED
    BY <2>1, <2>2
<1>8. Onward(work[m], work'[m], mem'[m])
  BY <1>5, <1>7 DEF Onward
<1>9. Keeps(mem[m], mem'[m])
  BY <1>2, <1>6, SameRing
<1>10. restarts = 0 /\ m \notin reordered' =>
          InOrder(mem'[m], work'[m], push[m]) /\ Above(mem[m], push[m], mem'[m])
  <2>1. SUFFICES ASSUME restarts = 0, m \notin reordered'
                 PROVE  InOrder(y, work'[m], push[m]) /\ Above(mem[m], push[m], y)
    BY <1>6
  <2>2. InOrder(mem[m], work[m], push[m])
    BY <1>1, <2>1 DEF SkipInv
  <2>3. SmallestOf(work[m], w)
    BY <1>1, <2>1 DEF SmallestOf
  <2>4. PICK ts : ts = [work[m] EXCEPT ![w] = u]
    OBVIOUS
  <2>5. work'[m] = ts
    <3>1. work \in [Members -> [Tasks -> {task \in Task : Filled(task)}]]
      BY SoundSays DEF Works
    <3>2. QED
      BY <1>1, <1>4, <2>4, <3>1
  <2>6. InOrder(y, ts, push[m]) /\ Above(mem[m], push[m], y)
    BY <1>2, <1>3, <1>5, <2>2, <2>3, <2>4, QueueOrder
  <2>7. QED
    BY <2>5, <2>6
<1>11. mem'[m].sent = mem[m].sent
  BY <1>2, <1>6
<1>12. QED
  BY <1>1, <1>6, <1>7, <1>8, <1>9, <1>10, <1>11, MemberMoves

LEMMA RetainSkips ==
    ASSUME Sound, SkipInv, NEW m \in Members, Retain(m)
    PROVE  SkipInv'
<1>1. /\ UNCHANGED <<work, push, restarts, reordered>> /\ Sound'
      /\ mem[m] \in Member /\ Ends(mem[m].ring)
  BY RetainDoes, Parts
<1>2. PICK cut \in Nat, first \in Nat :
          /\ first \in 1..(Len(mem[m].log) + 1)
          /\ mem' = [mem EXCEPT ![m] = Retained(mem[m], cut, first)]
  BY RetainDoes
<1>3. PICK y : y = Retained(mem[m], cut, first)
  OBVIOUS
<1>4. /\ y \in Member /\ Ends(y.ring) /\ Keeps(mem[m], y)
      /\ y.sent = mem[m].sent /\ y.seq = mem[m].seq /\ Rest(y.log, mem[m].log)
  BY ONLY <1>1, <1>2, <1>3, cut \in Nat, first \in Nat, RetainedOK
<1>5. mem'[m] = y /\ \A n \in Members \ {m} : mem'[n] = mem[n]
  BY <1>2, <1>3, <1>4, OneStore
<1>6. Rest(mem'[m].log, mem[m].log)
  BY <1>4, <1>5
<1>7. Onward(work[m], work'[m], mem'[m]) /\ NoNumber(work[m], work'[m])
  BY <1>1 DEF Onward, NoNumber
<1>8. QED
  BY <1>1, <1>4, <1>5, <1>6, <1>7, QuietMember

\* A member merges, derives or loses a record; no task loses what it owes.
LEMMA RecordSkips ==
    ASSUME Sound, Sound', SkipInv, NEW m \in Members, NEW y, ButRecord(mem[m], y),
           mem' = [mem EXCEPT ![m] = y], UNCHANGED <<push, restarts, reordered>>,
           \A n \in Members \ {m} : work'[n] = work[n],
           Onward(work[m], work'[m], mem'[m]), NoNumber(work[m], work'[m])
    PROVE  SkipInv'
<1>1. mem[m] \in Member /\ Ends(mem[m].ring)
  BY Parts
<1>2. /\ y \in Member /\ y.ring = mem[m].ring /\ y.floor = mem[m].floor
      /\ y.log = mem[m].log /\ y.seq = mem[m].seq /\ y.sent = mem[m].sent
  BY DEF ButRecord
<1>3. mem'[m] = y /\ \A n \in Members \ {m} : mem'[n] = mem[n]
  BY <1>1, <1>2, OneStore
<1>4. Rest(mem'[m].log, mem[m].log)
  BY <1>1, <1>2, <1>3, SameLog
<1>5. Keeps(mem[m], mem'[m])
  BY <1>2, <1>3, SameRing
<1>6. QED
  BY <1>2, <1>3, <1>4, <1>5, QuietMember

LEMMA DeriveSkips ==
    ASSUME Sound, SkipInv, NEW c \in Costs, Derive(c)
    PROVE  SkipInv'
<1>1. /\ Merges(Owner) /\ Owner \in Members
      /\ UNCHANGED <<work, push, restarts, reordered>> /\ Sound'
  BY DeriveDoes
<1>2. PICK y : ButRecord(mem[Owner], y) /\ mem' = [mem EXCEPT ![Owner] = y]
  BY <1>1 DEF Merges
<1>3. Onward(work[Owner], work'[Owner], mem'[Owner]) /\ NoNumber(work[Owner], work'[Owner])
  BY <1>1 DEF Onward, NoNumber
<1>4. QED
  BY <1>1, <1>2, <1>3, RecordSkips

LEMMA ExpireSkips ==
    ASSUME Sound, SkipInv, NEW m \in Members, Expire(m)
    PROVE  SkipInv'
<1>1. UNCHANGED <<work, push, restarts, reordered>> /\ Sound'
  BY ExpireDoes
<1>2. PICK y : ButRecord(mem[m], y) /\ mem' = [mem EXCEPT ![m] = y]
  BY ExpireDoes
<1>3. Onward(work[m], work'[m], mem'[m]) /\ NoNumber(work[m], work'[m])
  BY <1>1 DEF Onward, NoNumber
<1>4. QED
  BY <1>1, <1>2, <1>3, RecordSkips

LEMMA LateServeSkips ==
    ASSUME Sound, SkipInv, NEW r \in late, NEW w \in Tasks, LateServe(r, w)
    PROVE  SkipInv'
<1>1. /\ r.to \in Members /\ work[r.to][w].pc = "idle" /\ Merges(r.to)
      /\ UNCHANGED <<push, restarts, reordered>> /\ Sound'
  BY LateServeDoes
<1>2. PICK u \in Task : /\ Loads(u, r.delta, NoMember)
                       /\ work' = [work EXCEPT ![r.to][w] = u]
  BY LateServeDoes
<1>3. PICK m \in Members : m = r.to
  BY <1>1
<1>4. PICK y : ButRecord(mem[m], y) /\ mem' = [mem EXCEPT ![m] = y]
  BY <1>1, <1>3 DEF Merges
<1>5. /\ work'[m][w] = u /\ \A v \in Tasks \ {w} : work'[m][v] = work[m][v]
      /\ \A n \in Members \ {m} : work'[n] = work[n]
  <2>1. work' = [work EXCEPT ![m][w] = u] /\ Filled(u)
    BY <1>2, <1>3 DEF Loads
  <2>2. QED
    BY <2>1, OneTask
<1>6. u.from = NoMember /\ u.pc # "numbered"
  BY <1>2 DEF Loads, Busy
<1>7. \A n \in Members, f \in LogEntry : ~Owes(work[m][w], n, f)
  BY <1>1, <1>3 DEF Owes, Busy
<1>8. Onward(work[m], work'[m], mem'[m]) /\ NoNumber(work[m], work'[m])
  BY <1>5, <1>6, <1>7 DEF Onward, NoNumber
<1>9. QED
  BY <1>1, <1>4, <1>5, <1>8, RecordSkips

LEMMA TickSkips ==
    ASSUME Sound, SkipInv, NEW m \in Members, Tick(m)
    PROVE  SkipInv'
<1> SUFFICES ASSUME restarts = 0 PROVE SkipInv'
  BY TickDoes DEF SkipInv
<1>1. /\ \A p \in Peers[m] : push[m][p].pc = "idle"
      /\ \A p \in Members : push'[m][p].pc \in {"idle", "begun"} /\ push'[m][p].last = 0
      /\ \A n \in Members \ {m} : push'[n] = push[n]
      /\ UNCHANGED <<mem, work, restarts, reordered>>
  BY TickDoes
<1>2. Handled'
  <2>1. Handled
    BY DEF SkipInv
  <2>2. ASSUME NEW n \in Members, NEW r \in Members, NEW w \in Tasks, work'[r][w].from = n
        PROVE  work[r][w].from = n /\ push'[n][r].pc = push[n][r].pc
    <3>1. r \in Peers[n] /\ push[n][r].pc = "served"
      BY <1>1, <2>1, <2>2 DEF Handled
    <3>2. n # m
      BY <1>1, <3>1
    <3>3. QED
      BY <1>1, <2>2, <3>2
  <2>3. QED
    BY <2>1, <2>2, HandledKept
<1>3. ASSUME NEW n \in Members \ reordered
      PROVE  InOrder(mem[n], work[n], push'[n])
  <2>1. mem[n] \in Member /\ work[n] \in [Tasks -> Task] /\ InOrder(mem[n], work[n], push[n])
    BY Parts DEF SkipInv
  <2>2. CASE n # m
    BY <1>1, <2>1, <2>2
  <2>3. CASE n = m
    <3>1. Rest(mem[n].log, mem[n].log)
      BY <2>1, SameLog
    <3>2. NothingNew(mem[n], work[n], push[n], mem[n], work[n], push'[n])
      BY <1>1, <2>3, <3>1 DEF NothingNew
    <3>3. QED
      BY <2>1, <3>2, OrderKept
  <2>4. QED
    BY <2>2, <2>3
<1>4. ASSUME NEW n \in Members \ reordered, NEW p \in Peers[n]
      PROVE  PairOK(mem[n], p, push'[n][p], mem[p], work[p], n)
  <2>1. PairOK(mem[n], p, push[n][p], mem[p], work[p], n) /\ p \in Members
    BY GossipAssumption DEF SkipInv
  <2>2. CASE n # m
    BY <1>1, <2>1, <2>2
  <2>3. CASE n = m
    <3>1. push'[n][p].pc \in {"idle", "begun"}
      BY <1>1, <2>1, <2>3
    <3>2. QED
      BY <2>1, <3>1 DEF PairOK, EntryOK
  <2>4. QED
    BY <2>2, <2>3
<1>5. QED
  BY <1>1, <1>2, <1>3, <1>4 DEF SkipInv

\* What lies above the watermark up to the end of the delta is in the delta.
LEMMA SendPair ==
    ASSUME NEW x \in Member, NEW p \in Members, NEW q0, NEW q, NEW y, NEW ts, NEW m,
           NEW ts2, NEW qs, NEW k \in Nat, NEW b \in Nat,
           PairOK(x, p, q0, y, ts, m), InOrder(x, ts2, qs), q.pc = "sent",
           Carries(q, x.log, k, b, x.sent[p])
    PROVE  PairOK(x, p, q, y, ts, m)
<1>1. /\ Len(x.log) \in Nat /\ x.sent[p] \in Nat
      /\ \A i \in 1..Len(x.log) : x.log[i].seq \in Nat
  <2>1. x.log \in Seq(LogEntry)
    BY DEF Member, LogEntry
  <2>2. \A i \in 1..Len(x.log) : x.log[i] \in LogEntry
    BY <2>1, ElementOf
  <2>3. QED
    BY <2>2 DEF LogEntry, Member
<1>2. /\ k <= b /\ b <= Len(x.log) /\ (k = 0 \/ x.log[k].seq <= x.sent[p])
      /\ b = k => q.last = x.sent[p]
      /\ b # k => q.last = x.log[b].seq
      /\ Len(q.delta) = b - k
      /\ \A j \in 1..(b - k) : Same(q.delta[j], x.log[k + j])
  BY DEF Carries
<1>3. \A i, j \in 1..Len(x.log) : i < j => x.log[i].seq < x.log[j].seq
  BY DEF InOrder
<1>4. ASSUME NEW i \in 1..Len(x.log)
      PROVE  EntryOK(x.log[i], x.sent[p], q, y, ts, m)
  <2>1. x.log[i].seq <= x.sent[p] => Got(y, x.log[i])
    BY DEF PairOK, EntryOK
  <2>2. ASSUME ~(x.log[i].seq <= x.sent[p]), x.log[i].seq <= q.last
        PROVE  InDelta(q, x.log[i])
    <3>1. k < i
      <4>1. SUFFICES ASSUME i <= k PROVE FALSE
        BY <1>1
      <4>2. k \in 1..Len(x.log) /\ x.log[k].seq <= x.sent[p]
        BY <1>1, <1>2, <4>1
      <4>3. i = k \/ x.log[i].seq < x.log[k].seq
        BY <1>1, <1>3, <4>1, <4>2
      <4>4. QED
        BY <1>1, <2>2, <4>2, <4>3
    <3>2. b # k
      BY <1>2, <2>2
    <3>3. i <= b
      <4>1. SUFFICES ASSUME b < i PROVE FALSE
        BY <1>1
      <4>2. b \in 1..Len(x.log) /\ q.last = x.log[b].seq
        BY <1>1, <1>2, <3>2
      <4>3. x.log[b].seq < x.log[i].seq
        BY <1>3, <4>1, <4>2
      <4>4. QED
        BY <1>1, <2>2, <4>2, <4>3
    <3>4. i - k \in 1..(b - k) /\ k + (i - k) = i
      BY <1>1, <3>1, <3>3
    <3>5. Same(q.delta[i - k], x.log[i]) /\ i - k \in 1..Len(q.delta)
      BY <1>2, <3>4
    <3>6. QED
      BY <3>5 DEF InDelta
  <2>3. QED
    BY <2>1, <2>2 DEF EntryOK
<1>5. QED
  BY <1>4 DEF PairOK

LEMMA SendSkips ==
    ASSUME Sound, SkipInv, NEW m \in Members, NEW p \in Peers[m], Send(m, p)
    PROVE  SkipInv'
<1>0. p \in Members
  BY GossipAssumption
<1>1. /\ push[m][p].pc = "begun" /\ UNCHANGED <<mem, work, restarts, reordered>> /\ Sound'
  BY <1>0, SendDoes
<1>2. PICK q \in Push, k \in Nat, b \in Nat :
          /\ q.pc = "sent" /\ Carries(q, mem[m].log, k, b, mem[m].sent[p])
          /\ push' = [push EXCEPT ![m][p] = q]
  BY <1>0, SendDoes
<1>3. /\ push'[m][p] = q /\ \A r \in Members \ {p} : push'[m][r] = push[m][r]
      /\ \A n \in Members \ {m} : push'[n] = push[n]
  <2>1. push \in [Members -> [Members -> Push]]
    BY SoundSays DEF Pushes
  <2>2. QED
    BY <1>0, <1>2, <2>1
<1>4. mem[m] \in Member /\ Len(mem[m].log) \in Nat
  <2>1. mem[m] \in Member /\ mem[m].log \in Seq(LogEntry)
    BY Parts
  <2>2. QED
    BY <2>1
<1>5. Moving(m, p)
  <2>1. \/ q.last = mem[m].sent[p]
        \/ \E i \in 1..Len(mem[m].log) : q.last = mem[m].log[i].seq
    <3>1. k <= b /\ b <= Len(mem[m].log) /\ (b = k => q.last = mem[m].sent[p])
          /\ (b # k => q.last = mem[m].log[b].seq)
      BY <1>2 DEF Carries
    <3>2. b # k => b \in 1..Len(mem[m].log)
      BY <1>4, <3>1
    <3>3. QED
      BY <3>1, <3>2
  <2>2. \A n \in Members : NoNumber(work[n], work'[n])
    BY <1>1 DEF NoNumber
  <2>3. \A n, r \in Members : n # m \/ r # p => push'[n][r] = push[n][r]
    BY <1>3
  <2>4. QED
    BY <1>1, <1>3, <2>1, <2>2, <2>3 DEF Moving
<1>6. restarts = 0 => Handled'
  <2>1. SUFFICES ASSUME restarts = 0 PROVE Handled'
    OBVIOUS
  <2>2. Handled
    BY <2>1 DEF SkipInv
  <2>3. ASSUME NEW n \in Members, NEW r \in Members, NEW w \in Tasks, work'[r][w].from = n
        PROVE  work[r][w].from = n /\ push'[n][r].pc = push[n][r].pc
    <3>1. push[n][r].pc = "served" /\ work[r][w].from = n
      BY <1>1, <2>2, <2>3 DEF Handled
    <3>2. n # m \/ r # p
      BY <1>1, <3>1
    <3>3. QED
      BY <1>3, <3>1, <3>2
  <2>4. QED
    BY <2>2, <2>3, HandledKept
<1>7. restarts = 0 /\ m \notin reordered =>
         PairOK(mem'[m], p, push'[m][p], mem'[p], work'[p], m)
  <2>1. SUFFICES ASSUME restarts = 0, m \notin reordered
                 PROVE  PairOK(mem[m], p, q, mem[p], work[p], m)
    BY <1>1, <1>3
  <2>2. /\ PairOK(mem[m], p, push[m][p], mem[p], work[p], m)
        /\ InOrder(mem[m], work[m], push[m])
    BY <2>1 DEF SkipInv
  <2>3. QED
    BY <1>0, <1>2, <1>4, <2>2, SendPair
<1>8. QED
  BY <1>1, <1>5, <1>6, <1>7, PushMoves

LEMMA ServeSkips ==
    ASSUME Sound, SkipInv, NEW m \in Members, NEW p \in Peers[m], NEW w \in Tasks,
           Serve(m, p, w)
    PROVE  SkipInv'
<1>0. p \in Members
  BY GossipAssumption
<1>1. /\ push[m][p].pc = "sent" /\ work[p][w].pc = "idle" /\ Merges(p)
      /\ UNCHANGED <<restarts, reordered>> /\ Sound'
  BY <1>0, ServeDoes
<1>2. PICK q \in Push, u \in Task :
          /\ q.pc = "served" /\ q.last = push[m][p].last /\ Loads(u, push[m][p].delta, m)
          /\ push' = [push EXCEPT ![m][p] = q] /\ work' = [work EXCEPT ![p][w] = u]
  BY <1>0, ServeDoes
<1>3. PICK y : ButRecord(mem[p], y) /\ mem' = [mem EXCEPT ![p] = y]
  BY <1>1 DEF Merges
<1>4. /\ y \in Member /\ y.ring = mem[p].ring /\ y.floor = mem[p].floor
      /\ y.log = mem[p].log /\ y.seq = mem[p].seq /\ y.sent = mem[p].sent
  BY <1>3 DEF ButRecord
<1>5. mem'[p] = y /\ \A n \in Members \ {p} : mem'[n] = mem[n]
  <2>1. Ends(y.ring)
    BY <1>0, <1>4, Parts
  <2>2. QED
    BY <1>0, <1>3, <1>4, <2>1, OneStore
<1>6. /\ push'[m][p] = q /\ \A r \in Members \ {p} : push'[m][r] = push[m][r]
      /\ \A n \in Members \ {m} : push'[n] = push[n]
  <2>1. push \in [Members -> [Members -> Push]]
    BY SoundSays DEF Pushes
  <2>2. QED
    BY <1>0, <1>2, <2>1
<1>7. /\ work'[p][w] = u /\ \A v \in Tasks \ {w} : work'[p][v] = work[p][v]
      /\ \A n \in Members \ {p} : work'[n] = work[n]
  <2>1. work \in [Members -> [Tasks -> {task \in Task : Filled(task)}]]
    BY SoundSays DEF Works
  <2>2. QED
    BY <1>0, <1>2, <2>1
<1>8. u.from = m /\ u.pc # "numbered"
      /\ \A i \in 1..Len(push[m][p].delta) : u.pc = "next" /\ u.todo = push[m][p].delta
  BY <1>2 DEF Loads, Busy
<1>9. Moving(m, p)
  <2>1. \A n \in Members : NoNumber(work[n], work'[n])
    BY <1>0, <1>7, <1>8 DEF NoNumber
  <2>2. \A n, r \in Members : n # m \/ r # p => push'[n][r] = push[n][r]
    BY <1>6
  <2>3. \A n \in Members : /\ mem'[n].ring = mem[n].ring /\ mem'[n].floor = mem[n].floor
                           /\ mem'[n].log = mem[n].log /\ mem'[n].seq = mem[n].seq
                           /\ mem'[n].sent = mem[n].sent
    BY <1>4, <1>5
  <2>4. ASSUME NEW n \in Members, NEW r \in Members, NEW e \in LogEntry, Awaits(work[r], n, e)
        PROVE  Awaits(work'[r], n, e)
    <3>1. PICK v \in Tasks : Owes(work[r][v], n, e)
      BY <2>4 DEF Awaits
    <3>2. r # p \/ v # w
      BY <1>1, <3>1 DEF Owes, Busy
    <3>3. work'[r][v] = work[r][v]
      BY <1>7, <3>2
    <3>4. QED
      BY <3>1, <3>3 DEF Awaits
  <2>5. push'[m][p].last = push[m][p].last
    BY <1>2, <1>6
  <2>6. QED
    BY <1>0, <2>1, <2>2, <2>3, <2>4, <2>5 DEF Moving
<1>10. restarts = 0 => Handled'
  <2>1. SUFFICES ASSUME restarts = 0 PROVE Handled'
    OBVIOUS
  <2>2. Handled
    BY <2>1 DEF SkipInv
  <2>3. ASSUME NEW r \in Members, NEW n \in Members, NEW v \in Tasks, work'[r][v].from = n
        PROVE  /\ r \in Peers[n] /\ push'[n][r].pc = "served"
               /\ \A z \in Tasks : work'[r][z].from = n => z = v
    <3>1. CASE r = p /\ n = m
      <4>1. \A z \in Tasks : work[p][z].from # m
        BY <1>0, <1>1, <2>2 DEF Handled
      <4>2. \A z \in Tasks : work'[p][z].from = m => z = w
        BY <1>7, <4>1
      <4>3. QED
        BY <1>2, <1>6, <2>3, <3>1, <4>2
    <3>2. CASE r # p \/ n # m
      <4>1. push'[n][r] = push[n][r]
        BY <1>6, <3>2
      <4>2. \A z \in Tasks : work'[r][z].from = n => work[r][z].from = n
        BY <1>7, <1>8, <3>2
      <4>3. QED
        BY <2>2, <2>3, <4>1, <4>2 DEF Handled
    <3>3. QED
      BY <3>1, <3>2
  <2>4. QED
    BY <2>3 DEF Handled
<1>11. restarts = 0 /\ m \notin reordered =>
          PairOK(mem'[m], p, push'[m][p], mem'[p], work'[p], m)
  <2>1. SUFFICES ASSUME restarts = 0, m \notin reordered
                 PROVE  PairOK(mem'[m], p, push'[m][p], mem'[p], work'[p], m)
    OBVIOUS
  <2>2. PairOK(mem[m], p, push[m][p], mem[p], work[p], m)
    BY <2>1 DEF SkipInv
  <2>3. mem'[m].log = mem[m].log /\ mem'[m].sent = mem[m].sent
    BY <1>4, <1>5
  <2>4. mem[m].log \in Seq(LogEntry)
    BY Parts
  <2>5. ASSUME NEW i \in 1..Len(mem[m].log)
        PROVE  EntryOK(mem[m].log[i], mem[m].sent[p], push'[m][p], mem'[p], work'[p], m)
    <3>1. PICK e : e = mem[m].log[i]
      OBVIOUS
    <3>2. e \in LogEntry /\ EntryOK(e, mem[m].sent[p], push[m][p], mem[p], work[p], m)
      BY <2>2, <2>4, <3>1, ElementOf DEF PairOK
    <3>3. Got(mem[p], e) => Got(mem'[p], e)
      <4>1. Keeps(mem[p], mem'[p])
        BY <1>4, <1>5, SameRing
      <4>2. QED
        BY <3>2, <4>1, KeepsGot
    <3>4. InDelta(push[m][p], e) => Awaits(work'[p], m, e)
      <4>1. SUFFICES ASSUME InDelta(push[m][p], e) PROVE Awaits(work'[p], m, e)
        OBVIOUS
      <4>2. PICK j \in 1..Len(push[m][p].delta) : Same(push[m][p].delta[j], e)
        BY <4>1 DEF InDelta
      <4>3. Owes(u, m, e)
        BY <1>8, <4>2 DEF Owes
      <4>4. QED
        BY <1>7, <4>3 DEF Awaits
    <3>5. push'[m][p].pc = "served" /\ push'[m][p].last = push[m][p].last
      BY <1>2, <1>6
    <3>6. EntryOK(e, mem[m].sent[p], push'[m][p], mem'[p], work'[p], m)
      BY <1>1, <3>2, <3>3, <3>4, <3>5 DEF EntryOK
    <3>7. QED
      BY <3>1, <3>6
  <2>6. QED
    BY <2>3, <2>5 DEF PairOK
<1>12. QED
  BY <1>1, <1>9, <1>10, <1>11, PushMoves

LEMMA AnswerSkips ==
    ASSUME Sound, SkipInv, NEW p \in Members, NEW w \in Tasks, Answer(p, w)
    PROVE  SkipInv'
<1>1. PICK m \in Members, q \in Push :
          /\ work[p][w].pc = "next" /\ work[p][w].todo = <<>> /\ work[p][w].from = m
          /\ q.pc = "answered" /\ q.last = push[m][p].last
          /\ work' = [work EXCEPT ![p][w] = IdleTask]
          /\ push' = [push EXCEPT ![m][p] = q]
          /\ UNCHANGED <<mem, late, now, puts, restarts, reordered>> /\ Sound'
  BY AnswerDoes
<1> SUFFICES ASSUME restarts = 0 PROVE SkipInv'
  BY <1>1 DEF SkipInv
<1>2. /\ Handled /\ p \in Peers[m] /\ push[m][p].pc = "served"
      /\ \A v \in Tasks : work[p][v].from = m => v = w
  BY <1>1 DEF SkipInv, Handled
<1>3. /\ push'[m][p] = q /\ \A r \in Members \ {p} : push'[m][r] = push[m][r]
      /\ \A n \in Members \ {m} : push'[n] = push[n]
  <2>1. push \in [Members -> [Members -> Push]]
    BY SoundSays DEF Pushes
  <2>2. QED
    BY <1>1, <2>1
<1>4. /\ work'[p][w] = IdleTask /\ \A v \in Tasks \ {w} : work'[p][v] = work[p][v]
      /\ \A n \in Members \ {p} : work'[n] = work[n]
  <2>1. work \in [Members -> [Tasks -> {task \in Task : Filled(task)}]]
    BY SoundSays DEF Works
  <2>2. QED
    BY <1>1, <2>1
<1>5. IdleTask.pc = "idle" /\ IdleTask.from = NoMember /\ NoMember \notin Members
  BY IdleOK, GossipAssumption
<1>6. Moving(m, p)
  <2>1. \A n \in Members : NoNumber(work[n], work'[n])
    BY <1>4, <1>5 DEF NoNumber
  <2>2. \A n, r \in Members : n # m \/ r # p => push'[n][r] = push[n][r]
    BY <1>3
  <2>3. ASSUME NEW n \in Members, NEW r \in Members, n # m \/ r # p,
               NEW e \in LogEntry, Awaits(work[r], n, e)
        PROVE  Awaits(work'[r], n, e)
    <3>1. PICK v \in Tasks : Owes(work[r][v], n, e)
      BY <2>3 DEF Awaits
    <3>2. work[r][v].from = n
      BY <3>1 DEF Owes
    <3>3. r # p \/ v # w
      BY <1>1, <2>3, <3>2
    <3>4. work'[r][v] = work[r][v]
      BY <1>4, <3>3
    <3>5. QED
      BY <3>1, <3>4 DEF Awaits
  <2>4. push'[m][p].last = push[m][p].last
    BY <1>1, <1>3
  <2>5. QED
    BY <1>1, <2>1, <2>2, <2>3, <2>4 DEF Moving
<1>7. Handled'
  <2>1. ASSUME NEW n \in Members, NEW r \in Members, NEW v \in Tasks, work'[r][v].from = n
        PROVE  work[r][v].from = n /\ push'[n][r].pc = push[n][r].pc
    <3>1. r # p \/ v # w
      BY <1>4, <1>5, <2>1
    <3>2. work[r][v].from = n
      BY <1>4, <2>1, <3>1
    <3>3. n # m \/ r # p
      BY <1>2, <3>1, <3>2
    <3>4. QED
      BY <1>3, <3>2, <3>3
  <2>2. QED
    BY <1>2, <2>1, HandledKept
<1>8. m \notin reordered => PairOK(mem'[m], p, push'[m][p], mem'[p], work'[p], m)
  <2>1. SUFFICES ASSUME m \notin reordered
                 PROVE  PairOK(mem[m], p, push'[m][p], mem[p], work'[p], m)
    BY <1>1
  <2>2. PairOK(mem[m], p, push[m][p], mem[p], work[p], m)
    BY <1>2, <2>1 DEF SkipInv
  <2>3. \A e : ~Awaits(work[p], m, e)
    BY <1>1, <1>2 DEF Awaits, Owes
  <2>4. push'[m][p].pc = "answered" /\ push'[m][p].last = push[m][p].last
    BY <1>1, <1>3
  <2>5. ASSUME NEW i \in 1..Len(mem[m].log)
        PROVE  EntryOK(mem[m].log[i], mem[m].sent[p], push'[m][p], mem[p], work'[p], m)
    <3>1. EntryOK(mem[m].log[i], mem[m].sent[p], push[m][p], mem[p], work[p], m)
      BY <2>2 DEF PairOK
    <3>2. QED
      BY <1>2, <2>3, <2>4, <3>1 DEF EntryOK
  <2>6. QED
    BY <2>5 DEF PairOK
<1>9. restarts' = restarts /\ reordered' = reordered /\ Sound'
  BY <1>1
<1>10. QED
  BY <1>2, <1>6, <1>7, <1>8, <1>9, PushMoves

LEMMA AckedSkips ==
    ASSUME Sound, SkipInv, NEW m \in Members, NEW p \in Peers[m], Acked(m, p)
    PROVE  SkipInv'
<1>0. p \in Members
  BY GossipAssumption
<1>1. /\ push[m][p].pc = "answered" /\ push' = [push EXCEPT ![m][p] = IdlePush]
      /\ UNCHANGED <<work, restarts, reordered>> /\ Sound'
  BY <1>0, AckedDoes
<1>2. PICK y \in Member :
          /\ y.ring = mem[m].ring /\ y.floor = mem[m].floor
          /\ y.log = mem[m].log /\ y.seq = mem[m].seq
          /\ y.sent[p] = push[m][p].last
          /\ \A r \in Members \ {p} : y.sent[r] = mem[m].sent[r]
          /\ mem' = [mem EXCEPT ![m] = y]
  BY <1>0, AckedDoes
<1>3. mem'[m] = y /\ \A n \in Members \ {m} : mem'[n] = mem[n]
  <2>1. mem \in Stores
    BY SoundSays
  <2>2. QED
    BY <1>2, <2>1 DEF Stores
<1>4. /\ push'[m][p] = IdlePush /\ \A r \in Members \ {p} : push'[m][r] = push[m][r]
      /\ \A n \in Members \ {m} : push'[n] = push[n]
  <2>1. push \in [Members -> [Members -> Push]]
    BY SoundSays DEF Pushes
  <2>2. QED
    BY <1>0, <1>1, <2>1
<1>5. IdlePush.pc = "idle" /\ IdlePush.last = 0
  BY IdlePushOK
<1>6. Moving(m, p)
  <2>1. \A n \in Members : NoNumber(work[n], work'[n])
    BY <1>1 DEF NoNumber
  <2>2. \A n, r \in Members : n # m \/ r # p =>
           push'[n][r] = push[n][r] /\ mem'[n].sent[r] = mem[n].sent[r]
    BY <1>2, <1>3, <1>4
  <2>3. \A n \in Members : /\ mem'[n].ring = mem[n].ring /\ mem'[n].floor = mem[n].floor
                           /\ mem'[n].log = mem[n].log /\ mem'[n].seq = mem[n].seq
    BY <1>2, <1>3
  <2>4. push'[m][p].last = 0 /\ mem'[m].sent[p] = push[m][p].last
    BY <1>2, <1>3, <1>4, <1>5
  <2>5. QED
    BY <1>1, <2>1, <2>2, <2>3, <2>4 DEF Moving
<1>7. restarts = 0 => Handled'
  <2>1. SUFFICES ASSUME restarts = 0 PROVE Handled'
    OBVIOUS
  <2>2. Handled
    BY <2>1 DEF SkipInv
  <2>3. ASSUME NEW n \in Members, NEW r \in Members, NEW w \in Tasks, work'[r][w].from = n
        PROVE  work[r][w].from = n /\ push'[n][r].pc = push[n][r].pc
    <3>1. push[n][r].pc = "served" /\ work[r][w].from = n
      BY <1>1, <2>2, <2>3 DEF Handled
    <3>2. n # m \/ r # p
      BY <1>1, <3>1
    <3>3. QED
      BY <1>4, <3>1, <3>2
  <2>4. QED
    BY <2>2, <2>3, HandledKept
<1>8. restarts = 0 /\ m \notin reordered =>
         PairOK(mem'[m], p, push'[m][p], mem'[p], work'[p], m)
  <2>1. SUFFICES ASSUME restarts = 0, m \notin reordered
                 PROVE  PairOK(y, p, IdlePush, mem'[p], work[p], m)
    BY <1>1, <1>3, <1>4
  <2>2. PairOK(mem[m], p, push[m][p], mem[p], work[p], m)
    BY <2>1 DEF SkipInv
  <2>3. mem[m].log \in Seq(LogEntry)
    BY Parts
  <2>4. ASSUME NEW i \in 1..Len(mem[m].log)
        PROVE  EntryOK(mem[m].log[i], y.sent[p], IdlePush, mem'[p], work[p], m)
    <3>1. PICK e : e = mem[m].log[i]
      OBVIOUS
    <3>2. e \in LogEntry /\ EntryOK(e, mem[m].sent[p], push[m][p], mem[p], work[p], m)
      BY <2>2, <2>3, <3>1, ElementOf DEF PairOK
    <3>3. Got(mem[p], e) => Got(mem'[p], e)
      <4>1. mem'[p].ring = mem[p].ring /\ mem'[p].floor = mem[p].floor
        BY <1>0, <1>2, <1>3
      <4>2. Keeps(mem[p], mem'[p])
        BY <4>1, SameRing
      <4>3. QED
        BY <3>2, <4>2, KeepsGot
    <3>4. EntryOK(e, y.sent[p], IdlePush, mem'[p], work[p], m)
      BY <1>1, <1>2, <1>5, <3>2, <3>3 DEF EntryOK
    <3>5. QED
      BY <3>1, <3>4
  <2>5. QED
    BY <1>2, <2>4 DEF PairOK
<1>9. restarts' = restarts /\ reordered' = reordered /\ Sound'
  BY <1>1
<1>10. QED
  BY <1>6, <1>7, <1>8, <1>9, PushMoves

\* The push of m to p is over, and no task of p works for m any more.
LEMMA EndSkips ==
    ASSUME Sound, Sound', SkipInv, NEW m \in Members, NEW p \in Peers[m],
           push' = [push EXCEPT ![m][p] = IdlePush], UNCHANGED <<mem, restarts, reordered>>,
           \A n \in Members \ {p} : work'[n] = work[n],
           \A w \in Tasks : Leaves(work[p][w], work'[p][w], m)
    PROVE  SkipInv'
<1>0. p \in Members /\ NoMember \notin Members
  BY GossipAssumption
<1>1. /\ push'[m][p] = IdlePush /\ \A r \in Members \ {p} : push'[m][r] = push[m][r]
      /\ \A n \in Members \ {m} : push'[n] = push[n]
  <2>1. push \in [Members -> [Members -> Push]]
    BY SoundSays DEF Pushes
  <2>2. QED
    BY <1>0, <2>1
<1>2. IdlePush.pc = "idle" /\ IdlePush.last = 0
  BY IdlePushOK
<1>3. \A w \in Tasks : work[p][w].from # m => work'[p][w] = work[p][w]
  BY DEF Leaves
<1>4. Moving(m, p)
  <2>1. ASSUME NEW n \in Members PROVE NoNumber(work[n], work'[n])
    <3>1. CASE n = p
      BY <3>1 DEF NoNumber, Leaves, Busy
    <3>2. CASE n # p
      BY <3>2 DEF NoNumber
    <3>3. QED
      BY <3>1, <3>2
  <2>2. \A n, r \in Members : n # m \/ r # p => push'[n][r] = push[n][r]
    BY <1>1
  <2>3. ASSUME NEW n \in Members, NEW r \in Members, n # m \/ r # p,
               NEW e \in LogEntry, Awaits(work[r], n, e)
        PROVE  Awaits(work'[r], n, e)
    <3>1. PICK v \in Tasks : Owes(work[r][v], n, e)
      BY <2>3 DEF Awaits
    <3>2. work[r][v].from = n
      BY <3>1 DEF Owes
    <3>3. work'[r][v] = work[r][v]
      BY <1>3, <2>3, <3>2
    <3>4. QED
      BY <3>1, <3>3 DEF Awaits
  <2>4. push'[m][p].last = 0
    BY <1>1, <1>2
  <2>5. QED
    BY <2>1, <2>2, <2>3, <2>4 DEF Moving
<1>5. restarts = 0 => Handled'
  <2>1. SUFFICES ASSUME restarts = 0 PROVE Handled'
    OBVIOUS
  <2>2. Handled
    BY <2>1 DEF SkipInv
  <2>3. ASSUME NEW n \in Members, NEW r \in Members, NEW w \in Tasks, work'[r][w].from = n
        PROVE  work[r][w].from = n /\ push'[n][r].pc = push[n][r].pc
    <3>1. CASE r = p
      <4>1. work[p][w].from # m
        BY <1>0, <2>3, <3>1 DEF Leaves
      <4>2. work[p][w].from = n
        BY <1>3, <2>3, <3>1, <4>1
      <4>3. QED
        BY <1>1, <3>1, <4>1, <4>2
    <3>2. CASE r # p
      BY <1>1, <2>3, <3>2
    <3>3. QED
      BY <3>1, <3>2
  <2>4. QED
    BY <2>2, <2>3, HandledKept
<1>6. restarts = 0 /\ m \notin reordered =>
         PairOK(mem'[m], p, push'[m][p], mem'[p], work'[p], m)
  <2>1. SUFFICES ASSUME restarts = 0, m \notin reordered
                 PROVE  PairOK(mem[m], p, IdlePush, mem[p], work'[p], m)
    BY <1>1
  <2>2. PairOK(mem[m], p, push[m][p], mem[p], work[p], m)
    BY <2>1 DEF SkipInv
  <2>3. QED
    BY <1>2, <2>2 DEF PairOK, EntryOK
<1>7. QED
  BY <1>4, <1>5, <1>6, PushMoves

LEMMA PushFailsSkips ==
    ASSUME Sound, SkipInv, NEW m \in Members, NEW p \in Peers[m], PushFails(m, p)
    PROVE  SkipInv'
<1>1. p \in Members
  BY GossipAssumption
<1>2. /\ \A w \in Tasks : Leaves(work[p][w], work'[p][w], m)
      /\ \A n \in Members \ {p} : work'[n] = work[n]
      /\ push' = [push EXCEPT ![m][p] = IdlePush]
      /\ UNCHANGED <<mem, restarts, reordered>> /\ Sound'
  BY <1>1, PushFailsDoes
<1>3. QED
  BY <1>2, EndSkips

LEMMA PushTimesOutSkips ==
    ASSUME Sound, SkipInv, NEW m \in Members, NEW p \in Peers[m], PushTimesOut(m, p)
    PROVE  SkipInv'
<1>1. p \in Members
  BY GossipAssumption
<1>2. /\ push[m][p].pc = "sent" /\ push' = [push EXCEPT ![m][p] = IdlePush]
      /\ UNCHANGED <<mem, work, restarts, reordered>> /\ Sound'
  BY <1>1, PushTimesOutDoes
<1> SUFFICES ASSUME restarts = 0 PROVE SkipInv'
  BY <1>2 DEF SkipInv
<1>3. \A w \in Tasks : work[p][w].from # m
  BY <1>1, <1>2 DEF SkipInv, Handled
<1>4. \A w \in Tasks : Leaves(work[p][w], work'[p][w], m)
  <2>1. \A w \in Tasks : work[p][w] \in Task /\ Filled(work[p][w])
    BY <1>1, Parts
  <2>2. QED
    BY <1>2, <1>3, <2>1 DEF Leaves
<1>5. QED
  BY <1>2, <1>4, EndSkips

-----------------------------------------------------------------------------
(* Samples that agree: every version of a second that a member has queued, *)
(* or is about to queue, has measured something that no version before it  *)
(* had.                                                                    *)

Agree == \A u, w \in Vals : u = w

\* The member's ring has what was measured of e's second, or that is gone.
Held(x, e) ==
    \/ e.ts <= x.floor
    \/ x.ring[e.ts] # NoSample /\ Measured(e.s) \subseteq Measured(x.ring[e.ts])

\* What a busy task is about to queue.
Due(task) == Head(task.todo)

Once(x, ts) ==
    /\ \A i \in 1..Len(x.log) : Held(x, x.log[i])
    /\ \A i, j \in 1..Len(x.log) : i < j => ~Same(x.log[i], x.log[j])
    /\ \A w \in Tasks : Busy(ts[w]) =>
          /\ Held(x, Due(ts[w]))
          /\ \A i \in 1..Len(x.log) : ~Same(x.log[i], Due(ts[w]))
          /\ \A v \in Tasks : Busy(ts[v]) /\ v # w => ~Same(Due(ts[v]), Due(ts[w]))

OnceInv == \A m \in Members : Once(mem[m], work[m])

\* What a member holds it holds after it accepts a sample, and that sample too.
LEMMA InsertHolds ==
    ASSUME NEW x \in Member, Ends(x.ring), NEW e \in Entry, NEW y,
           y.ring = Insert(x.ring, x.floor, e.ts, e.s).ring,
           y.floor = Insert(x.ring, x.floor, e.ts, e.s).floor
    PROVE  \A a : /\ a.ts \in Stamps /\ Held(x, a) => Held(y, a)
                  /\ a.ts = e.ts /\ a.s = Merged(x.ring, e.ts, e.s) => Held(y, a)
<1> DEFINE r == x.ring
           f == x.floor
           c == e.ts
           s == e.s
           m == Merged(r, c, s)
           g == Grow(r, c, s)
           Near(a) == \/ a.ts <= f
                      \/ g[a.ts] # NoSample /\ Measured(a.s) \subseteq Measured(g[a.ts])
<1>1. r \in Ring /\ f \in Nat /\ c \in Stamps /\ s \in Sample /\ Ends(r)
  BY DEF Member, Entry
<1>2. /\ g \in Ring /\ g[c] = m /\ m # NoSample
      /\ \A u \in Stamps : u # c => g[u] = r[u]
      /\ Evicts(g, f, y.ring, y.floor)
  <2> HIDE DEF r, f, c, s
  <2>1. Evicts(g, f, Insert(r, f, c, s).ring, Insert(r, f, c, s).floor)
    BY <1>1, InsertCases
  <2>2. QED
    BY <1>1, <2>1, InsertCases DEF r, f, c, s
<1>3. ASSUME NEW a, a.ts \in Stamps, Near(a) PROVE Held(y, a)
  <2>1. a.ts \in Stamps /\ a.ts \in Nat
    BY <1>3, SamplesAssumption
  <2> HIDE DEF g, f
  <2>2. CASE y.ring = g /\ y.floor = f
    BY <1>3, <2>2 DEF Held
  <2>3. CASE \E old \in Stored(g) :
                /\ y.ring = [g EXCEPT ![old] = NoSample]
                /\ y.floor \in Nat /\ y.floor >= f /\ y.floor >= old
    <3>1. PICK old \in Stored(g) :
                /\ y.ring = [g EXCEPT ![old] = NoSample]
                /\ y.floor \in Nat /\ y.floor >= f /\ y.floor >= old
      BY <2>3
    <3>2. old \in Nat
      BY SamplesAssumption DEF Stored
    <3>3. CASE a.ts <= f \/ a.ts = old
      <4>1. a.ts <= y.floor
        BY <1>1, <2>1, <3>1, <3>2, <3>3
      <4>2. QED
        BY <4>1 DEF Held
    <3>4. CASE ~(a.ts <= f) /\ a.ts # old
      <4>1. y.ring[a.ts] = g[a.ts]
        BY <1>2, <2>1, <3>1, <3>4 DEF Ring
      <4>2. QED
        BY <1>3, <3>4, <4>1 DEF Held
    <3>5. QED
      BY <3>3, <3>4
  <2>4. QED
    BY <1>2, <2>2, <2>3 DEF Evicts
<1>4. ASSUME NEW a, a.ts \in Stamps, Held(x, a) PROVE Near(a)
  <2>1. a.ts \in Stamps
    BY <1>4
  <2>2. CASE a.ts <= f
    BY <2>2
  <2>3. CASE r[a.ts] # NoSample /\ Measured(a.s) \subseteq Measured(r[a.ts])
    <3>1. CASE a.ts = c
      <4>1. \A d \in Measured(r[c]) : d \in Dims /\ m[d] # NoVal
        <5> HIDE DEF r, c, s
        <5>1. \A d \in Dims : r[c] # NoSample /\ r[c][d] # NoVal => m[d] # NoVal
          BY <1>1, MergedMeasures
        <5>2. r[c] # NoSample
          BY <2>3, <3>1
        <5> HIDE DEF m
        <5>3. QED
          BY <5>1, <5>2 DEF Measured
      <4> HIDE DEF m, g, r, c
      <4>2. QED
        BY <1>2, <2>3, <3>1, <4>1 DEF Measured
    <3>2. CASE a.ts # c
      <4> HIDE DEF g, r, c
      <4>1. QED
        BY <1>2, <2>1, <2>3, <3>2
    <3>3. QED
      BY <3>1, <3>2
  <2>4. QED
    BY <1>4, <2>2, <2>3 DEF Held
<1>5. ASSUME NEW a, a.ts = c, a.s = m PROVE Near(a) /\ a.ts \in Stamps
  <2> HIDE DEF m, g, c
  <2>1. QED
    BY <1>1, <1>2, <1>5
<1> HIDE DEF Near
<1>6. QED
  BY <1>3, <1>4, <1>5

\* Of samples that agree, a member only accepts a version of a second that
\* measures more than the one it holds.
LEMMA NewVersion ==
    ASSUME Agree, NEW x \in Member, NEW e \in Entry,
           Accepts(x.ring, x.floor, e.ts, e.s),
           NEW a, Held(x, a), a.ts = e.ts
    PROVE  a.s # Merged(x.ring, e.ts, e.s)
<1> DEFINE r == x.ring
           c == e.ts
           m == Merged(r, c, e.s)
<1>1. r \in Ring /\ x.floor \in Nat /\ c \in Stamps /\ c \in Nat /\ e.s \in Sample
  BY SamplesAssumption DEF Member, Entry
<1>2. c > x.floor /\ (r[c] # NoSample => MergedWith(r[c], e.s) # r[c])
  BY DEF Accepts
<1>3. r[c] # NoSample /\ Measured(a.s) \subseteq Measured(r[c])
  BY <1>1, <1>2 DEF Held
<1>4. m # r[c]
  BY <1>2, <1>3 DEF Merged
<1>5. m \in Sample /\ r[c] \in Sample
  <2>1. m \in Sample
    BY <1>1, MergedType
  <2>2. QED
    BY <1>1, <1>3, <2>1 DEF Ring
<1>6. \A d \in Dims : r[c][d] # NoVal => m[d] # NoVal
  BY <1>1, <1>3, MergedMeasures
<1> HIDE DEF m
<1>7. SUFFICES ASSUME a.s = m PROVE FALSE
  BY DEF m
<1>8. \A d \in Dims : m[d] # NoVal => r[c][d] # NoVal
  BY <1>3, <1>7 DEF Measured
<1>9. \A d \in Dims : m[d] = r[c][d]
  <2>1. \A d \in Dims : m[d] \in Vals \cup {NoVal} /\ r[c][d] \in Vals \cup {NoVal}
    BY <1>5 DEF Sample
  <2>2. QED
    BY <1>6, <1>8, <2>1 DEF Agree
<1>10. m = r[c]
  BY <1>5, <1>9 DEF Sample
<1>11. QED
  BY <1>4, <1>10

\* A sample that is accepted is a version no other task is about to queue.
LEMMA TakeOnce ==
    ASSUME Agree, NEW x \in Member, Ends(x.ring), NEW y, NEW e \in Entry,
           NEW ts \in [Tasks -> Task], NEW w \in Tasks, NEW u,
           \A v \in Tasks : Filled(ts[v]), Once(x, ts), ~Busy(ts[w]),
           Accepts(x.ring, x.floor, e.ts, e.s), Taken(x, y, e), Accepting(x, ts[w], u, e),
           NEW ts2, ts2 = [ts EXCEPT ![w] = u]
    PROVE  Once(y, ts2)
<1>1. /\ y.ring = Insert(x.ring, x.floor, e.ts, e.s).ring
      /\ y.floor = Insert(x.ring, x.floor, e.ts, e.s).floor
      /\ y.log = x.log
  BY DEF Taken
<1>2. PICK f : f = Due(u)
  OBVIOUS
<1>3. Due(u) = [ts |-> e.ts, s |-> Merged(x.ring, e.ts, e.s)]
  BY DEF Accepting, Due
<1>4. f.ts = e.ts /\ f.s = Merged(x.ring, e.ts, e.s)
  BY <1>2, <1>3
<1>5. \A a : /\ a.ts \in Stamps /\ Held(x, a) => Held(y, a)
             /\ a.ts = e.ts /\ a.s = Merged(x.ring, e.ts, e.s) => Held(y, a)
  BY <1>1, InsertHolds
<1>6. Held(y, f)
  BY <1>4, <1>5
<1>7. ASSUME NEW a, Held(x, a) PROVE ~Same(a, f)
  <2>1. a.ts = e.ts => a.s # Merged(x.ring, e.ts, e.s)
    BY <1>7, NewVersion
  <2>2. QED
    BY <1>4, <2>1 DEF Same
<1>8. /\ \A i \in 1..Len(x.log) : Held(x, x.log[i]) /\ x.log[i].ts \in Stamps
      /\ \A i, j \in 1..Len(x.log) : i < j => ~Same(x.log[i], x.log[j])
  <2>1. x.log \in Seq(LogEntry)
    BY DEF Member, LogEntry
  <2>2. \A i \in 1..Len(x.log) : x.log[i] \in LogEntry
    BY <2>1, ElementOf
  <2>3. QED
    BY <2>2 DEF Once, LogEntry
<1>9. ASSUME NEW v \in Tasks, Busy(ts[v])
      PROVE  /\ Held(x, Due(ts[v])) /\ Due(ts[v]).ts \in Stamps
             /\ \A i \in 1..Len(x.log) : ~Same(x.log[i], Due(ts[v]))
  <2>1. ts[v].todo # <<>> /\ ts[v].todo \in Seq(Entry)
    BY <1>9 DEF Filled, Task
  <2>2. Due(ts[v]) \in Entry
    BY <2>1, TailOf DEF Due
  <2>3. QED
    BY <1>9, <2>2 DEF Once, Entry
<1>10. /\ ts2[w] = u /\ \A v \in Tasks \ {w} : ts2[v] = ts[v]
  OBVIOUS
<1>11. \A i \in 1..Len(y.log) : Held(y, y.log[i]) /\ ~Same(y.log[i], f)
  BY <1>1, <1>5, <1>7, <1>8
<1>12. ASSUME NEW v \in Tasks, Busy(ts2[v])
       PROVE  Held(y, Due(ts2[v])) /\ \A i \in 1..Len(y.log) : ~Same(y.log[i], Due(ts2[v]))
  <2>1. CASE v = w
    BY <1>2, <1>6, <1>10, <1>11, <2>1
  <2>2. CASE v # w
    BY <1>1, <1>5, <1>9, <1>10, <1>12, <2>2
  <2>3. QED
    BY <2>1, <2>2
<1>13. ASSUME NEW v \in Tasks, NEW z \in Tasks, Busy(ts2[v]), Busy(ts2[z]), z # v
       PROVE  ~Same(Due(ts2[z]), Due(ts2[v]))
  <2>1. CASE v = w
    BY <1>2, <1>7, <1>9, <1>10, <1>13, <2>1
  <2>2. CASE z = w
    <3>1. ~Same(Due(ts2[v]), Due(ts2[z]))
      BY <1>2, <1>7, <1>9, <1>10, <1>13, <2>2
    <3>2. QED
      BY <3>1 DEF Same
  <2>3. CASE v # w /\ z # w
    BY <1>10, <1>13, <2>3 DEF Once
  <2>4. QED
    BY <2>1, <2>2, <2>3
<1>14. QED
  BY <1>1, <1>8, <1>11, <1>12, <1>13 DEF Once

\* A task queues what it was about to.
LEMMA QueueOnce ==
    ASSUME NEW x \in Member, NEW y, NEW ts \in [Tasks -> Task], NEW w \in Tasks,
           NEW n \in LogEntry, Once(x, ts), Busy(ts[w]), Same(n, Due(ts[w])),
           y.ring = x.ring, y.floor = x.floor, y.log = Append(x.log, n),
           NEW u, ~Busy(u), NEW ts2, ts2 = [ts EXCEPT ![w] = u]
    PROVE  Once(y, ts2)
<1>1. x.log \in Seq(LogEntry)
  BY DEF Member, LogEntry
<1>2. /\ Len(y.log) = Len(x.log) + 1 /\ Len(x.log) \in Nat /\ y.log[Len(x.log) + 1] = n
      /\ \A i \in 1..Len(x.log) : y.log[i] = x.log[i]
      /\ \A i \in 1..Len(y.log) : i \in 1..Len(x.log) \/ i = Len(x.log) + 1
  BY <1>1, Appended
<1>3. \A a : Held(x, a) => Held(y, a)
  BY DEF Held
<1>4. /\ Held(y, n) /\ \A i \in 1..Len(x.log) : ~Same(x.log[i], n)
      /\ \A v \in Tasks : Busy(ts[v]) /\ v # w => ~Same(n, Due(ts[v]))
  <2>1. /\ Held(x, Due(ts[w])) /\ \A i \in 1..Len(x.log) : ~Same(x.log[i], Due(ts[w]))
        /\ \A v \in Tasks : Busy(ts[v]) /\ v # w => ~Same(Due(ts[v]), Due(ts[w]))
    BY DEF Once
  <2>2. n.ts = Due(ts[w]).ts /\ n.s = Due(ts[w]).s
    BY DEF Same
  <2>3. Held(x, n)
    BY <2>1, <2>2 DEF Held
  <2>4. QED
    BY <1>3, <2>1, <2>2, <2>3 DEF Same
<1>5. /\ ts2[w] = u /\ \A v \in Tasks \ {w} : ts2[v] = ts[v]
  OBVIOUS
<1>6. ASSUME NEW v \in Tasks, Busy(ts2[v])
      PROVE  v # w /\ ts2[v] = ts[v] /\ Held(y, Due(ts[v])) /\ ~Same(n, Due(ts[v]))
             /\ \A i \in 1..Len(x.log) : ~Same(x.log[i], Due(ts[v]))
  <2>1. v # w /\ ts2[v] = ts[v]
    BY <1>5, <1>6
  <2>2. QED
    BY <1>3, <1>4, <1>6, <2>1 DEF Once
<1>7. ASSUME NEW i \in 1..Len(y.log) PROVE Held(y, y.log[i])
  BY <1>2, <1>3, <1>4 DEF Once
<1>8. ASSUME NEW i \in 1..Len(y.log), NEW j \in 1..Len(y.log), i < j
      PROVE  ~Same(y.log[i], y.log[j])
  <2>1. i \in 1..Len(x.log)
    BY <1>2, <1>8
  <2>2. CASE j = Len(x.log) + 1
    BY <1>2, <1>4, <2>1, <2>2
  <2>3. CASE j \in 1..Len(x.log)
    BY <1>2, <1>8, <2>1, <2>3 DEF Once
  <2>4. QED
    BY <1>2, <2>2, <2>3
<1>9. ASSUME NEW v \in Tasks, Busy(ts2[v]), NEW i \in 1..Len(y.log)
      PROVE  ~Same(y.log[i], Due(ts2[v]))
  BY <1>2, <1>6, <1>9
<1>10. ASSUME NEW v \in Tasks, NEW z \in Tasks, Busy(ts2[v]), Busy(ts2[z]), z # v
       PROVE  ~Same(Due(ts2[z]), Due(ts2[v]))
  <2>1. ts2[v] = ts[v] /\ ts2[z] = ts[z]
    BY <1>6, <1>10
  <2>2. QED
    BY <1>10, <2>1 DEF Once
<1>11. QED
  BY <1>6, <1>7, <1>8, <1>9, <1>10 DEF Once

\* No task is busy that was not.
NoBusier(ts, ts2) == \A w \in Tasks :
    Busy(ts2[w]) => Busy(ts[w]) /\ ts2[w].todo = ts[w].todo

\* A member that holds what it held and queues nothing new.
LEMMA OnceStays ==
    ASSUME NEW x \in Member, NEW y, NEW ts \in [Tasks -> Task], NEW ts2, Once(x, ts),
           \A w \in Tasks : Filled(ts[w]), NoBusier(ts, ts2), Rest(y.log, x.log),
           \A a : a.ts \in Stamps /\ Held(x, a) => Held(y, a), Len(y.log) \in Nat
    PROVE  Once(y, ts2)
<1>1. PICK k \in Nat : \A i \in 1..Len(y.log) :
         k + i \in 1..Len(x.log) /\ y.log[i] = x.log[k + i]
  BY DEF Rest
<1>2. /\ \A i \in 1..Len(x.log) : Held(x, x.log[i]) /\ x.log[i].ts \in Stamps
      /\ \A i, j \in 1..Len(x.log) : i < j => ~Same(x.log[i], x.log[j])
  <2>1. x.log \in Seq(LogEntry)
    BY DEF Member, LogEntry
  <2>2. \A i \in 1..Len(x.log) : x.log[i] \in LogEntry
    BY <2>1, ElementOf
  <2>3. QED
    BY <2>2 DEF Once, LogEntry
<1>3. ASSUME NEW w \in Tasks, Busy(ts2[w])
      PROVE  /\ Busy(ts[w]) /\ Due(ts2[w]) = Due(ts[w])
             /\ Held(x, Due(ts[w])) /\ Due(ts[w]).ts \in Stamps
             /\ \A i \in 1..Len(x.log) : ~Same(x.log[i], Due(ts[w]))
  <2>1. Busy(ts[w]) /\ ts2[w].todo = ts[w].todo
    BY <1>3 DEF NoBusier
  <2>2. ts[w].todo # <<>> /\ ts[w].todo \in Seq(Entry)
    BY <2>1 DEF Filled, Task
  <2>3. Due(ts[w]) \in Entry
    BY <2>2, TailOf DEF Due
  <2>4. QED
    BY <2>1, <2>3 DEF Once, Entry, Due
<1>4. \A i \in 1..Len(y.log) : Held(y, y.log[i])
  BY <1>1, <1>2
<1>5. ASSUME NEW i \in 1..Len(y.log), NEW j \in 1..Len(y.log), i < j
      PROVE  ~Same(y.log[i], y.log[j])
  <2>1. k + i < k + j
    BY <1>5
  <2>2. QED
    BY <1>1, <1>2, <2>1
<1>6. \A w \in Tasks : Busy(ts2[w]) =>
         Held(y, Due(ts2[w])) /\ \A i \in 1..Len(y.log) : ~Same(y.log[i], Due(ts2[w]))
  BY <1>1, <1>3
<1>7. ASSUME NEW v \in Tasks, NEW w \in Tasks, Busy(ts2[v]), Busy(ts2[w]), v # w
      PROVE  ~Same(Due(ts2[v]), Due(ts2[w]))
  BY <1>3, <1>7 DEF Once
<1>8. QED
  BY <1>4, <1>5, <1>6, <1>7 DEF Once

\* What retention drops is at or below the floor.
LEMMA RetainHolds ==
    ASSUME NEW x \in Member, Ends(x.ring), NEW cut \in Nat, NEW first \in Nat,
           NEW y, y = Retained(x, cut, first)
    PROVE  \A a : a.ts \in Stamps /\ Held(x, a) => Held(y, a)
<1> DEFINE r == x.ring
           F == {x.floor} \cup {t \in Stored(r) : t < cut}
<1>1. Ends(r) /\ r \in Ring /\ x.floor \in Nat
  BY DEF Member
<1>2. /\ y.ring = [t \in Stamps |-> IF t < cut THEN NoSample ELSE r[t]]
      /\ y.floor = Max(F)
  BY <1>1 DEF Member, Retained, PruneRing
<1>3. Max(F) \in Nat /\ \A t \in F : t <= Max(F)
  <2>0. Stored(r) \in SUBSET Nat
    BY SamplesAssumption DEF Stored
  <2>1. F \in SUBSET Nat /\ F # {} /\ x.floor + cut \in Nat
    <3>1. {t \in Stored(r) : t < cut} \in SUBSET Nat
      BY <2>0
    <3>2. {x.floor} \in SUBSET Nat /\ x.floor \in F
      BY <1>1
    <3>3. F \in SUBSET Nat
      BY <3>1, <3>2
    <3>4. x.floor + cut \in Nat
      BY <1>1
    <3>5. QED
      BY <3>2, <3>3, <3>4
  <2>2. ASSUME NEW t \in F PROVE t <= x.floor + cut
    <3>1. t \in Nat /\ (t = x.floor \/ t < cut)
      BY <2>1
    <3>2. QED
      BY <1>1, <3>1
  <2> HIDE DEF F
  <2>3. Max(F) \in F /\ \A t \in F : t <= Max(F)
    BY <2>1, <2>2, Greatest
  <2>4. QED
    BY <2>1, <2>3
<1>4. ASSUME NEW a, a.ts \in Stamps, Held(x, a) PROVE Held(y, a)
  <2>1. a.ts \in Stamps /\ a.ts \in Nat /\ x.floor \in F
    BY <1>4, SamplesAssumption
  <2>2. CASE a.ts <= x.floor
    <3>1. x.floor <= Max(F)
      BY <1>3, <2>1
    <3> HIDE DEF F
    <3>2. a.ts <= y.floor
      BY <1>1, <1>2, <1>3, <2>1, <2>2, <3>1
    <3>3. QED
      BY <3>2 DEF Held
  <2>3. CASE r[a.ts] # NoSample /\ Measured(a.s) \subseteq Measured(r[a.ts])
    <3>1. CASE a.ts < cut
      <4>1. a.ts \in F
        BY <2>1, <2>3, <3>1 DEF Stored
      <4>2. QED
        BY <1>2, <1>3, <4>1 DEF Held
    <3>2. CASE ~(a.ts < cut)
      BY <1>2, <2>1, <2>3, <3>2 DEF Held
    <3>3. QED
      BY <3>1, <3>2
  <2>4. QED
    BY <1>4, <2>2, <2>3 DEF Held
<1>5. QED
  BY <1>4

LEMMA ReloadOnce ==
    ASSUME NEW r \in Ring, Ends(r), NEW F \in SUBSET Stored(r),
           NEW ts, \A w \in Tasks : ~Busy(ts[w])
    PROVE  Once(Reloaded(r, F), ts)
<1> DEFINE n == Cardinality(F)
           order == Order(F)
           ring == ReloadedRing(r, F)
           log == ReloadedLog(r, order)
           y == Reloaded(r, F)
<1>1. PICK b \in Nat : \A t \in Stored(r) : t <= b
  BY DEF Ends
<1>2. F \in SUBSET (Nat \ {0}) /\ \A t \in F : t \in Stamps /\ t <= b /\ r[t] # NoSample
  BY <1>1, SamplesAssumption DEF Stored
<1>3. ASSUME NEW i \in 1..n
      PROVE  Nth(F, i) \in F /\ Cardinality({u \in F : u <= Nth(F, i)}) = i
  <2>1. \E t \in F : Cardinality({u \in F : u <= t}) = i
    BY <1>2, TheIth
  <2>2. QED
    BY <2>1, Zenon DEF Nth
<1>4. ASSUME NEW i \in 1..n, NEW j \in 1..n, Nth(F, i) = Nth(F, j) PROVE i = j
  BY <1>3, <1>4
<1>5. order = [i \in 1..n |-> Nth(F, i)]
  BY DEF Order
<1> HIDE DEF n, order
<1>6. log = [i \in 1..n |-> [seq |-> i, ts |-> Nth(F, i), s |-> r[Nth(F, i)]]]
  BY <1>5 DEF ReloadedLog
<1>7. /\ NewMember \in Member /\ y.log = log /\ y.ring = ring
  <2>1. NewMember \in Member
    BY DEF NewMember, Member, EmptyRing, Ring
  <2>2. y = [NewMember EXCEPT !.ring = ring, !.log = log, !.seq = Len(order) + 1]
    BY DEF Reloaded, order
  <2> HIDE DEF ring, log, y
  <2>3. QED
    BY <2>1, <2>2 DEF Member
<1>8. y \in Member
  BY ReloadedOK
<1>9. DOMAIN y.log = 1..Len(y.log) /\ Len(y.log) \in Nat
  BY <1>8 DEF Member
<1> HIDE DEF y
<1>10. 1..Len(y.log) = 1..n
  BY <1>6, <1>7, <1>9
<1>11. ASSUME NEW i \in 1..n PROVE Held(y, y.log[i])
  <2>1. y.log[i].ts = Nth(F, i) /\ y.log[i].s = r[Nth(F, i)]
    BY <1>6, <1>7
  <2>2. ring[Nth(F, i)] = r[Nth(F, i)] /\ r[Nth(F, i)] # NoSample
    BY <1>2, <1>3 DEF ReloadedRing
  <2>3. QED
    BY <1>7, <2>1, <2>2 DEF Held
<1>12. ASSUME NEW i \in 1..n, NEW j \in 1..n, i # j PROVE y.log[i].ts # y.log[j].ts
  BY <1>4, <1>6, <1>7, <1>12
<1>13. Once(y, ts)
  <2>1. ASSUME NEW i \in 1..n, NEW j \in 1..n, i < j PROVE y.log[i].ts # y.log[j].ts
    <3>1. i # j
      <4>1. i \in Int /\ j \in Int
        BY <1>9, <1>10
      <4>2. QED
        BY <2>1, <4>1
    <3>2. QED
      BY <1>12, <3>1
  <2>2. QED
    BY <1>10, <1>11, <2>1 DEF Once, Same
<1>14. QED
  BY <1>13 DEF y

\* Member n holds and queues what it did, and is about to queue nothing new.
Rests(n) ==
    /\ mem'[n].ring = mem[n].ring /\ mem'[n].floor = mem[n].floor /\ mem'[n].log = mem[n].log
    /\ NoBusier(work[n], work'[n])

LEMMA RestOnce ==
    ASSUME Sound, OnceInv, NEW n \in Members, Rests(n)
    PROVE  Once(mem'[n], work'[n])
<1>1. /\ mem[n] \in Member /\ mem[n].log \in Seq(LogEntry) /\ work[n] \in [Tasks -> Task]
      /\ \A w \in Tasks : Filled(work[n][w])
  BY Parts
<1>2. mem'[n].log = mem[n].log /\ NoBusier(work[n], work'[n])
  BY DEF Rests
<1>3. Rest(mem'[n].log, mem[n].log) /\ Len(mem'[n].log) \in Nat
  BY <1>1, <1>2, SameLog
<1>4. \A a : a.ts \in Stamps /\ Held(mem[n], a) => Held(mem'[n], a)
  BY DEF Rests, Held
<1>5. Once(mem[n], work[n])
  BY DEF OnceInv
<1>6. QED
  BY <1>1, <1>2, <1>3, <1>4, <1>5, OnceStays

\* Enough: one member keeps Once, and the others rest.
LEMMA OnceWhen ==
    ASSUME Sound, OnceInv, NEW m \in Members, Once(mem'[m], work'[m]),
           \A n \in Members \ {m} : Rests(n)
    PROVE  OnceInv'
<1>1. ASSUME NEW n \in Members PROVE Once(mem'[n], work'[n])
  <2>1. CASE n = m
    BY <2>1
  <2>2. CASE n # m
    <3>1. Rests(n)
      BY <2>2
    <3>2. QED
      BY <3>1, RestOnce
  <2>3. QED
    BY <2>1, <2>2
<1>2. QED
  BY <1>1 DEF OnceInv

LEMMA AllRest ==
    ASSUME Sound, OnceInv, \A n \in Members : Rests(n)
    PROVE  OnceInv'
<1>1. ASSUME NEW n \in Members PROVE Once(mem'[n], work'[n])
  <2>1. Rests(n)
    OBVIOUS
  <2>2. QED
    BY <2>1, RestOnce
<1>2. QED
  BY <1>1 DEF OnceInv

LEMMA TakesOnce ==
    ASSUME Agree, Sound, OnceInv, NEW m \in Members, NEW w \in Tasks, Takes(m, w)
    PROVE  OnceInv'
<1>1. PICK e \in Entry, y \in Member, u \in Task :
          /\ Accepts(mem[m].ring, mem[m].floor, e.ts, e.s)
          /\ Taken(mem[m], y, e) /\ Accepting(mem[m], work[m][w], u, e)
          /\ ~Busy(work[m][w])
          /\ mem' = [mem EXCEPT ![m] = y] /\ work' = [work EXCEPT ![m][w] = u]
  BY DEF Takes
<1>2. /\ mem[m] \in Member /\ Ends(mem[m].ring) /\ work[m] \in [Tasks -> Task]
      /\ \A v \in Tasks : Filled(work[m][v])
  BY Parts
<1>3. mem'[m] = y /\ \A n \in Members \ {m} : mem'[n] = mem[n]
  <2>1. mem \in Stores
    BY SoundSays
  <2>2. QED
    BY <1>1, <2>1 DEF Stores
<1>4. PICK ts2 : ts2 = [work[m] EXCEPT ![w] = u]
  OBVIOUS
<1>5. work'[m] = ts2 /\ \A n \in Members \ {m} : work'[n] = work[n]
  <2>1. work \in [Members -> [Tasks -> {task \in Task : Filled(task)}]]
    BY SoundSays DEF Works
  <2>2. QED
    BY <1>1, <1>4, <2>1
<1>6. Once(mem[m], work[m])
  BY DEF OnceInv
<1>7. Once(y, ts2)
  BY <1>1, <1>2, <1>4, <1>6, TakeOnce
<1>8. \A n \in Members \ {m} : Rests(n)
  BY <1>3, <1>5 DEF Rests, NoBusier
<1>9. QED
  BY <1>3, <1>5, <1>7, <1>8, OnceWhen

LEMMA QueuesOnce ==
    ASSUME Sound, OnceInv, NEW m \in Members, NEW w \in Tasks, Queue(m, w)
    PROVE  OnceInv'
<1>1. PICK y \in Member, n \in LogEntry :
          /\ y.ring = mem[m].ring /\ y.floor = mem[m].floor
          /\ y.log = Append(mem[m].log, n) /\ Same(n, Head(work[m][w].todo))
          /\ mem' = [mem EXCEPT ![m] = y]
  BY QueueDoes
<1>2. /\ work[m][w].pc = "numbered" /\ work[m][w].todo # <<>>
      /\ work' = [work EXCEPT ![m][w] = Done(work[m][w])]
  BY QueueDoes
<1>3. mem[m] \in Member /\ work[m] \in [Tasks -> Task] /\ work[m][w] \in Task
  BY Parts
<1>4. PICK u : u = Done(work[m][w])
  OBVIOUS
<1>5. ~Busy(u)
  BY <1>2, <1>3, <1>4, DoneOK
<1>6. mem'[m] = y /\ \A k \in Members \ {m} : mem'[k] = mem[k]
  <2>1. mem \in Stores
    BY SoundSays
  <2>2. QED
    BY <1>1, <2>1 DEF Stores
<1>7. PICK ts2 : ts2 = [work[m] EXCEPT ![w] = u]
  OBVIOUS
<1>8. work'[m] = ts2 /\ \A k \in Members \ {m} : work'[k] = work[k]
  <2>1. work \in [Members -> [Tasks -> {task \in Task : Filled(task)}]]
    BY SoundSays DEF Works
  <2>2. QED
    BY <1>2, <1>4, <1>7, <2>1
<1>9. Once(mem[m], work[m]) /\ Busy(work[m][w]) /\ Same(n, Due(work[m][w]))
  BY <1>1, <1>2 DEF OnceInv, Busy, Due
<1>10. Once(y, ts2)
  BY <1>1, <1>3, <1>5, <1>7, <1>9, QueueOnce
<1>11. \A k \in Members \ {m} : Rests(k)
  BY <1>6, <1>8 DEF Rests, NoBusier
<1>12. QED
  BY <1>6, <1>8, <1>10, <1>11, OnceWhen

LEMMA RetainsOnce ==
    ASSUME Sound, OnceInv, NEW m \in Members, Retain(m)
    PROVE  OnceInv'
<1>1. /\ mem[m] \in Member /\ Ends(mem[m].ring) /\ work[m] \in [Tasks -> Task]
      /\ \A w \in Tasks : Filled(work[m][w])
  BY Parts
<1>2. work' = work
  BY RetainDoes
<1>3. PICK cut \in Nat, first \in Nat :
          /\ first \in 1..(Len(mem[m].log) + 1)
          /\ mem' = [mem EXCEPT ![m] = Retained(mem[m], cut, first)]
  BY RetainDoes
<1>4. PICK y : y = Retained(mem[m], cut, first)
  OBVIOUS
<1>5. mem[m] \in Member /\ Ends(mem[m].ring) /\ first \in 1..(Len(mem[m].log) + 1)
  BY <1>1, <1>3
<1>6. \A a : a.ts \in Stamps /\ Held(mem[m], a) => Held(y, a)
  BY ONLY <1>5, <1>4, cut \in Nat, first \in Nat, RetainHolds
<1>7. Rest(y.log, mem[m].log) /\ Len(y.log) \in Nat
  BY ONLY <1>5, <1>4, cut \in Nat, first \in Nat, RetainedOK
<1>8. mem'[m] = y /\ \A n \in Members \ {m} : mem'[n] = mem[n]
  <2>1. mem \in Stores
    BY SoundSays
  <2>2. QED
    BY <1>3, <1>4, <2>1 DEF Stores
<1>9. Once(mem[m], work[m]) /\ NoBusier(work[m], work[m])
  BY DEF OnceInv, NoBusier
<1>10. \A w \in Tasks : Filled(work[m][w])
  BY <1>1
<1>11. Once(y, work[m])
  BY ONLY <1>1, <1>5, <1>6, <1>7, <1>9, <1>10, OnceStays
<1>12. \A n \in Members \ {m} : Rests(n)
  BY <1>2, <1>8 DEF Rests, NoBusier
<1>13. QED
  BY <1>2, <1>8, <1>11, <1>12, OnceWhen

LEMMA RestartsOnce ==
    ASSUME Sound, OnceInv, NEW m \in Members, NEW flushed, Restart(m, flushed)
    PROVE  OnceInv'
<1>1. mem[m].ring \in Ring /\ Ends(mem[m].ring)
  BY Parts
<1>2. /\ flushed \in SUBSET Stored(mem[m].ring)
      /\ mem' = [mem EXCEPT ![m] = Reloaded(mem[m].ring, flushed)]
      /\ \A w \in Tasks : work'[m][w] = IdleTask
      /\ \A n \in Members \ {m}, w \in Tasks : Leaves(work[n][w], work'[n][w], m)
  BY RestartDoes
<1>3. PICK y : y = Reloaded(mem[m].ring, flushed)
  OBVIOUS
<1>4. mem'[m] = y /\ \A n \in Members \ {m} : mem'[n] = mem[n]
  <2>1. mem \in Stores
    BY SoundSays
  <2>2. QED
    BY <1>2, <1>3, <2>1 DEF Stores
<1>5. Once(mem'[m], work'[m])
  <2>1. \A w \in Tasks : ~Busy(work'[m][w])
    BY <1>2, IdleOK
  <2>2. PICK ts2 : ts2 = work'[m]
    OBVIOUS
  <2>3. Once(y, ts2)
    BY <1>1, <1>2, <1>3, <2>1, <2>2, ReloadOnce
  <2>4. QED
    BY <1>4, <2>2, <2>3
<1>6. \A n \in Members \ {m} : Rests(n)
  BY <1>2, <1>4 DEF Rests, NoBusier, Leaves
<1>7. QED
  BY <1>5, <1>6, OnceWhen

\* Every member holds and queues what it did.
SameStores == \A n \in Members :
    mem'[n].ring = mem[n].ring /\ mem'[n].floor = mem[n].floor /\ mem'[n].log = mem[n].log

\* No task is about to queue anything new.
NoneBusier == \A n \in Members : NoBusier(work[n], work'[n])

LEMMA Resting ==
    ASSUME Sound, OnceInv, SameStores, NoneBusier
    PROVE  OnceInv'
<1>1. \A n \in Members : Rests(n)
  BY DEF SameStores, NoneBusier, Rests
<1>2. QED
  BY <1>1, AllRest

LEMMA StoresStay ==
    ASSUME Sound, NEW m \in Members, NEW y, y.ring = mem[m].ring, y.floor = mem[m].floor,
           y.log = mem[m].log, mem' = [mem EXCEPT ![m] = y]
    PROVE  SameStores
<1>1. mem \in Stores
  BY SoundSays
<1>2. mem'[m] = y /\ \A n \in Members \ {m} : mem'[n] = mem[n]
  BY <1>1 DEF Stores
<1>3. QED
  BY <1>2 DEF SameStores

LEMMA MergeStays ==
    ASSUME Sound, NEW m \in Members, Merges(m)
    PROVE  SameStores
<1>1. PICK y \in Member : ButRecord(mem[m], y) /\ mem' = [mem EXCEPT ![m] = y]
  BY DEF Merges
<1>2. y.ring = mem[m].ring /\ y.floor = mem[m].floor /\ y.log = mem[m].log
  BY <1>1 DEF ButRecord
<1>3. QED
  BY <1>1, <1>2, StoresStay

LEMMA TaskStays ==
    ASSUME Sound, NEW m \in Members, NEW w \in Tasks, NEW u,
           Busy(u) => Busy(work[m][w]) /\ u.todo = work[m][w].todo,
           work' = [work EXCEPT ![m][w] = u]
    PROVE  NoneBusier
<1>1. work \in [Members -> [Tasks -> {task \in Task : Filled(task)}]]
  BY SoundSays DEF Works
<1>2. /\ \A v \in Tasks \ {w} : work'[m][v] = work[m][v]
      /\ work'[m][w] = u
      /\ \A n \in Members \ {m} : work'[n] = work[n]
  BY <1>1
<1>3. QED
  BY <1>2 DEF NoneBusier, NoBusier

LEMMA RefusesOnce ==
    ASSUME Sound, OnceInv, NEW m \in Members, NEW w \in Tasks, Refuse(m, w)
    PROVE  OnceInv'
<1>1. /\ work[m][w].pc = "next" /\ work[m][w].todo # <<>>
      /\ mem' = mem /\ work' = [work EXCEPT ![m][w] = Done(work[m][w])]
  BY RefuseDoes
<1>2. work[m][w] \in Task
  BY Parts
<1>3. PICK u : u = Done(work[m][w])
  OBVIOUS
<1>4. ~Busy(u)
  BY <1>1, <1>2, <1>3, DoneOK
<1>5. NoneBusier
  BY <1>1, <1>3, <1>4, TaskStays
<1>6. SameStores
  BY <1>1 DEF SameStores
<1>7. QED
  BY <1>5, <1>6, Resting

LEMMA NumbersOnce ==
    ASSUME Sound, OnceInv, NEW m \in Members, NEW w \in Tasks, Number(m, w)
    PROVE  OnceInv'
<1>1. PICK y \in Member, u \in Task :
          /\ y.ring = mem[m].ring /\ y.floor = mem[m].floor /\ y.log = mem[m].log
          /\ work[m][w].pc = "accepted" /\ u.pc = "numbered" /\ u.todo = work[m][w].todo
          /\ mem' = [mem EXCEPT ![m] = y] /\ work' = [work EXCEPT ![m][w] = u]
  BY NumberDoes
<1>2. SameStores
  BY <1>1, StoresStay
<1>3. Busy(work[m][w])
  BY <1>1 DEF Busy
<1>4. NoneBusier
  BY <1>1, <1>3, TaskStays
<1>5. QED
  BY <1>2, <1>4, Resting

LEMMA AnswersOnce ==
    ASSUME Sound, OnceInv, NEW p \in Members, NEW w \in Tasks, Answer(p, w)
    PROVE  OnceInv'
<1>1. mem' = mem /\ work' = [work EXCEPT ![p][w] = IdleTask]
  BY AnswerDoes
<1>2. SameStores
  BY <1>1 DEF SameStores
<1>3. PICK u : u = IdleTask
  OBVIOUS
<1>4. ~Busy(u)
  BY <1>3, IdleOK
<1>5. NoneBusier
  BY <1>1, <1>3, <1>4, TaskStays
<1>6. QED
  BY <1>2, <1>5, Resting

LEMMA ServesOnce ==
    ASSUME Sound, OnceInv, NEW m \in Members, NEW p \in Members, NEW w \in Tasks,
           Serve(m, p, w)
    PROVE  OnceInv'
<1>1. Merges(p)
  BY ServeDoes
<1>2. PICK u \in Task :
          Loads(u, push[m][p].delta, m) /\ work' = [work EXCEPT ![p][w] = u]
  BY ServeDoes
<1>3. ~Busy(u)
  BY <1>2 DEF Loads
<1>4. NoneBusier
  BY <1>2, <1>3, TaskStays
<1>5. SameStores
  BY <1>1, MergeStays
<1>6. QED
  BY <1>4, <1>5, Resting

LEMMA LateServesOnce ==
    ASSUME Sound, OnceInv, NEW r \in late, NEW w \in Tasks, LateServe(r, w)
    PROVE  OnceInv'
<1>1. r.to \in Members /\ Merges(r.to)
  BY LateServeDoes
<1>2. PICK u \in Task :
          Loads(u, r.delta, NoMember) /\ work' = [work EXCEPT ![r.to][w] = u]
  BY LateServeDoes
<1>3. ~Busy(u)
  BY <1>2 DEF Loads
<1>4. NoneBusier
  BY <1>1, <1>2, <1>3, TaskStays
<1>5. SameStores
  BY <1>1, MergeStays
<1>6. QED
  BY <1>4, <1>5, Resting

LEMMA FailsOnce ==
    ASSUME Sound, OnceInv, NEW m \in Members, NEW p \in Members, PushFails(m, p)
    PROVE  OnceInv'
<1>1. /\ \A w \in Tasks : Leaves(work[p][w], work'[p][w], m)
      /\ \A n \in Members \ {p} : work'[n] = work[n]
      /\ mem' = mem
  BY PushFailsDoes
<1>2. SameStores
  BY <1>1 DEF SameStores
<1>3. NoBusier(work[p], work'[p])
  BY <1>1 DEF NoBusier, Leaves
<1>4. \A n \in Members \ {p} : NoBusier(work[n], work'[n])
  BY <1>1 DEF NoBusier
<1>5. NoneBusier
  BY <1>3, <1>4 DEF NoneBusier
<1>6. QED
  BY <1>2, <1>5, Resting

LEMMA AcksOnce ==
    ASSUME Sound, OnceInv, NEW m \in Members, NEW p \in Members, Acked(m, p)
    PROVE  OnceInv'
<1>1. PICK y \in Member :
          /\ y.ring = mem[m].ring /\ y.floor = mem[m].floor /\ y.log = mem[m].log
          /\ mem' = [mem EXCEPT ![m] = y]
  BY AckedDoes
<1>2. work' = work
  BY AckedDoes
<1>3. SameStores
  BY <1>1, StoresStay
<1>4. NoneBusier
  BY <1>2 DEF NoneBusier, NoBusier
<1>5. QED
  BY <1>3, <1>4, Resting

-----------------------------------------------------------------------------
(* Records.                                                                *)

\* No record is older after a step than before it.
Newer == \A m \in Members :
    mem[m].kv # NoRec /\ mem'[m].kv # NoRec => mem'[m].kv.ts >= mem[m].kv.ts

\* A record stays, goes, or is merged with another.
Turns(a, b) ==
    b = a \/ b = NoRec \/ \E rec \in Record \cup {NoRec} : b = LwwMerge(a, rec)

LEMMA TurnsNewer ==
    ASSUME NEW a \in Record, a # NoRec, NEW b, Turns(a, b), b # NoRec
    PROVE  b.ts >= a.ts
<1>1. CASE b = a
  <2>1. a.ts \in Nat
    BY GossipAssumption DEF Record
  <2>2. QED
    BY <1>1, <2>1
<1>2. CASE \E rec \in Record \cup {NoRec} : b = LwwMerge(a, rec)
  <2>1. PICK rec \in Record \cup {NoRec} : b = LwwMerge(a, rec)
    BY <1>2
  <2>2. QED
    BY <2>1, RecordType
<1>3. QED
  BY <1>1, <1>2 DEF Turns

\* Enough: the record of one member turns, and the others stay.
LEMMA NewerWhen ==
    ASSUME Sound, NEW m \in Members, NEW y, Turns(mem[m].kv, y.kv),
           mem' = [mem EXCEPT ![m] = y]
    PROVE  Newer
<1>1. mem \in Stores
  BY SoundSays
<1>2. mem'[m] = y /\ \A n \in Members \ {m} : mem'[n] = mem[n]
  BY <1>1 DEF Stores
<1>3. ASSUME NEW k \in Members, mem[k].kv # NoRec, mem'[k].kv # NoRec
      PROVE  mem'[k].kv.ts >= mem[k].kv.ts
  <2>1. mem[k].kv \in Record
    BY <1>3, Parts
  <2>2. Turns(mem[k].kv, mem'[k].kv)
    BY <1>2 DEF Turns
  <2>3. PICK a, b : a \in Record /\ a = mem[k].kv /\ b = mem'[k].kv
    BY <2>1
  <2>4. b.ts >= a.ts
    BY <1>3, <2>2, <2>3, TurnsNewer
  <2>5. QED
    BY <2>3, <2>4
<1>4. QED
  BY <1>3 DEF Newer

LEMMA SameNewer ==
    ASSUME Sound, mem' = mem
    PROVE  Newer
<1>1. ASSUME NEW k \in Members, mem[k].kv # NoRec
      PROVE  mem'[k].kv.ts >= mem[k].kv.ts
  <2>1. mem[k].kv \in Record
    BY <1>1, Parts
  <2>2. mem[k].kv.ts \in Nat
    BY <2>1, GossipAssumption DEF Record
  <2>3. QED
    BY <2>2
<1>2. QED
  BY <1>1 DEF Newer

LEMMA MergesNewer ==
    ASSUME Sound, NEW m \in Members, Merges(m)
    PROVE  Newer
<1>1. PICK y \in Member, rec \in Record \cup {NoRec} :
          y.kv = LwwMerge(mem[m].kv, rec) /\ mem' = [mem EXCEPT ![m] = y]
  BY DEF Merges
<1>2. Turns(mem[m].kv, y.kv)
  BY <1>1 DEF Turns
<1>3. QED
  BY <1>1, <1>2, NewerWhen

LEMMA TakesNewer ==
    ASSUME Sound, NEW m \in Members, NEW w \in Tasks, Takes(m, w)
    PROVE  Newer
<1>1. PICK e \in Entry, y \in Member : Taken(mem[m], y, e) /\ mem' = [mem EXCEPT ![m] = y]
  BY DEF Takes
<1>2. Turns(mem[m].kv, y.kv)
  BY <1>1 DEF Turns, Taken
<1>3. QED
  BY <1>1, <1>2, NewerWhen

LEMMA RetainNewer ==
    ASSUME Sound, NEW m \in Members, Retain(m)
    PROVE  Newer
<1>1. PICK cut \in Nat, first \in Nat :
          /\ first \in 1..(Len(mem[m].log) + 1)
          /\ mem' = [mem EXCEPT ![m] = Retained(mem[m], cut, first)]
  BY RetainDoes
<1>2. PICK y : y = Retained(mem[m], cut, first)
  OBVIOUS
<1>3. PICK x \in Member : x = mem[m]
  BY Parts
<1>4. y.kv = x.kv
  BY ONLY <1>2, <1>3, x \in Member DEF Retained, Member
<1>5. Turns(mem[m].kv, y.kv)
  BY <1>3, <1>4 DEF Turns
<1>6. QED
  BY <1>1, <1>2, <1>5, NewerWhen

LEMMA RestartNewer ==
    ASSUME Sound, NEW m \in Members, NEW flushed, Restart(m, flushed)
    PROVE  Newer
<1>1. /\ flushed \in SUBSET Stored(mem[m].ring)
      /\ mem' = [mem EXCEPT ![m] = Reloaded(mem[m].ring, flushed)]
  BY RestartDoes
<1>2. PICK y : y = Reloaded(mem[m].ring, flushed)
  OBVIOUS
<1>3. y.kv = NoRec
  BY <1>1, <1>2, Parts, ReloadedOK
<1>4. Turns(mem[m].kv, y.kv)
  BY <1>3 DEF Turns
<1>5. QED
  BY <1>1, <1>2, <1>4, NewerWhen

LEMMA TaskNewer ==
    ASSUME Sound, NEW m \in Members, NEW w \in Tasks, TaskStep(m, w)
    PROVE  Newer
<1>1. CASE Accept(m, w)
  BY <1>1, AcceptTakes, TakesNewer
<1>2. CASE Refuse(m, w)
  BY <1>2, RefuseDoes, SameNewer
<1>3. CASE Number(m, w)
  <2>1. PICK y \in Member : y.kv = mem[m].kv /\ mem' = [mem EXCEPT ![m] = y]
    BY <1>3, NumberDoes
  <2>2. Turns(mem[m].kv, y.kv)
    BY <2>1 DEF Turns
  <2>3. QED
    BY <2>1, <2>2, NewerWhen
<1>4. CASE Queue(m, w)
  <2>1. PICK y \in Member : y.kv = mem[m].kv /\ mem' = [mem EXCEPT ![m] = y]
    BY <1>4, QueueDoes
  <2>2. Turns(mem[m].kv, y.kv)
    BY <2>1 DEF Turns
  <2>3. QED
    BY <2>1, <2>2, NewerWhen
<1>5. CASE Answer(m, w)
  BY <1>5, AnswerDoes, SameNewer
<1>6. QED
  BY <1>1, <1>2, <1>3, <1>4, <1>5 DEF TaskStep

LEMMA PushNewer ==
    ASSUME Sound, NEW m \in Members, NEW p \in Members, PushStep(m, p)
    PROVE  Newer
<1>1. CASE Send(m, p)
  BY <1>1, SendDoes, SameNewer
<1>2. ASSUME NEW w \in Tasks, Serve(m, p, w) PROVE Newer
  BY <1>2, ServeDoes, MergesNewer
<1>3. CASE Acked(m, p)
  <2>1. PICK y \in Member, rec \in Record \cup {NoRec} :
            y.kv = LwwMerge(mem[m].kv, rec) /\ mem' = [mem EXCEPT ![m] = y]
    BY <1>3, AckedDoes
  <2>2. Turns(mem[m].kv, y.kv)
    BY <2>1 DEF Turns
  <2>3. QED
    BY <2>1, <2>2, NewerWhen
<1>4. CASE PushFails(m, p)
  BY <1>4, PushFailsDoes, SameNewer
<1>5. CASE PushTimesOut(m, p)
  BY <1>5, PushTimesOutDoes, SameNewer
<1>6. QED
  BY <1>1, <1>2, <1>3, <1>4, <1>5 DEF PushStep, Served, PushEnds

LEMMA ExpireNewer ==
    ASSUME Sound, NEW m \in Members, Expire(m)
    PROVE  Newer
<1>1. PICK y : y.kv = NoRec /\ mem' = [mem EXCEPT ![m] = y]
  BY ExpireDoes
<1>2. Turns(mem[m].kv, y.kv)
  BY <1>1 DEF Turns
<1>3. QED
  BY <1>1, <1>2, NewerWhen

-----------------------------------------------------------------------------
(* Every step.                                                             *)

Kept == Sound' /\ SkipInv' /\ Newer

LEMMA TaskKeeps ==
    ASSUME Sound, SkipInv, NEW m \in Members, NEW w \in Tasks, TaskStep(m, w)
    PROVE  Kept
<1>1. Newer
  BY TaskNewer
<1>2. CASE Accept(m, w)
  <2>1. Takes(m, w)
    BY <1>2, AcceptTakes
  <2>2. QED
    BY <1>1, <2>1, TakesSound, TakesSkips DEF Kept
<1>3. CASE Refuse(m, w)
  BY <1>1, <1>3, RefuseDoes, RefuseSkips DEF Kept
<1>4. CASE Number(m, w)
  BY <1>1, <1>4, NumberDoes, NumberSkips DEF Kept
<1>5. CASE Queue(m, w)
  BY <1>1, <1>5, QueueDoes, QueueSkips DEF Kept
<1>6. CASE Answer(m, w)
  BY <1>1, <1>6, AnswerDoes, AnswerSkips DEF Kept
<1>7. QED
  BY <1>2, <1>3, <1>4, <1>5, <1>6 DEF TaskStep

LEMMA PushKeeps ==
    ASSUME Sound, SkipInv, NEW m \in Members, NEW p \in Peers[m], PushStep(m, p)
    PROVE  Kept
<1>1. p \in Members
  BY GossipAssumption
<1>2. Newer
  BY <1>1, PushNewer
<1>3. CASE Send(m, p)
  BY <1>1, <1>2, <1>3, SendDoes, SendSkips DEF Kept
<1>4. ASSUME NEW w \in Tasks, Serve(m, p, w) PROVE Kept
  BY <1>1, <1>2, <1>4, ServeDoes, ServeSkips DEF Kept
<1>5. CASE Acked(m, p)
  BY <1>1, <1>2, <1>5, AckedDoes, AckedSkips DEF Kept
<1>6. CASE PushFails(m, p)
  BY <1>1, <1>2, <1>6, PushFailsDoes, PushFailsSkips DEF Kept
<1>7. CASE PushTimesOut(m, p)
  BY <1>1, <1>2, <1>7, PushTimesOutDoes, PushTimesOutSkips DEF Kept
<1>8. QED
  BY <1>3, <1>4, <1>5, <1>6, <1>7 DEF PushStep, Served, PushEnds

LEMMA RestartKeeps ==
    ASSUME Sound, SkipInv, NEW m \in Members, NEW flushed, Restart(m, flushed)
    PROVE  Kept
<1>1. restarts' = restarts + 1 /\ Sound'
  BY RestartDoes
<1>2. restarts \in Nat
  BY SoundSays, GossipAssumption
<1>3. restarts' # 0
  BY <1>1, <1>2
<1>4. SkipInv'
  BY <1>3 DEF SkipInv
<1>5. QED
  BY <1>1, <1>4, RestartNewer DEF Kept

LEMMA MemberKeeps ==
    ASSUME Sound, SkipInv, NEW m \in Members, MemberStep(m)
    PROVE  Kept
<1>1. ASSUME NEW w \in Tasks, TaskStep(m, w) PROVE Kept
  BY <1>1, TaskKeeps
<1>2. ASSUME NEW w \in Tasks, NEW ts \in Stamps, NEW s \in Reports, Report(m, w, ts, s)
      PROVE Kept
  <2>1. Takes(m, w)
    BY <1>2, ReportTakes
  <2>2. QED
    BY <2>1, TakesSound, TakesSkips, TakesNewer DEF Kept
<1>3. CASE Expire(m)
  BY <1>3, ExpireDoes, ExpireSkips, ExpireNewer DEF Kept
<1>4. CASE Retain(m)
  BY <1>4, RetainDoes, RetainSkips, RetainNewer DEF Kept
<1>5. CASE Tick(m)
  BY <1>5, TickDoes, TickSkips, SameNewer DEF Kept
<1>6. ASSUME NEW p \in Peers[m], PushStep(m, p) PROVE Kept
  BY <1>6, PushKeeps
<1>7. ASSUME NEW flushed, Restart(m, flushed) PROVE Kept
  BY <1>7, RestartKeeps
<1>8. QED
  BY <1>1, <1>2, <1>3, <1>4, <1>5, <1>6, <1>7 DEF MemberStep

\* A step that changes neither stores nor tasks nor pushes.
LEMMA QuietSkips ==
    ASSUME SkipInv, UNCHANGED <<mem, work, push, restarts, reordered>>
    PROVE  SkipInv'
<1>1. SkipInv <=> SkipInv'
  BY DEF SkipInv, Handled, InOrder, Low, PairOK, EntryOK, InDelta, Awaits, Owes, Busy, Same,
         Got, Covers
<1>2. QED
  BY <1>1

LEMMA StepKeeps ==
    ASSUME Sound, SkipInv, [Next]_vars
    PROVE  Kept
<1>1. ASSUME NEW m \in Members, MemberStep(m) PROVE Kept
  BY <1>1, MemberKeeps
<1>2. ASSUME NEW c \in Costs, Derive(c) PROVE Kept
  BY <1>2, DeriveDoes, DeriveSkips, MergesNewer DEF Kept
<1>3. ASSUME NEW r \in late, NEW w \in Tasks, LateServe(r, w) PROVE Kept
  BY <1>3, LateServeDoes, LateServeSkips, MergesNewer DEF Kept
<1>4. CASE Elapse
  BY <1>4, ElapseDoes, QuietSkips, SameNewer DEF Kept
<1>5. CASE UNCHANGED vars
  <2>1. UNCHANGED <<mem, work, push, late, now, puts, restarts, reordered>>
    BY <1>5 DEF vars
  <2>2. Sound'
    BY <2>1 DEF Sound, TypeOK
  <2>3. QED
    BY <2>1, <2>2, QuietSkips, SameNewer DEF Kept
<1>6. QED
  BY <1>1, <1>2, <1>3, <1>4, <1>5 DEF Next

LEMMA OnceStep ==
    ASSUME Agree, Sound, OnceInv, [Next]_vars
    PROVE  OnceInv'
<1>1. ASSUME mem' = mem, work' = work PROVE OnceInv'
  BY <1>1 DEF OnceInv
<1>2. ASSUME NEW m \in Members, NEW w \in Tasks, TaskStep(m, w) PROVE OnceInv'
  <2>1. CASE Accept(m, w)
    BY <2>1, AcceptTakes, TakesOnce
  <2>2. CASE Refuse(m, w)
    BY <2>2, RefusesOnce
  <2>3. CASE Number(m, w)
    BY <2>3, NumbersOnce
  <2>4. CASE Queue(m, w)
    BY <2>4, QueuesOnce
  <2>5. CASE Answer(m, w)
    BY <2>5, AnswersOnce
  <2>6. QED
    BY <1>2, <2>1, <2>2, <2>3, <2>4, <2>5 DEF TaskStep
<1>3. ASSUME NEW m \in Members, NEW w \in Tasks, NEW ts \in Stamps, NEW s \in Reports,
             Report(m, w, ts, s)
      PROVE  OnceInv'
  BY <1>3, ReportTakes, TakesOnce
<1>4. ASSUME NEW m \in Members, Expire(m) PROVE OnceInv'
  <2>1. PICK y : ButRecord(mem[m], y) /\ mem' = [mem EXCEPT ![m] = y]
    BY <1>4, ExpireDoes
  <2>2. y.ring = mem[m].ring /\ y.floor = mem[m].floor /\ y.log = mem[m].log
    BY <2>1 DEF ButRecord
  <2>3. work' = work
    BY <1>4, ExpireDoes
  <2>4. SameStores
    BY <2>1, <2>2, StoresStay
  <2>5. QED
    BY <2>3, <2>4, Resting DEF NoneBusier, NoBusier
<1>5. ASSUME NEW m \in Members, Tick(m) PROVE OnceInv'
  BY <1>1, <1>5, TickDoes
<1>6. ASSUME NEW m \in Members, NEW p \in Peers[m], PushStep(m, p) PROVE OnceInv'
  <2>1. p \in Members
    BY GossipAssumption
  <2>2. CASE Send(m, p)
    BY <1>1, <2>1, <2>2, SendDoes
  <2>3. ASSUME NEW w \in Tasks, Serve(m, p, w) PROVE OnceInv'
    BY <2>1, <2>3, ServesOnce
  <2>4. CASE Acked(m, p)
    BY <2>1, <2>4, AcksOnce
  <2>5. CASE PushFails(m, p)
    BY <2>1, <2>5, FailsOnce
  <2>6. CASE PushTimesOut(m, p)
    BY <1>1, <2>1, <2>6, PushTimesOutDoes
  <2>7. QED
    BY <1>6, <2>2, <2>3, <2>4, <2>5, <2>6 DEF PushStep, Served, PushEnds
<1>7. ASSUME NEW m \in Members, MemberStep(m) PROVE OnceInv'
  <2>1. ASSUME Retain(m) PROVE OnceInv'
    BY <2>1, RetainsOnce
  <2>2. ASSUME NEW flushed, Restart(m, flushed) PROVE OnceInv'
    BY <2>2, RestartsOnce
  <2>3. QED
    BY <1>2, <1>3, <1>4, <1>5, <1>6, <1>7, <2>1, <2>2 DEF MemberStep
<1>8. ASSUME NEW c \in Costs, Derive(c) PROVE OnceInv'
  <2>1. Merges(Owner) /\ Owner \in Members /\ work' = work
    BY <1>8, DeriveDoes
  <2>2. SameStores
    BY <2>1, MergeStays
  <2>3. QED
    BY <2>1, <2>2, Resting DEF NoneBusier, NoBusier
<1>9. ASSUME NEW r \in late, NEW w \in Tasks, LateServe(r, w) PROVE OnceInv'
  BY <1>9, LateServesOnce
<1>10. CASE Elapse
  BY <1>1, <1>10, ElapseDoes
<1>11. CASE UNCHANGED vars
  BY <1>1, <1>11 DEF vars
<1>12. QED
  BY <1>7, <1>8, <1>9, <1>10, <1>11 DEF Next

-----------------------------------------------------------------------------
(* The initial state.                                                      *)

LEMMA NewOK ==
    /\ NewMember \in Member /\ Ends(NewMember.ring) /\ NewMember.log = <<>>
    /\ NewMember.seq = 1 /\ \A p \in Members : NewMember.sent[p] = 0
<1>1. EmptyRing \in Ring /\ Stored(EmptyRing) = {}
  BY DEF EmptyRing, Ring, Stored
<1>2. Ends(EmptyRing)
  BY <1>1 DEF Ends
<1>3. <<>> \in Seq(LogEntry)
  OBVIOUS
<1>4. NewMember \in Member
  BY <1>1, <1>3 DEF NewMember, Member, LogEntry
<1>5. QED
  BY <1>2, <1>4 DEF NewMember

LEMMA NoPushOK == IdlePush \in Push /\ IdlePush.pc = "idle" /\ IdlePush.last = 0
<1>1. <<>> \in Seq(Entry)
  OBVIOUS
<1>2. QED
  BY <1>1 DEF IdlePush, Push

LEMMA InitSound ==
    ASSUME Init
    PROVE  Sound
<1>1. mem \in Stores
  BY NewOK DEF Init, Stores
<1>2. work \in Works
  BY IdleOK DEF Init, Works
<1>3. push \in Pushes
  BY NoPushOK DEF Init, Pushes
<1>4. /\ late \subseteq Request /\ reordered \subseteq Members /\ puts = 0 /\ restarts = 0
      /\ now = MinNow
  BY DEF Init
<1>5. now \in 0..MaxNow /\ puts \in 0..MaxPuts /\ restarts \in 0..MaxRestarts
  BY <1>4, GossipAssumption
<1>6. QED
  BY <1>1, <1>2, <1>3, <1>4, <1>5, SoundSays

LEMMA InitSkips ==
    ASSUME Init
    PROVE  SkipInv
<1>1. ASSUME NEW m \in Members
      PROVE  /\ mem[m].log = <<>> /\ mem[m].seq = 1 /\ \A p \in Members : mem[m].sent[p] = 0
             /\ \A w \in Tasks : work[m][w].pc = "idle" /\ work[m][w].from = NoMember
             /\ \A p \in Members : push[m][p].last = 0
  <2>1. /\ mem[m] = NewMember
        /\ \A w \in Tasks : work[m][w] = IdleTask
        /\ \A p \in Members : push[m][p] = IdlePush
    BY DEF Init
  <2>2. QED
    BY <2>1, NewOK, IdleOK, NoPushOK
<1>2. Handled
  BY <1>1, GossipAssumption DEF Handled
<1>3. ASSUME NEW m \in Members PROVE InOrder(mem[m], work[m], push[m])
  BY <1>1 DEF InOrder, Low
<1>4. ASSUME NEW m \in Members, NEW p \in Peers[m]
      PROVE  PairOK(mem[m], p, push[m][p], mem[p], work[p], m)
  <2>1. mem[m].log = <<>>
    BY <1>1
  <2>2. QED
    BY <2>1 DEF PairOK
<1>5. QED
  BY <1>2, <1>3, <1>4 DEF SkipInv

LEMMA InitOnce ==
    ASSUME Init
    PROVE  OnceInv
<1>1. ASSUME NEW m \in Members PROVE Once(mem[m], work[m])
  <2>1. mem[m] = NewMember /\ \A w \in Tasks : work[m][w] = IdleTask
    BY DEF Init
  <2>2. mem[m].log = <<>> /\ \A w \in Tasks : ~Busy(work[m][w])
    BY <2>1, NewOK, IdleOK
  <2>3. QED
    BY <2>2 DEF Once
<1>2. QED
  BY <1>1 DEF OnceInv

-----------------------------------------------------------------------------
(* The theorems.                                                           *)

LEMMA SkipsNothing ==
    ASSUME Sound, SkipInv
    PROVE  NothingSkipped
<1>1. ASSUME restarts = 0, NEW m \in Members \ reordered, NEW p \in Peers[m],
             NEW i \in DOMAIN mem[m].log, mem[m].log[i].seq <= mem[m].sent[p],
             NEW d \in Measured(mem[m].log[i].s)
      PROVE  Covers(mem[p], mem[m].log[i].ts, d)
  <2>1. PairOK(mem[m], p, push[m][p], mem[p], work[p], m)
    BY <1>1 DEF SkipInv
  <2>2. i \in 1..Len(mem[m].log)
    <3>1. mem[m].log \in Seq(LogEntry)
      BY Parts
    <3>2. QED
      BY <3>1
  <2>3. EntryOK(mem[m].log[i], mem[m].sent[p], push[m][p], mem[p], work[p], m)
    BY <2>1, <2>2 DEF PairOK
  <2>4. QED
    BY <1>1, <2>3 DEF EntryOK, Got
<1>2. QED
  BY <1>1 DEF NothingSkipped

LEMMA OnceAccepts ==
    ASSUME Sound, OnceInv
    PROVE  AcceptedOnce
<1>1. ASSUME NEW m \in Members, NEW i \in DOMAIN mem[m].log, NEW j \in DOMAIN mem[m].log, i # j
      PROVE  mem[m].log[i].ts # mem[m].log[j].ts \/ mem[m].log[i].s # mem[m].log[j].s
  <2>1. Once(mem[m], work[m]) /\ mem[m].log \in Seq(LogEntry)
    BY Parts DEF OnceInv
  <2>2. i \in 1..Len(mem[m].log) /\ j \in 1..Len(mem[m].log)
    BY <2>1
  <2>3. i < j \/ j < i
    BY <1>1, <2>2
  <2>4. ~Same(mem[m].log[i], mem[m].log[j]) \/ ~Same(mem[m].log[j], mem[m].log[i])
    BY <2>1, <2>2, <2>3 DEF Once
  <2>5. QED
    BY <2>4 DEF Same
<1>2. QED
  BY <1>1 DEF AcceptedOnce

\* Gossip skips nothing where the delta queue is in order: as long as no member
\* has restarted, whatever a member whose tasks queued in the order of their
\* numbers holds at or below a peer's watermark, the peer has, has dropped the
\* second of, or is full of newer seconds than.  It holds for any members, tasks,
\* reports and limits, and however pushes are lost, late, repeated or split by
\* DELTA_LIMIT.  A member whose queue is out of order (tsdb.rs:507 and 508 are two
\* steps) is excepted, and the code does not keep tasks from making it so.
THEOREM SkipsNone == Spec => []NothingSkipped
<1>1. Init => Sound /\ SkipInv
  BY InitSound, InitSkips
<1>2. Sound /\ SkipInv /\ [Next]_vars => Sound' /\ SkipInv'
  BY StepKeeps DEF Kept
<1>3. Spec => [](Sound /\ SkipInv)
  BY <1>1, <1>2, PTL DEF Spec
<1>4. QED
  BY <1>3, SkipsNothing, PTL

\* LwwKv::merge() never goes back: no order of requests, late requests and
\* answers makes a member's record older, unless it expired or the member
\* restarted in between.
THEOREM RecordsOnlyGetNewer == Spec => NewestKept
<1>1. Init => Sound /\ SkipInv
  BY InitSound, InitSkips
<1>2. Sound /\ SkipInv /\ [Next]_vars => Sound' /\ SkipInv'
  BY StepKeeps DEF Kept
<1>3. Spec => [](Sound /\ SkipInv)
  BY <1>1, <1>2, PTL DEF Spec
<1>4. Sound /\ SkipInv /\ [Next]_vars => [\A m \in Members :
          mem[m].kv # NoRec /\ mem'[m].kv # NoRec => mem'[m].kv.ts >= mem[m].kv.ts]_vars
  BY StepKeeps DEF Kept, Newer
<1>5. QED
  BY <1>3, <1>4, PTL DEF Spec, NewestKept

\* "Samples are idempotent on the receiver, so resends are harmless": for any
\* members, tasks, limits, losses, late requests and restarts, and with the
\* tasks of a member between any two of their steps, no version of a second is
\* queued twice, so every echo ends, when what is reported of one second agrees.
THEOREM EchoesEnd ==
    ASSUME \A u, w \in Vals : u = w
    PROVE  Spec => []AcceptedOnce
<1>1. Agree
  BY DEF Agree
<1>2. Init => Sound /\ SkipInv /\ OnceInv
  BY InitSound, InitSkips, InitOnce
<1>3. Sound /\ SkipInv /\ [Next]_vars => Sound' /\ SkipInv'
  BY StepKeeps DEF Kept
<1>4. Sound /\ OnceInv /\ [Next]_vars => OnceInv'
  BY <1>1, OnceStep
<1>5. Spec => [](Sound /\ SkipInv /\ OnceInv)
  BY <1>2, <1>3, <1>4, PTL DEF Spec
<1>6. QED
  BY <1>5, OnceAccepts, PTL
=============================================================================
