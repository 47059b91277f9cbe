--------------------------- MODULE ClassifierProofs ---------------------------
(***************************************************************************)
(* Proofs about Classifier, for every set of links, thresholds, horizons   *)
(* and passes: hysteresis neither lets a single sample re-route nor blocks *)
(* a class that is confirmed, and a class improves only on a measurement.  *)
(***************************************************************************)
EXTENDS Classifier, FiniteSetTheorems, TLAPS

-----------------------------------------------------------------------------
(* The inductive invariant.                                                *)

\* The hysteresis and its history agree: a link that was never classified has none,
\* a link whose latest candidate is its class confirms nothing, and any other link
\* confirms its latest candidate, with exactly the stamps that were counted.
Tracked(l) ==
    /\ last[l] = NoQuality => streak[l] = NoPending
    /\ pending[l] = IF streak[l].quality = last[l] THEN NoPending ELSE streak[l]

ClassifyInv == TypeOK /\ Prompt /\ \A l \in Links : Tracked(l)

-----------------------------------------------------------------------------
(* The extrema of a finite set.                                            *)

\* A finite set of integers that is not empty has a greatest and a least element:
\* a smallest set without one would not be without one.
Bounded(S) == /\ \E x \in S : \A y \in S : x >= y
              /\ \E x \in S : \A y \in S : x <= y

LEMMA HasBounds ==
    ASSUME NEW S, IsFiniteSet(S), S # {}, S \subseteq Int
    PROVE  Bounded(S)
<1> DEFINE Without == {T \in FiniteSubsetsOf(S) : T # {} /\ ~Bounded(T)}
<1> SUFFICES ASSUME Without # {} PROVE FALSE
  <2>1. S \in FiniteSubsetsOf(S)
    BY DEF FiniteSubsetsOf
  <2>2. QED
    BY <2>1
<1>1. PICK T \in Without : \A U \in Without : ~(<<U, T>> \in StrictSubsetOrdering(S))
  <2>1. IsWellFoundedOn(StrictSubsetOrdering(S), FiniteSubsetsOf(S))
    BY FS_StrictSubsetOrderingWellFounded
  <2>2. QED
    BY <2>1, WFMin
<1>2. T \subseteq S /\ IsFiniteSet(T) /\ T # {} /\ ~Bounded(T)
  BY DEF FiniteSubsetsOf
<1>3. PICK x \in T : TRUE
  BY <1>2
<1>4. T \ {x} \in FiniteSubsetsOf(S)
  BY <1>2, FS_RemoveElement DEF FiniteSubsetsOf
<1>5. T \ {x} \notin Without
  BY <1>1, <1>2, <1>3 DEF StrictSubsetOrdering
<1>T. x \in Int /\ \A y \in T : y \in Int
  BY <1>2, <1>3
<1>6. CASE T \ {x} = {}
  <2>1. \A y \in T : y = x
    BY <1>6
  <2>2. QED
    BY <1>2, <1>3, <1>T, <2>1 DEF Bounded
<1>7. CASE T \ {x} # {}
  <2>1. Bounded(T \ {x})
    BY <1>4, <1>5, <1>7
  <2>2. PICK m \in T \ {x} : \A y \in T \ {x} : m >= y
    BY <2>1 DEF Bounded
  <2>3. PICK k \in T \ {x} : \A y \in T \ {x} : k <= y
    BY <2>1 DEF Bounded
  <2>4. \E z \in T : \A y \in T : z >= y
    <3>1. CASE m >= x
      BY <1>T, <2>2, <3>1
    <3>2. CASE ~(m >= x)
      <4>1. \A y \in T : x >= y
        BY <1>T, <2>2, <3>2
      <4>2. QED
        BY <1>3, <4>1
    <3>3. QED
      BY <3>1, <3>2
  <2>5. \E z \in T : \A y \in T : z <= y
    <3>1. CASE k <= x
      BY <1>T, <2>3, <3>1
    <3>2. CASE ~(k <= x)
      <4>1. \A y \in T : x <= y
        BY <1>T, <2>3, <3>2
      <4>2. QED
        BY <1>3, <4>1
    <3>3. QED
      BY <3>1, <3>2
  <2>6. QED
    BY <1>2, <2>4, <2>5 DEF Bounded
<1>8. QED
  BY <1>6, <1>7

\* Max and Min are in their set, at its ends.
LEMMA Extrema ==
    ASSUME NEW S, IsFiniteSet(S), S # {}, S \subseteq Int
    PROVE  /\ Max(S) \in S /\ \A y \in S : Max(S) >= y
           /\ Min(S) \in S /\ \A y \in S : Min(S) <= y
BY HasBounds DEF Bounded, Max, Min

\* The greater and the smaller of two numbers.
LEMMA ExtremaOfTwo ==
    ASSUME NEW x \in Int, NEW y \in Int
    PROVE  /\ Max({x, y}) = IF x >= y THEN x ELSE y
           /\ Min({x, y}) = IF x <= y THEN x ELSE y
<1>1. IsFiniteSet({x, y})
  <2>1. IsFiniteSet({x})
    BY FS_Singleton
  <2>2. IsFiniteSet({x} \cup {y})
    BY <2>1, FS_AddElement
  <2>3. {x, y} = {x} \cup {y}
    OBVIOUS
  <2>4. QED
    BY <2>2, <2>3
<1>2. /\ Max({x, y}) \in {x, y} /\ Max({x, y}) >= x /\ Max({x, y}) >= y
      /\ Min({x, y}) \in {x, y} /\ Min({x, y}) <= x /\ Min({x, y}) <= y
  BY <1>1, Extrema
<1>3. QED
  BY <1>2

-----------------------------------------------------------------------------
(* The operators of a pass.                                                *)

\* Every set of ages, or of classes, has its extrema.
LEMMA IntervalExtrema ==
    ASSUME NEW n \in Nat, NEW S \in SUBSET (0..n), S # {}
    PROVE  /\ Max(S) \in S /\ \A y \in S : Max(S) >= y
           /\ Min(S) \in S /\ \A y \in S : Min(S) <= y
<1>1. IsFiniteSet(0..n)
  BY FS_Interval
<1>2. IsFiniteSet(S)
  BY <1>1, FS_Subset
<1>3. S \subseteq Int
  OBVIOUS
<1>4. QED
  BY <1>2, <1>3, Extrema

\* A score is a class, whatever is measured and however thresholds are set.
LEMMA Scores ==
    ASSUME NEW m, NEW bound
    PROVE  ScoreUpper(m, bound) \in Quality /\ ScoreLower(m, bound) \in Quality
<1>1. ASSUME NEW S \in SUBSET (1..4) PROVE Min({3, Max({0} \cup S)}) \in Quality
  <2>1. {0} \cup S \in SUBSET (0..4) /\ {0} \cup S # {}
    OBVIOUS
  <2>2. Max({0} \cup S) \in {0} \cup S
    BY <2>1, IntervalExtrema
  <2>3. Max({0} \cup S) \in 0..4
    BY <2>1, <2>2
  <2>4. QED
    BY <2>3, ExtremaOfTwo DEF Quality
<1>2. {i \in 1..4 : bound[i] # NoMetric /\ m > bound[i]} \in SUBSET (1..4)
  OBVIOUS
<1>3. {i \in 1..4 : bound[i] # NoMetric /\ m < bound[i]} \in SUBSET (1..4)
  OBVIOUS
<1>4. QED
  BY <1>1, <1>2, <1>3 DEF ScoreUpper, ScoreLower

\* classify_window gives a class, no better than the one rtt allows.
LEMMA Classes ==
    ASSUME NEW view
    PROVE  /\ ClassifyWindow(view) \in Quality
           /\ view.rtt # NoMetric => ScoreUpper(view.rtt, RttBound) <= ClassifyWindow(view)
<1> DEFINE scores == {0} \cup {ScoreUpper(m, RttBound) : m \in {view.rtt} \ {NoMetric}}
                         \cup {ScoreLower(m, TcpBound) : m \in {view.tcp} \ {NoMetric}}
<1>1. scores \in SUBSET (0..3) /\ scores # {}
  BY Scores DEF Quality
<1>2. Max(scores) \in scores /\ \A y \in scores : Max(scores) >= y
  BY <1>1, IntervalExtrema
<1>3. ClassifyWindow(view) = Max(scores)
  BY DEF ClassifyWindow
<1>4. ASSUME view.rtt # NoMetric PROVE ScoreUpper(view.rtt, RttBound) \in scores
  BY <1>4
<1>I. \A y \in scores : y \in Int
  BY <1>1
<1> HIDE DEF scores
<1>5. ASSUME view.rtt # NoMetric PROVE ScoreUpper(view.rtt, RttBound) <= ClassifyWindow(view)
  <2>1. ScoreUpper(view.rtt, RttBound) \in scores
    BY <1>4, <1>5
  <2>2. ScoreUpper(view.rtt, RttBound) \in Int /\ Max(scores) \in Int
    BY <1>2, <1>I, <2>1
  <2>3. QED
    BY <1>2, <1>3, <2>1, <2>2
<1>6. QED
  BY <1>1, <1>2, <1>3, <1>5 DEF Quality

\* A link with samples has a window as old as one of them.
LEMMA WindowAge ==
    ASSUME NEW l \in Known
    PROVE  Window(l).age \in Ages
<1>1. Sampled(l) \in SUBSET Ages /\ Sampled(l) # {}
  BY DEF Known, Sampled
<1>2. Min(Sampled(l)) \in Sampled(l)
  BY <1>1, IntervalExtrema, ClassifierAssumption DEF Ages
<1>3. Window(l).age = Min(Sampled(l))
  BY DEF Window
<1>4. QED
  BY <1>1, <1>2, <1>3

\* The rtt of a window was measured by a sample that is fresh.
LEMMA FreshRtt ==
    ASSUME NEW l \in Links, Window(l).rtt # NoMetric
    PROVE  \E a \in 0..AlwaysFresh : a \in Ages /\ ring[l][a].rtt = Window(l).rtt
<1> DEFINE with == {a \in Sampled(l) : a <= AlwaysFresh /\ ring[l][a]["rtt"] # NoMetric}
<1>1. Window(l).rtt = Freshest(l, "rtt", AlwaysFresh)
  BY DEF Window
<1>2. with # {} /\ Freshest(l, "rtt", AlwaysFresh) = ring[l][Min(with)]["rtt"]
  BY <1>1 DEF Freshest
<1>3. with \in SUBSET (0..TcpCarry)
  BY DEF Sampled, Ages
<1>4. Min(with) \in with
  BY <1>2, <1>3, IntervalExtrema, ClassifierAssumption
<1>5. Min(with) \in Ages /\ Min(with) \in 0..AlwaysFresh
  BY <1>4, ClassifierAssumption DEF Sampled, Ages
<1>6. QED
  BY <1>1, <1>2, <1>5

\* The class view of a link that a pass classifies rests on an rtt that one of the
\* tunnel's halves measured and that is fresh.
LEMMA MeasuredHalf ==
    ASSUME TypeOK, NEW l \in Links, l \in Known, ClassView(l).rtt # NoMetric
    PROVE  \E h \in Links, a \in 0..AlwaysFresh :
              /\ h = l \/ (h.from = l.to /\ h.to = l.from)
              /\ ring[h][a].rtt = ClassView(l).rtt
<1>I. ASSUME NEW h \in Links, Window(h).rtt # NoMetric PROVE Window(h).rtt \in Int
  <2>1. PICK a \in 0..AlwaysFresh : a \in Ages /\ ring[h][a].rtt = Window(h).rtt
    BY <1>I, FreshRtt
  <2>2. ring[h][a] \in Sample \cup {NoSample}
    BY <2>1 DEF TypeOK
  <2>3. ring[h][a].rtt \in Metric
    BY <2>2 DEF Sample, NoSample, Metric
  <2>4. Metric \subseteq Int
    BY ClassifierAssumption DEF Metric, NoMetric
  <2>5. QED
    BY <2>1, <2>3, <2>4
<1>1. CASE ~(PairCost # "off" /\ Paired(l))
  <2>1. ClassView(l) = Window(l)
    BY <1>1 DEF ClassView
  <2>2. QED
    BY <2>1, FreshRtt
<1>2. CASE PairCost # "off" /\ Paired(l)
  <2> DEFINE r == Reverse(l)
  <2>1. r \in Between(l.to, l.from)
    <3>1. Cardinality(Between(l.to, l.from)) = 1
      BY <1>2 DEF Paired
    <3>2. Between(l.to, l.from) # {}
      BY <3>1, FS_EmptySet
    <3>3. QED
      BY <3>2 DEF Reverse
  <2>2. r \in Links /\ r.from = l.to /\ r.to = l.from
    BY <2>1 DEF Between, Known
  <2>3. ClassView(l).rtt = WorseUpper(Window(l).rtt, Window(r).rtt)
    BY <1>2 DEF ClassView, MergePair, Window
  <2>4. \E h \in {l, r} : Window(h).rtt # NoMetric /\ Window(h).rtt = ClassView(l).rtt
    <3>1. CASE Window(l).rtt = NoMetric
      BY <2>3, <3>1 DEF WorseUpper
    <3>2. CASE Window(l).rtt # NoMetric /\ Window(r).rtt = NoMetric
      BY <2>3, <3>2 DEF WorseUpper
    <3>3. CASE Window(l).rtt # NoMetric /\ Window(r).rtt # NoMetric
      <4>1. Window(l).rtt \in Int /\ Window(r).rtt \in Int
        BY <1>I, <2>2, <3>3
      <4>2. ClassView(l).rtt \in {Window(l).rtt, Window(r).rtt}
        BY <2>3, <3>3, <4>1, ExtremaOfTwo DEF WorseUpper
      <4>3. QED
        BY <3>3, <4>2
    <3>4. QED
      BY <3>1, <3>2, <3>3
  <2>5. QED
    BY <2>2, <2>4, FreshRtt
<1>3. QED
  BY <1>1, <1>2

-----------------------------------------------------------------------------
(* Types.                                                                  *)

LEMMA MinOfTwo == \A x, y \in Nat : Min({x, y}) \in Nat
BY ExtremaOfTwo

LEMMA CandidateClass ==
    ASSUME NEW l \in Links
    PROVE  Candidate(l) \in Quality
BY Classes DEF Candidate

\* The confirmation that a pass leaves is one.
LEMMA CountType ==
    ASSUME NEW p \in Pending \cup {NoPending}, NEW c \in Quality, NEW age \in Ages
    PROVE  CountStamp(p, c, age) \in Pending
<1> DEFINE entry == IF p.quality = c THEN p ELSE [quality |-> c, passes |-> 0, age |-> TcpCarry + 1]
<1>1. TcpCarry + 1 \in 0..(TcpCarry + 1) /\ age \in 0..(TcpCarry + 1)
  BY ClassifierAssumption DEF Ages
<1>2. entry \in Pending
  <2>1. CASE p.quality = c
    BY <2>1 DEF Pending, NoPending, Quality, NoQuality
  <2>2. CASE p.quality # c
    BY <1>1, <2>2 DEF Pending
  <2>3. QED
    BY <2>1, <2>2
<1>3. CountStamp(p, c, age) = IF entry.age = age THEN entry ELSE [entry EXCEPT !.passes = @ + 1, !.age = age]
  BY DEF CountStamp
<1> HIDE DEF entry
<1>4. [entry EXCEPT !.passes = @ + 1, !.age = age] \in Pending
  <2>1. entry.passes + 1 \in Nat
    BY <1>2 DEF Pending
  <2>2. QED
    BY <1>1, <1>2, <2>1 DEF Pending
<1>5. QED
  BY <1>2, <1>3, <1>4

\* So is the history's.
LEMMA ObservedType ==
    ASSUME NEW s \in Pending \cup {NoPending}, NEW c \in Quality, NEW age \in Ages
    PROVE  Observed(s, c, age) \in Pending
<1>1. age \in 0..(TcpCarry + 1) /\ HysteresisPasses \in Nat /\ s.passes \in Nat
  BY ClassifierAssumption DEF Ages, Pending, NoPending
<1>2. Min({s.passes + 1, HysteresisPasses}) \in Nat
  BY <1>1, MinOfTwo
<1>3. QED
  BY <1>1, <1>2 DEF Observed, Pending

LEMMA OlderType ==
    ASSUME NEW p \in Pending \cup {NoPending}
    PROVE  Older(p) \in Pending \cup {NoPending}
<1>1. CASE p.age > TcpCarry
  BY <1>1 DEF Older
<1>2. CASE ~(p.age > TcpCarry)
  <2>1. p \in Pending
    BY <1>2, ClassifierAssumption DEF NoPending
  <2>2. p.age + 1 \in 0..(TcpCarry + 1)
    BY <1>2, <2>1, ClassifierAssumption DEF Pending
  <2>3. QED
    BY <1>2, <2>1, <2>2 DEF Older, Pending
<1>3. QED
  BY <1>1, <1>2

\* The cost of a class is a number.
LEMMA CostType ==
    ASSUME NEW l, NEW q \in Quality
    PROVE  PolicyCost(l, q) \in Nat
<1>1. ClassCost[q] \in Nat /\ HubSpokeOffset \in Nat /\ MAXCOST \in Nat
  BY ClassifierAssumption
<1>2. Min({MAXCOST, ClassCost[q] + HubSpokeOffset}) \in Nat
  BY <1>1, MinOfTwo
<1>3. QED
  BY <1>1, <1>2 DEF PolicyCost

LEMMA InitClassify == Init => ClassifyInv
<1> SUFFICES ASSUME Init PROVE ClassifyInv
  OBVIOUS
<1>1. TypeOK
  <2>1. upsets \in 0..MaxUpsets
    BY ClassifierAssumption DEF Init
  <2>2. kv \in [Links -> Derived]
    BY DEF Init, Derived, NoRecord, Quality, NoQuality
  <2>3. QED
    BY <2>1, <2>2 DEF Init, TypeOK
<1>2. \A l \in Links : last[l] = NoQuality /\ pending[l] = NoPending /\ streak[l] = NoPending
  BY DEF Init
<1>3. QED
  BY <1>1, <1>2 DEF ClassifyInv, Prompt, Tracked, NoPending

\* The first stamp that is counted for a candidate.
LEMMA FirstStamp ==
    ASSUME NEW p \in Pending, p.passes = 0, NEW age,
           NEW q, q = [p EXCEPT !.passes = @ + 1, !.age = age]
    PROVE  q = [quality |-> p.quality, passes |-> 1, age |-> age]
<1>1. q = [quality |-> p.quality, passes |-> p.passes + 1, age |-> age]
  BY DEF Pending
<1>2. p.passes + 1 = 1
  OBVIOUS
<1>3. QED
  BY <1>1, <1>2

\* The class and the confirmation of a link after a pass that classifies it, and how
\* they agree with the history.
LEMMA Judged ==
    ASSUME ClassifyInv, NEW l \in Links, l \in Classified
    PROVE  /\ Judge(l).class \in Quality /\ Judge(l).class \in {last[l], Candidate(l)}
           /\ Judge(l).pending \in Pending \cup {NoPending}
           /\ LET s == Observed(streak[l], Candidate(l), Window(l).age)
              IN  /\ s.quality = Candidate(l)
                  /\ Judge(l).pending = IF s.quality = Judge(l).class THEN NoPending ELSE s
                  /\ s.passes >= HysteresisPasses => Judge(l).class = s.quality
                  /\ last[l] # NoQuality /\ Judge(l).class # last[l] => s.passes >= HysteresisPasses
<1> DEFINE c == Candidate(l)
           age == Window(l).age
           entry == CountStamp(pending[l], c, age)
           s == Observed(streak[l], c, age)
<1>T. /\ pending[l] \in Pending \cup {NoPending} /\ streak[l] \in Pending \cup {NoPending}
      /\ last[l] \in Quality \cup {NoQuality} /\ Tracked(l)
      /\ streak[l].passes >= HysteresisPasses => last[l] = streak[l].quality
  BY DEF ClassifyInv, TypeOK, Prompt
<1>C. c \in Quality /\ c # NoQuality
  BY CandidateClass DEF Quality, NoQuality
<1>A. age \in Ages
  BY WindowAge DEF Classified
<1>E. entry \in Pending /\ s \in Pending
  BY <1>T, <1>C, <1>A, CountType, ObservedType
<1>N. HysteresisPasses \in Nat /\ streak[l].passes \in Nat /\ entry.passes \in Nat /\ s.passes \in Nat
  BY <1>T, <1>E, ClassifierAssumption DEF Pending, NoPending
<1>M. Max({HysteresisPasses, 1}) = IF HysteresisPasses >= 1 THEN HysteresisPasses ELSE 1
  BY <1>N, ExtremaOfTwo
<1>J. Judge(l) = IF last[l] = NoQuality THEN [class |-> c, pending |-> pending[l]]
                 ELSE IF last[l] = c \/ Confirmed(entry) THEN [class |-> c, pending |-> NoPending]
                 ELSE [class |-> last[l], pending |-> entry]
  BY DEF Judge
<1>Q. s.quality = c
  BY DEF Observed
<1>1. CASE last[l] = NoQuality
  <2>1. pending[l] = NoPending
    BY <1>T, <1>1 DEF Tracked, NoPending
  <2>2. QED
    BY <1>C, <1>J, <1>Q, <1>1, <2>1
<1>2. CASE last[l] = c
  BY <1>C, <1>J, <1>Q, <1>2
<1>3. CASE last[l] # NoQuality /\ last[l] # c
  <2>1. CASE streak[l].quality = c
    <3>1. pending[l] = streak[l] /\ streak[l] \in Pending /\ streak[l].passes < HysteresisPasses
      BY <1>T, <1>C, <1>N, <1>3, <2>1 DEF Tracked, NoPending
    <3>2. CASE streak[l].age = age
      <4>1. entry = streak[l]
        BY <2>1, <3>1, <3>2 DEF CountStamp
      <4>2. s = streak[l]
        BY <2>1, <3>1, <3>2 DEF Observed, Pending
      <4>3. ~Confirmed(entry)
        BY <1>N, <1>M, <3>1, <4>1 DEF Confirmed
      <4>4. QED
        BY <1>T, <1>J, <1>Q, <1>3, <1>E, <1>N, <3>1, <4>1, <4>2, <4>3
    <3>3. CASE streak[l].age # age
      <4>1. entry = [streak[l] EXCEPT !.passes = @ + 1, !.age = age]
        BY <2>1, <3>1, <3>3 DEF CountStamp
      <4>2. entry = [quality |-> c, passes |-> streak[l].passes + 1, age |-> age]
        BY <2>1, <3>1, <4>1 DEF Pending
      <4>3. s.passes = Min({streak[l].passes + 1, HysteresisPasses})
        BY <2>1, <3>3 DEF Observed
      <4>4. streak[l].passes + 1 \in Int /\ streak[l].passes + 1 <= HysteresisPasses
        BY <1>N, <3>1
      <4>5. s.passes = streak[l].passes + 1
        <5>1. ASSUME NEW n \in Int, n <= HysteresisPasses PROVE Min({n, HysteresisPasses}) = n
          <6>1. HysteresisPasses \in Int
            BY <1>N
          <6>2. Min({n, HysteresisPasses}) = IF n <= HysteresisPasses THEN n ELSE HysteresisPasses
            BY <6>1, ExtremaOfTwo
          <6>3. QED
            BY <5>1, <6>2
        <5>2. QED
          BY <4>3, <4>4, <5>1
      <4>6. s = entry
        BY <1>E, <4>2, <4>5 DEF Observed, Pending
      <4>7. Confirmed(entry) <=> s.passes >= HysteresisPasses
        BY <1>N, <1>M, <4>5, <4>6 DEF Confirmed
      <4>8. QED
        BY <1>T, <1>C, <1>J, <1>Q, <1>3, <1>E, <4>6, <4>7
    <3>4. QED
      BY <3>2, <3>3
  <2>2. CASE streak[l].quality # c
    <3>1. pending[l].quality # c
      BY <1>T, <1>C, <2>2 DEF Tracked, NoPending
    <3>2. age # TcpCarry + 1
      BY <1>A, ClassifierAssumption DEF Ages
    <3>3. entry = [quality |-> c, passes |-> 1, age |-> age]
      <4> DEFINE fresh == [quality |-> c, passes |-> 0, age |-> TcpCarry + 1]
      <4>1. entry = IF fresh.age = age THEN fresh ELSE [fresh EXCEPT !.passes = @ + 1, !.age = age]
        BY <3>1 DEF CountStamp
      <4>2. [fresh EXCEPT !.passes = @ + 1, !.age = age] = [quality |-> c, passes |-> 1, age |-> age]
        <5>1. fresh \in Pending
          BY <1>C, ClassifierAssumption DEF Pending
        <5>2. QED
          BY <5>1, FirstStamp
      <4>3. QED
        BY <3>2, <4>1, <4>2
    <3>4. s = [quality |-> c, passes |-> 1, age |-> age]
      BY <2>2 DEF Observed
    <3>5. Confirmed(entry) <=> s.passes >= HysteresisPasses
      BY <1>N, <1>M, <3>3, <3>4 DEF Confirmed
    <3>6. QED
      BY <1>T, <1>C, <1>J, <1>Q, <1>3, <1>E, <3>3, <3>4, <3>5
  <2>3. QED
    BY <2>1, <2>2
<1>4. QED
  BY <1>1, <1>2, <1>3

-----------------------------------------------------------------------------
(* A pass, a report, the clock and the faults.                             *)

\* The clock ages a confirmation and its history alike.
LEMMA OlderTracks ==
    ASSUME NEW p \in Pending \cup {NoPending}
    PROVE  Older(p).quality = p.quality /\ Older(p).passes = p.passes
BY DEF Older, Pending, NoPending

LEMMA OlderNone == Older(NoPending) = NoPending
BY ClassifierAssumption DEF Older, NoPending

\* A pass keeps the invariant.
LEMMA PassClassify ==
    ASSUME ClassifyInv, ClassifyOnce
    PROVE  ClassifyInv'
<1>T. TypeOK /\ Prompt /\ \A l \in Links : Tracked(l)
  BY DEF ClassifyInv
<1>J. ASSUME NEW l \in Links, l \in Classified
      PROVE  /\ last'[l] = Judge(l).class /\ pending'[l] = Judge(l).pending
             /\ streak'[l] = Observed(streak[l], Candidate(l), Window(l).age)
  BY <1>J DEF ClassifyOnce
<1>H. ASSUME NEW l \in Links, l \notin Classified
      PROVE  last'[l] = last[l] /\ pending'[l] = pending[l] /\ streak'[l] = streak[l]
  BY <1>H DEF ClassifyOnce
<1>1. ASSUME NEW l \in Links
      PROVE  /\ last'[l] \in Quality \cup {NoQuality}
             /\ pending'[l] \in Pending \cup {NoPending}
             /\ streak'[l] \in Pending \cup {NoPending}
  <2>1. CASE l \in Classified
    <3>1. Window(l).age \in Ages
      BY <2>1, WindowAge DEF Classified
    <3>2. streak'[l] \in Pending
      <4>1. streak[l] \in Pending \cup {NoPending} /\ Candidate(l) \in Quality
        BY <1>T, CandidateClass DEF TypeOK
      <4>2. QED
        BY <1>J, <2>1, <3>1, <4>1, ObservedType
    <3>3. QED
      BY <1>J, <2>1, <3>2, Judged
  <2>2. CASE l \notin Classified
    BY <1>T, <1>H, <2>2 DEF TypeOK
  <2>3. QED
    BY <2>1, <2>2
<1>2. ASSUME NEW l \in Links PROVE kv'[l] \in Derived
  <2>1. CASE l \in owned \cap Known
    <3>1. kv'[l] = [quality |-> last'[l],
                    cost |-> IF last'[l] = NoQuality THEN 0 ELSE PolicyCost(l, last'[l])]
      BY <2>1 DEF ClassifyOnce
    <3>2. last'[l] # NoQuality => PolicyCost(l, last'[l]) \in Nat
      BY <1>1, CostType
    <3>3. QED
      BY <1>1, <3>1, <3>2 DEF Derived
  <2>2. CASE l \notin owned \cap Known
    BY <1>T, <2>2 DEF ClassifyOnce, TypeOK
  <2>3. QED
    BY <2>1, <2>2
<1>3. TypeOK'
  <2>1. /\ last' = [l \in Links |-> last'[l]] /\ pending' = [l \in Links |-> pending'[l]]
        /\ streak' = [l \in Links |-> streak'[l]] /\ kv' = [l \in Links |-> kv'[l]]
    BY DEF ClassifyOnce
  <2>2. /\ last' \in [Links -> Quality \cup {NoQuality}]
        /\ pending' \in [Links -> Pending \cup {NoPending}]
        /\ streak' \in [Links -> Pending \cup {NoPending}]
    BY <1>1, <2>1
  <2>3. kv' \in [Links -> Derived]
    BY <1>2, <2>1
  <2>4. QED
    BY <1>T, <2>2, <2>3 DEF TypeOK, ClassifyOnce
<1>4. ASSUME NEW l \in Links
      PROVE  /\ last'[l] = NoQuality => streak'[l] = NoPending
             /\ pending'[l] = IF streak'[l].quality = last'[l] THEN NoPending ELSE streak'[l]
             /\ streak'[l].passes >= HysteresisPasses => last'[l] = streak'[l].quality
  <2>1. CASE l \in Classified
    <3>1. last'[l] # NoQuality
      BY <1>J, <2>1, Judged DEF Quality, NoQuality
    <3>2. QED
      BY <1>J, <2>1, <3>1, Judged
  <2>2. CASE l \notin Classified
    BY <1>T, <1>H, <2>2 DEF Tracked, Prompt
  <2>3. QED
    BY <2>1, <2>2
<1>5. QED
  BY <1>3, <1>4 DEF ClassifyInv, Prompt, Tracked

\* So does every other step.
LEMMA StepClassify == ClassifyInv /\ [Next]_vars => ClassifyInv'
<1> SUFFICES ASSUME ClassifyInv, [Next]_vars PROVE ClassifyInv'
  OBVIOUS
<1>T. TypeOK /\ Prompt /\ \A l \in Links : Tracked(l)
  BY DEF ClassifyInv
<1>S. ASSUME UNCHANGED <<last, pending, streak>>, TypeOK' PROVE ClassifyInv'
  BY <1>T, <1>S DEF ClassifyInv, Prompt, Tracked
<1>1. CASE ClassifyOnce
  BY <1>1, PassClassify
<1>2. ASSUME NEW r \in Reports, Report(r[1], r[2], r[3]) PROVE ClassifyInv'
  <2>1. r[1] \in Links /\ r[2] \in Sample /\ r[3] \in Ages
    BY ClassifierAssumption
  <2>2. ring' \in [Links -> [Ages -> Sample \cup {NoSample}]]
    BY <1>T, <1>2, <2>1 DEF Report, TypeOK
  <2>3. TypeOK'
    BY <1>T, <1>2, <2>2 DEF Report, TypeOK
  <2>4. QED
    BY <1>2, <1>S, <2>3 DEF Report
<1>3. CASE Tick
  <2>1. \A l \in Links : pending'[l] = Older(pending[l]) /\ streak'[l] = Older(streak[l]) /\ last'[l] = last[l]
    BY <1>3 DEF Tick
  <2>2. ring' \in [Links -> [Ages -> Sample \cup {NoSample}]]
    <3>1. \A a \in Ages : a # 0 => a - 1 \in Ages
      BY ClassifierAssumption DEF Ages
    <3>2. QED
      BY <1>T, <1>3, <3>1 DEF Tick, TypeOK
  <2>3. TypeOK'
    <3>1. /\ pending' \in [Links -> Pending \cup {NoPending}]
          /\ streak' \in [Links -> Pending \cup {NoPending}]
      BY <1>T, <1>3, OlderType DEF Tick, TypeOK
    <3>2. QED
      BY <1>T, <1>3, <2>2, <3>1 DEF Tick, TypeOK
  <2>4. ASSUME NEW l \in Links
        PROVE  /\ last'[l] = NoQuality => streak'[l] = NoPending
               /\ pending'[l] = IF streak'[l].quality = last'[l] THEN NoPending ELSE streak'[l]
               /\ streak'[l].passes >= HysteresisPasses => last'[l] = streak'[l].quality
    <3>1. streak[l] \in Pending \cup {NoPending} /\ Tracked(l)
      BY <1>T DEF TypeOK
    <3>2. streak'[l].quality = streak[l].quality /\ streak'[l].passes = streak[l].passes
      BY <2>1, <3>1, OlderTracks
    <3>3. QED
      BY <1>T, <2>1, <3>1, <3>2, OlderNone DEF Tracked, Prompt
  <2>5. QED
    BY <2>3, <2>4 DEF ClassifyInv, Prompt, Tracked
<1>4. ASSUME NEW l \in Links, Move(l) PROVE ClassifyInv'
  <2>1. upsets' \in 0..MaxUpsets /\ owned' \subseteq Links
    BY <1>T, <1>4, ClassifierAssumption DEF Move, TypeOK
  <2>2. TypeOK'
    BY <1>T, <1>4, <2>1 DEF Move, TypeOK
  <2>3. QED
    BY <1>4, <1>S, <2>2 DEF Move
<1>5. CASE Restart
  <2>1. upsets' \in 0..MaxUpsets
    BY <1>T, <1>5, ClassifierAssumption DEF Restart, TypeOK
  <2>2. kv' \in [Links -> Derived]
    BY <1>5 DEF Restart, Derived, NoRecord, Quality, NoQuality
  <2>3. TypeOK'
    BY <1>T, <1>5, <2>1, <2>2 DEF Restart, TypeOK
  <2>4. \A l \in Links : last'[l] = NoQuality /\ pending'[l] = NoPending /\ streak'[l] = NoPending
    BY <1>5 DEF Restart
  <2>5. QED
    BY <2>3, <2>4 DEF ClassifyInv, Prompt, Tracked, NoPending
<1>6. CASE UNCHANGED vars
  BY <1>T, <1>6 DEF vars, ClassifyInv, TypeOK, Prompt, Tracked
<1>7. QED
  BY <1>1, <1>2, <1>3, <1>4, <1>5, <1>6 DEF Next

-----------------------------------------------------------------------------
(* The theorems.                                                           *)

\* Only a pass that classifies a link, or a restart, changes its class.
LEMMA ClassChange ==
    ASSUME ClassifyInv, [Next]_vars, NEW l \in Links, last'[l] # last[l], last'[l] # NoQuality
    PROVE  ClassifyOnce /\ l \in Classified
<1>1. ClassifyOnce
  <2>1. \A r \in Reports : Report(r[1], r[2], r[3]) => last' = last
    BY DEF Report
  <2>2. Tick => last' = last
    BY DEF Tick
  <2>3. \A k \in Links : Move(k) => last' = last
    BY DEF Move
  <2>4. Restart => last'[l] = NoQuality
    BY DEF Restart
  <2>5. UNCHANGED vars => last' = last
    BY DEF vars
  <2>6. QED
    BY <2>1, <2>2, <2>3, <2>4, <2>5 DEF Next
<1>2. QED
  BY <1>1 DEF ClassifyOnce

\* Hysteresis never blocks: a class that was the candidate at HysteresisPasses
\* different newest samples without interruption is the link's class, for every mesh,
\* threshold and horizon.
THEOREM ClassifierPrompt == Spec => []Prompt
<1>1. ClassifyInv => Prompt
  BY DEF ClassifyInv
<1>2. QED
  BY <1>1, InitClassify, StepClassify, PTL DEF Spec

HysteresisStep ==
    \A l \in Links :
        last[l] # NoQuality /\ last'[l] # last[l] /\ last'[l] # NoQuality =>
            streak'[l].quality = last'[l] /\ streak'[l].passes >= HysteresisPasses

\* Nothing less re-routes: a class changes only to one that was the candidate at
\* HysteresisPasses different newest samples without interruption.
THEOREM ClassifierHysteresis == Spec => Hysteresis
<1>1. ClassifyInv /\ [Next]_vars => HysteresisStep
  <2> SUFFICES ASSUME ClassifyInv, [Next]_vars, NEW l \in Links,
                      last[l] # NoQuality, last'[l] # last[l], last'[l] # NoQuality
               PROVE  streak'[l].quality = last'[l] /\ streak'[l].passes >= HysteresisPasses
    BY DEF HysteresisStep
  <2>1. ClassifyOnce /\ l \in Classified
    BY ClassChange
  <2>2. /\ last'[l] = Judge(l).class
        /\ streak'[l] = Observed(streak[l], Candidate(l), Window(l).age)
    BY <2>1 DEF ClassifyOnce
  <2>3. QED
    BY <2>1, <2>2, Judged
<1>2. ClassifyInv /\ [Next]_vars => [HysteresisStep]_vars
  BY <1>1
<1>3. Spec => [][HysteresisStep]_vars
  BY <1>2, InitClassify, StepClassify, PTL DEF Spec
<1>4. QED
  BY <1>3 DEF Hysteresis, HysteresisStep

EvidenceStep ==
    \A l \in Links :
        last'[l] # NoQuality /\ last'[l] < last[l] =>
            \E h \in Links, a \in 0..AlwaysFresh :
                /\ h = l \/ (h.from = l.to /\ h.to = l.from)
                /\ ring[h][a].rtt # NoMetric
                /\ ScoreUpper(ring[h][a].rtt, RttBound) <= last'[l]

\* A class improves only on a fresh measurement of one of the tunnel's halves that
\* supports it, however links pair, hold and lose their data.
THEOREM ClassifierEvidence == Spec => RecoversOnEvidence
<1>1. ClassifyInv /\ [Next]_vars => EvidenceStep
  <2> SUFFICES ASSUME ClassifyInv, [Next]_vars, NEW l \in Links,
                      last'[l] # NoQuality, last'[l] < last[l]
               PROVE  \E h \in Links, a \in 0..AlwaysFresh :
                         /\ h = l \/ (h.from = l.to /\ h.to = l.from)
                         /\ ring[h][a].rtt # NoMetric
                         /\ ScoreUpper(ring[h][a].rtt, RttBound) <= last'[l]
    BY DEF EvidenceStep
  <2>0. TypeOK /\ TypeOK'
    BY StepClassify DEF ClassifyInv
  <2>1. last'[l] # last[l]
    <3>1. last' \in [Links -> Quality \cup {NoQuality}]
      BY <2>0 DEF TypeOK
    <3>2. last'[l] \in Quality \cup {NoQuality} /\ last'[l] < last[l]
      BY <3>1
    <3>3. last'[l] \in Int
      BY <3>2 DEF Quality, NoQuality
    <3>4. QED
      BY <3>2, <3>3
  <2>2. ClassifyOnce /\ l \in Classified
    BY <2>1, ClassChange
  <2>3. last'[l] = Judge(l).class
    BY <2>2 DEF ClassifyOnce
  <2>4. last'[l] = Candidate(l)
    BY <2>1, <2>2, <2>3, Judged
  <2>5. l \in Known /\ ClassView(l).rtt # NoMetric
    BY <2>2 DEF Classified
  <2>6. ScoreUpper(ClassView(l).rtt, RttBound) <= last'[l]
    BY <2>4, <2>5, Classes DEF Candidate
  <2>7. PICK h \in Links, a \in 0..AlwaysFresh :
              /\ h = l \/ (h.from = l.to /\ h.to = l.from)
              /\ ring[h][a].rtt = ClassView(l).rtt
    BY <2>0, <2>5, MeasuredHalf
  <2>8. QED
    BY <2>5, <2>6, <2>7
<1>2. ClassifyInv /\ [Next]_vars => [EvidenceStep]_vars
  BY <1>1
<1>3. Spec => [][EvidenceStep]_vars
  BY <1>2, InitClassify, StepClassify, PTL DEF Spec
<1>4. QED
  BY <1>3 DEF RecoversOnEvidence, EvidenceStep
=============================================================================
