------------------------------ MODULE Classifier ------------------------------
(***************************************************************************)
(* One member's policy classifier (crates/controller/src/classifier.rs):   *)
(* the window of each link's recent samples (Tsdb::window), the pairing of *)
(* a tunnel's two halves, the quality class (quality.rs), the busy and     *)
(* unknown holds, the hysteresis and the derived record.                   *)
(*                                                                         *)
(* Time stamps are kept as ages, so that time need not be bounded: a       *)
(* sample, and the stamp the hysteresis counted last, grow older with the  *)
(* clock and leave the model once no window can see them.  One always-tier *)
(* dimension (rtt) stands for rtt, loss and jitter, one throughput         *)
(* dimension (tcp) for the tcp and udp legs; the passive tier's bound is   *)
(* in Passive.                                                             *)
(***************************************************************************)
EXTENDS Integers, FiniteSets, FiniteSetsExt

CONSTANTS
    Links,          \* directed links, records [from, to, interface]
    Metrics,        \* the values a dimension measures
    RttBound,       \* RttBound[i]: upper threshold of class i, NoMetric if it pins none
    TcpBound,       \* TcpBound[i]: lower threshold of class i
    PairCost,       \* "off", "directional" or "symmetric"
    AlwaysFresh,    \* always_fresh_secs
    TcpCarry,       \* tcp_carry_secs
    BusyHold,       \* busy_hold_secs
    HysteresisPasses,
    MAXCOST,        \* u32::MAX
    ClassCost,      \* ClassCost[q]: the OSPF cost of class q
    Hubs,           \* the nodes that are members
    HubSpokeOffset, \* hub_spoke_cost_offset
    Reports,        \* the reports that come: <<link, sample, age at arrival>>
    MaxUpsets       \* bound on restarts of the member and on agents that move between members

NoMetric == -1
NoQuality == -1
Quality == 0..3            \* good, acceptable, poor, bad

Metric == Metrics \cup {NoMetric}
Ages == 0..TcpCarry

\* What a sample carries for the window.
Sample == [state : {"quiet", "busy", "conflict"}, rtt : Metric, tcp : Metric]
NoSample == [state |-> "none", rtt |-> NoMetric, tcp |-> NoMetric]

ASSUME ClassifierAssumption ==
    /\ Metrics \subseteq Nat
    /\ RttBound \in [1..4 -> Nat \cup {NoMetric}] /\ TcpBound \in [1..4 -> Nat \cup {NoMetric}]
    /\ PairCost \in {"off", "directional", "symmetric"}
    /\ AlwaysFresh \in 0..TcpCarry /\ TcpCarry \in Nat /\ BusyHold \in Nat
    /\ HysteresisPasses \in Nat
    /\ ClassCost \in [Quality -> 0..MAXCOST] /\ HubSpokeOffset \in 0..MAXCOST /\ MAXCOST \in Nat
    /\ Reports \subseteq Links \X Sample \X Ages
    /\ MaxUpsets \in Nat

\* A candidate class being confirmed; age is that of the stamp counted last.
Pending == [quality : Quality, passes : Nat, age : 0..(TcpCarry + 1)]
NoPending == [quality |-> NoQuality, passes |-> 0, age |-> TcpCarry + 1]

VARIABLES
    ring,      \* ring[l][a]: the sample of l that is a seconds old
    owned,     \* the links of the agents registered here
    last,      \* last[l]: the class derived last
    pending,   \* pending[l]: the hysteresis
    kv,        \* kv[l]: class and cost of the derived record
    upsets,
    streak     \* history: streak[l]: the latest candidate of l and how many of l's own
               \* stamps it was derived from without interruption

vars == <<ring, owned, last, pending, kv, upsets, streak>>

Derived == [quality : Quality \cup {NoQuality}, cost : Nat]
NoRecord == [quality |-> NoQuality, cost |-> 0]

TypeOK ==
    /\ ring \in [Links -> [Ages -> Sample \cup {NoSample}]]
    /\ owned \subseteq Links
    /\ last \in [Links -> Quality \cup {NoQuality}]
    /\ pending \in [Links -> Pending \cup {NoPending}]
    /\ kv \in [Links -> Derived]
    /\ upsets \in 0..MaxUpsets
    /\ streak \in [Links -> Pending \cup {NoPending}]

Init ==
    /\ ring = [l \in Links |-> [a \in Ages |-> NoSample]]
    /\ owned = Links
    /\ last = [l \in Links |-> NoQuality]
    /\ pending = [l \in Links |-> NoPending]
    /\ kv = [l \in Links |-> NoRecord]
    /\ upsets = 0
    /\ streak = [l \in Links |-> NoPending]

-----------------------------------------------------------------------------
\* quality.rs

ScoreUpper(m, bound) == Min({3, Max({0} \cup {i \in 1..4 : bound[i] # NoMetric /\ m > bound[i]})})
ScoreLower(m, bound) == Min({3, Max({0} \cup {i \in 1..4 : bound[i] # NoMetric /\ m < bound[i]})})

\* classify_window: the worst dimension; an unset one does not constrain.
ClassifyWindow(view) ==
    Max({0} \cup {ScoreUpper(m, RttBound) : m \in {view.rtt} \ {NoMetric}}
            \cup {ScoreLower(m, TcpBound) : m \in {view.tcp} \ {NoMetric}})

\* policy_cost: the class cost, plus the offset from a member to a non-member.
PolicyCost(l, q) ==
    IF l.from \in Hubs /\ l.to \notin Hubs
    THEN Min({MAXCOST, ClassCost[q] + HubSpokeOffset})
    ELSE ClassCost[q]

-----------------------------------------------------------------------------
\* Tsdb::window

Sampled(l) == {a \in Ages : ring[l][a] # NoSample}

\* The freshest value of dimension d within a horizon.
Freshest(l, d, horizon) ==
    LET with == {a \in Sampled(l) : a <= horizon /\ ring[l][a][d] # NoMetric}
    IN  IF with = {} THEN NoMetric ELSE ring[l][Min(with)][d]

\* The newest sample anchors age and state; the link has a window when it has a sample.
Window(l) ==
    LET newest == Min(Sampled(l))
    IN  [age |-> newest, state |-> ring[l][newest].state,
         rtt |-> Freshest(l, "rtt", AlwaysFresh), tcp |-> Freshest(l, "tcp", TcpCarry)]

\* links(): the store's links; pair_links(): the reverse half, when each direction has one.
Known == {l \in Links : Sampled(l) # {}}
Between(x, y) == {l \in Known : l.from = x /\ l.to = y}
Paired(l) ==
    /\ l.from # l.to
    /\ Cardinality(Between(l.from, l.to)) = 1
    /\ Cardinality(Between(l.to, l.from)) = 1
Reverse(l) == CHOOSE r \in Between(l.to, l.from) : TRUE

WorseUpper(x, y) == IF x = NoMetric THEN y ELSE IF y = NoMetric THEN x ELSE Max({x, y})
WorseLower(x, y) == IF x = NoMetric THEN y ELSE IF y = NoMetric THEN x ELSE Min({x, y})

\* merge_pair: age and state stay the link's own.
MergePair(own, rev) ==
    [own EXCEPT !.rtt = WorseUpper(own.rtt, rev.rtt),
                !.tcp = IF PairCost = "symmetric" THEN WorseLower(own.tcp, rev.tcp) ELSE own.tcp]

\* The view a link is classified from.
ClassView(l) ==
    IF PairCost # "off" /\ Paired(l) THEN MergePair(Window(l), Window(Reverse(l))) ELSE Window(l)

-----------------------------------------------------------------------------
\* classify_once

\* A link in use keeps its class while its newest sample is young.
BusyNow(l) == Window(l).state \in {"busy", "conflict"} /\ Window(l).age < BusyHold

ClassifiedBlind == {l \in owned \cap Known : ~BusyNow(l)}     \* mutant: classifies an unmeasured window

\* The links a pass classifies; the other known links of this member are held.
Classified == {l \in owned \cap Known : ~BusyNow(l) /\ ClassView(l).rtt # NoMetric}

Candidate(l) == ClassifyWindow(ClassView(l))

CountStampEvery(p, c, age) ==      \* mutant: every pass counts
    [quality |-> c, age |-> age, passes |-> IF p.quality = c THEN p.passes + 1 ELSE 1]

\* The confirmation of candidate c: another candidate starts it over, and a pass
\* that sees the same newest sample does not count.
CountStamp(p, c, age) ==
    LET entry == IF p.quality = c THEN p ELSE [quality |-> c, passes |-> 0, age |-> TcpCarry + 1]
    IN  IF entry.age = age THEN entry ELSE [entry EXCEPT !.passes = @ + 1, !.age = age]

ConfirmedLate(p) == p.passes > Max({HysteresisPasses, 1})     \* mutant: off by one

Confirmed(p) == p.passes >= Max({HysteresisPasses, 1})

\* The class and the confirmation a pass leaves.
Judge(l) ==
    LET c == Candidate(l)
        entry == CountStamp(pending[l], c, Window(l).age)
    IN  IF last[l] = NoQuality THEN [class |-> c, pending |-> pending[l]]
        ELSE IF last[l] = c \/ Confirmed(entry) THEN [class |-> c, pending |-> NoPending]
        ELSE [class |-> last[l], pending |-> entry]

\* History: candidate c was derived while the newest sample was that old.
Observed(s, c, age) ==
    [quality |-> c, age |-> age,
     passes |-> IF s.quality # c THEN 1
                ELSE IF s.age = age THEN s.passes
                ELSE Min({s.passes + 1, HysteresisPasses})]

\* One pass over the links owned here; a held link keeps its class in its record.
ClassifyOnce ==
    /\ last' = [l \in Links |-> IF l \in Classified THEN Judge(l).class ELSE last[l]]
    /\ pending' = [l \in Links |-> IF l \in Classified THEN Judge(l).pending ELSE pending[l]]
    /\ kv' = [l \in Links |->
                IF l \in owned \cap Known
                THEN [quality |-> last'[l], cost |-> IF last'[l] = NoQuality THEN 0 ELSE PolicyCost(l, last'[l])]
                ELSE kv[l]]
    /\ streak' = [l \in Links |->
                    IF l \in Classified
                    THEN Observed(streak[l], Candidate(l), Window(l).age) ELSE streak[l]]
    /\ UNCHANGED <<ring, owned, upsets>>

-----------------------------------------------------------------------------
\* The samples, the clock and the faults.

\* A sample reaches the store, now or late (by replication).
Report(l, s, age) ==
    /\ ring[l][age] = NoSample
    /\ ring' = [ring EXCEPT ![l][age] = s]
    /\ UNCHANGED <<owned, last, pending, kv, upsets, streak>>

Older(p) == IF p.age > TcpCarry THEN p ELSE [p EXCEPT !.age = @ + 1]

\* A second passes; what no window can see any more is forgotten.
Tick ==
    /\ ring' = [l \in Links |-> [a \in Ages |-> IF a = 0 THEN NoSample ELSE ring[l][a - 1]]]
    /\ pending' = [l \in Links |-> Older(pending[l])]
    /\ streak' = [l \in Links |-> Older(streak[l])]
    /\ UNCHANGED <<owned, last, kv, upsets>>

\* An agent moves to another member, or comes back.
Move(l) ==
    /\ upsets < MaxUpsets
    /\ upsets' = upsets + 1
    /\ owned' = IF l \in owned THEN owned \ {l} ELSE owned \cup {l}
    /\ UNCHANGED <<ring, last, pending, kv, streak>>

\* The member restarts: its classifier state and its record store are in memory
\* only, the samples are reloaded.
Restart ==
    /\ upsets < MaxUpsets
    /\ upsets' = upsets + 1
    /\ last' = [l \in Links |-> NoQuality]
    /\ pending' = [l \in Links |-> NoPending]
    /\ kv' = [l \in Links |-> NoRecord]
    /\ streak' = [l \in Links |-> NoPending]
    /\ UNCHANGED <<ring, owned>>

Next ==
    \/ ClassifyOnce
    \/ \E r \in Reports : Report(r[1], r[2], r[3])
    \/ Tick
    \/ \E l \in Links : Move(l)
    \/ Restart

Spec == Init /\ [][Next]_vars

-----------------------------------------------------------------------------
\* Properties

\* A single noisy sample, or a pass that reads the same sample again, never
\* re-routes: a class that was derived before changes only when the new class was
\* the candidate at HysteresisPasses different newest samples of the link, with no
\* other candidate between them; a restart starts over (classify_once).
Hysteresis ==
    [][\A l \in Links :
          last[l] # NoQuality /\ last'[l] # last[l] /\ last'[l] # NoQuality =>
              streak'[l].quality = last'[l] /\ streak'[l].passes >= HysteresisPasses]_vars

\* A degraded link recovers only on evidence: its class improves only while a
\* current ping measurement of one of its halves supports the better class, never
\* because its data went missing (the unknown hold, WindowView::measured).
RecoversOnEvidence ==
    [][\A l \in Links :
          last'[l] # NoQuality /\ last'[l] < last[l] =>
              \E h \in Links, a \in 0..AlwaysFresh :
                  /\ h = l \/ (h.from = l.to /\ h.to = l.from)
                  /\ ring[h][a].rtt # NoMetric
                  /\ ScoreUpper(ring[h][a].rtt, RttBound) <= last'[l]]_vars

\* Hysteresis delays and never blocks: once a class was the candidate at
\* HysteresisPasses different newest samples without interruption, the link is in
\* it, whatever holds, late samples and earlier candidates came before
\* (classify_once).
Prompt ==
    \A l \in Links :
        streak[l].passes >= HysteresisPasses => last[l] = streak[l].quality
=============================================================================
