------------------------------ MODULE TraceProofs ------------------------------
(***************************************************************************)
(* Proofs about Trace, for every mesh, request, hop cap and deadline: the  *)
(* types, what a walk and a cached result may take, that the rows of a     *)
(* walk hang together, and that an undisturbed walk is the truth.          *)
(***************************************************************************)
EXTENDS Trace, NaturalsInduction, FiniteSetTheorems, TLAPS

-----------------------------------------------------------------------------
(* Numbers, sequences and steps.                                           *)

\* A set of naturals that is not empty has a least member.
LEMMA Least ==
    ASSUME NEW S \in SUBSET Nat, S # {}
    PROVE  \E n \in S : \A m \in S : n <= m
<1> DEFINE R == {p \in Nat \X Nat : p[1] < p[2]}
<1>1. IsWellFoundedOn(R, Nat)
  BY NatLessThanWellFounded, Zenon DEF OpToRel
<1> HIDE DEF R
<1>2. PICK m \in S : \A y \in S : ~(<<y, m>> \in R)
  BY <1>1, WFMin, Zenon
<1>3. \A x, y \in Nat : x < y => <<x, y>> \in R
  BY DEF R
<1>4. ASSUME NEW y \in S PROVE m <= y
  <2>1. m \in Nat /\ y \in Nat
    BY <1>2
  <2>2. ~(y < m)
    BY <1>2, <1>3, <2>1, Zenon
  <2>3. QED
    BY <2>1, <2>2
<1>5. QED
  BY <1>4

\* What holds at first and is kept by every step holds throughout.
LEMMA Stepwise ==
    ASSUME NEW S, NEW n \in Nat, NEW f, f[0] \in S,
           \A i \in 1..n : f[i - 1] \in S => f[i] \in S
    PROVE  \A i \in 0..n : f[i] \in S
<1> DEFINE Bad == {i \in 0..n : f[i] \notin S}
<1>1. SUFFICES ASSUME Bad # {} PROVE FALSE
  OBVIOUS
<1>2. PICK k \in Bad : \A j \in Bad : k <= j
  <2>1. Bad \in SUBSET Nat
    OBVIOUS
  <2> HIDE DEF Bad
  <2>2. QED
    BY <1>1, <2>1, Least
<1>3. k \in 0..n /\ f[k] \notin S /\ k # 0
  OBVIOUS
<1>4. k \in 1..n /\ k - 1 \in 0..n /\ ~(k <= k - 1)
  BY <1>3
<1>5. f[k - 1] \in S
  BY <1>2, <1>4
<1>6. QED
  BY <1>3, <1>4, <1>5

\* n steps within a set, and that they can be taken from x.
StepsOf(S, n) == [1..n -> [S -> S]]
CanStep(S, x, n, step) ==
    \E f \in [0..n -> S] : f[0] = x /\ \A i \in 1..n : f[i] = step[i][f[i - 1]]

\* n steps can be taken from anywhere in a set they keep to.
LEMMA StepsExist ==
    ASSUME NEW S, NEW x \in S, NEW n \in Nat, NEW step \in StepsOf(S, n)
    PROVE  CanStep(S, x, n, step)
<1> USE DEF StepsOf, CanStep
<1> DEFINE Good(k, f) == f[0] = x /\ \A i \in 1..k : f[i] = step[i][f[i - 1]]
           Bad == {k \in 0..n : ~\E f \in [0..k -> S] : Good(k, f)}
<1>1. SUFFICES ASSUME Bad # {} PROVE FALSE
  <2>1. n \in 0..n
    OBVIOUS
  <2>2. QED
    BY <2>1
<1>2. PICK k \in Bad : \A j \in Bad : k <= j
  <2>1. Bad \in SUBSET Nat
    OBVIOUS
  <2> HIDE DEF Bad
  <2>2. QED
    BY <1>1, <2>1, Least
<1>3. k \in 0..n /\ ~\E f \in [0..k -> S] : Good(k, f)
  OBVIOUS
<1>4. CASE k = 0
  <2> DEFINE f == [i \in 0..0 |-> x]
  <2>1. f \in [0..0 -> S] /\ f[0] = x /\ \A i \in 1..0 : FALSE
    OBVIOUS
  <2>2. Good(0, f)
    BY <2>1
  <2>3. QED
    BY <1>3, <1>4, <2>1, <2>2
<1>5. CASE k # 0
  <2>1. k - 1 \in 0..n /\ ~(k <= k - 1) /\ k \in 1..n /\ k - 1 \in 0..(k - 1)
    BY <1>3, <1>5
  <2>2. PICK f \in [0..(k - 1) -> S] : Good(k - 1, f)
    BY <1>2, <2>1
  <2> DEFINE g == [i \in 0..k |-> IF i = k THEN step[k][f[k - 1]] ELSE f[i]]
  <2>3. step[k][f[k - 1]] \in S
    BY <2>1
  <2>4. g \in [0..k -> S]
    <3>1. ASSUME NEW i \in 0..k, i # k PROVE f[i] \in S
      <4>1. i \in 0..(k - 1)
        BY <2>1, <3>1
      <4>2. QED
        BY <4>1
    <3>2. QED
      BY <2>3, <3>1
  <2>5. g[0] = x
    BY <1>5, <2>1, <2>2
  <2>6. ASSUME NEW i \in 1..k PROVE g[i] = step[i][g[i - 1]]
    <3>1. i - 1 \in 0..k /\ i \in 0..k /\ i - 1 # k
      BY <2>1
    <3>2. g[i - 1] = f[i - 1]
      BY <3>1
    <3>3. CASE i = k
      BY <3>1, <3>2, <3>3
    <3>4. CASE i # k
      <4>1. i \in 1..(k - 1)
        BY <2>1, <3>4
      <4>2. g[i] = f[i]
        BY <3>1, <3>4
      <4>3. f[i] = step[i][f[i - 1]]
        BY <2>2, <4>1
      <4>4. QED
        BY <3>2, <4>2, <4>3
    <3>5. QED
      BY <3>3, <3>4
  <2>7. QED
    <3> HIDE DEF g
    <3>1. Good(k, g)
      BY <2>5, <2>6
    <3>2. QED
      BY <1>3, <2>4, <3>1
<1>6. QED
  BY <1>4, <1>5

\* The elements of a sequence over a set are in the set.
LEMMA ElementOf ==
    ASSUME NEW S, NEW q \in Seq(S), NEW i \in DOMAIN q
    PROVE  q[i] \in S
OBVIOUS

\* What a sequence lists.
Items(s) == {s[i] : i \in DOMAIN s}

\* Appending lists one item more.
LEMMA Appended ==
    ASSUME NEW S, NEW s \in Seq(S), NEW x \in S
    PROVE  /\ Append(s, x) \in Seq(S) /\ Len(Append(s, x)) = Len(s) + 1
           /\ Items(Append(s, x)) = Items(s) \cup {x}
           /\ \A i \in 1..Len(s) : Append(s, x)[i] = s[i]
           /\ Append(s, x)[Len(s) + 1] = x
<1>1. /\ Append(s, x) \in Seq(S) /\ Len(Append(s, x)) = Len(s) + 1
      /\ \A i \in 1..Len(s) : Append(s, x)[i] = s[i]
      /\ Append(s, x)[Len(s) + 1] = x
  OBVIOUS
<1>2. DOMAIN Append(s, x) = 1..(Len(s) + 1) /\ DOMAIN s = 1..Len(s) /\ Len(s) \in Nat
  OBVIOUS
<1> DEFINE t == Append(s, x)
<1> HIDE DEF t
<1>3. Items(t) = Items(s) \cup {x}
  <2>1. DOMAIN t = 1..Len(s) \cup {Len(s) + 1}
    BY <1>2 DEF t
  <2>2. \A i \in 1..Len(s) : t[i] = s[i]
    BY <1>1 DEF t
  <2>3. t[Len(s) + 1] = x
    BY <1>1 DEF t
  <2>4. QED
    BY <1>2, <2>1, <2>2, <2>3 DEF Items
<1>4. QED
  BY <1>1, <1>3 DEF t

\* A sequence is its head and what is behind it.
LEMMA Behind ==
    ASSUME NEW S, NEW s \in Seq(S), s # <<>>
    PROVE  /\ Tail(s) \in Seq(S) /\ Len(Tail(s)) = Len(s) - 1 /\ Len(s) \in Nat \ {0}
           /\ Head(s) \in S /\ Head(s) = s[1]
           /\ \A i \in 1..(Len(s) - 1) : Tail(s)[i] = s[i + 1]
           /\ Items(s) = Items(Tail(s)) \cup {Head(s)}
<1>1. /\ Tail(s) \in Seq(S) /\ Len(Tail(s)) = Len(s) - 1 /\ Len(s) \in Nat \ {0}
      /\ Head(s) \in S /\ Head(s) = s[1]
      /\ \A i \in 1..(Len(s) - 1) : Tail(s)[i] = s[i + 1]
  OBVIOUS
<1>2. DOMAIN Tail(s) = 1..(Len(s) - 1) /\ DOMAIN s = 1..Len(s)
  BY <1>1
<1> DEFINE t == Tail(s)
<1>3. /\ DOMAIN t = 1..(Len(s) - 1)
      /\ \A i \in 1..(Len(s) - 1) : t[i] = s[i + 1]
  BY <1>1, <1>2
<1> HIDE DEF t
<1>4. \A j \in 1..Len(s) : j = 1 \/ (j - 1 \in 1..(Len(s) - 1) /\ s[j] = t[j - 1])
  <2>1. ASSUME NEW j \in 1..Len(s), j # 1
        PROVE  j - 1 \in 1..(Len(s) - 1) /\ j - 1 + 1 = j
    BY <1>1, <2>1
  <2>2. QED
    BY <1>3, <2>1
<1>5. Items(s) = Items(t) \cup {s[1]}
  <2>1. ASSUME NEW i \in 1..(Len(s) - 1) PROVE i + 1 \in 1..Len(s)
    BY <1>1
  <2>2. 1 \in 1..Len(s)
    BY <1>1
  <2>3. Items(s) \subseteq Items(t) \cup {s[1]}
    BY <1>2, <1>3, <1>4 DEF Items
  <2>4. Items(t) \subseteq Items(s)
    <3>1. ASSUME NEW i \in 1..(Len(s) - 1) PROVE t[i] \in Items(s)
      <4>1. t[i] = s[i + 1] /\ i + 1 \in DOMAIN s
        BY <1>2, <1>3, <2>1
      <4>2. QED
        BY <4>1 DEF Items
    <3>2. QED
      BY <1>3, <3>1 DEF Items
  <2>5. s[1] \in Items(s)
    BY <1>2, <2>2 DEF Items
  <2>6. QED
    BY <2>3, <2>4, <2>5
<1>6. QED
  BY <1>1, <1>5 DEF t

-----------------------------------------------------------------------------
(* The walker's operators, field by field.                                 *)

\* The limits are numbers.
LEMMA Limits ==
    /\ HOP_CAP \in Nat \ {0} /\ HOP_TIMEOUT \in Nat \ {0} /\ CACHE_MAX \in Nat \ {0}
    /\ CACHE_TTL \in Nat /\ MaxUpsets \in Nat
    /\ LongestWalk \in Nat /\ Cardinality(Nodes) \in Nat
    /\ 0 \in Age /\ Age \in SUBSET Nat
<1>1. Cardinality(Nodes) \in Nat
  BY TraceAssumption, FS_CardinalityType
<1>2. /\ HOP_CAP \in Nat \ {0} /\ HOP_TIMEOUT \in Nat \ {0} /\ CACHE_MAX \in Nat \ {0}
      /\ CACHE_TTL \in Nat /\ MaxUpsets \in Nat
  BY TraceAssumption
<1>3. LongestWalk \in Nat
  BY <1>1, <1>2 DEF LongestWalk
<1>4. QED
  BY <1>1, <1>2, <1>3 DEF Age

\* A walk grows no more than one step older, and never past the bound.
LEMMA OlderType ==
    ASSUME NEW a \in Age
    PROVE  /\ Older(a) \in Age /\ Older(a) <= a + 1
           /\ Older(a) <= LongestWalk + CACHE_TTL + 1
BY Limits DEF Older, Age

\* The empty walk.
LEMMA NoWalkType ==
    /\ NoWalk \in Walk
    /\ NoWalk.phase = "idle" /\ NoWalk.frontier = <<>> /\ NoWalk.visited = {}
    /\ NoWalk.edges = <<>> /\ NoWalk.complete = FALSE /\ NoWalk.capHit = FALSE
    /\ NoWalk.wait = 0 /\ NoWalk.age = 0 /\ NoWalk.still = TRUE
BY Limits DEF NoWalk, Walk

\* The row of a node that is not expanded.
BrokenRow(w) ==
    [kind |-> "broken", depth |-> DepthOf(w), node |-> NodeOf(w), iface |-> None, to |-> None]

\* The head of the frontier is a node and a depth.
LEMMA HeadType ==
    ASSUME NEW w \in Walk, w.frontier # <<>>
    PROVE  /\ NodeOf(w) \in Nodes /\ DepthOf(w) \in Nat /\ BrokenRow(w) \in Row
           /\ Head(w.frontier) = <<NodeOf(w), DepthOf(w)>>
<1>1. w.frontier \in Seq(Nodes \X Nat)
  BY DEF Walk
<1>2. Head(w.frontier) \in Nodes \X Nat
  BY <1>1, Behind
<1>3. NodeOf(w) \in Nodes /\ DepthOf(w) \in Nat
  BY <1>2 DEF NodeOf, DepthOf
<1>4. BrokenRow(w) \in Row
  BY <1>3 DEF BrokenRow, Row
<1>5. QED
  BY <1>2, <1>3, <1>4 DEF NodeOf, DepthOf

\* What popping the head of the frontier changes.
LEMMA PoppedFields ==
    ASSUME NEW w \in Walk, w.frontier # <<>>, NEW v, v = Popped(w)
    PROVE  /\ v \in Walk
           /\ v.phase = "ready" /\ v.from = w.from /\ v.prefix = w.prefix
           /\ v.frontier = Tail(w.frontier) /\ v.visited = w.visited /\ v.edges = w.edges
           /\ v.complete = w.complete /\ v.capHit = w.capHit /\ v.wait = 0
           /\ v.age = w.age /\ v.still = w.still
<1>1. Tail(w.frontier) \in Seq(Nodes \X Nat)
  BY Behind DEF Walk
<1>2. 0 \in 0..HOP_TIMEOUT /\ <<>> \in Seq(Hop)
  BY Limits
<1>3. QED
  BY <1>1, <1>2 DEF Popped, Walk

\* What a broken row changes.
LEMMA BrokenFields ==
    ASSUME NEW w \in Walk, w.frontier # <<>>, NEW v, v = Broken(w)
    PROVE  /\ v \in Walk
           /\ v.phase = "ready" /\ v.from = w.from /\ v.prefix = w.prefix
           /\ v.frontier = Tail(w.frontier) /\ v.visited = w.visited
           /\ v.edges = Append(w.edges, BrokenRow(w))
           /\ v.complete = w.complete /\ v.capHit = w.capHit /\ v.wait = 0
           /\ v.age = w.age /\ v.still = w.still
<1>1. Tail(w.frontier) \in Seq(Nodes \X Nat)
  BY Behind DEF Walk
<1>2. 0 \in 0..HOP_TIMEOUT /\ <<>> \in Seq(Hop)
  BY Limits
<1>3. Append(w.edges, BrokenRow(w)) \in Seq(Row)
  BY HeadType, Appended DEF Walk
<1>4. ASSUME NEW t \in Seq(Nodes \X Nat), NEW q \in Seq(Row),
             v = [w EXCEPT !.phase = "ready", !.frontier = t, !.wait = 0, !.reply = <<>>, !.edges = q]
      PROVE  /\ v \in Walk
             /\ v.phase = "ready" /\ v.from = w.from /\ v.prefix = w.prefix
             /\ v.frontier = t /\ v.visited = w.visited /\ v.edges = q
             /\ v.complete = w.complete /\ v.capHit = w.capHit /\ v.wait = 0
             /\ v.age = w.age /\ v.still = w.still
  <2>1. v \in Walk
    BY <1>2, <1>4 DEF Walk
  <2>2. /\ v.phase = "ready" /\ v.frontier = t /\ v.wait = 0 /\ v.edges = q
    BY <1>4 DEF Walk
  <2>3. /\ v.from = w.from /\ v.prefix = w.prefix /\ v.visited = w.visited
        /\ v.complete = w.complete /\ v.capHit = w.capHit
        /\ v.age = w.age /\ v.still = w.still
    BY <1>4 DEF Walk
  <2>4. QED
    BY <2>1, <2>2, <2>3
<1>5. v = [w EXCEPT !.phase = "ready", !.frontier = Tail(w.frontier), !.wait = 0,
                    !.reply = <<>>, !.edges = Append(w.edges, BrokenRow(w))]
  BY DEF Broken, BrokenRow
<1>6. QED
  BY <1>1, <1>3, <1>4, <1>5

\* The rows of a next hop.
TermRow(n, d) == [kind |-> "term", depth |-> d, node |-> n, iface |-> None, to |-> n]
ViaRow(n, d, h) ==
    [kind |-> EdgeKind(n, h.iface, PeerForEgress(n, h.iface)), depth |-> d, node |-> n,
     iface |-> h.iface, to |-> PeerForEgress(n, h.iface)]

\* The mesh is well typed.
MeshOK ==
    /\ links \in [Nodes -> LinkSet]
    /\ route \in [Nodes -> [Targets -> Seq(Hop)]]
    /\ up \subseteq Nodes

\* The far end of an egress is a node, if there is one.
LEMMA PeerType ==
    ASSUME MeshOK, NEW n \in Nodes, NEW i \in Ifaces \cup {None}
    PROVE  PeerForEgress(n, i) \in Nodes \cup {None}
BY DEF MeshOK, LinkSet, PeerForEgress

LEMMA RowsType ==
    ASSUME MeshOK, NEW n \in Nodes, NEW d \in Nat, NEW h \in Hop
    PROVE  /\ TermRow(n, d) \in Row /\ TermRow(n, d).kind = "term"
           /\ TermRow(n, d).node = n /\ TermRow(n, d).depth = d
           /\ ViaRow(n, d, h) \in Row /\ ViaRow(n, d, h).kind # "term"
           /\ ViaRow(n, d, h).node = n /\ ViaRow(n, d, h).depth = d
           /\ ViaRow(n, d, h).to = PeerForEgress(n, h.iface)
<1>1. h.iface \in Ifaces \cup {None}
  BY DEF Hop
<1>2. PeerForEgress(n, h.iface) \in Nodes \cup {None}
  BY <1>1, PeerType
<1>3. EdgeKind(n, h.iface, PeerForEgress(n, h.iface)) \in {"broken", "via"}
  BY DEF EdgeKind
<1>4. QED
  BY <1>1, <1>2, <1>3 DEF TermRow, ViaRow, Row

\* What one next hop changes: a row, and perhaps a peer that joins the frontier.
Joins(v, w, p, d) ==
    /\ p \in Nodes \ w.visited
    /\ v.visited = w.visited \cup {p}
    /\ v.frontier = Append(w.frontier, <<p, d + 1>>)

Stays(v, w) == v.visited = w.visited /\ v.frontier = w.frontier

HopSeen(v, w, n, d, h) ==
    \/ /\ h.kind = "dev" /\ v.complete = TRUE
       /\ v.edges = Append(w.edges, TermRow(n, d))
       /\ Stays(v, w)
    \/ /\ h.kind # "dev" /\ v.complete = w.complete
       /\ v.edges = Append(w.edges, ViaRow(n, d, h))
       /\ \/ PeerForEgress(n, h.iface) \in w.visited \cup {None} /\ Stays(v, w)
          \/ Joins(v, w, PeerForEgress(n, h.iface), d)

SameRequest(v, w) ==
    /\ v.phase = w.phase /\ v.from = w.from /\ v.prefix = w.prefix
    /\ v.capHit = w.capHit /\ v.wait = w.wait /\ v.age = w.age /\ v.still = w.still

\* A walk with a row more is a walk, and so is one that is complete now.
LEMMA RowFields ==
    ASSUME NEW w \in Walk, NEW r \in Row, NEW v, v = [w EXCEPT !.edges = Append(@, r)]
    PROVE  /\ v \in Walk /\ SameRequest(v, w) /\ Stays(v, w)
           /\ v.edges = Append(w.edges, r) /\ v.complete = w.complete
<1>1. Append(w.edges, r) \in Seq(Row)
  BY Appended DEF Walk
<1>2. ASSUME NEW q \in Seq(Row), v = [w EXCEPT !.edges = q]
      PROVE  /\ v \in Walk /\ SameRequest(v, w) /\ Stays(v, w)
             /\ v.edges = q /\ v.complete = w.complete
  BY <1>2 DEF Walk, SameRequest, Stays
<1>3. QED
  BY <1>1, <1>2, Zenon

LEMMA TermFields ==
    ASSUME NEW w \in Walk, NEW r \in Row,
           NEW v, v = [w EXCEPT !.complete = TRUE, !.edges = Append(@, r)]
    PROVE  /\ v \in Walk /\ SameRequest(v, w) /\ Stays(v, w)
           /\ v.edges = Append(w.edges, r) /\ v.complete = TRUE
<1>1. Append(w.edges, r) \in Seq(Row)
  BY Appended DEF Walk
<1>2. ASSUME NEW q \in Seq(Row), v = [w EXCEPT !.complete = TRUE, !.edges = q]
      PROVE  /\ v \in Walk /\ SameRequest(v, w) /\ Stays(v, w)
             /\ v.edges = q /\ v.complete = TRUE
  BY <1>2 DEF Walk, SameRequest, Stays
<1>3. QED
  BY <1>1, <1>2, Zenon

LEMMA EnterFields ==
    ASSUME NEW w \in Walk, NEW p \in Nodes, NEW d \in Nat, NEW v, v = Enter(w, p, d)
    PROVE  /\ v \in Walk /\ SameRequest(v, w)
           /\ v.edges = w.edges /\ v.complete = w.complete
           /\ (p \in w.visited /\ Stays(v, w)) \/ Joins(v, w, p, d)
<1>1. CASE p \in w.visited
  BY <1>1 DEF Enter, SameRequest, Stays
<1>2. CASE p \notin w.visited
  <2>1. Append(w.frontier, <<p, d + 1>>) \in Seq(Nodes \X Nat)
    BY Appended DEF Walk
  <2>2. w.visited \cup {p} \in SUBSET Nodes
    BY DEF Walk
  <2>3. ASSUME NEW q \in Seq(Nodes \X Nat), NEW s \in SUBSET Nodes,
               v = [w EXCEPT !.visited = s, !.frontier = q]
        PROVE  /\ v \in Walk /\ SameRequest(v, w)
               /\ v.edges = w.edges /\ v.complete = w.complete
               /\ v.visited = s /\ v.frontier = q
    BY <2>3 DEF Walk, SameRequest
  <2>4. v = [w EXCEPT !.visited = w.visited \cup {p},
                      !.frontier = Append(w.frontier, <<p, d + 1>>)]
    BY <1>2 DEF Enter
  <2>5. /\ v \in Walk /\ SameRequest(v, w)
        /\ v.edges = w.edges /\ v.complete = w.complete
        /\ v.visited = w.visited \cup {p}
        /\ v.frontier = Append(w.frontier, <<p, d + 1>>)
    BY <2>1, <2>2, <2>3, <2>4, Zenon
  <2>6. QED
    BY <1>2, <2>5 DEF Joins
<1>3. QED
  BY <1>1, <1>2

LEMMA ExpandHopFields ==
    ASSUME MeshOK, NEW w \in Walk, NEW n \in Nodes, NEW d \in Nat, NEW h \in Hop,
           NEW v, v = ExpandHop(w, n, d, h)
    PROVE  v \in Walk /\ SameRequest(v, w) /\ HopSeen(v, w, n, d, h)
<1> DEFINE peer == PeerForEgress(n, h.iface)
           seen == [w EXCEPT !.edges = Append(@, ViaRow(n, d, h))]
<1>1. /\ TermRow(n, d) \in Row /\ ViaRow(n, d, h) \in Row
      /\ peer \in Nodes \cup {None} /\ None \notin Nodes
  BY RowsType, PeerType, TraceAssumption DEF Hop
<1>2. CASE h.kind = "dev"
  <2>1. v = [w EXCEPT !.complete = TRUE, !.edges = Append(@, TermRow(n, d))]
    BY <1>2 DEF ExpandHop, TermRow
  <2>2. QED
    BY <1>1, <1>2, <2>1, TermFields DEF HopSeen
<1>3. CASE h.kind # "dev"
  <2>1. v = IF peer = None THEN seen ELSE Enter(seen, peer, d)
    BY <1>3 DEF ExpandHop, ViaRow
  <2>2. /\ seen \in Walk /\ SameRequest(seen, w) /\ Stays(seen, w)
        /\ seen.edges = Append(w.edges, ViaRow(n, d, h)) /\ seen.complete = w.complete
    BY <1>1, RowFields
  <2> HIDE DEF seen, peer
  <2>3. CASE peer = None
    BY <1>3, <2>1, <2>2, <2>3 DEF HopSeen, peer
  <2>4. CASE peer # None
    <3>1. peer \in Nodes
      BY <1>1, <2>4
    <3>2. /\ v \in Walk /\ SameRequest(v, seen)
          /\ v.edges = seen.edges /\ v.complete = seen.complete
          /\ (peer \in seen.visited /\ Stays(v, seen)) \/ Joins(v, seen, peer, d)
      BY <2>1, <2>2, <2>4, <3>1, EnterFields
    <3>3. SameRequest(v, w)
      BY <2>2, <3>2 DEF SameRequest
    <3>4. (peer \in w.visited /\ Stays(v, w)) \/ Joins(v, w, peer, d)
      BY <2>2, <3>2 DEF Stays, Joins
    <3>5. QED
      BY <1>3, <2>2, <3>2, <3>3, <3>4 DEF HopSeen, peer
  <2>5. QED
    BY <2>3, <2>4
<1>4. QED
  BY <1>2, <1>3

\* The walk after i of the next hops of a reply.
Steps(f, w) ==
    /\ f[0] = Popped(w) /\ f[Len(w.reply)] = Expanded(w)
    /\ \A i \in 0..Len(w.reply) : f[i] \in Walk
    /\ \A i \in 1..Len(w.reply) :
          \/ /\ i \in AllNextHops(w.reply) /\ SameRequest(f[i], f[i - 1])
             /\ HopSeen(f[i], f[i - 1], NodeOf(w), DepthOf(w), w.reply[i])
          \/ i \notin AllNextHops(w.reply) /\ f[i] = f[i - 1]

\* The equation of Expanded's recursive function.
Unfolds(f, w) ==
    f = [i \in 0..Len(w.reply) |->
            IF i = 0 THEN Popped(w)
            ELSE IF i \in AllNextHops(w.reply)
                 THEN ExpandHop(f[i - 1], NodeOf(w), DepthOf(w), w.reply[i]) ELSE f[i - 1]]

LEMMA ExpandSteps ==
    ASSUME MeshOK, NEW w \in Walk, w.frontier # <<>>
    PROVE  \E f : Steps(f, w)
<1> DEFINE n == Len(w.reply)
           x == NodeOf(w)
           d == DepthOf(w)
           first == AllNextHops(w.reply)
           step == [i \in 1..n |-> [v \in Walk |->
                      IF i \in first THEN ExpandHop(v, x, d, w.reply[i]) ELSE v]]
           after == CHOOSE f : Unfolds(f, w)
<1>1. /\ n \in Nat /\ x \in Nodes /\ d \in Nat /\ Popped(w) \in Walk
      /\ \A i \in 1..n : w.reply[i] \in Hop
  <2>1. w.reply \in Seq(Hop)
    BY DEF Walk
  <2>2. QED
    BY <2>1, HeadType, PoppedFields, ElementOf
<1>2. step \in [1..n -> [Walk -> Walk]]
  <2>1. ASSUME NEW i \in 1..n, NEW v \in Walk
        PROVE  (IF i \in first THEN ExpandHop(v, x, d, w.reply[i]) ELSE v) \in Walk
    <3>1. ExpandHop(v, x, d, w.reply[i]) \in Walk
      <4> HIDE DEF x, d
      <4>1. QED
        BY <1>1, ExpandHopFields
    <3>2. QED
      BY <3>1
  <2> HIDE DEF x, d, first
  <2>2. QED
    BY <2>1
<1>3. \E f : Unfolds(f, w)
  <2>1. PICK f \in [0..n -> Walk] :
           f[0] = Popped(w) /\ \A i \in 1..n : f[i] = step[i][f[i - 1]]
    <3>1. step \in StepsOf(Walk, n)
      BY <1>2 DEF StepsOf
    <3>2. CanStep(Walk, Popped(w), n, step)
      <4> HIDE DEF n, step
      <4>1. QED
        BY <1>1, <3>1, StepsExist
    <3> HIDE DEF n, step
    <3>3. QED
      BY <3>2 DEF CanStep
  <2>2. ASSUME NEW i \in 0..n
        PROVE  f[i] = IF i = 0 THEN Popped(w)
                      ELSE IF i \in first THEN ExpandHop(f[i - 1], x, d, w.reply[i]) ELSE f[i - 1]
    <3>1. CASE i = 0
      BY <2>1, <3>1
    <3>2. CASE i # 0
      <4>1. i \in 1..n /\ i - 1 \in 0..n
        BY <1>1, <3>2
      <4>2. f[i - 1] \in Walk /\ f[i] = step[i][f[i - 1]]
        BY <2>1, <4>1
      <4> HIDE DEF x, d, first
      <4>3. QED
        BY <3>2, <4>1, <4>2
    <3>3. QED
      BY <3>1, <3>2
  <2>3. f = [i \in 0..n |-> f[i]]
    BY <2>1
  <2>4. Unfolds(f, w)
    BY <2>2, <2>3 DEF Unfolds
  <2>5. QED
    BY <2>4
<1>4. Unfolds(after, w)
  BY <1>3
<1>5. after[n] = Expanded(w)
  BY DEF Expanded, Unfolds
<1> HIDE DEF after, step
<1>6. /\ after[0] = Popped(w)
      /\ \A i \in 1..n : after[i] = IF i \in first THEN ExpandHop(after[i - 1], x, d, w.reply[i])
                                    ELSE after[i - 1]
  <2>1. 0 \in 0..n /\ \A i \in 1..n : i \in 0..n /\ i # 0
    BY <1>1
  <2>2. QED
    BY <1>4, <2>1 DEF Unfolds
<1> HIDE DEF x, d, first, n
<1>7. \A i \in 1..n : after[i - 1] \in Walk => after[i] \in Walk
  BY <1>1, <1>6, ExpandHopFields
<1>8. \A i \in 0..n : after[i] \in Walk
  BY <1>1, <1>6, <1>7, Stepwise
<1>9. ASSUME NEW i \in 1..n
      PROVE  \/ /\ i \in first /\ SameRequest(after[i], after[i - 1])
                /\ HopSeen(after[i], after[i - 1], x, d, w.reply[i])
             \/ i \notin first /\ after[i] = after[i - 1]
  <2>1. i - 1 \in 0..n
    BY <1>1
  <2>2. QED
    BY <1>1, <1>6, <1>8, <2>1, ExpandHopFields
<1>10. Steps(after, w)
  BY <1>5, <1>6, <1>8, <1>9 DEF Steps, n, x, d, first
<1>11. QED
  BY <1>10

-----------------------------------------------------------------------------
(* What a step does to a walk.                                             *)

Asking(w) == w.phase \in {"asked", "replied", "lost"}

\* A walk in progress has a request, the hop it asks is the head of its frontier, and
\* only a hop that is asked has been waited for.
Begun(w) ==
    /\ Active(w) => w.from \in Nodes /\ w.prefix \in Targets
    /\ Asking(w) => w.frontier # <<>>
    /\ ~Asking(w) => w.wait = 0

TypeInv == TypeOK /\ \A c \in Clients : Begun(walk[c])

Alike(v, w) ==
    /\ v.from = w.from /\ v.prefix = w.prefix /\ v.frontier = w.frontier
    /\ v.visited = w.visited /\ v.edges = w.edges
    /\ v.complete = w.complete /\ v.capHit = w.capHit

Opens(v) ==
    /\ v.phase = "ready" /\ v.from \in Nodes /\ v.prefix \in Targets
    /\ v.frontier = <<<<v.from, 0>>>> /\ v.visited = {v.from} /\ v.edges = <<>>
    /\ v.complete = FALSE /\ v.capHit = FALSE /\ v.wait = 0 /\ v.age = 0 /\ v.still = TRUE

Cuts(v, w) ==
    /\ w.phase \notin {"idle"} /\ w.frontier # <<>>
    /\ v.phase = "ready" /\ v.from = w.from /\ v.prefix = w.prefix
    /\ v.frontier = Tail(w.frontier) /\ v.visited = w.visited
    /\ v.edges = Append(w.edges, BrokenRow(w)) /\ v.complete = w.complete
    /\ v.wait = 0 /\ v.age = w.age
    /\ \/ w.phase = "ready" /\ DepthOf(w) >= HOP_CAP /\ v.capHit = TRUE /\ v.still = w.still
       \/ v.capHit = w.capHit /\ v.still = FALSE
       \/ w.phase = "replied" /\ w.reply = <<>> /\ v.capHit = w.capHit /\ v.still = w.still

Sends(v, w) ==
    /\ w.phase = "ready" /\ w.frontier # <<>> /\ DepthOf(w) < HOP_CAP /\ NodeOf(w) \in up
    /\ v.phase = "asked" /\ Alike(v, w) /\ v.wait = w.wait /\ v.age = w.age /\ v.still = w.still

Answers(v, w) ==
    /\ w.phase = "asked"
    /\ v.phase = "replied" /\ v.reply = route[NodeOf(w)][w.prefix]
    /\ Alike(v, w) /\ v.wait = w.wait /\ v.age = w.age /\ v.still = w.still

Expands(v, w) == w.phase = "replied" /\ w.reply # <<>> /\ v = Expanded(w)

Disturbed(v, w) ==
    /\ v.phase = w.phase \/ (w.phase \in {"asked", "replied"} /\ v.phase = "lost")
    /\ Alike(v, w) /\ v.wait = w.wait /\ v.age = w.age
    /\ v.still = (w.still /\ ~Active(w))

Waits(v, w) ==
    /\ v.phase = w.phase /\ Alike(v, w) /\ v.reply = w.reply /\ v.still = w.still
    /\ \/ Asking(w) /\ w.wait < HOP_TIMEOUT /\ v.wait = w.wait + 1 /\ v.age = Older(w.age)
       \/ ~Asking(w) /\ v.wait = w.wait /\ v.age = w.age

QuietStep(v, w) ==
    \/ v = w
    \/ v = NoWalk
    \/ w.phase = "idle" /\ Opens(v)
    \/ Cuts(v, w)
    \/ Sends(v, w)
    \/ Answers(v, w)
    \/ Expands(v, w)
    \/ Waits(v, w)

\* A walk may rest.
LEMMA QuietSame ==
    ASSUME NEW v
    PROVE  QuietStep(v, v)
BY DEF QuietStep

\* A request's prefix is a prefix or none.
LEMMA PrefixType ==
    ASSUME MeshOK, NEW r \in Requests, ~BadRequest(r)
    PROVE  r.from \in Nodes /\ PrefixOf(r) \in Targets
<1>1. /\ r.from \in Nodes /\ r.to \in Nodes \cup {None} /\ r.prefix \in Targets \cup {None}
      /\ Loopback \in [Nodes -> Targets \cup {None}]
  BY TraceAssumption
<1>2. LoopbackOf(r.to) \in Targets \cup {None}
  BY <1>1 DEF LoopbackOf
<1>3. QED
  BY <1>1, <1>2 DEF PrefixOf, BadRequest

LEMMA OpensFields ==
    ASSUME NEW x \in Nodes, NEW p \in Targets, NEW v,
           v = [NoWalk EXCEPT !.phase = "ready", !.from = x, !.prefix = p,
                              !.frontier = <<<<x, 0>>>>, !.visited = {x}]
    PROVE  v \in Walk /\ Opens(v)
<1>1. <<<<x, 0>>>> \in Seq(Nodes \X Nat) /\ {x} \in SUBSET Nodes
  OBVIOUS
<1>2. ASSUME NEW q \in Seq(Nodes \X Nat), NEW s \in SUBSET Nodes,
             v = [NoWalk EXCEPT !.phase = "ready", !.from = x, !.prefix = p,
                                !.frontier = q, !.visited = s]
      PROVE  /\ v \in Walk
             /\ v.phase = "ready" /\ v.from = x /\ v.prefix = p
             /\ v.frontier = q /\ v.visited = s
             /\ v.edges = <<>> /\ v.complete = FALSE /\ v.capHit = FALSE
             /\ v.wait = 0 /\ v.age = 0 /\ v.still = TRUE
  BY <1>2, NoWalkType DEF Walk
<1>3. QED
  BY <1>1, <1>2 DEF Opens

\* An ask takes the next node: it is cut at the cap, not there, or asked.
LEMMA AskFields ==
    ASSUME MeshOK, NEW w \in Walk, w.phase = "ready", w.frontier # <<>>, NEW v,
           v = IF DepthOf(w) >= HOP_CAP THEN [Broken(w) EXCEPT !.capHit = TRUE]
               ELSE IF ~HasAgent(NodeOf(w)) THEN [Broken(w) EXCEPT !.still = FALSE]
               ELSE [w EXCEPT !.phase = "asked"]
    PROVE  v \in Walk /\ (Cuts(v, w) \/ Sends(v, w))
<1> DEFINE b == Broken(w)
<1>1. /\ b \in Walk
      /\ b.phase = "ready" /\ b.from = w.from /\ b.prefix = w.prefix
      /\ b.frontier = Tail(w.frontier) /\ b.visited = w.visited
      /\ b.edges = Append(w.edges, BrokenRow(w))
      /\ b.complete = w.complete /\ b.capHit = w.capHit /\ b.wait = 0
      /\ b.age = w.age /\ b.still = w.still
  BY BrokenFields
<1>2. DepthOf(w) \in Nat /\ HOP_CAP \in Nat
  BY HeadType, Limits
<1> HIDE DEF b
<1>3. CASE DepthOf(w) >= HOP_CAP
  <2>1. v = [b EXCEPT !.capHit = TRUE]
    BY <1>3 DEF b
  <2>2. v \in Walk
    BY <1>1, <2>1 DEF Walk
  <2>3. /\ v.phase = b.phase /\ v.from = b.from /\ v.prefix = b.prefix
        /\ v.frontier = b.frontier /\ v.visited = b.visited /\ v.edges = b.edges
        /\ v.complete = b.complete /\ v.wait = b.wait /\ v.age = b.age /\ v.still = b.still
        /\ v.capHit = TRUE
    BY <1>1, <2>1 DEF Walk
  <2>4. QED
    BY <1>1, <1>3, <2>2, <2>3 DEF Cuts
<1>4. CASE DepthOf(w) < HOP_CAP /\ ~HasAgent(NodeOf(w))
  <2>1. v = [b EXCEPT !.still = FALSE]
    BY <1>2, <1>4 DEF b
  <2>2. v \in Walk
    BY <1>1, <2>1 DEF Walk
  <2>3. /\ v.phase = b.phase /\ v.from = b.from /\ v.prefix = b.prefix
        /\ v.frontier = b.frontier /\ v.visited = b.visited /\ v.edges = b.edges
        /\ v.complete = b.complete /\ v.wait = b.wait /\ v.age = b.age /\ v.capHit = b.capHit
        /\ v.still = FALSE
    BY <1>1, <2>1 DEF Walk
  <2>4. QED
    BY <1>1, <2>2, <2>3 DEF Cuts
<1>5. CASE DepthOf(w) < HOP_CAP /\ HasAgent(NodeOf(w))
  <2>1. v = [w EXCEPT !.phase = "asked"]
    BY <1>2, <1>5
  <2>2. v \in Walk /\ v.phase = "asked" /\ Alike(v, w)
        /\ v.wait = w.wait /\ v.age = w.age /\ v.still = w.still
    BY <2>1 DEF Walk, Alike
  <2>3. QED
    BY <1>5, <2>2 DEF Sends, HasAgent
<1>6. QED
  BY <1>2, <1>3, <1>4, <1>5

\* A hop that does not answer is cut.
LEMMA UnansweredFields ==
    ASSUME MeshOK, NEW w \in Walk, Asking(w), w.frontier # <<>>, NEW v, v = Unanswered(w)
    PROVE  v \in Walk /\ Cuts(v, w)
<1> DEFINE b == Broken(w)
<1>1. /\ b \in Walk
      /\ b.phase = "ready" /\ b.from = w.from /\ b.prefix = w.prefix
      /\ b.frontier = Tail(w.frontier) /\ b.visited = w.visited
      /\ b.edges = Append(w.edges, BrokenRow(w))
      /\ b.complete = w.complete /\ b.capHit = w.capHit /\ b.wait = 0
      /\ b.age = w.age /\ b.still = w.still
  BY BrokenFields
<1>2. v = [b EXCEPT !.still = FALSE]
  BY DEF Unanswered
<1> HIDE DEF b
<1>3. v \in Walk
  BY <1>1, <1>2 DEF Walk
<1>4. /\ v.phase = b.phase /\ v.from = b.from /\ v.prefix = b.prefix
      /\ v.frontier = b.frontier /\ v.visited = b.visited /\ v.edges = b.edges
      /\ v.complete = b.complete /\ v.wait = b.wait /\ v.age = b.age /\ v.capHit = b.capHit
      /\ v.still = FALSE
  BY <1>1, <1>2 DEF Walk
<1>5. QED
  BY <1>1, <1>3, <1>4 DEF Cuts, Asking

\* Expanding a node gives a walk that is ready again, of the same request.
LEMMA ExpandedFields ==
    ASSUME MeshOK, NEW w \in Walk, w.frontier # <<>>, NEW v, v = Expanded(w)
    PROVE  /\ v \in Walk /\ v.phase = "ready" /\ v.from = w.from /\ v.prefix = w.prefix
           /\ v.capHit = w.capHit /\ v.wait = 0 /\ v.age = w.age /\ v.still = w.still
<1> DEFINE n == Len(w.reply)
           Like == {u \in Walk : SameRequest(u, Popped(w))}
<1>1. PICK f : Steps(f, w)
  BY ExpandSteps
<1>2. n \in Nat
  BY DEF Walk
<1>3. f[0] \in Like
  BY <1>1, PoppedFields DEF Steps, SameRequest
<1>4. ASSUME NEW i \in 1..n, f[i - 1] \in Like PROVE f[i] \in Like
  <2>1. i \in 0..n /\ f[i] \in Walk
    BY <1>1, <1>2 DEF Steps
  <2>2. f[i] = f[i - 1] \/ SameRequest(f[i], f[i - 1])
    BY <1>1 DEF Steps
  <2>3. QED
    BY <1>4, <2>1, <2>2 DEF SameRequest
<1>5. n \in 0..n /\ f[n] = Expanded(w)
  BY <1>1, <1>2 DEF Steps
<1> HIDE DEF n, Like
<1>6. f[n] \in Like
  BY <1>2, <1>3, <1>4, <1>5, Stepwise
<1>7. v \in Walk /\ SameRequest(v, Popped(w))
  BY <1>5, <1>6 DEF Like
<1>8. QED
  BY <1>7, PoppedFields DEF SameRequest

\* The walks of a mesh that changes.
LEMMA ChangedFields ==
    ASSUME NEW w \in Walk, NEW v, v = [w EXCEPT !.still = @ /\ ~Active(w)]
    PROVE  v \in Walk /\ Disturbed(v, w)
<1>1. (w.still /\ ~Active(w)) \in BOOLEAN
  OBVIOUS
<1>2. ASSUME NEW b \in BOOLEAN, v = [w EXCEPT !.still = b]
      PROVE  /\ v \in Walk /\ v.phase = w.phase /\ Alike(v, w)
             /\ v.wait = w.wait /\ v.age = w.age /\ v.still = b
  BY <1>2 DEF Walk, Alike
<1>3. v = [w EXCEPT !.still = w.still /\ ~Active(w)]
  OBVIOUS
<1>4. /\ v \in Walk /\ v.phase = w.phase /\ Alike(v, w)
      /\ v.wait = w.wait /\ v.age = w.age /\ v.still = (w.still /\ ~Active(w))
  <2> DEFINE b == w.still /\ ~Active(w)
  <2>1. b \in BOOLEAN /\ v = [w EXCEPT !.still = b]
    BY <1>1, <1>3
  <2> HIDE DEF b
  <2>2. /\ v \in Walk /\ v.phase = w.phase /\ Alike(v, w)
        /\ v.wait = w.wait /\ v.age = w.age /\ v.still = b
    BY <1>2, <2>1
  <2>3. QED
    BY <2>2 DEF b
<1>5. QED
  BY <1>4 DEF Disturbed

LEMMA LostFields ==
    ASSUME NEW w \in Walk, NEW u \in Walk, Disturbed(u, w), u.phase = w.phase,
           w.phase \in {"asked", "replied"},
           NEW v, v = [u EXCEPT !.phase = "lost", !.reply = <<>>]
    PROVE  v \in Walk /\ Disturbed(v, w)
<1>1. <<>> \in Seq(Hop)
  OBVIOUS
<1>2. /\ v \in Walk /\ v.phase = "lost" /\ Alike(v, u)
      /\ v.wait = u.wait /\ v.age = u.age /\ v.still = u.still
  BY <1>1 DEF Walk, Alike
<1>3. QED
  BY <1>2 DEF Disturbed, Alike

\* Every step moves every walk in one of these ways.
Moves ==
    /\ walk' \in [Clients -> Walk]
    /\ \/ \A c \in Clients : Disturbed(walk'[c], walk[c])
       \/ /\ UNCHANGED <<links, route, up>>
          /\ \A c \in Clients : QuietStep(walk'[c], walk[c])

\* A step of one walk.
LEMMA OneMoves ==
    ASSUME TypeInv, NEW c \in Clients, NEW v \in Walk, QuietStep(v, walk[c]),
           walk' = [walk EXCEPT ![c] = v], UNCHANGED <<links, route, up>>
    PROVE  Moves
<1>1. walk \in [Clients -> Walk]
  BY DEF TypeInv, TypeOK
<1>2. walk' \in [Clients -> Walk] /\ walk'[c] = v
  BY <1>1
<1>3. ASSUME NEW x \in Clients, x # c PROVE walk'[x] = walk[x]
  BY <1>1, <1>3
<1>4. \A x \in Clients : QuietStep(walk'[x], walk[x])
  BY <1>2, <1>3, QuietSame
<1>5. QED
  BY <1>2, <1>4 DEF Moves

\* A step of the registry or of BIRD.
LEMMA UpsetMoves ==
    ASSUME TypeInv, walk' = Changed
    PROVE  Moves
<1>1. ASSUME NEW c \in Clients PROVE walk'[c] \in Walk /\ Disturbed(walk'[c], walk[c])
  <2>1. walk[c] \in Walk
    BY DEF TypeInv, TypeOK
  <2>2. walk'[c] = [walk[c] EXCEPT !.still = @ /\ ~Active(walk[c])]
    BY DEF Changed
  <2>3. QED
    BY <2>1, <2>2, ChangedFields
<1>2. walk' = [c \in Clients |-> walk'[c]]
  BY DEF Changed
<1>3. QED
  BY <1>1, <1>2 DEF Moves

LEMMA DisconnectMoves ==
    ASSUME TypeInv, NEW n \in Nodes, Disconnect(n)
    PROVE  Moves
<1>1. ASSUME NEW c \in Clients PROVE walk'[c] \in Walk /\ Disturbed(walk'[c], walk[c])
  <2> DEFINE w == walk[c]
             u == [w EXCEPT !.still = @ /\ ~Active(w)]
  <2>1. w \in Walk
    BY DEF TypeInv, TypeOK
  <2>2. walk'[c] = IF w.phase \in {"asked", "replied"} /\ NodeOf(w) = n
                   THEN [u EXCEPT !.phase = "lost", !.reply = <<>>] ELSE u
    BY DEF Disconnect, Changed
  <2>3. u \in Walk /\ Disturbed(u, w) /\ u.phase = w.phase
    <3>1. u \in Walk /\ Disturbed(u, w)
      BY <2>1, ChangedFields
    <3>2. u.phase = w.phase
      BY <2>1 DEF Walk
    <3>3. QED
      BY <3>1, <3>2
  <2> HIDE DEF u, w
  <2>4. QED
    BY <2>1, <2>2, <2>3, LostFields DEF w
<1>2. walk' = [c \in Clients |-> walk'[c]]
  BY DEF Disconnect
<1>3. QED
  BY <1>1, <1>2 DEF Moves

LEMMA TickMoves ==
    ASSUME TypeInv, Tick
    PROVE  Moves
<1>1. ASSUME NEW c \in Clients PROVE walk'[c] \in Walk /\ QuietStep(walk'[c], walk[c])
  <2> DEFINE w == walk[c]
             v == walk'[c]
  <2>1. w \in Walk /\ Begun(w)
    BY DEF TypeInv, TypeOK
  <2>2. v = IF Active(w) THEN [w EXCEPT !.wait = @ + 1, !.age = Older(@)] ELSE w
    BY DEF Tick
  <2>3. w.phase # "ready" /\ (Active(w) => w.wait < HOP_TIMEOUT)
    BY DEF Tick
  <2> HIDE DEF w, v
  <2>4. CASE Active(w)
    <3>1. Asking(w)
      BY <2>1, <2>3, <2>4 DEF Active, Asking, Walk
    <3>2. w.wait + 1 \in 0..HOP_TIMEOUT /\ Older(w.age) \in Age
      <4>1. w.wait \in 0..HOP_TIMEOUT /\ w.age \in Age
        BY <2>1 DEF Walk
      <4>2. w.wait + 1 \in 0..HOP_TIMEOUT
        BY <2>3, <2>4, <4>1, Limits
      <4>3. QED
        BY <4>1, <4>2, OlderType
    <3>3. v = [w EXCEPT !.wait = w.wait + 1, !.age = Older(w.age)]
      BY <2>2, <2>4
    <3>4. ASSUME NEW k \in 0..HOP_TIMEOUT, NEW a \in Age, v = [w EXCEPT !.wait = k, !.age = a]
          PROVE  /\ v \in Walk /\ v.phase = w.phase /\ Alike(v, w) /\ v.reply = w.reply
                 /\ v.still = w.still /\ v.wait = k /\ v.age = a
      BY <2>1, <3>4 DEF Walk, Alike
    <3>5. /\ v \in Walk /\ v.phase = w.phase /\ Alike(v, w) /\ v.reply = w.reply
          /\ v.still = w.still /\ v.wait = w.wait + 1 /\ v.age = Older(w.age)
      BY <3>2, <3>3, <3>4, Zenon
    <3>6. Waits(v, w)
      BY <2>3, <2>4, <3>1, <3>5 DEF Waits
    <3>7. QED
      BY <3>5, <3>6 DEF QuietStep, v, w
  <2>5. CASE ~Active(w)
    <3>1. v = w
      BY <2>2, <2>5
    <3>2. QED
      BY <2>1, <3>1, QuietSame DEF v, w
  <2>6. QED
    BY <2>4, <2>5
<1>2. walk' = [c \in Clients |-> walk'[c]]
  BY DEF Tick
<1>3. QED
  BY <1>1, <1>2 DEF Moves, Tick

LEMMA StepMoves == TypeInv /\ [Next]_vars => Moves
<1> SUFFICES ASSUME TypeInv, [Next]_vars PROVE Moves
  OBVIOUS
<1> USE DEF MeshOK
<1>1. /\ walk \in [Clients -> Walk] /\ MeshOK
      /\ \A c \in Clients : Begun(walk[c])
  BY DEF TypeInv, TypeOK
<1>2. ASSUME NEW c \in Clients, NEW r \in Requests, Start(c, r) PROVE Moves
  <2> DEFINE begun == [NoWalk EXCEPT !.phase = "ready", !.from = r.from, !.prefix = PrefixOf(r),
                                     !.frontier = <<<<r.from, 0>>>>, !.visited = {r.from}]
  <2>1. UNCHANGED <<links, route, up>> /\ walk[c].phase = "idle"
    BY <1>2 DEF Start
  <2>2. CASE walk' = walk
    BY <1>1, <2>1, <2>2, QuietSame DEF Moves
  <2>3. CASE walk' # walk
    <3>1. ~BadRequest(r) /\ walk' = [walk EXCEPT ![c] = begun]
      BY <1>2, <2>3 DEF Start
    <3>2. r.from \in Nodes /\ PrefixOf(r) \in Targets
      BY <1>1, <3>1, PrefixType
    <3>3. begun \in Walk /\ Opens(begun)
      BY <3>2, OpensFields
    <3> HIDE DEF begun
    <3>4. QuietStep(begun, walk[c])
      BY <2>1, <3>3 DEF QuietStep
    <3>5. QED
      BY <2>1, <3>1, <3>3, <3>4, OneMoves
  <2>4. QED
    BY <2>2, <2>3
<1>3. ASSUME NEW c \in Clients, Finish(c) PROVE Moves
  <2>1. QuietStep(NoWalk, walk[c]) /\ NoWalk \in Walk
    BY NoWalkType DEF QuietStep
  <2>2. QED
    BY <1>3, <2>1, OneMoves DEF Finish
<1>4. ASSUME NEW c \in Clients, Ask(c) PROVE Moves
  <2> DEFINE w == walk[c]
             v == IF DepthOf(w) >= HOP_CAP THEN [Broken(w) EXCEPT !.capHit = TRUE]
                  ELSE IF ~HasAgent(NodeOf(w)) THEN [Broken(w) EXCEPT !.still = FALSE]
                  ELSE [w EXCEPT !.phase = "asked"]
  <2>1. /\ w.phase = "ready" /\ w.frontier # <<>>
        /\ walk' = [walk EXCEPT ![c] = v] /\ UNCHANGED <<links, route, up>>
    BY <1>4 DEF Ask
  <2>2. w \in Walk
    BY <1>1
  <2>3. v \in Walk /\ (Cuts(v, w) \/ Sends(v, w))
    <3> HIDE DEF w
    <3>1. QED
      BY <1>1, <2>1, <2>2, AskFields
  <2> HIDE DEF v
  <2>4. QuietStep(v, walk[c])
    BY <2>3 DEF QuietStep
  <2>5. QED
    BY <2>1, <2>3, <2>4, OneMoves
<1>5. ASSUME NEW c \in Clients, Resolve(c) PROVE Moves
  <2> DEFINE w == walk[c]
             q == route[NodeOf(w)][w.prefix]
             v == [w EXCEPT !.phase = "replied", !.reply = q]
  <2>1. w.phase = "asked" /\ UNCHANGED <<links, route, up>> /\ w \in Walk
    BY <1>1, <1>5 DEF Resolve
  <2>2. walk' = [walk EXCEPT ![c] = v]
    BY <1>1, <1>5 DEF Resolve, RouteAt
  <2>3. q \in Seq(Hop)
    <3>1. w.frontier # <<>> /\ w.prefix \in Targets
      BY <1>1, <2>1 DEF Begun, Active, Asking
    <3>2. NodeOf(w) \in Nodes
      <4> HIDE DEF w
      <4>1. QED
        BY <2>1, <3>1, HeadType
    <3>3. QED
      BY <1>1, <3>1, <3>2
  <2> HIDE DEF q
  <2>4. /\ v \in Walk /\ v.phase = "replied" /\ v.reply = q /\ Alike(v, w)
        /\ v.wait = w.wait /\ v.age = w.age /\ v.still = w.still
    <3> HIDE DEF w
    <3>1. QED
      BY <2>1, <2>3 DEF Walk, Alike
  <2> HIDE DEF v
  <2>5. Answers(v, w)
    BY <2>1, <2>4 DEF Answers, q
  <2>6. QuietStep(v, walk[c])
    BY <2>5 DEF QuietStep
  <2>7. QED
    BY <2>1, <2>2, <2>4, <2>6, OneMoves
<1>6. ASSUME NEW c \in Clients, HopFails(c) \/ HopTimesOut(c) PROVE Moves
  <2>1. /\ Asking(walk[c]) /\ UNCHANGED <<links, route, up>>
        /\ walk' = [walk EXCEPT ![c] = Unanswered(walk[c])]
    BY <1>6 DEF HopFails, HopTimesOut, Due, Asking
  <2>2. walk[c] \in Walk /\ walk[c].frontier # <<>>
    BY <1>1, <2>1 DEF Begun
  <2>3. Unanswered(walk[c]) \in Walk /\ Cuts(Unanswered(walk[c]), walk[c])
    BY <1>1, <2>1, <2>2, UnansweredFields
  <2>4. QuietStep(Unanswered(walk[c]), walk[c])
    BY <2>3 DEF QuietStep
  <2>5. QED
    BY <2>1, <2>3, <2>4, OneMoves
<1>7. ASSUME NEW c \in Clients, Expand(c) PROVE Moves
  <2> DEFINE w == walk[c]
             v == IF w.reply = <<>> THEN Broken(w) ELSE Expanded(w)
  <2>1. /\ w.phase = "replied" /\ UNCHANGED <<links, route, up>>
        /\ walk' = [walk EXCEPT ![c] = v]
    BY <1>7 DEF Expand
  <2>2. w \in Walk /\ w.frontier # <<>>
    BY <1>1, <2>1 DEF Begun, Asking
  <2> HIDE DEF w
  <2>3. CASE w.reply = <<>>
    <3>1. v = Broken(w)
      BY <2>3
    <3>2. v \in Walk /\ Cuts(v, w)
      BY <2>1, <2>2, <2>3, <3>1, BrokenFields DEF Cuts
    <3>3. QuietStep(v, w)
      BY <3>2 DEF QuietStep
    <3>4. QED
      BY <2>1, <3>2, <3>3, OneMoves DEF w
  <2>4. CASE w.reply # <<>>
    <3>1. v = Expanded(w)
      BY <2>4
    <3>2. v \in Walk
      BY <1>1, <2>2, <3>1, ExpandedFields
    <3>3. Expands(v, w)
      BY <2>1, <2>4, <3>1 DEF Expands
    <3>4. QuietStep(v, w)
      BY <3>3 DEF QuietStep
    <3>5. QED
      BY <2>1, <3>2, <3>4, OneMoves DEF w
  <2>5. QED
    BY <2>3, <2>4
<1>8. ASSUME NEW m \in Relinks, Register(m[1], m[2]) PROVE Moves
  BY <1>8, UpsetMoves DEF Register
<1>9. ASSUME NEW m \in Reroutes, Reroute(m[1], m[2], m[3]) PROVE Moves
  BY <1>9, UpsetMoves DEF Reroute
<1>10. ASSUME NEW n \in Nodes, Disconnect(n) PROVE Moves
  BY <1>10, DisconnectMoves
<1>11. CASE Tick
  BY <1>11, TickMoves
<1>12. CASE UNCHANGED vars
  BY <1>1, <1>12, QuietSame DEF Moves, vars
<1>13. QED
  BY <1>2, <1>3, <1>4, <1>5, <1>6, <1>7, <1>8, <1>9, <1>10, <1>11, <1>12 DEF Next

-----------------------------------------------------------------------------
(* The cache.                                                              *)

\* The equation of Fresh's recursive function.
Retains(f, s) ==
    f = [i \in 0..Len(s) |->
            IF i = 0 THEN <<>>
            ELSE IF s[i].at <= CACHE_TTL THEN Append(f[i - 1], s[i]) ELSE f[i - 1]]

\* What retain keeps are results that did not expire.
LEMMA FreshKeeps ==
    ASSUME NEW s \in Seq(Entry)
    PROVE  /\ Fresh(s) \in Seq(Entry) /\ Len(Fresh(s)) <= Len(s)
           /\ \A e \in Items(Fresh(s)) : e \in Items(s) /\ e.at <= CACHE_TTL
<1> DEFINE n == Len(s)
           step == [i \in 1..n |-> [q \in Seq(Entry) |->
                      IF s[i].at <= CACHE_TTL THEN Append(q, s[i]) ELSE q]]
           kept == CHOOSE f : Retains(f, s)
           Some == {e \in Items(s) : e.at <= CACHE_TTL}
           Part == {p \in Nat \X Seq(Entry) : Len(p[2]) <= p[1] /\ Items(p[2]) \subseteq Some}
           counted == [i \in 0..n |-> <<i, kept[i]>>]
<1>1. n \in Nat /\ (\A i \in 1..n : s[i] \in Entry /\ s[i] \in Items(s)) /\ <<>> \in Seq(Entry)
  <2>1. n \in Nat /\ DOMAIN s = 1..n /\ <<>> \in Seq(Entry)
    OBVIOUS
  <2>2. QED
    BY <2>1, ElementOf DEF Items
<1>2. \E f : Retains(f, s)
  <2>1. step \in [1..n -> [Seq(Entry) -> Seq(Entry)]]
    <3>1. ASSUME NEW i \in 1..n, NEW q \in Seq(Entry)
          PROVE  (IF s[i].at <= CACHE_TTL THEN Append(q, s[i]) ELSE q) \in Seq(Entry)
      BY <1>1, Appended
    <3>2. QED
      BY <3>1
  <2>2. PICK f \in [0..n -> Seq(Entry)] :
           f[0] = <<>> /\ \A i \in 1..n : f[i] = step[i][f[i - 1]]
    <3> DEFINE Q == Seq(Entry)
               none == <<>>
    <3>1. step \in StepsOf(Q, n) /\ none \in Q /\ n \in Nat
      BY <1>1, <2>1 DEF StepsOf
    <3> HIDE DEF n, step, Q, none
    <3>2. CanStep(Q, none, n, step)
      BY <3>1, StepsExist
    <3>3. QED
      BY <3>2 DEF CanStep, Q, none
  <2>3. ASSUME NEW i \in 0..n
        PROVE  f[i] = IF i = 0 THEN <<>>
                      ELSE IF s[i].at <= CACHE_TTL THEN Append(f[i - 1], s[i]) ELSE f[i - 1]
    <3>1. CASE i = 0
      BY <2>2, <3>1
    <3>2. CASE i # 0
      <4>1. i \in 1..n /\ i - 1 \in 0..n
        BY <1>1, <3>2
      <4>2. f[i - 1] \in Seq(Entry) /\ f[i] = step[i][f[i - 1]]
        BY <2>2, <4>1
      <4>3. QED
        BY <3>2, <4>1, <4>2
    <3>3. QED
      BY <3>1, <3>2
  <2>4. f = [i \in 0..n |-> f[i]]
    BY <2>2
  <2>5. QED
    BY <2>3, <2>4 DEF Retains
<1>3. Retains(kept, s)
  BY <1>2
<1>4. kept[n] = Fresh(s)
  BY DEF Fresh, Retains
<1> HIDE DEF kept, step
<1>5. /\ kept[0] = <<>>
      /\ \A i \in 1..n : kept[i] = IF s[i].at <= CACHE_TTL THEN Append(kept[i - 1], s[i])
                                   ELSE kept[i - 1]
  <2>1. 0 \in 0..n /\ \A i \in 1..n : i \in 0..n /\ i # 0
    BY <1>1
  <2>2. QED
    BY <1>3, <2>1 DEF Retains
<1>6. counted[0] \in Part
  <2>1. counted[0] = <<0, <<>>>> /\ Items(<<>>) = {} /\ Len(<<>>) = 0
    BY <1>1, <1>5 DEF Items
  <2>2. QED
    <3>1. <<0, <<>>>> \in Nat \X Seq(Entry) /\ <<0, <<>>>>[1] = 0 /\ <<0, <<>>>>[2] = <<>>
      BY <1>1
    <3>2. Len(<<>>) <= 0
      BY <2>1
    <3> HIDE DEF counted, Some
    <3>3. QED
      BY <2>1, <3>1, <3>2
<1>7. ASSUME NEW i \in 1..n, counted[i - 1] \in Part PROVE counted[i] \in Part
  <2> DEFINE q == kept[i - 1]
  <2>1. counted[i - 1] = <<i - 1, q>> /\ counted[i] = <<i, kept[i]>> /\ i \in Nat /\ i - 1 \in Nat
    BY <1>1
  <2>2. q \in Seq(Entry) /\ Len(q) <= i - 1 /\ Items(q) \subseteq Some
    BY <1>7, <2>1
  <2> HIDE DEF q
  <2>3. CASE s[i].at <= CACHE_TTL
    <3>1. kept[i] = Append(q, s[i])
      BY <1>5, <2>3 DEF q
    <3>2. /\ kept[i] \in Seq(Entry) /\ Len(kept[i]) = Len(q) + 1
          /\ Items(kept[i]) = Items(q) \cup {s[i]}
      BY <1>1, <2>2, <3>1, Appended
    <3>3. Len(kept[i]) <= i
      BY <2>1, <2>2, <3>2
    <3>4. s[i] \in Some
      BY <1>1, <2>3
    <3> HIDE DEF Some
    <3>5. QED
      BY <2>1, <2>2, <3>2, <3>3, <3>4
  <2>4. CASE ~(s[i].at <= CACHE_TTL)
    <3>1. kept[i] = q
      BY <1>5, <2>4 DEF q
    <3> HIDE DEF Some
    <3>2. QED
      BY <2>1, <2>2, <3>1
  <2>5. QED
    BY <2>3, <2>4
<1>8. counted[n] \in Part
  <2> HIDE DEF counted, Part, n
  <2>1. n \in 0..n
    BY <1>1
  <2>2. QED
    BY <1>1, <1>6, <1>7, <2>1, Stepwise
<1>9. kept[n] \in Seq(Entry) /\ Len(kept[n]) <= n /\ Items(kept[n]) \subseteq Some
  <2>1. counted[n] = <<n, kept[n]>>
    BY <1>1
  <2>2. QED
    BY <1>8, <2>1
<1>10. QED
  BY <1>4, <1>9

\* The result of a walk that ended.
ResultOf(w) == [at |-> 0, from |-> w.from, prefix |-> w.prefix, age |-> w.age]

\* A result put is the newest, and the others are what was there.
LEMMA CachePutKeeps ==
    ASSUME cache \in Seq(Entry), Len(cache) <= CACHE_MAX, NEW w \in Walk, Active(w), Begun(w)
    PROVE  /\ ResultOf(w) \in Entry
           /\ CachePut(w) \in Seq(Entry) /\ Len(CachePut(w)) <= CACHE_MAX
           /\ Items(CachePut(w)) \subseteq Items(cache) \cup {ResultOf(w)}
<1> DEFINE room == IF Len(cache) >= CACHE_MAX THEN Tail(cache) ELSE cache
<1>1. Len(cache) \in Nat /\ CACHE_MAX \in Nat \ {0} /\ 0 \in 0..CACHE_TTL + 1
  BY Limits
<1>2. room \in Seq(Entry) /\ Len(room) + 1 <= CACHE_MAX /\ Items(room) \subseteq Items(cache)
  <2>1. CASE Len(cache) >= CACHE_MAX
    <3>1. cache # <<>>
      BY <1>1, <2>1
    <3>2. /\ Tail(cache) \in Seq(Entry) /\ Len(Tail(cache)) = Len(cache) - 1
          /\ Items(Tail(cache)) \subseteq Items(cache)
      BY <3>1, Behind
    <3>3. Len(Tail(cache)) + 1 <= CACHE_MAX
      <4>1. \A k, n, m \in Nat : (n <= m /\ k = n - 1) => k + 1 <= m
        OBVIOUS
      <4>2. Len(Tail(cache)) \in Nat
        BY <3>2
      <4> DEFINE k == Len(Tail(cache))
                 n == Len(cache)
      <4> HIDE DEF k, n
      <4>3. k \in Nat /\ n \in Nat /\ CACHE_MAX \in Nat /\ n <= CACHE_MAX /\ k = n - 1
        BY <1>1, <3>2, <4>2 DEF k, n
      <4>4. k + 1 <= CACHE_MAX
        BY <4>1, <4>3
      <4>5. QED
        BY <4>4 DEF k
    <3>4. room = Tail(cache)
      BY <2>1
    <3> HIDE DEF room
    <3>5. QED
      BY <3>2, <3>3, <3>4
  <2>2. CASE ~(Len(cache) >= CACHE_MAX)
    BY <1>1, <2>2
  <2>3. QED
    BY <2>1, <2>2
<1>3. ResultOf(w) \in Entry
  BY <1>1 DEF ResultOf, Entry, Begun, Walk
<1>4. CachePut(w) = Append(room, ResultOf(w))
  BY DEF CachePut, ResultOf
<1> HIDE DEF room
<1>5. /\ CachePut(w) \in Seq(Entry) /\ Len(CachePut(w)) = Len(room) + 1
      /\ Items(CachePut(w)) = Items(room) \cup {ResultOf(w)}
  BY <1>2, <1>3, <1>4, Appended
<1>6. QED
  BY <1>2, <1>3, <1>5

\* A moment later.
AgedEntry(e) == [e EXCEPT !.at = IF @ > CACHE_TTL THEN @ ELSE @ + 1, !.age = Older(@)]

LEMMA AgedEntryFields ==
    ASSUME NEW e \in Entry
    PROVE  /\ AgedEntry(e) \in Entry /\ AgedEntry(e).age = Older(e.age)
           /\ AgedEntry(e).at = IF e.at > CACHE_TTL THEN e.at ELSE e.at + 1
<1>1. e.at \in 0..CACHE_TTL + 1 /\ e.age \in Age
  BY DEF Entry
<1>2. (IF e.at > CACHE_TTL THEN e.at ELSE e.at + 1) \in 0..CACHE_TTL + 1 /\ Older(e.age) \in Age
  <2>1. Older(e.age) \in Age
    BY <1>1, OlderType
  <2>2. CACHE_TTL \in Nat
    BY Limits
  <2>3. QED
    BY <1>1, <2>1, <2>2
<1>3. ASSUME NEW k \in 0..CACHE_TTL + 1, NEW a \in Age
      PROVE  /\ [e EXCEPT !.at = k, !.age = a] \in Entry
             /\ [e EXCEPT !.at = k, !.age = a].at = k /\ [e EXCEPT !.at = k, !.age = a].age = a
  BY <1>3 DEF Entry
<1> DEFINE at == IF e.at > CACHE_TTL THEN e.at ELSE e.at + 1
<1>4. AgedEntry(e) = [e EXCEPT !.at = at, !.age = Older(e.age)] /\ at \in 0..CACHE_TTL + 1
  BY <1>2 DEF AgedEntry
<1> HIDE DEF at
<1>5. PICK a \in Age : a = Older(e.age)
  BY <1>2
<1>6. AgedEntry(e) = [e EXCEPT !.at = at, !.age = a]
  BY <1>4, <1>5
<1>7. PICK f : f = [e EXCEPT !.at = at, !.age = a]
  OBVIOUS
<1>8. f \in Entry /\ f.age = a /\ f.at = at
  BY <1>3, <1>4, <1>5, <1>7
<1>9. AgedEntry(e) = f
  BY <1>6, <1>7
<1>10. QED
  BY <1>5, <1>8, <1>9 DEF at

\* What a step does to the cache.
CacheMoves ==
    \/ cache' = cache
    \/ cache' = Fresh(cache)
    \/ \E c \in Clients : walk[c].phase = "ready" /\ cache' = CachePut(walk[c])
    \/ cache' = [i \in DOMAIN cache |-> AgedEntry(cache[i])]

LEMMA StepCache == [Next]_vars => CacheMoves
<1> SUFFICES ASSUME [Next]_vars PROVE CacheMoves
  OBVIOUS
<1>1. ASSUME NEW c \in Clients, NEW r \in Requests, Start(c, r) PROVE CacheMoves
  BY <1>1 DEF Start, CacheMoves
<1>2. ASSUME NEW c \in Clients, Finish(c) PROVE CacheMoves
  BY <1>2 DEF Finish, CacheMoves
<1>3. ASSUME NEW c \in Clients,
             Ask(c) \/ Resolve(c) \/ HopFails(c) \/ HopTimesOut(c) \/ Expand(c)
      PROVE  CacheMoves
  BY <1>3 DEF Ask, Resolve, HopFails, HopTimesOut, Expand, CacheMoves
<1>4. ASSUME NEW m \in Relinks, Register(m[1], m[2]) PROVE CacheMoves
  BY <1>4 DEF Register, Upset, CacheMoves
<1>5. ASSUME NEW m \in Reroutes, Reroute(m[1], m[2], m[3]) PROVE CacheMoves
  BY <1>5 DEF Reroute, Upset, CacheMoves
<1>6. ASSUME NEW n \in Nodes, Disconnect(n) PROVE CacheMoves
  BY <1>6 DEF Disconnect, Upset, CacheMoves
<1>7. CASE Tick
  BY <1>7 DEF Tick, CacheMoves, AgedEntry
<1>8. CASE UNCHANGED vars
  BY <1>8 DEF vars, CacheMoves
<1>9. QED
  BY <1>1, <1>2, <1>3, <1>4, <1>5, <1>6, <1>7, <1>8 DEF Next

-----------------------------------------------------------------------------
(* Types.                                                                  *)

LEMMA TraceInit == Init => TypeInv
<1> SUFFICES ASSUME Init PROVE TypeInv
  OBVIOUS
<1>1. links \in [Nodes -> LinkSet] /\ route \in [Nodes -> [Targets -> Seq(Hop)]]
  BY TraceAssumption DEF Init
<1>2. up \subseteq Nodes /\ walk \in [Clients -> Walk]
  BY NoWalkType DEF Init
<1>3. cache \in Seq(Entry) /\ Len(cache) <= CACHE_MAX /\ upsets \in 0..MaxUpsets
  BY Limits DEF Init
<1>4. ASSUME NEW c \in Clients PROVE Begun(walk[c])
  <2>1. walk[c] = NoWalk
    BY DEF Init
  <2>2. QED
    BY <2>1, NoWalkType DEF Begun, Active, Asking
<1>5. QED
  BY <1>1, <1>2, <1>3, <1>4 DEF TypeInv, TypeOK

LEMMA BegunKept ==
    ASSUME MeshOK, NEW w \in Walk, Begun(w), NEW v \in Walk, QuietStep(v, w) \/ Disturbed(v, w)
    PROVE  Begun(v)
<1> USE DEF Begun, Active, Asking
<1>1. CASE v = w
  BY <1>1
<1>2. CASE v = NoWalk
  BY <1>2, NoWalkType
<1>3. CASE Opens(v)
  BY <1>3 DEF Opens
<1>4. CASE Cuts(v, w)
  BY <1>4 DEF Cuts
<1>5. CASE Sends(v, w)
  BY <1>5 DEF Sends, Alike
<1>6. CASE Answers(v, w)
  BY <1>6 DEF Answers, Alike
<1>7. CASE Expands(v, w)
  BY <1>7, ExpandedFields DEF Expands
<1>8. CASE Waits(v, w)
  BY <1>8 DEF Waits, Alike
<1>9. CASE Disturbed(v, w)
  BY <1>9 DEF Disturbed, Alike
<1>10. QED
  BY <1>1, <1>2, <1>3, <1>4, <1>5, <1>6, <1>7, <1>8, <1>9 DEF QuietStep

\* The mesh stays well typed: what a node may register and forward is of the instance.
LEMMA MeshStep ==
    ASSUME TypeInv, [Next]_vars
    PROVE  MeshOK' /\ upsets' \in 0..MaxUpsets
<1>1. MeshOK /\ upsets \in 0..MaxUpsets /\ MaxUpsets \in Nat
  BY Limits DEF TypeInv, TypeOK, MeshOK
<1> USE DEF MeshOK
<1>2. ASSUME Upset PROVE upsets' \in 0..MaxUpsets
  BY <1>1, <1>2 DEF Upset
<1>3. ASSUME NEW m \in Relinks, Register(m[1], m[2]) PROVE MeshOK' /\ upsets' \in 0..MaxUpsets
  <2>1. m[1] \in Nodes /\ m[2] \in LinkSet
    BY TraceAssumption
  <2>2. QED
    BY <1>1, <1>2, <1>3, <2>1 DEF Register
<1>4. ASSUME NEW m \in Reroutes, Reroute(m[1], m[2], m[3]) PROVE MeshOK' /\ upsets' \in 0..MaxUpsets
  <2>1. m[1] \in Nodes /\ m[2] \in Targets /\ m[3] \in Seq(Hop)
    BY TraceAssumption
  <2>2. route' = [route EXCEPT ![m[1]] = [route[m[1]] EXCEPT ![m[2]] = m[3]]]
    BY <1>4 DEF Reroute
  <2>3. [route[m[1]] EXCEPT ![m[2]] = m[3]] \in [Targets -> Seq(Hop)]
    BY <1>1, <2>1
  <2>4. route' \in [Nodes -> [Targets -> Seq(Hop)]]
    BY <1>1, <2>1, <2>2, <2>3
  <2>5. QED
    BY <1>1, <1>2, <1>4, <2>4 DEF Reroute
<1>5. ASSUME NEW n \in Nodes, Disconnect(n) PROVE MeshOK' /\ upsets' \in 0..MaxUpsets
  BY <1>1, <1>2, <1>5 DEF Disconnect
<1>6. ASSUME UNCHANGED <<links, route, up, upsets>> PROVE MeshOK' /\ upsets' \in 0..MaxUpsets
  BY <1>1, <1>6
<1>7. ASSUME NEW c \in Clients, NEW r \in Requests,
             Start(c, r) \/ Finish(c) \/ Ask(c) \/ Resolve(c) \/ HopFails(c) \/ HopTimesOut(c) \/ Expand(c)
      PROVE  UNCHANGED <<links, route, up, upsets>>
  BY <1>7 DEF Start, Finish, Ask, Resolve, HopFails, HopTimesOut, Expand
<1>8. ASSUME NEW c \in Clients,
             Finish(c) \/ Ask(c) \/ Resolve(c) \/ HopFails(c) \/ HopTimesOut(c) \/ Expand(c)
      PROVE  UNCHANGED <<links, route, up, upsets>>
  BY <1>8 DEF Finish, Ask, Resolve, HopFails, HopTimesOut, Expand
<1>9. Tick \/ UNCHANGED vars => UNCHANGED <<links, route, up, upsets>>
  BY DEF Tick, vars
<1>10. QED
  BY <1>3, <1>4, <1>5, <1>6, <1>7, <1>8, <1>9 DEF Next

LEMMA CacheType ==
    ASSUME TypeInv, CacheMoves
    PROVE  cache' \in Seq(Entry) /\ Len(cache') <= CACHE_MAX
<1>1. /\ cache \in Seq(Entry) /\ Len(cache) <= CACHE_MAX /\ walk \in [Clients -> Walk]
      /\ \A c \in Clients : Begun(walk[c])
      /\ Len(cache) \in Nat /\ CACHE_MAX \in Nat
  BY Limits DEF TypeInv, TypeOK
<1>2. CASE cache' = cache
  BY <1>1, <1>2
<1>3. CASE cache' = Fresh(cache)
  <2>1. Fresh(cache) \in Seq(Entry) /\ Len(Fresh(cache)) <= Len(cache)
    BY <1>1, FreshKeeps
  <2>2. Len(Fresh(cache)) \in Nat
    BY <2>1
  <2>3. QED
    BY <1>1, <1>3, <2>1, <2>2
<1>4. ASSUME NEW c \in Clients, walk[c].phase = "ready", cache' = CachePut(walk[c])
      PROVE  cache' \in Seq(Entry) /\ Len(cache') <= CACHE_MAX
  BY <1>1, <1>4, CachePutKeeps DEF Active
<1>5. CASE cache' = [i \in DOMAIN cache |-> AgedEntry(cache[i])]
  <2>1. DOMAIN cache = 1..Len(cache)
    BY <1>1
  <2>2. \A i \in 1..Len(cache) : AgedEntry(cache[i]) \in Entry
    BY <1>1, <2>1, ElementOf, AgedEntryFields
  <2>3. cache' \in [1..Len(cache) -> Entry]
    BY <1>5, <2>1, <2>2
  <2>4. QED
    BY <1>1, <2>3
<1>6. QED
  BY <1>2, <1>3, <1>4, <1>5 DEF CacheMoves

LEMMA TypeStep == TypeInv /\ [Next]_vars => TypeInv'
<1> SUFFICES ASSUME TypeInv, [Next]_vars PROVE TypeInv'
  OBVIOUS
<1>1. Moves /\ CacheMoves
  BY StepMoves, StepCache
<1>2. MeshOK' /\ upsets' \in 0..MaxUpsets
  BY MeshStep
<1>3. cache' \in Seq(Entry) /\ Len(cache') <= CACHE_MAX
  BY <1>1, CacheType
<1>4. ASSUME NEW c \in Clients PROVE Begun(walk'[c])
  <2>1. walk[c] \in Walk /\ Begun(walk[c]) /\ MeshOK /\ walk'[c] \in Walk
    BY <1>1 DEF TypeInv, TypeOK, MeshOK, Moves
  <2>2. QuietStep(walk'[c], walk[c]) \/ Disturbed(walk'[c], walk[c])
    BY <1>1 DEF Moves
  <2>3. QED
    BY <2>1, <2>2, BegunKept
<1>5. walk' \in [Clients -> Walk]
  BY <1>1 DEF Moves
<1>6. \A c \in Clients : Begun(walk[c])'
  BY <1>4 DEF Begun, Active, Asking
<1>7. QED
  BY <1>2, <1>3, <1>5, <1>6 DEF TypeInv, TypeOK, MeshOK

\* The walks, the cache and the mesh keep their types: a reply never arrives at a walk
\* that asked nobody, a hop is never waited for past its deadline and the cache never
\* holds more than CACHE_MAX results (walk, cache_put).
THEOREM TraceTypeCorrect == Spec => []TypeOK
<1>1. Spec => []TypeInv
  BY TraceInit, TypeStep, PTL DEF Spec
<1>2. TypeInv => TypeOK
  BY DEF TypeInv
<1>3. QED
  BY <1>1, <1>2, PTL

-----------------------------------------------------------------------------
(* How long a walk takes, and how old a served result is.                  *)

LEMMA TimesMore ==
    ASSUME NEW h \in Nat, NEW k \in Nat, NEW m \in Nat, k <= m
    PROVE  h * k <= h * m /\ h * (k + 1) = h * k + h /\ h * k \in Nat /\ h * m \in Nat
<1>1. m - k \in Nat /\ m = k + (m - k)
  OBVIOUS
<1>2. h * k \in Nat /\ h * (m - k) \in Nat /\ h * m \in Nat
  BY <1>1
<1>3. h * m = h * k + h * (m - k)
  BY <1>1
<1>4. h * (k + 1) = h * k + h
  OBVIOUS
<1>5. QED
  BY <1>2, <1>3, <1>4

\* The nodes a walk has done with: those it met less those it still has to ask.
Spent(w) == Cardinality(w.visited) - Len(w.frontier)

\* A walk has waited for one hop deadline for each node it has done with, and for as
\* long as the hop it asks has been asked.
Counted(w) ==
    /\ Spent(w) \in Nat
    /\ Active(w) => w.age <= HOP_TIMEOUT * Spent(w) + w.wait

LEMMA VisitedFinite ==
    ASSUME NEW w \in Walk
    PROVE  /\ IsFiniteSet(w.visited) /\ Cardinality(w.visited) \in Nat
           /\ Cardinality(w.visited) <= Cardinality(Nodes)
           /\ Len(w.frontier) \in Nat /\ Spent(w) \in Int
           /\ w.wait \in 0..HOP_TIMEOUT /\ w.age \in Nat
<1>1. w.visited \subseteq Nodes /\ IsFiniteSet(Nodes)
  BY TraceAssumption DEF Walk
<1>2. IsFiniteSet(w.visited) /\ Cardinality(w.visited) <= Cardinality(Nodes)
  BY <1>1, FS_Subset
<1>3. Cardinality(w.visited) \in Nat
  BY <1>2, FS_CardinalityType
<1>4. Len(w.frontier) \in Nat /\ w.wait \in 0..HOP_TIMEOUT /\ w.age \in Nat
  <2>1. w.age \in Age /\ w.frontier \in Seq(Nodes \X Nat) /\ w.wait \in 0..HOP_TIMEOUT
    BY DEF Walk
  <2>2. Len(w.frontier) \in Nat
    BY <2>1
  <2>3. QED
    BY <2>1, <2>2, Limits
<1>5. QED
  BY <1>2, <1>3, <1>4 DEF Spent

\* Every next hop adds to both or to neither.
LEMMA HopSpends ==
    ASSUME NEW w \in Walk, NEW v \in Walk, NEW n, NEW d \in Nat, NEW h, HopSeen(v, w, n, d, h)
    PROVE  Spent(v) = Spent(w)
<1>1. CASE Stays(v, w)
  BY <1>1 DEF Stays, Spent
<1>2. ASSUME NEW p, Joins(v, w, p, d) PROVE Spent(v) = Spent(w)
  <2>1. p \in Nodes /\ p \notin w.visited /\ v.visited = w.visited \cup {p}
    BY <1>2 DEF Joins
  <2>2. Cardinality(v.visited) = Cardinality(w.visited) + 1
    BY <2>1, VisitedFinite, FS_AddElement
  <2>3. <<p, d + 1>> \in Nodes \X Nat /\ w.frontier \in Seq(Nodes \X Nat)
    BY <2>1 DEF Walk
  <2>4. Len(v.frontier) = Len(w.frontier) + 1
    BY <1>2, <2>3, Appended DEF Joins
  <2>5. Cardinality(w.visited) \in Nat /\ Len(w.frontier) \in Nat
    BY VisitedFinite
  <2>6. QED
    BY <2>2, <2>4, <2>5 DEF Spent
<1>3. QED
  BY <1>1, <1>2 DEF HopSeen

\* Popping the head spends one.
LEMMA TailSpends ==
    ASSUME NEW w \in Walk, w.frontier # <<>>, NEW v \in Walk,
           v.frontier = Tail(w.frontier), v.visited = w.visited
    PROVE  Spent(v) = Spent(w) + 1
<1>1. Len(Tail(w.frontier)) = Len(w.frontier) - 1
  BY Behind DEF Walk
<1>2. Cardinality(w.visited) \in Nat /\ Len(w.frontier) \in Nat
  BY VisitedFinite
<1>3. QED
  BY <1>1, <1>2 DEF Spent

LEMMA ExpandedSpends ==
    ASSUME MeshOK, NEW w \in Walk, w.frontier # <<>>
    PROVE  Spent(Expanded(w)) = Spent(w) + 1
<1> DEFINE n == Len(w.reply)
           Even == {u \in Walk : Spent(u) = Spent(w) + 1}
<1>1. PICK f : Steps(f, w)
  BY ExpandSteps
<1>2. n \in Nat /\ DepthOf(w) \in Nat
  BY HeadType DEF Walk
<1>3. f[0] \in Even
  <2>1. /\ f[0] = Popped(w) /\ Popped(w) \in Walk
        /\ Popped(w).frontier = Tail(w.frontier) /\ Popped(w).visited = w.visited
    BY <1>1, PoppedFields DEF Steps
  <2>2. QED
    BY <2>1, TailSpends
<1>4. ASSUME NEW i \in 1..n, f[i - 1] \in Even PROVE f[i] \in Even
  <2>1. f[i - 1] \in Walk /\ f[i] \in Walk /\ Spent(f[i - 1]) = Spent(w) + 1
    BY <1>1, <1>2, <1>4 DEF Steps
  <2>2. \/ HopSeen(f[i], f[i - 1], NodeOf(w), DepthOf(w), w.reply[i])
        \/ f[i] = f[i - 1]
    BY <1>1 DEF Steps
  <2>3. Spent(f[i]) = Spent(f[i - 1])
    BY <1>2, <2>1, <2>2, HopSpends
  <2>4. QED
    BY <2>1, <2>3
<1>5. n \in 0..n /\ f[n] = Expanded(w)
  BY <1>1, <1>2 DEF Steps
<1> HIDE DEF n, Even
<1>6. f[n] \in Even
  BY <1>2, <1>3, <1>4, <1>5, Stepwise
<1>7. QED
  BY <1>5, <1>6 DEF Even

LEMMA CountedKept ==
    ASSUME MeshOK, NEW w \in Walk, Begun(w), Counted(w), NEW v \in Walk,
           QuietStep(v, w) \/ Disturbed(v, w)
    PROVE  Counted(v)
<1>1. /\ Spent(w) \in Nat /\ w.wait \in 0..HOP_TIMEOUT /\ w.age \in Nat /\ HOP_TIMEOUT \in Nat
      /\ v.wait \in 0..HOP_TIMEOUT /\ v.age \in Nat
  BY VisitedFinite, Limits DEF Counted
<1>2. HOP_TIMEOUT * Spent(w) \in Nat
      /\ HOP_TIMEOUT * (Spent(w) + 1) = HOP_TIMEOUT * Spent(w) + HOP_TIMEOUT
  BY <1>1, TimesMore
<1>3. ASSUME Active(w), w.frontier # <<>>, v.wait = 0, v.age = w.age, Spent(v) = Spent(w) + 1
      PROVE  Counted(v)
  <2>1. w.age <= HOP_TIMEOUT * Spent(w) + w.wait
    BY <1>3 DEF Counted
  <2>2. v.age <= HOP_TIMEOUT * Spent(v)
    <3> DEFINE k == HOP_TIMEOUT * Spent(w)
    <3>1. HOP_TIMEOUT * Spent(v) = k + HOP_TIMEOUT /\ k \in Nat /\ w.age <= k + w.wait
      BY <1>2, <1>3, <2>1
    <3> HIDE DEF k
    <3>2. QED
      BY <1>1, <1>3, <3>1
  <2>3. Spent(v) \in Nat
    BY <1>1, <1>3
  <2>4. HOP_TIMEOUT * Spent(v) \in Nat
    BY <1>1, <2>3, TimesMore
  <2>5. QED
    BY <1>1, <1>3, <2>2, <2>3, <2>4 DEF Counted
<1>4. CASE v = w
  BY <1>4
<1>5. CASE v = NoWalk
  <2>1. Spent(v) = 0
    BY <1>5, NoWalkType, FS_EmptySet DEF Spent
  <2>2. ~Active(v)
    BY <1>5, NoWalkType DEF Active
  <2>3. QED
    BY <2>1, <2>2 DEF Counted
<1>6. CASE Opens(v)
  <2>1. Cardinality(v.visited) = 1 /\ Len(v.frontier) = 1 /\ v.age = 0 /\ v.wait = 0
    BY <1>6, FS_Singleton DEF Opens
  <2>2. Spent(v) = 0
    BY <2>1 DEF Spent
  <2>3. QED
    BY <1>1, <2>1, <2>2 DEF Counted
<1>7. CASE Cuts(v, w)
  <2>1. /\ w.frontier # <<>> /\ v.frontier = Tail(w.frontier) /\ v.visited = w.visited
        /\ v.wait = 0 /\ v.age = w.age /\ Active(w)
    BY <1>7 DEF Cuts, Active
  <2>2. Spent(v) = Spent(w) + 1
    BY <2>1, TailSpends
  <2>3. QED
    BY <1>3, <2>1, <2>2
<1>8. CASE Expands(v, w)
  <2>1. v = Expanded(w) /\ w.phase = "replied"
    BY <1>8 DEF Expands
  <2>2. w.frontier # <<>> /\ Active(w)
    BY <2>1 DEF Begun, Asking, Active
  <2>3. v.wait = 0 /\ v.age = w.age /\ Spent(v) = Spent(w) + 1
    BY <2>1, <2>2, ExpandedFields, ExpandedSpends
  <2>4. QED
    BY <1>3, <2>2, <2>3
<1>9. ASSUME Alike(v, w), v.wait = w.wait, v.age = w.age, Active(v) => Active(w) PROVE Counted(v)
  <2>1. Spent(v) = Spent(w)
    BY <1>9 DEF Alike, Spent
  <2>2. QED
    BY <1>9, <2>1 DEF Counted
<1>10. CASE Sends(v, w) \/ Answers(v, w) \/ Disturbed(v, w)
  BY <1>9, <1>10 DEF Sends, Answers, Disturbed, Active
<1>11. CASE Waits(v, w)
  <2>1. CASE ~Asking(w)
    BY <1>9, <1>11, <2>1 DEF Waits, Active
  <2>2. CASE Asking(w)
    <3>1. /\ Alike(v, w) /\ v.wait = w.wait + 1 /\ v.age = Older(w.age) /\ Active(w)
      BY <1>11, <2>2 DEF Waits, Asking, Active
    <3>2. Spent(v) = Spent(w)
      BY <3>1 DEF Alike, Spent
    <3>3. v.age <= w.age + 1
      BY <3>1, OlderType DEF Walk
    <3>4. w.age <= HOP_TIMEOUT * Spent(w) + w.wait
      BY <3>1 DEF Counted
    <3>5. v.age <= HOP_TIMEOUT * Spent(w) + v.wait
      <4> DEFINE k == HOP_TIMEOUT * Spent(w)
      <4>1. k \in Nat /\ w.age <= k + w.wait
        BY <1>2, <3>4
      <4> HIDE DEF k
      <4>2. v.age <= k + v.wait
        BY <1>1, <3>1, <3>3, <4>1
      <4>3. QED
        BY <4>2 DEF k
    <3>6. QED
      BY <1>1, <3>2, <3>5 DEF Counted
  <2>3. QED
    BY <2>1, <2>2
<1>12. QED
  BY <1>4, <1>5, <1>6, <1>7, <1>8, <1>10, <1>11 DEF QuietStep

\* What a walk may have taken.
LEMMA CountedBound ==
    ASSUME NEW w \in Walk, Begun(w), Counted(w), Active(w)
    PROVE  w.age <= LongestWalk
<1>1. /\ Spent(w) \in Nat /\ w.wait \in 0..HOP_TIMEOUT /\ w.age \in Nat /\ HOP_TIMEOUT \in Nat
      /\ Cardinality(w.visited) \in Nat /\ Len(w.frontier) \in Nat /\ Cardinality(Nodes) \in Nat
      /\ Cardinality(w.visited) <= Cardinality(Nodes)
      /\ Spent(w) = Cardinality(w.visited) - Len(w.frontier)
  BY VisitedFinite, Limits DEF Counted, Spent
<1>2. w.age <= HOP_TIMEOUT * Spent(w) + w.wait
  BY DEF Counted
<1>3. HOP_TIMEOUT * Spent(w) \in Nat
  BY <1>1, TimesMore
<1>4. CASE Asking(w)
  <2>1. w.frontier # <<>>
    BY <1>4 DEF Begun
  <2>2. Len(w.frontier) # 0
    BY <2>1 DEF Walk
  <2>3. Spent(w) + 1 <= Cardinality(Nodes) /\ Spent(w) + 1 \in Nat
    BY <1>1, <2>2
  <2>4. /\ HOP_TIMEOUT * (Spent(w) + 1) = HOP_TIMEOUT * Spent(w) + HOP_TIMEOUT
        /\ HOP_TIMEOUT * (Spent(w) + 1) <= HOP_TIMEOUT * Cardinality(Nodes)
        /\ HOP_TIMEOUT * Cardinality(Nodes) \in Nat
    <3>1. HOP_TIMEOUT * (Spent(w) + 1) = HOP_TIMEOUT * Spent(w) + HOP_TIMEOUT
      BY <1>1, TimesMore
    <3> DEFINE j == Spent(w) + 1
    <3>2. j \in Nat /\ j <= Cardinality(Nodes)
      BY <2>3
    <3> HIDE DEF j
    <3>3. /\ HOP_TIMEOUT * j <= HOP_TIMEOUT * Cardinality(Nodes)
          /\ HOP_TIMEOUT * Cardinality(Nodes) \in Nat
      BY <1>1, <3>2, TimesMore
    <3>4. QED
      BY <3>1, <3>3 DEF j
  <2> DEFINE k == HOP_TIMEOUT * Spent(w)
             l == HOP_TIMEOUT * (Spent(w) + 1)
             m == HOP_TIMEOUT * Cardinality(Nodes)
  <2>5. k \in Nat /\ m \in Nat /\ w.age <= k + w.wait /\ l = k + HOP_TIMEOUT /\ l <= m
    BY <1>2, <1>3, <2>4
  <2> HIDE DEF k, l, m
  <2>6. w.age <= m
    BY <1>1, <2>5
  <2>7. QED
    BY <2>6 DEF m, LongestWalk
<1>5. CASE ~Asking(w)
  <2>1. w.wait = 0
    BY <1>5 DEF Begun
  <2>2. Spent(w) <= Cardinality(Nodes)
    BY <1>1
  <2>3. /\ HOP_TIMEOUT * Spent(w) <= HOP_TIMEOUT * Cardinality(Nodes)
        /\ HOP_TIMEOUT * Cardinality(Nodes) \in Nat
    BY <1>1, <2>2, TimesMore
  <2> DEFINE k == HOP_TIMEOUT * Spent(w)
             m == HOP_TIMEOUT * Cardinality(Nodes)
  <2>4. k \in Nat /\ m \in Nat /\ w.age <= k /\ k <= m
    BY <1>1, <1>2, <1>3, <2>1, <2>3
  <2> HIDE DEF k, m
  <2>5. w.age <= m
    BY <1>1, <2>4
  <2>6. QED
    BY <2>5 DEF m, LongestWalk
<1>6. QED
  BY <1>4, <1>5

\* A cached result is no older than one walk and the time it has been cached for.
CacheAged == \A e \in Items(cache) : e.age <= LongestWalk + e.at

TimeInv == TypeInv /\ CacheAged /\ \A c \in Clients : Counted(walk[c])

LEMMA TimeInit == Init => TimeInv
<1> SUFFICES ASSUME Init PROVE TimeInv
  OBVIOUS
<1>1. TypeInv
  BY TraceInit
<1>2. CacheAged
  BY DEF Init, CacheAged, Items
<1>3. ASSUME NEW c \in Clients PROVE Counted(walk[c])
  <2>1. walk[c] = NoWalk
    BY DEF Init
  <2>2. Spent(NoWalk) = 0 /\ ~Active(NoWalk)
    BY NoWalkType, FS_EmptySet DEF Spent, Active
  <2>3. QED
    BY <2>1, <2>2 DEF Counted
<1>4. QED
  BY <1>1, <1>2, <1>3 DEF TimeInv

LEMMA AgedStep ==
    ASSUME TimeInv, CacheMoves
    PROVE  \A e \in Items(cache') : e.age <= LongestWalk + e.at
<1>1. /\ cache \in Seq(Entry) /\ Len(cache) <= CACHE_MAX /\ walk \in [Clients -> Walk]
      /\ \A c \in Clients : Begun(walk[c]) /\ Counted(walk[c])
      /\ \A e \in Items(cache) : e.age <= LongestWalk + e.at
      /\ LongestWalk \in Nat /\ CACHE_TTL \in Nat
  BY Limits DEF TimeInv, TypeInv, TypeOK, CacheAged
<1>2. CASE cache' = cache
  BY <1>1, <1>2
<1>3. CASE cache' = Fresh(cache)
  BY <1>1, <1>3, FreshKeeps
<1>4. ASSUME NEW c \in Clients, walk[c].phase = "ready", cache' = CachePut(walk[c])
      PROVE  \A e \in Items(cache') : e.age <= LongestWalk + e.at
  <2>1. Active(walk[c])
    BY <1>4 DEF Active
  <2>2. Items(cache') \subseteq Items(cache) \cup {ResultOf(walk[c])}
    BY <1>1, <1>4, <2>1, CachePutKeeps
  <2>3. walk[c].age <= LongestWalk /\ walk[c].age \in Nat
    BY <1>1, <2>1, CountedBound, VisitedFinite
  <2>4. ResultOf(walk[c]).age <= LongestWalk + ResultOf(walk[c]).at
    BY <1>1, <2>3 DEF ResultOf
  <2>5. QED
    BY <1>1, <2>2, <2>4
<1>5. CASE cache' = [i \in DOMAIN cache |-> AgedEntry(cache[i])]
  <2>1. ASSUME NEW i \in DOMAIN cache
        PROVE  AgedEntry(cache[i]).age <= LongestWalk + AgedEntry(cache[i]).at
    <3> DEFINE e == cache[i]
    <3>1. e \in Entry /\ e \in Items(cache)
      BY <1>1, ElementOf DEF Items
    <3>2. e.at \in 0..CACHE_TTL + 1 /\ e.age \in Age
      BY <3>1 DEF Entry
    <3>3. e.age <= LongestWalk + e.at
      BY <1>1, <3>1
    <3>4. /\ AgedEntry(e).age = Older(e.age)
          /\ AgedEntry(e).at = IF e.at > CACHE_TTL THEN e.at ELSE e.at + 1
      BY <3>1, AgedEntryFields
    <3>5. Older(e.age) <= e.age + 1 /\ Older(e.age) <= LongestWalk + CACHE_TTL + 1
          /\ Older(e.age) \in Nat /\ e.age \in Nat
      BY <3>2, OlderType, Limits
    <3> HIDE DEF e
    <3>6. Older(e.age) <= LongestWalk + IF e.at > CACHE_TTL THEN e.at ELSE e.at + 1
      <4>1. CASE e.at > CACHE_TTL
        <5>1. e.at = CACHE_TTL + 1
          BY <1>1, <3>2, <4>1
        <5>2. Older(e.age) <= LongestWalk + e.at
          BY <1>1, <3>5, <5>1
        <5>3. QED
          BY <4>1, <5>2
      <4>2. CASE ~(e.at > CACHE_TTL)
        <5>1. Older(e.age) <= LongestWalk + (e.at + 1)
          BY <1>1, <3>2, <3>3, <3>5
        <5>2. QED
          BY <4>2, <5>1
      <4>3. QED
        BY <4>1, <4>2
    <3>7. QED
      BY <3>4, <3>6 DEF e
  <2>2. QED
    BY <1>5, <2>1 DEF Items
<1>6. QED
  BY <1>2, <1>3, <1>4, <1>5 DEF CacheMoves

LEMMA TimeStep == TimeInv /\ [Next]_vars => TimeInv'
<1> SUFFICES ASSUME TimeInv, [Next]_vars PROVE TimeInv'
  OBVIOUS
<1>1. TypeInv /\ Moves /\ CacheMoves
  BY StepMoves, StepCache DEF TimeInv
<1>2. TypeInv'
  BY <1>1, TypeStep
<1>3. \A e \in Items(cache') : e.age <= LongestWalk + e.at
  BY <1>1, AgedStep
<1>4. CacheAged'
  BY <1>3 DEF CacheAged, Items
<1>5. ASSUME NEW c \in Clients PROVE Counted(walk'[c])
  <2>1. /\ walk[c] \in Walk /\ Begun(walk[c]) /\ Counted(walk[c]) /\ MeshOK
        /\ walk'[c] \in Walk
    BY <1>1 DEF TimeInv, TypeInv, TypeOK, MeshOK, Moves
  <2>2. QuietStep(walk'[c], walk[c]) \/ Disturbed(walk'[c], walk[c])
    BY <1>1 DEF Moves
  <2>3. QED
    BY <2>1, <2>2, CountedKept
<1>6. \A c \in Clients : Counted(walk[c])'
  BY <1>5 DEF Counted, Spent, Active
<1>7. QED
  BY <1>2, <1>4, <1>6 DEF TimeInv

LEMMA TimeInvariant == Spec => []TimeInv
BY TimeInit, TimeStep, PTL DEF Spec

\* However the mesh loops, fails and changes, a walk ends within one hop deadline per
\* node of the mesh: it asks every node once, as a node enters its frontier only when it
\* is met first (the visited set of walk, HOP_TIMEOUT).
THEOREM WalkTime == Spec => []BoundedWalk
<1>1. TimeInv => BoundedWalk
  BY CountedBound DEF TimeInv, TypeInv, TypeOK, BoundedWalk
<1>2. QED
  BY <1>1, TimeInvariant, PTL

\* A request is never served from a walk that began longer than one walk and the cache's
\* life time ago, whatever put it there (cache_get, cache_put).
THEOREM ServedAge == Spec => []BoundedAge
<1>1. TimeInv => BoundedAge
  <2> SUFFICES ASSUME TimeInv, NEW r \in Requests,
                      NEW i \in Hits(Fresh(cache), r.from, PrefixOf(r))
               PROVE  Fresh(cache)[i].age <= LongestWalk + CACHE_TTL
    BY DEF BoundedAge
  <2> DEFINE e == Fresh(cache)[i]
  <2>1. cache \in Seq(Entry) /\ LongestWalk \in Nat /\ CACHE_TTL \in Nat
    BY Limits DEF TimeInv, TypeInv, TypeOK
  <2>2. Fresh(cache) \in Seq(Entry) /\ i \in DOMAIN Fresh(cache)
    BY <2>1, FreshKeeps DEF Hits
  <2>3. e \in Entry /\ e \in Items(Fresh(cache))
    BY <2>2, ElementOf DEF Items
  <2>4. e \in Items(cache) /\ e.at <= CACHE_TTL
    BY <2>1, <2>3, FreshKeeps
  <2>5. e.age <= LongestWalk + e.at
    BY <2>4 DEF TimeInv, CacheAged
  <2>6. e.at \in Int /\ e.age \in Nat
    <3> HIDE DEF e
    <3>1. e.at \in 0..CACHE_TTL + 1 /\ e.age \in Age
      BY <2>3 DEF Entry
    <3>2. e.age \in Nat
      BY <3>1, Limits
    <3>3. QED
      BY <2>1, <3>1, <3>2
  <2> HIDE DEF e
  <2>7. e.age <= LongestWalk + CACHE_TTL
    BY <2>1, <2>4, <2>5, <2>6
  <2>8. QED
    BY <2>7 DEF e
<1>2. QED
  BY <1>1, TimeInvariant, PTL

-----------------------------------------------------------------------------
(* The rows of a walk.                                                     *)

\* Node n at depth d is the source, or the far end of a row one hop nearer.
Under(rows, from, n, d) ==
    IF d = 0 THEN n = from
    ELSE \E e \in rows : e.depth = d - 1 /\ e.to = n /\ e.kind # "term"

\* What hangs together are the rows and the nodes still to be asked.
Hangs(w) ==
    /\ \A e \in Items(w.edges) : Under(Items(w.edges), w.from, e.node, e.depth)
    /\ \A x \in Items(w.frontier) : Under(Items(w.edges), w.from, x[1], x[2])
    /\ w.complete => \E e \in Items(w.edges) : e.kind = "term"

LEMMA UnderMore ==
    ASSUME NEW rows, NEW more, rows \subseteq more, NEW from, NEW n, NEW d, Under(rows, from, n, d)
    PROVE  Under(more, from, n, d)
BY DEF Under

\* A row more, of a node that hangs, and nothing more to ask but what hangs.
LEMMA HangsMore ==
    ASSUME NEW w \in Walk, Hangs(w), NEW v \in Walk, NEW r \in Row,
           v.from = w.from, v.edges = Append(w.edges, r),
           Under(Items(w.edges), w.from, r.node, r.depth),
           \A x \in Items(v.frontier) :
              x \in Items(w.frontier) \/ Under(Items(v.edges), v.from, x[1], x[2]),
           v.complete => w.complete \/ r.kind = "term"
    PROVE  Hangs(v)
<1> DEFINE rows == Items(w.edges)
           more == Items(v.edges)
<1>1. w.edges \in Seq(Row)
  BY DEF Walk
<1>2. more = rows \cup {r}
  BY <1>1, Appended
<1> HIDE DEF rows, more
<1>3. \A e \in rows : Under(rows, w.from, e.node, e.depth)
  BY DEF Hangs, rows
<1>4. \A x \in Items(w.frontier) : Under(rows, w.from, x[1], x[2])
  BY DEF Hangs, rows
<1>5. Under(rows, w.from, r.node, r.depth)
  BY DEF rows
<1>6. \A e \in more : Under(more, v.from, e.node, e.depth)
  BY <1>2, <1>3, <1>5, UnderMore
<1>7. \A x \in Items(v.frontier) : Under(more, v.from, x[1], x[2])
  <2>1. ASSUME NEW x \in Items(v.frontier) PROVE Under(more, v.from, x[1], x[2])
    <3>1. CASE x \in Items(w.frontier)
      BY <1>2, <1>4, <3>1, UnderMore
    <3>2. CASE Under(more, v.from, x[1], x[2])
      BY <3>2
    <3>3. QED
      BY <3>1, <3>2 DEF more
  <2>2. QED
    BY <2>1
<1>8. v.complete => \E e \in more : e.kind = "term"
  <2>1. w.complete => \E e \in rows : e.kind = "term"
    BY DEF Hangs, rows
  <2>2. QED
    BY <1>2, <2>1
<1>9. QED
  BY <1>6, <1>7, <1>8 DEF Hangs, more

LEMMA HopHangs ==
    ASSUME MeshOK, NEW w \in Walk, NEW v \in Walk, NEW n \in Nodes, NEW d \in Nat, NEW h \in Hop,
           SameRequest(v, w), HopSeen(v, w, n, d, h), Hangs(w), Under(Items(w.edges), w.from, n, d)
    PROVE  Hangs(v) /\ Under(Items(v.edges), v.from, n, d)
<1>1. v.from = w.from /\ w.edges \in Seq(Row) /\ w.frontier \in Seq(Nodes \X Nat)
  BY DEF SameRequest, Walk
<1>2. ASSUME NEW r \in Row, v.edges = Append(w.edges, r)
      PROVE  /\ Items(v.edges) = Items(w.edges) \cup {r}
             /\ Under(Items(v.edges), v.from, n, d)
  <2>1. Items(v.edges) = Items(w.edges) \cup {r}
    BY <1>1, <1>2, Appended
  <2>2. QED
    BY <1>1, <2>1, UnderMore
<1>3. CASE h.kind = "dev"
  <2>1. /\ v.edges = Append(w.edges, TermRow(n, d)) /\ v.frontier = w.frontier
    BY <1>3 DEF HopSeen, Stays
  <2>2. TermRow(n, d) \in Row /\ TermRow(n, d).kind = "term"
        /\ TermRow(n, d).node = n /\ TermRow(n, d).depth = d
    BY RowsType
  <2>3. Hangs(v)
    BY <1>1, <2>1, <2>2, HangsMore
  <2>4. QED
    BY <1>2, <2>1, <2>2, <2>3
<1>4. CASE h.kind # "dev"
  <2> DEFINE r == ViaRow(n, d, h)
  <2>1. v.edges = Append(w.edges, r) /\ v.complete = w.complete
    BY <1>4 DEF HopSeen
  <2>2. r \in Row /\ r.kind # "term" /\ r.node = n /\ r.depth = d /\ r.to = PeerForEgress(n, h.iface)
    BY RowsType
  <2> HIDE DEF r
  <2>3. Items(v.edges) = Items(w.edges) \cup {r} /\ Under(Items(v.edges), v.from, n, d)
    BY <1>2, <2>1, <2>2
  <2>4. \A x \in Items(v.frontier) :
           x \in Items(w.frontier) \/ Under(Items(v.edges), v.from, x[1], x[2])
    <3>1. CASE Stays(v, w)
      BY <3>1 DEF Stays
    <3>2. CASE Joins(v, w, r.to, d)
      <4>1. r.to \in Nodes /\ v.frontier = Append(w.frontier, <<r.to, d + 1>>)
        BY <3>2 DEF Joins
      <4>2. Items(v.frontier) = Items(w.frontier) \cup {<<r.to, d + 1>>}
        <5> DEFINE y == <<r.to, d + 1>>
        <5>1. y \in Nodes \X Nat /\ v.frontier = Append(w.frontier, y)
          BY <4>1
        <5> HIDE DEF y
        <5>2. Items(v.frontier) = Items(w.frontier) \cup {y}
          BY <1>1, <5>1, Appended
        <5>3. QED
          BY <5>2 DEF y
      <4>3. Under(Items(v.edges), v.from, r.to, d + 1)
        <5>1. d + 1 # 0 /\ d + 1 - 1 = d /\ r \in Items(v.edges)
          BY <2>3
        <5>2. QED
          BY <2>2, <5>1 DEF Under
      <4>4. QED
        BY <4>2, <4>3
    <3>3. QED
      BY <1>4, <2>2, <3>1, <3>2 DEF HopSeen
  <2>5. Hangs(v)
    BY <1>1, <2>1, <2>2, <2>4, HangsMore
  <2>6. QED
    BY <2>3, <2>5
<1>5. QED
  BY <1>3, <1>4

\* The head of the frontier hangs, and what is behind it does.
LEMMA HeadHangs ==
    ASSUME NEW w \in Walk, Hangs(w), w.frontier # <<>>
    PROVE  /\ Under(Items(w.edges), w.from, NodeOf(w), DepthOf(w))
           /\ Items(Tail(w.frontier)) \subseteq Items(w.frontier)
<1>1. Items(w.frontier) = Items(Tail(w.frontier)) \cup {Head(w.frontier)}
  BY Behind DEF Walk
<1>2. Under(Items(w.edges), w.from, Head(w.frontier)[1], Head(w.frontier)[2])
  BY <1>1 DEF Hangs
<1>3. QED
  BY <1>1, <1>2 DEF NodeOf, DepthOf

LEMMA ExpandedHangs ==
    ASSUME MeshOK, NEW w \in Walk, Hangs(w), w.frontier # <<>>
    PROVE  Hangs(Expanded(w))
<1> DEFINE n == Len(w.reply)
           x == NodeOf(w)
           d == DepthOf(w)
           Good == {u \in Walk : Hangs(u) /\ Under(Items(u.edges), u.from, x, d)}
<1>1. PICK f : Steps(f, w)
  BY ExpandSteps
<1>2. n \in Nat /\ x \in Nodes /\ d \in Nat /\ \A i \in 1..n : w.reply[i] \in Hop
  <2>1. w.reply \in Seq(Hop)
    BY DEF Walk
  <2>2. QED
    BY <2>1, HeadType, ElementOf
<1>3. f[0] \in Good
  <2>1. f[0] = Popped(w) /\ Popped(w) \in Walk
        /\ Popped(w).from = w.from /\ Popped(w).frontier = Tail(w.frontier)
        /\ Popped(w).edges = w.edges /\ Popped(w).complete = w.complete
    BY <1>1, PoppedFields DEF Steps
  <2>2. Hangs(Popped(w)) /\ Under(Items(w.edges), w.from, x, d)
    BY <2>1, HeadHangs DEF Hangs
  <2>3. QED
    BY <2>1, <2>2
<1>4. ASSUME NEW i \in 1..n, f[i - 1] \in Good PROVE f[i] \in Good
  <2>1. f[i - 1] \in Walk /\ f[i] \in Walk
        /\ Hangs(f[i - 1]) /\ Under(Items(f[i - 1].edges), f[i - 1].from, x, d)
    BY <1>1, <1>2, <1>4 DEF Steps
  <2>2. \/ SameRequest(f[i], f[i - 1]) /\ HopSeen(f[i], f[i - 1], x, d, w.reply[i])
        \/ f[i] = f[i - 1]
    BY <1>1 DEF Steps
  <2> HIDE DEF x, d
  <2>3. CASE f[i] = f[i - 1]
    BY <2>1, <2>3
  <2>4. CASE SameRequest(f[i], f[i - 1]) /\ HopSeen(f[i], f[i - 1], x, d, w.reply[i])
    BY <1>2, <2>1, <2>4, HopHangs
  <2>5. QED
    BY <2>2, <2>3, <2>4
<1>5. n \in 0..n /\ f[n] = Expanded(w)
  BY <1>1, <1>2 DEF Steps
<1> HIDE DEF n, Good
<1>6. f[n] \in Good
  BY <1>2, <1>3, <1>4, <1>5, Stepwise
<1>7. QED
  BY <1>5, <1>6 DEF Good

LEMMA HangsKept ==
    ASSUME MeshOK, NEW w \in Walk, Begun(w), Hangs(w), NEW v \in Walk,
           QuietStep(v, w) \/ Disturbed(v, w)
    PROVE  Hangs(v)
<1>1. CASE v = w
  BY <1>1
<1>2. CASE v = NoWalk
  BY <1>2, NoWalkType DEF Hangs, Items
<1>3. CASE Opens(v)
  <2>1. v.edges = <<>> /\ v.frontier = <<<<v.from, 0>>>> /\ v.complete = FALSE
    BY <1>3 DEF Opens
  <2>2. Items(v.edges) = {} /\ Items(v.frontier) = {<<v.from, 0>>}
    BY <2>1 DEF Items
  <2>3. QED
    BY <2>1, <2>2 DEF Hangs, Under
<1>4. CASE Cuts(v, w)
  <2>1. /\ w.frontier # <<>> /\ v.from = w.from /\ v.frontier = Tail(w.frontier)
        /\ v.edges = Append(w.edges, BrokenRow(w)) /\ v.complete = w.complete
    BY <1>4 DEF Cuts
  <2>2. BrokenRow(w) \in Row /\ BrokenRow(w).node = NodeOf(w) /\ BrokenRow(w).depth = DepthOf(w)
    BY <2>1, HeadType DEF BrokenRow
  <2>3. QED
    BY <2>1, <2>2, HeadHangs, HangsMore
<1>5. CASE Expands(v, w)
  BY <1>5, ExpandedHangs DEF Expands, Begun, Asking
<1>6. CASE Sends(v, w) \/ Answers(v, w) \/ Disturbed(v, w) \/ Waits(v, w)
  BY <1>6 DEF Sends, Answers, Disturbed, Waits, Alike, Hangs
<1>7. QED
  BY <1>1, <1>2, <1>3, <1>4, <1>5, <1>6 DEF QuietStep

PathInv == TypeInv /\ \A c \in Clients : Hangs(walk[c])

LEMMA PathInit == Init => PathInv
<1> SUFFICES ASSUME Init PROVE PathInv
  OBVIOUS
<1>1. ASSUME NEW c \in Clients PROVE Hangs(walk[c])
  <2>1. walk[c] = NoWalk
    BY DEF Init
  <2>2. QED
    BY <2>1, NoWalkType DEF Hangs, Items
<1>2. QED
  BY <1>1, TraceInit DEF PathInv

LEMMA PathStep == PathInv /\ [Next]_vars => PathInv'
<1> SUFFICES ASSUME PathInv, [Next]_vars PROVE PathInv'
  OBVIOUS
<1>1. Moves /\ TypeInv'
  BY StepMoves, TypeStep DEF PathInv
<1>2. ASSUME NEW c \in Clients PROVE Hangs(walk'[c])
  <2>1. /\ walk[c] \in Walk /\ Begun(walk[c]) /\ Hangs(walk[c]) /\ MeshOK
        /\ walk'[c] \in Walk
    BY <1>1 DEF PathInv, TypeInv, TypeOK, MeshOK, Moves
  <2>2. QuietStep(walk'[c], walk[c]) \/ Disturbed(walk'[c], walk[c])
    BY <1>1 DEF Moves
  <2>3. QED
    BY <2>1, <2>2, HangsKept
<1>3. \A c \in Clients : Hangs(walk[c])'
  BY <1>2 DEF Hangs, Items, Under
<1>4. QED
  BY <1>1, <1>3 DEF PathInv

\* Whatever changes while a walk waits, every row below the source is the far end of a row
\* one hop nearer, and a result that says complete has a row of a node that answered that
\* it owns the prefix (walk): the inductive invariant says the same of the nodes the walk
\* still has to ask.
THEOREM RowsHang == Spec => []PathShown
<1>1. PathInv => PathShown
  BY DEF PathInv, PathShown, Hangs, Items, Under
<1>2. QED
  BY <1>1, PathInit, PathStep, PTL DEF Spec

-----------------------------------------------------------------------------
(* The truth about a mesh that stands still.                               *)

\* near[k]: the nodes at most k hops from the source.
Reaches(near, from, p) ==
    /\ near \in [0..HOP_CAP -> SUBSET Nodes]
    /\ near[0] = {from}
    /\ \A k \in 1..HOP_CAP :
          near[k] = near[k - 1] \cup UNION {PeersOf(n, p) : n \in near[k - 1]}

\* Node n is d hops from the source, and no fewer.
At(near, n, d) == d \in 0..HOP_CAP /\ n \in near[d] /\ (d # 0 => n \notin near[d - 1])

\* Nodes are asked in the order of their depth, two depths at a time.
InOrder(q) ==
    \A i, j \in 1..Len(q) : i <= j => q[i][2] <= q[j][2] /\ q[j][2] <= q[i][2] + 1

\* A breadth-first walk: each node met has a row or is still to be asked, at its distance;
\* what a node with a row forwards to has been met, and so has the whole layer of the node
\* to be asked next.
Layers(w, near) ==
    /\ \A e \in Items(w.edges) : At(near, e.node, e.depth)
    /\ \A x \in Items(w.frontier) : At(near, x[1], x[2])
    /\ \A n : n \in w.visited <=> \/ \E e \in Items(w.edges) : e.node = n
                                  \/ \E x \in Items(w.frontier) : x[1] = n
    /\ w.from \in w.visited
    /\ InOrder(w.frontier)
    /\ \A e \in Items(w.edges) : e.depth < HOP_CAP => PeersOf(e.node, w.prefix) \subseteq w.visited
    /\ w.frontier # <<>> => near[DepthOf(w)] \subseteq w.visited
    /\ w.complete <=> \E e \in Items(w.edges) : e.depth < HOP_CAP /\ HasDev(e.node, w.prefix)
    /\ w.capHit <=> \E e \in Items(w.edges) : e.depth = HOP_CAP

\* A hop that is asked is there, and its answer is what it forwards to.
Truthful(w) ==
    /\ Asking(w) => w.phase # "lost" /\ NodeOf(w) \in up /\ DepthOf(w) < HOP_CAP
    /\ w.phase = "replied" => w.reply = route[NodeOf(w)][w.prefix]

Sound(w) ==
    Active(w) /\ w.still =>
        /\ Truthful(w)
        /\ \A near : Reaches(near, w.from, w.prefix) => Layers(w, near)

\* Layers grow.
LEMMA NearGrows ==
    ASSUME NEW from, NEW p, NEW near, Reaches(near, from, p),
           NEW k \in 0..HOP_CAP, NEW l \in 0..HOP_CAP, k <= l
    PROVE  near[k] \subseteq near[l]
<1> DEFINE n == l - k
           f == [i \in 0..n |-> near[k + i]]
           Above == {T \in SUBSET Nodes : near[k] \subseteq T}
<1>1. n \in Nat /\ HOP_CAP \in Nat /\ near \in [0..HOP_CAP -> SUBSET Nodes]
  BY Limits DEF Reaches
<1>2. f[0] \in Above
  <2>1. f[0] = near[k] /\ near[k] \in SUBSET Nodes
    BY <1>1
  <2>2. QED
    BY <2>1
<1>3. ASSUME NEW i \in 1..n, f[i - 1] \in Above PROVE f[i] \in Above
  <2>1. k + i \in 1..HOP_CAP /\ k + i - 1 = k + (i - 1) /\ i - 1 \in 0..n /\ i \in 0..n
    BY <1>1
  <2>2. f[i] = near[k + i] /\ f[i - 1] = near[k + i - 1]
    BY <2>1
  <2>3. near[k + i - 1] \subseteq near[k + i] /\ near[k + i] \in SUBSET Nodes
    BY <1>1, <2>1 DEF Reaches
  <2>4. QED
    BY <1>3, <2>2, <2>3
<1>4. l = k + n /\ n \in 0..n
  BY <1>1
<1>5. f[n] = near[l]
  BY <1>4
<1> HIDE DEF f, n, Above
<1>6. f[n] \in Above
  BY <1>1, <1>2, <1>3, <1>4, Stepwise
<1>7. QED
  BY <1>5, <1>6 DEF Above

\* A node has one distance.
LEMMA AtOnce ==
    ASSUME NEW from, NEW p, NEW near, Reaches(near, from, p),
           NEW n, NEW d, At(near, n, d), NEW k \in 0..HOP_CAP, n \in near[k]
    PROVE  d <= k
<1>1. SUFFICES ASSUME ~(d <= k) PROVE FALSE
  OBVIOUS
<1>2. d \in 0..HOP_CAP /\ HOP_CAP \in Nat /\ n \in near[d] /\ (d # 0 => n \notin near[d - 1])
  BY Limits DEF At
<1>3. d # 0 /\ d - 1 \in 0..HOP_CAP /\ k <= d - 1
  BY <1>1, <1>2
<1>4. near[k] \subseteq near[d - 1]
  BY <1>3, NearGrows
<1>5. QED
  BY <1>2, <1>3, <1>4

\* What a step that is done with the head of the frontier makes of a walk: rows of that
\* node, and its peers met.
Done(v, w) ==
    /\ v.from = w.from /\ v.prefix = w.prefix
    /\ Items(w.edges) \subseteq Items(v.edges)
    /\ \A e \in Items(v.edges) : e \in Items(w.edges) \/ (e.node = NodeOf(w) /\ e.depth = DepthOf(w))
    /\ \E e \in Items(v.edges) : e.node = NodeOf(w) /\ e.depth = DepthOf(w)
    /\ Items(Tail(w.frontier)) \subseteq Items(v.frontier)
    /\ \A x \in Items(v.frontier) :
          \/ x \in Items(Tail(w.frontier))
          \/ /\ DepthOf(w) < HOP_CAP /\ x[2] = DepthOf(w) + 1
             /\ x[1] \in PeersOf(NodeOf(w), w.prefix) \ w.visited
    /\ w.visited \subseteq v.visited
    /\ \A n \in v.visited : n \in w.visited \/ \E x \in Items(v.frontier) : x[1] = n
    /\ \A x \in Items(v.frontier) : x[1] \in v.visited
    /\ InOrder(v.frontier)
    /\ DepthOf(w) < HOP_CAP => PeersOf(NodeOf(w), w.prefix) \subseteq v.visited
    /\ v.complete <=> w.complete \/ (DepthOf(w) < HOP_CAP /\ HasDev(NodeOf(w), w.prefix))
    /\ v.capHit <=> w.capHit \/ DepthOf(w) = HOP_CAP

\* When the next node to ask is a layer further, everything nearer has a row, and what it
\* forwards to is that layer.
LEMMA NextLayer ==
    ASSUME NEW v \in Walk, v.frontier # <<>>, NEW near, Reaches(near, v.from, v.prefix),
           \A e \in Items(v.edges) : At(near, e.node, e.depth),
           \A x \in Items(v.frontier) : At(near, x[1], x[2]),
           \A n \in v.visited : \/ \E e \in Items(v.edges) : e.node = n
                                \/ \E x \in Items(v.frontier) : x[1] = n,
           \A e \in Items(v.edges) : e.depth < HOP_CAP => PeersOf(e.node, v.prefix) \subseteq v.visited,
           NEW d \in 0..HOP_CAP, d + 1 \in 0..HOP_CAP, near[d] \subseteq v.visited,
           \A x \in Items(v.frontier) : d + 1 <= x[2]
    PROVE  near[d + 1] \subseteq v.visited
<1>1. /\ HOP_CAP \in Nat /\ d + 1 \in 1..HOP_CAP /\ d + 1 - 1 = d
      /\ near[d + 1] = near[d] \cup UNION {PeersOf(n, v.prefix) : n \in near[d]}
  <2>1. HOP_CAP \in Nat /\ d + 1 \in 1..HOP_CAP /\ d + 1 - 1 = d
    BY Limits
  <2>2. near[d + 1] = near[d + 1 - 1] \cup UNION {PeersOf(n, v.prefix) : n \in near[d + 1 - 1]}
    BY <2>1 DEF Reaches
  <2>3. QED
    BY <2>1, <2>2
<1>2. ASSUME NEW n \in near[d] PROVE PeersOf(n, v.prefix) \subseteq v.visited
  <2>1. n \in v.visited
    BY <1>2
  <2>2. CASE \E x \in Items(v.frontier) : x[1] = n
    <3>1. PICK x \in Items(v.frontier) : x[1] = n
      BY <2>2
    <3>2. At(near, n, x[2]) /\ d + 1 <= x[2]
      BY <3>1
    <3>3. x[2] <= d
      BY <3>2, AtOnce
    <3>4. x[2] \in 0..HOP_CAP
      BY <3>2 DEF At
    <3>5. QED
      BY <1>1, <3>2, <3>3, <3>4
  <2>3. CASE \E e \in Items(v.edges) : e.node = n
    <3>1. PICK e \in Items(v.edges) : e.node = n
      BY <2>3
    <3>2. At(near, n, e.depth)
      BY <3>1
    <3>3. e.depth <= d /\ e.depth \in 0..HOP_CAP
      BY <3>2, AtOnce DEF At
    <3>4. e.depth < HOP_CAP
      BY <1>1, <3>3
    <3>5. QED
      BY <3>1, <3>4
  <2>4. QED
    BY <2>1, <2>2, <2>3
<1>3. QED
  BY <1>1, <1>2

\* The items of a frontier that is in order are no nearer than its head, and at most a
\* layer further.
LEMMA HeadNearest ==
    ASSUME NEW q \in Seq(Nodes \X Nat), q # <<>>, InOrder(q)
    PROVE  \A x \in Items(q) : Head(q)[2] <= x[2] /\ x[2] <= Head(q)[2] + 1
<1>1. Head(q) = q[1] /\ Len(q) \in Nat /\ DOMAIN q = 1..Len(q) /\ 1 \in 1..Len(q)
  BY Behind
<1>2. \A i \in 1..Len(q) : 1 <= i
  OBVIOUS
<1>3. QED
  BY <1>1, <1>2 DEF Items, InOrder

\* A layered walk stays layered when it is done with the node at the head.
LEMMA DoneLayers ==
    ASSUME NEW w \in Walk, w.frontier # <<>>, NEW v \in Walk, Done(v, w),
           NEW near, Reaches(near, w.from, w.prefix), Layers(w, near)
    PROVE  Layers(v, near)
<1> DEFINE n == NodeOf(w)
           d == DepthOf(w)
           rows == Items(w.edges)
           more == Items(v.edges)
           rest == Items(Tail(w.frontier))
           front == Items(w.frontier)
           next == Items(v.frontier)
           peers == PeersOf(n, w.prefix)
<1>1. /\ n \in Nodes /\ d \in Nat /\ front = rest \cup {<<n, d>>}
      /\ w.frontier \in Seq(Nodes \X Nat) /\ v.frontier \in Seq(Nodes \X Nat)
      /\ Head(w.frontier) = <<n, d>>
  <2>1. w.frontier \in Seq(Nodes \X Nat) /\ v.frontier \in Seq(Nodes \X Nat)
    BY DEF Walk
  <2>2. n \in Nodes /\ d \in Nat /\ Head(w.frontier) = <<n, d>>
    BY HeadType
  <2>3. front = rest \cup {Head(w.frontier)}
    BY <2>1, Behind
  <2>4. QED
    BY <2>1, <2>2, <2>3
<1>2. /\ v.from = w.from /\ v.prefix = w.prefix
      /\ rows \subseteq more
      /\ \A e \in more : e \in rows \/ (e.node = n /\ e.depth = d)
      /\ \E e \in more : e.node = n /\ e.depth = d
      /\ rest \subseteq next
      /\ \A x \in next : \/ x \in rest
                         \/ d < HOP_CAP /\ x[2] = d + 1 /\ x[1] \in peers \ w.visited
      /\ w.visited \subseteq v.visited
      /\ \A m \in v.visited : m \in w.visited \/ \E x \in next : x[1] = m
      /\ \A x \in next : x[1] \in v.visited
      /\ InOrder(v.frontier)
      /\ d < HOP_CAP => peers \subseteq v.visited
      /\ v.complete <=> w.complete \/ (d < HOP_CAP /\ HasDev(n, w.prefix))
      /\ v.capHit <=> w.capHit \/ d = HOP_CAP
  BY DEF Done
<1>3. /\ \A e \in rows : At(near, e.node, e.depth)
      /\ \A x \in front : At(near, x[1], x[2])
      /\ \A m : m \in w.visited <=> (\E e \in rows : e.node = m) \/ (\E x \in front : x[1] = m)
      /\ w.from \in w.visited
      /\ InOrder(w.frontier)
      /\ \A e \in rows : e.depth < HOP_CAP => PeersOf(e.node, w.prefix) \subseteq w.visited
      /\ near[d] \subseteq w.visited
      /\ w.complete <=> \E e \in rows : e.depth < HOP_CAP /\ HasDev(e.node, w.prefix)
      /\ w.capHit <=> \E e \in rows : e.depth = HOP_CAP
  BY DEF Layers
<1>4. HOP_CAP \in Nat
  BY Limits
<1>5. \A x \in front : d <= x[2] /\ x[2] <= d + 1
  <2>1. \A x \in Items(w.frontier) : Head(w.frontier)[2] <= x[2] /\ x[2] <= Head(w.frontier)[2] + 1
    BY <1>1, <1>3, HeadNearest
  <2>2. QED
    BY <1>1, <2>1
<1> DEFINE frontier == v.frontier
<1>6. frontier # <<>> => \A x \in next : DepthOf(v) <= x[2]
  <2>1. frontier # <<>> => \A x \in Items(frontier) : Head(frontier)[2] <= x[2]
    BY <1>1, <1>2, HeadNearest
  <2>2. QED
    BY <2>1 DEF DepthOf
<1>7. frontier # <<>> => \E x \in next : x[2] = DepthOf(v)
  <2>1. frontier # <<>> => Head(frontier) \in Items(frontier)
    BY <1>1, Behind
  <2>2. QED
    BY <2>1 DEF DepthOf
<1>8. At(near, n, d) /\ n \in w.visited
  <2>1. <<n, d>> \in front /\ <<n, d>>[1] = n /\ <<n, d>>[2] = d
    BY <1>1
  <2> HIDE DEF n, d, front, rows
  <2>2. QED
    BY <1>3, <2>1
<1>9. /\ d \in 0..HOP_CAP /\ n \in near[d]
  BY <1>8 DEF At
<1> HIDE DEF n, d, rows, more, rest, front, next, peers, frontier
<1>10. \A e \in more : At(near, e.node, e.depth)
  BY <1>2, <1>3, <1>8
<1>11. \A x \in next : At(near, x[1], x[2])
  <2>1. ASSUME NEW x \in next PROVE At(near, x[1], x[2])
    <3>1. CASE x \in rest
      BY <1>1, <1>3, <3>1
    <3>2. CASE d < HOP_CAP /\ x[2] = d + 1 /\ x[1] \in peers \ w.visited
      <4>1. d + 1 \in 1..HOP_CAP /\ d + 1 - 1 = d /\ d + 1 \in 0..HOP_CAP
        BY <1>1, <1>4, <3>2
      <4>2. near[d + 1] = near[d] \cup UNION {PeersOf(m, w.prefix) : m \in near[d]}
        <5> DEFINE k == d + 1
        <5>1. k \in 1..HOP_CAP /\ k - 1 = d
          BY <1>1, <1>4, <3>2
        <5> HIDE DEF k
        <5>2. near[k] = near[k - 1] \cup UNION {PeersOf(m, w.prefix) : m \in near[k - 1]}
          BY <5>1 DEF Reaches
        <5>3. near[k] = near[d] \cup UNION {PeersOf(m, w.prefix) : m \in near[d]}
          BY <5>1, <5>2, Zenon
        <5>4. QED
          BY <5>3 DEF k
      <4>3. x[1] \in near[d + 1]
        BY <1>9, <3>2, <4>1, <4>2 DEF peers
      <4>4. x[1] \notin near[d]
        BY <1>3, <3>2
      <4>5. QED
        <5>1. x[2] = d + 1 /\ x[2] - 1 = d
          BY <1>1, <3>2
        <5>2. near[x[2]] = near[d + 1] /\ near[x[2] - 1] = near[d] /\ x[2] \in 0..HOP_CAP
          BY <4>1, <5>1, Zenon
        <5>3. QED
          BY <4>3, <4>4, <5>2, Zenon DEF At
    <3>3. QED
      BY <1>2, <3>1, <3>2
  <2>2. QED
    BY <2>1
<1>12. \A m : m \in v.visited <=> (\E e \in more : e.node = m) \/ (\E x \in next : x[1] = m)
  <2>1. ASSUME NEW m \in v.visited PROVE (\E e \in more : e.node = m) \/ (\E x \in next : x[1] = m)
    <3>1. CASE \E x \in front : x[1] = m
      <4>1. PICK x \in front : x[1] = m
        BY <3>1
      <4>2. CASE x \in rest
        BY <1>2, <4>1, <4>2
      <4>3. CASE x = <<n, d>>
        BY <1>2, <4>1, <4>3
      <4>4. QED
        BY <1>1, <4>1, <4>2, <4>3
    <3>2. CASE \E e \in rows : e.node = m
      BY <1>2, <3>2
    <3>3. QED
      BY <1>2, <1>3, <3>1, <3>2
  <2>2. ASSUME NEW e \in more PROVE e.node \in v.visited
    BY <1>2, <1>3, <1>8
  <2>3. \A x \in next : x[1] \in v.visited
    BY <1>2
  <2>4. QED
    BY <2>1, <2>2, <2>3
<1>13. \A e \in more : e.depth < HOP_CAP => PeersOf(e.node, v.prefix) \subseteq v.visited
  <2>1. ASSUME NEW e \in more, e.depth < HOP_CAP PROVE PeersOf(e.node, w.prefix) \subseteq v.visited
    <3>1. CASE e \in rows
      BY <1>2, <1>3, <2>1, <3>1
    <3>2. CASE e.node = n /\ e.depth = d
      BY <1>2, <2>1, <3>2 DEF peers
    <3>3. QED
      BY <1>2, <3>1, <3>2
  <2>2. QED
    BY <1>2, <2>1
<1>14. frontier # <<>> => near[DepthOf(v)] \subseteq v.visited
  <2>1. SUFFICES ASSUME frontier # <<>> PROVE near[DepthOf(v)] \subseteq v.visited
    OBVIOUS
  <2>2. PICK x \in next : x[2] = DepthOf(v)
    BY <1>7, <2>1
  <2>3. At(near, x[1], x[2]) /\ x[2] \in 0..HOP_CAP
    BY <1>11 DEF At
  <2>4. x[2] = d \/ x[2] = d + 1
    BY <1>1, <1>2, <1>5, <2>3
  <2>5. near[d] \subseteq v.visited
    BY <1>2, <1>3
  <2>6. CASE x[2] = d + 1
    <3>1. d + 1 \in 0..HOP_CAP
      BY <2>3, <2>6
    <3>2. \A y \in next : d + 1 <= y[2]
      BY <1>6, <2>1, <2>2, <2>6
    <3>3. \A m \in v.visited : (\E e \in more : e.node = m) \/ (\E y \in next : y[1] = m)
      BY <1>12
    <3>4. Reaches(near, v.from, v.prefix)
      BY <1>2
    <3>5. near[d + 1] \subseteq v.visited
      BY <1>9, <1>10, <1>11, <1>13, <2>1, <2>5, <3>1, <3>2, <3>3, <3>4, NextLayer
         DEF frontier, next, more
    <3>6. QED
      BY <2>2, <2>6, <3>5
  <2>7. QED
    BY <2>2, <2>4, <2>5, <2>6
<1>15. v.complete <=> \E e \in more : e.depth < HOP_CAP /\ HasDev(e.node, v.prefix)
  <2>1. (\E e \in more : e.depth < HOP_CAP /\ HasDev(e.node, w.prefix))
        <=> (\E e \in rows : e.depth < HOP_CAP /\ HasDev(e.node, w.prefix))
            \/ (d < HOP_CAP /\ HasDev(n, w.prefix))
    BY <1>2
  <2>2. QED
    BY <1>2, <1>3, <2>1
<1>16. v.capHit <=> \E e \in more : e.depth = HOP_CAP
  <2>1. (\E e \in more : e.depth = HOP_CAP) <=> (\E e \in rows : e.depth = HOP_CAP) \/ d = HOP_CAP
    BY <1>2
  <2>2. QED
    BY <1>2, <1>3, <2>1
<1>17. v.from \in v.visited
  BY <1>2, <1>3
<1>18. QED
  BY <1>2, <1>10, <1>11, <1>12, <1>13, <1>14, <1>15, <1>16, <1>17 DEF Layers, frontier, next, more

\* What is behind the head stays in order, and so does a frontier a node joins a layer
\* further than its head.
LEMMA InOrderTail ==
    ASSUME NEW q \in Seq(Nodes \X Nat), q # <<>>, InOrder(q)
    PROVE  InOrder(Tail(q))
<1> DEFINE t == Tail(q)
<1>1. /\ Len(q) \in Nat \ {0} /\ Len(t) = Len(q) - 1
      /\ \A i \in 1..(Len(q) - 1) : t[i] = q[i + 1]
  BY Behind
<1> HIDE DEF t
<1>2. ASSUME NEW i \in 1..Len(t), NEW j \in 1..Len(t), i <= j
      PROVE  t[i][2] <= t[j][2] /\ t[j][2] <= t[i][2] + 1
  <2>1. i + 1 \in 1..Len(q) /\ j + 1 \in 1..Len(q) /\ i + 1 <= j + 1
    BY <1>1, <1>2
  <2>2. t[i] = q[i + 1] /\ t[j] = q[j + 1]
    BY <1>1
  <2>3. QED
    BY <2>1, <2>2 DEF InOrder
<1>3. QED
  BY <1>2 DEF InOrder, t

LEMMA InOrderJoin ==
    ASSUME NEW q \in Seq(Nodes \X Nat), InOrder(q), NEW d \in Nat, NEW p \in Nodes,
           \A x \in Items(q) : x[2] = d \/ x[2] = d + 1
    PROVE  /\ InOrder(Append(q, <<p, d + 1>>))
           /\ Items(Append(q, <<p, d + 1>>)) = Items(q) \cup {<<p, d + 1>>}
<1> DEFINE x == <<p, d + 1>>
           t == Append(q, x)
<1>1. x \in Nodes \X Nat /\ x[2] = d + 1
  OBVIOUS
<1> HIDE DEF x
<1>2. /\ Len(q) \in Nat /\ Len(t) = Len(q) + 1 /\ Items(t) = Items(q) \cup {x}
      /\ \A i \in 1..Len(q) : t[i] = q[i]
      /\ t[Len(q) + 1] = x
  <2> DEFINE S == Nodes \X Nat
  <2>1. q \in Seq(S) /\ x \in S /\ Len(q) \in Nat
    BY <1>1
  <2> HIDE DEF S
  <2>2. QED
    BY <2>1, Appended
<1>3. \A i \in 1..Len(q) : q[i] \in Items(q) /\ q[i] \in Nodes \X Nat
  BY DEF Items
<1>4. \A i \in 1..Len(q) : q[i][2] \in Nat
  BY <1>3
<1> HIDE DEF t
<1>5. ASSUME NEW i \in 1..Len(t), NEW j \in 1..Len(t), i <= j
      PROVE  t[i][2] <= t[j][2] /\ t[j][2] <= t[i][2] + 1
  <2>1. i \in 1..Len(q) \/ i = Len(q) + 1
    BY <1>2
  <2>2. j \in 1..Len(q) \/ (j = Len(q) + 1)
    BY <1>2
  <2>3. CASE i \in 1..Len(q) /\ j \in 1..Len(q)
    BY <1>2, <1>5, <2>3 DEF InOrder
  <2>4. CASE i \in 1..Len(q) /\ j = Len(q) + 1
    <3>1. t[i] = q[i] /\ t[j] = x /\ (q[i][2] = d \/ q[i][2] = d + 1)
      BY <1>2, <1>3, <2>4
    <3>2. QED
      BY <1>1, <3>1
  <2>5. CASE i = Len(q) + 1
    <3>1. j = Len(q) + 1 /\ t[j] = x /\ t[i] = x
      BY <1>2, <1>5, <2>2, <2>5
    <3>2. QED
      BY <1>1, <3>1
  <2>6. QED
    BY <2>1, <2>2, <2>3, <2>4, <2>5
<1>6. QED
  BY <1>2, <1>5 DEF InOrder, t, x

\* A cut is done with the head of the frontier, if the mesh stood still: it is at the cap,
\* or answered that it forwards nowhere.
LEMMA CutDone ==
    ASSUME NEW w \in Walk, NEW v \in Walk, Cuts(v, w), v.still, Truthful(w),
           DepthOf(w) <= HOP_CAP, InOrder(w.frontier),
           \A x \in Items(w.frontier) : x[1] \in w.visited
    PROVE  Done(v, w)
<1>1. /\ w.frontier # <<>> /\ v.from = w.from /\ v.prefix = w.prefix
      /\ v.frontier = Tail(w.frontier) /\ v.visited = w.visited
      /\ v.edges = Append(w.edges, BrokenRow(w)) /\ v.complete = w.complete
  BY DEF Cuts
<1>2. /\ NodeOf(w) \in Nodes /\ DepthOf(w) \in Nat /\ HOP_CAP \in Nat
      /\ BrokenRow(w) \in Row
      /\ BrokenRow(w).node = NodeOf(w) /\ BrokenRow(w).depth = DepthOf(w)
  BY <1>1, HeadType, Limits DEF BrokenRow
<1>3. Items(v.edges) = Items(w.edges) \cup {BrokenRow(w)}
  <2>1. w.edges \in Seq(Row)
    BY DEF Walk
  <2>2. QED
    BY <1>1, <1>2, <2>1, Appended
<1>4. InOrder(v.frontier) /\ \A x \in Items(v.frontier) : x[1] \in v.visited
  <2>1. w.frontier \in Seq(Nodes \X Nat)
    BY DEF Walk
  <2>2. Items(w.frontier) = Items(Tail(w.frontier)) \cup {Head(w.frontier)}
    BY <1>1, <2>1, Behind
  <2>3. QED
    BY <1>1, <2>1, <2>2, InOrderTail
<1>5. /\ DepthOf(w) < HOP_CAP => PeersOf(NodeOf(w), w.prefix) = {} /\ ~HasDev(NodeOf(w), w.prefix)
      /\ v.capHit <=> w.capHit \/ DepthOf(w) = HOP_CAP
  <2>1. CASE w.phase = "ready" /\ DepthOf(w) >= HOP_CAP /\ v.capHit = TRUE
    BY <1>2, <2>1
  <2>2. CASE w.phase = "replied" /\ w.reply = <<>> /\ v.capHit = w.capHit
    <3>1. route[NodeOf(w)][w.prefix] = <<>> /\ DepthOf(w) < HOP_CAP
      BY <2>2 DEF Truthful, Asking
    <3>2. w.capHit \in BOOLEAN /\ v.capHit \in BOOLEAN
      BY DEF Walk
    <3>3. PeersOf(NodeOf(w), w.prefix) = {} /\ ~HasDev(NodeOf(w), w.prefix)
      BY <3>1 DEF PeersOf, HasDev
    <3>4. QED
      BY <1>2, <2>2, <3>1, <3>2, <3>3
  <2>3. QED
    BY <2>1, <2>2 DEF Cuts
<1>6. v.complete <=> w.complete \/ (DepthOf(w) < HOP_CAP /\ HasDev(NodeOf(w), w.prefix))
  BY <1>1, <1>5
<1>7. QED
  BY <1>1, <1>2, <1>3, <1>4, <1>5, <1>6 DEF Done

\* The walk u after i of the next hops of the reply to w: its rows, its frontier, and what
\* it met.
RowsMid(u, w, i) ==
    /\ Items(w.edges) \subseteq Items(u.edges)
    /\ \A e \in Items(u.edges) : e \in Items(w.edges) \/ (e.node = NodeOf(w) /\ e.depth = DepthOf(w))
    /\ i > 0 => \E e \in Items(u.edges) : e.node = NodeOf(w) /\ e.depth = DepthOf(w)

FrontMid(u, w) ==
    /\ Items(Tail(w.frontier)) \subseteq Items(u.frontier)
    /\ \A x \in Items(u.frontier) :
          \/ x \in Items(Tail(w.frontier))
          \/ x[2] = DepthOf(w) + 1 /\ x[1] \in PeersOf(NodeOf(w), w.prefix) \ w.visited
    /\ \A x \in Items(u.frontier) : x[2] = DepthOf(w) \/ x[2] = DepthOf(w) + 1
    /\ w.visited \subseteq u.visited
    /\ \A n \in u.visited : n \in w.visited \/ \E x \in Items(u.frontier) : x[1] = n
    /\ \A x \in Items(u.frontier) : x[1] \in u.visited
    /\ InOrder(u.frontier)

MetMid(u, w, i) ==
    /\ \A j \in 1..i : w.reply[j].kind # "dev" =>
          PeerForEgress(NodeOf(w), w.reply[j].iface) \in u.visited \cup {None}
    /\ u.complete <=> w.complete \/ \E j \in 1..i : w.reply[j].kind = "dev"

LEMMA HopRows ==
    ASSUME MeshOK, NEW w \in Walk, w.frontier # <<>>, NEW u \in Walk, NEW v \in Walk, NEW h \in Hop,
           HopSeen(v, u, NodeOf(w), DepthOf(w), h), NEW i \in Nat, NEW j \in Nat, RowsMid(u, w, j)
    PROVE  RowsMid(v, w, i)
<1>1. NodeOf(w) \in Nodes /\ DepthOf(w) \in Nat /\ u.edges \in Seq(Row)
  BY HeadType DEF Walk
<1>2. PICK r \in Row : /\ v.edges = Append(u.edges, r)
                       /\ r.node = NodeOf(w) /\ r.depth = DepthOf(w)
  BY <1>1, RowsType DEF HopSeen
<1>3. Items(v.edges) = Items(u.edges) \cup {r}
  BY <1>1, <1>2, Appended
<1>4. QED
  BY <1>2, <1>3 DEF RowsMid

\* What a node's reply names is what it forwards to.
LEMMA ReplyPeers ==
    ASSUME NEW w \in Walk, w.reply = route[NodeOf(w)][w.prefix]
    PROVE  /\ PeersOf(NodeOf(w), w.prefix) =
                {PeerForEgress(NodeOf(w), w.reply[i].iface) : i \in
                    {j \in 1..Len(w.reply) : w.reply[j].kind = "via"}} \ {None}
           /\ HasDev(NodeOf(w), w.prefix) <=> \E i \in 1..Len(w.reply) : w.reply[i].kind = "dev"
           /\ \A i \in 1..Len(w.reply) :
                 /\ w.reply[i] \in Hop
                 /\ w.reply[i].kind # "dev" => w.reply[i].kind = "via"
<1>1. DOMAIN w.reply = 1..Len(w.reply) /\ \A i \in 1..Len(w.reply) : w.reply[i] \in Hop
  BY DEF Walk
<1>2. \A h \in Hop : h.kind # "dev" => h.kind = "via"
  BY DEF Hop
<1>3. QED
  BY <1>1, <1>2 DEF PeersOf, HasDev

LEMMA HopFront ==
    ASSUME MeshOK, NEW w \in Walk, w.frontier # <<>>, w.reply = route[NodeOf(w)][w.prefix],
           NEW u \in Walk, NEW v \in Walk, NEW i \in 1..Len(w.reply),
           HopSeen(v, u, NodeOf(w), DepthOf(w), w.reply[i]), FrontMid(u, w)
    PROVE  FrontMid(v, w)
<1> DEFINE n == NodeOf(w)
           d == DepthOf(w)
           p == PeerForEgress(n, w.reply[i].iface)
           peers == PeersOf(n, w.prefix)
           rest == Items(Tail(w.frontier))
           front == Items(u.frontier)
           next == Items(v.frontier)
<1>1. Stays(v, u) \/ (w.reply[i].kind # "dev" /\ Joins(v, u, p, d))
  BY DEF HopSeen
<1>2. CASE Stays(v, u)
  BY <1>2 DEF Stays, FrontMid
<1>3. CASE w.reply[i].kind # "dev" /\ Joins(v, u, p, d)
  <2>1. /\ p \in Nodes /\ p \notin u.visited /\ v.visited = u.visited \cup {p}
        /\ v.frontier = Append(u.frontier, <<p, d + 1>>)
    BY <1>3 DEF Joins
  <2>2. p \in peers
    <3>1. w.reply[i].kind = "via" /\ p # None
      BY <1>3, <2>1, ReplyPeers, TraceAssumption
    <3>2. QED
      BY <3>1, ReplyPeers
  <2>3. /\ rest \subseteq front
        /\ \A x \in front : x \in rest \/ (x[2] = d + 1 /\ x[1] \in peers \ w.visited)
        /\ \A x \in front : x[2] = d \/ x[2] = d + 1
        /\ w.visited \subseteq u.visited
        /\ \A m \in u.visited : m \in w.visited \/ \E x \in front : x[1] = m
        /\ \A x \in front : x[1] \in u.visited
        /\ InOrder(u.frontier)
    BY DEF FrontMid
  <2>4. d \in Nat /\ u.frontier \in Seq(Nodes \X Nat)
    BY HeadType DEF Walk
  <2> HIDE DEF n, d, p, peers, rest
  <2>5. InOrder(v.frontier) /\ next = front \cup {<<p, d + 1>>}
    <3> DEFINE q == u.frontier
    <3>1. /\ q \in Seq(Nodes \X Nat) /\ InOrder(q) /\ d \in Nat /\ p \in Nodes
          /\ \A x \in Items(q) : x[2] = d \/ x[2] = d + 1
      BY <2>1, <2>3, <2>4
    <3> HIDE DEF q
    <3>2. /\ InOrder(Append(q, <<p, d + 1>>))
          /\ Items(Append(q, <<p, d + 1>>)) = Items(q) \cup {<<p, d + 1>>}
      BY <3>1, InOrderJoin
    <3>3. QED
      BY <2>1, <3>2 DEF q
  <2> HIDE DEF front, next
  <2>6. /\ rest \subseteq next
        /\ \A x \in next : x \in rest \/ (x[2] = d + 1 /\ x[1] \in peers \ w.visited)
        /\ \A x \in next : x[2] = d \/ x[2] = d + 1
        /\ w.visited \subseteq v.visited
        /\ \A m \in v.visited : m \in w.visited \/ \E x \in next : x[1] = m
        /\ \A x \in next : x[1] \in v.visited
    BY <2>1, <2>2, <2>3, <2>5
  <2>7. QED
    BY <2>5, <2>6 DEF FrontMid, next, rest, peers, n, d
<1>4. QED
  BY <1>1, <1>2, <1>3

LEMMA HopMet ==
    ASSUME MeshOK, NEW w \in Walk, w.frontier # <<>>, NEW u \in Walk, NEW v \in Walk,
           NEW i \in 1..Len(w.reply), w.visited \subseteq u.visited,
           HopSeen(v, u, NodeOf(w), DepthOf(w), w.reply[i]), MetMid(u, w, i - 1)
    PROVE  MetMid(v, w, i)
<1>1. \A j \in 1..i : j \in 1..(i - 1) \/ j = i
  BY DEF Walk
<1>2. i \in 1..i /\ \A j \in 1..(i - 1) : j \in 1..i
  BY DEF Walk
<1>3. u.visited \subseteq v.visited
  BY DEF HopSeen, Stays, Joins
<1>4. w.reply[i].kind # "dev" =>
         PeerForEgress(NodeOf(w), w.reply[i].iface) \in v.visited \cup {None}
  BY DEF HopSeen, Stays, Joins
<1>5. v.complete <=> u.complete \/ w.reply[i].kind = "dev"
  BY DEF HopSeen
<1>6. QED
  BY <1>1, <1>2, <1>3, <1>4, <1>5 DEF MetMid

\* A next hop the reply names again changes nothing.
LEMMA AgainMid ==
    ASSUME NEW w \in Walk, NEW u \in Walk, NEW i \in 1..Len(w.reply),
           i \notin AllNextHops(w.reply), RowsMid(u, w, i - 1), MetMid(u, w, i - 1)
    PROVE  RowsMid(u, w, i) /\ MetMid(u, w, i)
<1>1. Len(w.reply) \in Nat /\ DOMAIN w.reply = 1..Len(w.reply)
  BY DEF Walk
<1>2. PICK k \in 1..(i - 1) : w.reply[k] = w.reply[i]
  BY <1>1 DEF AllNextHops
<1>3. i - 1 > 0 /\ i \in 1..i /\ \A j \in 1..i : j \in 1..(i - 1) \/ j = i
  BY <1>1, <1>2
<1>4. \A j \in 1..(i - 1) : j \in 1..i
  BY <1>1
<1>5. QED
  BY <1>2, <1>3, <1>4 DEF RowsMid, MetMid

\* A walk that expanded an answer is done with the head of its frontier.
LEMMA ExpandedDone ==
    ASSUME MeshOK, NEW w \in Walk, w.frontier # <<>>, w.reply # <<>>,
           w.reply = route[NodeOf(w)][w.prefix], DepthOf(w) < HOP_CAP, InOrder(w.frontier),
           \A x \in Items(w.frontier) : x[1] \in w.visited,
           NEW v \in Walk, v = Expanded(w)
    PROVE  Done(v, w)
<1> DEFINE n == Len(w.reply)
           Mid(u, i) == /\ u.from = w.from /\ u.prefix = w.prefix /\ u.capHit = w.capHit
                        /\ RowsMid(u, w, i) /\ FrontMid(u, w) /\ MetMid(u, w, i)
           Part == {p \in Nat \X Walk : Mid(p[2], p[1])}
<1>1. PICK f : Steps(f, w)
  BY ExpandSteps
<1> DEFINE counted == [i \in 0..n |-> <<i, f[i]>>]
<1>2. n \in Nat \ {0}
  <2>1. w.reply \in Seq(Hop)
    BY DEF Walk
  <2>2. QED
    BY <2>1, Behind
<1>3. /\ w.frontier \in Seq(Nodes \X Nat)
      /\ Items(w.frontier) = Items(Tail(w.frontier)) \cup {Head(w.frontier)}
      /\ NodeOf(w) \in Nodes /\ DepthOf(w) \in Nat /\ Head(w.frontier)[2] = DepthOf(w)
  <2>1. w.frontier \in Seq(Nodes \X Nat)
    BY DEF Walk
  <2>2. QED
    BY <2>1, Behind, HeadType
<1>4. counted[0] \in Part
  <2> DEFINE u == Popped(w)
  <2>1. /\ u \in Walk /\ u.from = w.from /\ u.prefix = w.prefix /\ u.capHit = w.capHit
        /\ u.frontier = Tail(w.frontier) /\ u.visited = w.visited /\ u.edges = w.edges
        /\ u.complete = w.complete
    BY PoppedFields
  <2>2. f[0] = u
    BY <1>1 DEF Steps
  <2> HIDE DEF u
  <2>3. RowsMid(u, w, 0)
    BY <2>1 DEF RowsMid
  <2>4. FrontMid(u, w)
    <3>1. \A x \in Items(w.frontier) : DepthOf(w) <= x[2] /\ x[2] <= DepthOf(w) + 1
      BY <1>3, HeadNearest
    <3>2. \A x \in Items(w.frontier) : x \in Nodes \X Nat
      BY <1>3, ElementOf DEF Items
    <3>3. \A x \in Items(w.frontier) : x[2] = DepthOf(w) \/ x[2] = DepthOf(w) + 1
      <4>1. ASSUME NEW x \in Items(w.frontier) PROVE x[2] = DepthOf(w) \/ x[2] = DepthOf(w) + 1
        <5>1. x[2] \in Nat
          BY <3>2
        <5>2. QED
          BY <1>3, <3>1, <5>1
      <4>2. QED
        BY <4>1
    <3>4. InOrder(Tail(w.frontier))
      BY <1>3, InOrderTail
    <3>5. QED
      BY <1>3, <2>1, <3>3, <3>4 DEF FrontMid
  <2>5. MetMid(u, w, 0)
    BY <2>1 DEF MetMid
  <2>6. counted[0] = <<0, u>>
    BY <1>2, <2>2
  <2>7. <<0, u>> \in Nat \X Walk /\ <<0, u>>[1] = 0 /\ <<0, u>>[2] = u
    BY <2>1
  <2> HIDE DEF counted
  <2>8. QED
    BY <2>1, <2>3, <2>4, <2>5, <2>6, <2>7
<1>5. ASSUME NEW i \in 1..n, counted[i - 1] \in Part PROVE counted[i] \in Part
  <2> DEFINE u == f[i - 1]
             y == f[i]
  <2>1. counted[i - 1] = <<i - 1, u>> /\ counted[i] = <<i, y>> /\ i \in Nat /\ i - 1 \in Nat
    BY <1>2
  <2>2. u \in Walk /\ Mid(u, i - 1)
    BY <1>5, <2>1
  <2>3. /\ y \in Walk
        /\ \/ SameRequest(y, u) /\ HopSeen(y, u, NodeOf(w), DepthOf(w), w.reply[i])
           \/ i \notin AllNextHops(w.reply) /\ y = u
    BY <1>1, <1>2 DEF Steps
  <2> HIDE DEF u, y
  <2>4. CASE SameRequest(y, u) /\ HopSeen(y, u, NodeOf(w), DepthOf(w), w.reply[i])
    <3>1. y.from = w.from /\ y.prefix = w.prefix /\ y.capHit = w.capHit
      BY <2>2, <2>4 DEF SameRequest
    <3>2. w.reply[i] \in Hop /\ w.visited \subseteq u.visited
      BY <2>2, ReplyPeers DEF FrontMid
    <3>3. RowsMid(y, w, i)
      BY <2>1, <2>2, <2>3, <2>4, <3>2, HopRows
    <3>4. FrontMid(y, w)
      BY <2>2, <2>3, <2>4, HopFront
    <3>5. MetMid(y, w, i)
      BY <2>2, <2>3, <2>4, <3>2, HopMet
    <3> HIDE DEF counted
    <3>6. QED
      BY <2>1, <2>3, <3>1, <3>3, <3>4, <3>5
  <2>5. CASE i \notin AllNextHops(w.reply) /\ y = u
    <3>1. RowsMid(u, w, i) /\ MetMid(u, w, i)
      BY <2>2, <2>5, AgainMid
    <3> HIDE DEF counted
    <3>2. QED
      BY <2>1, <2>2, <2>5, <3>1
  <2>6. QED
    BY <2>3, <2>4, <2>5
<1>6. n \in 0..n /\ f[n] = v /\ n \in Nat
  BY <1>1, <1>2 DEF Steps
<1>7. counted[n] \in Part
  <2> HIDE DEF counted, Part, n
  <2>1. QED
    BY <1>4, <1>5, <1>6, Stepwise
<1>8. Mid(v, n)
  <2>1. counted[n] = <<n, v>>
    BY <1>6
  <2> HIDE DEF Mid, counted, n
  <2>2. QED
    BY <1>7, <2>1
<1>9. /\ PeersOf(NodeOf(w), w.prefix) \subseteq v.visited
      /\ v.complete <=> w.complete \/ HasDev(NodeOf(w), w.prefix)
  BY <1>8, ReplyPeers DEF MetMid
<1>10. v.capHit <=> w.capHit \/ DepthOf(w) = HOP_CAP
  BY <1>3, <1>8, Limits DEF Walk
<1>11. QED
  BY <1>2, <1>8, <1>9, <1>10 DEF RowsMid, FrontMid, Done

LEMMA LayersAlike ==
    ASSUME NEW v, NEW w, Alike(v, w), NEW near, Layers(w, near)
    PROVE  Layers(v, near)
BY DEF Alike, Layers, DepthOf

\* What layers say of the head of the frontier.
LEMMA LayersHead ==
    ASSUME NEW w \in Walk, w.frontier # <<>>, NEW near, Layers(w, near)
    PROVE  /\ DepthOf(w) \in 0..HOP_CAP /\ InOrder(w.frontier)
           /\ \A x \in Items(w.frontier) : x[1] \in w.visited
<1>1. Items(w.frontier) = Items(Tail(w.frontier)) \cup {Head(w.frontier)}
  BY Behind DEF Walk
<1>2. At(near, Head(w.frontier)[1], Head(w.frontier)[2])
  BY <1>1 DEF Layers
<1>3. QED
  BY <1>2 DEF Layers, At, DepthOf

\* A walk that did something in a mesh that stands still stays sound.
LEMMA SoundKept ==
    ASSUME MeshOK, NEW w \in Walk, Begun(w), Sound(w), NEW v \in Walk, QuietStep(v, w)
    PROVE  Sound(v)
<1> SUFFICES ASSUME Active(v), v.still
             PROVE  Truthful(v) /\ \A near : Reaches(near, v.from, v.prefix) => Layers(v, near)
  BY DEF Sound
<1>1. CASE v = w
  BY <1>1 DEF Sound
<1>2. CASE v = NoWalk
  BY <1>2, NoWalkType DEF Active
<1>3. CASE Opens(v)
  <2>1. /\ v.phase = "ready" /\ v.frontier = <<<<v.from, 0>>>> /\ v.visited = {v.from}
        /\ v.edges = <<>> /\ v.complete = FALSE /\ v.capHit = FALSE
    BY <1>3 DEF Opens
  <2>2. Truthful(v)
    BY <2>1 DEF Truthful, Asking
  <2>3. ASSUME NEW near, Reaches(near, v.from, v.prefix) PROVE Layers(v, near)
    <3>1. near[0] = {v.from} /\ 0 \in 0..HOP_CAP
      BY <2>3, Limits DEF Reaches
    <3>2. Items(v.edges) = {} /\ Items(v.frontier) = {<<v.from, 0>>}
      BY <2>1 DEF Items
    <3>3. At(near, v.from, 0)
      BY <3>1 DEF At
    <3>4. InOrder(v.frontier) /\ DepthOf(v) = 0
      BY <2>1 DEF InOrder, DepthOf
    <3>5. QED
      BY <2>1, <3>1, <3>2, <3>3, <3>4 DEF Layers
  <2>4. QED
    BY <2>2, <2>3
<1>4. CASE Cuts(v, w)
  <2>1. /\ Active(w) /\ w.frontier # <<>> /\ v.phase = "ready"
        /\ v.from = w.from /\ v.prefix = w.prefix
    BY <1>4 DEF Cuts, Active
  <2>2. w.still
    BY <1>4 DEF Cuts
  <2>3. Truthful(w) /\ \A near : Reaches(near, w.from, w.prefix) => Layers(w, near)
    BY <2>1, <2>2 DEF Sound
  <2>4. ASSUME NEW near, Reaches(near, w.from, w.prefix) PROVE Layers(v, near)
    <3>1. Layers(w, near)
      BY <2>3, <2>4
    <3>2. /\ DepthOf(w) \in 0..HOP_CAP /\ InOrder(w.frontier)
          /\ \A x \in Items(w.frontier) : x[1] \in w.visited
      BY <2>1, <3>1, LayersHead
    <3>3. DepthOf(w) <= HOP_CAP
      BY <3>2
    <3>4. Done(v, w)
      BY <1>4, <2>3, <3>2, <3>3, CutDone
    <3>5. QED
      BY <2>1, <2>4, <3>1, <3>4, DoneLayers
  <2>5. QED
    BY <2>1, <2>3, <2>4 DEF Truthful, Asking
<1>5. CASE Sends(v, w)
  <2>1. /\ Active(w) /\ w.still /\ Alike(v, w) /\ v.phase = "asked"
        /\ DepthOf(w) < HOP_CAP /\ NodeOf(w) \in up
    BY <1>5 DEF Sends, Active
  <2>2. Truthful(v)
    BY <2>1 DEF Truthful, Asking, Alike, NodeOf, DepthOf
  <2>3. v.from = w.from /\ v.prefix = w.prefix
    BY <2>1 DEF Alike
  <2>4. QED
    BY <2>1, <2>2, <2>3, LayersAlike DEF Sound
<1>6. CASE Answers(v, w)
  <2>1. /\ Active(w) /\ w.still /\ Alike(v, w) /\ w.phase = "asked" /\ v.phase = "replied"
        /\ v.reply = route[NodeOf(w)][w.prefix]
    BY <1>6 DEF Answers, Active
  <2>2. Truthful(w)
    BY <2>1 DEF Sound
  <2>3. v.from = w.from /\ v.prefix = w.prefix /\ v.frontier = w.frontier
    BY <2>1 DEF Alike
  <2>4. Truthful(v)
    BY <2>1, <2>2, <2>3 DEF Truthful, Asking, NodeOf, DepthOf
  <2>5. QED
    BY <2>1, <2>3, <2>4, LayersAlike DEF Sound
<1>7. CASE Expands(v, w)
  <2>1. w.phase = "replied" /\ w.reply # <<>> /\ v = Expanded(w) /\ w.frontier # <<>>
    BY <1>7 DEF Expands, Begun, Asking
  <2>2. v.phase = "ready" /\ v.from = w.from /\ v.prefix = w.prefix /\ v.still = w.still
    BY <2>1, ExpandedFields
  <2>3. Active(w) /\ w.still
    BY <2>1, <2>2 DEF Active
  <2>4. Truthful(w) /\ \A near : Reaches(near, w.from, w.prefix) => Layers(w, near)
    BY <2>3 DEF Sound
  <2>5. w.reply = route[NodeOf(w)][w.prefix] /\ DepthOf(w) < HOP_CAP
    BY <2>1, <2>4 DEF Truthful, Asking
  <2>6. ASSUME NEW near, Reaches(near, w.from, w.prefix) PROVE Layers(v, near)
    <3>1. Layers(w, near)
      BY <2>4, <2>6
    <3>2. InOrder(w.frontier) /\ \A x \in Items(w.frontier) : x[1] \in w.visited
      BY <2>1, <3>1, LayersHead
    <3>3. Done(v, w)
      BY <2>1, <2>5, <3>2, ExpandedDone
    <3>4. QED
      BY <2>1, <2>6, <3>1, <3>3, DoneLayers
  <2>7. QED
    BY <2>2, <2>6 DEF Truthful, Asking
<1>8. CASE Waits(v, w)
  <2>1. /\ v.phase = w.phase /\ Alike(v, w) /\ v.reply = w.reply /\ w.still
    BY <1>8 DEF Waits
  <2>2. v.from = w.from /\ v.prefix = w.prefix /\ v.frontier = w.frontier /\ Active(w)
    BY <2>1 DEF Alike, Active
  <2>3. Truthful(w)
    BY <2>1, <2>2 DEF Sound
  <2>4. Truthful(v)
    BY <2>1, <2>2, <2>3 DEF Truthful, Asking, NodeOf, DepthOf
  <2>5. QED
    BY <2>1, <2>2, <2>4, LayersAlike DEF Sound
<1>9. QED
  BY <1>1, <1>2, <1>3, <1>4, <1>5, <1>6, <1>7, <1>8 DEF QuietStep

MapInv == TypeInv /\ \A c \in Clients : Sound(walk[c])

LEMMA MapInit == Init => MapInv
<1> SUFFICES ASSUME Init PROVE MapInv
  OBVIOUS
<1>1. ASSUME NEW c \in Clients PROVE Sound(walk[c])
  <2>1. walk[c] = NoWalk
    BY DEF Init
  <2>2. QED
    BY <2>1, NoWalkType DEF Sound, Active
<1>2. QED
  BY <1>1, TraceInit DEF MapInv

\* Soundness is of the walk, and of the mesh it sees.
LEMMA SameMesh ==
    ASSUME NEW c, UNCHANGED <<links, route, up>>, Sound(walk'[c])
    PROVE  Sound(walk[c])'
<1>1. ASSUME NEW n, NEW p PROVE PeersOf(n, p)' = PeersOf(n, p) /\ HasDev(n, p)' = HasDev(n, p)
  BY DEF PeersOf, PeerForEgress, HasAgent, HasDev
<1>2. ASSUME NEW near, NEW from, NEW p PROVE Reaches(near, from, p)' <=> Reaches(near, from, p)
  BY <1>1 DEF Reaches
<1>3. ASSUME NEW v, NEW near PROVE Layers(v, near)' <=> Layers(v, near)
  <2>1. (\A e \in Items(v.edges) : e.depth < HOP_CAP => PeersOf(e.node, v.prefix) \subseteq v.visited)'
        <=> (\A e \in Items(v.edges) : e.depth < HOP_CAP => PeersOf(e.node, v.prefix) \subseteq v.visited)
    BY <1>1 DEF Items
  <2>2. (\E e \in Items(v.edges) : e.depth < HOP_CAP /\ HasDev(e.node, v.prefix))'
        <=> (\E e \in Items(v.edges) : e.depth < HOP_CAP /\ HasDev(e.node, v.prefix))
    BY <1>1 DEF Items
  <2>3. QED
    BY <2>1, <2>2, Zenon DEF Layers, Items, At, InOrder, DepthOf
<1>4. ASSUME NEW v PROVE Truthful(v)' <=> Truthful(v)
  BY DEF Truthful, Asking, NodeOf, DepthOf
<1>5. ASSUME NEW v, Sound(v) PROVE Sound(v)'
  BY <1>2, <1>3, <1>4, <1>5 DEF Sound, Active
<1>6. QED
  BY <1>5

LEMMA MapStep == MapInv /\ [Next]_vars => MapInv'
<1> SUFFICES ASSUME MapInv, [Next]_vars PROVE MapInv'
  OBVIOUS
<1>1. Moves /\ TypeInv'
  BY StepMoves, TypeStep DEF MapInv
<1>2. ASSUME NEW c \in Clients PROVE Sound(walk[c])'
  <2>1. /\ walk[c] \in Walk /\ Begun(walk[c]) /\ Sound(walk[c]) /\ MeshOK
        /\ walk'[c] \in Walk
    BY <1>1 DEF MapInv, TypeInv, TypeOK, MeshOK, Moves
  <2>2. CASE Disturbed(walk'[c], walk[c])
    <3>1. ~(walk'[c].phase # "idle" /\ walk'[c].still)
      BY <2>1, <2>2 DEF Disturbed, Active
    <3>2. QED
      BY <3>1 DEF Sound, Active
  <2>3. CASE UNCHANGED <<links, route, up>> /\ QuietStep(walk'[c], walk[c])
    <3>1. Sound(walk'[c])
      BY <2>1, <2>3, SoundKept
    <3>2. QED
      BY <2>3, <3>1, SameMesh
  <2>4. QED
    BY <1>1, <2>2, <2>3 DEF Moves
<1>3. QED
  BY <1>1, <1>2 DEF MapInv

\* The equation of Within's recursive function.
Layered(f, from, p) ==
    f = [k \in 0..HOP_CAP |->
            IF k = 0 THEN {from} ELSE f[k - 1] \cup UNION {PeersOf(n, p) : n \in f[k - 1]}]

LEMMA PeersType ==
    ASSUME MeshOK, NEW n \in Nodes, NEW p \in Targets
    PROVE  PeersOf(n, p) \in SUBSET Nodes
<1>1. route[n][p] \in Seq(Hop)
  BY DEF MeshOK
<1>2. \A i \in DOMAIN route[n][p] : route[n][p][i].iface \in Ifaces \cup {None}
  <2>1. ASSUME NEW q \in Seq(Hop), NEW i \in DOMAIN q PROVE q[i] \in Hop
    OBVIOUS
  <2>2. \A h \in Hop : h.iface \in Ifaces \cup {None}
    BY DEF Hop
  <2>3. QED
    BY <1>1, <2>1, <2>2
<1>3. \A i \in DOMAIN route[n][p] : PeerForEgress(n, route[n][p][i].iface) \in Nodes \cup {None}
  BY <1>2, PeerType
<1>4. QED
  BY <1>3 DEF PeersOf

\* The reference map is what a breadth-first search from the source reaches.
LEMMA WithinReaches ==
    ASSUME MeshOK, NEW from \in Nodes, NEW p \in Targets
    PROVE  Reaches(Within(from, p), from, p)
<1> DEFINE S == SUBSET Nodes
           more == [T \in S |-> T \cup UNION {PeersOf(n, p) : n \in T}]
           step == [k \in 1..HOP_CAP |-> more]
           start == {from}
           near == CHOOSE f : Layered(f, from, p)
<1>1. HOP_CAP \in Nat /\ start \in S
  BY Limits
<1>2. more \in [S -> S]
  <2>1. ASSUME NEW T \in S PROVE T \cup UNION {PeersOf(n, p) : n \in T} \in S
    BY PeersType
  <2> HIDE DEF S
  <2>2. QED
    BY <2>1
<1>3. step \in StepsOf(S, HOP_CAP)
  <2> HIDE DEF more, S
  <2>1. QED
    BY <1>2 DEF StepsOf
<1>4. PICK f \in [0..HOP_CAP -> S] : f[0] = start /\ \A i \in 1..HOP_CAP : f[i] = step[i][f[i - 1]]
  <2> HIDE DEF S, step, start
  <2>1. CanStep(S, start, HOP_CAP, step)
    BY <1>1, <1>3, StepsExist
  <2>2. QED
    BY <2>1 DEF CanStep
<1>5. \A i \in 1..HOP_CAP : f[i] = f[i - 1] \cup UNION {PeersOf(n, p) : n \in f[i - 1]}
  <2>1. ASSUME NEW i \in 1..HOP_CAP
        PROVE  f[i] = f[i - 1] \cup UNION {PeersOf(n, p) : n \in f[i - 1]}
    <3>1. i - 1 \in 0..HOP_CAP
      BY <1>1
    <3>2. f[i - 1] \in S /\ f[i] = more[f[i - 1]]
      BY <1>4, <3>1
    <3>3. QED
      BY <3>2
  <2>2. QED
    BY <2>1
<1>6. Layered(f, from, p)
  <2>1. ASSUME NEW k \in 0..HOP_CAP
        PROVE  f[k] = IF k = 0 THEN {from}
                      ELSE f[k - 1] \cup UNION {PeersOf(n, p) : n \in f[k - 1]}
    <3>1. CASE k = 0
      BY <1>4, <3>1
    <3>2. CASE k # 0
      <4>1. k \in 1..HOP_CAP
        BY <1>1, <3>2
      <4>2. QED
        BY <1>5, <3>2, <4>1
    <3>3. QED
      BY <3>1, <3>2
  <2>2. f = [k \in 0..HOP_CAP |-> f[k]]
    BY <1>4
  <2>3. QED
    BY <2>1, <2>2 DEF Layered
<1>7. Layered(near, from, p)
  BY <1>6
<1>8. near = Within(from, p)
  BY DEF Within, Layered
<1> HIDE DEF near, step, more
<1>9. /\ near[0] = {from}
      /\ \A k \in 1..HOP_CAP : near[k] = near[k - 1] \cup UNION {PeersOf(n, p) : n \in near[k - 1]}
      /\ near = [k \in 0..HOP_CAP |-> near[k]]
  <2>1. 0 \in 0..HOP_CAP /\ \A k \in 1..HOP_CAP : k \in 0..HOP_CAP /\ k # 0
    BY <1>1
  <2>2. near[0] = {from}
    BY <1>7, <2>1 DEF Layered
  <2>3. \A k \in 1..HOP_CAP : near[k] = near[k - 1] \cup UNION {PeersOf(n, p) : n \in near[k - 1]}
    BY <1>7, <2>1 DEF Layered
  <2>4. near = [k \in 0..HOP_CAP |-> near[k]]
    BY <1>7 DEF Layered
  <2>5. QED
    BY <2>2, <2>3, <2>4
<1>10. \A k \in 0..HOP_CAP : near[k] \in S
  <2>1. near[0] \in S
    BY <1>1, <1>9
  <2>2. ASSUME NEW k \in 1..HOP_CAP, near[k - 1] \in S PROVE near[k] \in S
    <3>1. near[k] = near[k - 1] \cup UNION {PeersOf(n, p) : n \in near[k - 1]}
      BY <1>9
    <3>2. \A n \in near[k - 1] : PeersOf(n, p) \in SUBSET Nodes
      BY <2>2, PeersType
    <3>3. QED
      BY <2>2, <3>1, <3>2
  <2> HIDE DEF S
  <2>3. QED
    BY <1>1, <2>1, <2>2, Stepwise
<1>11. QED
  BY <1>8, <1>9, <1>10 DEF Reaches

\* A layered walk with nothing left to ask met every node within the cap.
LEMMA AllMet ==
    ASSUME NEW w \in Walk, w.frontier = <<>>, NEW near, Reaches(near, w.from, w.prefix),
           Layers(w, near), NEW k \in 0..HOP_CAP, NEW n \in near[k]
    PROVE  \E e \in Items(w.edges) : e.node = n /\ e.depth <= k /\ At(near, n, e.depth)
<1>1. /\ HOP_CAP \in Nat /\ near[0] = {w.from}
      /\ \A i \in 1..HOP_CAP :
            near[i] = near[i - 1] \cup UNION {PeersOf(m, w.prefix) : m \in near[i - 1]}
  BY Limits DEF Reaches
<1>2. /\ w.from \in w.visited
      /\ \A m \in w.visited : \E e \in Items(w.edges) : e.node = m
      /\ \A e \in Items(w.edges) : At(near, e.node, e.depth)
      /\ \A e \in Items(w.edges) : e.depth < HOP_CAP => PeersOf(e.node, w.prefix) \subseteq w.visited
  <2>1. Items(w.frontier) = {}
    BY DEF Items
  <2>2. QED
    BY <2>1 DEF Layers
<1>3. near[0] \in SUBSET w.visited
  BY <1>1, <1>2
<1>4. ASSUME NEW i \in 1..HOP_CAP, near[i - 1] \in SUBSET w.visited PROVE near[i] \in SUBSET w.visited
  <2>1. i - 1 \in 0..HOP_CAP /\ i - 1 < HOP_CAP
    BY <1>1
  <2>2. ASSUME NEW m \in near[i - 1] PROVE PeersOf(m, w.prefix) \subseteq w.visited
    <3>1. PICK e \in Items(w.edges) : e.node = m
      BY <1>2, <1>4
    <3>2. At(near, m, e.depth) /\ e.depth \in 0..HOP_CAP
      BY <1>2, <3>1 DEF At
    <3>3. e.depth <= i - 1
      BY <2>1, <3>2, AtOnce
    <3>4. e.depth < HOP_CAP
      BY <1>1, <2>1, <3>2, <3>3
    <3>5. QED
      BY <1>2, <3>1, <3>4
  <2>3. near[i] = near[i - 1] \cup UNION {PeersOf(m, w.prefix) : m \in near[i - 1]}
    BY <1>1
  <2>4. QED
    BY <1>4, <2>2, <2>3
<1>5. near[k] \in SUBSET w.visited
  <2> DEFINE S == SUBSET w.visited
  <2>1. near[0] \in S /\ \A i \in 1..HOP_CAP : near[i - 1] \in S => near[i] \in S
    BY <1>3, <1>4
  <2> HIDE DEF S
  <2>2. \A i \in 0..HOP_CAP : near[i] \in S
    BY <1>1, <2>1, Stepwise
  <2>3. QED
    BY <2>2 DEF S
<1>6. PICK e \in Items(w.edges) : e.node = n
  BY <1>2, <1>5
<1>7. At(near, n, e.depth)
  BY <1>2, <1>6
<1>8. e.depth <= k
  BY <1>7, AtOnce
<1>9. QED
  BY <1>6, <1>7, <1>8

\* A walk in a mesh that stood still is the truth about it: it lists exactly the nodes
\* within the hop cap at their shortest distances, it is complete exactly when one short of
\* the cap owns the prefix, and cut exactly when some lie at the cap (walk, dispatch_hop):
\* the inductive invariant is the breadth-first search half done.
THEOREM TrueWhenStill == Spec => []TrueMap
<1>1. MapInv => TrueMap
  <2> SUFFICES ASSUME MapInv, NEW c \in Clients,
                      walk[c].phase = "ready", walk[c].frontier = <<>>, walk[c].still,
                      NEW w, w = walk[c], NEW near, near = Within(w.from, w.prefix)
               PROVE  /\ {<<w.edges[i].node, w.edges[i].depth>> : i \in DOMAIN w.edges}
                           = UNION {(near[k] \ IF k = 0 THEN {} ELSE near[k - 1]) \X {k} : k \in 0..HOP_CAP}
                      /\ w.complete <=> \E n \in near[HOP_CAP - 1] : HasDev(n, w.prefix)
                      /\ w.capHit <=> near[HOP_CAP] # near[HOP_CAP - 1]
    BY DEF TrueMap
  <2>1. MeshOK /\ w \in Walk /\ Begun(w) /\ Sound(w) /\ Active(w)
    BY DEF MapInv, TypeInv, TypeOK, MeshOK, Active
  <2>2. Reaches(near, w.from, w.prefix)
    BY <2>1, WithinReaches DEF Begun
  <2>3. Layers(w, near)
    BY <2>1, <2>2 DEF Sound
  <2> DEFINE rows == Items(w.edges)
             cap == HOP_CAP
  <2>4. /\ \A e \in rows : At(near, e.node, e.depth)
        /\ w.complete <=> \E e \in rows : e.depth < cap /\ HasDev(e.node, w.prefix)
        /\ w.capHit <=> \E e \in rows : e.depth = cap
    BY <2>3 DEF Layers
  <2>5. ASSUME NEW k \in 0..cap, NEW n \in near[k]
        PROVE  \E e \in rows : e.node = n /\ e.depth <= k /\ At(near, n, e.depth)
    BY <2>1, <2>2, <2>3, <2>5, AllMet
  <2>6. cap \in Nat \ {0} /\ cap - 1 \in 0..cap /\ cap \in 0..cap /\ cap # 0
    BY Limits
  <2>7. {<<w.edges[i].node, w.edges[i].depth>> : i \in DOMAIN w.edges}
           = {<<e.node, e.depth>> : e \in rows}
    BY DEF Items
  <2>8. \A k \in 0..cap, l \in 0..cap : k <= l => near[k] \subseteq near[l]
    BY <2>2, NearGrows
  <2> HIDE DEF rows, cap
  <2>9. ASSUME NEW e \in rows PROVE e.depth \in 0..cap /\ e.node \in near[e.depth]
    BY <2>4 DEF At, cap
  <2>10. {<<e.node, e.depth>> : e \in rows}
           = UNION {(near[k] \ IF k = 0 THEN {} ELSE near[k - 1]) \X {k} : k \in 0..cap}
    <3>1. ASSUME NEW e \in rows
          PROVE  e.node \in (near[e.depth] \ IF e.depth = 0 THEN {} ELSE near[e.depth - 1])
      BY <2>4 DEF At
    <3>2. ASSUME NEW k \in 0..cap, NEW n \in (near[k] \ IF k = 0 THEN {} ELSE near[k - 1])
          PROVE  \E e \in rows : e.node = n /\ e.depth = k
      <4>1. PICK e \in rows : e.node = n /\ e.depth <= k /\ At(near, n, e.depth)
        BY <2>5, <3>2
      <4>2. At(near, n, k)
        BY <3>2 DEF At, cap
      <4>3. e.depth \in 0..HOP_CAP /\ n \in near[e.depth]
        BY <4>1 DEF At
      <4>4. k <= e.depth
        BY <2>2, <4>2, <4>3, AtOnce
      <4>5. e.depth = k
        BY <2>6, <4>1, <4>3, <4>4
      <4>6. QED
        BY <4>1, <4>5
    <3>3. QED
      BY <2>9, <3>1, <3>2
  <2>11. w.complete <=> \E n \in near[cap - 1] : HasDev(n, w.prefix)
    <3>1. ASSUME NEW e \in rows, e.depth < cap PROVE e.node \in near[cap - 1]
      <4>1. e.depth <= cap - 1
        BY <2>6, <2>9, <3>1
      <4>2. QED
        BY <2>6, <2>8, <2>9, <4>1
    <3>2. ASSUME NEW n \in near[cap - 1] PROVE \E e \in rows : e.node = n /\ e.depth < cap
      <4>1. PICK e \in rows : e.node = n /\ e.depth <= cap - 1
        BY <2>5, <2>6
      <4>2. QED
        BY <2>6, <2>9, <4>1
    <3>3. QED
      BY <2>4, <3>1, <3>2
  <2>12. w.capHit <=> near[cap] # near[cap - 1]
    <3>1. ASSUME NEW e \in rows, e.depth = cap PROVE near[cap] # near[cap - 1]
      BY <2>4, <2>6, <3>1 DEF At
    <3>2. ASSUME near[cap] # near[cap - 1] PROVE \E e \in rows : e.depth = cap
      <4>1. near[cap - 1] \subseteq near[cap]
        BY <2>6, <2>8
      <4>2. PICK n \in near[cap] : n \notin near[cap - 1]
        BY <3>2, <4>1
      <4>3. PICK e \in rows : e.node = n /\ e.depth <= cap
        BY <2>5, <2>6
      <4>4. ~(e.depth <= cap - 1)
        BY <2>6, <2>8, <2>9, <4>2, <4>3
      <4>5. QED
        BY <2>6, <2>9, <4>3, <4>4
    <3>3. QED
      BY <2>4, <3>1, <3>2
  <2>13. QED
    BY <2>7, <2>10, <2>11, <2>12 DEF cap
<1>2. QED
  BY <1>1, MapInit, MapStep, PTL DEF Spec
=============================================================================
