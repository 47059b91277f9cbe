-------------------------------- MODULE Trace --------------------------------
(***************************************************************************)
(* The path tracer of a member (crates/controller/src/trace.rs): clients   *)
(* ask GET /v1/trace, the walker asks each hop's agent how it forwards to  *)
(* the prefix (session::request_trace, WorkCmd::Trace, bird::route) and    *)
(* expands every equal-cost branch breadth first, and a short cache        *)
(* answers repeats.  While a walk waits for a hop, routes change, agents   *)
(* register other links, come and go, and other walks run.                 *)
(*                                                                         *)
(* A next hop is its kind and egress interface: the gateway's address, the *)
(* metric values of a row and the traceparent are left out.  Time is kept  *)
(* as ages.                                                                *)
(***************************************************************************)
EXTENDS Integers, Sequences, FiniteSets

CONSTANTS
    Nodes, Ifaces,
    Targets,        \* prefixes
    Clients,        \* the requests that may be open at once
    Requests,       \* what clients ask: [from, to, prefix]
    Meshes,         \* the meshes to start in: [links, route]
    Relinks,        \* the links a node may register anew: <<node, links>>
    Reroutes,       \* the routes a node may change to: <<node, prefix, route>>
    Loopback,       \* Loopback[n]: the prefix n reports at register, or None
    Grade,          \* Grade[n, i]: the derived record of the link at n over i, "none" without one
    HOP_CAP, HOP_TIMEOUT, CACHE_TTL, CACHE_MAX,
    MaxUpsets,      \* bound on changes of the mesh
    None

Hop == [kind : {"dev", "via"}, iface : Ifaces \cup {None}]
LinkSet == [Ifaces -> Nodes \cup {None}]       \* the peer over each interface of a node

ASSUME TraceAssumption ==
    /\ IsFiniteSet(Nodes)
    /\ Meshes \subseteq [links : [Nodes -> LinkSet], route : [Nodes -> [Targets -> Seq(Hop)]]]
    /\ Requests \subseteq [from : Nodes, to : Nodes \cup {None}, prefix : Targets \cup {None}]
    /\ Loopback \in [Nodes -> Targets \cup {None}]
    /\ Relinks \subseteq Nodes \X LinkSet
    /\ Reroutes \subseteq Nodes \X Targets \X Seq(Hop)
    /\ {HOP_CAP, HOP_TIMEOUT, CACHE_MAX} \subseteq Nat \ {0}
    /\ {CACHE_TTL, MaxUpsets} \subseteq Nat
    /\ None \notin Nodes \cup Ifaces \cup Targets

VARIABLES
    links,      \* links[n]: what n registered last
    route,      \* route[n][p]: the next hops n's BIRD has to p
    up,         \* the agents that are registered and have a session
    walk,       \* walk[c]: the request of c
    cache,      \* TraceRegistry::cache: results, oldest first, each with its age
    upsets

vars == <<links, route, up, walk, cache, upsets>>

\* The longest a walk can take, and the oldest a result can be when it is served.
LongestWalk == HOP_TIMEOUT * Cardinality(Nodes)
Age == 0..(LongestWalk + CACHE_TTL + 1)
Older(age) == IF age + 1 \in Age THEN age + 1 ELSE age

Row == [kind : {"term", "via", "broken"}, depth : Nat, node : Nodes,
        iface : Ifaces \cup {None}, to : Nodes \cup {None}]

\* `edges`, `complete` and `capHit` are the TraceResult; `frontier` and `visited` the
\* walker's; `reply` the answer on its way; `wait` how long the hop has been asked.
\* History: `age` since the walk began, `still` whether nothing changed or failed.
Walk ==
    [phase : {"idle", "ready", "asked", "replied", "lost"},
     from : Nodes \cup {None}, prefix : Targets \cup {None},
     frontier : Seq(Nodes \X Nat), visited : SUBSET Nodes,
     edges : Seq(Row), complete : BOOLEAN, capHit : BOOLEAN,
     reply : Seq(Hop), wait : 0..HOP_TIMEOUT, age : Age, still : BOOLEAN]

NoWalk ==
    [phase |-> "idle", from |-> None, prefix |-> None, frontier |-> <<>>, visited |-> {},
     edges |-> <<>>, complete |-> FALSE, capHit |-> FALSE, reply |-> <<>>,
     wait |-> 0, age |-> 0, still |-> TRUE]

\* A cached result: what it says is settled when it is put, so an entry keeps its key,
\* its time in the cache and, as history, the time since its walk began.
Entry == [at : 0..CACHE_TTL + 1, from : Nodes, prefix : Targets, age : Age]

TypeOK ==
    /\ links \in [Nodes -> LinkSet]
    /\ route \in [Nodes -> [Targets -> Seq(Hop)]]
    /\ up \subseteq Nodes
    /\ walk \in [Clients -> Walk]
    /\ cache \in Seq(Entry) /\ Len(cache) <= CACHE_MAX
    /\ upsets \in 0..MaxUpsets

Init ==
    /\ \E m \in Meshes : links = m.links /\ route = m.route
    /\ up = Nodes
    /\ walk = [c \in Clients |-> NoWalk]
    /\ cache = <<>>
    /\ upsets = 0

-----------------------------------------------------------------------------
\* run_trace

HasAgent(n) == n \in up

\* What a registered agent reported as its loopback.
LoopbackOf(n) == IF n \in Nodes /\ HasAgent(n) THEN Loopback[n] ELSE None

\* The prefix a request names, or the loopback of its destination.
PrefixOf(r) == IF r.prefix # None THEN r.prefix ELSE LoopbackOf(r.to)

BadRequest(r) == ~HasAgent(r.from) \/ PrefixOf(r) = None

FreshKept(entries) == entries     \* mutant: an expired result is served

\* cache_get: expired results go, then the first result of the request's source and
\* prefix is served.
Fresh(entries) ==
    LET kept[i \in 0..Len(entries)] ==
            IF i = 0 THEN <<>>
            ELSE IF entries[i].at <= CACHE_TTL THEN Append(kept[i - 1], entries[i]) ELSE kept[i - 1]
    IN  kept[Len(entries)]
Hits(entries, from, prefix) ==
    {i \in DOMAIN entries : entries[i].from = from /\ entries[i].prefix = prefix}

\* A request is refused, served from the cache, or walked.
Start(c, r) ==
    LET kept == Fresh(cache)
        hits == Hits(kept, r.from, PrefixOf(r))
        begun == [NoWalk EXCEPT !.phase = "ready", !.from = r.from, !.prefix = PrefixOf(r),
                                !.frontier = <<<<r.from, 0>>>>, !.visited = {r.from}]
    IN  /\ walk[c].phase = "idle"
        /\ walk' = IF BadRequest(r) \/ hits # {} THEN walk ELSE [walk EXCEPT ![c] = begun]
        /\ cache' = IF BadRequest(r) THEN cache ELSE kept
        /\ UNCHANGED <<links, route, up, upsets>>

CachePutAll(w) ==     \* mutant: nothing is dropped
    Append(cache, [at |-> 0, from |-> w.from, prefix |-> w.prefix, age |-> w.age])

\* cache_put drops the oldest entry of a full cache.
CachePut(w) ==
    LET room == IF Len(cache) >= CACHE_MAX THEN Tail(cache) ELSE cache
    IN  Append(room, [at |-> 0, from |-> w.from, prefix |-> w.prefix, age |-> w.age])

\* Nothing is left to ask: the result is cached and served.
Finish(c) ==
    /\ walk[c].phase = "ready" /\ walk[c].frontier = <<>>
    /\ walk' = [walk EXCEPT ![c] = NoWalk]
    /\ cache' = CachePut(walk[c])
    /\ UNCHANGED <<links, route, up, upsets>>

-----------------------------------------------------------------------------
\* walk

NodeOf(w) == Head(w.frontier)[1]
DepthOf(w) == Head(w.frontier)[2]

\* The head of the frontier ends in a broken row.
Broken(w) ==
    [w EXCEPT !.phase = "ready", !.frontier = Tail(@), !.wait = 0, !.reply = <<>>,
              !.edges = Append(@, [kind |-> "broken", depth |-> DepthOf(w), node |-> NodeOf(w),
                                   iface |-> None, to |-> None])]

\* The next node of the frontier: cut at the hop cap, not registered, or asked.
Ask(c) ==
    LET w == walk[c]
    IN  /\ w.phase = "ready" /\ w.frontier # <<>>
        /\ walk' = [walk EXCEPT ![c] =
              IF DepthOf(w) >= HOP_CAP THEN [Broken(w) EXCEPT !.capHit = TRUE]
              ELSE IF ~HasAgent(NodeOf(w)) THEN [Broken(w) EXCEPT !.still = FALSE]
              ELSE [w EXCEPT !.phase = "asked"]]
        /\ UNCHANGED <<links, route, up, cache, upsets>>

\* bird::route: how node n forwards to p now; a bus without the route method, and an
\* unresolved prefix, answer no routes.
RouteAt(n, p) == route[n][p]

\* The agent resolves the prefix and replies.
Resolve(c) ==
    LET w == walk[c]
    IN  /\ w.phase = "asked"
        /\ walk' = [walk EXCEPT ![c].phase = "replied", ![c].reply = RouteAt(NodeOf(w), w.prefix)]
        /\ UNCHANGED <<links, route, up, cache, upsets>>

UnansweredRetry(w) ==     \* mutant: a silent hop is asked again later
    [Broken(w) EXCEPT !.still = FALSE, !.frontier = Append(@, Head(w.frontier))]

\* The stream failed or carried the wrong reply kind, or the deadline passed.
Unanswered(w) == [Broken(w) EXCEPT !.still = FALSE]

HopFails(c) ==
    /\ walk[c].phase \in {"asked", "replied", "lost"}
    /\ walk' = [walk EXCEPT ![c] = Unanswered(walk[c])]
    /\ UNCHANGED <<links, route, up, cache, upsets>>

DueNever(w) == FALSE     \* mutant: no deadline

Due(w) == w.phase \in {"asked", "replied", "lost"} /\ w.wait = HOP_TIMEOUT

HopTimesOut(c) ==
    /\ Due(walk[c])
    /\ walk' = [walk EXCEPT ![c] = Unanswered(walk[c])]
    /\ UNCHANGED <<links, route, up, cache, upsets>>

AllNextHopsFirst(hops) == {1}     \* mutant: one branch only

\* all_next_hops: the places of the reply that name a next hop for the first time.
AllNextHops(hops) == {i \in DOMAIN hops : \A j \in 1..(i - 1) : hops[j] # hops[i]}

\* peer_for_egress, from what the node has registered when the reply arrives.
PeerForEgress(n, i) == IF i # None /\ HasAgent(n) THEN links[n][i] ELSE None

\* edge_metrics: an edge without a peer, a record or a class, or in a bad state, is broken.
EdgeKind(n, i, peer) ==
    IF peer = None \/ Grade[n, i] \in {"none", "unclassified", "conflict", "bad"} THEN "broken" ELSE "via"

EnterLevel(w, p, depth) ==     \* mutant: a hop counts nothing
    IF p \in w.visited THEN w
    ELSE [w EXCEPT !.visited = @ \cup {p}, !.frontier = Append(@, <<p, depth>>)]

\* A peer joins the frontier when it is met first.
Enter(w, p, depth) ==
    IF p \in w.visited THEN w
    ELSE [w EXCEPT !.visited = @ \cup {p}, !.frontier = Append(@, <<p, depth + 1>>)]

\* One next hop of node n.
ExpandHop(w, n, depth, h) ==
    LET peer == PeerForEgress(n, h.iface)
        row == [kind |-> EdgeKind(n, h.iface, peer), depth |-> depth, node |-> n,
                iface |-> h.iface, to |-> peer]
        seen == [w EXCEPT !.edges = Append(@, row)]
    IN  IF h.kind = "dev"
        THEN [w EXCEPT !.complete = TRUE,
                       !.edges = Append(@, [kind |-> "term", depth |-> depth, node |-> n,
                                            iface |-> None, to |-> n])]
        ELSE IF peer = None THEN seen ELSE Enter(seen, peer, depth)

Popped(w) == [w EXCEPT !.phase = "ready", !.frontier = Tail(@), !.wait = 0, !.reply = <<>>]

\* Every next hop in turn.
Expanded(w) ==
    LET after[i \in 0..Len(w.reply)] ==
            IF i = 0 THEN Popped(w)
            ELSE IF i \in AllNextHops(w.reply)
                 THEN ExpandHop(after[i - 1], NodeOf(w), DepthOf(w), w.reply[i]) ELSE after[i - 1]
    IN  after[Len(w.reply)]

\* The reply arrives: every next hop is a row, or the node is a dead end.
Expand(c) ==
    LET w == walk[c]
    IN  /\ w.phase = "replied"
        /\ walk' = [walk EXCEPT ![c] = IF w.reply = <<>> THEN Broken(w) ELSE Expanded(w)]
        /\ UNCHANGED <<links, route, up, cache, upsets>>

-----------------------------------------------------------------------------
\* The mesh.

Active(w) == w.phase # "idle"

Upset ==
    /\ upsets < MaxUpsets
    /\ upsets' = upsets + 1
    /\ UNCHANGED cache

\* Walks in progress see a mesh that changed.
Changed == [c \in Clients |-> [walk[c] EXCEPT !.still = @ /\ ~Active(walk[c])]]

\* BIRD of n forwards differently.
Reroute(n, p, hops) ==
    /\ Upset
    /\ route' = [route EXCEPT ![n][p] = hops]
    /\ walk' = Changed
    /\ UNCHANGED <<links, up>>

\* Agent n registers, with these links: again, or after it was away.
Register(n, set) ==
    /\ Upset
    /\ links' = [links EXCEPT ![n] = set]
    /\ up' = up \cup {n}
    /\ walk' = Changed
    /\ UNCHANGED route

\* The session of n ends: it is unregistered, and what it was asked stays unanswered.
Disconnect(n) ==
    /\ Upset
    /\ n \in up
    /\ up' = up \ {n}
    /\ walk' = [c \in Clients |->
                  IF walk[c].phase \in {"asked", "replied"} /\ NodeOf(walk[c]) = n
                  THEN [Changed[c] EXCEPT !.phase = "lost", !.reply = <<>>] ELSE Changed[c]]
    /\ UNCHANGED <<links, route>>

\* Time passes while every walk waits for a hop, and never past a deadline.
Tick ==
    /\ \A c \in Clients : walk[c].phase # "ready"
    /\ \A c \in Clients : Active(walk[c]) => walk[c].wait < HOP_TIMEOUT
    /\ walk' = [c \in Clients |->
                  IF Active(walk[c]) THEN [walk[c] EXCEPT !.wait = @ + 1, !.age = Older(@)] ELSE walk[c]]
    /\ cache' = [i \in DOMAIN cache |->
                   [cache[i] EXCEPT !.at = IF @ > CACHE_TTL THEN @ ELSE @ + 1, !.age = Older(@)]]
    /\ UNCHANGED <<links, route, up, upsets>>

Next ==
    \/ \E c \in Clients, r \in Requests : Start(c, r)
    \/ \E c \in Clients :
          Finish(c) \/ Ask(c) \/ Resolve(c) \/ HopFails(c) \/ HopTimesOut(c) \/ Expand(c)
    \/ \E m \in Relinks : Register(m[1], m[2])
    \/ \E m \in Reroutes : Reroute(m[1], m[2], m[3])
    \/ \E n \in Nodes : Disconnect(n)
    \/ Tick

\* The walker's task runs and its deadline fires; time passes.  No agent has to answer.
Fairness ==
    /\ \A c \in Clients : WF_vars(Finish(c) \/ Ask(c)) /\ WF_vars(HopTimesOut(c))
    /\ SF_vars(Tick)

Spec == Init /\ [][Next]_vars /\ Fairness

-----------------------------------------------------------------------------
\* Properties

\* The mesh a walk ought to find, by definition: the peers of a node, the nodes at most
\* k hops from the source, and the hops to a node.
PeersOf(n, p) == {PeerForEgress(n, route[n][p][i].iface) : i \in
                    {j \in DOMAIN route[n][p] : route[n][p][j].kind = "via"}} \ {None}
Within(from, p) ==
    LET reach[k \in 0..HOP_CAP] ==
            IF k = 0 THEN {from}
            ELSE reach[k - 1] \cup UNION {PeersOf(n, p) : n \in reach[k - 1]}
    IN  reach
HasDev(n, p) == \E i \in DOMAIN route[n][p] : route[n][p][i].kind = "dev"

\* A walk in a mesh that stood still is the truth about it: it lists exactly the nodes
\* within the hop cap, each at its shortest distance, it is complete exactly when one of
\* them short of the cap owns the prefix, and it is cut exactly when some lie at the cap
\* (walk, dispatch_hop, all_next_hops).
TrueMap ==
    \A c \in Clients :
        LET w == walk[c]
            near == Within(w.from, w.prefix)
        IN  w.phase = "ready" /\ w.frontier = <<>> /\ w.still =>
                /\ {<<w.edges[i].node, w.edges[i].depth>> : i \in DOMAIN w.edges}
                     = UNION {(near[k] \ IF k = 0 THEN {} ELSE near[k - 1]) \X {k} : k \in 0..HOP_CAP}
                /\ w.complete <=> \E n \in near[HOP_CAP - 1] : HasDev(n, w.prefix)
                /\ w.capHit <=> near[HOP_CAP] # near[HOP_CAP - 1]

\* Whatever changes while the walk waits, its rows hang together: every row below the
\* source is the far end of a row one hop nearer, so a result that says complete shows a
\* path of rows to a node that answered that it owns the prefix (walk).
PathShown ==
    \A c \in Clients :
        LET rows == {walk[c].edges[i] : i \in DOMAIN walk[c].edges}
        IN  /\ \A e \in rows :
                 IF e.depth = 0 THEN e.node = walk[c].from
                 ELSE \E d \in rows : d.depth = e.depth - 1 /\ d.to = e.node /\ d.kind # "term"
            /\ walk[c].complete => \E e \in rows : e.kind = "term"

\* However the mesh loops, fails and changes, a walk asks every node at most once: it
\* ends within one hop deadline per node of the mesh (the visited set, HOP_TIMEOUT).
BoundedWalk == \A c \in Clients : Active(walk[c]) => walk[c].age <= LongestWalk

\* A request is never served from a walk that began longer than one walk and the cache's
\* life time ago, although a result is put only when its walk ended and walks of the same
\* request put theirs one after the other (cache_get, cache_put).
BoundedAge ==
    \A r \in Requests :
        LET kept == Fresh(cache)
            hits == Hits(kept, r.from, PrefixOf(r))
        IN  \A i \in hits : (\A j \in hits : i <= j) => kept[i].age <= LongestWalk + CACHE_TTL

\* Every trace is answered, though no agent answers (HOP_TIMEOUT).
Answered == \A c \in Clients : walk[c].phase = "ready" ~> ~Active(walk[c])
=============================================================================
