------------------------------- MODULE Workers -------------------------------
(***************************************************************************)
(* The agent registry of the controller (crates/controller/src/worker.rs): *)
(* what one lock section of WorkerRegistry does to the registry, as an     *)
(* operator from registry value to registry value.  The state machines     *)
(* that use the registry (Dispatch) hold it in a variable and take one     *)
(* such operator per atomic step.                                          *)
(*                                                                         *)
(* The clock is abstracted to what has elapsed: a worker remembers the     *)
(* probes whose interval has not passed yet (issued) and the links still   *)
(* in their apply back-off (retry); the steps that let time pass remove    *)
(* elements of these sets.                                                 *)
(***************************************************************************)
EXTENDS Naturals, FiniteSets

CONSTANTS
    Agents,      \* the names nodes register under
    Names,       \* every spelling of a node name a link may carry
    Links,       \* every LinkKey that may occur, renamed ones included
    Interfaces,  \* interface names, unique across the nodes
    NameKey,     \* name |-> its folded form (name_key)
    Rids,        \* router ids
    RouterId,    \* agent |-> the router id it registers with, or NoRid
    PeerRid,     \* interface |-> router id of the neighbour, or NoRid
    Costs,       \* OSPF costs the classifier may derive
    NoCost, NoRid, NoName

Tiers == {"always", "throughput"}
Kinds == Tiers \cup {"apply"}

\* The link with its far end called n.
RenameTo(l, n) == [l EXCEPT !.to = n]

\* Two registered names never fold to one key, a router id belongs to one
\* node, and every renaming of a link that the registry can perform is
\* again a link of the model.
ASSUME WorkersAssumption ==
    /\ Agents \subseteq Names
    /\ Links \subseteq [from : Agents, to : Names, interface : Interfaces]
    /\ \A a, b \in Agents : NameKey[a] = NameKey[b] => a = b
    /\ \A a, b \in Agents : RouterId[a] \in Rids /\ RouterId[a] = RouterId[b] => a = b
    /\ RouterId \in [Agents -> Rids \cup {NoRid}]
    /\ PeerRid \in [Interfaces -> Rids \cup {NoRid}]
    /\ NoCost \notin Costs /\ NoRid \notin Rids /\ NoName \notin Names
    /\ \A l \in Links, a \in Agents :
          \/ NameKey[a] = NameKey[l.to]
          \/ PeerRid[l.interface] \in Rids /\ PeerRid[l.interface] = RouterId[a]
          => RenameTo(l, a) \in Links

-----------------------------------------------------------------------------
(* Registry values.                                                        *)

\* `known` says whether the registry has an entry for the agent at all;
\* generation 0 stands for "no session attached".
Worker ==
    [known    : BOOLEAN,
     links    : SUBSET Links,
     gen      : Nat,
     sent     : [Links -> Costs \cup {NoCost}],
     retry    : SUBSET Links,
     issued   : SUBSET (Links \X Tiers),
     inflight : SUBSET (Links \X Kinds)]

\* Worker::default(): also what a removed entry looks like.
NoWorker ==
    [known |-> FALSE, links |-> {}, gen |-> 0,
     sent |-> [l \in Links |-> NoCost],
     retry |-> {}, issued |-> {}, inflight |-> {}]

Known(reg) == {a \in Agents : reg[a].known}

-----------------------------------------------------------------------------
(* Naming.                                                                 *)

\* The registered spelling of a reported peer name; unknown names pass
\* through.
CanonicalPeer(reg, n) ==
    IF n \in Known(reg) THEN n
    ELSE IF \E k \in Known(reg) : NameKey[k] = NameKey[n]
         THEN CHOOSE k \in Known(reg) : NameKey[k] = NameKey[n]
         ELSE n

\* The far end of a link `agent` reports, folded to a name the registry
\* knows, or to the agent's own.
FoldReported(reg, agent, l) ==
    IF \E k \in Known(reg) : NameKey[k] = NameKey[l.to]
    THEN RenameTo(l, CHOOSE k \in Known(reg) : NameKey[k] = NameKey[l.to])
    ELSE IF NameKey[l.to] = NameKey[agent] THEN RenameTo(l, agent) ELSE l

\* Mutant: earlier registrations keep their spelling of the newcomer.
FoldOtherNot(agent, l) == l

\* The far end of another agent's link, once `agent` has registered.
FoldOther(agent, l) ==
    IF NameKey[l.to] = NameKey[agent] THEN RenameTo(l, agent) ELSE l

\* The name the node directory gives a link's far end, NoName when the
\* neighbour's router id is not reported or not in the directory.
DirectoryName(dir, l) ==
    IF PeerRid[l.interface] \in Rids THEN dir[PeerRid[l.interface]] ELSE NoName

NameByDirectory(dir, l) ==
    IF DirectoryName(dir, l) = NoName THEN l ELSE RenameTo(l, DirectoryName(dir, l))

-----------------------------------------------------------------------------
(* Registration and sessions.                                              *)

\* A registration replaces the link set, forgets every cost sent and
\* every back-off, and keeps stamps and slots of the links that stay.
\* The session is kept.  The links of the other agents that meant this
\* node under another spelling are renamed; nothing keyed by their old
\* id moves along.
Register(reg, agent, links) ==
    LET folded == {FoldReported(reg, agent, l) : l \in links}
        w      == reg[agent]
    IN [a \in Agents |->
          IF a = agent
          THEN [known    |-> TRUE,
                links    |-> folded,
                gen      |-> w.gen,
                sent     |-> [l \in Links |-> NoCost],
                retry    |-> {},
                issued   |-> {p \in w.issued : p[1] \in folded},
                inflight |-> {p \in w.inflight : p[1] \in folded}]
          ELSE [reg[a] EXCEPT !.links = {FoldOther(agent, l) : l \in @}]]

\* Every link is named by its neighbour's router id where the directory
\* knows it.
ResolvePeers(reg, dir) ==
    [a \in Agents |->
        [reg[a] EXCEPT !.links = {NameByDirectory(dir, l) : l \in @}]]

\* Attach a session under generation g (the caller's counter plus one).
\* `own` is the generation the connection holds already, 0 if none; a
\* refresh on the current session changes nothing.
KeepsSession(reg, agent, own) == own # 0 /\ reg[agent].gen = own

Attach(reg, agent, own, g) ==
    IF KeepsSession(reg, agent, own) THEN reg
    ELSE [reg EXCEPT ![agent] =
            [reg[agent] EXCEPT !.known = TRUE, !.gen = g, !.inflight = {}]]

\* Mutants: a closing session evicts whoever owns the agent; it evicts nobody.
DetachAny(reg, agent, g) == [reg EXCEPT ![agent] = NoWorker]

DetachNever(reg, agent, g) == reg

\* Forget the agent, unless a newer session has replaced the caller's.
Detach(reg, agent, g) ==
    IF reg[agent].known /\ reg[agent].gen = g
    THEN [reg EXCEPT ![agent] = NoWorker] ELSE reg

\* All (agent, link) pairs of registered agents.
OwnedLinks(reg) == {p \in Agents \X Links : p[2] \in reg[p[1]].links}

-----------------------------------------------------------------------------
(* Slots, stamps and the memory of what was sent.                          *)

SlotFree(reg, agent, l, k) == reg[agent].known /\ <<l, k>> \notin reg[agent].inflight

\* Mutant: the two probe tiers share one slot that is no kind of command.
BeginOneTier(reg, agent, l, k) ==
    [reg EXCEPT ![agent].inflight = @ \cup {<<l, IF k \in Tiers THEN "probe" ELSE k>>}]

Begin(reg, agent, l, k) ==
    [reg EXCEPT ![agent].inflight = @ \cup {<<l, k>>}]

\* Mutant: the task forgets to free its slot.
EndNot(reg, agent, l, k) == reg

\* The slot is freed by name: whoever holds it now.
End(reg, agent, l, k) ==
    [reg EXCEPT ![agent].inflight = @ \ {<<l, k>>}]

ProbeDue(reg, agent, l, t) == reg[agent].known /\ <<l, t>> \notin reg[agent].issued

MarkIssued(reg, agent, l, t) ==
    IF reg[agent].known
    THEN [reg EXCEPT ![agent].issued = @ \cup {<<l, t>>}]
    ELSE reg

ApplyDue(reg, agent, l, c) ==
    /\ reg[agent].known
    /\ reg[agent].sent[l] # c
    /\ l \notin reg[agent].retry

SetAppliedSent(reg, agent, l, c) ==
    IF reg[agent].known
    THEN [reg EXCEPT ![agent] =
            [reg[agent] EXCEPT !.sent = [reg[agent].sent EXCEPT ![l] = c],
                               !.retry = reg[agent].retry \ {l}]]
    ELSE reg

\* Mutant: the cost is still taken for sent.
NoteNothing(reg, agent, l) == reg

NoteApplyFailed(reg, agent, l) ==
    IF reg[agent].known
    THEN [reg EXCEPT ![agent] =
            [reg[agent] EXCEPT !.sent = [reg[agent].sent EXCEPT ![l] = NoCost],
                               !.retry = reg[agent].retry \cup {l}]]
    ELSE reg
=============================================================================
