-------------------------- MODULE CostControlProofs --------------------------
(***************************************************************************)
(* Proof that the controller's memory of the cost it sent stays true, for  *)
(* every number of commands, refreshers, registrations, absences and       *)
(* redeployments.                                                          *)
(***************************************************************************)
EXTENDS CostControl, TLAPS

-----------------------------------------------------------------------------
(* The operators of Workers keep registry values.                          *)

\* The entry of an agent that is not registered is a registry entry.
LEMMA NoWorkerType == NoWorker \in Worker
BY DEF NoWorker, Worker

\* Renaming a reported link to the spelling its peer registered under gives a
\* link of the instance.
LEMMA FoldReportedType ==
    ASSUME NEW r \in [Agents -> Worker], NEW x \in Agents, NEW l \in Links
    PROVE  FoldReported(r, x, l) \in Links
<1>1. CASE \E k \in Known(r) : NameKey[k] = NameKey[l.to]
  <2> DEFINE k == CHOOSE k \in Known(r) : NameKey[k] = NameKey[l.to]
  <2>1. k \in Known(r) /\ NameKey[k] = NameKey[l.to]
    BY <1>1
  <2>2. k \in Agents
    BY <2>1 DEF Known
  <2>3. RenameTo(l, k) \in Links
    BY <2>1, <2>2, WorkersAssumption
  <2>4. QED
    BY <1>1, <2>3 DEF FoldReported
<1>2. CASE ~\E k \in Known(r) : NameKey[k] = NameKey[l.to]
  BY <1>2, WorkersAssumption DEF FoldReported
<1>3. QED
  BY <1>1, <1>2

\* Renaming the links of the other agents to a newcomer's spelling gives links.
LEMMA FoldOtherType ==
    ASSUME NEW x \in Agents, NEW l \in Links
    PROVE  FoldOther(x, l) \in Links
BY WorkersAssumption DEF FoldOther

\* WorkerRegistry::register keeps the registry well typed.
LEMMA RegisterType ==
    ASSUME NEW r \in [Agents -> Worker], NEW x \in Agents, NEW ls \in SUBSET Links
    PROVE  Register(r, x, ls) \in [Agents -> Worker]
<1> DEFINE folded == {FoldReported(r, x, l) : l \in ls}
<1>1. folded \in SUBSET Links
  BY FoldReportedType
<1>2. [known    |-> TRUE,
       links    |-> folded,
       gen      |-> r[x].gen,
       sent     |-> [l \in Links |-> NoCost],
       retry    |-> {},
       issued   |-> {p \in r[x].issued : p[1] \in folded},
       inflight |-> {p \in r[x].inflight : p[1] \in folded}] \in Worker
  BY <1>1 DEF Worker
<1>3. ASSUME NEW y \in Agents
      PROVE  [r[y] EXCEPT !.links = {FoldOther(x, l) : l \in @}] \in Worker
  <2>1. {FoldOther(x, l) : l \in r[y].links} \in SUBSET Links
    BY FoldOtherType DEF Worker
  <2>2. QED
    BY <2>1 DEF Worker
<1>4. QED
  BY <1>2, <1>3 DEF Register

\* WorkerRegistry::attach and detach keep the registry well typed.
LEMMA SessionOpsType ==
    ASSUME NEW r \in [Agents -> Worker], NEW x \in Agents, NEW own \in Nat, NEW g \in Nat
    PROVE  /\ Attach(r, x, own, g) \in [Agents -> Worker]
           /\ Detach(r, x, g) \in [Agents -> Worker]
<1>1. Attach(r, x, own, g) \in [Agents -> Worker]
  <2>1. r[x] \in Worker
    OBVIOUS
  <2>2. [r[x] EXCEPT !.known = TRUE, !.gen = g, !.inflight = {}] \in Worker
    BY <2>1 DEF Worker
  <2>3. QED
    BY <2>2 DEF Attach
<1>2. Detach(r, x, g) \in [Agents -> Worker]
  BY NoWorkerType DEF Detach
<1>3. QED
  BY <1>1, <1>2

\* Claiming and freeing a (link, kind) slot keep the registry well typed.
LEMMA SlotOpsType ==
    ASSUME NEW r \in [Agents -> Worker], NEW x \in Agents, NEW l \in Links, NEW k \in Kinds
    PROVE  /\ Begin(r, x, l, k) \in [Agents -> Worker]
           /\ End(r, x, l, k) \in [Agents -> Worker]
           /\ k \in Tiers => MarkIssued(r, x, l, k) \in [Agents -> Worker]
<1>1. r[x] \in Worker
  OBVIOUS
<1>2. Begin(r, x, l, k) \in [Agents -> Worker]
  <2>1. [r[x] EXCEPT !.inflight = @ \cup {<<l, k>>}] \in Worker
    BY <1>1 DEF Worker
  <2>2. QED
    BY <2>1 DEF Begin
<1>3. End(r, x, l, k) \in [Agents -> Worker]
  <2>1. [r[x] EXCEPT !.inflight = @ \ {<<l, k>>}] \in Worker
    BY <1>1 DEF Worker
  <2>2. QED
    BY <2>1 DEF End
<1>4. ASSUME k \in Tiers PROVE MarkIssued(r, x, l, k) \in [Agents -> Worker]
  <2>1. [r[x] EXCEPT !.issued = @ \cup {<<l, k>>}] \in Worker
    BY <1>1, <1>4 DEF Worker
  <2>2. QED
    BY <2>1 DEF MarkIssued
<1>5. QED
  BY <1>2, <1>3, <1>4

\* The cost fields of an entry may be replaced by others of their types.
LEMMA CostFieldsType ==
    ASSUME NEW w \in Worker, NEW s \in [Links -> Costs \cup {NoCost}], NEW t \in SUBSET Links
    PROVE  [w EXCEPT !.sent = s, !.retry = t] \in Worker
BY DEF Worker

\* Recording a cost as sent, or as failed, keeps the registry well typed.
LEMMA CostOpsType ==
    ASSUME NEW r \in [Agents -> Worker], NEW x \in Agents, NEW l \in Links,
           NEW k \in Costs \cup {NoCost}
    PROVE  /\ SetAppliedSent(r, x, l, k) \in [Agents -> Worker]
           /\ NoteApplyFailed(r, x, l) \in [Agents -> Worker]
<1>1. SetAppliedSent(r, x, l, k) \in [Agents -> Worker]
  <2>1. [r[x].sent EXCEPT ![l] = k] \in [Links -> Costs \cup {NoCost}]
    BY DEF Worker
  <2>2. r[x].retry \ {l} \in SUBSET Links
    BY DEF Worker
  <2>3. [r[x] EXCEPT !.sent = [r[x].sent EXCEPT ![l] = k],
                     !.retry = r[x].retry \ {l}] \in Worker
    BY <2>1, <2>2, CostFieldsType
  <2>4. QED
    BY <2>3 DEF SetAppliedSent
<1>2. NoteApplyFailed(r, x, l) \in [Agents -> Worker]
  <2>1. [r[x].sent EXCEPT ![l] = NoCost] \in [Links -> Costs \cup {NoCost}]
    BY DEF Worker
  <2>2. r[x].retry \cup {l} \in SUBSET Links
    BY DEF Worker
  <2>3. [r[x] EXCEPT !.sent = [r[x].sent EXCEPT ![l] = NoCost],
                     !.retry = r[x].retry \cup {l}] \in Worker
    BY <2>1, <2>2, CostFieldsType
  <2>4. QED
    BY <2>3 DEF NoteApplyFailed
<1>3. QED
  BY <1>1, <1>2

-----------------------------------------------------------------------------
(* The inductive invariant.                                                *)

Sent == reg[Node].sent[Tunnel]

Outstanding == \E i \in Ids : task[i].open

\* An agent without the tunnel has registered no link; the agent's entry is
\* never lost; a task of the agent that is over, and not answered yet, is one
\* the controller waits for.
Registry ==
    /\ reg[Node].known
    /\ announced \/ reg[Node].links = {}
    /\ \A i \in Ids : run[i].pc \in {"applied", "failed"} => task[i].open

\* Results in order: one command outstanding at a time, and while the agent has
\* begun it, no other is at work there; a dispatch not yet recorded is still
\* outstanding.
InOrder ==
    /\ \A i, j \in Ids : task[i].open /\ task[j].open => i = j
    /\ \A i, j \in Ids : task[i].open /\ run[i] # NoRun /\ Busy(j) => j = i
    /\ Unstamped => Outstanding

\* A command issued under the registration in force is applied with its own
\* cost, and a cost applied is desired until the tunnel is gone.
Fresh ==
    \A i \in Ids :
        task[i].open =>
            /\ task[i].fresh => announced
            /\ run[i] # NoRun => run[i].cost = task[i].cost
            /\ task[i].fresh /\ run[i].pc = "applied" => desired = task[i].cost \/ changed

\* A cost remembered with no command outstanding is the desired one, and no
\* command is left in the agent that could change that; or the agent is about to
\* register again.
Memory ==
    \/ Sent = NoCost \/ Outstanding \/ changed
    \/ Sent = desired /\ announced /\ \A i \in Ids : ~Busy(i)

MemoryInv == Registry /\ (~overtaken => InOrder /\ Fresh /\ Memory)

\* The types the invariant rests on.
Types ==
    /\ kvCost \in Costs \cup {NoCost}
    /\ reg \in [Agents -> Worker]
    /\ issuer \in [Issuers -> [pc : {"idle", "seed", "stamp"}, cost : Costs \cup {NoCost}]]
    /\ task \in [Ids -> [open : BOOLEAN, live : BOOLEAN, fresh : BOOLEAN,
                         cost : Costs \cup {NoCost}]]
    /\ run \in [Ids -> [pc   : {"none", "apply", "record", "applied", "failed"},
                        cost : Costs \cup {NoCost}]]
    /\ present \in BOOLEAN /\ announced \in BOOLEAN /\ changed \in BOOLEAN
    /\ overtaken \in BOOLEAN

-----------------------------------------------------------------------------
(* The registry operators, as far as the memory of the tunnel is concerned. *)

LEMMA NodeAgent == Node \in Agents /\ Tunnel \in Links
BY CostControlAssumption, WorkersAssumption DEF Node

\* Slots and the end of a back-off leave the memory alone.
LEMMA SlotOps ==
    ASSUME NEW r \in [Agents -> Worker]
    PROVE  \A q \in {Begin(r, Node, Tunnel, "apply"), End(r, Node, Tunnel, "apply"),
                     [r EXCEPT ![Node].retry = {}]} :
              /\ q \in [Agents -> Worker]
              /\ q[Node].known = r[Node].known /\ q[Node].links = r[Node].links
              /\ q[Node].sent = r[Node].sent
<1>1. ASSUME NEW q, q = Begin(r, Node, Tunnel, "apply")
      PROVE  /\ q \in [Agents -> Worker]
             /\ q[Node].known = r[Node].known /\ q[Node].links = r[Node].links
             /\ q[Node].sent = r[Node].sent
  <2>1. q \in [Agents -> Worker]
    BY <1>1, NodeAgent, SlotOpsType DEF Kinds
  <2>2. QED
    BY <1>1, <2>1, NodeAgent DEF Begin, Worker
<1>2. ASSUME NEW q, q = End(r, Node, Tunnel, "apply")
      PROVE  /\ q \in [Agents -> Worker]
             /\ q[Node].known = r[Node].known /\ q[Node].links = r[Node].links
             /\ q[Node].sent = r[Node].sent
  <2>1. q \in [Agents -> Worker]
    BY <1>2, NodeAgent, SlotOpsType DEF Kinds
  <2>2. QED
    BY <1>2, <2>1, NodeAgent DEF End, Worker
<1>3. ASSUME NEW q, q = [r EXCEPT ![Node].retry = {}]
      PROVE  /\ q \in [Agents -> Worker]
             /\ q[Node].known = r[Node].known /\ q[Node].links = r[Node].links
             /\ q[Node].sent = r[Node].sent
  <2>1. r[Node] \in Worker /\ q = [r EXCEPT ![Node] = [r[Node] EXCEPT !.retry = {}]]
    BY <1>3, NodeAgent
  <2>2. ASSUME NEW w \in Worker
        PROVE  /\ [w EXCEPT !.retry = {}] \in Worker
               /\ [w EXCEPT !.retry = {}].known = w.known
               /\ [w EXCEPT !.retry = {}].links = w.links
               /\ [w EXCEPT !.retry = {}].sent = w.sent
    BY DEF Worker
  <2>3. QED
    BY <2>1, <2>2, NodeAgent
<1>4. QED
  BY <1>1, <1>2, <1>3

\* What set_applied_sent and note_apply_failed record of a known agent.
LEMMA MemoryOps ==
    ASSUME NEW r \in [Agents -> Worker], NEW c \in Costs \cup {NoCost}, r[Node].known
    PROVE  /\ SetAppliedSent(r, Node, Tunnel, c) \in [Agents -> Worker]
           /\ SetAppliedSent(r, Node, Tunnel, c)[Node].known
           /\ SetAppliedSent(r, Node, Tunnel, c)[Node].links = r[Node].links
           /\ SetAppliedSent(r, Node, Tunnel, c)[Node].sent[Tunnel] = c
           /\ NoteApplyFailed(r, Node, Tunnel) \in [Agents -> Worker]
           /\ NoteApplyFailed(r, Node, Tunnel)[Node].known
           /\ NoteApplyFailed(r, Node, Tunnel)[Node].links = r[Node].links
           /\ NoteApplyFailed(r, Node, Tunnel)[Node].sent[Tunnel] = NoCost
<1>1. r[Node] \in Worker /\ r[Node].sent \in [Links -> Costs \cup {NoCost}]
  BY NodeAgent DEF Worker
<1>2. ASSUME NEW w \in Worker, NEW s, NEW x
      PROVE  /\ [w EXCEPT !.sent = s, !.retry = x].known = w.known
             /\ [w EXCEPT !.sent = s, !.retry = x].links = w.links
             /\ [w EXCEPT !.sent = s, !.retry = x].sent = s
  BY DEF Worker
<1>3. /\ SetAppliedSent(r, Node, Tunnel, c) \in [Agents -> Worker]
      /\ NoteApplyFailed(r, Node, Tunnel) \in [Agents -> Worker]
  BY NodeAgent, CostOpsType
<1>4. /\ SetAppliedSent(r, Node, Tunnel, c)[Node] =
            [r[Node] EXCEPT !.sent = [r[Node].sent EXCEPT ![Tunnel] = c],
                            !.retry = r[Node].retry \ {Tunnel}]
      /\ NoteApplyFailed(r, Node, Tunnel)[Node] =
            [r[Node] EXCEPT !.sent = [r[Node].sent EXCEPT ![Tunnel] = NoCost],
                            !.retry = r[Node].retry \cup {Tunnel}]
  BY NodeAgent DEF SetAppliedSent, NoteApplyFailed
<1>5. /\ [r[Node].sent EXCEPT ![Tunnel] = c][Tunnel] = c
      /\ [r[Node].sent EXCEPT ![Tunnel] = NoCost][Tunnel] = NoCost
  BY <1>1, NodeAgent
<1>6. QED
  BY <1>1, <1>2, <1>3, <1>4, <1>5

\* A registration forgets the cost; without the tunnel it has no link.
LEMMA HelloOps ==
    ASSUME Types, NEW q, q \in {Registered(reg), Attach(Registered(reg), Node, 0, reg[Node].gen + 1)}
    PROVE  /\ q \in [Agents -> Worker] /\ q[Node].known /\ q[Node].sent[Tunnel] = NoCost
           /\ ~present => q[Node].links = {}
<1>1. /\ reg \in [Agents -> Worker] /\ present \in BOOLEAN
      /\ reg[Node].gen \in Nat
  BY NodeAgent DEF Types, Worker
<1>2. (IF present THEN {Tunnel} ELSE {}) \in SUBSET Links
  BY NodeAgent
<1>3. Registered(reg) \in [Agents -> Worker]
  BY <1>1, <1>2, NodeAgent, RegisterType DEF Registered
<1>4. /\ Registered(reg)[Node].known /\ Registered(reg)[Node].sent = [l \in Links |-> NoCost]
      /\ ~present => Registered(reg)[Node].links = {}
  BY NodeAgent DEF Registered, Register
<1>5. CASE q = Registered(reg)
  BY <1>3, <1>4, <1>5, NodeAgent
<1>6. CASE q = Attach(Registered(reg), Node, 0, reg[Node].gen + 1)
  <2> DEFINE w == Registered(reg)
             g == reg[Node].gen + 1
  <2>1. q = [w EXCEPT ![Node] = [w[Node] EXCEPT !.known = TRUE, !.gen = g, !.inflight = {}]]
    BY <1>6 DEF Attach, KeepsSession
  <2>2. q \in [Agents -> Worker]
    BY <1>1, <1>3, <1>6, NodeAgent, SessionOpsType
  <2> HIDE DEF w, g
  <2>3. w \in [Agents -> Worker]
    BY <1>3 DEF w
  <2>4. q[Node].known /\ q[Node].sent = w[Node].sent /\ q[Node].links = w[Node].links
    BY <2>1, <2>3, NodeAgent DEF Worker
  <2>5. QED
    BY <1>4, <2>2, <2>4, NodeAgent DEF w
<1>7. QED
  BY <1>5, <1>6

-----------------------------------------------------------------------------
(* One lemma per kind of step.                                             *)

CostInv == Types /\ MemoryInv

\* Steps that neither command, nor record, nor register, nor compare.
Quiet ==
    /\ kvCost' \in Costs \cup {NoCost}
    /\ reg' \in {reg, [reg EXCEPT ![Node].retry = {}]}
    /\ issuer' \in {issuer, [issuer EXCEPT !["hello"] = NoIssue]}
    /\ task' = task /\ run' = run /\ desired' = desired
    /\ present' = present /\ announced' = announced /\ changed' = changed
    /\ overtaken' = overtaken

LEMMA QuietStep ==
    ASSUME CostInv, Quiet
    PROVE  CostInv'
<1>1. Types /\ MemoryInv /\ reg \in [Agents -> Worker]
  BY DEF CostInv, Types
<1>2. /\ reg' \in [Agents -> Worker]
      /\ reg'[Node].known = reg[Node].known /\ reg'[Node].links = reg[Node].links
      /\ reg'[Node].sent = reg[Node].sent
  BY <1>1, SlotOps DEF Quiet
<1>3. /\ issuer' \in [Issuers -> [pc : {"idle", "seed", "stamp"}, cost : Costs \cup {NoCost}]]
      /\ Unstamped' => Unstamped
  <2>1. NoIssue \in [pc : {"idle", "seed", "stamp"}, cost : Costs \cup {NoCost}]
        /\ NoIssue.pc # "stamp"
    BY DEF NoIssue
  <2>2. issuer \in [Issuers -> [pc : {"idle", "seed", "stamp"}, cost : Costs \cup {NoCost}]]
    BY <1>1 DEF Types
  <2>3. CASE issuer' = issuer
    BY <2>2, <2>3 DEF Unstamped
  <2>4. CASE issuer' = [issuer EXCEPT !["hello"] = NoIssue]
    BY <2>1, <2>2, <2>4 DEF Unstamped, Issuers
  <2>5. QED
    BY <2>3, <2>4 DEF Quiet
<1>4. Types'
  BY <1>1, <1>2, <1>3 DEF Types, Quiet
<1>5. Sent' = Sent /\ (Outstanding' <=> Outstanding) /\ \A i \in Ids : Busy(i)' <=> Busy(i)
  BY <1>2 DEF Sent, Outstanding, Busy, Quiet
<1>6. Registry'
  BY <1>1, <1>2 DEF MemoryInv, Registry, Quiet
<1>7. ASSUME ~overtaken PROVE InOrder' /\ Fresh' /\ Memory'
  <2>1. InOrder /\ Fresh /\ Memory
    BY <1>1, <1>7 DEF MemoryInv
  <2>2. InOrder'
    BY <1>3, <1>5, <2>1 DEF InOrder, Quiet
  <2>3. Fresh'
    BY <2>1 DEF Fresh, Quiet
  <2>4. Memory'
    BY <1>5, <2>1 DEF Memory, Quiet
  <2>5. QED
    BY <2>2, <2>3, <2>4
<1>8. QED
  BY <1>4, <1>6, <1>7 DEF CostInv, MemoryInv, Quiet

\* A dispatch: it is the only command outstanding, or results may overtake.
LEMMA IssueStepInv ==
    ASSUME CostInv, NEW x \in Issuers, NEW i \in Ids, Issue(x, i)
    PROVE  CostInv'
<1> DEFINE new == [open |-> TRUE, live |-> TRUE, fresh |-> TRUE, cost |-> kvCost]
<1>1. Types /\ MemoryInv /\ reg \in [Agents -> Worker]
  BY DEF CostInv, Types
<1>2. /\ reg' = Begin(reg, Node, Tunnel, "apply") /\ task' = [task EXCEPT ![i] = new]
      /\ issuer' = [issuer EXCEPT ![x] = [pc |-> "stamp", cost |-> kvCost]]
      /\ run[i] = NoRun /\ kvCost' = kvCost /\ run' = run /\ desired' = desired
      /\ present' = present /\ announced' = announced /\ changed' = changed
      /\ Tunnel \in reg[Node].links
      /\ overtaken' = (overtaken \/ \E j \in Ids : task[j].open)
  BY DEF Issue, Wanted, links
<1>3. /\ reg' \in [Agents -> Worker]
      /\ reg'[Node].known = reg[Node].known /\ reg'[Node].links = reg[Node].links
  BY <1>1, <1>2, SlotOps
<1>4. Types'
  <2>1. issuer' \in [Issuers -> [pc : {"idle", "seed", "stamp"}, cost : Costs \cup {NoCost}]]
    BY <1>1, <1>2 DEF Types
  <2>2. task' \in [Ids -> [open : BOOLEAN, live : BOOLEAN, fresh : BOOLEAN,
                           cost : Costs \cup {NoCost}]]
    BY <1>1, <1>2 DEF Types
  <2>3. overtaken' \in BOOLEAN
    BY <1>2
  <2>4. QED
    BY <1>1, <1>2, <1>3, <2>1, <2>2, <2>3 DEF Types
<1>5. /\ task'[i] = new /\ \A j \in Ids : j # i => task'[j] = task[j]
      /\ \A j \in Ids : Busy(j)' <=> Busy(j)
  BY <1>1, <1>2 DEF Types, Busy
<1>6. Registry'
  <2>1. ASSUME NEW j \in Ids, run'[j].pc \in {"applied", "failed"} PROVE task'[j].open
    BY <1>1, <1>2, <1>5, <2>1 DEF MemoryInv, Registry
  <2>2. reg'[Node].known /\ (announced' \/ reg'[Node].links = {})
    BY <1>1, <1>2, <1>3 DEF MemoryInv, Registry
  <2>3. QED
    BY <2>1, <2>2 DEF Registry
<1>7. ASSUME ~overtaken' PROVE InOrder' /\ Fresh' /\ Memory'
  <2>1. ~overtaken /\ \A j \in Ids : ~task[j].open
    BY <1>2, <1>7
  <2>2. InOrder /\ Fresh /\ Registry
    BY <1>1, <2>1 DEF MemoryInv
  <2>3. Outstanding'
    BY <1>5 DEF Outstanding
  <2>4. InOrder'
    BY <1>2, <1>5, <2>1, <2>3 DEF InOrder
  <2>5. announced' /\ run'[i].pc # "applied"
    BY <1>1, <1>2, <2>2 DEF Registry, NoRun
  <2>6. Fresh'
    BY <1>2, <1>5, <2>1, <2>5 DEF Fresh
  <2>7. QED
    BY <2>3, <2>4, <2>6 DEF Memory
<1>8. QED
  BY <1>4, <1>6, <1>7 DEF CostInv, MemoryInv

\* The dispatch is recorded: the command is still outstanding.
LEMMA StampInv ==
    ASSUME CostInv, NEW x \in Issuers, Stamp(x)
    PROVE  CostInv'
<1>1. Types /\ MemoryInv /\ reg \in [Agents -> Worker] /\ reg[Node].known
      /\ issuer[x].cost \in Costs \cup {NoCost}
  BY DEF CostInv, Types, MemoryInv, Registry
<1>2. /\ reg' = SetAppliedSent(reg, Node, Tunnel, issuer[x].cost)
      /\ issuer' = [issuer EXCEPT ![x] = NoIssue] /\ issuer[x].pc = "stamp"
      /\ kvCost' = kvCost /\ task' = task /\ run' = run /\ desired' = desired
      /\ present' = present /\ announced' = announced /\ changed' = changed
      /\ overtaken' = overtaken
  BY DEF Stamp, links
<1>3. /\ reg' \in [Agents -> Worker]
      /\ reg'[Node].known /\ reg'[Node].links = reg[Node].links
  BY <1>1, <1>2, MemoryOps
<1>4. /\ issuer' \in [Issuers -> [pc : {"idle", "seed", "stamp"}, cost : Costs \cup {NoCost}]]
      /\ Unstamped /\ (Outstanding' <=> Outstanding) /\ \A j \in Ids : Busy(j)' <=> Busy(j)
  BY <1>1, <1>2 DEF Types, NoIssue, Unstamped, Outstanding, Busy
<1>5. Types'
  BY <1>1, <1>2, <1>3, <1>4 DEF Types
<1>6. Registry'
  BY <1>1, <1>2, <1>3 DEF MemoryInv, Registry
<1>7. ASSUME ~overtaken PROVE InOrder' /\ Fresh' /\ Memory'
  <2>1. InOrder /\ Fresh
    BY <1>1, <1>7 DEF MemoryInv
  <2>2. Outstanding'
    BY <1>4, <2>1 DEF InOrder
  <2>3. InOrder'
    BY <1>2, <1>4, <2>1, <2>2 DEF InOrder
  <2>4. Fresh'
    BY <1>2, <2>1 DEF Fresh
  <2>5. QED
    BY <2>2, <2>3, <2>4 DEF Memory
<1>8. QED
  BY <1>2, <1>5, <1>6, <1>7 DEF CostInv, MemoryInv

\* A registration: the controller remembers nothing.
LEMMA HelloInv ==
    ASSUME CostInv, NEW q, NEW l \in BOOLEAN, Hello(q, l),
           q \in {Registered(reg), Attach(Registered(reg), Node, 0, reg[Node].gen + 1)}
    PROVE  CostInv'
<1>1. Types /\ MemoryInv
  BY DEF CostInv
<1>2. /\ reg' = q
      /\ issuer' = [issuer EXCEPT !["hello"] = [pc |-> "seed", cost |-> NoCost]]
      /\ task' = [i \in Ids |-> [task[i] EXCEPT !.live = @ /\ l, !.fresh = FALSE]]
      /\ announced' = present /\ changed' = FALSE
      /\ kvCost' = kvCost /\ run' = run /\ desired' = desired /\ present' = present
      /\ overtaken' = overtaken
  BY DEF Hello
<1>3. /\ q \in [Agents -> Worker] /\ q[Node].known /\ q[Node].sent[Tunnel] = NoCost
      /\ ~present => q[Node].links = {}
  BY <1>1, HelloOps
<1>4. ASSUME NEW i \in Ids
      PROVE  /\ task'[i] \in [open : BOOLEAN, live : BOOLEAN, fresh : BOOLEAN,
                              cost : Costs \cup {NoCost}]
             /\ task'[i].open = task[i].open /\ task'[i].fresh = FALSE
             /\ task'[i].cost = task[i].cost
  <2>1. task[i] \in [open : BOOLEAN, live : BOOLEAN, fresh : BOOLEAN, cost : Costs \cup {NoCost}]
    BY <1>1 DEF Types
  <2>2. ASSUME NEW s \in [open : BOOLEAN, live : BOOLEAN, fresh : BOOLEAN,
                          cost : Costs \cup {NoCost}], NEW v \in BOOLEAN
        PROVE  /\ [s EXCEPT !.live = v, !.fresh = FALSE] \in
                    [open : BOOLEAN, live : BOOLEAN, fresh : BOOLEAN, cost : Costs \cup {NoCost}]
               /\ [s EXCEPT !.live = v, !.fresh = FALSE].open = s.open
               /\ [s EXCEPT !.live = v, !.fresh = FALSE].fresh = FALSE
               /\ [s EXCEPT !.live = v, !.fresh = FALSE].cost = s.cost
    OBVIOUS
  <2> DEFINE v == task[i].live /\ l
  <2>3. v \in BOOLEAN
    OBVIOUS
  <2>4. task'[i] = [task[i] EXCEPT !.live = v, !.fresh = FALSE]
    BY <1>2
  <2> HIDE DEF v
  <2>5. /\ [task[i] EXCEPT !.live = v, !.fresh = FALSE] \in
             [open : BOOLEAN, live : BOOLEAN, fresh : BOOLEAN, cost : Costs \cup {NoCost}]
        /\ [task[i] EXCEPT !.live = v, !.fresh = FALSE].open = task[i].open
        /\ [task[i] EXCEPT !.live = v, !.fresh = FALSE].fresh = FALSE
        /\ [task[i] EXCEPT !.live = v, !.fresh = FALSE].cost = task[i].cost
    BY <2>1, <2>2, <2>3, Zenon
  <2>6. QED
    BY <2>4, <2>5, Zenon
<1>5. Types'
  <2>1. issuer' \in [Issuers -> [pc : {"idle", "seed", "stamp"}, cost : Costs \cup {NoCost}]]
    BY <1>1, <1>2 DEF Types
  <2>2. task' \in [Ids -> [open : BOOLEAN, live : BOOLEAN, fresh : BOOLEAN,
                           cost : Costs \cup {NoCost}]]
    BY <1>2, <1>4
  <2>3. QED
    BY <1>1, <1>2, <1>3, <2>1, <2>2 DEF Types
<1>6. Registry'
  <2>1. announced' \/ reg'[Node].links = {}
    BY <1>1, <1>2, <1>3 DEF Types
  <2>2. ASSUME NEW j \in Ids, run'[j].pc \in {"applied", "failed"} PROVE task'[j].open
    <3>1. task[j].open /\ task'[j].open = task[j].open
      BY <1>1, <1>2, <1>4, <2>2 DEF MemoryInv, Registry
    <3>2. QED
      BY <3>1
  <2>3. QED
    BY <1>2, <1>3, <2>1, <2>2 DEF Registry
<1>7. ASSUME ~overtaken PROVE InOrder' /\ Fresh' /\ Memory'
  <2>1. InOrder /\ Fresh
    BY <1>1, <1>7 DEF MemoryInv
  <2>2. (Outstanding' <=> Outstanding) /\ \A j \in Ids : Busy(j)' <=> Busy(j)
    BY <1>2, <1>4 DEF Outstanding, Busy
  <2>3. Unstamped' => Unstamped
    BY <1>1, <1>2 DEF Types, Unstamped, Issuers
  <2>4. InOrder'
    BY <1>2, <1>4, <2>1, <2>2, <2>3 DEF InOrder
  <2>5. Fresh'
    BY <1>2, <1>4, <2>1 DEF Fresh
  <2>6. Memory'
    BY <1>2, <1>3 DEF Memory, Sent
  <2>7. QED
    BY <2>4, <2>5, <2>6
<1>8. QED
  BY <1>2, <1>5, <1>6, <1>7 DEF CostInv, MemoryInv

-----------------------------------------------------------------------------
(* The agent's command tasks.                                              *)

RunType == [pc : {"none", "apply", "record", "applied", "failed"}, cost : Costs \cup {NoCost}]

\* What the steps of a command task have in common: the task is outstanding or
\* at work; it begins when no other is at work; it keeps its cost; only a task at
\* work changes the desired cost, to its own.
RunMoves(i, u) ==
    /\ u \in RunType /\ run' = [run EXCEPT ![i] = u]
    /\ task[i].open \/ Busy(i)
    /\ u.pc \in {"applied", "failed"} => task[i].open
    /\ ~overtaken' => ~overtaken /\ (Busy(i) \/ \A j \in Ids : ~Busy(j))
    /\ IF Busy(i) THEN u = NoRun \/ u.cost = run[i].cost ELSE u.cost = task[i].cost
    /\ desired' = desired \/ (Busy(i) /\ desired' = run[i].cost)
    /\ u.pc = "applied" => Busy(i) /\ desired' = run[i].cost
    /\ overtaken' \in BOOLEAN
    /\ kvCost' = kvCost /\ reg' = reg /\ issuer' = issuer /\ task' = task
    /\ present' = present /\ announced' = announced /\ changed' = changed

LEMMA RunMovesInv ==
    ASSUME CostInv, NEW i \in Ids, NEW u, RunMoves(i, u)
    PROVE  CostInv'
<1>1. Types /\ MemoryInv /\ run \in [Ids -> RunType]
  BY DEF CostInv, Types, RunType
<1>2. u \in RunType /\ run' = [run EXCEPT ![i] = u] /\ task' = task /\ changed' = changed
      /\ announced' = announced
  BY DEF RunMoves
<1>3. /\ run' \in [Ids -> RunType] /\ run'[i] = u
      /\ \A j \in Ids : j # i => run'[j] = run[j] /\ (Busy(j)' <=> Busy(j))
  BY <1>1, <1>2 DEF Busy
<1>4. Types'
  BY <1>1, <1>3 DEF Types, RunMoves, RunType
<1>5. Registry'
  <2>1. ASSUME NEW j \in Ids, run'[j].pc \in {"applied", "failed"} PROVE task'[j].open
    BY <1>1, <1>2, <1>3, <2>1 DEF MemoryInv, Registry, RunMoves
  <2>2. reg'[Node].known /\ (announced' \/ reg'[Node].links = {})
    BY <1>1 DEF MemoryInv, Registry, RunMoves
  <2>3. QED
    BY <2>1, <2>2 DEF Registry
<1>6. ASSUME ~overtaken' PROVE InOrder' /\ Fresh' /\ Memory'
  <2>1. ~overtaken /\ (Busy(i) \/ \A j \in Ids : ~Busy(j)) /\ (task[i].open \/ Busy(i))
    BY <1>6 DEF RunMoves
  <2>2. InOrder /\ Fresh /\ Memory
    BY <1>1, <2>1 DEF MemoryInv
  <2>3. /\ \A j, k \in Ids : task[j].open /\ task[k].open => j = k
        /\ \A j, k \in Ids : task[j].open /\ run[j] # NoRun /\ Busy(k) => k = j
        /\ Busy(i) => run[i] # NoRun
    BY <2>2 DEF InOrder, Busy, NoRun
  <2>4. ASSUME NEW j \in Ids, NEW k \in Ids, task[j].open, run'[j] # NoRun, Busy(k)' PROVE k = j
    <3>1. CASE j = i /\ k # i
      BY <1>3, <2>1, <2>3, <2>4, <3>1
    <3>2. CASE j # i /\ k = i
      BY <1>3, <2>1, <2>3, <2>4, <3>2
    <3>3. CASE j # i /\ k # i
      BY <1>3, <2>3, <2>4, <3>3
    <3>4. QED
      BY <3>1, <3>2, <3>3
  <2>5. (Outstanding' <=> Outstanding) /\ (Unstamped' <=> Unstamped) /\ Sent' = Sent
    BY DEF Outstanding, Unstamped, Sent, RunMoves
  <2>6. InOrder'
    BY <1>2, <2>2, <2>3, <2>4, <2>5 DEF InOrder
  <2>7. ASSUME NEW j \in Ids, task[j].open
        PROVE  /\ task[j].fresh => announced
               /\ run'[j] # NoRun => run'[j].cost = task[j].cost
               /\ task[j].fresh /\ run'[j].pc = "applied" => desired' = task[j].cost \/ changed
    <3>1. /\ task[j].fresh => announced
          /\ run[j] # NoRun => run[j].cost = task[j].cost
          /\ task[j].fresh /\ run[j].pc = "applied" => desired = task[j].cost \/ changed
      BY <2>2, <2>7 DEF Fresh
    <3>2. CASE j = i
      <4>1. run'[i] # NoRun => run'[i].cost = task[i].cost
        BY <1>3, <2>3, <3>1, <3>2 DEF RunMoves
      <4>2. run'[i].pc = "applied" => desired' = task[i].cost
        BY <1>3, <2>3, <3>1, <3>2 DEF RunMoves
      <4>3. QED
        BY <3>1, <3>2, <4>1, <4>2
    <3>3. CASE j # i
      <4>1. run'[j] = run[j]
        BY <1>3, <3>3
      <4>2. run[j].pc = "applied" => desired' = desired
        BY <2>3, <2>7, <3>3 DEF RunMoves, NoRun
      <4>3. QED
        BY <3>1, <4>1, <4>2
    <3>4. QED
      BY <3>2, <3>3
  <2>8. Fresh'
    BY <1>2, <2>7 DEF Fresh
  <2>9. Memory'
    <3>1. CASE Sent = NoCost \/ Outstanding \/ changed
      BY <1>2, <2>5, <3>1 DEF Memory
    <3>2. CASE \A j \in Ids : ~Busy(j)
      BY <2>1, <2>5, <3>2 DEF Memory, Outstanding
    <3>3. QED
      BY <2>2, <3>1, <3>2 DEF Memory
  <2>10. QED
    BY <2>6, <2>8, <2>9
<1>7. QED
  BY <1>4, <1>5, <1>6 DEF CostInv, MemoryInv

LEMMA RunStepInv ==
    ASSUME CostInv, NEW i \in Ids, RunStep(i)
    PROVE  CostInv'
<1>1. Types /\ run \in [Ids -> RunType] /\ overtaken \in BOOLEAN /\ task[i].cost \in Costs \cup {NoCost}
      /\ run[i] \in RunType
  BY DEF CostInv, Types, RunType
<1>2. ASSUME NEW w \in RunType, NEW pc \in {"apply", "record", "applied", "failed"}
      PROVE  /\ [w EXCEPT !.pc = pc] \in RunType /\ [w EXCEPT !.pc = pc].pc = pc
             /\ [w EXCEPT !.pc = pc].cost = w.cost
  BY DEF RunType
<1>3. NoRun \in RunType /\ NoRun.pc = "none"
  BY DEF NoRun, RunType
<1>4. ASSUME Receive(i) PROVE \E u : RunMoves(i, u)
  <2> DEFINE u == [pc |-> IF present THEN "apply" ELSE "failed", cost |-> task[i].cost]
  <2>1. /\ run[i] = NoRun /\ task[i].open /\ run' = [run EXCEPT ![i] = u]
        /\ overtaken' = (overtaken \/ \E j \in Ids : Busy(j))
        /\ kvCost' = kvCost /\ reg' = reg /\ issuer' = issuer /\ task' = task
        /\ desired' = desired /\ present' = present /\ announced' = announced
        /\ changed' = changed
    BY <1>4 DEF Receive, controller, links
  <2>2. u \in RunType /\ u.pc \in {"apply", "failed"} /\ u.cost = task[i].cost
    BY <1>1 DEF RunType
  <2>3. ~Busy(i)
    BY <1>3, <2>1 DEF Busy
  <2>4. overtaken' \in BOOLEAN /\ (~overtaken' => ~overtaken /\ \A j \in Ids : ~Busy(j))
    BY <2>1
  <2> HIDE DEF u
  <2>5. RunMoves(i, u)
    BY <2>1, <2>2, <2>3, <2>4 DEF RunMoves
  <2>6. QED
    BY <2>5
<1>5. ASSUME SetCost(i) PROVE \E u : RunMoves(i, u)
  <2> DEFINE u == [run[i] EXCEPT !.pc = "record"]
  <2>1. /\ run[i].pc = "apply" /\ run' = [run EXCEPT ![i] = u] /\ overtaken' = overtaken
        /\ kvCost' = kvCost /\ reg' = reg /\ issuer' = issuer /\ task' = task
        /\ desired' = desired /\ present' = present /\ announced' = announced
        /\ changed' = changed
    BY <1>1, <1>5 DEF SetCost, controller, links
  <2>2. u \in RunType /\ u.pc = "record" /\ u.cost = run[i].cost
    BY <1>1, <1>2
  <2>3. Busy(i)
    BY <2>1 DEF Busy
  <2> HIDE DEF u
  <2>4. RunMoves(i, u)
    BY <1>1, <2>1, <2>2, <2>3 DEF RunMoves
  <2>5. QED
    BY <2>4
<1>6. ASSUME NEW taken \in BOOLEAN, SetCostFails(i, taken) PROVE \E u : RunMoves(i, u)
  <2> DEFINE u == IF task[i].open THEN [run[i] EXCEPT !.pc = "failed"] ELSE NoRun
  <2>1. /\ run[i].pc = "apply" /\ run' = [run EXCEPT ![i] = u] /\ overtaken' = overtaken
        /\ kvCost' = kvCost /\ reg' = reg /\ issuer' = issuer /\ task' = task
        /\ desired' = desired /\ present' = present /\ announced' = announced
        /\ changed' = changed
    BY <1>6 DEF SetCostFails, After, controller, links
  <2>2. /\ u \in RunType /\ u.pc \in {"failed", "none"} /\ (u = NoRun \/ u.cost = run[i].cost)
        /\ u.pc = "failed" => task[i].open
    BY <1>1, <1>2, <1>3
  <2>3. Busy(i)
    BY <2>1 DEF Busy
  <2> HIDE DEF u
  <2>4. RunMoves(i, u)
    BY <1>1, <2>1, <2>2, <2>3 DEF RunMoves
  <2>5. QED
    BY <2>4
<1>7. ASSUME Record(i) PROVE \E u : RunMoves(i, u)
  <2> DEFINE u == IF task[i].open THEN [run[i] EXCEPT !.pc = "applied"] ELSE NoRun
  <2>1. /\ run[i].pc = "record" /\ run' = [run EXCEPT ![i] = u] /\ overtaken' = overtaken
        /\ kvCost' = kvCost /\ reg' = reg /\ issuer' = issuer /\ task' = task
        /\ desired' = run[i].cost /\ present' = present /\ announced' = announced
        /\ changed' = changed
    BY <1>7 DEF Record, After, controller, links
  <2>2. /\ u \in RunType /\ u.pc \in {"applied", "none"} /\ (u = NoRun \/ u.cost = run[i].cost)
        /\ u.pc = "applied" => task[i].open
    BY <1>1, <1>2, <1>3
  <2>3. Busy(i)
    BY <2>1 DEF Busy
  <2> HIDE DEF u
  <2>4. RunMoves(i, u)
    BY <1>1, <2>1, <2>2, <2>3 DEF RunMoves
  <2>5. QED
    BY <2>4
<1>8. QED
  BY <1>4, <1>5, <1>6, <1>7, RunMovesInv DEF RunStep

-----------------------------------------------------------------------------
(* The controller's command task settles.                                  *)

\* Whatever the answer, nothing is outstanding afterwards unless results
\* overtook each other; what is left to show is what is remembered.
LEMMA SettleInv ==
    ASSUME CostInv, NEW i \in Ids, NEW r \in [Agents -> Worker], Settle(i, r),
           r[Node].known, r[Node].links = reg[Node].links,
           overtaken' \in BOOLEAN, ~overtaken' => ~overtaken /\ ~Unstamped,
           ~overtaken' =>
               \/ r[Node].sent[Tunnel] = NoCost \/ changed
               \/ /\ r[Node].sent[Tunnel] = desired /\ announced
                  /\ \A j \in Ids : ~Busy(j)
    PROVE  CostInv'
<1>1. Types /\ MemoryInv /\ run \in [Ids -> RunType]
  BY DEF CostInv, Types, RunType
<1>2. /\ task[i].open /\ reg' = End(r, Node, Tunnel, "apply")
      /\ task' = [task EXCEPT ![i] = NoTask]
      /\ run' = [run EXCEPT ![i] = IF Busy(i) THEN run[i] ELSE NoRun]
      /\ kvCost' = kvCost /\ issuer' = issuer /\ desired' = desired
      /\ present' = present /\ announced' = announced /\ changed' = changed
  BY DEF Settle, links
<1>3. /\ reg' \in [Agents -> Worker] /\ reg'[Node].known = r[Node].known
      /\ reg'[Node].links = reg[Node].links /\ reg'[Node].sent = r[Node].sent
  BY <1>2, SlotOps
<1>4. /\ NoTask \in [open : BOOLEAN, live : BOOLEAN, fresh : BOOLEAN, cost : Costs \cup {NoCost}]
      /\ NoTask.open = FALSE
      /\ NoRun \in RunType /\ NoRun.pc = "none"
  BY DEF NoTask, NoRun, RunType
<1>5. /\ task' \in [Ids -> [open : BOOLEAN, live : BOOLEAN, fresh : BOOLEAN,
                           cost : Costs \cup {NoCost}]]
      /\ task'[i] = NoTask /\ \A j \in Ids : j # i => task'[j] = task[j]
  BY <1>1, <1>2, <1>4 DEF Types
<1>6. /\ run' \in [Ids -> RunType] /\ run'[i] = (IF Busy(i) THEN run[i] ELSE NoRun)
      /\ \A j \in Ids : j # i => run'[j] = run[j]
  BY <1>1, <1>2, <1>4
<1>7. \A j \in Ids : Busy(j)' => Busy(j)
  BY <1>4, <1>6 DEF Busy
<1>8. Types'
  BY <1>1, <1>2, <1>3, <1>5, <1>6 DEF Types, RunType
<1>9. Registry'
  <2>1. ASSUME NEW j \in Ids, run'[j].pc \in {"applied", "failed"} PROVE task'[j].open
    <3>1. j # i
      BY <1>4, <1>6, <2>1 DEF Busy
    <3>2. QED
      BY <1>1, <1>5, <1>6, <2>1, <3>1 DEF MemoryInv, Registry
  <2>2. reg'[Node].known /\ (announced' \/ reg'[Node].links = {})
    BY <1>1, <1>2, <1>3 DEF MemoryInv, Registry
  <2>3. QED
    BY <2>1, <2>2 DEF Registry
<1>10. ASSUME ~overtaken' PROVE InOrder' /\ Fresh' /\ Memory'
  <2>1. InOrder /\ ~Unstamped
    BY <1>1, <1>10 DEF MemoryInv
  <2>2. \A j \in Ids : ~task'[j].open
    BY <1>2, <1>4, <1>5, <2>1 DEF InOrder
  <2>3. ~Unstamped'
    BY <1>2, <2>1 DEF Unstamped
  <2>4. InOrder' /\ Fresh'
    BY <2>2, <2>3 DEF InOrder, Fresh
  <2>5. Sent' = r[Node].sent[Tunnel]
    BY <1>3 DEF Sent
  <2>6. Memory'
    BY <1>2, <1>7, <1>10, <2>5 DEF Memory
  <2>7. QED
    BY <2>4, <2>6
<1>11. QED
  BY <1>8, <1>9, <1>10 DEF CostInv, MemoryInv

LEMMA SettleStepInv ==
    ASSUME CostInv, NEW i \in Ids, SettleStep(i)
    PROVE  CostInv'
<1>1. /\ Types /\ MemoryInv /\ reg \in [Agents -> Worker] /\ reg[Node].known
      /\ task[i].cost \in Costs \cup {NoCost} /\ overtaken \in BOOLEAN
  BY DEF CostInv, Types, MemoryInv, Registry
<1>2. CASE Applied(i)
  <2> DEFINE r == SetAppliedSent(reg, Node, Tunnel, task[i].cost)
  <2>1. /\ run[i].pc = "applied" /\ Settle(i, r)
        /\ overtaken' = (overtaken \/ Unstamped \/ ~task[i].fresh)
    BY <1>2 DEF Applied
  <2>2. /\ r \in [Agents -> Worker] /\ r[Node].known /\ r[Node].links = reg[Node].links
        /\ r[Node].sent[Tunnel] = task[i].cost
    BY <1>1, MemoryOps
  <2> HIDE DEF r
  <2>3. overtaken' \in BOOLEAN /\ (~overtaken' => ~overtaken /\ ~Unstamped /\ task[i].fresh)
    BY <2>1
  <2>4. ASSUME ~overtaken'
        PROVE  \/ changed
               \/ /\ r[Node].sent[Tunnel] = desired /\ announced
                  /\ \A j \in Ids : ~Busy(j)
    <3>1. InOrder /\ Fresh /\ task[i].fresh /\ task[i].open
      BY <1>1, <2>1, <2>3, <2>4 DEF MemoryInv, Settle
    <3>2. (desired = task[i].cost \/ changed) /\ announced
      BY <2>1, <3>1 DEF Fresh
    <3>3. run[i] # NoRun /\ ~Busy(i)
      BY <2>1 DEF NoRun, Busy
    <3>4. \A j \in Ids : ~Busy(j)
      BY <3>1, <3>3 DEF InOrder
    <3>5. QED
      BY <2>2, <3>2, <3>4
  <2>5. QED
    BY <2>1, <2>2, <2>3, <2>4, SettleInv
<1>3. CASE Noted(i) \/ Unanswered(i)
  <2> DEFINE r == NoteApplyFailed(reg, Node, Tunnel)
  <2>1. Settle(i, r) /\ overtaken' = (overtaken \/ Unstamped)
    BY <1>3 DEF Noted, Unanswered
  <2>2. /\ r \in [Agents -> Worker] /\ r[Node].known /\ r[Node].links = reg[Node].links
        /\ r[Node].sent[Tunnel] = NoCost
    BY <1>1, MemoryOps
  <2> HIDE DEF r
  <2>3. overtaken' \in BOOLEAN /\ (~overtaken' => ~overtaken /\ ~Unstamped)
    BY <2>1
  <2>4. QED
    BY <2>1, <2>2, <2>3, SettleInv
<1>4. QED
  BY <1>2, <1>3 DEF SettleStep

-----------------------------------------------------------------------------
(* refresh().                                                              *)

\* A snapshot without the tunnel makes the agent forget the cost, and register
\* again if it had registered the tunnel.
LEMMA CompareInv ==
    ASSUME CostInv, NEW r \in Refreshers, Compare(r)
    PROVE  CostInv'
<1>1. Types /\ MemoryInv /\ announced \in BOOLEAN /\ changed \in BOOLEAN
  BY DEF CostInv, Types
<1>2. /\ desired' = Remembered(refresh[r].cost)
      /\ present' = (refresh[r].cost # Absent)
      /\ changed' = (changed \/ present' # announced)
      /\ kvCost' = kvCost /\ reg' = reg /\ issuer' = issuer /\ task' = task /\ run' = run
      /\ announced' = announced /\ overtaken' = overtaken
  BY DEF Compare, controller
<1>3. present' \in BOOLEAN /\ changed' \in BOOLEAN
  BY <1>2
<1>4. changed => changed'
  BY <1>2
<1>5. ASSUME announced PROVE desired' = desired \/ changed'
  <2>1. CASE refresh[r].cost = Absent
    <3>1. present' = FALSE /\ announced = TRUE
      BY <1>1, <1>2, <1>5, <2>1
    <3>2. present' # announced
      BY <3>1
    <3>3. QED
      BY <1>2, <3>2
  <2>2. CASE refresh[r].cost # Absent
    BY <1>2, <2>2 DEF Remembered
  <2>3. QED
    BY <2>1, <2>2
<1>6. Types'
  BY <1>1, <1>2, <1>3 DEF Types
<1>7. Registry'
  BY <1>1, <1>2 DEF MemoryInv, Registry
<1>8. ASSUME ~overtaken PROVE InOrder' /\ Fresh' /\ Memory'
  <2>1. InOrder /\ Fresh /\ Memory
    BY <1>1, <1>8 DEF MemoryInv
  <2>2. /\ Outstanding' <=> Outstanding
        /\ Unstamped' <=> Unstamped
        /\ \A j \in Ids : Busy(j)' <=> Busy(j)
        /\ Sent' = Sent
    BY <1>2 DEF Outstanding, Unstamped, Busy, Sent
  <2>3. InOrder'
    BY <1>2, <2>1, <2>2 DEF InOrder
  <2>4. Fresh'
    BY <1>2, <1>4, <1>5, <2>1 DEF Fresh
  <2>5. Memory'
    BY <1>2, <1>4, <1>5, <2>1, <2>2 DEF Memory
  <2>6. QED
    BY <2>3, <2>4, <2>5
<1>9. QED
  BY <1>2, <1>6, <1>7, <1>8 DEF CostInv, MemoryInv

-----------------------------------------------------------------------------

LEMMA CostInit == Init => CostInv
<1> SUFFICES ASSUME Init PROVE CostInv
  OBVIOUS
<1> DEFINE none == [a \in Agents |-> NoWorker]
           w == Register(none, Node, {Tunnel})
<1>1. none \in [Agents -> Worker]
  BY NoWorkerType
<1>2. w \in [Agents -> Worker]
  BY <1>1, NodeAgent, RegisterType
<1>3. reg = [w EXCEPT ![Node] = [w[Node] EXCEPT !.known = TRUE, !.gen = 1, !.inflight = {}]]
  BY DEF Init, Attach, KeepsSession
<1>4. reg \in [Agents -> Worker]
  <2>1. Attach(w, Node, 0, 1) \in [Agents -> Worker]
    BY <1>2, NodeAgent, SessionOpsType
  <2>2. QED
    BY <2>1 DEF Init
<1>5. w[Node].sent = [l \in Links |-> NoCost]
  BY NodeAgent DEF Register
<1> HIDE DEF none, w
<1>6. reg[Node].known /\ reg[Node].sent = w[Node].sent
  BY <1>2, <1>3, NodeAgent DEF Worker
<1>7. Sent = NoCost
  BY <1>5, <1>6, NodeAgent DEF Sent
<1>8. Types
  BY <1>4 DEF Init, Types, NoIssue, NoTask, NoRun, Issuers
<1>9. /\ \A i \in Ids : ~task[i].open /\ run[i] = NoRun
      /\ ~Unstamped /\ announced = TRUE
  BY DEF Init, NoTask, NoIssue, Unstamped
<1>10. Registry
  BY <1>6, <1>9 DEF Registry, NoRun
<1>11. InOrder /\ Fresh /\ Memory
  BY <1>7, <1>9 DEF InOrder, Fresh, Memory
<1>12. QED
  BY <1>8, <1>10, <1>11 DEF CostInv, MemoryInv

LEMMA CostStep == CostInv /\ [Next]_vars => CostInv'
<1> SUFFICES ASSUME CostInv, [Next]_vars PROVE CostInv'
  OBVIOUS
<1> USE DEF controller, links, bounds
<1>1. ASSUME NEW cost \in Costs, DeriveCost(cost) PROVE Quiet
  BY <1>1 DEF DeriveCost, Quiet
<1>2. kvCost \in Costs \cup {NoCost}
  BY DEF CostInv, Types
<1>3. ASSUME SkipSeed PROVE Quiet
  BY <1>2, <1>3 DEF SkipSeed, Quiet
<1>4. ASSUME RetryElapses PROVE Quiet
  BY <1>2, <1>4 DEF RetryElapses, Quiet
<1>5. ASSUME NEW r \in Refreshers, Sees(r) \/ SeesNoCost(r) \/ ReadNothing(r) PROVE Quiet
  BY <1>2, <1>5 DEF Sees, SeesNoCost, ReadNothing, ReadCost, Quiet
<1>6. ASSUME NEW r \in Refreshers, Reapply(r) \/ ReapplyFails(r) PROVE Quiet
  BY <1>2, <1>6 DEF Reapply, ReapplyFails, Quiet
<1>7. ASSUME Redeploy \/ UNCHANGED vars PROVE Quiet
  BY <1>2, <1>7 DEF Redeploy, vars, Quiet
<1>8. ASSUME Reconnect PROVE CostInv'
  BY <1>8, HelloInv DEF Reconnect
<1>9. ASSUME Reregister PROVE CostInv'
  BY <1>9, HelloInv DEF Reregister
<1>10. ASSUME NEW x \in Issuers, IssueStep(x) PROVE CostInv'
  BY <1>10, IssueStepInv, StampInv DEF IssueStep
<1>11. ASSUME NEW r \in Refreshers, RefreshStep(r) PROVE CostInv'
  BY <1>5, <1>6, <1>11, CompareInv, QuietStep DEF RefreshStep
<1>12. QED
  BY <1>1, <1>3, <1>4, <1>7, <1>8, <1>9, <1>10, <1>11, QuietStep, RunStepInv, SettleStepInv DEF Next

\* "The agent re-applies it on its own ..., so the controller's 'already sent'
\* memory stays true" (docs/protocol.md), for any number of commands, refreshers,
\* new registrations and sessions, snapshots without the tunnel and
\* redeployments: with no command outstanding, at work or unrecorded, and no
\* registration due, the cost remembered as sent is the one the agent repairs to,
\* unless results overtook each other (scheduler.rs, worker.rs, agent.rs).
THEOREM MemoryStaysTrue == Spec => []MemoryTrue
<1>1. CostInv => MemoryTrue
  <2> SUFFICES ASSUME CostInv, ~overtaken, Settled PROVE Sent \in {NoCost, desired}
    BY DEF MemoryTrue, Sent
  <2>1. Memory
    BY DEF CostInv, MemoryInv
  <2>2. ~Outstanding /\ ~changed
    BY DEF Settled, Outstanding, NoTask
  <2>3. QED
    BY <2>1, <2>2 DEF Memory
<1>2. QED
  BY <1>1, CostInit, CostStep, PTL DEF Spec
=============================================================================
