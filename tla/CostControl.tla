------------------------------ MODULE CostControl ------------------------------
(***************************************************************************)
(* The OSPF cost of one tunnel, from the derived record to BIRD: the apply *)
(* commands of the controller (scheduler.rs, session.rs, with the registry *)
(* of module Workers), and the agent that carries them out and repairs     *)
(* drift (agent.rs, bird.rs, session.rs of crates/agent).                  *)
(*                                                                         *)
(* The scheduler and the seeding of a new registration dispatch an apply   *)
(* and record it as sent in a later step.  The agent runs every command in *)
(* a task of its own, which outlives the session it came on and the        *)
(* controller's patience.  set_ospf_cost, with its retries, runs under the *)
(* apply lock, and nothing else touches BIRD's cost but a redeployment: it *)
(* is one step.  The desired cost is recorded after the lock is gone.  A   *)
(* refresh reads BIRD, compares with what is desired then, and applies     *)
(* later; a tunnel missing from its snapshot loses its desired cost, and   *)
(* the agent registers again.  The interleavings inside a hello are        *)
(* Dispatch's subject: here a registration is one step, and so are a reply *)
(* and the end of its task.                                                *)
(***************************************************************************)
EXTENDS Workers

CONSTANTS
    Tunnel,        \* the link
    Ids,           \* identities of commands
    Refreshers,    \* tasks that may refresh at once
    Static,        \* the cost in BIRD's own configuration
    Absent,        \* a snapshot without the tunnel
    MaxResets,     \* bound on redeployments of that configuration
    MaxAbsences,   \* bound on snapshots without the tunnel
    MaxReconnects  \* bound on sessions after the first

Node == Tunnel.from

ASSUME CostControlAssumption ==
    /\ Tunnel \in Links
    /\ {MaxResets, MaxAbsences, MaxReconnects} \subseteq Nat
    /\ Static \notin Costs \cup {NoCost, Absent} /\ Absent \notin Costs \cup {NoCost}

VARIABLES
    kvCost,    \* the derived record's cost
    reg,       \* the registry
    issuer,    \* the scheduler, and the seeding of the last hello
    task,      \* the controller's commands outstanding
    run,       \* the agent's tasks
    bird,      \* the interface's cost in BIRD
    desired,   \* NodeState.desired
    present,   \* whether NodeState.links has the tunnel
    announced, \* whether the set last registered has it
    changed,   \* links_changed is notified
    refresh,   \* the refreshes under way
    resets, absences,
    overtaken  \* history: results overtook each other: two applies were
               \* outstanding, or under way in the agent, at once; a command
               \* settled before its dispatch was recorded; or the answer to a
               \* command came after a newer registration

controller == <<kvCost, reg, issuer, task>>
links      == <<present, announced, changed>>
bounds     == <<resets, absences>>

vars == <<controller, run, bird, desired, links, refresh, bounds, overtaken>>

Issuers == {"scheduler", "hello"}

NoIssue == [pc |-> "idle", cost |-> NoCost]

\* `live`: its session is the current one; `fresh`: no registration since.
NoTask == [open |-> FALSE, live |-> FALSE, fresh |-> FALSE, cost |-> NoCost]

NoRun == [pc |-> "none", cost |-> NoCost]

NoRefresh == [pc |-> "idle", cost |-> NoCost]

TypeOK ==
    /\ kvCost \in Costs \cup {NoCost}
    /\ reg \in [Agents -> Worker]
    /\ issuer \in [Issuers -> [pc : {"idle", "seed", "stamp"}, cost : Costs \cup {NoCost}]]
    /\ task \in [Ids -> [open : BOOLEAN, live : BOOLEAN, fresh : BOOLEAN,
                         cost : Costs \cup {NoCost}]]
    /\ run \in [Ids -> [pc   : {"none", "apply", "record", "applied", "failed"},
                        cost : Costs \cup {NoCost}]]
    /\ bird \in Costs \cup {Static} /\ desired \in Costs \cup {NoCost}
    /\ refresh \in [Refreshers -> [pc   : {"idle", "compare", "apply"},
                                   cost : Costs \cup {Static, NoCost, Absent}]]
    /\ {present, announced, changed, overtaken} \subseteq BOOLEAN
    /\ resets \in 0..MaxResets /\ absences \in 0..MaxAbsences

\* The registration of what the agent has now.
Registered(r) == Register(r, Node, IF present THEN {Tunnel} ELSE {})

Init ==
    /\ kvCost = NoCost
    /\ reg = Attach(Register([a \in Agents |-> NoWorker], Node, {Tunnel}), Node, 0, 1)
    /\ issuer = [x \in Issuers |-> NoIssue]
    /\ task = [i \in Ids |-> NoTask] /\ run = [i \in Ids |-> NoRun]
    /\ bird = Static /\ desired = NoCost
    /\ present = TRUE /\ announced = TRUE /\ changed = FALSE
    /\ refresh = [r \in Refreshers |-> NoRefresh]
    /\ resets = 0 /\ absences = 0 /\ overtaken = FALSE

-----------------------------------------------------------------------------
(* The controller.                                                         *)

DeriveCost(cost) ==
    /\ kvCost # cost
    /\ kvCost' = cost
    /\ UNCHANGED <<reg, issuer, task, run, bird, desired, links, refresh, bounds, overtaken>>

\* The scheduler issues a cost that differs from the last one sent; a hello
\* issues whatever cost there is.
Wanted(x) ==
    /\ kvCost # NoCost /\ Tunnel \in reg[Node].links
    /\ \/ x = "scheduler" /\ issuer[x].pc = "idle" /\ ApplyDue(reg, Node, Tunnel, kvCost)
       \/ x = "hello" /\ issuer[x].pc = "seed"

Issue(x, i) ==
    /\ Wanted(x) /\ SlotFree(reg, Node, Tunnel, "apply")
    /\ task[i] = NoTask /\ run[i] = NoRun
    /\ reg' = Begin(reg, Node, Tunnel, "apply")
    /\ task' = [task EXCEPT ![i] = [open |-> TRUE, live |-> TRUE, fresh |-> TRUE, cost |-> kvCost]]
    /\ issuer' = [issuer EXCEPT ![x] = [pc |-> "stamp", cost |-> kvCost]]
    /\ overtaken' = (overtaken \/ \E j \in Ids : task[j].open)
    /\ UNCHANGED <<kvCost, run, bird, desired, links, refresh, bounds>>

\* Nothing to seed, or a command outstanding: the hello is done.
SkipSeed ==
    /\ issuer["hello"].pc = "seed"
    /\ ~Wanted("hello") \/ ~SlotFree(reg, Node, Tunnel, "apply")
    /\ issuer' = [issuer EXCEPT !["hello"] = NoIssue]
    /\ UNCHANGED <<kvCost, reg, task, run, bird, desired, links, refresh, bounds, overtaken>>

Stamp(x) ==
    /\ issuer[x].pc = "stamp"
    /\ reg' = SetAppliedSent(reg, Node, Tunnel, issuer[x].cost)
    /\ issuer' = [issuer EXCEPT ![x] = NoIssue]
    /\ UNCHANGED <<kvCost, task, run, bird, desired, links, refresh, bounds, overtaken>>

RetryElapses ==
    /\ Tunnel \in reg[Node].retry
    /\ reg' = [reg EXCEPT ![Node].retry = {}]
    /\ UNCHANGED <<kvCost, issuer, task, run, bird, desired, links, refresh, bounds, overtaken>>

-----------------------------------------------------------------------------
(* The agent says hello.                                                   *)

Hello(r, live) ==
    /\ issuer["hello"].pc = "idle"
    /\ reg' = r
    /\ issuer' = [issuer EXCEPT !["hello"] = [pc |-> "seed", cost |-> NoCost]]
    /\ task' = [i \in Ids |-> [task[i] EXCEPT !.live = @ /\ live, !.fresh = FALSE]]
    /\ announced' = present /\ changed' = FALSE
    /\ UNCHANGED <<kvCost, run, bird, desired, present, refresh, bounds, overtaken>>

\* The session is lost and the agent is back with a new one.
Reconnect ==
    /\ reg[Node].gen <= MaxReconnects
    /\ Hello(Attach(Registered(reg), Node, 0, reg[Node].gen + 1), FALSE)

\* The refresher saw another link set: a hello on the session as it is.
Reregister ==
    /\ changed
    /\ Hello(Registered(reg), TRUE)

-----------------------------------------------------------------------------
(* The agent's command tasks.                                              *)

Busy(i) == run[i].pc \in {"apply", "record"}

\* The command arrives on the session it was sent on.  One for a tunnel that
\* the agent does not know is refused at once.
Receive(i) ==
    /\ task[i].open /\ task[i].live /\ run[i] = NoRun
    /\ run' = [run EXCEPT ![i] = [pc   |-> IF present THEN "apply" ELSE "failed",
                                   cost |-> task[i].cost]]
    /\ overtaken' = (overtaken \/ \E j \in Ids : Busy(j))
    /\ UNCHANGED <<controller, bird, desired, links, refresh, bounds>>

\* BIRD takes the cost.
SetCost(i) ==
    /\ run[i].pc = "apply"
    /\ bird' = run[i].cost
    /\ run' = [run EXCEPT ![i].pc = "record"]
    /\ UNCHANGED <<controller, desired, links, refresh, bounds, overtaken>>

\* A task that nobody waits for any more is over.
After(i, pc) ==
    run' = [run EXCEPT ![i] = IF task[i].open THEN [@ EXCEPT !.pc = pc] ELSE NoRun]

\* BIRD refuses, or stays busy for every try; or it takes the cost and the
\* bus loses the answer.
SetCostFails(i, taken) ==
    /\ run[i].pc = "apply"
    /\ bird' = IF taken THEN run[i].cost ELSE bird
    /\ After(i, "failed")
    /\ UNCHANGED <<controller, desired, links, refresh, bounds, overtaken>>

\* Mutant: the desired cost is not recorded.
RecordNot(i) ==
    /\ run[i].pc = "record"
    /\ After(i, "applied")
    /\ UNCHANGED <<controller, bird, desired, links, refresh, bounds, overtaken>>

\* The applied cost becomes the desired one.
Record(i) ==
    /\ run[i].pc = "record"
    /\ desired' = run[i].cost
    /\ After(i, "applied")
    /\ UNCHANGED <<controller, bird, links, refresh, bounds, overtaken>>

-----------------------------------------------------------------------------
(* The controller's command task settles and frees its slot.               *)

\* A dispatch is not recorded as sent yet.
Unstamped == \E x \in Issuers : issuer[x].pc = "stamp"

Settle(i, r) ==
    /\ task[i].open
    /\ reg' = End(r, Node, Tunnel, "apply")
    /\ task' = [task EXCEPT ![i] = NoTask]
    /\ run' = [run EXCEPT ![i] = IF Busy(i) THEN @ ELSE NoRun]
    /\ UNCHANGED <<kvCost, issuer, bird, desired, links, refresh, bounds>>

Applied(i) ==
    /\ run[i].pc = "applied"
    /\ Settle(i, SetAppliedSent(reg, Node, Tunnel, task[i].cost))
    /\ overtaken' = (overtaken \/ Unstamped \/ ~task[i].fresh)

Noted(i) ==
    /\ run[i].pc = "failed"
    /\ Settle(i, NoteApplyFailed(reg, Node, Tunnel))
    /\ overtaken' = (overtaken \/ Unstamped)

\* No answer: the agent may be at work on it all the same.
Unanswered(i) ==
    /\ Settle(i, NoteApplyFailed(reg, Node, Tunnel))
    /\ overtaken' = (overtaken \/ Unstamped)

-----------------------------------------------------------------------------
(* refresh(): the snapshot, the comparison, the repair.                    *)

\* A snapshot shows the tunnel's cost, or the tunnel without a cost.
ReadCost(r, seen) ==
    /\ refresh[r].pc = "idle"
    /\ refresh' = [refresh EXCEPT ![r] = [pc |-> "compare", cost |-> seen]]
    /\ UNCHANGED <<controller, run, bird, desired, links, resets, overtaken>>

ReadNothing(r) ==
    /\ absences < MaxAbsences /\ absences' = absences + 1
    /\ ReadCost(r, Absent)

Sees(r) == UNCHANGED absences /\ ReadCost(r, bird)

SeesNoCost(r) == UNCHANGED absences /\ ReadCost(r, NoCost)

\* Mutant: the two costs are swapped.
DriftSwapped(has, want) == IF has = NoCost \/ want \in {NoCost, has} THEN NoCost ELSE has

\* What to apply, given the cost of the snapshot and the desired one.
Drift(has, want) == IF has = NoCost \/ want \in {NoCost, has} THEN NoCost ELSE want

Remembered(has) == IF has = Absent THEN NoCost ELSE desired

\* The lock section: a tunnel that is gone is no longer desired at any cost.
Compare(r) ==
    /\ refresh[r].pc = "compare"
    /\ desired' = Remembered(refresh[r].cost)
    /\ present' = (refresh[r].cost # Absent)
    /\ changed' = (changed \/ present' # announced)
    /\ refresh' = [refresh EXCEPT ![r] =
          LET c == Drift(refresh[r].cost, desired')
          IN IF c = NoCost THEN NoRefresh ELSE [pc |-> "apply", cost |-> c]]
    /\ UNCHANGED <<controller, run, bird, announced, bounds, overtaken>>

Reapply(r) ==
    /\ refresh[r].pc = "apply"
    /\ bird' = refresh[r].cost
    /\ refresh' = [refresh EXCEPT ![r] = NoRefresh]
    /\ UNCHANGED <<controller, run, desired, links, bounds, overtaken>>

ReapplyFails(r) ==
    /\ refresh[r].pc = "apply"
    /\ refresh' = [refresh EXCEPT ![r] = NoRefresh]
    /\ UNCHANGED <<controller, run, bird, desired, links, bounds, overtaken>>

\* A redeployed configuration puts the interface back to its static cost.
Redeploy ==
    /\ resets < MaxResets /\ resets' = resets + 1
    /\ bird' = Static
    /\ UNCHANGED <<controller, run, desired, links, refresh, absences, overtaken>>

-----------------------------------------------------------------------------
RunStep(i) ==
    \/ Receive(i)
    \/ SetCost(i)
    \/ \E taken \in BOOLEAN : SetCostFails(i, taken)
    \/ Record(i)

SettleStep(i) ==
    \/ Applied(i)
    \/ Noted(i)
    \/ Unanswered(i)

IssueStep(x) ==
    \/ \E i \in Ids : Issue(x, i)
    \/ Stamp(x)

RefreshStep(r) ==
    \/ Sees(r)
    \/ SeesNoCost(r)
    \/ ReadNothing(r)
    \/ Compare(r)
    \/ Reapply(r)
    \/ ReapplyFails(r)

Next ==
    \/ \E cost \in Costs : DeriveCost(cost)
    \/ \E x \in Issuers : IssueStep(x)
    \/ SkipSeed
    \/ RetryElapses
    \/ Reconnect
    \/ Reregister
    \/ \E i \in Ids : RunStep(i) \/ SettleStep(i)
    \/ \E r \in Refreshers : RefreshStep(r)
    \/ Redeploy

Spec == Init /\ [][Next]_vars

\* Tasks are run, commands have deadlines and time passes.  What is tried for
\* ever succeeds in the end: a command arrives, is answered, BIRD takes a cost
\* and reports it.
Fairness ==
    /\ \A x \in Issuers : WF_vars(IssueStep(x))
    /\ WF_vars(SkipSeed) /\ WF_vars(RetryElapses) /\ WF_vars(Reregister)
    /\ \A i \in Ids :
          /\ WF_vars(SettleStep(i)) /\ WF_vars(RunStep(i))
          /\ SF_vars(Receive(i)) /\ SF_vars(SetCost(i)) /\ SF_vars(Applied(i))
    /\ \A r \in Refreshers : WF_vars(RefreshStep(r)) /\ SF_vars(Sees(r)) /\ SF_vars(Reapply(r))

FairSpec == Spec /\ Fairness

-----------------------------------------------------------------------------
(* Properties.                                                             *)

\* No command is outstanding, under way in the agent, or not yet recorded.
Settled ==
    /\ \A i \in Ids : task[i] = NoTask /\ run[i] = NoRun
    /\ ~Unstamped /\ ~changed

\* "The agent re-applies it on its own ..., so the controller's 'already
\* sent' memory stays true" (docs/protocol.md): between commands, the cost
\* that the controller remembers as sent is the one the agent repairs to,
\* unless results overtook each other.
MemoryTrue ==
    ~overtaken /\ Settled => reg[Node].sent[Tunnel] \in {NoCost, desired}

\* "The agent re-applies it on its own whenever its periodic BIRD snapshot
\* shows the interface at a different cost" (docs/protocol.md): drift never
\* lasts, though the snapshot is old when it is compared and the desired
\* cost is old when it is applied.
DriftRepaired == []<>(desired = NoCost \/ bird = desired)

\* The purpose of the command path: when the derived cost no longer changes,
\* BIRD ends up at it and stays there, in spite of lost commands, refusals,
\* new registrations, repairs from an old snapshot and redeployments, unless
\* results overtook each other.
CostSettles ==
    <>[][FALSE]_kvCost /\ <>[](kvCost # NoCost /\ ~overtaken) => <>[](bird = kvCost)
================================================================================
