-------------------------------- MODULE Passive --------------------------------
(***************************************************************************)
(* The passive tier end to end: the two agents of a tunnel (Marking), the  *)
(* always replies their finished blocks ride on, the store of the member   *)
(* that classifies the link, and the pass that joins the halves            *)
(* (fold_marking in crates/controller/src/classifier.rs).                  *)
(*                                                                         *)
(* The two halves come from two sessions, and one agent's replies may come *)
(* through different members: replies reach the store in any order, or not *)
(* at all.                                                                 *)
(***************************************************************************)
EXTENDS Marking

VARIABLES
    replies,   \* always replies with blocks that are late
    store,     \* store[e]: the block samples of e's half
    result,    \* the blocks whose loss was written back onto the sample
    totals,    \* MarkTotals of the link (the last loss shape, a label for /metrics, is left out)
    counted    \* history: the blocks the totals took in

ctl == <<replies, store, result, totals, counted>>
vars == <<markVars, ctl>>

TypeOK ==
    /\ MarkTypeOK
    /\ replies \subseteq [end : Ends, blocks : Seq(MarkBlock)]
    /\ \A e \in Ends : store[e] \subseteq MarkBlock
    /\ result \subseteq Nat
    /\ totals \in [last_n : Nat, sent : Count, lost : Count]
    /\ counted \subseteq Nat

Init ==
    /\ MarkInit
    /\ replies = {} /\ store = [e \in Ends |-> {}] /\ result = {}
    /\ totals = [last_n |-> 0, sent |-> ZeroCount, lost |-> ZeroCount]
    /\ counted = {}

-----------------------------------------------------------------------------

\* The fate of a reply: stored, late, or lost (the session ends, or the
\* controller's deadline passes before it is read).
Report(e, blocks) ==
    \/ /\ store' = [store EXCEPT ![e] = @ \cup ToSet(blocks)]
       /\ UNCHANGED <<replies, upsets>>
    \/ /\ upsets < MaxUpsets
       /\ upsets' = upsets + 1
       /\ replies' \in {replies, replies \cup {[end |-> e, blocks |-> blocks]}}
       /\ UNCHANGED store

\* take_blocks drains the queue.
TakeBlocks(e) == queue' = [queue EXCEPT ![e] = <<>>]

AlwaysReplyKeeps(e) ==      \* mutant: the queue is copied, not drained
    /\ queue[e] # <<>>
    /\ Report(e, queue[e])
    /\ UNCHANGED <<now, kernel, agents, net, packets, history, result, totals, counted>>

\* An always probe of the link: the finished blocks go into the reply.
AlwaysReply(e) ==
    /\ queue[e] # <<>>
    /\ Report(e, queue[e])
    /\ TakeBlocks(e)
    /\ UNCHANGED <<now, kernel, loop, last, pauses, net, packets, history, result, totals, counted>>

\* A late reply is stored, or replicated late to the member that classifies.
LateReply(e) ==
    \E r \in replies :
        /\ r.end = e
        /\ replies' = replies \ {r}
        /\ store' = [store EXCEPT ![e] = @ \cup ToSet(r.blocks)]
        /\ UNCHANGED <<markVars, result, totals, counted>>

-----------------------------------------------------------------------------

Joined == Join(store["sender"], store["receiver"])

NewInTotalsAgain(t, blocks) ==    \* mutant: counts the newest block again
    {b \in blocks : b.n >= t.last_n /\ ~b.under_test}

\* Newer than every block folded in, and not under a test.
NewInTotals(t, blocks) == {b \in blocks : b.n > t.last_n /\ ~b.under_test}

\* fold_marking of an owned link, in a classifier pass; nothing joined, nothing done.
ClassifyPass ==
    LET blocks == Joined
        new == NewInTotals(totals, blocks)
    IN  IF blocks = {} THEN UNCHANGED vars ELSE
        /\ result' = result \cup {b.n : b \in {x \in blocks : Sent(x) > 0}}
        /\ totals' = [last_n |-> Max({totals.last_n} \cup {b.n : b \in blocks}),
                      sent |-> [band \in Bands |-> totals.sent[band] + SentIn(new, band)],
                      lost |-> [band \in Bands |-> totals.lost[band] + LostOver(new, band)]]
        /\ counted' = counted \cup {b.n : b \in new}
        /\ UNCHANGED <<markVars, replies, store>>

Next ==
    \/ MarkNext /\ UNCHANGED ctl
    \/ \E e \in Ends : AlwaysReply(e) \/ LateReply(e)
    \/ ClassifyPass

Spec == Init /\ [][Next]_vars

-----------------------------------------------------------------------------
\* Properties

\* The marking ran to its clock around block n: the sender began the blocks
\* n - 1, n and n + 1 in time, the receiver read n - 2 and n in time, and the
\* sender's firewall was not reloaded in the half block in which n is read (what
\* the sender sends unmarked right after its read looks like colour b, and a
\* receiver that reads a moment later counts it).
OnTime(n) ==
    /\ {n - 1, n, n + 1} \subseteq flipped /\ {n - 2, n} \subseteq readOn
    /\ 2 * n + 3 \notin rebuilt

\* Every joined block is an exact count: its sent and received packets are the
\* packets the sender really marked in that block and those of them that really
\* arrived, whatever reloads, failed reads and interleavings of the two agents
\* happened, as long as the marking ran on time around it (mark.rs of both
\* crates, nft.rs).
ExactLoss ==
    \A b \in Joined : OnTime(b.n) => b.sent = sent[b.n] /\ b.recv = arrived[b.n]

\* The running totals are the sum of the blocks they took in, each once, however
\* often the pass sees a block and in whatever order the halves arrive
\* (fold_marking's last_n).
TotalsOnce ==
    LET taken == {b \in Joined : b.n \in counted}
    IN  /\ {b.n : b \in taken} = counted
        /\ \A band \in Bands : /\ totals.sent[band] = SentIn(taken, band)
                               /\ totals.lost[band] = LostOver(taken, band)

\* What a throughput test drops is never held against the link: a block that a
\* test overlapped at either end is not in the totals, even when the test began
\* and ended inside the block, between two looks of the block task
\* (Gate::overlapped, join, fold_marking).
TestsExcluded == tested \cap counted = {}

\* A link is labelled clean only when no block that the passive tier joined within
\* the recovery horizon really lost a packet: the fast window may not hide a bad
\* block it is too small to measure (summarize, regime).
CleanIsClean ==
    Summarize(Joined, now).regime = "clean" =>
        \A b \in Joined :
            ~b.under_test /\ Age(b, now) <= MarkRecover /\ OnTime(b.n) => arrived[b.n] = sent[b.n]

\* The block queues, the replies and the store implement an at-most-once channel
\* that forgets what it gives up (push_block, take_blocks, a lost reply).
Reported(e, blocks) == {[end |-> e, n |-> b.n, block |-> b] : b \in blocks}
InReplies(e) == UNION {ToSet(r.blocks) : r \in {q \in replies : q.end = e}}

Channel == INSTANCE BlockChannel WITH
    pending <- UNION {Reported(e, ToSet(queue[e]) \cup InReplies(e)) : e \in Ends},
    delivered <- UNION {Reported(e, store[e]) : e \in Ends}

AtMostOnce == Channel!Spec
=============================================================================
