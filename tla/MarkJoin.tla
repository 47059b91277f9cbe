------------------------------- MODULE MarkJoin -------------------------------
(***************************************************************************)
(* The controller's half of the passive tier as pure operators             *)
(* (crates/controller/src/mark.rs): join the marking blocks of a tunnel's  *)
(* two halves into sent and lost packets, choose the loss window, label    *)
(* the loss shape.                                                         *)
(*                                                                         *)
(* Percentages are kept as the pair (lost, sent) and compared by cross     *)
(* multiplication.  Rates and byte counts are left out: nothing here       *)
(* branches on them.  Both ends run one block length.                      *)
(***************************************************************************)
EXTENDS Integers, FiniteSets, FiniteSetsExt, Functions

CONSTANTS
    Bands,          \* the length bands, "s" (up to 1000 bytes) and "l"
    MarkMinPkts,    \* mark_min_pkts, the sample floor
    MarkWindow,     \* mark_window_secs, in half blocks
    MarkRecover     \* mark_recover_secs, in half blocks

ASSUME MarkJoinAssumption ==
    /\ Bands # {} /\ Bands \subseteq {"s", "l"}
    /\ MarkMinPkts \in Nat /\ MarkWindow \in Nat /\ MarkRecover \in Nat

Count == [Bands -> Nat]

\* One agent's report of a finished block: what it sent or what it received.
MarkBlock == [n : Nat, reset : BOOLEAN, under_test : BOOLEAN, cnt : Count]

\* One joined block of a directed link.
Block == [n : Nat, sent : Count, recv : Count, under_test : BOOLEAN]

\* saturating_sub: a receiver that counted more lost nothing.
LostIn(b, band) == IF b.sent[band] > b.recv[band] THEN b.sent[band] - b.recv[band] ELSE 0
Lost(b) == SumFunction([band \in Bands |-> LostIn(b, band)])
Sent(b) == SumFunction(b.sent)

-----------------------------------------------------------------------------

JoinOwnFlag(own, rev) ==    \* mutant: only the sender's test flag counts
    {[n |-> p[1].n, sent |-> p[1].cnt, recv |-> p[2].cnt, under_test |-> p[1].under_test] :
        p \in {q \in own \X rev : q[1].n = q[2].n /\ ~q[1].reset /\ ~q[2].reset}}

\* join(): the sender's tx against the receiver's rx of the same block.  A block
\* with one half only, or whose counters restarted at either end, is dropped.
Join(own, rev) ==
    {[n |-> p[1].n, sent |-> p[1].cnt, recv |-> p[2].cnt,
      under_test |-> p[1].under_test \/ p[2].under_test] :
        p \in {q \in own \X rev : q[1].n = q[2].n /\ ~q[1].reset /\ ~q[2].reset}}

-----------------------------------------------------------------------------
\* summarize().  Time is in half blocks, so block n ends at 2(n + 1).

Age(b, now) == IF now > 2 * (b.n + 1) THEN now - 2 * (b.n + 1) ELSE 0

Recent(blocks, now) == {b \in blocks : ~b.under_test /\ Age(b, now) <= MarkRecover}
Fast(blocks, now) == {b \in Recent(blocks, now) : Age(b, now) <= MarkWindow}

LossWindowFastOnly(blocks, now) ==    \* mutant: no floor on the fast window
    LET fast == Fast(blocks, now)
    IN  IF fast # {} THEN fast ELSE Recent(blocks, now)

\* The fast window when it shows loss and reaches the floor on its own.
LossWindow(blocks, now) ==
    LET fast == Fast(blocks, now)
    IN  IF /\ \E b \in fast : Lost(b) > 0
           /\ SumFunction([b \in fast |-> Sent(b)]) >= MarkMinPkts
        THEN fast ELSE Recent(blocks, now)

SentIn(window, band) == SumFunction([b \in window |-> b.sent[band]])
LostOver(window, band) == SumFunction([b \in window |-> LostIn(b, band)])
TotalLost(window) == SumFunction([b \in window |-> Lost(b)])

\* The large band loses at least five times the small one, both above the floor.
SizeSelective(window) ==
    /\ {"s", "l"} \subseteq Bands
    /\ SentIn(window, "s") >= MarkMinPkts /\ SentIn(window, "s") > 0
    /\ SentIn(window, "l") >= MarkMinPkts /\ SentIn(window, "l") > 0
    /\ LostOver(window, "l") > 0
    /\ LostOver(window, "l") * SentIn(window, "s") >= 5 * LostOver(window, "s") * SentIn(window, "l")

\* Most of the blocks that carried packets lost some, at most three times the mean.
Sparse(window) ==
    LET carried == {b \in window : Sent(b) > 0}
        scale == FoldSet(LAMBDA b, acc : acc * Sent(b), 1, carried)
        loss(b) == Lost(b) * (scale \div Sent(b))
        lossy == {b \in carried : Lost(b) > 0}
    IN  /\ 2 * Cardinality(lossy) > Cardinality(carried)
        /\ \A b \in carried :
              loss(b) * Cardinality(carried) <= 3 * SumFunction([x \in carried |-> loss(x)])

\* regime()
Regime(window) ==
    IF TotalLost(window) = 0 THEN "clean"
    ELSE IF SizeSelective(window) THEN "size_selective"
    ELSE IF Sparse(window) THEN "sparse"
    ELSE "bursty"

NoRegime == "none"

\* The summary a pass derives: the loss as (lost, sent), <<>> below the floor.
Summarize(blocks, now) ==
    LET window == LossWindow(blocks, now)
        sent == SumFunction([b \in window |-> Sent(b)])
        tested == \E b \in blocks : Age(b, now) <= MarkWindow /\ b.under_test
    IN  IF window = {}
        THEN [loss |-> <<>>, regime |-> IF tested THEN "under_test" ELSE NoRegime]
        ELSE [loss |-> IF sent >= MarkMinPkts THEN <<TotalLost(window), sent>> ELSE <<>>,
              regime |-> Regime(window)]
=============================================================================
