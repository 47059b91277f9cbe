---------------------------- MODULE PassiveProofs ----------------------------
(***************************************************************************)
(* Proofs about the passive tier, for every number of blocks, packets and  *)
(* faults: the queues, the replies and the store implement BlockChannel;   *)
(* no variable leaves its type; no block under a test is counted; the      *)
(* totals take every block once; a joined block is exact; a clean label    *)
(* hides no loss.                                                          *)
(***************************************************************************)
EXTENDS Passive, FiniteSetTheorems, WellFoundedInduction, TLAPS

-----------------------------------------------------------------------------
(* The inductive invariant.                                                *)

\* marker_loop sleeps until the next block, and reads a block half a block
\* after the next one began: what it reads next is newer than what it read.
LoopTimes ==
    /\ now \in Nat
    /\ loop \in [Ends -> [pc : {"sleep", "half"}, n : Nat, due : Nat]]
    /\ \A e \in Ends : IF loop[e].pc = "sleep" THEN loop[e].due >= 2 * (loop[e].n + 1)
                                               ELSE loop[e].due >= 2 * loop[e].n + 3

\* The blocks of an end, wherever they are.
Everywhere(e) == ToSet(queue[e]) \cup InReplies(e) \cup store[e]

Numbered == \A e \in Ends : \A b \in Everywhere(e) : b.n \in Nat /\ b.n < loop[e].n

\* No block is in two places.
Apart ==
    \A e \in Ends :
        /\ ToSet(queue[e]) \cap InReplies(e) = {}
        /\ ToSet(queue[e]) \cap store[e] = {}
        /\ InReplies(e) \cap store[e] = {}
        /\ \A r1, r2 \in replies :
              r1.end = e /\ r2.end = e /\ r1 # r2 => ToSet(r1.blocks) \cap ToSet(r2.blocks) = {}

Shapes ==
    /\ queue = [e \in Ends |-> queue[e]] /\ store = [e \in Ends |-> store[e]]
    /\ \A e \in Ends : queue[e] \in Seq(ToSet(queue[e]))

ChannelInv == LoopTimes /\ Shapes /\ Numbered /\ Apart

-----------------------------------------------------------------------------

\* push_block adds the block, and may lose the oldest.
LEMMA PushBlock ==
    ASSUME NEW q, q \in Seq(ToSet(q)), NEW b
    PROVE  /\ Push(q, b) \in Seq(ToSet(Push(q, b)))
           /\ b \in ToSet(Push(q, b)) /\ ToSet(Push(q, b)) \subseteq ToSet(q) \cup {b}
<1> DEFINE S == ToSet(q)
           k == IF Len(q) >= QUEUE_CAP THEN Tail(q) ELSE q
<1>1. k \in Seq(S)
  <2>1. CASE Len(q) >= QUEUE_CAP
    <3>1. q # <<>>
      BY <2>1, MarkingAssumption
    <3>2. QED
      BY <2>1, <3>1
  <2>2. CASE ~(Len(q) >= QUEUE_CAP)
    BY <2>2
  <2>3. QED
    BY <2>1, <2>2
<1>2. Push(q, b) = Append(k, b)
  BY DEF Push
<1> HIDE DEF S, k
<1>3. /\ Append(k, b) \in Seq(S \cup {b}) /\ Len(Append(k, b)) = Len(k) + 1
      /\ Append(k, b)[Len(k) + 1] = b
  BY <1>1
<1>4. ASSUME NEW s \in Seq(S \cup {b}) PROVE s \in Seq(ToSet(s)) /\ ToSet(s) \subseteq S \cup {b}
  BY DEF ToSet
<1>5. b \in ToSet(Append(k, b))
  BY <1>3 DEF ToSet
<1>6. QED
  BY <1>2, <1>3, <1>4, <1>5 DEF S

-----------------------------------------------------------------------------
(* marker_loop.                                                            *)

\* The steps that move the loop.
LEMMA LoopQuiet ==
    ASSUME [Next]_vars
    PROVE  \/ UNCHANGED loop /\ now' \in {now, now + 1}
           \/ \E e \in Ends : Flip(e) \/ Read(e) \/ ReadFails(e)
<1>1. ASSUME MarkNext PROVE \/ UNCHANGED loop /\ now' \in {now, now + 1}
                            \/ \E e \in Ends : Flip(e) \/ Read(e) \/ ReadFails(e)
  BY <1>1 DEF MarkNext, SendPacket, ArrivePacket, Reload, GateBegin, GateEnd, Tick, agents
<1>2. ASSUME NEW e \in Ends, AlwaysReply(e) \/ LateReply(e)
      PROVE  UNCHANGED <<loop, now>>
  BY <1>2 DEF AlwaysReply, LateReply, markVars, agents
<1>3. ASSUME ClassifyPass \/ UNCHANGED vars PROVE UNCHANGED <<loop, now>>
  BY <1>3 DEF ClassifyPass, vars, markVars, agents
<1>4. QED
  BY <1>1, <1>2, <1>3 DEF Next

\* The loop never goes back, and a read moves it on.
LEMMA LoopStep ==
    ASSUME LoopTimes, [Next]_vars
    PROVE  /\ LoopTimes'
           /\ \A e \in Ends : loop'[e].n >= loop[e].n /\ (Read(e) => loop'[e].n > loop[e].n)
<1>T. /\ now \in Nat /\ loop \in [Ends -> [pc : {"sleep", "half"}, n : Nat, due : Nat]]
      /\ \A e \in Ends : loop[e].n \in Nat /\ loop[e].due \in Nat /\ loop[e].pc \in {"sleep", "half"}
  BY DEF LoopTimes
<1>1. ASSUME UNCHANGED loop, now' \in {now, now + 1}
      PROVE  LoopTimes' /\ \A e \in Ends : loop'[e].n >= loop[e].n /\ ~Read(e)
  <2>1. LoopTimes'
    BY <1>1, <1>T DEF LoopTimes
  <2>2. ASSUME NEW e \in Ends, Read(e) PROVE FALSE
    BY <1>1, <1>T, <2>2 DEF Read, Sleep
  <2>3. QED
    BY <1>1, <1>T, <2>1, <2>2
<1>2. ASSUME NEW e \in Ends, Flip(e)
      PROVE  LoopTimes' /\ \A f \in Ends : loop'[f].n >= loop[f].n /\ ~Read(f)
  <2>1. /\ now' = now /\ loop[e].pc = "sleep" /\ loop[e].due <= now
        /\ loop' = [loop EXCEPT ![e].pc = "half", ![e].due = now + 1]
    BY <1>2 DEF Flip
  <2>2. now + 1 \in Nat /\ now + 1 >= 2 * loop[e].n + 3
    BY <1>T, <2>1 DEF LoopTimes
  <2>3. /\ loop'[e].pc = "half" /\ loop'[e].n = loop[e].n /\ loop'[e].due = now + 1
        /\ \A f \in Ends : f # e => loop'[f] = loop[f]
        /\ loop' \in [Ends -> [pc : {"sleep", "half"}, n : Nat, due : Nat]]
    BY <1>T, <2>1, <2>2
  <2>4. LoopTimes'
    BY <1>T, <2>1, <2>2, <2>3 DEF LoopTimes
  <2>5. ASSUME NEW f \in Ends, Read(f) PROVE FALSE
    BY <1>T, <2>1, <2>3, <2>5 DEF Read, Sleep
  <2>6. QED
    BY <1>T, <2>3, <2>4, <2>5
<1>3. ASSUME NEW e \in Ends, Read(e) \/ ReadFails(e)
      PROVE  /\ LoopTimes' /\ loop'[e].n > loop[e].n
             /\ \A f \in Ends : f # e => loop'[f] = loop[f] /\ ~Read(f)
  <2> DEFINE n == now \div 2
  <2>1. /\ now' = now /\ loop[e].pc = "half" /\ loop[e].due <= now
        /\ loop' = [loop EXCEPT ![e] = [pc |-> "sleep", n |-> n, due |-> 2 * (n + 1)]]
    BY <1>3 DEF Read, ReadFails, Sleep
  <2>2. n \in Nat /\ 2 * (n + 1) \in Nat /\ now >= 2 * loop[e].n + 3
    BY <1>T, <2>1 DEF LoopTimes
  <2>3. n > loop[e].n
    BY <1>T, <2>2
  <2> HIDE DEF n
  <2>4. /\ loop'[e] = [pc |-> "sleep", n |-> n, due |-> 2 * (n + 1)]
        /\ \A f \in Ends : f # e => loop'[f] = loop[f]
        /\ loop' \in [Ends -> [pc : {"sleep", "half"}, n : Nat, due : Nat]]
    BY <1>T, <2>1, <2>2
  <2>5. LoopTimes'
    BY <1>T, <2>1, <2>2, <2>4 DEF LoopTimes
  <2>6. ASSUME NEW f \in Ends, f # e, Read(f) PROVE FALSE
    <3>1. loop[f].pc = "half" /\ loop'[f].pc = "sleep"
      BY <1>T, <2>6 DEF Read, Sleep
    <3>2. QED
      BY <2>4, <2>6, <3>1
  <2>7. QED
    BY <2>3, <2>4, <2>5, <2>6
<1>4. CASE UNCHANGED loop /\ now' \in {now, now + 1}
  BY <1>1, <1>4
<1>5. CASE \E e \in Ends : Flip(e)
  BY <1>2, <1>5
<1>6. CASE \E e \in Ends : Read(e) \/ ReadFails(e)
  <2>1. PICK e \in Ends : Read(e) \/ ReadFails(e)
    BY <1>6
  <2>2. /\ LoopTimes' /\ loop'[e].n > loop[e].n
        /\ \A f \in Ends : f # e => loop'[f] = loop[f] /\ ~Read(f)
    BY <1>3, <2>1
  <2>3. \A f \in Ends : loop'[f].n \in Nat
    BY <2>2 DEF LoopTimes
  <2>4. QED
    BY <1>T, <2>2, <2>3
<1>7. QED
  BY <1>4, <1>5, <1>6, LoopQuiet

-----------------------------------------------------------------------------
(* What a step does to the blocks of the two ends: one end's block         *)
(* finishes, some of its waiting blocks are delivered, or some are given   *)
(* up.                                                                     *)

Waiting(e) == ToSet(queue[e]) \cup InReplies(e)

Elsewhere(e) == \A f \in Ends : f # e => Waiting(f)' = Waiting(f) /\ store'[f] = store[f]

Finishes(e, b) ==
    /\ b.n = loop[e].n /\ loop'[e].n > loop[e].n
    /\ queue' = [queue EXCEPT ![e] = Push(@, b)]
    /\ UNCHANGED <<replies, store>>

Stored(e) ==
    /\ queue' = [queue EXCEPT ![e] = <<>>]
    /\ store' = [store EXCEPT ![e] = @ \cup ToSet(queue[e])]
    /\ UNCHANGED replies

Unheard(e) ==
    /\ queue' = [queue EXCEPT ![e] = <<>>]
    /\ replies' \in {replies, replies \cup {[end |-> e, blocks |-> queue[e]]}}
    /\ UNCHANGED store

Arrives(e, r) ==
    /\ r.end = e
    /\ replies' = replies \ {r}
    /\ store' = [store EXCEPT ![e] = @ \cup ToSet(r.blocks)]
    /\ UNCHANGED queue

Moves(e) == Stored(e) \/ Unheard(e) \/ \E r \in replies : Arrives(e, r)

LEMMA PlaceSteps ==
    ASSUME LoopTimes, [Next]_vars
    PROVE  \/ UNCHANGED <<queue, replies, store>>
           \/ \E e \in Ends : \E b : Finishes(e, b)
           \/ \E e \in Ends : Moves(e)
<1>1. ASSUME MarkNext, UNCHANGED ctl
      PROVE  \/ UNCHANGED <<queue, replies, store>>
             \/ \E e \in Ends : \E b : Finishes(e, b)
  <2>1. UNCHANGED <<replies, store>>
    BY <1>1 DEF ctl
  <2>2. ASSUME NEW e \in Ends, Read(e)
        PROVE  UNCHANGED queue \/ \E b : Finishes(e, b)
    <3> DEFINE b == FinishedBlock(e, loop[e].n, Overlapped(e, 2 * loop[e].n, 2 * (loop[e].n + 1)))
    <3>1. UNCHANGED queue \/ queue' = [queue EXCEPT ![e] = Push(@, b)]
      BY <2>2 DEF Read
    <3>2. b.n = loop[e].n
      BY DEF FinishedBlock
    <3>3. loop'[e].n > loop[e].n
      BY <2>2, LoopStep
    <3>4. QED
      BY <2>1, <3>1, <3>2, <3>3 DEF Finishes
  <2>3. UNCHANGED queue \/ \E e \in Ends : Read(e)
    BY <1>1 DEF MarkNext, SendPacket, ArrivePacket, Reload, Flip, ReadFails, GateBegin, GateEnd,
                Tick, agents
  <2>4. QED
    BY <2>1, <2>2, <2>3
<1>2. ASSUME NEW e \in Ends, AlwaysReply(e) PROVE Moves(e)
  BY <1>2 DEF AlwaysReply, Report, TakeBlocks, Moves, Stored, Unheard
<1>3. ASSUME NEW e \in Ends, LateReply(e) PROVE Moves(e)
  BY <1>3 DEF LateReply, markVars, agents, Moves, Arrives
<1>4. ASSUME ClassifyPass \/ UNCHANGED vars PROVE UNCHANGED <<queue, replies, store>>
  BY <1>4 DEF ClassifyPass, vars, markVars, agents, ctl
<1>5. QED
  BY <1>1, <1>2, <1>3, <1>4 DEF Next

\* A block that finishes is the newest of its end; nothing else moves.
LEMMA FinishPlaces ==
    ASSUME ChannelInv, NEW e \in Ends, NEW b, Finishes(e, b)
    PROVE  /\ Shapes' /\ Elsewhere(e) /\ store' = store
           /\ ToSet(queue'[e]) \subseteq ToSet(queue[e]) \cup {b} /\ b \in ToSet(queue'[e])
           /\ \A f \in Ends : InReplies(f)' = InReplies(f)
           /\ \A f \in Ends : f # e => queue'[f] = queue[f]
<1>1. /\ queue = [f \in Ends |-> queue[f]] /\ store = [f \in Ends |-> store[f]]
      /\ \A f \in Ends : queue[f] \in Seq(ToSet(queue[f]))
  BY DEF ChannelInv, Shapes
<1>2. /\ queue' = [queue EXCEPT ![e] = Push(queue[e], b)] /\ store' = store /\ replies' = replies
  BY DEF Finishes
<1>3. queue'[e] = Push(queue[e], b) /\ \A f \in Ends : f # e => queue'[f] = queue[f]
  BY <1>1, <1>2
<1>4. \A f \in Ends : InReplies(f)' = InReplies(f)
  BY <1>2 DEF InReplies
<1>5. /\ queue'[e] \in Seq(ToSet(queue'[e]))
      /\ ToSet(queue'[e]) \subseteq ToSet(queue[e]) \cup {b} /\ b \in ToSet(queue'[e])
  BY <1>1, <1>3, PushBlock
<1>6. Shapes'
  <2>1. queue' = [f \in Ends |-> queue'[f]] /\ store' = [f \in Ends |-> store'[f]]
    BY <1>1, <1>2
  <2>2. \A f \in Ends : queue'[f] \in Seq(ToSet(queue'[f]))
    BY <1>1, <1>3, <1>5
  <2>3. QED
    BY <2>1, <2>2 DEF Shapes
<1>7. Elsewhere(e)
  BY <1>2, <1>3, <1>4 DEF Elsewhere, Waiting
<1>8. QED
  BY <1>2, <1>3, <1>4, <1>5, <1>6, <1>7

\* Reading the queue, whatever becomes of the reply, empties it.
LEMMA Emptied ==
    ASSUME ChannelInv, NEW e \in Ends, queue' = [queue EXCEPT ![e] = <<>>]
    PROVE  /\ queue' = [f \in Ends |-> queue'[f]] /\ ToSet(queue'[e]) = {}
           /\ \A f \in Ends : f # e => queue'[f] = queue[f]
           /\ \A f \in Ends : queue'[f] \in Seq(ToSet(queue'[f]))
<1>1. queue = [f \in Ends |-> queue[f]] /\ \A f \in Ends : queue[f] \in Seq(ToSet(queue[f]))
  BY DEF ChannelInv, Shapes
<1>2. queue'[e] = <<>> /\ \A f \in Ends : f # e => queue'[f] = queue[f]
  BY <1>1
<1>3. ToSet(<<>>) = {} /\ <<>> \in Seq(ToSet(<<>>))
  BY DEF ToSet
<1>4. queue' = [f \in Ends |-> queue'[f]]
  BY <1>1
<1>5. QED
  BY <1>1, <1>2, <1>3, <1>4

\* A reply that is stored delivers what the queue held.
LEMMA StoredPlaces ==
    ASSUME ChannelInv, NEW e \in Ends, Stored(e)
    PROVE  /\ Shapes' /\ Apart' /\ Elsewhere(e)
           /\ Waiting(e)' = Waiting(e) \ ToSet(queue[e])
           /\ store'[e] = store[e] \cup ToSet(queue[e])
<1>1. /\ queue' = [f \in Ends |-> queue'[f]] /\ ToSet(queue'[e]) = {}
      /\ \A f \in Ends : f # e => queue'[f] = queue[f]
      /\ \A f \in Ends : queue'[f] \in Seq(ToSet(queue'[f]))
  BY Emptied DEF Stored
<1>2. store = [f \in Ends |-> store[f]] /\ Apart
  BY DEF ChannelInv, Shapes
<1>3. /\ store' = [f \in Ends |-> store'[f]] /\ store'[e] = store[e] \cup ToSet(queue[e])
      /\ \A f \in Ends : f # e => store'[f] = store[f]
  BY <1>2 DEF Stored
<1>4. replies' = replies /\ \A f \in Ends : InReplies(f)' = InReplies(f)
  BY DEF Stored, InReplies
<1>5. Shapes'
  BY <1>1, <1>3 DEF Shapes
<1>6. Elsewhere(e)
  BY <1>1, <1>3, <1>4 DEF Elsewhere, Waiting
<1>7. Waiting(e)' = Waiting(e) \ ToSet(queue[e])
  BY <1>1, <1>2, <1>4 DEF Waiting, Apart
<1>8. Apart'
  <2>1. ASSUME NEW f \in Ends
        PROVE  /\ ToSet(queue[f]) \cap InReplies(f) = {} /\ ToSet(queue[f]) \cap store[f] = {}
               /\ InReplies(f) \cap store[f] = {}
    BY <1>2 DEF Apart
  <2>2. ASSUME NEW f \in Ends
        PROVE  /\ ToSet(queue'[f]) \cap InReplies(f)' = {} /\ ToSet(queue'[f]) \cap store'[f] = {}
               /\ InReplies(f)' \cap store'[f] = {}
    BY <1>1, <1>3, <1>4, <2>1
  <2>3. \A r1, r2 \in replies' : \A f \in Ends :
           r1.end = f /\ r2.end = f /\ r1 # r2 => ToSet(r1.blocks) \cap ToSet(r2.blocks) = {}
    BY <1>2, <1>4 DEF Apart
  <2>4. QED
    BY <2>2, <2>3 DEF Apart
<1>9. QED
  BY <1>3, <1>5, <1>6, <1>7, <1>8

\* A reply that is late keeps what the queue held waiting; a lost one loses it.
LEMMA UnheardPlaces ==
    ASSUME ChannelInv, NEW e \in Ends, Unheard(e)
    PROVE  /\ Shapes' /\ Apart' /\ Elsewhere(e)
           /\ Waiting(e)' \subseteq Waiting(e) /\ store' = store
<1>1. /\ queue' = [f \in Ends |-> queue'[f]] /\ ToSet(queue'[e]) = {}
      /\ \A f \in Ends : f # e => queue'[f] = queue[f]
      /\ \A f \in Ends : queue'[f] \in Seq(ToSet(queue'[f]))
  BY Emptied DEF Unheard
<1>2. store = [f \in Ends |-> store[f]] /\ store' = store /\ Apart
  BY DEF ChannelInv, Shapes, Unheard
<1> DEFINE new == [end |-> e, blocks |-> queue[e]]
<1>3. new.end = e /\ new.blocks = queue[e] /\ replies' \in {replies, replies \cup {new}}
  BY DEF Unheard
<1> HIDE DEF new
<1>4. ASSUME NEW f \in Ends
      PROVE  IF f = e THEN InReplies(f)' \subseteq InReplies(f) \cup ToSet(queue[f])
                      ELSE InReplies(f)' = InReplies(f)
  BY <1>3 DEF InReplies
<1>5. Shapes'
  BY <1>1, <1>2 DEF Shapes
<1>6. Elsewhere(e)
  BY <1>1, <1>2, <1>4 DEF Elsewhere, Waiting
<1>7. Waiting(e)' \subseteq Waiting(e)
  BY <1>1, <1>4 DEF Waiting
<1>8. ASSUME NEW r1 \in replies', NEW r2 \in replies', r1.end = r2.end, r1.end \in Ends, r1 # r2
      PROVE  ToSet(r1.blocks) \cap ToSet(r2.blocks) = {}
  <2>1. \A r \in replies : r.end = e => ToSet(r.blocks) \cap ToSet(queue[e]) = {}
    BY <1>2 DEF Apart, InReplies
  <2>2. CASE r1 \in replies /\ r2 \in replies
    BY <1>2, <1>8, <2>2 DEF Apart
  <2>3. CASE r1 = new \/ r2 = new
    BY <1>3, <1>8, <2>1, <2>3
  <2>4. QED
    BY <1>3, <1>8, <2>2, <2>3
<1>9. Apart'
  <2>1. ASSUME NEW f \in Ends
        PROVE  /\ ToSet(queue[f]) \cap InReplies(f) = {} /\ ToSet(queue[f]) \cap store[f] = {}
               /\ InReplies(f) \cap store[f] = {}
    BY <1>2 DEF Apart
  <2>2. ASSUME NEW f \in Ends
        PROVE  /\ ToSet(queue'[f]) \cap InReplies(f)' = {} /\ ToSet(queue'[f]) \cap store'[f] = {}
               /\ InReplies(f)' \cap store'[f] = {}
    BY <1>1, <1>2, <1>4, <2>1
  <2>3. QED
    BY <1>8, <2>2 DEF Apart
<1>10. QED
  BY <1>2, <1>5, <1>6, <1>7, <1>9

\* A late reply delivers what it carries, and no other reply carries that.
LEMMA ArrivesPlaces ==
    ASSUME ChannelInv, NEW e \in Ends, NEW r \in replies, Arrives(e, r)
    PROVE  /\ Shapes' /\ Apart' /\ Elsewhere(e)
           /\ ToSet(r.blocks) \subseteq Waiting(e)
           /\ Waiting(e)' = Waiting(e) \ ToSet(r.blocks)
           /\ store'[e] = store[e] \cup ToSet(r.blocks)
<1>1. queue' = queue /\ replies' = replies \ {r} /\ r.end = e
  BY DEF Arrives
<1>2. store = [f \in Ends |-> store[f]] /\ Apart /\ Shapes
  BY DEF ChannelInv, Shapes
<1>3. /\ store' = [f \in Ends |-> store'[f]] /\ store'[e] = store[e] \cup ToSet(r.blocks)
      /\ \A f \in Ends : f # e => store'[f] = store[f]
  BY <1>2 DEF Arrives
<1>4. \A q \in replies : q.end = e /\ q # r => ToSet(q.blocks) \cap ToSet(r.blocks) = {}
  BY <1>1, <1>2 DEF Apart
<1>5. ToSet(r.blocks) \subseteq InReplies(e)
  BY <1>1 DEF InReplies
<1>6. InReplies(e)' = InReplies(e) \ ToSet(r.blocks)
  BY <1>1, <1>4 DEF InReplies
<1>7. ASSUME NEW f \in Ends, f # e PROVE InReplies(f)' = InReplies(f)
  BY <1>1, <1>7 DEF InReplies
<1>8. Shapes'
  BY <1>1, <1>2, <1>3 DEF Shapes
<1>9. Elsewhere(e)
  BY <1>1, <1>3, <1>7 DEF Elsewhere, Waiting
<1>10. Waiting(e)' = Waiting(e) \ ToSet(r.blocks)
  BY <1>1, <1>2, <1>5, <1>6 DEF Waiting, Apart
<1>11. Apart'
  BY <1>1, <1>2, <1>3, <1>5, <1>6, <1>7 DEF Apart
<1>12. QED
  BY <1>3, <1>5, <1>8, <1>9, <1>10, <1>11 DEF Waiting

-----------------------------------------------------------------------------
(* The invariant is inductive.                                             *)

Delivers(e, Q) ==
    /\ Q \subseteq Waiting(e) /\ Waiting(e)' = Waiting(e) \ Q
    /\ store'[e] = store[e] \cup Q
    /\ Elsewhere(e)

GivesUp(e) == Waiting(e)' \subseteq Waiting(e) /\ store' = store /\ Elsewhere(e)

LEMMA MovePlaces ==
    ASSUME ChannelInv, NEW e \in Ends, Moves(e)
    PROVE  Shapes' /\ Apart' /\ (GivesUp(e) \/ \E Q : Delivers(e, Q))
<1>1. CASE Stored(e)
  BY <1>1, StoredPlaces DEF Delivers, Waiting
<1>2. CASE Unheard(e)
  BY <1>2, UnheardPlaces DEF GivesUp
<1>3. ASSUME NEW r \in replies, Arrives(e, r)
      PROVE  Shapes' /\ Apart' /\ \E Q : Delivers(e, Q)
  BY <1>3, ArrivesPlaces DEF Delivers
<1>4. QED
  BY <1>1, <1>2, <1>3 DEF Moves

LEMMA ChannelStep ==
    ASSUME ChannelInv, [Next]_vars
    PROVE  ChannelInv'
<1>1. /\ LoopTimes' /\ \A e \in Ends : loop'[e].n >= loop[e].n
      /\ \A e \in Ends : loop[e].n \in Nat /\ loop'[e].n \in Nat
  <2>1. LoopTimes' /\ \A e \in Ends : loop'[e].n >= loop[e].n
    BY LoopStep DEF ChannelInv
  <2>2. QED
    BY <2>1 DEF ChannelInv, LoopTimes
<1>2. ASSUME NEW e \in Ends
      PROVE  /\ ToSet(queue[e]) \cap InReplies(e) = {} /\ ToSet(queue[e]) \cap store[e] = {}
             /\ InReplies(e) \cap store[e] = {}
             /\ \A b \in Waiting(e) \cup store[e] : b.n \in Nat /\ b.n < loop[e].n
  BY DEF ChannelInv, Apart, Numbered, Everywhere, Waiting
<1>3. ASSUME \A e \in Ends : Waiting(e)' \cup store'[e] \subseteq Waiting(e) \cup store[e]
      PROVE  Numbered'
  <2>1. ASSUME NEW e \in Ends, NEW b \in Waiting(e)' \cup store'[e] PROVE b.n \in Nat /\ b.n < loop'[e].n
    BY <1>1, <1>2, <1>3
  <2>2. QED
    BY <2>1 DEF Numbered, Everywhere, Waiting
<1>4. CASE UNCHANGED <<queue, replies, store>>
  <2>1. Shapes' /\ Apart'
    BY <1>4 DEF ChannelInv, Shapes, Apart, InReplies
  <2>2. \A e \in Ends : Waiting(e)' = Waiting(e) /\ store'[e] = store[e]
    BY <1>4 DEF Waiting, InReplies
  <2>3. QED
    BY <1>1, <1>3, <2>1, <2>2 DEF ChannelInv
<1>5. ASSUME NEW e \in Ends, NEW b, Finishes(e, b) PROVE ChannelInv'
  <2>1. /\ Shapes' /\ Elsewhere(e) /\ store' = store /\ replies' = replies
        /\ ToSet(queue'[e]) \subseteq ToSet(queue[e]) \cup {b}
        /\ \A f \in Ends : InReplies(f)' = InReplies(f)
        /\ \A f \in Ends : f # e => queue'[f] = queue[f]
    BY <1>5, FinishPlaces DEF Finishes
  <2>2. b.n = loop[e].n /\ loop'[e].n > loop[e].n
    BY <1>5 DEF Finishes
  <2>3. b \notin Waiting(e) \cup store[e]
    BY <1>1, <1>2, <2>2
  <2>4. ASSUME NEW f \in Ends
        PROVE  /\ ToSet(queue'[f]) \cap InReplies(f)' = {} /\ ToSet(queue'[f]) \cap store'[f] = {}
               /\ InReplies(f)' \cap store'[f] = {}
    BY <1>2, <2>1, <2>3 DEF Waiting
  <2>5. Apart'
    <3>1. \A r1, r2 \in replies' : \A f \in Ends :
             r1.end = f /\ r2.end = f /\ r1 # r2 => ToSet(r1.blocks) \cap ToSet(r2.blocks) = {}
      BY <2>1 DEF ChannelInv, Apart
    <3>2. QED
      BY <2>4, <3>1 DEF Apart
  <2>6. ASSUME NEW f \in Ends, NEW c \in Waiting(f)' \cup store'[f]
        PROVE  c.n \in Nat /\ c.n < loop'[f].n
    <3>1. c \in Waiting(f) \cup store[f] \/ (f = e /\ c = b)
      BY <2>1 DEF Elsewhere, Waiting
    <3>2. QED
      BY <1>1, <1>2, <2>2, <3>1
  <2>7. Numbered'
    BY <2>6 DEF Numbered, Everywhere, Waiting
  <2>8. QED
    BY <1>1, <2>1, <2>5, <2>7 DEF ChannelInv
<1>6. ASSUME NEW e \in Ends, Moves(e) PROVE ChannelInv'
  <2>1. Shapes' /\ Apart' /\ (GivesUp(e) \/ \E Q : Delivers(e, Q))
    BY <1>6, MovePlaces
  <2>2. \A f \in Ends : Waiting(f)' \cup store'[f] \subseteq Waiting(f) \cup store[f]
    BY <2>1 DEF GivesUp, Delivers, Elsewhere
  <2>3. QED
    BY <1>1, <1>3, <2>1, <2>2 DEF ChannelInv
<1>7. QED
  BY <1>4, <1>5, <1>6, PlaceSteps DEF ChannelInv

LEMMA ChannelInit == Init => ChannelInv
<1> SUFFICES ASSUME Init PROVE ChannelInv
  OBVIOUS
<1>1. /\ now \in Nat /\ loop \in [Ends -> [pc : {"sleep", "half"}, n : Nat, due : Nat]]
      /\ \A e \in Ends : loop[e].pc = "sleep" /\ loop[e].due >= 2 * (loop[e].n + 1)
  BY DEF Init, MarkInit
<1>2. queue = [e \in Ends |-> <<>>] /\ store = [e \in Ends |-> {}] /\ replies = {}
  BY DEF Init, MarkInit
<1>3. ToSet(<<>>) = {} /\ <<>> \in Seq(ToSet(<<>>))
  BY DEF ToSet
<1>4. \A e \in Ends : queue[e] = <<>> /\ store[e] = {} /\ InReplies(e) = {}
  BY <1>2 DEF InReplies
<1>5. LoopTimes
  BY <1>1 DEF LoopTimes
<1>6. Shapes
  BY <1>2, <1>3, <1>4 DEF Shapes
<1>7. Numbered /\ Apart
  BY <1>2, <1>3, <1>4 DEF Numbered, Apart, Everywhere
<1>8. QED
  BY <1>5, <1>6, <1>7 DEF ChannelInv

-----------------------------------------------------------------------------
(* Every step is a step of the channel.                                    *)

Tagged(e, b) == [end |-> e, n |-> b.n, block |-> b]
Pending == UNION {Reported(e, ToSet(queue[e]) \cup InReplies(e)) : e \in Ends}
Delivered == UNION {Reported(e, store[e]) : e \in Ends}

LEMMA ChannelMembers ==
    /\ \A x : x \in Pending <=> \E e \in Ends : \E b \in Waiting(e) : x = Tagged(e, b)
    /\ \A x : x \in Delivered <=> \E e \in Ends : \E b \in store[e] : x = Tagged(e, b)
    /\ \A x : x \in Pending' <=> \E e \in Ends : \E b \in Waiting(e)' : x = Tagged(e, b)
    /\ \A x : x \in Delivered' <=> \E e \in Ends : \E b \in store'[e] : x = Tagged(e, b)
<1>1. \A x : x \in Pending <=> \E e \in Ends : \E b \in Waiting(e) : x = Tagged(e, b)
  BY DEF Pending, Reported, Waiting, Tagged
<1>2. \A x : x \in Delivered <=> \E e \in Ends : \E b \in store[e] : x = Tagged(e, b)
  BY DEF Delivered, Reported, Tagged
<1>3. \A x : x \in Pending' <=> \E e \in Ends : \E b \in Waiting(e)' : x = Tagged(e, b)
  BY DEF Pending, Reported, Waiting, Tagged
<1>4. \A x : x \in Delivered' <=> \E e \in Ends : \E b \in store'[e] : x = Tagged(e, b)
  BY DEF Delivered, Reported, Tagged
<1>5. QED
  BY <1>1, <1>2, <1>3, <1>4

LEMMA TagInjective ==
    ASSUME NEW e, NEW b, NEW f, NEW c
    PROVE  /\ Tagged(e, b) = Tagged(f, c) => e = f /\ b = c
           /\ Tagged(e, b).end = e /\ Tagged(e, b).n = b.n
<1>1. \A x, y : Tagged(x, y).end = x /\ Tagged(x, y).n = y.n /\ Tagged(x, y).block = y
  BY DEF Tagged
<1>2. QED
  BY <1>1

LEMMA FinishRefines ==
    ASSUME ChannelInv, NEW e \in Ends, NEW b, Finishes(e, b)
    PROVE  Channel!Finish
<1>1. /\ Elsewhere(e) /\ store' = store
      /\ Waiting(e)' \subseteq Waiting(e) \cup {b} /\ b \in Waiting(e)'
  BY FinishPlaces DEF Waiting
<1>2. b.n = loop[e].n /\ \A c \in Waiting(e) \cup store[e] : c.n < b.n
  BY DEF Finishes, ChannelInv, Numbered, Everywhere, Waiting
<1>3. Tagged(e, b) \in Pending'
  BY <1>1, ChannelMembers
<1>4. ASSUME NEW old \in Pending \cup Delivered, old.end = Tagged(e, b).end
      PROVE  old.n < Tagged(e, b).n
  <2>1. PICK f, c : f \in Ends /\ c \in Waiting(f) \cup store[f] /\ old = Tagged(f, c)
    BY ChannelMembers
  <2>2. f = e /\ old.n = c.n /\ Tagged(e, b).n = b.n
    BY <1>4, <2>1, TagInjective
  <2>3. QED
    BY <1>2, <2>1, <2>2
<1>5. Pending' \subseteq Pending \cup {Tagged(e, b)}
  <2> SUFFICES ASSUME NEW x \in Pending' PROVE x \in Pending \cup {Tagged(e, b)}
    OBVIOUS
  <2>1. PICK f, c : f \in Ends /\ c \in Waiting(f)' /\ x = Tagged(f, c)
    BY ChannelMembers
  <2>2. c \in Waiting(f) \/ (f = e /\ c = b)
    BY <1>1, <2>1 DEF Elsewhere
  <2>3. QED
    BY <2>1, <2>2, ChannelMembers
<1>6. Delivered' = Delivered
  BY <1>1 DEF Delivered
<1>7. \E x \in Pending' :
         /\ \A old \in Pending \cup Delivered : old.end = x.end => old.n < x.n
         /\ Pending' \subseteq Pending \cup {x}
         /\ Delivered' = Delivered
  BY <1>3, <1>4, <1>5, <1>6
<1>8. QED
  BY <1>7 DEF Channel!Finish, Pending, Delivered

LEMMA DeliverRefines ==
    ASSUME ChannelInv, NEW e \in Ends, NEW Q, Delivers(e, Q)
    PROVE  Channel!Deliver
<1>1. /\ Q \subseteq Waiting(e) /\ Waiting(e)' = Waiting(e) \ Q /\ store'[e] = store[e] \cup Q
      /\ \A f \in Ends : f # e => Waiting(f)' = Waiting(f) /\ store'[f] = store[f]
  BY DEF Delivers, Elsewhere
<1>2. \A f \in Ends : Waiting(f) \cap store[f] = {}
  BY DEF ChannelInv, Apart, Waiting
<1>3. ASSUME NEW f \in Ends
      PROVE  /\ store[f] \subseteq store'[f] /\ store'[f] \subseteq store[f] \cup Waiting(f)
             /\ Waiting(f)' = Waiting(f) \ store'[f]
  BY <1>1, <1>2
<1>4. Delivered \subseteq Delivered' /\ Delivered' \subseteq Delivered \cup Pending
  <2>1. ASSUME NEW x \in Delivered PROVE x \in Delivered'
    BY <1>3, ChannelMembers
  <2>2. ASSUME NEW x \in Delivered' PROVE x \in Delivered \cup Pending
    <3>1. PICK f, c : f \in Ends /\ c \in store'[f] /\ x = Tagged(f, c)
      BY ChannelMembers
    <3>2. c \in store[f] \/ c \in Waiting(f)
      BY <1>3, <3>1
    <3>3. QED
      BY <3>1, <3>2, ChannelMembers
  <2>3. QED
    BY <2>1, <2>2
<1>5. Pending' = Pending \ Delivered'
  <2>1. ASSUME NEW x \in Pending' PROVE x \in Pending /\ x \notin Delivered'
    <3>1. PICK f, c : f \in Ends /\ c \in Waiting(f)' /\ x = Tagged(f, c)
      BY ChannelMembers
    <3>2. c \in Waiting(f) /\ c \notin store'[f]
      BY <1>3, <3>1
    <3>3. ASSUME x \in Delivered' PROVE FALSE
      <4>1. PICK g, d : g \in Ends /\ d \in store'[g] /\ x = Tagged(g, d)
        BY <3>3, ChannelMembers
      <4>2. Tagged(f, c) = Tagged(g, d)
        BY <3>1, <4>1
      <4>3. f = g /\ c = d
        BY <4>2, TagInjective
      <4>4. QED
        BY <3>2, <4>1, <4>3
    <3>4. QED
      BY <3>1, <3>2, <3>3, ChannelMembers
  <2>2. ASSUME NEW x \in Pending, x \notin Delivered' PROVE x \in Pending'
    <3>1. PICK f, c : f \in Ends /\ c \in Waiting(f) /\ x = Tagged(f, c)
      BY ChannelMembers
    <3>2. c \notin store'[f]
      BY <2>2, <3>1, ChannelMembers
    <3>3. QED
      BY <1>3, <3>1, <3>2, ChannelMembers
  <2>3. QED
    BY <2>1, <2>2
<1>6. QED
  BY <1>4, <1>5 DEF Channel!Deliver, Pending, Delivered

LEMMA GiveUpRefines ==
    ASSUME NEW e \in Ends, GivesUp(e)
    PROVE  Channel!GiveUp
<1>1. \A f \in Ends : Waiting(f)' \subseteq Waiting(f)
  BY DEF GivesUp, Elsewhere
<1>2. Pending' \subseteq Pending
  <2> SUFFICES ASSUME NEW x \in Pending' PROVE x \in Pending
    OBVIOUS
  <2>1. PICK f, c : f \in Ends /\ c \in Waiting(f)' /\ x = Tagged(f, c)
    BY ChannelMembers
  <2>2. QED
    BY <1>1, <2>1, ChannelMembers
<1>3. Delivered' = Delivered
  BY DEF Delivered, GivesUp
<1>4. QED
  BY <1>2, <1>3 DEF Channel!GiveUp, Pending, Delivered

\* The block queues, the replies and the store, for every number of blocks,
\* packets, reloads, failures, tests, late and lost replies, implement the
\* at-most-once channel: a finished block is newer than every block its end ever
\* finished, is stored at most once and from one place only, and never comes
\* back after push_block or a lost reply gave it up (mark.rs's take_blocks and
\* push_block, marker_loop, the always reply and Tsdb::append).
THEOREM PassiveAtMostOnce == Spec => AtMostOnce
<1>1. ASSUME ChannelInv, [Next]_vars
      PROVE  [Channel!Next]_<<Pending, Delivered>>
  <2>1. CASE UNCHANGED <<queue, replies, store>>
    <3>1. Pending' = Pending /\ Delivered' = Delivered
      BY <2>1 DEF Pending, Delivered, InReplies
    <3>2. QED
      BY <3>1
  <2>2. CASE \E e \in Ends : \E b : Finishes(e, b)
    BY <1>1, <2>2, FinishRefines DEF Channel!Next
  <2>3. CASE \E e \in Ends : Moves(e)
    BY <1>1, <2>3, MovePlaces, DeliverRefines, GiveUpRefines DEF Channel!Next
  <2>4. QED
    BY <1>1, <2>1, <2>2, <2>3, PlaceSteps DEF ChannelInv
<1>2. Init => Channel!Init
  <2> SUFFICES ASSUME Init PROVE Channel!Init
    OBVIOUS
  <2>1. queue = [e \in Ends |-> <<>>] /\ store = [e \in Ends |-> {}] /\ replies = {}
    BY DEF Init, MarkInit
  <2>2. ToSet(<<>>) = {}
    BY DEF ToSet
  <2>3. \A e \in Ends : Waiting(e) = {} /\ store[e] = {}
    BY <2>1, <2>2 DEF Waiting, InReplies
  <2>4. Pending = {} /\ Delivered = {}
    BY <2>3, ChannelMembers
  <2>5. QED
    BY <2>4 DEF Channel!Init, Pending, Delivered
<1>3. ASSUME ChannelInv, [Next]_vars
      PROVE  [Channel!Next]_<<UNION {Reported(e, ToSet(queue[e]) \cup InReplies(e)) : e \in Ends},
                              UNION {Reported(e, store[e]) : e \in Ends}>>
  BY <1>1, <1>3 DEF Pending, Delivered
<1>4. QED
  BY <1>2, <1>3, ChannelInit, ChannelStep, PTL DEF Spec, AtMostOnce, Channel!Spec
-----------------------------------------------------------------------------
(* Sums over finite sets.  SumFunctionOnSet is defined by recursion over   *)
(* the subsets of its set, so its lemmas go by the smallest exception.     *)

LEMMA LeastNumber ==
    ASSUME NEW N \in SUBSET Nat, N # {}
    PROVE  \E m \in N : \A k \in N : m <= k
<1> DEFINE L == {p \in Nat \X Nat : p[1] < p[2]}
<1>1. IsWellFoundedOn(L, Nat)
  BY NatLessThanWellFounded, Zenon DEF OpToRel
<1>2. \A x, y \in Nat : x < y => <<x, y>> \in L
  BY DEF L
<1> HIDE DEF L
<1>3. PICK m \in N : \A y \in N : ~(<<y, m>> \in L)
  BY <1>1, WFMin, Zenon
<1>4. ASSUME NEW k \in N PROVE m <= k
  <2>1. m \in Nat /\ k \in Nat
    BY <1>3
  <2>2. ~(k < m)
    BY <1>2, <1>3, <2>1, Zenon
  <2>3. QED
    BY <2>1, <2>2
<1>5. QED
  BY <1>3, <1>4

\* A non-empty family of subsets of a finite set has a smallest member.
LEMMA SmallestSubset ==
    ASSUME NEW S, IsFiniteSet(S), NEW F \in SUBSET SUBSET S, F # {}
    PROVE  \E T \in F : \A U \in F : U \subseteq T => U = T
<1> DEFINE N == {Cardinality(T) : T \in F}
<1>1. \A T \in F : IsFiniteSet(T) /\ Cardinality(T) \in Nat
  BY FS_Subset, FS_CardinalityType
<1>2. N \in SUBSET Nat /\ N # {}
  BY <1>1
<1>3. PICK m \in N : \A k \in N : m <= k
  BY <1>2, LeastNumber
<1>4. PICK T \in F : Cardinality(T) = m
  BY <1>3
<1>5. ASSUME NEW U \in F, U \subseteq T PROVE U = T
  <2>1. Cardinality(T) <= Cardinality(U)
    BY <1>3, <1>4
  <2>2. Cardinality(U) <= Cardinality(T) /\ (Cardinality(T) = Cardinality(U) => T = U)
    BY <1>1, <1>5, FS_Subset
  <2>3. QED
    BY <1>1, <2>1, <2>2
<1>6. QED
  BY <1>4, <1>5

Pick(s) == CHOOSE x \in s : TRUE
Adds(f, g, s) == IF s = {} THEN 0 ELSE f[Pick(s)] + g[s \ {Pick(s)}]
Sums(f, S, g) == g = [s \in SUBSET S |-> Adds(f, g, s)]

LEMMA Picked == ASSUME NEW s, s # {} PROVE Pick(s) \in s
BY DEF Pick

LEMMA SumsExist ==
    ASSUME NEW f, NEW S, IsFiniteSet(S)
    PROVE  \E g : Sums(f, S, g)
<1> DEFINE Upto(n) == {s \in SUBSET S : Cardinality(s) <= n}
           Solved(n) == \E g : g = [s \in Upto(n) |-> Adds(f, g, s)]
           N == {n \in Nat : ~Solved(n)}
<1>1. \A s \in SUBSET S : IsFiniteSet(s) /\ Cardinality(s) \in Nat
  BY FS_Subset, FS_CardinalityType
<1>2. ASSUME NEW n \in N, \A k \in N : n <= k PROVE FALSE
  <2>1. CASE n = 0
    <3> DEFINE g == [s \in Upto(0) |-> 0]
    <3>1. \A s \in Upto(0) : s = {}
      <4>1. ASSUME NEW s \in Upto(0) PROVE Cardinality(s) = 0 /\ IsFiniteSet(s)
        BY <1>1
      <4>2. QED
        BY <4>1, FS_EmptySet
    <3>2. g = [s \in Upto(0) |-> Adds(f, g, s)]
      BY <3>1 DEF Adds
    <3>3. QED
      BY <2>1, <3>2
  <2>2. CASE n # 0
    <3>1. n - 1 \in Nat /\ ~(n <= n - 1)
      BY <2>2
    <3>2. Solved(n - 1)
      BY <1>2, <3>1
    <3>3. PICK g : g = [s \in Upto(n - 1) |-> Adds(f, g, s)]
      BY <3>2
    <3> DEFINE h == [s \in Upto(n) |-> Adds(f, g, s)]
    <3>4. ASSUME NEW s \in Upto(n), s # {}
          PROVE  s \ {Pick(s)} \in Upto(n - 1) /\ s \ {Pick(s)} \in Upto(n)
      <4>1. Pick(s) \in s /\ IsFiniteSet(s) /\ Cardinality(s) \in Nat /\ Cardinality(s) <= n
        BY <1>1, <3>4, Picked
      <4>2. Cardinality(s \ {Pick(s)}) = Cardinality(s) - 1
        BY <4>1, FS_RemoveElement
      <4>3. QED
        BY <4>1, <4>2
    <3>5. ASSUME NEW s \in Upto(n - 1) PROVE s \in Upto(n)
      BY <1>1
    <3>6. ASSUME NEW s \in Upto(n - 1) PROVE h[s] = g[s]
      BY <3>3, <3>5
    <3>7. ASSUME NEW s \in Upto(n) PROVE Adds(f, g, s) = Adds(f, h, s)
      <4>1. CASE s = {}
        BY <4>1 DEF Adds
      <4>2. CASE s # {}
        BY <3>4, <3>6, <4>2, Zenon DEF Adds
      <4>3. QED
        BY <4>1, <4>2
    <3>8. h = [s \in Upto(n) |-> Adds(f, h, s)]
      BY <3>7, Zenon
    <3>9. QED
      BY <3>8
  <2>3. QED
    BY <2>1, <2>2
<1>3. \A n \in Nat : Solved(n)
  <2>1. N = {}
    BY <1>2, LeastNumber
  <2>2. QED
    BY <2>1
<1>4. Cardinality(S) \in Nat /\ Upto(Cardinality(S)) = SUBSET S
  <2>1. \A s \in SUBSET S : Cardinality(s) <= Cardinality(S)
    BY FS_Subset
  <2>2. QED
    BY <1>1, <2>1
<1>5. Solved(Cardinality(S))
  BY <1>3, <1>4
<1>6. QED
  BY <1>4, <1>5 DEF Sums

LEMMA SumIs ==
    ASSUME NEW f, NEW S, IsFiniteSet(S)
    PROVE  \E g : Sums(f, S, g) /\ SumFunctionOnSet(f, S) = g[S]
<1> DEFINE g == CHOOSE h : Sums(f, S, h)
<1>1. SumFunctionOnSet(f, S) = g[S]
  BY Zenon DEF SumFunctionOnSet, FoldFunctionOnSet, MapThenFoldSet, Sums, Adds, Pick
<1>2. Sums(f, S, g)
  BY SumsExist
<1>3. QED
  BY <1>1, <1>2

\* Two sums of functions that agree on the smaller set agree on its subsets.
LEMMA SumsAgree ==
    ASSUME NEW S, IsFiniteSet(S), NEW T \in SUBSET S, NEW f, NEW g, NEW F, NEW G,
           Sums(f, S, F), Sums(g, T, G), \A x \in T : f[x] = g[x]
    PROVE  \A s \in SUBSET T : F[s] = G[s]
<1> DEFINE Bad == {s \in SUBSET T : F[s] # G[s]}
<1>1. ASSUME NEW s \in Bad, \A u \in Bad : u \subseteq s => u = s PROVE FALSE
  <2>1. F[s] = Adds(f, F, s) /\ G[s] = Adds(g, G, s)
    BY Zenon DEF Sums
  <2>2. CASE s = {}
    BY <2>1, <2>2 DEF Adds
  <2>3. CASE s # {}
    <3>1. Pick(s) \in s /\ Pick(s) \in T
      BY <2>3, Picked
    <3>2. s \ {Pick(s)} \in SUBSET T /\ s \ {Pick(s)} # s /\ s \ {Pick(s)} \subseteq s
      BY <3>1
    <3>3. F[s \ {Pick(s)}] = G[s \ {Pick(s)}]
      BY <1>1, <3>2
    <3>4. QED
      BY <2>1, <3>1, <3>3 DEF Adds
  <2>4. QED
    BY <2>2, <2>3
<1>2. IsFiniteSet(T)
  BY FS_Subset
<1>3. Bad \in SUBSET SUBSET T
  OBVIOUS
<1>4. Bad = {}
  <2> HIDE DEF Bad
  <2>1. QED
    BY <1>1, <1>2, <1>3, SmallestSubset
<1>5. QED
  BY <1>4

LEMMA SumEmpty == ASSUME NEW f PROVE SumFunctionOnSet(f, {}) = 0
<1>1. PICK F : Sums(f, {}, F) /\ SumFunctionOnSet(f, {}) = F[{}]
  BY SumIs, FS_EmptySet
<1>2. F[{}] = Adds(f, F, {})
  BY <1>1, Zenon DEF Sums
<1>3. QED
  BY <1>1, <1>2 DEF Adds

LEMMA SumPick ==
    ASSUME NEW f, NEW S, IsFiniteSet(S), S # {}
    PROVE  SumFunctionOnSet(f, S) = f[Pick(S)] + SumFunctionOnSet(f, S \ {Pick(S)})
<1> DEFINE T == S \ {Pick(S)}
<1>1. T \in SUBSET S /\ IsFiniteSet(T)
  BY FS_Subset
<1>2. PICK F : Sums(f, S, F) /\ SumFunctionOnSet(f, S) = F[S]
  BY SumIs
<1>3. PICK G : Sums(f, T, G) /\ SumFunctionOnSet(f, T) = G[T]
  BY <1>1, SumIs
<1>4. F[T] = G[T]
  BY <1>1, <1>2, <1>3, SumsAgree
<1>5. F[S] = Adds(f, F, S)
  BY <1>2, Zenon DEF Sums
<1>6. QED
  BY <1>2, <1>3, <1>4, <1>5 DEF Adds

LEMMA SumCongruent ==
    ASSUME NEW f, NEW g, NEW S, IsFiniteSet(S), \A x \in S : f[x] = g[x]
    PROVE  SumFunctionOnSet(f, S) = SumFunctionOnSet(g, S)
<1>1. PICK F : Sums(f, S, F) /\ SumFunctionOnSet(f, S) = F[S]
  BY SumIs
<1>2. PICK G : Sums(g, S, G) /\ SumFunctionOnSet(g, S) = G[S]
  BY SumIs
<1>3. F[S] = G[S]
  BY <1>1, <1>2, SumsAgree
<1>4. QED
  BY <1>1, <1>2, <1>3

LEMMA SumNat ==
    ASSUME NEW S, IsFiniteSet(S), NEW f, \A x \in S : f[x] \in Nat
    PROVE  SumFunctionOnSet(f, S) \in Nat
<1> DEFINE Bad == {s \in SUBSET S : SumFunctionOnSet(f, s) \notin Nat}
<1>1. ASSUME NEW s \in Bad, \A u \in Bad : u \subseteq s => u = s PROVE FALSE
  <2>1. IsFiniteSet(s)
    BY FS_Subset
  <2>2. s # {}
    BY SumEmpty
  <2>3. Pick(s) \in s /\ f[Pick(s)] \in Nat
    BY <2>2, Picked
  <2>4. s \ {Pick(s)} \in SUBSET S /\ s \ {Pick(s)} # s
    BY <2>3
  <2>5. SumFunctionOnSet(f, s \ {Pick(s)}) \in Nat
    BY <1>1, <2>4
  <2>6. SumFunctionOnSet(f, s) = f[Pick(s)] + SumFunctionOnSet(f, s \ {Pick(s)})
    BY <2>1, <2>2, SumPick
  <2>7. QED
    BY <2>3, <2>5, <2>6
<1>2. Bad \in SUBSET SUBSET S
  OBVIOUS
<1>3. Bad = {}
  <2> HIDE DEF Bad
  <2>1. QED
    BY <1>1, <1>2, SmallestSubset
<1>4. QED
  BY <1>3

\* Any element may be taken out first.
LEMMA SumRemove ==
    ASSUME NEW S, IsFiniteSet(S), NEW f, \A x \in S : f[x] \in Nat
    PROVE  \A x \in S : SumFunctionOnSet(f, S) = f[x] + SumFunctionOnSet(f, S \ {x})
<1> DEFINE Sum(s) == SumFunctionOnSet(f, s)
           Bad == {s \in SUBSET S : \E x \in s : Sum(s) # f[x] + Sum(s \ {x})}
<1>1. \A s \in SUBSET S : IsFiniteSet(s) /\ Sum(s) \in Nat
  <2>1. ASSUME NEW s \in SUBSET S PROVE IsFiniteSet(s) /\ \A x \in s : f[x] \in Nat
    BY FS_Subset
  <2>2. QED
    BY <2>1, SumNat
<1>2. ASSUME NEW s \in Bad, \A u \in Bad : u \subseteq s => u = s PROVE FALSE
  <2>1. PICK x \in s : Sum(s) # f[x] + Sum(s \ {x})
    OBVIOUS
  <2>2. PICK y \in s : Sum(s) = f[y] + Sum(s \ {y})
    <3>1. s # {} /\ IsFiniteSet(s)
      BY <1>1, <2>1
    <3>2. QED
      BY <3>1, SumPick, Picked
  <2> DEFINE r == s \ {x, y}
  <2>3. x # y
    BY <2>1, <2>2
  <2>4. s \ {x} \in SUBSET S /\ s \ {y} \in SUBSET S /\ r \in SUBSET S
    OBVIOUS
  <2>5. s \ {x} \notin Bad /\ s \ {y} \notin Bad
    BY <1>2, <2>1, <2>2
  <2>6. (s \ {x}) \ {y} = r /\ (s \ {y}) \ {x} = r /\ y \in s \ {x} /\ x \in s \ {y}
    BY <2>3
  <2>7. Sum(s \ {x}) = f[y] + Sum(r) /\ Sum(s \ {y}) = f[x] + Sum(r)
    BY <2>4, <2>5, <2>6
  <2>8. f[x] \in Nat /\ f[y] \in Nat /\ Sum(r) \in Nat
    BY <1>1, <2>4
  <2> HIDE DEF r, Sum
  <2>9. QED
    BY <2>1, <2>2, <2>7, <2>8
<1>3. Bad \in SUBSET SUBSET S
  OBVIOUS
<1>4. Bad = {}
  <2> HIDE DEF Bad
  <2>1. QED
    BY <1>2, <1>3, SmallestSubset
<1>5. QED
  BY <1>4

\* The sum over two disjoint sets.
LEMMA SumUnion ==
    ASSUME NEW A, NEW B, IsFiniteSet(A), IsFiniteSet(B), A \cap B = {},
           NEW f, \A x \in A \cup B : f[x] \in Nat
    PROVE  SumFunctionOnSet(f, A \cup B) = SumFunctionOnSet(f, A) + SumFunctionOnSet(f, B)
<1> DEFINE Sum(s) == SumFunctionOnSet(f, s)
           Bad == {s \in SUBSET A : Sum(s \cup B) # Sum(s) + Sum(B)}
<1>1. ASSUME NEW s \in SUBSET A
      PROVE  /\ IsFiniteSet(s) /\ IsFiniteSet(s \cup B)
             /\ Sum(s) \in Nat /\ Sum(s \cup B) \in Nat
  <2>1. IsFiniteSet(s) /\ IsFiniteSet(s \cup B)
    BY FS_Subset, FS_Union
  <2>2. (\A x \in s : f[x] \in Nat) /\ \A x \in s \cup B : f[x] \in Nat
    OBVIOUS
  <2>3. QED
    BY <2>1, <2>2, SumNat
<1>2. Sum(B) \in Nat
  BY SumNat
<1>3. ASSUME NEW s \in Bad, \A u \in Bad : u \subseteq s => u = s PROVE FALSE
  <2>1. s # {}
    <3>1. {} \cup B = B /\ Sum({}) = 0 /\ Sum(B) = 0 + Sum(B)
      BY <1>2, SumEmpty
    <3>2. QED
      BY <3>1
  <2>2. PICK x \in s : TRUE
    BY <2>1
  <2> DEFINE r == s \ {x}
  <2>3. r \in SUBSET A /\ r # s /\ r \cup B = (s \cup B) \ {x} /\ x \in s \cup B
    BY <2>2
  <2>4. Sum(r \cup B) = Sum(r) + Sum(B)
    BY <1>3, <2>3
  <2>5. Sum(s) = f[x] + Sum(r)
    <3>1. IsFiniteSet(s) /\ \A z \in s : f[z] \in Nat
      BY <1>1
    <3>2. QED
      BY <2>2, <3>1, SumRemove
  <2>6. Sum(s \cup B) = f[x] + Sum(r \cup B)
    <3>1. IsFiniteSet(s \cup B) /\ \A z \in s \cup B : f[z] \in Nat
      BY <1>1
    <3>2. Sum(s \cup B) = f[x] + Sum((s \cup B) \ {x})
      BY <2>3, <3>1, SumRemove
    <3>3. QED
      BY <2>3, <3>2
  <2>7. f[x] \in Nat /\ Sum(r) \in Nat
    BY <1>1, <2>2, <2>3
  <2>8. Sum(s \cup B) # Sum(s) + Sum(B)
    OBVIOUS
  <2> HIDE DEF r, Sum
  <2>9. QED
    BY <1>2, <2>4, <2>5, <2>6, <2>7, <2>8
<1>4. Bad \in SUBSET SUBSET A
  OBVIOUS
<1>5. Bad = {}
  <2> HIDE DEF Bad
  <2>1. QED
    BY <1>3, <1>4, SmallestSubset
<1>6. QED
  BY <1>5

\* A sum of numbers is zero only when each of them is.
LEMMA SumZero ==
    ASSUME NEW S, IsFiniteSet(S), NEW f, \A x \in S : f[x] \in Nat, SumFunctionOnSet(f, S) = 0
    PROVE  \A x \in S : f[x] = 0
<1>1. ASSUME NEW x \in S PROVE f[x] = 0
  <2>1. SumFunctionOnSet(f, S) = f[x] + SumFunctionOnSet(f, S \ {x})
    BY SumRemove
  <2>2. IsFiniteSet(S \ {x}) /\ \A z \in S \ {x} : f[z] \in Nat
    BY FS_Subset
  <2>3. SumFunctionOnSet(f, S \ {x}) \in Nat /\ f[x] \in Nat
    BY <2>2, SumNat
  <2>4. QED
    BY <2>1, <2>3
<1>2. QED
  BY <1>1

-----------------------------------------------------------------------------
(* One more packet, one packet less; one more count.                       *)

LEMMA BagAdd ==
    ASSUME NEW B, IsABag(B), NEW p, NEW C, C = B (+) SetToBag({p})
    PROVE  /\ IsABag(C) /\ BagToSet(C) = BagToSet(B) \cup {p}
           /\ \A q \in BagToSet(B) : q # p => C[q] = B[q]
           /\ C[p] = IF p \in BagToSet(B) THEN B[p] + 1 ELSE 1
<1> DEFINE D == DOMAIN B \cup {p}
           P == SetToBag({p})
<1>1. DOMAIN P = {p} /\ P[p] = 1
  BY DEF SetToBag
<1>2. \A q \in DOMAIN B : B[q] \in Nat /\ B[q] > 0
  BY DEF IsABag
<1>3. C = [q \in D |-> (IF q \in DOMAIN B THEN B[q] ELSE 0) + (IF q \in {p} THEN P[q] ELSE 0)]
  BY <1>1 DEF (+)
<1> HIDE DEF P, D
<1>4. /\ DOMAIN C = D
      /\ \A q \in D : C[q] = (IF q \in DOMAIN B THEN B[q] ELSE 0) + (IF q \in {p} THEN P[q] ELSE 0)
      /\ C = [q \in DOMAIN C |-> C[q]]
  BY <1>3
<1>5. \A q \in DOMAIN C : C[q] \in Nat /\ C[q] > 0
  <2>1. ASSUME NEW q \in DOMAIN C PROVE C[q] \in Nat /\ C[q] > 0
    <3>1. q \in D /\ C[q] = (IF q \in DOMAIN B THEN B[q] ELSE 0) + (IF q \in {p} THEN P[q] ELSE 0)
      BY <1>4
    <3>2. CASE q = p
      BY <1>1, <1>2, <3>1, <3>2
    <3>3. CASE q # p
      <4>1. q \in DOMAIN B /\ C[q] = B[q] + 0
        BY <3>1, <3>3 DEF D
      <4>2. QED
        BY <1>2, <4>1
    <3>4. QED
      BY <3>2, <3>3
  <2>2. QED
    BY <2>1
<1>6. IsABag(C)
  BY <1>4, <1>5 DEF IsABag
<1>7. \A q \in DOMAIN B : q # p => C[q] = B[q]
  BY <1>2, <1>4 DEF D
<1>8. C[p] = IF p \in DOMAIN B THEN B[p] + 1 ELSE 1
  BY <1>1, <1>2, <1>4 DEF D
<1>9. QED
  BY <1>4, <1>6, <1>7, <1>8 DEF BagToSet, D

LEMMA BagRemove ==
    ASSUME NEW B, IsABag(B), NEW p \in BagToSet(B), NEW C, C = B (-) SetToBag({p})
    PROVE  /\ IsABag(C) /\ BagToSet(C) = IF B[p] = 1 THEN BagToSet(B) \ {p} ELSE BagToSet(B)
           /\ B[p] # 1 => C[p] = B[p] - 1
           /\ B[p] \in Nat /\ B[p] > 0
<1> DEFINE P == SetToBag({p})
           L == [q \in DOMAIN B |-> IF q \in {p} THEN B[q] - P[q] ELSE B[q]]
           D == {q \in DOMAIN L : L[q] > 0}
<1>1. DOMAIN P = {p} /\ P[p] = 1
  BY DEF SetToBag
<1>2. p \in DOMAIN B /\ \A q \in DOMAIN B : B[q] \in Nat /\ B[q] > 0
  BY DEF IsABag, BagToSet
<1>3. C = [q \in D |-> L[q]]
  BY <1>1 DEF (-)
<1>4. DOMAIN L = DOMAIN B /\ L[p] = B[p] - 1 /\ \A q \in DOMAIN B : q # p => L[q] = B[q]
  BY <1>1, <1>2
<1> HIDE DEF L
<1>5. DOMAIN C = D /\ (\A q \in D : C[q] = L[q]) /\ C = [q \in DOMAIN C |-> C[q]]
  BY <1>3
<1>6. \A q \in DOMAIN C : C[q] \in Nat /\ C[q] > 0
  <2>1. ASSUME NEW q \in DOMAIN C PROVE C[q] \in Nat /\ C[q] > 0
    <3>1. q \in DOMAIN B /\ C[q] = L[q] /\ L[q] > 0
      BY <1>4, <1>5
    <3>2. L[q] \in Int
      BY <1>2, <1>4, <3>1
    <3>3. QED
      BY <3>1, <3>2
  <2>2. QED
    BY <2>1
<1>7. IsABag(C)
  BY <1>5, <1>6 DEF IsABag
<1>8. D = IF B[p] = 1 THEN DOMAIN B \ {p} ELSE DOMAIN B
  <2>1. \A q \in DOMAIN B : q # p => L[q] > 0
    BY <1>2, <1>4
  <2>2. CASE B[p] = 1
    BY <1>4, <2>1, <2>2
  <2>3. CASE B[p] # 1
    <3>1. L[p] > 0
      BY <1>2, <1>4, <2>3
    <3>2. QED
      BY <1>4, <2>1, <2>3, <3>1
  <2>4. QED
    BY <2>2, <2>3
<1>9. B[p] # 1 => C[p] = B[p] - 1
  BY <1>2, <1>4, <1>5, <1>8
<1>10. QED
  BY <1>2, <1>5, <1>7, <1>8, <1>9 DEF BagToSet

LEMMA BagRemoveOthers ==
    ASSUME NEW B, IsABag(B), NEW p \in BagToSet(B), NEW q \in BagToSet(B), q # p,
           NEW C, C = B (-) SetToBag({p})
    PROVE  C[q] = B[q]
<1> DEFINE P == SetToBag({p})
           L == [r \in DOMAIN B |-> IF r \in {p} THEN B[r] - P[r] ELSE B[r]]
           D == {r \in DOMAIN L : L[r] > 0}
<1>1. DOMAIN P = {p} /\ P[p] = 1
  BY DEF SetToBag
<1>2. q \in DOMAIN B /\ B[q] \in Nat /\ B[q] > 0
  BY DEF IsABag, BagToSet
<1>3. C = [r \in D |-> L[r]]
  BY <1>1 DEF (-)
<1>4. DOMAIN L = DOMAIN B /\ L[q] = B[q]
  BY <1>2
<1> HIDE DEF L
<1>5. q \in D /\ C[q] = L[q]
  BY <1>2, <1>3, <1>4
<1>6. QED
  BY <1>4, <1>5

Table == [handle : Nat, member : BOOLEAN, cnt : [Colours -> Count]]

\* A packet is counted once, in one colour and one band.
LEMMA CountedInTable ==
    ASSUME NEW t \in [Ends -> Table], NEW e \in Ends, NEW c \in Colours, NEW band \in Bands,
           NEW u, u = [t EXCEPT ![e].cnt[c][band] = @ + 1]
    PROVE  /\ u \in [Ends -> Table] /\ \A f \in Ends : f # e => u[f] = t[f]
           /\ u[e].handle = t[e].handle /\ u[e].member = t[e].member
           /\ \A d \in Colours, b \in Bands :
                 u[e].cnt[d][b] = IF d = c /\ b = band THEN t[e].cnt[d][b] + 1 ELSE t[e].cnt[d][b]
<1> DEFINE n == t[e].cnt[c][band] + 1
           w == [t[e].cnt[c] EXCEPT ![band] = n]
           x == [t[e].cnt EXCEPT ![c] = w]
           y == [t[e] EXCEPT !.cnt = x]
<1>1. t[e] \in Table /\ t[e].cnt \in [Colours -> Count] /\ t[e].cnt[c] \in Count
  BY DEF Table
<1>2. n \in Nat
  BY <1>1 DEF Count
<1>3. u = [t EXCEPT ![e] = y]
  OBVIOUS
<1>w. w \in Count /\ \A b \in Bands : w[b] = IF b = band THEN n ELSE t[e].cnt[c][b]
  <2> HIDE DEF n
  <2>1. QED
    BY <1>1, <1>2 DEF Count
<1>x. x \in [Colours -> Count] /\ \A d \in Colours : x[d] = IF d = c THEN w ELSE t[e].cnt[d]
  <2> HIDE DEF w
  <2>1. QED
    BY <1>1, <1>w
<1>y. y \in Table /\ y.cnt = x /\ y.handle = t[e].handle /\ y.member = t[e].member
  <2> HIDE DEF x
  <2>1. QED
    BY <1>1, <1>x DEF Table
<1> HIDE DEF y
<1>4. u \in [Ends -> Table] /\ u[e] = y /\ \A f \in Ends : f # e => u[f] = t[f]
  BY <1>3, <1>y
<1> HIDE DEF w, x
<1>5. \A d \in Colours, b \in Bands :
         u[e].cnt[d][b] = IF d = c /\ b = band THEN t[e].cnt[d][b] + 1 ELSE t[e].cnt[d][b]
  <2>1. u[e].cnt = x
    BY <1>4, <1>y
  <2>2. ASSUME NEW d \in Colours, NEW b \in Bands
        PROVE  x[d][b] = IF d = c /\ b = band THEN n ELSE t[e].cnt[d][b]
    BY <1>w, <1>x
  <2>3. ASSUME NEW d \in Colours, NEW b \in Bands, d = c /\ b = band
        PROVE  n = t[e].cnt[d][b] + 1
    BY <2>3
  <2> HIDE DEF n
  <2>4. QED
    BY <2>1, <2>2, <2>3
<1>6. QED
  BY <1>4, <1>5, <1>y

\* A packet is remembered once in what was sent, or what arrived.
LEMMA CountedInBlock ==
    ASSUME NEW s \in [Blocks -> Count], NEW m \in Blocks, NEW band \in Bands,
           NEW u, u = [s EXCEPT ![m][band] = @ + 1]
    PROVE  /\ u \in [Blocks -> Count] /\ \A n \in Blocks : n # m => u[n] = s[n]
           /\ \A b \in Bands : u[m][b] = IF b = band THEN s[m][b] + 1 ELSE s[m][b]
<1> DEFINE n == s[m][band] + 1
           w == [s[m] EXCEPT ![band] = n]
<1>1. s[m] \in Count /\ n \in Nat
  BY DEF Count
<1>2. w \in Count /\ \A b \in Bands : w[b] = IF b = band THEN n ELSE s[m][b]
  <2> HIDE DEF n
  <2>1. QED
    BY <1>1 DEF Count
<1>3. u = [s EXCEPT ![m] = w]
  OBVIOUS
<1> HIDE DEF w
<1>4. QED
  BY <1>2, <1>3

-----------------------------------------------------------------------------
(* The steps on the wire, and the clock.                                   *)

wire == <<now, table, mapped, loop, last, net, packets, sent, arrived, flipped, readOn, rebuilt>>

LEMMA WireSteps ==
    ASSUME [Next]_vars
    PROVE  \/ /\ UNCHANGED ctl
              /\ \/ \E band \in Bands : SendPacket(band)
                 \/ ArrivePacket
                 \/ \E e \in Ends : Reload(e) \/ Flip(e) \/ Read(e) \/ ReadFails(e)
                 \/ Tick
           \/ UNCHANGED wire
<1>1. ASSUME NEW e \in Ends, GateBegin(e) \/ GateEnd(e) PROVE UNCHANGED wire
  BY <1>1 DEF GateBegin, GateEnd, wire, kernel, history, counters
<1>2. ASSUME NEW e \in Ends, AlwaysReply(e) \/ LateReply(e) PROVE UNCHANGED wire
  BY <1>2 DEF AlwaysReply, LateReply, wire, kernel, history, markVars, agents, counters
<1>3. ASSUME ClassifyPass \/ UNCHANGED vars PROVE UNCHANGED wire
  BY <1>3 DEF ClassifyPass, vars, wire, kernel, history, markVars, agents, counters
<1>4. QED
  BY <1>1, <1>2, <1>3 DEF Next, MarkNext

\* No agent is ahead of the clock, which stops once the last block is read.
ClockInv ==
    /\ now <= 2 * LastBlock + 3
    /\ \A e \in Ends : /\ now >= 2 * loop[e].n
                       /\ loop[e].pc = "half" => now >= 2 * (loop[e].n + 1)

LEMMA ClockStep ==
    ASSUME LoopTimes, ClockInv, [Next]_vars
    PROVE  ClockInv'
<1>T. /\ now \in Nat /\ loop \in [Ends -> [pc : {"sleep", "half"}, n : Nat, due : Nat]]
      /\ \A e \in Ends : loop[e].n \in Nat /\ loop[e].due \in Nat /\ loop[e].pc \in {"sleep", "half"}
      /\ LastBlock \in Nat
  BY MarkingAssumption DEF LoopTimes
<1>1. CASE UNCHANGED <<now, loop>>
  BY <1>1 DEF ClockInv
<1>2. CASE Tick
  <2>1. now' = now + 1 /\ now < 2 * LastBlock + 3 /\ loop' = loop
    BY <1>2 DEF Tick, agents
  <2>2. QED
    BY <1>T, <2>1 DEF ClockInv
<1>3. ASSUME NEW e \in Ends, Flip(e) PROVE ClockInv'
  <2>1. /\ now' = now /\ loop[e].pc = "sleep" /\ loop[e].due <= now
        /\ loop' = [loop EXCEPT ![e].pc = "half", ![e].due = now + 1]
    BY <1>3 DEF Flip
  <2>2. /\ loop'[e].pc = "half" /\ loop'[e].n = loop[e].n
        /\ \A f \in Ends : f # e => loop'[f] = loop[f]
    BY <1>T, <2>1
  <2>3. now >= 2 * (loop[e].n + 1)
    BY <1>T, <2>1 DEF LoopTimes
  <2>4. QED
    BY <1>T, <2>1, <2>2, <2>3 DEF ClockInv
<1>4. ASSUME NEW e \in Ends, Read(e) \/ ReadFails(e) PROVE ClockInv'
  <2> DEFINE n == now \div 2
  <2>1. now' = now /\ loop' = [loop EXCEPT ![e] = [pc |-> "sleep", n |-> n, due |-> 2 * (n + 1)]]
    BY <1>4 DEF Read, ReadFails, Sleep
  <2>2. now >= 2 * n
    BY <1>T
  <2> HIDE DEF n
  <2>3. /\ loop'[e].pc = "sleep" /\ loop'[e].n = n
        /\ \A f \in Ends : f # e => loop'[f] = loop[f]
    BY <1>T, <2>1
  <2>4. QED
    BY <1>T, <2>1, <2>2, <2>3 DEF ClockInv
<1>5. ASSUME NEW e \in Ends, Reload(e) PROVE UNCHANGED <<now, loop>>
  BY <1>5 DEF Reload, agents
<1>6. ASSUME (\E band \in Bands : SendPacket(band)) \/ ArrivePacket PROVE UNCHANGED <<now, loop>>
  BY <1>6 DEF SendPacket, ArrivePacket, agents
<1>7. UNCHANGED wire => UNCHANGED <<now, loop>>
  BY DEF wire
<1>8. QED
  BY <1>1, <1>2, <1>3, <1>4, <1>5, <1>6, <1>7, WireSteps

LEMMA ClockStart == Init => ClockInv
<1> SUFFICES ASSUME Init PROVE ClockInv
  OBVIOUS
<1>1. now = 0 /\ loop = [e \in Ends |-> [pc |-> "sleep", n |-> 0, due |-> 2]] /\ LastBlock \in Nat
  BY MarkingAssumption DEF Init, MarkInit
<1>2. \A e \in Ends : loop[e].pc = "sleep" /\ loop[e].n = 0
  BY <1>1
<1>3. QED
  BY <1>1, <1>2 DEF ClockInv

-----------------------------------------------------------------------------
(* The kernel, the packets and the baselines keep their types.             *)

WireType ==
    /\ table \in [Ends -> Table] /\ mapped \in Blocks \cup {Unmapped}
    /\ last \in [Ends -> [Colours -> Reading \cup {NoBaseline}]]
    /\ IsABag(net) /\ BagToSet(net) \subseteq Packet /\ packets \in 0..MaxPackets
    /\ sent \in [Blocks -> Count] /\ arrived \in [Blocks -> Count]
    /\ flipped \subseteq Blocks /\ readOn \subseteq Blocks /\ rebuilt \subseteq 0..now

TableCounts(t, u, e, c, band) ==
    /\ u \in [Ends -> Table] /\ \A f \in Ends : f # e => u[f] = t[f]
    /\ u[e].handle = t[e].handle /\ u[e].member = t[e].member
    /\ \A d \in Colours, b \in Bands :
          u[e].cnt[d][b] = IF d = c /\ b = band THEN t[e].cnt[d][b] + 1 ELSE t[e].cnt[d][b]

BlockCounts(s, u, m, band) ==
    /\ u \in [Blocks -> Count] /\ \A n \in Blocks : n # m => u[n] = s[n]
    /\ \A b \in Bands : u[m][b] = IF b = band THEN s[m][b] + 1 ELSE s[m][b]

LEMMA BlockNumbers ==
    /\ Blocks \subseteq Nat /\ Unmapped \notin Blocks /\ Unmapped \in Int /\ LastBlock \in Nat
    /\ \A n \in Nat : n <= LastBlock + 1 => n \in Blocks
    /\ \A n : ColourOf(n) \in Colours
BY MarkingAssumption DEF Blocks, Unmapped, ColourOf, Colours

LEMMA SendEffects ==
    ASSUME WireType, LoopTimes, NEW band \in Bands, SendPacket(band)
    PROVE  /\ UNCHANGED <<now, mapped, loop, last, queue, arrived, flipped, readOn, rebuilt>>
           /\ \E p \in Packet :
                 /\ p.n = mapped /\ p.bit = Bit /\ p.band = band
                 /\ p.by = IF loop["sender"].due <= now THEN now + 1 ELSE now + 2
                 /\ net' = net \/ net' = net (+) SetToBag({p})
           /\ mapped = Unmapped => table' = table /\ sent' = sent
           /\ mapped # Unmapped => /\ TableCounts(table, table', "sender", ColourOf(mapped), band)
                                   /\ BlockCounts(sent, sent', mapped, band)
           /\ packets' \in 0..MaxPackets
<1> DEFINE p == [bit |-> Bit, n |-> mapped, band |-> band,
                 by |-> IF loop["sender"].due <= now THEN now + 1 ELSE now + 2]
<1>1. UNCHANGED <<now, mapped, loop, last, queue, arrived, flipped, readOn, rebuilt>>
  BY DEF SendPacket, agents
<1>2. net' = net \/ net' = net (+) SetToBag({p})
  BY DEF SendPacket
<1>3. p \in Packet
  <2>1. Bit \in Colours
    BY BlockNumbers DEF Bit, Colours
  <2>2. now \in Nat /\ mapped \in Blocks \cup {Unmapped}
    BY DEF WireType, LoopTimes
  <2>3. QED
    BY <2>1, <2>2 DEF Packet
<1>4. /\ p.n = mapped /\ p.bit = Bit /\ p.band = band
      /\ p.by = IF loop["sender"].due <= now THEN now + 1 ELSE now + 2
  OBVIOUS
<1> HIDE DEF p
<1>5. mapped = Unmapped => table' = table /\ sent' = sent
  BY DEF SendPacket
<1>6. ASSUME mapped # Unmapped
      PROVE  /\ TableCounts(table, table', "sender", ColourOf(mapped), band)
             /\ BlockCounts(sent, sent', mapped, band)
  <2>1. /\ table' = [table EXCEPT !["sender"].cnt[ColourOf(mapped)][band] = @ + 1]
        /\ sent' = [sent EXCEPT ![mapped][band] = @ + 1]
    BY <1>6 DEF SendPacket
  <2>2. /\ "sender" \in Ends /\ ColourOf(mapped) \in Colours /\ mapped \in Blocks
        /\ table \in [Ends -> Table] /\ sent \in [Blocks -> Count]
    BY <1>6, BlockNumbers DEF WireType, Ends
  <2>3. TableCounts(table, table', "sender", ColourOf(mapped), band)
    <3>1. \A t \in [Ends -> Table], e \in Ends, c \in Colours, bd \in Bands : \A u :
             u = [t EXCEPT ![e].cnt[c][bd] = @ + 1] => TableCounts(t, u, e, c, bd)
      BY CountedInTable, Zenon DEF TableCounts
    <3>2. QED
      BY <2>1, <2>2, <3>1, Zenon
  <2>4. BlockCounts(sent, sent', mapped, band)
    <3>1. \A s \in [Blocks -> Count], m \in Blocks, bd \in Bands : \A u :
             u = [s EXCEPT ![m][bd] = @ + 1] => BlockCounts(s, u, m, bd)
      BY CountedInBlock, Zenon DEF BlockCounts
    <3>2. QED
      BY <2>1, <2>2, <3>1, Zenon
  <2>5. QED
    BY <2>3, <2>4
<1>7. packets' \in 0..MaxPackets
  BY MarkingAssumption DEF SendPacket, WireType
<1>8. QED
  BY <1>1, <1>2, <1>3, <1>4, <1>5, <1>6, <1>7

LEMMA ArriveEffects ==
    ASSUME WireType, ArrivePacket
    PROVE  /\ UNCHANGED <<now, mapped, loop, last, queue, packets, sent, flipped, readOn, rebuilt>>
           /\ \E p \in BagToSet(net) :
                 /\ p \in Packet /\ net' = net (-) SetToBag({p})
                 /\ IF table["receiver"].member
                    THEN TableCounts(table, table', "receiver", p.bit, p.band)
                    ELSE table' = table
                 /\ IF p.n = Unmapped THEN arrived' = arrived
                                      ELSE BlockCounts(arrived, arrived', p.n, p.band)
<1>1. UNCHANGED <<now, mapped, loop, last, queue, packets, sent, flipped, readOn, rebuilt>>
  BY DEF ArrivePacket, agents, counters
<1>2. PICK p \in BagToSet(net) :
         /\ net' = net (-) SetToBag({p})
         /\ table' = IF table["receiver"].member
                     THEN [table EXCEPT !["receiver"].cnt[p.bit][p.band] = @ + 1] ELSE table
         /\ arrived' = IF p.n = Unmapped THEN arrived ELSE [arrived EXCEPT ![p.n][p.band] = @ + 1]
  BY DEF ArrivePacket
<1>3. p \in Packet /\ table \in [Ends -> Table] /\ arrived \in [Blocks -> Count] /\ "receiver" \in Ends
  BY DEF WireType, Ends
<1>4. p.bit \in Colours /\ p.band \in Bands /\ (p.n # Unmapped => p.n \in Blocks)
  BY <1>3 DEF Packet
<1>5. ASSUME table["receiver"].member PROVE TableCounts(table, table', "receiver", p.bit, p.band)
  <2>1. table' = [table EXCEPT !["receiver"].cnt[p.bit][p.band] = @ + 1]
    BY <1>2, <1>5
  <2>2. \A t \in [Ends -> Table], e \in Ends, c \in Colours, band \in Bands : \A u :
           u = [t EXCEPT ![e].cnt[c][band] = @ + 1] => TableCounts(t, u, e, c, band)
    BY CountedInTable, Zenon DEF TableCounts
  <2>3. QED
    BY <1>3, <1>4, <2>1, <2>2, Zenon
<1>6. ASSUME p.n # Unmapped PROVE BlockCounts(arrived, arrived', p.n, p.band)
  <2>1. arrived' = [arrived EXCEPT ![p.n][p.band] = @ + 1]
    BY <1>2, <1>6
  <2>2. \A s \in [Blocks -> Count], m \in Blocks, band \in Bands : \A u :
           u = [s EXCEPT ![m][band] = @ + 1] => BlockCounts(s, u, m, band)
    BY CountedInBlock, Zenon DEF BlockCounts
  <2>3. QED
    BY <1>3, <1>4, <1>6, <2>1, <2>2, Zenon
<1>7. (~table["receiver"].member => table' = table) /\ (p.n = Unmapped => arrived' = arrived)
  BY <1>2
<1>8. QED
  BY <1>1, <1>2, <1>3, <1>5, <1>6, <1>7

LEMMA ReloadEffects ==
    ASSUME WireType, NEW e \in Ends, Reload(e)
    PROVE  /\ UNCHANGED <<now, loop, last, queue, net, packets, sent, arrived, flipped, readOn>>
           /\ table' \in [Ends -> Table] /\ \A f \in Ends : f # e => table'[f] = table[f]
           /\ table'[e].handle = table[e].handle + 1 /\ ~table'[e].member
           /\ IF e = "sender" THEN mapped' = Unmapped /\ rebuilt' = rebuilt \cup {now}
                              ELSE mapped' = mapped /\ rebuilt' = rebuilt
<1> DEFINE t == FreshTable(table[e].handle + 1)
<1>1. UNCHANGED <<now, loop, last, queue, net, packets, sent, arrived, flipped, readOn>>
  BY DEF Reload, agents
<1>2. table \in [Ends -> Table] /\ table[e].handle \in Nat
  BY DEF WireType, Table
<1>3. t \in Table /\ t.handle = table[e].handle + 1 /\ ~t.member
  BY <1>2 DEF FreshTable, Table, ZeroCount, Count
<1>4. table' = [table EXCEPT ![e] = t]
  BY DEF Reload
<1> HIDE DEF t
<1>5. /\ table' \in [Ends -> Table] /\ table'[e] = t /\ \A f \in Ends : f # e => table'[f] = table[f]
  BY <1>2, <1>3, <1>4
<1>6. IF e = "sender" THEN mapped' = Unmapped /\ rebuilt' = rebuilt \cup {now}
                      ELSE mapped' = mapped /\ rebuilt' = rebuilt
  BY DEF Reload
<1>7. QED
  BY <1>1, <1>3, <1>5, <1>6

\* A flip that applies, or fails.
LEMMA FlipEffects ==
    ASSUME WireType, LoopTimes, ClockInv, NEW e \in Ends, Flip(e)
    PROVE  /\ UNCHANGED <<now, last, queue, net, packets, sent, arrived, readOn, rebuilt>>
           /\ loop[e].pc = "sleep" /\ loop[e].due <= now /\ loop[e].n + 1 \in Blocks
           /\ loop'[e].pc = "half" /\ loop'[e].n = loop[e].n /\ loop'[e].due = now + 1
           /\ \A f \in Ends : f # e => loop'[f] = loop[f]
           /\ \/ /\ table' \in [Ends -> Table] /\ \A f \in Ends : f # e => table'[f] = table[f]
                 /\ table'[e].handle = table[e].handle /\ table'[e].member /\ table'[e].cnt = table[e].cnt
                 /\ IF e = "sender"
                    THEN /\ mapped' = loop[e].n + 1
                         /\ flipped' = IF now = 2 * (loop[e].n + 1) THEN flipped \cup {loop[e].n + 1}
                                                                    ELSE flipped
                    ELSE mapped' = mapped /\ flipped' = flipped
              \/ table' = table /\ mapped' = mapped /\ flipped' = flipped
<1>1. UNCHANGED <<now, last, queue, net, packets, sent, arrived, readOn, rebuilt>>
  BY DEF Flip
<1>2. /\ loop \in [Ends -> [pc : {"sleep", "half"}, n : Nat, due : Nat]] /\ now \in Nat
      /\ loop[e].n \in Nat /\ loop[e].due \in Nat
  BY DEF LoopTimes
<1>3. /\ loop[e].pc = "sleep" /\ loop[e].due <= now
      /\ loop' = [loop EXCEPT ![e].pc = "half", ![e].due = now + 1]
      /\ FlipApplies(e) \/ FlipFails(e)
  BY DEF Flip
<1>4. /\ loop'[e].pc = "half" /\ loop'[e].n = loop[e].n /\ loop'[e].due = now + 1
      /\ \A f \in Ends : f # e => loop'[f] = loop[f]
  BY <1>2, <1>3
<1>5. loop[e].n + 1 \in Blocks
  <2>1. loop[e].due >= 2 * (loop[e].n + 1) /\ now <= 2 * LastBlock + 3
    BY <1>3 DEF LoopTimes, ClockInv
  <2>2. loop[e].n + 1 <= LastBlock + 1
    BY <1>2, <1>3, <2>1, BlockNumbers
  <2>3. QED
    BY <1>2, <2>2, BlockNumbers
<1>6. CASE FlipFails(e)
  BY <1>1, <1>3, <1>4, <1>5, <1>6 DEF FlipFails
<1>7. CASE FlipApplies(e)
  <2>1. table' = [table EXCEPT ![e].member = TRUE] /\ table \in [Ends -> Table]
    BY <1>7 DEF FlipApplies, WireType
  <2>2. /\ table' \in [Ends -> Table] /\ \A f \in Ends : f # e => table'[f] = table[f]
        /\ table'[e].handle = table[e].handle /\ table'[e].member /\ table'[e].cnt = table[e].cnt
    BY <2>1 DEF Table
  <2>3. IF e = "sender"
        THEN /\ mapped' = loop[e].n + 1
             /\ flipped' = IF now = 2 * (loop[e].n + 1) THEN flipped \cup {loop[e].n + 1} ELSE flipped
        ELSE mapped' = mapped /\ flipped' = flipped
    BY <1>7 DEF FlipApplies
  <2>4. QED
    BY <1>1, <1>3, <1>4, <1>5, <2>2, <2>3
<1>8. QED
  BY <1>3, <1>6, <1>7

\* A read, or one that fails: the loop goes on with the block of the clock.
LEMMA ReadTurns ==
    ASSUME WireType, LoopTimes, ClockInv, NEW e \in Ends, Read(e) \/ ReadFails(e)
    PROVE  /\ UNCHANGED <<now, table, mapped, net, packets, sent, arrived, flipped, rebuilt>>
           /\ loop[e].pc = "half" /\ loop[e].n \in Blocks /\ now >= 2 * loop[e].n + 3
           /\ loop'[e].pc = "sleep" /\ loop'[e].n = now \div 2 /\ loop'[e].n > loop[e].n
           /\ loop'[e].due > now
           /\ \A f \in Ends : f # e => loop'[f] = loop[f]
<1> DEFINE n == now \div 2
<1>1. UNCHANGED <<now, table, mapped, net, packets, sent, arrived, flipped, rebuilt>>
  BY DEF Read, ReadFails, kernel, counters, history
<1>2. /\ loop \in [Ends -> [pc : {"sleep", "half"}, n : Nat, due : Nat]] /\ now \in Nat
      /\ loop[e].n \in Nat /\ loop[e].due \in Nat
  BY DEF LoopTimes
<1>3. /\ loop[e].pc = "half" /\ loop[e].due <= now
      /\ loop' = [loop EXCEPT ![e] = [pc |-> "sleep", n |-> n, due |-> 2 * (n + 1)]]
  BY DEF Read, ReadFails, Sleep
<1>4. now >= 2 * loop[e].n + 3 /\ now <= 2 * LastBlock + 3
  BY <1>2, <1>3 DEF LoopTimes, ClockInv
<1>5. n > loop[e].n /\ 2 * (n + 1) > now
  BY <1>2, <1>4
<1>6. loop[e].n \in Blocks
  <2>1. loop[e].n <= LastBlock + 1
    BY <1>2, <1>4, BlockNumbers
  <2>2. QED
    BY <1>2, <2>1, BlockNumbers
<1> HIDE DEF n
<1>7. /\ loop'[e].pc = "sleep" /\ loop'[e].n = n /\ loop'[e].due = 2 * (n + 1)
      /\ \A f \in Ends : f # e => loop'[f] = loop[f]
  BY <1>2, <1>3
<1>8. QED
  BY <1>1, <1>3, <1>4, <1>5, <1>6, <1>7 DEF n

\* What a read leaves: the block's colour has a new baseline.
LEMMA ReadEffects ==
    ASSUME WireType, LoopTimes, ClockInv, NEW e \in Ends, Read(e), NEW n, n = loop[e].n
    PROVE  /\ last' \in [Ends -> [Colours -> Reading \cup {NoBaseline}]]
           /\ \A f \in Ends : f # e => last'[f] = last[f]
           /\ \A d \in Colours : d # ColourOf(n) => last'[e][d] = last[e][d]
           /\ last'[e][ColourOf(n)] = [n |-> n, handle |-> table[e].handle,
                                       member |-> table[e].member, cnt |-> table[e].cnt[ColourOf(n)]]
           /\ last'[e][ColourOf(n)] \in Reading
           /\ readOn' = IF e = "receiver" /\ now = 2 * n + 3 THEN readOn \cup {n} ELSE readOn
           /\ queue' = IF HadBaseline(e, n)
                       THEN [queue EXCEPT ![e] =
                               Push(@, FinishedBlock(e, n, Overlapped(e, 2 * n, 2 * (n + 1))))]
                       ELSE queue
<1> DEFINE c == ColourOf(n)
           r == [n |-> n, handle |-> table[e].handle, member |-> table[e].member, cnt |-> table[e].cnt[c]]
<1>1. /\ last \in [Ends -> [Colours -> Reading \cup {NoBaseline}]] /\ table[e] \in Table
      /\ c \in Colours /\ n \in Nat
  BY BlockNumbers DEF WireType, LoopTimes
<1>2. r \in Reading
  BY <1>1 DEF Reading, Table
<1>3. last' = [last EXCEPT ![e][c] = r]
  BY DEF Read
<1> HIDE DEF r
<1>4. /\ last' \in [Ends -> [Colours -> Reading \cup {NoBaseline}]]
      /\ \A f \in Ends : f # e => last'[f] = last[f]
      /\ last'[e][c] = r
      /\ \A d \in Colours : d # c => last'[e][d] = last[e][d]
  <2> HIDE DEF c
  <2> DEFINE l == [last[e] EXCEPT ![c] = r]
  <2>1. /\ l \in [Colours -> Reading \cup {NoBaseline}] /\ l[c] = r
        /\ \A d \in Colours : d # c => l[d] = last[e][d]
    BY <1>1, <1>2
  <2>2. last' = [last EXCEPT ![e] = l]
    BY <1>3
  <2> HIDE DEF l
  <2>3. QED
    BY <1>1, <2>1, <2>2
<1>5. readOn' = IF e = "receiver" /\ now = 2 * n + 3 THEN readOn \cup {n} ELSE readOn
  BY DEF Read
<1>6. queue' = IF HadBaseline(e, n)
               THEN [queue EXCEPT ![e] = Push(@, FinishedBlock(e, n, Overlapped(e, 2 * n, 2 * (n + 1))))]
               ELSE queue
  BY DEF Read
<1>7. QED
  BY <1>2, <1>4, <1>5, <1>6 DEF r

LEMMA ReadFailsEffects ==
    ASSUME NEW e \in Ends, ReadFails(e)
    PROVE  UNCHANGED <<last, queue, readOn>>
BY DEF ReadFails, history

LEMMA TickEffects ==
    ASSUME Tick
    PROVE  /\ UNCHANGED <<table, mapped, loop, last, queue, pauses, net, packets, sent, arrived,
                          flipped, readOn, rebuilt, tested>>
           /\ now' = now + 1 /\ now < 2 * LastBlock + 3 /\ \A p \in BagToSet(net) : p.by > now + 1
BY DEF Tick, kernel, agents, history

LEMMA WireTypeStep ==
    ASSUME LoopTimes, ClockInv, WireType, [Next]_vars
    PROVE  WireType'
<1>T. now \in Nat /\ Blocks \subseteq Nat
  BY BlockNumbers DEF LoopTimes
<1>1. CASE UNCHANGED wire
  BY <1>1 DEF wire, WireType
<1>2. ASSUME NEW band \in Bands, SendPacket(band) PROVE WireType'
  <2>1. /\ UNCHANGED <<now, mapped, last, arrived, flipped, readOn, rebuilt>>
        /\ packets' \in 0..MaxPackets
    BY <1>2, SendEffects
  <2>2. table' \in [Ends -> Table] /\ sent' \in [Blocks -> Count]
    BY <1>2, SendEffects DEF TableCounts, BlockCounts, WireType
  <2>3. PICK p \in Packet : net' = net \/ net' = net (+) SetToBag({p})
    BY <1>2, SendEffects
  <2>4. IsABag(net') /\ BagToSet(net') \subseteq Packet
    <3>1. IsABag(net) /\ BagToSet(net) \subseteq Packet
      BY DEF WireType
    <3>2. CASE net' = net
      BY <3>1, <3>2
    <3>3. CASE net' = net (+) SetToBag({p})
      <4>1. IsABag(net') /\ BagToSet(net') = BagToSet(net) \cup {p}
        BY <3>1, <3>3, BagAdd
      <4>2. QED
        BY <3>1, <4>1
    <3>4. QED
      BY <2>3, <3>2, <3>3
  <2>5. QED
    BY <2>1, <2>2, <2>4 DEF WireType
<1>3. ASSUME ArrivePacket PROVE WireType'
  <2>1. UNCHANGED <<now, mapped, last, packets, sent, flipped, readOn, rebuilt>>
    BY <1>3, ArriveEffects
  <2>2. PICK p \in BagToSet(net) :
           /\ net' = net (-) SetToBag({p})
           /\ IF table["receiver"].member THEN TableCounts(table, table', "receiver", p.bit, p.band)
                                          ELSE table' = table
           /\ IF p.n = Unmapped THEN arrived' = arrived ELSE BlockCounts(arrived, arrived', p.n, p.band)
    BY <1>3, ArriveEffects
  <2>3. table' \in [Ends -> Table] /\ arrived' \in [Blocks -> Count]
    BY <2>2 DEF TableCounts, BlockCounts, WireType
  <2>4. IsABag(net') /\ BagToSet(net') \subseteq Packet
    <3>1. IsABag(net) /\ BagToSet(net) \subseteq Packet
      BY DEF WireType
    <3>2. net' = net (-) SetToBag({p})
      BY <2>2
    <3>3. IsABag(net') /\ BagToSet(net') = IF net[p] = 1 THEN BagToSet(net) \ {p} ELSE BagToSet(net)
      BY <3>1, <3>2, BagRemove
    <3>4. QED
      BY <3>1, <3>3
  <2>5. QED
    BY <2>1, <2>3, <2>4 DEF WireType
<1>4. ASSUME NEW e \in Ends, Reload(e) PROVE WireType'
  <2>1. /\ UNCHANGED <<now, last, net, packets, sent, arrived, flipped, readOn>>
        /\ table' \in [Ends -> Table]
        /\ IF e = "sender" THEN mapped' = Unmapped /\ rebuilt' = rebuilt \cup {now}
                           ELSE mapped' = mapped /\ rebuilt' = rebuilt
    BY <1>4, ReloadEffects
  <2>2. mapped' \in Blocks \cup {Unmapped} /\ rebuilt' \subseteq 0..now'
    <3>1. now \in 0..now
      BY <1>T
    <3>2. QED
      BY <2>1, <3>1 DEF WireType
  <2>3. QED
    BY <2>1, <2>2 DEF WireType
<1>5. ASSUME NEW e \in Ends, Flip(e) PROVE WireType'
  <2>1. /\ UNCHANGED <<now, last, net, packets, sent, arrived, readOn, rebuilt>>
        /\ loop[e].n + 1 \in Blocks
        /\ \/ /\ table' \in [Ends -> Table]
              /\ IF e = "sender"
                 THEN /\ mapped' = loop[e].n + 1
                      /\ flipped' = IF now = 2 * (loop[e].n + 1) THEN flipped \cup {loop[e].n + 1}
                                                                 ELSE flipped
                 ELSE mapped' = mapped /\ flipped' = flipped
           \/ table' = table /\ mapped' = mapped /\ flipped' = flipped
    BY <1>5, FlipEffects
  <2>2. /\ table' \in [Ends -> Table] /\ mapped' \in Blocks \cup {Unmapped} /\ flipped' \subseteq Blocks
    BY <2>1 DEF WireType
  <2>3. QED
    BY <2>1, <2>2 DEF WireType
<1>6. ASSUME NEW e \in Ends, Read(e) \/ ReadFails(e) PROVE WireType'
  <2>1. /\ UNCHANGED <<now, table, mapped, net, packets, sent, arrived, flipped, rebuilt>>
        /\ loop[e].n \in Blocks
    BY <1>6, ReadTurns
  <2>2. last' \in [Ends -> [Colours -> Reading \cup {NoBaseline}]] /\ readOn' \subseteq Blocks
    <3>1. CASE Read(e)
      <4>1. /\ last' \in [Ends -> [Colours -> Reading \cup {NoBaseline}]]
            /\ readOn' = readOn \/ readOn' = readOn \cup {loop[e].n}
        BY <3>1, ReadEffects
      <4>2. QED
        BY <2>1, <4>1 DEF WireType
    <3>2. CASE ReadFails(e)
      BY <3>2, ReadFailsEffects DEF WireType
    <3>3. QED
      BY <1>6, <3>1, <3>2
  <2>3. QED
    BY <2>1, <2>2 DEF WireType
<1>7. ASSUME Tick PROVE WireType'
  <2>1. /\ UNCHANGED <<table, mapped, last, net, packets, sent, arrived, flipped, readOn, rebuilt>>
        /\ now' = now + 1
    BY <1>7, TickEffects
  <2>2. rebuilt' \subseteq 0..now'
    <3>1. \A t \in 0..now : t \in 0..(now + 1)
      BY <1>T
    <3>2. QED
      BY <2>1, <3>1 DEF WireType
  <2>3. QED
    BY <2>1, <2>2 DEF WireType
<1>8. QED
  BY <1>1, <1>2, <1>3, <1>4, <1>5, <1>6, <1>7, WireSteps

LEMMA WireTypeStart == Init => WireType
<1> SUFFICES ASSUME Init PROVE WireType
  OBVIOUS
<1>1. /\ now = 0 /\ table = [e \in Ends |-> FreshTable(1)] /\ mapped = Unmapped
      /\ last = [e \in Ends |-> [c \in Colours |-> NoBaseline]]
      /\ net = EmptyBag /\ packets = 0
      /\ sent = [n \in Blocks |-> ZeroCount] /\ arrived = [n \in Blocks |-> ZeroCount]
      /\ flipped = {} /\ readOn = {} /\ rebuilt = {}
  BY DEF Init, MarkInit
<1>2. ZeroCount \in Count /\ FreshTable(1) \in Table
  BY DEF ZeroCount, Count, FreshTable, Table
<1>3. IsABag(EmptyBag) /\ BagToSet(EmptyBag) = {}
  BY DEF EmptyBag, SetToBag, IsABag, BagToSet
<1>4. packets \in 0..MaxPackets
  BY <1>1, MarkingAssumption
<1>5. QED
  BY <1>1, <1>2, <1>3, <1>4 DEF WireType

-----------------------------------------------------------------------------
(* The blocks keep their types, wherever they are.                         *)

ReportType ==
    /\ queue \in [Ends -> Seq(MarkBlock)] /\ \A e \in Ends : Len(queue[e]) <= QUEUE_CAP
    /\ replies \subseteq [end : Ends, blocks : Seq(MarkBlock)]
    /\ store = [e \in Ends |-> store[e]]
    /\ \A e \in Ends : store[e] \subseteq MarkBlock /\ IsFiniteSet(store[e])

LEMMA SeqFinite ==
    ASSUME NEW M, NEW s \in Seq(M)
    PROVE  ToSet(s) \subseteq M /\ IsFiniteSet(ToSet(s))
<1>1. DOMAIN s = 1..Len(s) /\ Len(s) \in Nat /\ \A i \in 1..Len(s) : s[i] \in M
  OBVIOUS
<1>2. IsFiniteSet(1..Len(s))
  BY <1>1, FS_Interval
<1> DEFINE f == [i \in 1..Len(s) |-> s[i]]
<1>3. f \in Surjection(1..Len(s), ToSet(s))
  BY <1>1 DEF Surjection, ToSet
<1>4. IsFiniteSet(ToSet(s))
  BY <1>2, <1>3, FS_Surjection
<1>5. QED
  BY <1>1, <1>4 DEF ToSet

LEMMA PushType ==
    ASSUME NEW q \in Seq(MarkBlock), Len(q) <= QUEUE_CAP, NEW b \in MarkBlock
    PROVE  Push(q, b) \in Seq(MarkBlock) /\ Len(Push(q, b)) <= QUEUE_CAP
<1>1. QUEUE_CAP \in Nat /\ QUEUE_CAP > 0
  BY MarkingAssumption
<1>2. CASE Len(q) >= QUEUE_CAP
  <2>1. q # <<>>
    BY <1>1, <1>2
  <2>2. Tail(q) \in Seq(MarkBlock) /\ Len(Tail(q)) = Len(q) - 1
    BY <2>1
  <2>3. QED
    BY <1>1, <1>2, <2>2 DEF Push
<1>3. CASE ~(Len(q) >= QUEUE_CAP)
  BY <1>1, <1>3 DEF Push
<1>4. QED
  BY <1>2, <1>3

LEMMA FinishedType ==
    ASSUME WireType, NEW e \in Ends, NEW n \in Nat, HadBaseline(e, n), NEW u \in BOOLEAN
    PROVE  FinishedBlock(e, n, u) \in MarkBlock
<1> DEFINE c == ColourOf(n)
           base == last[e][c]
           reset == Restarted(e, n)
           cnt == [b \in Bands |-> IF reset THEN 0 ELSE table[e].cnt[c][b] - base.cnt[b]]
<1>1. c \in Colours /\ table[e] \in Table /\ base \in Reading
  BY BlockNumbers DEF WireType, HadBaseline
<1>2. \A b \in Bands : table[e].cnt[c][b] \in Nat /\ base.cnt[b] \in Nat
  BY <1>1 DEF Table, Reading, Count
<1>3. ~reset => \A b \in Bands : ~(table[e].cnt[c][b] < base.cnt[b])
  BY DEF Restarted
<1>4. reset \in BOOLEAN
  BY DEF Restarted
<1>5. cnt \in Count
  <2>1. ASSUME NEW b \in Bands PROVE cnt[b] \in Nat
    <3> HIDE DEF base, c, reset
    <3>1. CASE reset
      BY <3>1
    <3>2. CASE ~reset
      BY <1>2, <1>3, <3>2
    <3>3. QED
      BY <3>1, <3>2
  <2>2. cnt = [b \in Bands |-> cnt[b]]
    OBVIOUS
  <2> HIDE DEF cnt
  <2>3. QED
    BY <2>1, <2>2 DEF Count
<1>6. FinishedBlock(e, n, u) = [n |-> n, reset |-> reset, under_test |-> u, cnt |-> cnt]
  BY DEF FinishedBlock
<1> HIDE DEF cnt, reset
<1>7. QED
  BY <1>4, <1>5, <1>6 DEF MarkBlock

\* The steps that move blocks.
LEMMA BlockSteps ==
    ASSUME [Next]_vars
    PROVE  \/ UNCHANGED <<queue, replies, store>>
           \/ \E e \in Ends : Read(e) /\ UNCHANGED <<replies, store>>
           \/ \E e \in Ends : Moves(e)
<1>1. ASSUME MarkNext, UNCHANGED ctl
      PROVE  UNCHANGED <<queue, replies, store>> \/ \E e \in Ends : Read(e) /\ UNCHANGED <<replies, store>>
  BY <1>1 DEF MarkNext, SendPacket, ArrivePacket, Reload, Flip, ReadFails, GateBegin, GateEnd,
              Tick, agents, ctl
<1>2. ASSUME NEW e \in Ends, AlwaysReply(e) PROVE Moves(e)
  BY <1>2 DEF AlwaysReply, Report, TakeBlocks, Moves, Stored, Unheard
<1>3. ASSUME NEW e \in Ends, LateReply(e) PROVE Moves(e)
  BY <1>3 DEF LateReply, markVars, agents, Moves, Arrives
<1>4. ASSUME ClassifyPass \/ UNCHANGED vars PROVE UNCHANGED <<queue, replies, store>>
  BY <1>4 DEF ClassifyPass, vars, markVars, agents, ctl
<1>5. QED
  BY <1>1, <1>2, <1>3, <1>4 DEF Next

LEMMA ReportTypeStep ==
    ASSUME LoopTimes, ClockInv, WireType, ReportType, [Next]_vars
    PROVE  ReportType'
<1>T. /\ queue \in [Ends -> Seq(MarkBlock)] /\ store = [e \in Ends |-> store[e]]
      /\ replies \subseteq [end : Ends, blocks : Seq(MarkBlock)]
      /\ \A e \in Ends : /\ queue[e] \in Seq(MarkBlock) /\ Len(queue[e]) <= QUEUE_CAP
                         /\ store[e] \subseteq MarkBlock /\ IsFiniteSet(store[e])
  BY DEF ReportType
<1>E. <<>> \in Seq(MarkBlock) /\ Len(<<>>) <= QUEUE_CAP
  BY MarkingAssumption
<1>1. CASE UNCHANGED <<queue, replies, store>>
  BY <1>1 DEF ReportType
<1>2. ASSUME NEW e \in Ends, Read(e), UNCHANGED <<replies, store>> PROVE ReportType'
  <2> DEFINE n == loop[e].n
             b == FinishedBlock(e, n, Overlapped(e, 2 * n, 2 * (n + 1)))
  <2>1. n \in Nat
    BY DEF LoopTimes
  <2>2. queue' = queue \/ (HadBaseline(e, n) /\ queue' = [queue EXCEPT ![e] = Push(queue[e], b)])
    BY <1>2, ReadEffects
  <2>3. HadBaseline(e, n) => b \in MarkBlock
    <3>1. Overlapped(e, 2 * n, 2 * (n + 1)) \in BOOLEAN
      BY DEF Overlapped
    <3>2. QED
      BY <2>1, <3>1, FinishedType
  <2> HIDE DEF n, b
  <2>4. HadBaseline(e, n) => /\ Push(queue[e], b) \in Seq(MarkBlock)
                             /\ Len(Push(queue[e], b)) <= QUEUE_CAP
    BY <1>T, <2>3, PushType
  <2>5. queue' \in [Ends -> Seq(MarkBlock)] /\ \A f \in Ends : Len(queue'[f]) <= QUEUE_CAP
    BY <1>T, <2>2, <2>4
  <2>6. QED
    BY <1>2, <1>T, <2>5 DEF ReportType
<1>3. ASSUME NEW e \in Ends, Stored(e) \/ Unheard(e) PROVE ReportType'
  <2>1. queue' = [queue EXCEPT ![e] = <<>>]
    BY <1>3 DEF Stored, Unheard
  <2>2. queue' \in [Ends -> Seq(MarkBlock)] /\ \A f \in Ends : Len(queue'[f]) <= QUEUE_CAP
    BY <1>T, <1>E, <2>1
  <2>3. ToSet(queue[e]) \subseteq MarkBlock /\ IsFiniteSet(ToSet(queue[e]))
    BY <1>T, SeqFinite
  <2>4. CASE Stored(e)
    <3>1. store' = [store EXCEPT ![e] = store[e] \cup ToSet(queue[e])] /\ replies' = replies
      BY <2>4 DEF Stored
    <3>2. IsFiniteSet(store[e] \cup ToSet(queue[e])) /\ store[e] \cup ToSet(queue[e]) \subseteq MarkBlock
      BY <1>T, <2>3, FS_Union
    <3>3. /\ store' = [f \in Ends |-> store'[f]]
          /\ \A f \in Ends : store'[f] \subseteq MarkBlock /\ IsFiniteSet(store'[f])
      BY <1>T, <3>1, <3>2
    <3>4. QED
      BY <1>T, <2>2, <3>1, <3>3 DEF ReportType
  <2>5. CASE Unheard(e)
    <3>1. store' = store /\ replies' \in {replies, replies \cup {[end |-> e, blocks |-> queue[e]]}}
      BY <2>5 DEF Unheard
    <3>2. replies' \subseteq [end : Ends, blocks : Seq(MarkBlock)]
      BY <1>T, <3>1
    <3>3. QED
      BY <1>T, <2>2, <3>1, <3>2 DEF ReportType
  <2>6. QED
    BY <1>3, <2>4, <2>5
<1>4. ASSUME NEW e \in Ends, NEW r \in replies, Arrives(e, r) PROVE ReportType'
  <2>1. /\ queue' = queue /\ replies' \subseteq replies
        /\ store' = [store EXCEPT ![e] = store[e] \cup ToSet(r.blocks)]
    BY <1>4 DEF Arrives
  <2>2. r.blocks \in Seq(MarkBlock)
    BY <1>T
  <2>3. ToSet(r.blocks) \subseteq MarkBlock /\ IsFiniteSet(ToSet(r.blocks))
    BY <2>2, SeqFinite
  <2>4. IsFiniteSet(store[e] \cup ToSet(r.blocks)) /\ store[e] \cup ToSet(r.blocks) \subseteq MarkBlock
    BY <1>T, <2>3, FS_Union
  <2>5. /\ store' = [f \in Ends |-> store'[f]]
        /\ \A f \in Ends : store'[f] \subseteq MarkBlock /\ IsFiniteSet(store'[f])
    BY <1>T, <2>1, <2>4
  <2>6. QED
    BY <1>T, <2>1, <2>5 DEF ReportType
<1>5. QED
  BY <1>1, <1>2, <1>3, <1>4, BlockSteps DEF Moves

LEMMA ReportTypeStart == Init => ReportType
<1> SUFFICES ASSUME Init PROVE ReportType
  OBVIOUS
<1>1. queue = [e \in Ends |-> <<>>] /\ replies = {} /\ store = [e \in Ends |-> {}]
  BY DEF Init, MarkInit
<1>2. <<>> \in Seq(MarkBlock) /\ Len(<<>>) <= QUEUE_CAP /\ IsFiniteSet({})
  BY MarkingAssumption, FS_EmptySet
<1>3. QED
  BY <1>1, <1>2 DEF ReportType

-----------------------------------------------------------------------------
(* The gate: its pauses, and the bound on what goes wrong.                 *)

GateType ==
    /\ pauses \in [Ends -> Seq(Pause)] /\ \A e \in Ends : Len(pauses[e]) <= PAUSE_HISTORY
    /\ tested \subseteq Blocks

LEMMA GateSteps ==
    ASSUME [Next]_vars
    PROVE  \/ UNCHANGED <<pauses, tested>>
           \/ \E e \in Ends : GateBegin(e) \/ GateEnd(e)
<1>1. ASSUME NEW e \in Ends, Reload(e) \/ Flip(e) \/ Read(e) \/ ReadFails(e)
      PROVE  UNCHANGED <<pauses, tested>>
  BY <1>1 DEF Reload, Flip, Read, ReadFails, agents, history
<1>2. ASSUME (\E band \in Bands : SendPacket(band)) \/ ArrivePacket \/ Tick
      PROVE  UNCHANGED <<pauses, tested>>
  BY <1>2 DEF SendPacket, ArrivePacket, Tick, agents, history
<1>3. ASSUME NEW e \in Ends, AlwaysReply(e) \/ LateReply(e) PROVE UNCHANGED <<pauses, tested>>
  BY <1>3 DEF AlwaysReply, LateReply, markVars, agents, history
<1>4. ASSUME ClassifyPass \/ UNCHANGED vars PROVE UNCHANGED <<pauses, tested>>
  BY <1>4 DEF ClassifyPass, vars, markVars, agents, history
<1>5. QED
  BY <1>1, <1>2, <1>3, <1>4 DEF Next, MarkNext

\* The gate's clock is not behind the block that is read next.
LEMMA GateClock ==
    ASSUME LoopTimes, ClockInv, NEW e \in Ends, NEW t \in ClockOf(e)
    PROVE  t \in Nat /\ t <= now /\ t >= 2 * loop[e].n
<1>1. /\ now \in Nat /\ loop[e].n \in Nat /\ loop[e].due \in Nat /\ now >= 2 * loop[e].n
      /\ loop[e].pc = "sleep" => loop[e].due >= 2 * (loop[e].n + 1)
  BY DEF LoopTimes, ClockInv
<1>2. t = now \/ (t = now - 1 /\ loop[e].pc = "sleep" /\ loop[e].due = now)
  BY DEF ClockOf
<1>3. QED
  BY <1>1, <1>2

\* A test pauses the gate: the oldest pause goes when there are too many.
LEMMA BeginEffects ==
    ASSUME LoopTimes, ClockInv, GateType, NEW e \in Ends, GateBegin(e)
    PROVE  /\ UNCHANGED <<loop, queue, tested>> /\ ~Testing(e)
           /\ pauses' \in [Ends -> Seq(Pause)] /\ Len(pauses'[e]) <= PAUSE_HISTORY
           /\ \A f \in Ends : f # e => pauses'[f] = pauses[f]
           /\ \E k \in {0, 1}, t \in Nat :
                 /\ t >= 2 * loop[e].n
                 /\ k = 1 => Len(pauses[e]) = PAUSE_HISTORY
                 /\ Len(pauses'[e]) = Len(pauses[e]) + 1 - k
                 /\ \A i \in 1..(Len(pauses[e]) - k) : pauses'[e][i] = pauses[e][i + k]
                 /\ pauses'[e][Len(pauses'[e])] = [begin |-> t, end |-> -1]
<1>1. UNCHANGED <<loop, queue, tested>> /\ ~Testing(e)
  BY DEF GateBegin, history
<1>2. /\ pauses \in [Ends -> Seq(Pause)] /\ pauses[e] \in Seq(Pause)
      /\ Len(pauses[e]) <= PAUSE_HISTORY /\ Len(pauses[e]) \in Nat /\ PAUSE_HISTORY \in Nat \ {0}
  BY MarkingAssumption DEF GateType
<1>3. PICK t \in ClockOf(e) :
         LET longer == Append(pauses[e], [begin |-> t, end |-> -1])
         IN  pauses' = [pauses EXCEPT ![e] = IF Len(longer) > PAUSE_HISTORY THEN Tail(longer) ELSE longer]
  BY DEF GateBegin
<1> DEFINE x == [begin |-> t, end |-> -1]
           longer == Append(pauses[e], x)
           s == IF Len(longer) > PAUSE_HISTORY THEN Tail(longer) ELSE longer
<1>4. pauses' = [pauses EXCEPT ![e] = s]
  BY <1>3
<1>5. t \in Nat /\ t >= 2 * loop[e].n
  BY GateClock
<1>6. x \in Pause
  BY <1>5 DEF Pause
<1> HIDE DEF x
<1>7. /\ longer \in Seq(Pause) /\ Len(longer) = Len(pauses[e]) + 1
      /\ longer[Len(pauses[e]) + 1] = x /\ \A i \in 1..Len(pauses[e]) : longer[i] = pauses[e][i]
  BY <1>2, <1>6
<1> HIDE DEF longer
<1>8. \E k \in {0, 1} : /\ k = 1 => Len(pauses[e]) = PAUSE_HISTORY
                        /\ s \in Seq(Pause) /\ Len(s) <= PAUSE_HISTORY
                        /\ Len(s) = Len(pauses[e]) + 1 - k
                        /\ \A i \in 1..(Len(pauses[e]) - k) : s[i] = pauses[e][i + k]
                        /\ s[Len(s)] = x
  <2>1. CASE Len(longer) > PAUSE_HISTORY
    <3>1. s = Tail(longer) /\ longer # <<>>
      BY <1>2, <1>7, <2>1
    <3>2. /\ Tail(longer) \in Seq(Pause) /\ Len(Tail(longer)) = Len(longer) - 1
          /\ \A i \in 1..(Len(longer) - 1) : Tail(longer)[i] = longer[i + 1]
      BY <1>7, <3>1
    <3>3. Len(pauses[e]) = PAUSE_HISTORY
      BY <1>2, <1>7, <2>1
    <3>4. Len(s) = Len(pauses[e]) /\ s \in Seq(Pause) /\ s[Len(s)] = x
      BY <1>2, <1>7, <3>1, <3>2, <3>3
    <3>5. \A i \in 1..(Len(pauses[e]) - 1) : s[i] = pauses[e][i + 1]
      BY <1>2, <1>7, <3>1, <3>2
    <3> HIDE DEF s
    <3>6. QED
      BY <1>2, <3>3, <3>4, <3>5
  <2>2. CASE ~(Len(longer) > PAUSE_HISTORY)
    <3>1. s = longer
      BY <2>2
    <3> HIDE DEF s
    <3>2. /\ Len(s) = Len(pauses[e]) + 1 - 0 /\ Len(s) <= PAUSE_HISTORY /\ s[Len(s)] = x
          /\ s \in Seq(Pause) /\ \A i \in 1..(Len(pauses[e]) - 0) : s[i] = pauses[e][i + 0]
      BY <1>2, <1>7, <2>2, <3>1
    <3>3. QED
      BY <3>2
  <2>3. QED
    BY <2>1, <2>2
<1> HIDE DEF s
<1>9. pauses'[e] = s /\ \A f \in Ends : f # e => pauses'[f] = pauses[f]
  BY <1>2, <1>4
<1>10. pauses' \in [Ends -> Seq(Pause)]
  BY <1>2, <1>4, <1>8
<1>11. QED
  BY <1>1, <1>5, <1>8, <1>9, <1>10 DEF x

\* A test ends: its pause has an end, and the blocks it overlapped are known.
LEMMA EndEffects ==
    ASSUME LoopTimes, ClockInv, GateType, NEW e \in Ends, GateEnd(e)
    PROVE  /\ UNCHANGED <<loop, queue>> /\ Testing(e)
           /\ pauses' \in [Ends -> Seq(Pause)] /\ Len(pauses'[e]) = Len(pauses[e])
           /\ \A f \in Ends : f # e => pauses'[f] = pauses[f]
           /\ \A i \in 1..(Len(pauses[e]) - 1) : pauses'[e][i] = pauses[e][i]
           /\ Len(pauses[e]) \in Nat \ {0}
           /\ \E begin, end \in Nat :
                 /\ Last(pauses[e]) = [begin |-> begin, end |-> -1] /\ begin <= end /\ end <= now
                 /\ pauses'[e][Len(pauses[e])] = [begin |-> begin, end |-> end]
                 /\ tested' = tested \cup ((begin \div 2) .. (end \div 2))
<1>1. UNCHANGED <<loop, queue>> /\ Testing(e)
  BY DEF GateEnd
<1>2. pauses \in [Ends -> Seq(Pause)] /\ pauses[e] \in Seq(Pause) /\ pauses[e] # <<>>
  BY <1>1 DEF GateType, Testing
<1> DEFINE l == Len(pauses[e])
           x == pauses[e][l]
<1>3. l \in Nat \ {0} /\ DOMAIN pauses[e] = 1..l /\ \A i \in 1..l : pauses[e][i] \in Pause
  BY <1>2
<1>4. x \in Pause /\ Last(pauses[e]) = x /\ x.end = -1
  BY <1>1, <1>3 DEF Last, Testing
<1>5. PICK t \in ClockOf(e) : /\ t >= x.begin
                              /\ pauses' = [pauses EXCEPT ![e][l].end = t]
                              /\ tested' = tested \cup ((x.begin \div 2) .. (t \div 2))
  BY <1>4 DEF GateEnd
<1>6. t \in Nat /\ t <= now
  BY GateClock
<1>7. x.begin \in Nat /\ x = [begin |-> x.begin, end |-> -1]
  BY <1>4 DEF Pause
<1> DEFINE y == [x EXCEPT !.end = t]
           s == [pauses[e] EXCEPT ![l] = y]
<1>8. y \in Pause /\ y = [begin |-> x.begin, end |-> t]
  <2> HIDE DEF x
  <2>1. QED
    BY <1>4, <1>6, <1>7 DEF Pause
<1>9. pauses' = [pauses EXCEPT ![e] = s]
  BY <1>5
<1> HIDE DEF y, l
<1>10. s \in Seq(Pause) /\ Len(s) = l /\ s[l] = y /\ \A i \in 1..(l - 1) : s[i] = pauses[e][i]
  BY <1>2, <1>3, <1>8 DEF l
<1> HIDE DEF s
<1>11. pauses'[e] = s /\ pauses' \in [Ends -> Seq(Pause)] /\ \A f \in Ends : f # e => pauses'[f] = pauses[f]
  BY <1>2, <1>9, <1>10
<1> HIDE DEF x
<1>12. \E begin, end \in Nat :
          /\ Last(pauses[e]) = [begin |-> begin, end |-> -1] /\ begin <= end /\ end <= now
          /\ pauses'[e][l] = [begin |-> begin, end |-> end]
          /\ tested' = tested \cup ((begin \div 2) .. (end \div 2))
  <2>1. pauses'[e][l] = [begin |-> x.begin, end |-> t]
    BY <1>8, <1>10, <1>11
  <2>2. Last(pauses[e]) = [begin |-> x.begin, end |-> -1]
    BY <1>4, <1>7
  <2>3. QED
    BY <1>5, <1>6, <1>7, <2>1, <2>2
<1>13. QED
  BY <1>1, <1>3, <1>10, <1>11, <1>12 DEF l

LEMMA GateTypeStep ==
    ASSUME LoopTimes, ClockInv, GateType, [Next]_vars
    PROVE  GateType'
<1>1. CASE UNCHANGED <<pauses, tested>>
  BY <1>1 DEF GateType
<1>2. ASSUME NEW e \in Ends, GateBegin(e) PROVE GateType'
  <2>1. /\ tested' = tested /\ pauses' \in [Ends -> Seq(Pause)] /\ Len(pauses'[e]) <= PAUSE_HISTORY
        /\ \A f \in Ends : f # e => pauses'[f] = pauses[f]
    BY <1>2, BeginEffects
  <2>2. QED
    BY <2>1 DEF GateType
<1>3. ASSUME NEW e \in Ends, GateEnd(e) PROVE GateType'
  <2>1. /\ pauses' \in [Ends -> Seq(Pause)] /\ Len(pauses'[e]) = Len(pauses[e])
        /\ \A f \in Ends : f # e => pauses'[f] = pauses[f]
    BY <1>3, EndEffects
  <2>2. PICK begin, end \in Nat :
           begin <= end /\ end <= now /\ tested' = tested \cup ((begin \div 2) .. (end \div 2))
    BY <1>3, EndEffects
  <2>3. ASSUME NEW n \in (begin \div 2) .. (end \div 2) PROVE n \in Blocks
    <3>1. n \in Nat /\ n <= LastBlock + 1
      <4>1. begin \div 2 \in Nat /\ n \in Int /\ n >= begin \div 2 /\ 2 * n <= end
        BY <2>2
      <4>2. now \in Nat /\ now <= 2 * LastBlock + 3
        BY DEF LoopTimes, ClockInv
      <4>3. QED
        BY <2>2, <4>1, <4>2, BlockNumbers
    <3>2. QED
      BY <3>1, BlockNumbers
  <2>4. tested' \subseteq Blocks
    BY <2>2, <2>3 DEF GateType
  <2>5. QED
    BY <2>1, <2>4 DEF GateType
<1>4. QED
  BY <1>1, <1>2, <1>3, GateSteps

LEMMA GateTypeStart == Init => GateType
<1> SUFFICES ASSUME Init PROVE GateType
  OBVIOUS
<1>1. pauses = [e \in Ends |-> <<>>] /\ tested = {}
  BY DEF Init, MarkInit
<1>2. <<>> \in Seq(Pause) /\ Len(<<>>) <= PAUSE_HISTORY
  BY MarkingAssumption
<1>3. QED
  BY <1>1, <1>2 DEF GateType

-----------------------------------------------------------------------------
(* What a test overlapped is marked before it can be counted.              *)

\* A block of an end was there before, or is the one just read.
LEMMA BlocksGrow ==
    ASSUME ChannelInv, ClockInv, WireType, [Next]_vars, NEW e \in Ends, NEW b \in Everywhere(e)'
    PROVE  \/ b \in Everywhere(e)
           \/ /\ Read(e) /\ HadBaseline(e, loop[e].n)
              /\ b = FinishedBlock(e, loop[e].n, Overlapped(e, 2 * loop[e].n, 2 * (loop[e].n + 1)))
<1>1. CASE UNCHANGED <<queue, replies, store>>
  BY <1>1 DEF Everywhere, InReplies
<1>2. ASSUME NEW f \in Ends, Read(f), UNCHANGED <<replies, store>>
      PROVE  \/ b \in Everywhere(e)
             \/ /\ Read(e) /\ HadBaseline(e, loop[e].n)
                /\ b = FinishedBlock(e, loop[e].n, Overlapped(e, 2 * loop[e].n, 2 * (loop[e].n + 1)))
  <2> DEFINE n == loop[f].n
             c == FinishedBlock(f, n, Overlapped(f, 2 * n, 2 * (n + 1)))
  <2>1. InReplies(e)' = InReplies(e) /\ store' = store
    BY <1>2 DEF InReplies
  <2>2. LoopTimes
    BY DEF ChannelInv
  <2>3. queue' = IF HadBaseline(f, n) THEN [queue EXCEPT ![f] = Push(@, c)] ELSE queue
    BY <1>2, <2>2, ReadEffects
  <2> HIDE DEF c
  <2>4. CASE HadBaseline(f, n)
    <3>1. /\ queue = [g \in Ends |-> queue[g]] /\ queue[f] \in Seq(ToSet(queue[f]))
      BY DEF ChannelInv, Shapes
    <3>2. queue'[f] = Push(queue[f], c) /\ \A g \in Ends : g # f => queue'[g] = queue[g]
      BY <2>3, <2>4, <3>1
    <3>3. ToSet(queue'[f]) \subseteq ToSet(queue[f]) \cup {c}
      BY <3>1, <3>2, PushBlock
    <3>4. b \in Everywhere(e) \/ (f = e /\ b = c)
      BY <2>1, <3>2, <3>3 DEF Everywhere
    <3>5. QED
      BY <1>2, <2>4, <3>4 DEF c
  <2>5. CASE ~HadBaseline(f, n)
    BY <2>1, <2>3, <2>5 DEF Everywhere
  <2>6. QED
    BY <2>4, <2>5
<1>3. ASSUME NEW f \in Ends, Moves(f) PROVE b \in Everywhere(e)
  <2>1. GivesUp(f) \/ \E Q : Delivers(f, Q)
    BY <1>3, MovePlaces
  <2>2. b \in Waiting(e)' \cup store'[e]
    BY DEF Everywhere, Waiting
  <2>3. Waiting(e)' \cup store'[e] \subseteq Waiting(e) \cup store[e]
    BY <2>1 DEF GivesUp, Delivers, Elsewhere
  <2>4. QED
    BY <2>2, <2>3 DEF Everywhere, Waiting
<1>4. QED
  BY <1>1, <1>2, <1>3, BlockSteps

LEMMA StoreGrows ==
    ASSUME ChannelInv, [Next]_vars, NEW e \in Ends
    PROVE  store[e] \subseteq store'[e]
<1>1. ASSUME NEW f \in Ends, Moves(f) PROVE store[e] \subseteq store'[e]
  <2>1. GivesUp(f) \/ \E Q : Delivers(f, Q)
    BY <1>1, MovePlaces
  <2>2. QED
    BY <2>1 DEF GivesUp, Delivers, Elsewhere
<1>2. QED
  BY <1>1, BlockSteps

LEMMA JoinMembers ==
    ASSUME NEW own, NEW rev, NEW b
    PROVE  b \in Join(own, rev) <=>
             \E p \in own, q \in rev :
                /\ p.n = q.n /\ ~p.reset /\ ~q.reset
                /\ b = [n |-> p.n, sent |-> p.cnt, recv |-> q.cnt,
                        under_test |-> p.under_test \/ q.under_test]
<1> DEFINE mk(z) == [n |-> z[1].n, sent |-> z[1].cnt, recv |-> z[2].cnt,
                     under_test |-> z[1].under_test \/ z[2].under_test]
           Q == {z \in own \X rev : z[1].n = z[2].n /\ ~z[1].reset /\ ~z[2].reset}
<1>1. Join(own, rev) = {mk(z) : z \in Q}
  BY DEF Join
<1>2. \A p, q : <<p, q>>[1] = p /\ <<p, q>>[2] = q
  OBVIOUS
<1>3. ASSUME NEW z \in Q, b = mk(z)
      PROVE  \E p \in own, q \in rev :
                /\ p.n = q.n /\ ~p.reset /\ ~q.reset
                /\ b = [n |-> p.n, sent |-> p.cnt, recv |-> q.cnt,
                        under_test |-> p.under_test \/ q.under_test]
  <2>1. z[1] \in own /\ z[2] \in rev /\ z[1].n = z[2].n /\ ~z[1].reset /\ ~z[2].reset
    OBVIOUS
  <2>2. QED
    BY <1>3, <2>1
<1>4. ASSUME NEW p \in own, NEW q \in rev, p.n = q.n, ~p.reset, ~q.reset,
             b = [n |-> p.n, sent |-> p.cnt, recv |-> q.cnt, under_test |-> p.under_test \/ q.under_test]
      PROVE  \E z \in Q : b = mk(z)
  <2>1. <<p, q>> \in Q /\ b = mk(<<p, q>>)
    BY <1>2, <1>4
  <2>2. QED
    BY <2>1
<1>5. QED
  BY <1>1, <1>3, <1>4

Marked(e, n) == \A b \in Everywhere(e) : b.n = n => b.under_test
Covers(p, n) == p.end # -1 /\ p.begin < 2 * (n + 1) /\ p.end >= 2 * n

\* While a test runs, the blocks it has reached so far are marked.
MarkedSoFar ==
    \A e \in Ends : Testing(e) =>
        \A b \in Everywhere(e) : Last(pauses[e]).begin < 2 * (b.n + 1) => b.under_test

\* A block that a test overlapped is marked at an end, which has read it or
\* will find the pause when it does.
TestsMarked ==
    \A n \in tested : \E e \in Ends :
        /\ Marked(e, n)
        /\ n < loop[e].n \/ \E i \in 1..Len(pauses[e]) : Covers(pauses[e][i], n)

\* What was counted is not marked, at either end.
CountedUnmarked ==
    \A n \in counted : \A e \in Ends : \E b \in store[e] : b.n = n /\ ~b.under_test

GateInv == MarkedSoFar /\ TestsMarked /\ CountedUnmarked

\* No test makes the gate forget a pause that reaches into a block still unread.
KeepsUnread ==
    \A e \in Ends :
        GateBegin(e) /\ Len(pauses[e]) = PAUSE_HISTORY => Head(pauses[e]).end < 2 * loop[e].n

LEMMA MarkedSoFarStep ==
    ASSUME ChannelInv, ClockInv, WireType, GateType, MarkedSoFar, [Next]_vars
    PROVE  MarkedSoFar'
<1>T. LoopTimes /\ \A e \in Ends : loop[e].n \in Nat /\ pauses[e] \in Seq(Pause)
  BY DEF ChannelInv, LoopTimes, GateType
<1>N. \A e \in Ends : \A b \in Everywhere(e) : b.n \in Nat /\ b.n < loop[e].n
  BY DEF ChannelInv, Numbered
<1> SUFFICES ASSUME NEW e \in Ends, Testing(e)', NEW b \in Everywhere(e)',
                    Last(pauses'[e]).begin < 2 * (b.n + 1)
             PROVE  b.under_test
  BY DEF MarkedSoFar
<1>1. CASE pauses'[e] = pauses[e]
  <2>1. Testing(e) /\ Last(pauses[e]).begin < 2 * (b.n + 1)
    BY <1>1 DEF Testing
  <2>2. CASE b \in Everywhere(e)
    BY <2>1, <2>2 DEF MarkedSoFar
  <2>3. CASE b = FinishedBlock(e, loop[e].n, Overlapped(e, 2 * loop[e].n, 2 * (loop[e].n + 1)))
    <3>1. b.n = loop[e].n /\ b.under_test = Overlapped(e, 2 * loop[e].n, 2 * (loop[e].n + 1))
      BY <2>3 DEF FinishedBlock
    <3>2. /\ Len(pauses[e]) \in DOMAIN pauses[e] /\ Last(pauses[e]) = pauses[e][Len(pauses[e])]
      <4>1. pauses[e] # <<>> /\ pauses[e] \in Seq(Pause)
        BY <1>T, <2>1 DEF Testing
      <4>2. QED
        BY <4>1 DEF Last
    <3>3. pauses[e][Len(pauses[e])].begin < 2 * (loop[e].n + 1) /\ pauses[e][Len(pauses[e])].end = -1
      BY <2>1, <3>1, <3>2 DEF Testing
    <3>4. Overlapped(e, 2 * loop[e].n, 2 * (loop[e].n + 1))
      BY <3>2, <3>3 DEF Overlapped
    <3>5. QED
      BY <3>1, <3>4
  <2>4. QED
    BY <2>2, <2>3, BlocksGrow
<1>2. CASE pauses'[e] # pauses[e]
  <2>1. PICK f \in Ends : GateBegin(f) \/ GateEnd(f)
    BY <1>2, GateSteps
  <2>2. f = e
    BY <1>2, <1>T, <2>1, BeginEffects, EndEffects
  <2>3. CASE GateEnd(e)
    <3>1. PICK begin, end \in Nat : pauses'[e][Len(pauses[e])] = [begin |-> begin, end |-> end]
      BY <1>T, <2>3, EndEffects
    <3>2. Len(pauses'[e]) = Len(pauses[e])
      BY <1>T, <2>3, EndEffects
    <3>3. Last(pauses'[e]).end = end /\ end # -1
      BY <3>1, <3>2 DEF Last
    <3>4. QED
      BY <3>3 DEF Testing
  <2>4. CASE GateBegin(e)
    <3>1. PICK t \in Nat : /\ t >= 2 * loop[e].n
                           /\ pauses'[e][Len(pauses'[e])] = [begin |-> t, end |-> -1]
      BY <1>T, <2>4, BeginEffects
    <3>2. Last(pauses'[e]).begin = t
      BY <3>1 DEF Last
    <3>3. b \in Everywhere(e)
      <4>1. ~Read(e)
        BY <1>T, <2>4, BeginEffects, LoopStep
      <4>2. QED
        BY <4>1, BlocksGrow
    <3>4. QED
      BY <1>N, <1>T, <3>1, <3>2, <3>3
  <2>5. QED
    BY <2>1, <2>2, <2>3, <2>4
<1>3. QED
  BY <1>1, <1>2

LEMMA TestsMarkedStep ==
    ASSUME ChannelInv, ClockInv, WireType, GateType, MarkedSoFar, TestsMarked, [Next]_vars, KeepsUnread
    PROVE  TestsMarked'
<1>T. /\ LoopTimes /\ \A e \in Ends : loop[e].n \in Nat
      /\ \A e \in Ends : loop'[e].n >= loop[e].n /\ loop'[e].n \in Nat
      /\ \A e \in Ends : Read(e) => loop'[e].n > loop[e].n
  <2>1. LoopTimes
    BY DEF ChannelInv
  <2>2. LoopTimes' /\ \A e \in Ends : loop'[e].n >= loop[e].n /\ (Read(e) => loop'[e].n > loop[e].n)
    BY <2>1, LoopStep
  <2>3. QED
    BY <2>1, <2>2 DEF LoopTimes
<1>P. \A e \in Ends : /\ pauses[e] \in Seq(Pause) /\ Len(pauses[e]) \in Nat
                      /\ \A i \in 1..Len(pauses[e]) : pauses[e][i].begin \in Nat /\ pauses[e][i].end \in Int
  <2>1. ASSUME NEW e \in Ends
        PROVE  /\ pauses[e] \in Seq(Pause) /\ Len(pauses[e]) \in Nat
               /\ \A i \in 1..Len(pauses[e]) : pauses[e][i] \in Pause
    BY DEF GateType
  <2>2. QED
    BY <2>1 DEF Pause
<1>1. ASSUME NEW n \in Nat, NEW e \in Ends, Marked(e, n),
             n < loop[e].n \/ \E i \in 1..Len(pauses[e]) : Covers(pauses[e][i], n)
      PROVE  Marked(e, n)'
  <2> SUFFICES ASSUME NEW b \in Everywhere(e)', b.n = n PROVE b.under_test
    BY DEF Marked
  <2>1. CASE b \in Everywhere(e)
    BY <1>1, <2>1 DEF Marked
  <2>2. CASE b = FinishedBlock(e, loop[e].n, Overlapped(e, 2 * loop[e].n, 2 * (loop[e].n + 1)))
    <3>1. n = loop[e].n /\ b.under_test = Overlapped(e, 2 * n, 2 * (n + 1))
      BY <2>2 DEF FinishedBlock
    <3>2. PICK i \in 1..Len(pauses[e]) : Covers(pauses[e][i], n)
      BY <1>1, <1>T, <3>1
    <3>3. i \in DOMAIN pauses[e] /\ pauses[e][i].begin < 2 * (n + 1) /\ pauses[e][i].end >= 2 * n
      BY <1>P, <3>2 DEF Covers
    <3>4. QED
      BY <3>1, <3>3 DEF Overlapped
  <2>3. QED
    BY <2>1, <2>2, BlocksGrow
<1>2. ASSUME NEW n \in Nat, NEW e \in Ends, n < loop[e].n PROVE n < loop'[e].n
  BY <1>2, <1>T
<1>3. ASSUME NEW n \in Nat, NEW e \in Ends, NEW i \in 1..Len(pauses[e]), Covers(pauses[e][i], n)
      PROVE  n < loop[e].n \/ \E j \in 1..Len(pauses'[e]) : Covers(pauses'[e][j], n)
  <2>1. CASE pauses'[e] = pauses[e]
    BY <1>3, <2>1
  <2>2. ASSUME GateBegin(e) PROVE n < loop[e].n \/ \E j \in 1..Len(pauses'[e]) : Covers(pauses'[e][j], n)
    <3>1. PICK k \in {0, 1} :
             /\ k = 1 => Len(pauses[e]) = PAUSE_HISTORY
             /\ Len(pauses'[e]) = Len(pauses[e]) + 1 - k
             /\ \A x \in 1..(Len(pauses[e]) - k) : pauses'[e][x] = pauses[e][x + k]
      BY <1>T, <2>2, BeginEffects
    <3>2. CASE i > k
      <4>1. /\ i - k \in 1..(Len(pauses[e]) - k) /\ i - k \in 1..Len(pauses'[e]) /\ (i - k) + k = i
        BY <1>P, <3>1, <3>2
      <4>2. pauses'[e][i - k] = pauses[e][i]
        BY <3>1, <4>1
      <4>3. QED
        BY <1>3, <4>1, <4>2
    <3>3. CASE ~(i > k)
      <4>1. k = 1 /\ i = 1
        BY <1>P, <3>1, <3>3
      <4>2. Head(pauses[e]).end < 2 * loop[e].n
        BY <2>2, <3>1, <4>1 DEF KeepsUnread
      <4>3. Head(pauses[e]) = pauses[e][1]
        BY <1>P
      <4>4. pauses[e][1].end >= 2 * n /\ pauses[e][1].end \in Int
        BY <1>3, <1>P, <4>1 DEF Covers
      <4>5. QED
        BY <1>T, <4>2, <4>3, <4>4
    <3>4. QED
      BY <3>2, <3>3
  <2>3. ASSUME GateEnd(e) PROVE \E j \in 1..Len(pauses'[e]) : Covers(pauses'[e][j], n)
    <3>1. PICK begin, end \in Nat : Last(pauses[e]) = [begin |-> begin, end |-> -1]
      BY <1>T, <2>3, EndEffects
    <3>2. /\ Len(pauses'[e]) = Len(pauses[e]) /\ Len(pauses[e]) \in Nat \ {0}
          /\ \A x \in 1..(Len(pauses[e]) - 1) : pauses'[e][x] = pauses[e][x]
      BY <1>T, <2>3, EndEffects
    <3>3. i # Len(pauses[e])
      <4>1. pauses[e][Len(pauses[e])].end = -1
        BY <3>1 DEF Last
      <4>2. QED
        BY <1>3, <4>1 DEF Covers
    <3>4. i \in 1..(Len(pauses[e]) - 1)
      BY <3>2, <3>3
    <3>5. QED
      BY <1>3, <3>2, <3>4
  <2>4. QED
    <3>1. ASSUME NEW f \in Ends, GateBegin(f) \/ GateEnd(f), f # e PROVE pauses'[e] = pauses[e]
      BY <1>T, <3>1, BeginEffects, EndEffects
    <3>2. QED
      BY <2>1, <2>2, <2>3, <3>1, GateSteps
<1>4. ASSUME NEW n \in tested
      PROVE  \E e \in Ends : /\ Marked(e, n)'
                             /\ n < loop'[e].n \/ \E i \in 1..Len(pauses'[e]) : Covers(pauses'[e][i], n)
  <2>1. n \in Nat
    BY BlockNumbers DEF GateType
  <2>2. PICK e \in Ends : /\ Marked(e, n)
                          /\ n < loop[e].n \/ \E i \in 1..Len(pauses[e]) : Covers(pauses[e][i], n)
    BY DEF TestsMarked
  <2>3. Marked(e, n)'
    BY <1>1, <2>1, <2>2
  <2>4. n < loop'[e].n \/ \E i \in 1..Len(pauses'[e]) : Covers(pauses'[e][i], n)
    BY <1>2, <1>3, <2>1, <2>2
  <2>5. QED
    BY <2>3, <2>4
<1>5. ASSUME NEW n \in tested', n \notin tested
      PROVE  \E e \in Ends : /\ Marked(e, n)'
                             /\ n < loop'[e].n \/ \E i \in 1..Len(pauses'[e]) : Covers(pauses'[e][i], n)
  <2>1. PICK e \in Ends : GateEnd(e)
    BY <1>5, <1>T, GateSteps, BeginEffects
  <2>2. PICK begin, end \in Nat :
           /\ Last(pauses[e]) = [begin |-> begin, end |-> -1] /\ begin <= end
           /\ pauses'[e][Len(pauses[e])] = [begin |-> begin, end |-> end]
           /\ tested' = tested \cup ((begin \div 2) .. (end \div 2))
    BY <1>T, <2>1, EndEffects
  <2>3. /\ Testing(e) /\ Len(pauses'[e]) = Len(pauses[e]) /\ Len(pauses[e]) \in Nat \ {0}
        /\ loop' = loop /\ queue' = queue
    BY <1>T, <2>1, EndEffects
  <2>4. n \in Nat /\ begin < 2 * (n + 1) /\ end >= 2 * n
    <3>1. n \in (begin \div 2) .. (end \div 2)
      BY <1>5, <2>2
    <3>2. n \in Int /\ begin \div 2 <= n /\ n <= end \div 2 /\ begin \div 2 \in Nat
      BY <3>1
    <3>3. QED
      BY <3>2
  <2>5. Covers(pauses'[e][Len(pauses'[e])], n)
    <3>1. pauses'[e][Len(pauses'[e])].begin = begin /\ pauses'[e][Len(pauses'[e])].end = end
      BY <2>2, <2>3
    <3>2. QED
      BY <2>4, <3>1 DEF Covers
  <2>6. Marked(e, n)'
    <3>1. ASSUME NEW b \in Everywhere(e)', b.n = n PROVE b.under_test
      <4>1. b \in Everywhere(e)
        <5>1. ~Read(e)
          BY <1>T, <2>3
        <5>2. QED
          BY <5>1, BlocksGrow
      <4>2. Last(pauses[e]).begin < 2 * (b.n + 1)
        BY <2>2, <2>4, <3>1
      <4>3. QED
        BY <2>3, <4>1, <4>2 DEF MarkedSoFar
    <3>2. QED
      BY <3>1 DEF Marked
  <2>7. Len(pauses'[e]) \in 1..Len(pauses'[e])
    BY <2>3
  <2>8. QED
    BY <2>5, <2>6, <2>7
<1>6. QED
  BY <1>4, <1>5 DEF TestsMarked

LEMMA CountedUnmarkedStep ==
    ASSUME ChannelInv, CountedUnmarked, [Next]_vars
    PROVE  CountedUnmarked'
<1>1. ASSUME NEW n \in counted, NEW e \in Ends
      PROVE  \E b \in store'[e] : b.n = n /\ ~b.under_test
  BY StoreGrows DEF CountedUnmarked
<1>2. CASE counted' = counted
  BY <1>1, <1>2 DEF CountedUnmarked
<1>3. CASE ClassifyPass
  <2>1. CASE Joined = {}
    BY <1>2, <2>1, <1>3 DEF ClassifyPass, vars, ctl
  <2>2. CASE Joined # {}
    <3>1. counted' = counted \cup {b.n : b \in NewInTotals(totals, Joined)} /\ store' = store
      BY <1>3, <2>2 DEF ClassifyPass
    <3>2. ASSUME NEW b \in NewInTotals(totals, Joined), NEW e \in Ends
          PROVE  \E c \in store'[e] : c.n = b.n /\ ~c.under_test
      <4>1. b \in Joined /\ ~b.under_test
        BY DEF NewInTotals
      <4>2. PICK p \in store["sender"], q \in store["receiver"] :
               /\ p.n = q.n
               /\ b = [n |-> p.n, sent |-> p.cnt, recv |-> q.cnt,
                       under_test |-> p.under_test \/ q.under_test]
        BY <4>1, JoinMembers DEF Joined
      <4>3. b.n = p.n /\ b.n = q.n /\ ~p.under_test /\ ~q.under_test
        BY <4>1, <4>2
      <4>4. e = "sender" \/ e = "receiver"
        BY DEF Ends
      <4>5. QED
        BY <3>1, <4>3, <4>4
    <3>3. QED
      BY <1>1, <3>1, <3>2 DEF CountedUnmarked
  <2>3. QED
    BY <2>1, <2>2
<1>4. counted' = counted \/ ClassifyPass
  BY DEF Next, ctl, vars, AlwaysReply, LateReply
<1>5. QED
  BY <1>2, <1>3, <1>4

LEMMA GateInvStart == Init => GateInv
<1> SUFFICES ASSUME Init PROVE GateInv
  OBVIOUS
<1>1. pauses = [e \in Ends |-> <<>>] /\ tested = {} /\ counted = {}
  BY DEF Init, MarkInit
<1>2. \A e \in Ends : ~Testing(e)
  BY <1>1 DEF Testing
<1>3. QED
  BY <1>1, <1>2 DEF GateInv, MarkedSoFar, TestsMarked, CountedUnmarked

\* What a throughput test drops is never held against the link, for every number
\* of blocks, packets, tests, reloads, failures, late and lost replies: no block
\* that a test overlapped at either end is ever in the totals, as long as no test
\* made the gate forget a pause that reaches into a block it had not read yet
\* (Gate::begin keeps PAUSE_HISTORY pauses; Gate::overlapped, Marker::read, join
\* and fold_marking).
THEOREM TestsNeverCounted == Spec /\ [][KeepsUnread]_vars => []TestsExcluded
<1> DEFINE GInv == ChannelInv /\ ClockInv /\ WireType /\ GateType /\ GateInv
<1>1. Init => GInv
  BY ChannelInit, ClockStart, WireTypeStart, GateTypeStart, GateInvStart
<1>2. GInv /\ [Next]_vars /\ [KeepsUnread]_vars => GInv'
  <2> SUFFICES ASSUME GInv, [Next]_vars, [KeepsUnread]_vars PROVE GInv'
    OBVIOUS
  <2>1. LoopTimes
    BY DEF ChannelInv
  <2>2. ChannelInv' /\ ClockInv' /\ WireType' /\ GateType'
    BY <2>1, ChannelStep, ClockStep, WireTypeStep, GateTypeStep
  <2>3. MarkedSoFar' /\ CountedUnmarked'
    BY MarkedSoFarStep, CountedUnmarkedStep DEF GateInv
  <2>4. TestsMarked'
    <3>1. CASE KeepsUnread
      BY <3>1, TestsMarkedStep DEF GateInv
    <3>2. CASE UNCHANGED vars
      <4>1. ASSUME NEW e \in Ends, GateBegin(e) PROVE FALSE
        <5>1. pauses' = pauses
          BY <3>2 DEF vars, markVars, agents
        <5>2. PICK k \in {0, 1}, t \in Nat :
                 /\ k = 1 => Len(pauses[e]) = PAUSE_HISTORY
                 /\ Len(pauses'[e]) = Len(pauses[e]) + 1 - k
                 /\ pauses'[e][Len(pauses'[e])] = [begin |-> t, end |-> -1]
          BY <2>1, <4>1, BeginEffects
        <5>3. ~Testing(e) /\ pauses[e] \in Seq(Pause)
          BY <2>1, <4>1, BeginEffects DEF GateType
        <5>4. Len(pauses[e]) \in Nat \ {0}
          BY <5>1, <5>2, <5>3, MarkingAssumption
        <5>5. pauses[e] # <<>> /\ Last(pauses[e]).end = -1
          BY <5>1, <5>2, <5>4 DEF Last
        <5>6. QED
          BY <5>3, <5>5 DEF Testing
      <4>2. QED
        BY <4>1, TestsMarkedStep DEF GateInv, KeepsUnread
    <3>3. QED
      BY <3>1, <3>2
  <2>5. QED
    BY <2>2, <2>3, <2>4 DEF GateInv
<1>3. GInv => TestsExcluded
  <2> SUFFICES ASSUME GateInv, NEW n \in tested, n \in counted PROVE FALSE
    BY DEF TestsExcluded
  <2>1. PICK e \in Ends : Marked(e, n)
    BY DEF GateInv, TestsMarked
  <2>2. PICK b \in store[e] : b.n = n /\ ~b.under_test
    BY DEF GateInv, CountedUnmarked
  <2>3. QED
    BY <2>1, <2>2 DEF Marked, Everywhere
<1>4. QED
  BY <1>1, <1>2, <1>3, PTL DEF Spec

-----------------------------------------------------------------------------
(* The bound on what goes wrong.                                           *)

Bounded == upsets \in 0..MaxUpsets

LEMMA UpsetsStep ==
    ASSUME Bounded, [Next]_vars
    PROVE  Bounded' /\ upsets' >= upsets /\ \A e \in Ends : GateBegin(e) => upsets' = upsets + 1
<1>T. upsets \in Nat /\ upsets <= MaxUpsets /\ MaxUpsets \in Nat
  BY MarkingAssumption DEF Bounded
<1>1. ASSUME upsets' = upsets \/ (upsets < MaxUpsets /\ upsets' = upsets + 1)
      PROVE  Bounded' /\ upsets' >= upsets
  BY <1>1, <1>T DEF Bounded
<1>2. ASSUME NEW e \in Ends, Reload(e) \/ Flip(e) \/ Read(e) \/ ReadFails(e) \/ GateBegin(e) \/ GateEnd(e)
      PROVE  upsets' = upsets \/ (upsets < MaxUpsets /\ upsets' = upsets + 1)
  BY <1>2 DEF Reload, Flip, FlipApplies, FlipFails, Read, ReadFails, GateBegin, GateEnd, counters
<1>3. ASSUME (\E band \in Bands : SendPacket(band)) \/ ArrivePacket PROVE upsets' = upsets
  BY <1>3 DEF SendPacket, ArrivePacket, counters
<1>4. ASSUME NEW e \in Ends, AlwaysReply(e) \/ LateReply(e)
      PROVE  upsets' = upsets \/ (upsets < MaxUpsets /\ upsets' = upsets + 1)
  BY <1>4 DEF AlwaysReply, Report, LateReply, markVars, counters
<1>5. ASSUME ClassifyPass \/ UNCHANGED vars PROVE upsets' = upsets
  BY <1>5 DEF ClassifyPass, vars, markVars, counters
<1>6. ASSUME Tick PROVE Bounded' /\ upsets' >= upsets
  <2> DEFINE hanging == {e \in Ends : loop[e].due <= now}
  <2>1. upsets' = upsets + Cardinality(hanging) /\ upsets' <= MaxUpsets
    BY <1>6 DEF Tick
  <2>2. IsFiniteSet(Ends)
    <3>1. Ends = {"sender"} \cup {"receiver"}
      BY DEF Ends
    <3>2. QED
      BY <3>1, FS_Singleton, FS_Union
  <2>3. Cardinality(hanging) \in Nat
    BY <2>2, FS_Subset, FS_CardinalityType
  <2> HIDE DEF hanging
  <2>4. QED
    BY <1>T, <2>1, <2>3 DEF Bounded
<1>7. Bounded' /\ upsets' >= upsets
  BY <1>1, <1>2, <1>3, <1>4, <1>5, <1>6 DEF Next, MarkNext
<1>8. \A e \in Ends : GateBegin(e) => upsets' = upsets + 1
  BY DEF GateBegin
<1>9. QED
  BY <1>7, <1>8

\* Every pause cost an upset.
FewPauses == \A e \in Ends : Len(pauses[e]) <= upsets

LEMMA FewPausesStep ==
    ASSUME LoopTimes, ClockInv, GateType, Bounded, FewPauses, [Next]_vars
    PROVE  FewPauses'
<1>1. /\ upsets \in Nat /\ upsets' \in Nat /\ upsets' >= upsets
      /\ \A e \in Ends : GateBegin(e) => upsets' = upsets + 1
      /\ \A e \in Ends : Len(pauses[e]) \in Nat /\ Len(pauses[e]) <= upsets
  BY UpsetsStep, MarkingAssumption DEF Bounded, GateType, FewPauses
<1>2. CASE pauses' = pauses
  BY <1>1, <1>2 DEF FewPauses
<1>3. ASSUME NEW e \in Ends, GateBegin(e) PROVE FewPauses'
  <2>1. /\ \A f \in Ends : f # e => pauses'[f] = pauses[f]
        /\ \E k \in {0, 1} : Len(pauses'[e]) = Len(pauses[e]) + 1 - k
    BY <1>3, BeginEffects
  <2>2. QED
    BY <1>1, <1>3, <2>1 DEF FewPauses
<1>4. ASSUME NEW e \in Ends, GateEnd(e) PROVE FewPauses'
  <2>1. /\ \A f \in Ends : f # e => pauses'[f] = pauses[f]
        /\ Len(pauses'[e]) = Len(pauses[e])
    BY <1>4, EndEffects
  <2>2. QED
    BY <1>1, <2>1 DEF FewPauses
<1>5. QED
  BY <1>2, <1>3, <1>4, GateSteps

LEMMA BoundStart == Init => Bounded /\ FewPauses
<1> SUFFICES ASSUME Init PROVE Bounded /\ FewPauses
  OBVIOUS
<1>1. upsets = 0 /\ pauses = [e \in Ends |-> <<>>]
  BY DEF Init, MarkInit
<1>2. Len(<<>>) = 0 /\ \A e \in Ends : pauses[e] = <<>>
  BY <1>1
<1>3. QED
  BY <1>1, <1>2, MarkingAssumption DEF Bounded, FewPauses

\* With no more tests than the gate remembers, no hypothesis on their timing is
\* needed: no block that a test overlapped is ever in the totals (PAUSE_HISTORY,
\* Gate::begin).
THEOREM FewTestsNeverCounted ==
    ASSUME MaxUpsets <= PAUSE_HISTORY
    PROVE  Spec => []TestsExcluded
<1> DEFINE BInv == ChannelInv /\ ClockInv /\ GateType /\ Bounded /\ FewPauses
<1>1. Init => BInv
  BY ChannelInit, ClockStart, GateTypeStart, BoundStart
<1>2. ASSUME BInv, [Next]_vars PROVE BInv' /\ KeepsUnread
  <2>1. LoopTimes
    BY <1>2 DEF ChannelInv
  <2>2. BInv'
    BY <1>2, <2>1, ChannelStep, ClockStep, GateTypeStep, UpsetsStep, FewPausesStep
  <2>3. ASSUME NEW e \in Ends, GateBegin(e) PROVE Len(pauses[e]) # PAUSE_HISTORY
    <3>1. upsets < MaxUpsets /\ Len(pauses[e]) <= upsets /\ Len(pauses[e]) \in Nat /\ upsets \in Nat
      BY <1>2, <2>3 DEF GateBegin, FewPauses, Bounded, GateType
    <3>2. QED
      BY <3>1, MarkingAssumption
  <2>4. QED
    BY <2>2, <2>3 DEF KeepsUnread
<1>3. Spec => [][KeepsUnread]_vars
  BY <1>1, <1>2, PTL DEF Spec
<1>4. QED
  BY <1>3, TestsNeverCounted, PTL

-----------------------------------------------------------------------------
(* The totals keep their types.                                            *)

TotalType ==
    /\ result \subseteq Nat /\ counted \subseteq Nat
    /\ totals \in [last_n : Nat, sent : Count, lost : Count]

LEMMA GreatestNumber ==
    ASSUME NEW N \in SUBSET Nat, N # {}, NEW k \in Nat, \A x \in N : x <= k
    PROVE  Max(N) \in N /\ \A x \in N : x <= Max(N)
<1> DEFINE B == {j \in Nat : \A x \in N : x <= j}
<1>1. B \in SUBSET Nat /\ k \in B
  OBVIOUS
<1>2. PICK m \in B : \A j \in B : m <= j
  BY <1>1, LeastNumber
<1>3. m \in Nat /\ \A x \in N : x \in Nat /\ x <= m
  BY <1>2
<1>4. m \in N
  <2>1. SUFFICES ASSUME m \notin N PROVE FALSE
    OBVIOUS
  <2>2. \A x \in N : x <= m - 1
    BY <1>3, <2>1
  <2>3. PICK y \in N : TRUE
    OBVIOUS
  <2>4. m - 1 \in Nat
    BY <1>3, <2>2, <2>3
  <2>5. m - 1 \in B
    BY <2>2, <2>4
  <2>6. m <= m - 1
    BY <1>2, <2>5
  <2>7. QED
    BY <1>3, <2>6
<1>5. QED
  BY <1>3, <1>4 DEF Max

LEMMA JoinedType ==
    ASSUME ReportType
    PROVE  Joined \subseteq Block /\ IsFiniteSet(Joined)
<1> DEFINE own == store["sender"]
           rev == store["receiver"]
           mk(z) == [n |-> z[1].n, sent |-> z[1].cnt, recv |-> z[2].cnt,
                     under_test |-> z[1].under_test \/ z[2].under_test]
           Q == {z \in own \X rev : z[1].n = z[2].n /\ ~z[1].reset /\ ~z[2].reset}
           f == [z \in Q |-> mk(z)]
<1>1. own \subseteq MarkBlock /\ rev \subseteq MarkBlock /\ IsFiniteSet(own) /\ IsFiniteSet(rev)
  BY DEF ReportType, Ends
<1>2. IsFiniteSet(Q)
  <2>1. IsFiniteSet(own \X rev)
    BY <1>1, FS_Product
  <2>2. QED
    BY <2>1, FS_Subset
<1>3. Joined = {mk(z) : z \in Q}
  BY DEF Joined, Join
<1>4. f \in Surjection(Q, Joined)
  <2> HIDE DEF Q
  <2>1. QED
    BY <1>3 DEF Surjection
<1>5. IsFiniteSet(Joined)
  BY <1>2, <1>4, FS_Surjection
<1>6. ASSUME NEW b \in Joined PROVE b \in Block
  <2>1. PICK p \in own, q \in rev :
           b = [n |-> p.n, sent |-> p.cnt, recv |-> q.cnt, under_test |-> p.under_test \/ q.under_test]
    BY JoinMembers DEF Joined
  <2>2. p \in MarkBlock /\ q \in MarkBlock
    BY <1>1
  <2>3. QED
    BY <2>1, <2>2 DEF MarkBlock, Block
<1>7. QED
  BY <1>5, <1>6

LEMMA LostInType == ASSUME NEW b \in Block, NEW band \in Bands PROVE LostIn(b, band) \in Nat
<1>1. b.sent[band] \in Nat /\ b.recv[band] \in Nat
  BY DEF Block, Count
<1>2. QED
  BY <1>1 DEF LostIn

\* What a window sent and lost are numbers, and are taken together over two windows.
LEMMA WindowType ==
    ASSUME NEW W \in SUBSET Block, IsFiniteSet(W), NEW band \in Bands
    PROVE  SentIn(W, band) \in Nat /\ LostOver(W, band) \in Nat
<1> DEFINE f == [b \in W |-> b.sent[band]]
           g == [b \in W |-> LostIn(b, band)]
<1>1. \A b \in W : f[b] \in Nat /\ g[b] \in Nat
  BY LostInType DEF Block, Count
<1>2. DOMAIN f = W /\ DOMAIN g = W
  OBVIOUS
<1> HIDE DEF f, g
<1>3. SumFunction(f) \in Nat /\ SumFunction(g) \in Nat
  BY <1>1, <1>2, SumNat DEF SumFunction
<1>4. QED
  BY <1>3 DEF SentIn, LostOver, f, g

LEMMA WindowUnion ==
    ASSUME NEW V \in SUBSET Block, NEW W \in SUBSET Block, IsFiniteSet(V), IsFiniteSet(W),
           V \cap W = {}, NEW band \in Bands
    PROVE  /\ SentIn(V \cup W, band) = SentIn(V, band) + SentIn(W, band)
           /\ LostOver(V \cup W, band) = LostOver(V, band) + LostOver(W, band)
<1> DEFINE f(S) == [b \in S |-> b.sent[band]]
           g(S) == [b \in S |-> LostIn(b, band)]
<1>1. /\ \A b \in V \cup W : f(V \cup W)[b] \in Nat /\ g(V \cup W)[b] \in Nat
      /\ \A b \in V : f(V \cup W)[b] = f(V)[b] /\ g(V \cup W)[b] = g(V)[b]
      /\ \A b \in W : f(V \cup W)[b] = f(W)[b] /\ g(V \cup W)[b] = g(W)[b]
  BY LostInType DEF Block, Count
<1>2. \A S : DOMAIN f(S) = S /\ DOMAIN g(S) = S
  OBVIOUS
<1> HIDE DEF f, g
<1>3. /\ SumFunctionOnSet(f(V \cup W), V \cup W) = SumFunctionOnSet(f(V \cup W), V) + SumFunctionOnSet(f(V \cup W), W)
      /\ SumFunctionOnSet(g(V \cup W), V \cup W) = SumFunctionOnSet(g(V \cup W), V) + SumFunctionOnSet(g(V \cup W), W)
  BY <1>1, SumUnion
<1>4. /\ SumFunctionOnSet(f(V \cup W), V) = SumFunctionOnSet(f(V), V)
      /\ SumFunctionOnSet(f(V \cup W), W) = SumFunctionOnSet(f(W), W)
      /\ SumFunctionOnSet(g(V \cup W), V) = SumFunctionOnSet(g(V), V)
      /\ SumFunctionOnSet(g(V \cup W), W) = SumFunctionOnSet(g(W), W)
  <2>1. \A x \in V : f(V \cup W)[x] = f(V)[x]
    BY <1>1
  <2>2. \A x \in W : f(V \cup W)[x] = f(W)[x]
    BY <1>1
  <2>3. \A x \in V : g(V \cup W)[x] = g(V)[x]
    BY <1>1
  <2>4. \A x \in W : g(V \cup W)[x] = g(W)[x]
    BY <1>1
  <2>5. SumFunctionOnSet(f(V \cup W), V) = SumFunctionOnSet(f(V), V)
    BY ONLY IsFiniteSet(V), <2>1, SumCongruent, Zenon
  <2>6. SumFunctionOnSet(f(V \cup W), W) = SumFunctionOnSet(f(W), W)
    BY ONLY IsFiniteSet(W), <2>2, SumCongruent, Zenon
  <2>7. SumFunctionOnSet(g(V \cup W), V) = SumFunctionOnSet(g(V), V)
    BY ONLY IsFiniteSet(V), <2>3, SumCongruent, Zenon
  <2>8. SumFunctionOnSet(g(V \cup W), W) = SumFunctionOnSet(g(W), W)
    BY ONLY IsFiniteSet(W), <2>4, SumCongruent, Zenon
  <2>9. QED
    BY <2>5, <2>6, <2>7, <2>8
<1>5. \A S : /\ SentIn(S, band) = SumFunctionOnSet(f(S), S)
             /\ LostOver(S, band) = SumFunctionOnSet(g(S), S)
  BY <1>2 DEF SentIn, LostOver, SumFunction, f, g
<1>6. QED
  BY <1>3, <1>4, <1>5

\* A pass that finds joined blocks folds the new ones in.
LEMMA TotalSteps ==
    ASSUME [Next]_vars
    PROVE  \/ UNCHANGED <<result, totals, counted>>
           \/ LET new == NewInTotals(totals, Joined)
              IN  /\ Joined # {} /\ UNCHANGED <<store, loop>>
                  /\ result' = result \cup {b.n : b \in {x \in Joined : Sent(x) > 0}}
                  /\ totals' = [last_n |-> Max({totals.last_n} \cup {b.n : b \in Joined}),
                                sent |-> [band \in Bands |-> totals.sent[band] + SentIn(new, band)],
                                lost |-> [band \in Bands |-> totals.lost[band] + LostOver(new, band)]]
                  /\ counted' = counted \cup {b.n : b \in new}
<1>1. ASSUME MarkNext, UNCHANGED ctl PROVE UNCHANGED <<result, totals, counted>>
  BY <1>1 DEF ctl
<1>2. ASSUME NEW e \in Ends, AlwaysReply(e) \/ LateReply(e) PROVE UNCHANGED <<result, totals, counted>>
  BY <1>2 DEF AlwaysReply, LateReply
<1>3. CASE UNCHANGED vars
  BY <1>3 DEF vars, ctl
<1>4. CASE ClassifyPass /\ Joined = {}
  BY <1>4 DEF ClassifyPass, vars, ctl
<1>5. CASE ClassifyPass /\ Joined # {}
  <2>1. UNCHANGED <<store, loop>>
    BY <1>5 DEF ClassifyPass, markVars, agents
  <2>2. QED
    BY <1>5, <2>1 DEF ClassifyPass
<1>6. QED
  BY <1>1, <1>2, <1>3, <1>4, <1>5 DEF Next

\* The joined blocks are all older than the block the sender reads next.
LEMMA JoinedOlder ==
    ASSUME ChannelInv
    PROVE  \A b \in Joined : b.n \in Nat /\ b.n < loop["sender"].n
<1>1. ASSUME NEW b \in Joined PROVE \E p \in Everywhere("sender") : b.n = p.n
  BY JoinMembers DEF Joined, Everywhere
<1>2. "sender" \in Ends
  BY DEF Ends
<1>3. QED
  BY <1>1, <1>2 DEF ChannelInv, Numbered

LEMMA NewestJoined ==
    ASSUME ChannelInv, TotalType, NEW k, k = Max({totals.last_n} \cup {b.n : b \in Joined})
    PROVE  k \in Nat /\ k >= totals.last_n /\ \A b \in Joined : b.n <= k
<1> DEFINE N == {totals.last_n} \cup {b.n : b \in Joined}
           h == totals.last_n + loop["sender"].n
<1>1. totals.last_n \in Nat /\ loop["sender"].n \in Nat
  BY DEF TotalType, ChannelInv, LoopTimes, Ends
<1>2. N \in SUBSET Nat /\ N # {}
  BY <1>1, JoinedOlder
<1>3. h \in Nat /\ \A x \in N : x <= h
  BY <1>1, JoinedOlder
<1>4. totals.last_n \in N /\ \A b \in Joined : b.n \in N
  OBVIOUS
<1>5. k = Max(N)
  OBVIOUS
<1> HIDE DEF N, h
<1>6. Max(N) \in N /\ \A x \in N : x <= Max(N)
  BY <1>2, <1>3, GreatestNumber
<1>7. QED
  BY <1>1, <1>2, <1>4, <1>5, <1>6

LEMMA TotalTypeStep ==
    ASSUME ChannelInv, ReportType, TotalType, [Next]_vars
    PROVE  TotalType'
<1>1. CASE UNCHANGED <<result, totals, counted>>
  BY <1>1 DEF TotalType
<1>2. ASSUME NEW new, new = NewInTotals(totals, Joined),
             result' = result \cup {b.n : b \in {x \in Joined : Sent(x) > 0}},
             totals' = [last_n |-> Max({totals.last_n} \cup {b.n : b \in Joined}),
                        sent |-> [band \in Bands |-> totals.sent[band] + SentIn(new, band)],
                        lost |-> [band \in Bands |-> totals.lost[band] + LostOver(new, band)]],
             counted' = counted \cup {b.n : b \in new}
      PROVE  TotalType'
  <2>1. new \subseteq Joined
    BY <1>2 DEF NewInTotals
  <2>2. new \in SUBSET Block /\ IsFiniteSet(new)
    BY <2>1, JoinedType, FS_Subset
  <2>3. \A band \in Bands : SentIn(new, band) \in Nat /\ LostOver(new, band) \in Nat
    BY <2>2, WindowType
  <2>4. /\ totals.sent \in Count /\ totals.lost \in Count
        /\ result \subseteq Nat /\ counted \subseteq Nat
    BY DEF TotalType
  <2>5. /\ [band \in Bands |-> totals.sent[band] + SentIn(new, band)] \in Count
        /\ [band \in Bands |-> totals.lost[band] + LostOver(new, band)] \in Count
    BY <2>3, <2>4 DEF Count
  <2>6. Max({totals.last_n} \cup {b.n : b \in Joined}) \in Nat
    BY NewestJoined
  <2>7. totals' \in [last_n : Nat, sent : Count, lost : Count]
    BY <1>2, <2>5, <2>6
  <2>8. result' \subseteq Nat /\ counted' \subseteq Nat
    BY <1>2, <2>1, <2>4, JoinedOlder
  <2>9. QED
    BY <2>7, <2>8 DEF TotalType
<1>3. QED
  BY <1>1, <1>2, TotalSteps

LEMMA TotalTypeStart == Init => TotalType
<1> SUFFICES ASSUME Init PROVE TotalType
  OBVIOUS
<1>1. /\ result = {} /\ counted = {}
      /\ totals = [last_n |-> 0, sent |-> ZeroCount, lost |-> ZeroCount]
  BY DEF Init
<1>2. ZeroCount \in Count
  BY DEF ZeroCount, Count
<1>3. QED
  BY <1>1, <1>2 DEF TotalType

TypeInv ==
    /\ ChannelInv /\ ClockInv /\ WireType /\ ReportType /\ GateType /\ Bounded /\ TotalType

LEMMA TypeInvStep ==
    ASSUME TypeInv, [Next]_vars
    PROVE  TypeInv'
<1>1. LoopTimes
  BY DEF TypeInv, ChannelInv
<1>2. QED
  BY <1>1, ChannelStep, ClockStep, WireTypeStep, ReportTypeStep, GateTypeStep, UpsetsStep, TotalTypeStep
     DEF TypeInv

LEMMA TypeInvStart == Init => TypeInv
BY ChannelInit, ClockStart, WireTypeStart, ReportTypeStart, GateTypeStart, BoundStart, TotalTypeStart
   DEF TypeInv

\* Every variable of the passive tier keeps its type: no queue outgrows its cap,
\* no gate its history, no counter goes below zero, and no block is read that was
\* never begun, for every number of blocks, packets and faults.
THEOREM PassiveTypeCorrect == Spec => []TypeOK
<1>1. ASSUME TypeInv PROVE TypeOK
  <2>1. LoopTimes /\ WireType /\ ReportType /\ GateType /\ Bounded /\ TotalType
    BY <1>1 DEF TypeInv, ChannelInv
  <2>2. MarkTypeOK
    BY <2>1 DEF MarkTypeOK, LoopTimes, WireType, ReportType, GateType, Bounded, Table
  <2>3. QED
    BY <2>1, <2>2 DEF TypeOK, ReportType, TotalType
<1>2. QED
  BY <1>1, TypeInvStep, TypeInvStart, PTL DEF Spec

-----------------------------------------------------------------------------
(* The totals take every block once.                                       *)

\* An end reports a block once.
Distinct == \A e \in Ends : \A b, c \in Everywhere(e) : b.n = c.n => b = c

LEMMA DistinctStep ==
    ASSUME ChannelInv, ClockInv, WireType, Distinct, [Next]_vars
    PROVE  Distinct'
<1>1. ASSUME NEW e \in Ends, NEW b \in Everywhere(e)', NEW c \in Everywhere(e)', b.n = c.n
      PROVE  b = c
  <2> DEFINE n == loop[e].n
             f == FinishedBlock(e, n, Overlapped(e, 2 * n, 2 * (n + 1)))
  <2>1. /\ b \in Everywhere(e) \/ b = f
        /\ c \in Everywhere(e) \/ c = f
    BY BlocksGrow
  <2>2. f.n = n /\ n \in Nat
    BY DEF FinishedBlock, ChannelInv, LoopTimes
  <2>3. \A x \in Everywhere(e) : x.n \in Nat /\ x.n < n
    BY DEF ChannelInv, Numbered
  <2> HIDE DEF f, n
  <2>4. QED
    BY <1>1, <2>1, <2>2, <2>3 DEF Distinct
<1>2. QED
  BY <1>1 DEF Distinct

\* So a block number is joined once.
LEMMA JoinedDistinct ==
    ASSUME Distinct
    PROVE  \A b, c \in Joined : b.n = c.n => b = c
<1>1. ASSUME NEW b \in Joined, NEW c \in Joined, b.n = c.n PROVE b = c
  <2>1. PICK p \in store["sender"], q \in store["receiver"] :
           /\ p.n = q.n
           /\ b = [n |-> p.n, sent |-> p.cnt, recv |-> q.cnt,
                   under_test |-> p.under_test \/ q.under_test]
    BY JoinMembers DEF Joined
  <2>2. PICK r \in store["sender"], s \in store["receiver"] :
           /\ r.n = s.n
           /\ c = [n |-> r.n, sent |-> r.cnt, recv |-> s.cnt,
                   under_test |-> r.under_test \/ s.under_test]
    BY JoinMembers DEF Joined
  <2>3. p.n = r.n /\ q.n = s.n
    BY <1>1, <2>1, <2>2
  <2>4. p = r /\ q = s
    BY <2>3 DEF Distinct, Everywhere, Ends
  <2>5. QED
    BY <2>1, <2>2, <2>4
<1>2. QED
  BY <1>1

LEMMA JoinedGrows ==
    ASSUME ChannelInv, [Next]_vars
    PROVE  Joined \subseteq Joined'
<1>1. store["sender"] \subseteq store'["sender"] /\ store["receiver"] \subseteq store'["receiver"]
  BY StoreGrows DEF Ends
<1>2. ASSUME NEW b \in Join(store["sender"], store["receiver"])
      PROVE  b \in Join(store'["sender"], store'["receiver"])
  BY <1>1, JoinMembers
<1>3. QED
  BY <1>2 DEF Joined

Behind == \A n \in counted : n <= totals.last_n

LEMMA TotalsOnceStep ==
    ASSUME TypeInv, Distinct, Behind, TotalsOnce, [Next]_vars, TypeInv', Distinct'
    PROVE  Behind' /\ TotalsOnce'
<1> DEFINE Taken == {b \in Joined : b.n \in counted}
<1>T. /\ ChannelInv /\ ReportType /\ TotalType
      /\ totals.last_n \in Nat /\ counted \subseteq Nat
  BY DEF TypeInv, TotalType
<1>O. /\ {b.n : b \in Taken} = counted
      /\ \A band \in Bands : totals.sent[band] = SentIn(Taken, band) /\ totals.lost[band] = LostOver(Taken, band)
  BY DEF TotalsOnce
<1>1. ASSUME UNCHANGED <<totals, counted>> PROVE Behind' /\ TotalsOnce'
  <2>1. Joined \subseteq Joined' /\ \A b, c \in Joined' : b.n = c.n => b = c
    <3>1. \A b, c \in Joined' : b.n = c.n => b = c
      <4>1. (Distinct => \A b, c \in Joined : b.n = c.n => b = c)'
        BY JoinedDistinct, PTL
      <4>2. QED
        BY <4>1
    <3>2. QED
      BY <1>T, <3>1, JoinedGrows
  <2>2. Taken' = Taken
    BY <1>1, <1>O, <2>1
  <2>3. QED
    BY <1>1, <1>O, <2>2 DEF Behind, TotalsOnce
<1>2. ASSUME NEW new, new = NewInTotals(totals, Joined), UNCHANGED store,
             totals' = [last_n |-> Max({totals.last_n} \cup {b.n : b \in Joined}),
                        sent |-> [band \in Bands |-> totals.sent[band] + SentIn(new, band)],
                        lost |-> [band \in Bands |-> totals.lost[band] + LostOver(new, band)]],
             counted' = counted \cup {b.n : b \in new}
      PROVE  Behind' /\ TotalsOnce'
  <2>1. Joined' = Joined
    BY <1>2 DEF Joined
  <2>2. new = {b \in Joined : b.n > totals.last_n /\ ~b.under_test}
    BY <1>2 DEF NewInTotals
  <2>3. /\ totals'.last_n = Max({totals.last_n} \cup {b.n : b \in Joined})
        /\ \A band \in Bands : /\ totals'.sent[band] = totals.sent[band] + SentIn(new, band)
                               /\ totals'.lost[band] = totals.lost[band] + LostOver(new, band)
    BY <1>2
  <2>4. /\ totals'.last_n \in Nat /\ totals'.last_n >= totals.last_n
        /\ \A b \in Joined : b.n <= totals'.last_n
    BY <1>T, <2>3, NewestJoined
  <2>5. Behind'
    BY <1>T, <1>2, <2>2, <2>4 DEF Behind
  <2>6. Taken \cap new = {}
    <3>1. \A n \in counted : n \in Nat /\ n <= totals.last_n
      BY <1>T DEF Behind
    <3>2. ASSUME NEW b \in Taken PROVE ~(b.n > totals.last_n)
      <4>1. b.n \in counted
        OBVIOUS
      <4> HIDE DEF Taken
      <4>2. b.n \in Nat /\ b.n <= totals.last_n /\ totals.last_n \in Nat
        BY <1>T, <3>1, <4>1
      <4>3. QED
        BY <4>2
    <3>3. QED
      BY <2>2, <3>2
  <2>7. Taken' = Taken \cup new
    <3>1. \A b, c \in Joined : b.n = c.n => b = c
      BY JoinedDistinct
    <3>2. QED
      BY <1>2, <2>1, <2>2, <3>1
  <2>8. {b.n : b \in Taken'} = counted'
    BY <1>2, <1>O, <2>7
  <2>9. /\ Taken \in SUBSET Block /\ IsFiniteSet(Taken)
        /\ new \in SUBSET Block /\ IsFiniteSet(new)
    <3>1. Taken \subseteq Joined /\ new \subseteq Joined
      BY <2>2
    <3>2. QED
      BY <1>T, <3>1, JoinedType, FS_Subset
  <2> HIDE DEF Taken
  <2>10. ASSUME NEW band \in Bands
         PROVE  totals'.sent[band] = SentIn(Taken', band) /\ totals'.lost[band] = LostOver(Taken', band)
    <3>1. /\ SentIn(Taken \cup new, band) = SentIn(Taken, band) + SentIn(new, band)
          /\ LostOver(Taken \cup new, band) = LostOver(Taken, band) + LostOver(new, band)
      BY <2>6, <2>9, WindowUnion
    <3>2. QED
      BY <1>O, <2>3, <2>7, <3>1
  <2>11. QED
    BY <2>5, <2>8, <2>10 DEF TotalsOnce, Taken
<1>3. QED
  BY <1>1, <1>2, TotalSteps

\* However often a pass sees a block, in whatever order the halves arrive and
\* whatever is reported late or lost, the running totals are the sum of the blocks
\* they took in, each once (fold_marking's last_n), for every number of blocks.
THEOREM TotalsTakeOnce == Spec => []TotalsOnce
<1>1. Init => Distinct /\ Behind /\ TotalsOnce
  <2> SUFFICES ASSUME Init PROVE Distinct /\ Behind /\ TotalsOnce
    OBVIOUS
  <2>1. /\ counted = {} /\ store = [e \in Ends |-> {}] /\ replies = {}
        /\ queue = [e \in Ends |-> <<>>]
        /\ totals = [last_n |-> 0, sent |-> ZeroCount, lost |-> ZeroCount]
    BY DEF Init, MarkInit
  <2>2. \A e \in Ends : Everywhere(e) = {}
    BY <2>1 DEF Everywhere, InReplies, ToSet
  <2>3. \A band \in Bands : SentIn({}, band) = 0 /\ LostOver({}, band) = 0
    <3>1. ASSUME NEW band \in Bands PROVE SentIn({}, band) = 0 /\ LostOver({}, band) = 0
      <4> DEFINE f == [b \in {} |-> b.sent[band]]
                 g == [b \in {} |-> LostIn(b, band)]
      <4>1. DOMAIN f = {} /\ DOMAIN g = {}
        OBVIOUS
      <4> HIDE DEF f, g
      <4>2. SumFunction(f) = 0 /\ SumFunction(g) = 0
        BY <4>1, SumEmpty DEF SumFunction
      <4>3. QED
        BY <4>2 DEF SentIn, LostOver, f, g
    <3>2. QED
      BY <3>1
  <2>4. {b \in Joined : b.n \in counted} = {}
    BY <2>1
  <2>5. \A band \in Bands : totals.sent[band] = 0 /\ totals.lost[band] = 0
    BY <2>1 DEF ZeroCount
  <2>6. TotalsOnce
    BY <2>1, <2>3, <2>4, <2>5 DEF TotalsOnce
  <2>7. QED
    BY <2>1, <2>2, <2>6 DEF Distinct, Behind
<1>2. ASSUME TypeInv, Distinct, Behind, TotalsOnce, [Next]_vars
      PROVE  TypeInv' /\ Distinct' /\ Behind' /\ TotalsOnce'
  <2>1. TypeInv' /\ Distinct'
    BY <1>2, TypeInvStep, DistinctStep DEF TypeInv
  <2>2. QED
    BY <1>2, <2>1, TotalsOnceStep
<1>3. QED
  BY <1>1, <1>2, TypeInvStart, PTL DEF Spec

-----------------------------------------------------------------------------
(* The sender's map and its blocks.                                        *)

\* The block that the sender's loop last asked for.
Begun == IF loop["sender"].pc = "half" THEN loop["sender"].n + 1 ELSE loop["sender"].n

LEMMA BegunType ==
    ASSUME LoopTimes, ClockInv
    PROVE  /\ Begun \in Nat /\ 2 * Begun <= now /\ loop["sender"].n <= Begun
           /\ loop["sender"].n \in Nat /\ now \in Nat /\ "sender" \in Ends /\ "receiver" \in Ends
           /\ loop["sender"].pc = "half" => Begun = loop["sender"].n + 1
<1>1. "sender" \in Ends /\ "receiver" \in Ends
  BY DEF Ends
<1>2. /\ now \in Nat /\ loop["sender"].n \in Nat /\ now >= 2 * loop["sender"].n
      /\ loop["sender"].pc = "half" => now >= 2 * (loop["sender"].n + 1)
  BY <1>1 DEF LoopTimes, ClockInv
<1>3. QED
  BY <1>1, <1>2 DEF Begun

\* Only a flip of the sender begins a block, the next one, and in time or not.
LEMMA BegunStep ==
    ASSUME WireType, LoopTimes, ClockInv, [Next]_vars
    PROVE  /\ Begun' \in Nat /\ Begun' >= Begun /\ now' \in Nat /\ now' >= now
           /\ Flip("sender") => Begun = loop["sender"].n /\ Begun' = Begun + 1 /\ now' = now
           /\ \A e \in Ends : loop'[e].n >= loop[e].n
           /\ flipped \subseteq flipped' /\ rebuilt \subseteq rebuilt'
           /\ \A f \in flipped' : f \notin flipped => Flip("sender") /\ f = Begun + 1 /\ now = 2 * f
<1>T. /\ Begun \in Nat /\ now \in Nat /\ "sender" \in Ends /\ "receiver" \in Ends
      /\ \A e \in Ends : loop[e].n \in Nat
  BY BegunType DEF LoopTimes
<1> DEFINE Goal == /\ Begun' \in Nat /\ Begun' >= Begun /\ now' \in Nat /\ now' >= now
                   /\ \A e \in Ends : loop'[e].n >= loop[e].n
                   /\ flipped \subseteq flipped' /\ rebuilt \subseteq rebuilt'
                   /\ \A f \in flipped' : f \notin flipped => Flip("sender") /\ f = Begun + 1 /\ now = 2 * f
<1>1. ASSUME NEW e \in Ends, Flip(e)
      PROVE  Goal /\ (e = "sender" => Begun = loop["sender"].n /\ Begun' = Begun + 1 /\ now' = now)
  <2>1. /\ now' = now /\ rebuilt' = rebuilt /\ loop[e].pc = "sleep"
        /\ loop'[e].pc = "half" /\ loop'[e].n = loop[e].n /\ \A f \in Ends : f # e => loop'[f] = loop[f]
        /\ \/ flipped' = flipped
           \/ e = "sender" /\ flipped' = IF now = 2 * (loop[e].n + 1) THEN flipped \cup {loop[e].n + 1}
                                                                     ELSE flipped
    BY <1>1, FlipEffects
  <2>2. /\ e = "sender" => Begun = loop["sender"].n /\ Begun' = Begun + 1
        /\ e # "sender" => Begun' = Begun
    BY <1>T, <2>1 DEF Begun
  <2>3. \A f \in Ends : loop'[f].n = loop[f].n
    BY <2>1
  <2>4. \A f \in flipped' : f \notin flipped => Flip("sender") /\ f = Begun + 1 /\ now = 2 * f
    BY <1>1, <2>1, <2>2
  <2>5. QED
    BY <1>T, <2>1, <2>2, <2>3, <2>4
<1>2. ASSUME NEW e \in Ends, Read(e) \/ ReadFails(e) PROVE Goal
  <2>1. /\ now' = now /\ rebuilt' = rebuilt /\ flipped' = flipped
        /\ loop[e].pc = "half" /\ loop'[e].pc = "sleep" /\ loop'[e].n > loop[e].n
        /\ loop'[e].n = now \div 2 /\ \A f \in Ends : f # e => loop'[f] = loop[f]
    BY <1>2, ReadTurns
  <2>2. loop'[e].n \in Nat
    BY <1>T, <2>1
  <2>3. Begun' \in Nat /\ Begun' >= Begun
    BY <1>T, <2>1, <2>2 DEF Begun
  <2>4. \A f \in Ends : loop'[f].n >= loop[f].n
    BY <1>T, <2>1, <2>2
  <2>5. QED
    BY <1>T, <2>1, <2>3, <2>4
<1>3. ASSUME UNCHANGED <<now, loop, flipped>>, rebuilt \subseteq rebuilt' PROVE Goal
  BY <1>T, <1>3 DEF Begun
<1>4. ASSUME NEW e \in Ends, Reload(e) PROVE UNCHANGED <<now, loop, flipped>> /\ rebuilt \subseteq rebuilt'
  BY <1>4, ReloadEffects
<1>5. ASSUME (\E band \in Bands : SendPacket(band)) \/ ArrivePacket PROVE UNCHANGED <<now, loop, flipped, rebuilt>>
  BY <1>5, SendEffects, ArriveEffects
<1>6. ASSUME Tick PROVE Goal
  <2>1. UNCHANGED <<loop, flipped, rebuilt>> /\ now' = now + 1
    BY <1>6, TickEffects
  <2>2. QED
    BY <1>T, <2>1 DEF Begun
<1>7. UNCHANGED wire => UNCHANGED <<now, loop, flipped, rebuilt>>
  BY DEF wire
<1>8. Goal
  BY <1>1, <1>2, <1>3, <1>4, <1>5, <1>6, <1>7, WireSteps
<1>9. Flip("sender") => Begun = loop["sender"].n /\ Begun' = Begun + 1 /\ now' = now
  BY <1>T, <1>1
<1>10. QED
  BY <1>8, <1>9

\* The map holds the newest block that was begun in time, or a later one; what is
\* not begun carried nothing.
MapInv ==
    /\ table["sender"].member <=> mapped # Unmapped
    /\ mapped # Unmapped => mapped <= Begun /\ \A f \in flipped : f <= mapped
    /\ \A f \in flipped : f <= Begun
    /\ \A m \in Blocks : m > Begun => sent[m] = ZeroCount

LEMMA MapInvStep ==
    ASSUME WireType, LoopTimes, ClockInv, MapInv, [Next]_vars
    PROVE  MapInv'
<1>T. /\ Begun \in Nat /\ Begun' \in Nat /\ Begun' >= Begun /\ "sender" \in Ends
      /\ loop["sender"].n \in Nat /\ flipped \subseteq Nat /\ Blocks \subseteq Nat
      /\ mapped # Unmapped => mapped \in Nat /\ mapped \in Blocks
      /\ Unmapped \notin Nat
  BY BegunType, BegunStep, BlockNumbers DEF WireType, Unmapped
<1>M. /\ \A f \in flipped : f \in Nat /\ f <= Begun
      /\ \A m \in Blocks : m \in Nat /\ (m > Begun => sent[m] = ZeroCount)
      /\ mapped # Unmapped => mapped <= Begun /\ \A f \in flipped : f <= mapped
  BY <1>T DEF MapInv
<1>1. ASSUME UNCHANGED <<mapped, flipped, sent>>, table'["sender"].member = table["sender"].member
      PROVE  MapInv'
  <2>1. table'["sender"].member <=> mapped' # Unmapped
    BY <1>1 DEF MapInv
  <2>2. ASSUME mapped' # Unmapped PROVE mapped' <= Begun' /\ \A f \in flipped' : f <= mapped'
    <3>1. mapped \in Nat /\ mapped <= Begun /\ \A f \in flipped : f <= mapped
      BY <1>T, <1>M, <1>1, <2>2
    <3>2. mapped' <= Begun'
      BY <1>T, <1>1, <3>1
    <3>3. QED
      BY <1>1, <3>1, <3>2
  <2>3. \A f \in flipped' : f <= Begun'
    BY <1>T, <1>M, <1>1
  <2>4. ASSUME NEW m \in Blocks, m > Begun' PROVE sent'[m] = ZeroCount
    <3>1. m \in Nat /\ m > Begun
      BY <1>T, <1>M, <2>4
    <3>2. QED
      BY <1>M, <1>1, <3>1
  <2>5. QED
    BY <2>1, <2>2, <2>3, <2>4, Zenon DEF MapInv
<1>2. ASSUME NEW e \in Ends, Flip(e) PROVE MapInv'
  <2>1. CASE UNCHANGED <<mapped, flipped, table>>
    BY <1>1, <1>2, <2>1, FlipEffects
  <2>2. CASE ~UNCHANGED <<mapped, flipped, table>> /\ e # "sender"
    <3>1. UNCHANGED <<mapped, flipped, sent>> /\ table'["sender"] = table["sender"]
      BY <1>T, <1>2, <2>2, FlipEffects
    <3>2. QED
      BY <1>1, <3>1
  <2>3. CASE ~UNCHANGED <<mapped, flipped, table>> /\ e = "sender"
    <3>1. /\ sent' = sent /\ table'["sender"].member /\ mapped' = loop["sender"].n + 1
          /\ flipped' \subseteq flipped \cup {loop["sender"].n + 1}
      BY <1>2, <2>3, FlipEffects
    <3>2. Begun = loop["sender"].n /\ Begun' = Begun + 1
      BY <1>2, <2>3, BegunStep
    <3>3. mapped' = Begun' /\ mapped' \in Nat /\ mapped' # Unmapped
      BY <1>T, <3>1, <3>2
    <3>4. ASSUME NEW f \in flipped' PROVE f <= Begun'
      <4>1. f \in flipped \/ f = Begun'
        BY <3>1, <3>2
      <4>2. f \in flipped => f \in Nat /\ f <= Begun
        BY <1>M
      <4>3. QED
        BY <1>T, <4>1, <4>2
    <3>5. ASSUME NEW m \in Blocks, m > Begun' PROVE sent'[m] = ZeroCount
      <4>1. m \in Nat /\ m > Begun
        BY <1>T, <1>M, <3>5
      <4>2. QED
        BY <1>M, <3>1, <4>1
    <3>6. table'["sender"].member <=> mapped' # Unmapped
      BY <3>1, <3>3
    <3>7. mapped' # Unmapped => mapped' <= Begun' /\ \A f \in flipped' : f <= mapped'
      BY <1>T, <3>3, <3>4
    <3>8. QED
      BY <3>4, <3>5, <3>6, <3>7, Zenon DEF MapInv
  <2>4. QED
    BY <2>1, <2>2, <2>3
<1>3. ASSUME NEW e \in Ends, Read(e) \/ ReadFails(e)
      PROVE  UNCHANGED <<mapped, flipped, sent, table>>
  BY <1>3, ReadTurns
<1>4. ASSUME NEW e \in Ends, Reload(e) PROVE MapInv'
  <2>1. CASE e = "sender"
    <3>1. UNCHANGED <<flipped, sent>> /\ mapped' = Unmapped /\ ~table'["sender"].member
      BY <1>4, <2>1, ReloadEffects
    <3>2. \A f \in flipped' : f <= Begun'
      BY <1>T, <1>M, <3>1
    <3>3. ASSUME NEW m \in Blocks, m > Begun' PROVE sent'[m] = ZeroCount
      <4>1. m \in Nat /\ m > Begun
        BY <1>T, <1>M, <3>3
      <4>2. QED
        BY <1>M, <3>1, <4>1
    <3>4. QED
      BY <3>1, <3>2, <3>3, Zenon DEF MapInv
  <2>2. CASE e # "sender"
    <3>1. UNCHANGED <<flipped, sent, mapped>> /\ table'["sender"] = table["sender"]
      BY <1>T, <1>4, <2>2, ReloadEffects
    <3>2. QED
      BY <1>1, <3>1
  <2>3. QED
    BY <2>1, <2>2
<1>5. ASSUME NEW band \in Bands, SendPacket(band) PROVE MapInv'
  <2>1. UNCHANGED <<mapped, flipped>>
    BY <1>5, SendEffects
  <2>2. CASE mapped = Unmapped
    BY <1>1, <1>5, <2>1, <2>2, SendEffects
  <2>3. CASE mapped # Unmapped
    <3>1. /\ table'["sender"].member = table["sender"].member
          /\ \A m \in Blocks : m # mapped => sent'[m] = sent[m]
      BY <1>5, <2>3, SendEffects DEF TableCounts, BlockCounts
    <3>2. \A m \in Blocks : m > Begun' => sent'[m] = ZeroCount
      BY <1>T, <2>3, <3>1 DEF MapInv
    <3>3. QED
      BY <1>T, <2>1, <3>1, <3>2 DEF MapInv
  <2>4. QED
    BY <2>2, <2>3
<1>6. ASSUME ArrivePacket PROVE MapInv'
  <2>1. UNCHANGED <<mapped, flipped, sent>>
    BY <1>6, ArriveEffects
  <2>2. table'["sender"] = table["sender"]
    BY <1>T, <1>6, ArriveEffects DEF TableCounts
  <2>3. QED
    BY <1>1, <2>1, <2>2
<1>7. ASSUME Tick PROVE UNCHANGED <<mapped, flipped, sent, table>>
  BY <1>7, TickEffects
<1>8. UNCHANGED wire => UNCHANGED <<mapped, flipped, sent, table>>
  BY DEF wire
<1>9. QED
  BY <1>1, <1>2, <1>3, <1>4, <1>5, <1>6, <1>7, <1>8, WireSteps

\* A baseline was read from the table of its handle, before the block that is read next.
BaseInv ==
    \A e \in Ends, c \in Colours : last[e][c] # NoBaseline =>
        /\ ColourOf(last[e][c].n) = c /\ last[e][c].n < loop[e].n
        /\ last[e][c].handle <= table[e].handle
        /\ last[e][c].handle = table[e].handle /\ last[e][c].member => table[e].member

LEMMA BaseInvStep ==
    ASSUME WireType, LoopTimes, ClockInv, BaseInv, [Next]_vars
    PROVE  BaseInv'
<1>T. /\ \A e \in Ends : loop[e].n \in Nat /\ loop'[e].n \in Nat /\ loop'[e].n >= loop[e].n
      /\ \A e \in Ends : table[e] \in Table /\ table[e].handle \in Nat
      /\ \A e \in Ends, c \in Colours : last[e][c] # NoBaseline =>
            last[e][c] \in Reading /\ last[e][c].n \in Nat /\ last[e][c].handle \in Nat
  <2>1. \A e \in Ends : loop'[e].n \in Nat
    BY LoopStep DEF LoopTimes
  <2>2. QED
    BY <2>1, BegunStep DEF LoopTimes, WireType, Table, Reading
<1>1. ASSUME last' = last,
             \A e \in Ends : /\ table'[e].handle = table[e].handle
                             /\ table[e].member => table'[e].member
      PROVE  BaseInv'
  BY <1>T, <1>1 DEF BaseInv
<1>2. ASSUME NEW e \in Ends, Flip(e) PROVE BaseInv'
  <2>1. CASE table' = table
    BY <1>1, <1>2, <2>1, FlipEffects
  <2>2. CASE table' # table
    <3>1. /\ last' = last /\ \A f \in Ends : f # e => table'[f] = table[f]
          /\ table'[e].handle = table[e].handle /\ table'[e].member
      BY <1>2, <2>2, FlipEffects
    <3>2. QED
      BY <1>1, <3>1
  <2>3. QED
    BY <2>1, <2>2
<1>3. ASSUME NEW e \in Ends, Read(e) PROVE BaseInv'
  <2> DEFINE n == loop[e].n
  <2>1. table' = table /\ loop'[e].n > n
    BY <1>3, ReadTurns
  <2>2. /\ \A f \in Ends : f # e => last'[f] = last[f]
        /\ \A d \in Colours : d # ColourOf(n) => last'[e][d] = last[e][d]
        /\ last'[e][ColourOf(n)].n = n
        /\ last'[e][ColourOf(n)].handle = table[e].handle
        /\ last'[e][ColourOf(n)].member = table[e].member
    <3>1. LET r == [n |-> n, handle |-> table[e].handle,
                    member |-> table[e].member, cnt |-> table[e].cnt[ColourOf(n)]]
          IN  r.n = n /\ r.handle = table[e].handle /\ r.member = table[e].member
      OBVIOUS
    <3>2. QED
      BY <1>3, <3>1, ReadEffects
  <2> HIDE DEF n
  <2>3. ASSUME NEW f \in Ends, NEW c \in Colours, f # e \/ c # ColourOf(n), last'[f][c] # NoBaseline
        PROVE  /\ ColourOf(last'[f][c].n) = c /\ last'[f][c].n < loop'[f].n
               /\ last'[f][c].handle <= table'[f].handle
               /\ last'[f][c].handle = table'[f].handle /\ last'[f][c].member => table'[f].member
    <3>1. last'[f][c] = last[f][c]
      BY <2>2, <2>3
    <3>2. QED
      BY <1>T, <2>1, <2>3, <3>1 DEF BaseInv
  <2>4. /\ ColourOf(last'[e][ColourOf(n)].n) = ColourOf(n) /\ last'[e][ColourOf(n)].n < loop'[e].n
        /\ last'[e][ColourOf(n)].handle <= table'[e].handle
        /\ last'[e][ColourOf(n)].handle = table'[e].handle /\ last'[e][ColourOf(n)].member => table'[e].member
    BY <1>T, <2>1, <2>2 DEF n
  <2>5. QED
    BY <2>3, <2>4 DEF BaseInv
<1>4. ASSUME NEW e \in Ends, ReadFails(e) PROVE last' = last /\ table' = table
  BY <1>4, ReadTurns, ReadFailsEffects
<1>5. ASSUME NEW e \in Ends, Reload(e) PROVE BaseInv'
  <2>1. /\ last' = last /\ \A f \in Ends : f # e => table'[f] = table[f]
        /\ table'[e].handle = table[e].handle + 1
    BY <1>5, ReloadEffects
  <2>2. QED
    BY <1>T, <2>1 DEF BaseInv
<1>6. ASSUME NEW band \in Bands, SendPacket(band) PROVE BaseInv'
  <2>1. last' = last
    BY <1>6, SendEffects
  <2>2. \A f \in Ends : table'[f].handle = table[f].handle /\ table'[f].member = table[f].member
    BY <1>6, SendEffects DEF TableCounts
  <2>3. QED
    BY <1>1, <2>1, <2>2
<1>7. ASSUME ArrivePacket PROVE BaseInv'
  <2>1. last' = last
    BY <1>7, ArriveEffects
  <2>2. \A f \in Ends : table'[f].handle = table[f].handle /\ table'[f].member = table[f].member
    BY <1>7, ArriveEffects DEF TableCounts
  <2>3. QED
    BY <1>1, <2>1, <2>2
<1>8. ASSUME Tick \/ UNCHANGED wire PROVE last' = last /\ table' = table
  BY <1>8, TickEffects DEF wire
<1>9. QED
  BY <1>1, <1>2, <1>3, <1>4, <1>5, <1>6, <1>7, <1>8, WireSteps

-----------------------------------------------------------------------------
(* The packets, the readings and the reloads in time.                      *)

\* A packet keeps the guard band: it arrives within two half blocks of its
\* departure, one when the sender's loop is due, so that none is on the way half a
\* block after a later block was begun in time.
FlightInv ==
    \A p \in BagToSet(net) :
        /\ p.by > now /\ p.by <= now + 2
        /\ loop["sender"].due <= now => p.by <= now + 1
        /\ p.n # Unmapped => /\ p.bit = ColourOf(p.n) /\ 2 * p.n <= now
                             /\ \A f \in flipped : p.n < f => p.by <= 2 * f + 1

LEMMA FlightInvStep ==
    ASSUME WireType, LoopTimes, ClockInv, MapInv, FlightInv, [Next]_vars
    PROVE  FlightInv'
<1>T. /\ now \in Nat /\ Begun \in Nat /\ 2 * Begun <= now /\ "sender" \in Ends
      /\ flipped \subseteq Nat /\ Blocks \subseteq Nat /\ Unmapped \notin Blocks
      /\ \A p \in BagToSet(net) : p.by \in Nat /\ (p.n # Unmapped => p.n \in Nat)
      /\ loop["sender"].due \in Nat
      /\ mapped # Unmapped => mapped \in Nat
  BY BegunType, BlockNumbers DEF WireType, Packet, LoopTimes
\* What is true of the packets that were on the way before.
<1> DEFINE Kept == \A p \in BagToSet(net) :
              /\ p.by > now' /\ p.by <= now' + 2
              /\ loop'["sender"].due <= now' => p.by <= now' + 1
              /\ p.n # Unmapped => /\ p.bit = ColourOf(p.n) /\ 2 * p.n <= now'
                                   /\ \A f \in flipped' : p.n < f => p.by <= 2 * f + 1
<1>1. ASSUME UNCHANGED <<now, flipped>>, loop'["sender"] = loop["sender"] \/ loop'["sender"].due > now PROVE Kept
  <2>1. ASSUME NEW p \in BagToSet(net)
        PROVE  /\ p.by > now' /\ p.by <= now' + 2
               /\ loop'["sender"].due <= now' => p.by <= now' + 1
    <3>1. loop'["sender"].due \in Nat
      BY <1>T, LoopStep DEF LoopTimes
    <3>2. p.by > now /\ p.by <= now + 2 /\ (loop["sender"].due <= now => p.by <= now + 1)
      BY DEF FlightInv
    <3>3. QED
      BY <1>T, <1>1, <3>1, <3>2
  <2>2. ASSUME NEW p \in BagToSet(net), p.n # Unmapped
        PROVE  /\ p.bit = ColourOf(p.n) /\ 2 * p.n <= now'
               /\ \A f \in flipped' : p.n < f => p.by <= 2 * f + 1
    BY <1>1, <2>2 DEF FlightInv
  <2>3. QED
    BY <2>1, <2>2
<1>2. ASSUME NEW e \in Ends, Flip(e), BagToSet(net') = BagToSet(net) PROVE FlightInv'
  <2>1. CASE flipped' = flipped
    <3>1. now' = now /\ (loop'["sender"] = loop["sender"] \/ loop'["sender"].due > now)
      BY <1>T, <1>2, FlipEffects
    <3>2. Kept
      BY <1>1, <2>1, <3>1
    <3>3. QED
      BY <1>2, <3>2 DEF FlightInv
  <2>2. CASE flipped' # flipped
    <3>1. /\ e = "sender" /\ now' = now /\ loop["sender"].due <= now /\ loop'["sender"].due = now + 1
      BY <1>2, <2>2, FlipEffects
    <3>2. \A f \in flipped' : f \notin flipped => now = 2 * f
      BY BegunStep
    <3>3. ASSUME NEW p \in BagToSet(net)
          PROVE  /\ p.by > now' /\ p.by <= now' + 2
                 /\ loop'["sender"].due <= now' => p.by <= now' + 1
                 /\ p.n # Unmapped => /\ p.bit = ColourOf(p.n) /\ 2 * p.n <= now'
                                      /\ \A f \in flipped' : p.n < f => p.by <= 2 * f + 1
      <4>1. p.by > now /\ p.by <= now + 1
        BY <3>1 DEF FlightInv
      <4>2. p.n # Unmapped => p.bit = ColourOf(p.n) /\ 2 * p.n <= now
        BY DEF FlightInv
      <4>3. ASSUME NEW f \in flipped', p.n # Unmapped, p.n < f PROVE p.by <= 2 * f + 1
        <5>1. CASE f \in flipped
          BY <4>3, <5>1 DEF FlightInv
        <5>2. CASE f \notin flipped
          BY <1>T, <3>2, <4>1, <5>2
        <5>3. QED
          BY <5>1, <5>2
      <4>4. QED
        BY <1>T, <3>1, <4>1, <4>2, <4>3
    <3>4. QED
      BY <1>2, <3>3 DEF FlightInv
  <2>3. QED
    BY <2>1, <2>2
<1>3. ASSUME NEW e \in Ends, Flip(e) PROVE FlightInv'
  BY <1>2, <1>3, FlipEffects
<1>4. ASSUME NEW e \in Ends, Read(e) \/ ReadFails(e) PROVE FlightInv'
  <2>1. UNCHANGED <<now, flipped, net>> /\ (loop'["sender"] = loop["sender"] \/ loop'["sender"].due > now)
    BY <1>T, <1>4, ReadTurns
  <2>2. Kept
    BY <1>1, <2>1
  <2>3. QED
    BY <2>1, <2>2 DEF FlightInv
<1>5. ASSUME NEW e \in Ends, Reload(e) PROVE UNCHANGED <<now, flipped, net, loop>>
  BY <1>5, ReloadEffects
<1>6. ASSUME NEW band \in Bands, SendPacket(band) PROVE FlightInv'
  <2>1. UNCHANGED <<now, flipped, loop>>
    BY <1>6, SendEffects
  <2>2. PICK q \in Packet : /\ q.n = mapped /\ q.bit = Bit
                            /\ q.by = IF loop["sender"].due <= now THEN now + 1 ELSE now + 2
                            /\ net' = net \/ net' = net (+) SetToBag({q})
    BY <1>6, SendEffects
  <2>3. BagToSet(net') \subseteq BagToSet(net) \cup {q}
    <3>1. CASE net' = net
      BY <3>1
    <3>2. CASE net' = net (+) SetToBag({q})
      <4>1. IsABag(net)
        BY DEF WireType
      <4>2. BagToSet(net') = BagToSet(net) \cup {q}
        BY <3>2, <4>1, BagAdd
      <4>3. QED
        BY <4>2
    <3>3. QED
      BY <2>2, <3>1, <3>2
  <2>4. Kept
    BY <1>1, <2>1
  <2>5. /\ q.by > now /\ q.by <= now + 2 /\ (loop["sender"].due <= now => q.by <= now + 1)
    BY <1>T, <2>2
  <2>6. ASSUME q.n # Unmapped
        PROVE  q.bit = ColourOf(q.n) /\ 2 * q.n <= now /\ \A f \in flipped : ~(q.n < f)
    <3>1. q.n \in Nat /\ q.n <= Begun /\ \A f \in flipped : f <= q.n
      BY <1>T, <2>2, <2>6 DEF MapInv
    <3>2. q.bit = ColourOf(q.n)
      BY <2>2, <2>6 DEF Bit
    <3>3. \A f \in flipped : f \in Nat /\ ~(q.n < f)
      BY <1>T, <3>1
    <3>4. QED
      BY <1>T, <3>1, <3>2, <3>3
  <2>7. ASSUME NEW p \in BagToSet(net')
        PROVE  /\ p.by > now' /\ p.by <= now' + 2
               /\ loop'["sender"].due <= now' => p.by <= now' + 1
               /\ p.n # Unmapped => /\ p.bit = ColourOf(p.n) /\ 2 * p.n <= now'
                                    /\ \A f \in flipped' : p.n < f => p.by <= 2 * f + 1
    <3>1. CASE p \in BagToSet(net)
      BY <2>4, <3>1
    <3>2. CASE p = q
      BY <2>1, <2>5, <2>6, <3>2
    <3>3. QED
      BY <2>3, <3>1, <3>2
  <2>8. QED
    BY <2>7 DEF FlightInv
<1>7. ASSUME ArrivePacket PROVE FlightInv'
  <2>1. UNCHANGED <<now, flipped, loop>> /\ \E p \in BagToSet(net) : net' = net (-) SetToBag({p})
    BY <1>7, ArriveEffects
  <2>2. BagToSet(net') \subseteq BagToSet(net)
    <3>1. IsABag(net)
      BY DEF WireType
    <3>2. PICK p \in BagToSet(net) : net' = net (-) SetToBag({p})
      BY <2>1
    <3>3. BagToSet(net') = IF net[p] = 1 THEN BagToSet(net) \ {p} ELSE BagToSet(net)
      BY <3>1, <3>2, BagRemove
    <3>4. QED
      BY <3>3
  <2>3. Kept
    BY <1>1, <2>1
  <2>4. QED
    BY <2>2, <2>3 DEF FlightInv
<1>8. ASSUME Tick PROVE FlightInv'
  <2>1. UNCHANGED <<flipped, loop, net>> /\ now' = now + 1 /\ \A p \in BagToSet(net) : p.by > now + 1
    BY <1>8, TickEffects
  <2>2. ASSUME NEW p \in BagToSet(net)
        PROVE  /\ p.by > now' /\ p.by <= now' + 2 /\ p.by <= now' + 1
               /\ p.n # Unmapped => /\ p.bit = ColourOf(p.n) /\ 2 * p.n <= now'
                                    /\ \A f \in flipped : p.n < f => p.by <= 2 * f + 1
    BY <1>T, <2>1 DEF FlightInv
  <2>3. QED
    BY <2>1, <2>2 DEF FlightInv
<1>9. UNCHANGED wire => UNCHANGED <<now, flipped, net, loop>>
  BY DEF wire
<1>10. ASSUME UNCHANGED <<now, flipped, net, loop>> PROVE FlightInv'
  BY <1>10 DEF FlightInv
<1>11. QED
  BY <1>3, <1>4, <1>5, <1>6, <1>7, <1>8, <1>9, <1>10, WireSteps

\* What a finished block says of the table and the baseline.
LEMMA FinishedFacts ==
    ASSUME NEW e, NEW n, HadBaseline(e, n), NEW u, NEW b, b = FinishedBlock(e, n, u)
    PROVE  /\ b.n = n
           /\ last[e][ColourOf(n)] # NoBaseline
           /\ last[e][ColourOf(n)].n + 2 = n /\ last[e][ColourOf(n)].member
           /\ ~b.reset => /\ last[e][ColourOf(n)].handle = table[e].handle /\ table[e].member
                          /\ b.cnt = [band \in Bands |->
                                table[e].cnt[ColourOf(n)][band] - last[e][ColourOf(n)].cnt[band]]
<1>1. b.n = n /\ b.reset = Restarted(e, n)
  BY DEF FinishedBlock
<1>2. ASSUME ~Restarted(e, n)
      PROVE  b.cnt = [band \in Bands |->
                         table[e].cnt[ColourOf(n)][band] - last[e][ColourOf(n)].cnt[band]]
  BY <1>2 DEF FinishedBlock
<1>3. ~Restarted(e, n) => last[e][ColourOf(n)].handle = table[e].handle /\ table[e].member
  BY DEF Restarted
<1>4. QED
  BY <1>1, <1>2, <1>3 DEF HadBaseline

\* A block of an end was there, or has just been read.
LEMMA NewBlock ==
    ASSUME ChannelInv, ClockInv, WireType, [Next]_vars,
           NEW e \in Ends, NEW b \in Everywhere(e)', b \notin Everywhere(e)
    PROVE  /\ Read(e) /\ b.n = loop[e].n
           /\ last[e][ColourOf(b.n)] # NoBaseline
           /\ last[e][ColourOf(b.n)].n + 2 = b.n /\ last[e][ColourOf(b.n)].member
           /\ ~b.reset => /\ last[e][ColourOf(b.n)].handle = table[e].handle /\ table[e].member
                          /\ b.cnt = [band \in Bands |->
                                table[e].cnt[ColourOf(b.n)][band] - last[e][ColourOf(b.n)].cnt[band]]
<1> DEFINE n == loop[e].n
           u == Overlapped(e, 2 * n, 2 * (n + 1))
<1>1. Read(e) /\ HadBaseline(e, n) /\ b = FinishedBlock(e, n, u)
  BY BlocksGrow
<1>2. n = loop[e].n
  OBVIOUS
<1> HIDE DEF u, n
<1>3. /\ b.n = n
      /\ last[e][ColourOf(n)] # NoBaseline
      /\ last[e][ColourOf(n)].n + 2 = n /\ last[e][ColourOf(n)].member
      /\ ~b.reset => /\ last[e][ColourOf(n)].handle = table[e].handle /\ table[e].member
                     /\ b.cnt = [band \in Bands |->
                           table[e].cnt[ColourOf(n)][band] - last[e][ColourOf(n)].cnt[band]]
  BY <1>1, FinishedFacts
<1>4. b.n = n
  BY <1>3
<1>5. QED
  BY <1>1, <1>2, <1>3, <1>4

\* The receiver reads a block in time once.
LEMMA ReadOnStep ==
    ASSUME WireType, LoopTimes, ClockInv, [Next]_vars
    PROVE  \A m \in readOn' : m \in readOn
              \/ (Read("receiver") /\ m = loop["receiver"].n /\ now = 2 * m + 3 /\ now' = now)
<1>1. ASSUME NEW e \in Ends, Read(e)
      PROVE  \A m \in readOn' : m \in readOn
                \/ (Read("receiver") /\ m = loop["receiver"].n /\ now = 2 * m + 3 /\ now' = now)
  <2>1. readOn' = IF e = "receiver" /\ now = 2 * loop[e].n + 3 THEN readOn \cup {loop[e].n} ELSE readOn
    BY <1>1, ReadEffects
  <2>2. now' = now
    BY <1>1, ReadTurns
  <2>3. ASSUME NEW m \in readOn', m \notin readOn
        PROVE  e = "receiver" /\ m = loop[e].n /\ now = 2 * loop[e].n + 3
    BY <2>1, <2>3
  <2>4. ASSUME NEW m \in readOn', m \notin readOn
        PROVE  Read("receiver") /\ m = loop["receiver"].n /\ now = 2 * m + 3 /\ now' = now
    <3>1. e = "receiver" /\ m = loop[e].n /\ now = 2 * loop[e].n + 3
      BY <2>3, <2>4
    <3>2. Read("receiver") /\ m = loop["receiver"].n
      BY <1>1, <3>1
    <3>3. QED
      BY <2>2, <3>1, <3>2
  <2>5. QED
    BY <2>4
<1>2. ASSUME NEW e \in Ends, ReadFails(e) \/ Flip(e) \/ Reload(e) PROVE readOn' = readOn
  BY <1>2, ReadFailsEffects, FlipEffects, ReloadEffects
<1>3. ASSUME (\E band \in Bands : SendPacket(band)) \/ ArrivePacket \/ Tick \/ UNCHANGED wire
      PROVE  readOn' = readOn
  BY <1>3, SendEffects, ArriveEffects, TickEffects DEF wire
<1>4. readOn' = readOn \/ \E e \in Ends : Read(e)
  <2>1. SUFFICES ASSUME \A e \in Ends : ~Read(e) PROVE readOn' = readOn
    OBVIOUS
  <2>2. QED
    BY <1>2, <1>3, <2>1, WireSteps
<1>5. CASE readOn' = readOn
  BY <1>5
<1>6. CASE \E e \in Ends : Read(e)
  BY <1>1, <1>6
<1>7. QED
  BY <1>4, <1>5, <1>6

\* A block is read half a block after it ended, and a packet arrives after its block began.
ReadInv ==
    /\ \A e \in Ends : \A b \in Everywhere(e) : now >= 2 * b.n + 3
    /\ \A m \in readOn : now >= 2 * m + 3 /\ m < loop["receiver"].n
    /\ \A m \in Blocks : 2 * m > now => arrived[m] = ZeroCount

LEMMA ReadInvStep ==
    ASSUME ChannelInv, ClockInv, WireType, FlightInv, ReadInv, [Next]_vars
    PROVE  ReadInv'
<1>T. /\ LoopTimes /\ now \in Nat /\ now' \in Nat /\ now' >= now /\ "receiver" \in Ends
      /\ Blocks \subseteq Nat /\ readOn \subseteq Nat
      /\ \A e \in Ends : loop[e].n \in Nat /\ loop'[e].n \in Nat /\ loop'[e].n >= loop[e].n
  <2>1. LoopTimes /\ readOn \subseteq Blocks
    BY DEF ChannelInv, WireType
  <2>2. \A e \in Ends : loop'[e].n \in Nat
    BY <2>1, LoopStep DEF LoopTimes
  <2>3. QED
    BY <2>1, <2>2, BegunStep, BegunType, BlockNumbers DEF LoopTimes
<1>1. ASSUME NEW e \in Ends, NEW b \in Everywhere(e)' PROVE now' >= 2 * b.n + 3
  <2>1. CASE b \in Everywhere(e)
    <3>1. b.n \in Nat /\ now >= 2 * b.n + 3
      BY <2>1 DEF ReadInv, ChannelInv, Numbered
    <3>2. QED
      BY <1>T, <3>1
  <2>2. CASE b \notin Everywhere(e)
    <3>1. Read(e) /\ b.n = loop[e].n
      BY <2>2, NewBlock
    <3>2. now >= 2 * loop[e].n + 3
      BY <1>T, <3>1, ReadTurns
    <3>3. QED
      BY <1>T, <3>1, <3>2
  <2>3. QED
    BY <2>1, <2>2
<1>2. \A m \in readOn' : m \in readOn
         \/ (Read("receiver") /\ m = loop["receiver"].n /\ now = 2 * m + 3 /\ now' = now)
  BY <1>T, ReadOnStep
<1>3. ASSUME NEW m \in readOn' PROVE now' >= 2 * m + 3 /\ m < loop'["receiver"].n
  <2>1. CASE m \in readOn
    <3>1. m \in Nat /\ now >= 2 * m + 3 /\ m < loop["receiver"].n
      BY <1>T, <2>1 DEF ReadInv
    <3>2. QED
      BY <1>T, <3>1
  <2>2. CASE Read("receiver") /\ m = loop["receiver"].n /\ now = 2 * m + 3 /\ now' = now
    <3>1. loop'["receiver"].n > loop["receiver"].n
      BY <1>T, <2>2, ReadTurns
    <3>2. QED
      BY <1>T, <2>2, <3>1
  <2>3. QED
    BY <1>2, <2>1, <2>2
<1>4. ASSUME NEW m \in Blocks, 2 * m > now' PROVE arrived'[m] = ZeroCount
  <2>1. 2 * m > now /\ arrived[m] = ZeroCount
    <3>1. 2 * m > now
      BY <1>T, <1>4
    <3>2. QED
      BY <3>1 DEF ReadInv
  <2>2. CASE arrived' = arrived
    BY <2>1, <2>2
  <2>3. CASE ArrivePacket
    <3>1. PICK p \in BagToSet(net) : IF p.n = Unmapped THEN arrived' = arrived
                                     ELSE BlockCounts(arrived, arrived', p.n, p.band)
      BY <2>3, ArriveEffects
    <3>2. p.n # Unmapped => 2 * p.n <= now
      BY DEF FlightInv
    <3>3. p.n # Unmapped => p.n # m
      BY <1>T, <2>1, <3>2
    <3>4. QED
      BY <2>1, <3>1, <3>3 DEF BlockCounts
  <2>4. ASSUME NEW e \in Ends, Read(e) \/ ReadFails(e) \/ Flip(e) \/ Reload(e) PROVE arrived' = arrived
    BY <1>T, <2>4, ReadTurns, FlipEffects, ReloadEffects
  <2>5. ASSUME (\E band \in Bands : SendPacket(band)) \/ Tick \/ UNCHANGED wire
        PROVE  arrived' = arrived
    BY <1>T, <2>5, SendEffects, TickEffects DEF wire
  <2>6. QED
    BY <2>2, <2>3, <2>4, <2>5, WireSteps
<1>5. QED
  BY <1>1, <1>3, <1>4 DEF ReadInv

\* Half a block after a block ended, its exact reading leaves the map full, unless
\* the firewall was reloaded just then.
ReloadInv ==
    \A b \in Everywhere("sender") :
        ~b.reset /\ now <= 2 * b.n + 3 /\ mapped = Unmapped => now \in rebuilt

LEMMA ReloadInvStep ==
    ASSUME ChannelInv, ClockInv, WireType, MapInv, ReadInv, ReloadInv, [Next]_vars
    PROVE  ReloadInv'
<1>T. /\ LoopTimes /\ now \in Nat /\ now' \in Nat /\ now' >= now /\ "sender" \in Ends
      /\ rebuilt \subseteq rebuilt' /\ Unmapped \notin Nat
      /\ loop["sender"].n \in Nat
  BY BegunStep, BegunType DEF ChannelInv, Unmapped
<1>1. ASSUME mapped' = Unmapped, now' = now PROVE mapped = Unmapped \/ now' \in rebuilt'
  <2>1. ASSUME NEW e \in Ends, Flip(e) PROVE mapped' = mapped
    <3>1. loop[e].n + 1 # Unmapped
      BY DEF ChannelInv, LoopTimes, Unmapped
    <3>2. QED
      BY <1>T, <1>1, <2>1, <3>1, FlipEffects
  <2>2. ASSUME NEW e \in Ends, Reload(e) PROVE mapped' = mapped \/ now' \in rebuilt'
    BY <1>1, <2>2, ReloadEffects
  <2>3. ASSUME NEW e \in Ends, Read(e) \/ ReadFails(e) PROVE mapped' = mapped
    BY <1>T, <2>3, ReadTurns
  <2>4. ASSUME (\E band \in Bands : SendPacket(band)) \/ ArrivePacket \/ Tick \/ UNCHANGED wire
        PROVE  mapped' = mapped
    BY <1>T, <2>4, SendEffects, ArriveEffects, TickEffects DEF wire
  <2>5. QED
    BY <1>1, <2>1, <2>2, <2>3, <2>4, WireSteps
<1>2. now' = now \/ now' = now + 1
  BY LoopStep, LoopQuiet, FlipEffects, ReadTurns, <1>T
<1>3. ASSUME NEW b \in Everywhere("sender")', ~b.reset, now' <= 2 * b.n + 3, mapped' = Unmapped
      PROVE  now' \in rebuilt'
  <2>1. CASE b \in Everywhere("sender")
    <3>1. b.n \in Nat /\ now >= 2 * b.n + 3
      BY <1>T, <2>1 DEF ReadInv, ChannelInv, Numbered
    <3>2. now' = now /\ now <= 2 * b.n + 3
      BY <1>T, <1>2, <1>3, <3>1
    <3>3. CASE mapped = Unmapped
      <4>1. now \in rebuilt
        BY <1>3, <2>1, <3>2, <3>3 DEF ReloadInv
      <4>2. QED
        BY <1>T, <3>2, <4>1
    <3>4. QED
      BY <1>1, <1>3, <3>2, <3>3
  <2>2. CASE b \notin Everywhere("sender")
    <3>1. Read("sender") /\ table["sender"].member
      BY <1>T, <1>3, <2>2, NewBlock
    <3>2. mapped # Unmapped
      BY <3>1 DEF MapInv
    <3>3. mapped' = mapped
      BY <1>T, <3>1, ReadTurns
    <3>4. QED
      BY <1>3, <3>2, <3>3
  <2>3. QED
    BY <2>1, <2>2
<1>4. QED
  BY <1>3 DEF ReloadInv

-----------------------------------------------------------------------------
(* What the sender counts.                                                 *)

LEMMA ColourTurns ==
    ASSUME NEW n \in Nat, NEW m \in Nat
    PROVE  /\ ColourOf(n + 2) = ColourOf(n) /\ ColourOf(n + 1) # ColourOf(n)
           /\ m >= n /\ m <= n + 2 /\ ColourOf(m) = ColourOf(n + 1) => m = n + 1
<1>1. \A k \in Nat : k % 2 = 0 \/ k % 2 = 1
  OBVIOUS
<1>2. (n + 2) % 2 = n % 2 /\ (n + 1) % 2 # n % 2
  OBVIOUS
<1>3. ColourOf(n + 2) = ColourOf(n) /\ ColourOf(n + 1) # ColourOf(n)
  BY <1>1, <1>2 DEF ColourOf
<1>4. ASSUME m >= n, m <= n + 2, ColourOf(m) = ColourOf(n + 1) PROVE m = n + 1
  <2>1. m = n \/ m = n + 1 \/ m = n + 2
    BY <1>4
  <2>2. QED
    BY <1>3, <1>4, <2>1
<1>5. QED
  BY <1>3, <1>4

\* Since a baseline of the sender's own table, until the map takes the colour again,
\* the table counted what was marked in the block after it, if the block between was
\* begun in time: before that the map may still hold an older block of the colour.
SenderCount ==
    \A c \in Colours :
        LET base == last["sender"][c]
        IN  /\ base # NoBaseline /\ base.member /\ base.handle = table["sender"].handle
            /\ base.n + 1 \in flipped /\ Begun <= base.n + 3 /\ base.n + 2 \in Blocks
            => \A band \in Bands :
                  table["sender"].cnt[c][band] = base.cnt[band] + sent[base.n + 2][band]

LEMMA SenderCountStep ==
    ASSUME WireType, LoopTimes, ClockInv, MapInv, BaseInv, SenderCount, [Next]_vars
    PROVE  SenderCount'
<1>T. /\ Begun \in Nat /\ Begun' \in Nat /\ Begun' >= Begun /\ "sender" \in Ends
      /\ loop["sender"].n \in Nat /\ loop["sender"].n <= Begun
      /\ flipped \subseteq Nat /\ Blocks \subseteq Nat
      /\ table["sender"].handle \in Nat
      /\ mapped # Unmapped => mapped \in Nat /\ mapped \in Blocks
      /\ \A c \in Colours : last["sender"][c] # NoBaseline =>
            last["sender"][c] \in Reading /\ last["sender"][c].n \in Nat /\ last["sender"][c].handle \in Nat
  BY BegunType, BegunStep, BlockNumbers DEF WireType, Table, Reading
\* A baseline that stays: its block was not begun just now.
<1>1. ASSUME NEW c \in Colours, NEW base, base = last["sender"][c],
             last'["sender"] = last["sender"] \/ last'["sender"][c] = last["sender"][c],
             table'["sender"].handle = table["sender"].handle,
             base # NoBaseline, base.member, base.handle = table'["sender"].handle,
             base.n + 1 \in flipped', Begun' <= base.n + 3, base.n + 2 \in Blocks
      PROVE  /\ base \in Reading /\ base.n \in Nat /\ base.n + 1 \in flipped /\ Begun <= base.n + 3
             /\ ColourOf(base.n) = c
             /\ \A band \in Bands : table["sender"].cnt[c][band] = base.cnt[band] + sent[base.n + 2][band]
  <2>1. base \in Reading /\ base.n \in Nat /\ base.n < loop["sender"].n /\ ColourOf(base.n) = c
    BY <1>T, <1>1 DEF BaseInv
  <2>2. base.n + 1 \in flipped
    <3>1. SUFFICES ASSUME base.n + 1 \notin flipped PROVE FALSE
      OBVIOUS
    <3>2. base.n + 1 = Begun + 1
      BY <1>1, <3>1, BegunStep
    <3>3. QED
      BY <1>T, <2>1, <3>2
  <2>3. Begun <= base.n + 3
    BY <1>T, <1>1, <2>1
  <2>4. base.member /\ base.handle = table["sender"].handle
    BY <1>1
  <2>5. QED
    BY <1>1, <2>1, <2>2, <2>3, <2>4 DEF SenderCount
\* Steps that count nothing and read nothing.
<1>2. ASSUME last'["sender"] = last["sender"], sent' = sent,
             table'["sender"].handle = table["sender"].handle, table'["sender"].cnt = table["sender"].cnt
      PROVE  SenderCount'
  <2>1. ASSUME NEW c \in Colours, NEW base, base = last'["sender"][c],
               base # NoBaseline, base.member, base.handle = table'["sender"].handle,
               base.n + 1 \in flipped', Begun' <= base.n + 3, base.n + 2 \in Blocks, NEW band \in Bands
        PROVE  table'["sender"].cnt[c][band] = base.cnt[band] + sent'[base.n + 2][band]
    <3>1. base = last["sender"][c]
      BY <1>2, <2>1
    <3>2. table["sender"].cnt[c][band] = base.cnt[band] + sent[base.n + 2][band]
      BY <1>1, <1>2, <2>1, <3>1
    <3>3. QED
      BY <1>2, <3>2
  <2>2. QED
    BY <2>1 DEF SenderCount
<1>3. ASSUME NEW e \in Ends, Flip(e) PROVE SenderCount'
  <2>1. /\ last' = last /\ sent' = sent
        /\ table'["sender"].handle = table["sender"].handle /\ table'["sender"].cnt = table["sender"].cnt
    BY <1>T, <1>3, FlipEffects
  <2>2. QED
    BY <1>2, <2>1
<1>4. ASSUME NEW e \in Ends, Read(e), e # "sender" PROVE SenderCount'
  <2>1. last'["sender"] = last["sender"] /\ sent' = sent /\ table' = table
    BY <1>T, <1>4, ReadEffects, ReadTurns
  <2>2. QED
    BY <1>2, <2>1
<1>5. ASSUME Read("sender") PROVE SenderCount'
  <2> DEFINE n == loop["sender"].n
  <2>1. /\ sent' = sent /\ table' = table /\ flipped' = flipped /\ n \in Nat /\ Begun = n + 1
    BY <1>T, <1>5, ReadTurns, BegunType
  <2>2. /\ \A d \in Colours : d # ColourOf(n) => last'["sender"][d] = last["sender"][d]
        /\ last'["sender"][ColourOf(n)].n = n
        /\ last'["sender"][ColourOf(n)].cnt = table["sender"].cnt[ColourOf(n)]
    <3>1. LET r == [n |-> n, handle |-> table["sender"].handle,
                    member |-> table["sender"].member, cnt |-> table["sender"].cnt[ColourOf(n)]]
          IN  r.n = n /\ r.cnt = table["sender"].cnt[ColourOf(n)]
      OBVIOUS
    <3>2. QED
      BY <1>T, <1>5, <3>1, ReadEffects
  <2> HIDE DEF n
  <2>3. ASSUME NEW c \in Colours, NEW base, base = last'["sender"][c],
               base # NoBaseline, base.member, base.handle = table'["sender"].handle,
               base.n + 1 \in flipped', Begun' <= base.n + 3, base.n + 2 \in Blocks, NEW band \in Bands
        PROVE  table'["sender"].cnt[c][band] = base.cnt[band] + sent'[base.n + 2][band]
    <3>1. CASE c = ColourOf(n)
      <4>1. base.n = n /\ base.cnt = table["sender"].cnt[c]
        BY <2>2, <2>3, <3>1
      <4>2. sent[base.n + 2] = ZeroCount
        BY <1>T, <2>1, <2>3, <4>1 DEF MapInv
      <4>3. sent[base.n + 2][band] = 0
        BY <4>2 DEF ZeroCount
      <4>4. table["sender"].cnt[c][band] \in Nat
        BY <1>T DEF WireType, Table, Count
      <4>5. QED
        BY <2>1, <4>1, <4>3, <4>4
    <3>2. CASE c # ColourOf(n)
      <4>1. base = last["sender"][c] /\ last'["sender"][c] = last["sender"][c]
        BY <2>2, <2>3, <3>2
      <4>2. table["sender"].cnt[c][band] = base.cnt[band] + sent[base.n + 2][band]
        BY <1>1, <2>1, <2>3, <4>1
      <4>3. QED
        BY <2>1, <4>2
    <3>3. QED
      BY <3>1, <3>2
  <2>4. QED
    BY <2>3 DEF SenderCount
<1>6. ASSUME NEW e \in Ends, Reload(e) PROVE SenderCount'
  <2>1. CASE e # "sender"
    <3>1. last' = last /\ sent' = sent /\ table'["sender"] = table["sender"]
      BY <1>T, <1>6, <2>1, ReloadEffects
    <3>2. QED
      BY <1>2, <3>1
  <2>2. CASE e = "sender"
    <3>1. last' = last /\ table'["sender"].handle = table["sender"].handle + 1
      BY <1>6, <2>2, ReloadEffects
    <3>2. ASSUME NEW c \in Colours, last'["sender"][c] # NoBaseline
          PROVE  last'["sender"][c].handle # table'["sender"].handle
      <4>1. last["sender"][c].handle \in Nat /\ last["sender"][c].handle <= table["sender"].handle
        BY <1>T, <3>1, <3>2 DEF BaseInv
      <4>2. QED
        BY <1>T, <3>1, <4>1
    <3>3. QED
      BY <3>2 DEF SenderCount
  <2>3. QED
    BY <2>1, <2>2
<1>7. ASSUME NEW packet \in Bands, SendPacket(packet) PROVE SenderCount'
  <2>1. UNCHANGED <<loop, last, flipped>>
    BY <1>7, SendEffects
  <2>2. CASE mapped = Unmapped
    <3>1. table' = table /\ sent' = sent
      BY <1>7, <2>2, SendEffects
    <3>2. QED
      BY <1>2, <2>1, <3>1
  <2>3. CASE mapped # Unmapped
    <3>1. /\ table'["sender"].handle = table["sender"].handle
          /\ \A d \in Colours, b \in Bands : table'["sender"].cnt[d][b] =
                IF d = ColourOf(mapped) /\ b = packet THEN table["sender"].cnt[d][b] + 1
                                                      ELSE table["sender"].cnt[d][b]
          /\ \A m \in Blocks, b \in Bands : sent'[m][b] =
                IF m = mapped /\ b = packet THEN sent[m][b] + 1 ELSE sent[m][b]
      <4>1. TableCounts(table, table', "sender", ColourOf(mapped), packet) /\ BlockCounts(sent, sent', mapped, packet)
        BY <1>7, <2>3, SendEffects
      <4>2. QED
        BY <4>1 DEF TableCounts, BlockCounts
    <3>2. ASSUME NEW c \in Colours, NEW base, base = last'["sender"][c],
                 base # NoBaseline, base.member, base.handle = table'["sender"].handle,
                 base.n + 1 \in flipped', Begun' <= base.n + 3, base.n + 2 \in Blocks, NEW band \in Bands
          PROVE  table'["sender"].cnt[c][band] = base.cnt[band] + sent'[base.n + 2][band]
      <4>1. base = last["sender"][c]
        BY <2>1, <3>2
      <4>2. /\ base \in Reading /\ base.n \in Nat /\ base.n + 1 \in flipped /\ Begun <= base.n + 3
            /\ ColourOf(base.n) = c
            /\ table["sender"].cnt[c][band] = base.cnt[band] + sent[base.n + 2][band]
        BY <1>1, <2>1, <3>1, <3>2, <4>1
      <4>3. mapped \in Nat /\ mapped >= base.n + 1 /\ mapped <= base.n + 3
        BY <1>T, <2>3, <4>2 DEF MapInv
      <4>4. ColourOf(mapped) = c <=> mapped = base.n + 2
        <5>1. base.n + 1 \in Nat /\ ColourOf(base.n + 2) = ColourOf(base.n)
          BY <4>2, ColourTurns
        <5>2. ColourOf(mapped) = ColourOf(base.n + 1 + 1) => mapped = base.n + 1 + 1
          <6> DEFINE k == base.n + 1
          <6>1. k \in Nat /\ mapped >= k /\ mapped <= k + 2 /\ mapped \in Nat
            BY <4>2, <4>3
          <6> HIDE DEF k
          <6>2. ColourOf(mapped) = ColourOf(k + 1) => mapped = k + 1
            BY <6>1, ColourTurns
          <6>3. QED
            BY <6>2 DEF k
        <5>3. base.n + 1 + 1 = base.n + 2
          BY <4>2
        <5>4. QED
          BY <4>2, <5>1, <5>2, <5>3
      <4>5. /\ base.cnt[band] \in Nat /\ sent[base.n + 2][band] \in Nat
            /\ table["sender"].cnt[c][band] \in Nat
        BY <1>T, <3>2, <4>2 DEF WireType, Table, Reading, Count
      <4>6. QED
        BY <3>1, <3>2, <4>2, <4>4, <4>5
    <3>3. QED
      BY <3>2 DEF SenderCount
  <2>4. QED
    BY <2>2, <2>3
<1>8. ASSUME ArrivePacket PROVE SenderCount'
  <2>1. last' = last /\ sent' = sent /\ table'["sender"] = table["sender"]
    BY <1>T, <1>8, ArriveEffects DEF TableCounts
  <2>2. QED
    BY <1>2, <2>1
<1>9. ASSUME Tick \/ UNCHANGED wire \/ \E e \in Ends : ReadFails(e) PROVE SenderCount'
  <2>1. last' = last /\ sent' = sent /\ table' = table
    BY <1>9, TickEffects, ReadTurns, ReadFailsEffects DEF wire
  <2>2. QED
    BY <1>2, <2>1
<1>10. QED
  BY <1>3, <1>4, <1>5, <1>6, <1>7, <1>8, <1>9, WireSteps

\* The sender's half is exact once the next block was begun in time too.
SentExact ==
    \A b \in Everywhere("sender") :
        ~b.reset /\ b.n - 1 \in flipped /\ b.n + 1 \in flipped => b.cnt = sent[b.n]

LEMMA SentExactStep ==
    ASSUME ChannelInv, ClockInv, WireType, MapInv, SenderCount, SentExact, [Next]_vars
    PROVE  SentExact'
<1>T. /\ LoopTimes /\ Begun \in Nat /\ "sender" \in Ends /\ loop["sender"].n \in Nat
      /\ loop["sender"].n <= Begun /\ (loop["sender"].pc = "half" => Begun = loop["sender"].n + 1)
      /\ flipped \subseteq Nat /\ Blocks \subseteq Nat
      /\ mapped # Unmapped => mapped \in Nat
  BY BegunType, BlockNumbers DEF ChannelInv, WireType
<1>1. ASSUME NEW b \in Everywhere("sender"), ~b.reset, b.n - 1 \in flipped', b.n + 1 \in flipped'
      PROVE  b.cnt = sent'[b.n]
  <2>1. b.n \in Nat /\ b.n < loop["sender"].n
    BY <1>T, <1>1 DEF ChannelInv, Numbered
  <2>2. \A f \in flipped' : f \notin flipped => f = Begun + 1
    BY <1>T, BegunStep
  <2>3. b.n - 1 \in flipped /\ b.n + 1 \in flipped
    BY <1>T, <1>1, <2>1, <2>2
  <2>4. b.cnt = sent[b.n]
    BY <1>1, <2>3 DEF SentExact
  <2>5. ASSUME NEW band \in Bands, SendPacket(band) PROVE sent'[b.n] = sent[b.n]
    <3>1. CASE mapped = Unmapped
      BY <1>T, <2>5, <3>1, SendEffects
    <3>2. CASE mapped # Unmapped
      <4>1. mapped # b.n
        BY <1>T, <2>1, <2>3, <3>2 DEF MapInv
      <4>2. b.n \in Blocks
        BY <2>1, <2>3, BlockNumbers DEF WireType, Blocks
      <4>3. QED
        BY <1>T, <2>5, <3>2, <4>1, <4>2, SendEffects DEF BlockCounts
    <3>3. QED
      BY <3>1, <3>2
  <2>6. ASSUME NEW e \in Ends, Read(e) \/ ReadFails(e) \/ Flip(e) \/ Reload(e) PROVE sent' = sent
    BY <1>T, <2>6, ReadTurns, FlipEffects, ReloadEffects
  <2>7. ASSUME ArrivePacket \/ Tick \/ UNCHANGED wire PROVE sent' = sent
    BY <1>T, <2>7, ArriveEffects, TickEffects DEF wire
  <2>8. sent'[b.n] = sent[b.n]
    BY <2>5, <2>6, <2>7, WireSteps
  <2>9. QED
    BY <2>4, <2>8
<1>2. ASSUME NEW b \in Everywhere("sender")', b \notin Everywhere("sender"),
             ~b.reset, b.n - 1 \in flipped', b.n + 1 \in flipped'
      PROVE  b.cnt = sent'[b.n]
  <2> DEFINE base == last["sender"][ColourOf(b.n)]
  <2>1. /\ Read("sender") /\ b.n = loop["sender"].n /\ b.n \in Nat
        /\ base # NoBaseline /\ base.n + 2 = b.n /\ base.member /\ base.handle = table["sender"].handle
        /\ b.cnt = [band \in Bands |-> table["sender"].cnt[ColourOf(b.n)][band] - base.cnt[band]]
    BY <1>T, <1>2, NewBlock
  <2>2. /\ sent' = sent /\ flipped' = flipped /\ loop["sender"].pc = "half" /\ loop["sender"].n \in Blocks
    BY <1>T, <2>1, ReadTurns
  <2>3. base \in Reading /\ base.n \in Nat /\ ColourOf(b.n) \in Colours
    <3>1. ColourOf(b.n) \in Colours
      BY BlockNumbers
    <3>2. QED
      BY <1>T, <2>1, <3>1 DEF WireType, Reading
  <2> HIDE DEF base
  <2>4. base.n + 1 \in flipped /\ Begun <= base.n + 3 /\ base.n + 2 \in Blocks
    <3>1. base.n + 1 = b.n - 1 /\ Begun = base.n + 3
      BY <1>T, <2>1, <2>2, <2>3
    <3>2. QED
      BY <1>2, <2>1, <2>2, <2>3, <3>1
  <2>5. \A band \in Bands : table["sender"].cnt[ColourOf(b.n)][band] = base.cnt[band] + sent[b.n][band]
    BY <2>1, <2>3, <2>4 DEF SenderCount, base
  <2>6. sent[b.n] \in Count /\ \A band \in Bands : sent[b.n][band] \in Nat /\ base.cnt[band] \in Nat
    BY <2>1, <2>2, <2>3 DEF WireType, Reading, Count
  <2>7. \A band \in Bands : table["sender"].cnt[ColourOf(b.n)][band] - base.cnt[band] = sent[b.n][band]
    BY <2>5, <2>6
  <2>8. sent[b.n] = [band \in Bands |-> sent[b.n][band]]
    BY <2>6 DEF Count
  <2>9. QED
    BY <2>1, <2>2, <2>7, <2>8
<1>3. QED
  BY <1>1, <1>2 DEF SentExact

-----------------------------------------------------------------------------
(* What the receiver counts.                                               *)

\* A baseline stays, of the same table or of one that was rebuilt, or is read.
LEMMA BaseSteps ==
    ASSUME WireType, LoopTimes, ClockInv, [Next]_vars, NEW e \in Ends, NEW c \in Colours
    PROVE  \/ /\ last'[e][c] = last[e][c]
              /\ \/ table'[e].handle = table[e].handle
                 \/ table'[e].handle = table[e].handle + 1
           \/ /\ Read(e) /\ c = ColourOf(loop[e].n) /\ UNCHANGED <<now, table, mapped, flipped, sent, arrived>>
              /\ last'[e][c].n = loop[e].n /\ last'[e][c].handle = table[e].handle
              /\ last'[e][c].member = table[e].member /\ last'[e][c].cnt = table[e].cnt[c]
<1> DEFINE Stays == /\ last'[e][c] = last[e][c]
                    /\ \/ table'[e].handle = table[e].handle
                       \/ table'[e].handle = table[e].handle + 1
<1>1. ASSUME NEW f \in Ends, Flip(f) \/ Reload(f) PROVE Stays
  <2>1. CASE f = e
    BY <1>1, <2>1, FlipEffects, ReloadEffects
  <2>2. CASE f # e
    <3>1. last' = last
      BY <1>1, FlipEffects, ReloadEffects
    <3>2. table'[e] = table[e]
      BY <1>1, <2>2, FlipEffects, ReloadEffects
    <3>3. QED
      BY <3>1, <3>2
  <2>3. QED
    BY <2>1, <2>2
<1>2. ASSUME NEW band \in Bands, SendPacket(band) PROVE Stays
  <2>1. last' = last
    BY <1>2, SendEffects
  <2>2. table'[e].handle = table[e].handle
    BY <1>2, SendEffects DEF TableCounts
  <2>3. QED
    BY <2>1, <2>2
<1>3. ASSUME ArrivePacket PROVE Stays
  <2>1. last' = last
    BY <1>3, ArriveEffects
  <2>2. table'[e].handle = table[e].handle
    BY <1>3, ArriveEffects DEF TableCounts
  <2>3. QED
    BY <2>1, <2>2
<1>4. ASSUME Tick \/ UNCHANGED wire \/ \E f \in Ends : ReadFails(f) PROVE Stays
  <2>1. last' = last /\ table' = table
    BY <1>4, TickEffects, ReadTurns, ReadFailsEffects DEF wire
  <2>2. QED
    BY <2>1
<1>5. ASSUME NEW f \in Ends, Read(f), f # e \/ c # ColourOf(loop[e].n) PROVE Stays
  <2>1. table' = table
    BY <1>5, ReadTurns
  <2>2. last'[e][c] = last[e][c]
    BY <1>5, ReadEffects
  <2>3. QED
    BY <2>1, <2>2
<1>6. ASSUME Read(e), c = ColourOf(loop[e].n)
      PROVE  /\ UNCHANGED <<now, table, mapped, flipped, sent, arrived>>
             /\ last'[e][c].n = loop[e].n /\ last'[e][c].handle = table[e].handle
             /\ last'[e][c].member = table[e].member /\ last'[e][c].cnt = table[e].cnt[c]
  <2> DEFINE n == loop[e].n
             r == [n |-> n, handle |-> table[e].handle,
                   member |-> table[e].member, cnt |-> table[e].cnt[ColourOf(n)]]
  <2>1. last'[e][ColourOf(n)] = r
    BY <1>6, ReadEffects
  <2>2. /\ r.n = n /\ r.handle = table[e].handle /\ r.member = table[e].member
        /\ r.cnt = table[e].cnt[ColourOf(n)]
    OBVIOUS
  <2>3. UNCHANGED <<now, table, mapped, flipped, sent, arrived>>
    BY <1>6, ReadTurns
  <2> HIDE DEF r
  <2>4. QED
    BY <1>6, <2>1, <2>2, <2>3
<1>7. SUFFICES ASSUME ~Stays PROVE Read(e) /\ c = ColourOf(loop[e].n)
  BY <1>6, <1>7
<1> HIDE DEF Stays
<1>8. PICK f \in Ends : Read(f)
  BY <1>1, <1>2, <1>3, <1>4, <1>7, WireSteps
<1>9. f = e /\ c = ColourOf(loop[e].n)
  BY <1>5, <1>7, <1>8
<1>10. QED
  BY <1>8, <1>9

\* The sender marked without a break from the flip to block n - 1 until it read
\* block n exactly: nothing it sent in between was unmarked.
Steady(n) ==
    \/ \E b \in Everywhere("sender") : b.n = n /\ ~b.reset
    \/ LET base == last["sender"][ColourOf(n)]
       IN  base # NoBaseline /\ base.n + 2 = n /\ base.member /\ base.handle = table["sender"].handle
    \/ loop["sender"].n + 2 = n /\ loop["sender"].pc = "half" /\ mapped = n - 1

\* In the half block in which it is read the firewall was not reloaded either.
Quiet(n) == Steady(n) /\ n - 1 \in flipped /\ 2 * n + 3 \notin rebuilt

\* It starts to be so with the flip to block n - 1 only.
LEMMA QuietStarts ==
    ASSUME ChannelInv, ClockInv, WireType, MapInv, BaseInv, [Next]_vars, NEW n \in Blocks, Quiet(n)'
    PROVE  \/ Quiet(n)
           \/ /\ Flip("sender") /\ now = 2 * n - 2
              /\ UNCHANGED <<now, net>> /\ loop["sender"].due <= now
<1>T. /\ LoopTimes /\ "sender" \in Ends /\ Begun \in Nat /\ loop["sender"].n \in Nat
      /\ n \in Nat /\ ColourOf(n) \in Colours /\ Unmapped \notin Nat
      /\ flipped \subseteq Nat /\ flipped' \subseteq Nat
      /\ loop["sender"].n <= Begun /\ (loop["sender"].pc = "half" => Begun = loop["sender"].n + 1)
      /\ rebuilt \subseteq rebuilt'
  <2>1. LoopTimes
    BY DEF ChannelInv
  <2>2. flipped' \subseteq Nat
    BY <2>1, WireTypeStep, BlockNumbers DEF WireType
  <2>3. QED
    BY <2>1, <2>2, BegunType, BegunStep, BlockNumbers DEF WireType, Unmapped
<1>1. n - 1 \in flipped' /\ 2 * n + 3 \notin rebuilt /\ n - 1 \in Nat
  BY <1>T DEF Quiet
<1>2. ASSUME n - 1 \notin flipped
      PROVE  /\ Flip("sender") /\ now = 2 * n - 2
             /\ UNCHANGED <<now, net>> /\ loop["sender"].due <= now
  <2>1. Flip("sender") /\ now = 2 * (n - 1)
    BY <1>T, <1>1, <1>2, BegunStep
  <2>2. QED
    BY <1>T, <2>1, FlipEffects
<1>3. ASSUME n - 1 \in flipped PROVE Steady(n)
  <2>1. n - 1 <= Begun
    BY <1>3 DEF MapInv
  <2>2. ASSUME NEW b \in Everywhere("sender")', b.n = n, ~b.reset PROVE Steady(n)
    <3>1. CASE b \in Everywhere("sender")
      BY <2>2, <3>1 DEF Steady
    <3>2. CASE b \notin Everywhere("sender")
      <4>1. /\ last["sender"][ColourOf(n)] # NoBaseline
            /\ last["sender"][ColourOf(n)].n + 2 = n /\ last["sender"][ColourOf(n)].member
            /\ last["sender"][ColourOf(n)].handle = table["sender"].handle
        BY <1>T, <2>2, <3>2, NewBlock
      <4>2. QED
        BY <4>1 DEF Steady
    <3>3. QED
      BY <3>1, <3>2
  <2>3. ASSUME NEW base, base = last'["sender"][ColourOf(n)], base # NoBaseline, base.n + 2 = n,
               base.member, base.handle = table'["sender"].handle
        PROVE  Steady(n)
    <3>1. CASE /\ base = last["sender"][ColourOf(n)]
               /\ \/ table'["sender"].handle = table["sender"].handle
                  \/ table'["sender"].handle = table["sender"].handle + 1
      <4>1. /\ base.handle \in Nat /\ table["sender"].handle \in Nat
            /\ base.handle <= table["sender"].handle
        BY <1>T, <2>3, <3>1 DEF BaseInv, WireType, Table, Reading
      <4>2. base.handle = table["sender"].handle
        BY <2>3, <3>1, <4>1
      <4>3. QED
        BY <2>3, <3>1, <4>2 DEF Steady
    <3>2. CASE /\ Read("sender") /\ base.n = loop["sender"].n /\ base.member = table["sender"].member
      <4>1. loop["sender"].pc = "half" /\ loop["sender"].n + 2 = n
        BY <1>T, <2>3, <3>2, ReadTurns
      <4>2. mapped # Unmapped /\ mapped <= Begun /\ n - 1 <= mapped
        BY <1>3, <2>3, <3>2 DEF MapInv
      <4>3. mapped \in Nat
        BY <4>2, BlockNumbers DEF WireType
      <4>4. mapped = n - 1
        BY <1>T, <4>1, <4>2, <4>3
      <4>5. QED
        BY <4>1, <4>4 DEF Steady
    <3>3. QED
      BY <1>T, <2>3, <3>1, <3>2, BaseSteps
  <2>4. ASSUME loop'["sender"].n + 2 = n, loop'["sender"].pc = "half", mapped' = n - 1
        PROVE  Steady(n)
    <3>1. ASSUME NEW e \in Ends, Flip(e) PROVE UNCHANGED <<loop["sender"], mapped>>
      <4>1. CASE e = "sender"
        <5>1. loop'["sender"].n = loop["sender"].n /\ Begun = loop["sender"].n
          BY <1>T, <3>1, <4>1, FlipEffects, BegunStep
        <5>2. QED
          BY <1>T, <2>1, <2>4, <5>1
      <4>2. CASE e # "sender"
        BY <1>T, <3>1, <4>2, FlipEffects
      <4>3. QED
        BY <4>1, <4>2
    <3>2. ASSUME NEW e \in Ends, Read(e) \/ ReadFails(e) PROVE UNCHANGED <<loop["sender"], mapped>>
      <4>1. loop'[e].pc = "sleep" /\ mapped' = mapped /\ \A f \in Ends : f # e => loop'[f] = loop[f]
        BY <1>T, <3>2, ReadTurns
      <4>2. e # "sender"
        BY <2>4, <4>1
      <4>3. QED
        BY <1>T, <4>1, <4>2
    <3>3. ASSUME NEW e \in Ends, Reload(e) PROVE UNCHANGED <<loop["sender"], mapped>>
      BY <1>T, <1>1, <2>4, <3>3, ReloadEffects
    <3>4. ASSUME (\E band \in Bands : SendPacket(band)) \/ ArrivePacket \/ Tick \/ UNCHANGED wire
          PROVE  UNCHANGED <<loop["sender"], mapped>>
      BY <1>T, <3>4, SendEffects, ArriveEffects, TickEffects DEF wire
    <3>5. UNCHANGED <<loop["sender"], mapped>>
      BY <3>1, <3>2, <3>3, <3>4, WireSteps
    <3>6. QED
      BY <2>4, <3>5 DEF Steady
  <2>5. Steady(n)'
    BY DEF Quiet
  <2>6. QED
    BY <2>2, <2>3, <2>4, <2>5 DEF Steady
<1>4. QED
  BY <1>1, <1>2, <1>3 DEF Quiet

\* While block n is steady, the sender's map is full until half a block after it ended.
LEMMA SteadyMaps ==
    ASSUME ChannelInv, WireType, MapInv, BaseInv, ReadInv, ReloadInv,
           NEW n \in Blocks, Quiet(n), now <= 2 * n + 3
    PROVE  mapped # Unmapped
<1>T. now \in Nat /\ "sender" \in Ends /\ n \in Nat /\ n - 1 \in Nat /\ Unmapped \notin Nat
  BY BlockNumbers DEF ChannelInv, LoopTimes, Ends, Quiet, WireType, Unmapped
<1>1. ASSUME NEW b \in Everywhere("sender"), b.n = n, ~b.reset, mapped = Unmapped PROVE FALSE
  <2>1. now >= 2 * b.n + 3
    BY <1>T DEF ReadInv
  <2>2. now \in rebuilt
    BY <1>1 DEF ReloadInv
  <2>3. now = 2 * n + 3
    BY <1>T, <1>1, <2>1
  <2>4. QED
    BY <2>2, <2>3 DEF Quiet
<1>2. ASSUME NEW base, base = last["sender"][ColourOf(n)], base # NoBaseline, base.member,
             base.handle = table["sender"].handle
      PROVE  mapped # Unmapped
  <2>1. table["sender"].member
    BY <1>T, <1>2, BlockNumbers DEF BaseInv
  <2>2. QED
    BY <2>1 DEF MapInv
<1>3. ASSUME mapped = n - 1 PROVE mapped # Unmapped
  BY <1>T, <1>3
<1>4. Steady(n)
  BY DEF Quiet
<1>5. QED
  BY <1>1, <1>2, <1>3, <1>4 DEF Steady

\* No unmarked packet of that time is on the way after its flip.
NoStray ==
    \A n \in Blocks : Quiet(n) /\ now <= 2 * n + 3 =>
        \A p \in BagToSet(net) : p.n = Unmapped => p.by <= 2 * n - 1

LEMMA NoStrayStep ==
    ASSUME ChannelInv, ClockInv, WireType, MapInv, BaseInv, FlightInv, ReadInv, ReloadInv, NoStray,
           [Next]_vars
    PROVE  NoStray'
<1>T. LoopTimes /\ now \in Nat /\ now' \in Nat /\ now' >= now /\ Blocks \subseteq Nat /\ IsABag(net)
  BY BegunStep, BegunType, BlockNumbers DEF ChannelInv, WireType
<1>1. ASSUME NEW p \in BagToSet(net'), p \notin BagToSet(net) PROVE p.n = mapped /\ now' = now
  <2>1. ASSUME NEW band \in Bands, SendPacket(band) PROVE p.n = mapped /\ now' = now
    <3>1. PICK q \in Packet : q.n = mapped /\ (net' = net \/ net' = net (+) SetToBag({q}))
      BY <1>T, <2>1, SendEffects
    <3>2. net' = net (+) SetToBag({q})
      BY <1>1, <3>1
    <3>3. BagToSet(net') = BagToSet(net) \cup {q}
      BY <1>T, <3>2, BagAdd
    <3>4. p = q
      BY <1>1, <3>3
    <3>5. QED
      BY <1>T, <2>1, <3>1, <3>4, SendEffects
  <2>2. ASSUME ArrivePacket PROVE FALSE
    <3>1. PICK q \in BagToSet(net) : net' = net (-) SetToBag({q})
      BY <2>2, ArriveEffects
    <3>2. BagToSet(net') = IF net[q] = 1 THEN BagToSet(net) \ {q} ELSE BagToSet(net)
      BY <1>T, <3>1, BagRemove
    <3>3. QED
      BY <1>1, <3>2
  <2>3. ASSUME NEW e \in Ends, Read(e) \/ ReadFails(e) \/ Flip(e) \/ Reload(e) PROVE net' = net
    BY <1>T, <2>3, ReadTurns, FlipEffects, ReloadEffects
  <2>4. ASSUME Tick \/ UNCHANGED wire PROVE net' = net
    BY <2>4, TickEffects DEF wire
  <2>5. net' # net
    BY <1>1
  <2>6. QED
    BY <2>1, <2>2, <2>3, <2>4, <2>5, WireSteps
<1>2. ASSUME NEW n \in Blocks, Quiet(n)', now' <= 2 * n + 3, NEW p \in BagToSet(net'), p.n = Unmapped
      PROVE  p.by <= 2 * n - 1
  <2>1. CASE Quiet(n)
    <3>1. now <= 2 * n + 3
      BY <1>T, <1>2
    <3>2. CASE p \in BagToSet(net)
      BY <1>2, <2>1, <3>1, <3>2 DEF NoStray
    <3>3. CASE p \notin BagToSet(net)
      BY <1>1, <1>2, <2>1, <3>1, <3>3, SteadyMaps
    <3>4. QED
      BY <3>2, <3>3
  <2>2. CASE now = 2 * n - 2 /\ UNCHANGED <<now, net>> /\ loop["sender"].due <= now
    <3>1. p \in BagToSet(net)
      BY <1>2, <2>2
    <3>2. p.by <= now + 1
      BY <2>2, <3>1 DEF FlightInv
    <3>3. p.by \in Nat
      BY <3>1 DEF WireType, Packet
    <3>4. QED
      BY <1>T, <2>2, <3>2, <3>3
  <2>3. QED
    BY <1>2, <2>1, <2>2, QuietStarts
<1>3. QED
  BY <1>2 DEF NoStray

\* Since a baseline read in time, the receiver's own table counted what arrived of the
\* block after it: no packet of another block or unmarked one is on the way any more.
ReceiverCount ==
    \A c \in Colours, n \in Blocks :
        LET base == last["receiver"][c]
        IN  /\ base # NoBaseline /\ base.n + 2 = n /\ base.member /\ base.handle = table["receiver"].handle
            /\ n - 2 \in readOn /\ Quiet(n) /\ now <= 2 * n + 3
            => \A band \in Bands :
                  table["receiver"].cnt[c][band] = base.cnt[band] + arrived[n][band]

\* The packets that can arrive then belong to block n or its neighbours.
LEMMA ArrivesInBlock ==
    ASSUME ChannelInv, WireType, MapInv, FlightInv, ReadInv, NoStray, NEW n \in Blocks, Quiet(n),
           now <= 2 * n + 3, now >= 2 * n - 1, NEW p \in BagToSet(net)
    PROVE  /\ p.n # Unmapped /\ p.n \in Nat /\ p.n >= n - 1 /\ p.n <= n + 1
           /\ p.bit = ColourOf(n) <=> p.n = n
<1>T. /\ now \in Nat /\ n \in Nat /\ n - 1 \in Nat /\ n - 1 \in flipped /\ p.by \in Nat /\ p.by > now
      /\ p.n # Unmapped => p.n \in Nat
  BY BlockNumbers DEF ChannelInv, LoopTimes, Quiet, WireType, FlightInv, Packet
<1>1. p.n # Unmapped /\ p.n \in Nat
  <2>1. p.n = Unmapped => p.by <= 2 * n - 1
    BY DEF NoStray
  <2>2. QED
    BY <1>T, <2>1
<1>2. p.bit = ColourOf(p.n) /\ 2 * p.n <= now /\ (p.n < n - 1 => p.by <= 2 * (n - 1) + 1)
  BY <1>T, <1>1 DEF FlightInv
<1>3. p.n >= n - 1 /\ p.n <= n + 1
  BY <1>T, <1>1, <1>2
<1>4. ColourOf(p.n) = ColourOf(n) => p.n = n
  <2> DEFINE k == n - 1
  <2>1. k \in Nat /\ p.n >= k /\ p.n <= k + 2 /\ n = k + 1
    BY <1>T, <1>3
  <2> HIDE DEF k
  <2>2. ColourOf(p.n) = ColourOf(k + 1) => p.n = k + 1
    BY <1>1, <2>1, ColourTurns
  <2>3. QED
    BY <2>1, <2>2
<1>5. QED
  BY <1>1, <1>2, <1>3, <1>4

LEMMA ReceiverCountStep ==
    ASSUME ChannelInv, ClockInv, WireType, MapInv, BaseInv, FlightInv, ReadInv, ReadInv', NoStray,
           ReceiverCount, [Next]_vars
    PROVE  ReceiverCount'
<1>T. /\ LoopTimes /\ now \in Nat /\ now' \in Nat /\ now' >= now /\ "receiver" \in Ends
      /\ "sender" # "receiver" /\ loop["receiver"].n \in Nat
      /\ Blocks \subseteq Nat /\ readOn \subseteq Nat /\ table["receiver"].handle \in Nat
      /\ arrived \in [Blocks -> Count]
  <2>1. LoopTimes /\ readOn \subseteq Blocks
    BY DEF ChannelInv, WireType
  <2>2. table["receiver"].handle \in Nat /\ arrived \in [Blocks -> Count]
    BY DEF WireType, Table, Ends
  <2>3. QED
    BY <2>1, <2>2, BegunStep, BegunType, BlockNumbers DEF LoopTimes
<1>1. ASSUME NEW c \in Colours, NEW n \in Blocks, NEW base, base = last'["receiver"][c],
             base # NoBaseline, base.n + 2 = n, base.member, base.handle = table'["receiver"].handle,
             n - 2 \in readOn', Quiet(n)', now' <= 2 * n + 3, NEW band \in Bands
      PROVE  table'["receiver"].cnt[c][band] = base.cnt[band] + arrived'[n][band]
  <2>1. n \in Nat /\ n - 2 \in Nat /\ now' >= 2 * n - 1
    <3>1. n \in Nat /\ now' >= 2 * (n - 2) + 3
      BY <1>T, <1>1 DEF ReadInv
    <3>2. n - 2 \in Nat
      <4>1. n - 2 \in readOn \/ n - 2 = loop["receiver"].n
        BY <1>T, <1>1, ReadOnStep
      <4>2. QED
        BY <1>T, <4>1
    <3>3. QED
      BY <1>T, <3>1, <3>2
  <2>2. Quiet(n)
    <3>1. ~(now = 2 * n - 2 /\ now' = now)
      BY <1>T, <2>1
    <3>2. QED
      BY <1>1, <3>1, QuietStarts
  <2>3. CASE /\ Read("receiver") /\ c = ColourOf(loop["receiver"].n) /\ UNCHANGED <<now, table, arrived>>
             /\ base.n = loop["receiver"].n /\ base.cnt = table["receiver"].cnt[c]
    <3>1. n - 2 = loop["receiver"].n
      BY <1>T, <1>1, <2>1, <2>3
    <3>2. n - 2 \notin readOn
      BY <1>T, <3>1 DEF ReadInv
    <3>3. now = 2 * (n - 2) + 3
      BY <1>T, <1>1, <3>2, ReadOnStep
    <3>4. arrived[n] = ZeroCount
      BY <1>T, <2>1, <3>3 DEF ReadInv
    <3>5. arrived[n][band] = 0
      BY <3>4 DEF ZeroCount
    <3>6. table["receiver"].cnt[c][band] \in Nat
      BY <1>T DEF WireType, Table, Count
    <3>7. QED
      BY <2>3, <3>5, <3>6
  <2>4. CASE /\ base = last["receiver"][c]
             /\ \/ table'["receiver"].handle = table["receiver"].handle
                \/ table'["receiver"].handle = table["receiver"].handle + 1
    <3>1. /\ base \in Reading /\ base.n \in Nat /\ base.handle \in Nat
          /\ base.n < loop["receiver"].n /\ base.handle <= table["receiver"].handle /\ ColourOf(base.n) = c
          /\ base.handle = table["receiver"].handle => table["receiver"].member
      <4>1. base \in Reading
        BY <1>T, <1>1, <2>4 DEF WireType
      <4>2. /\ base.n < loop["receiver"].n /\ base.handle <= table["receiver"].handle /\ ColourOf(base.n) = c
            /\ base.handle = table["receiver"].handle => table["receiver"].member
        BY <1>T, <1>1, <2>4 DEF BaseInv
      <4>3. base.n \in Nat /\ base.handle \in Nat
        BY <4>1 DEF Reading
      <4>4. QED
        BY <4>1, <4>2, <4>3
    <3>2. table'["receiver"].handle = table["receiver"].handle /\ base.handle = table["receiver"].handle
      BY <1>T, <1>1, <2>4, <3>1
    <3>3. n - 2 \in readOn
      <4>1. n - 2 # loop["receiver"].n
        BY <1>T, <1>1, <3>1
      <4>2. QED
        BY <1>T, <1>1, <4>1, ReadOnStep
    <3>4. now <= 2 * n + 3 /\ now >= 2 * n - 1
      <4>1. now >= 2 * (n - 2) + 3
        BY <3>3 DEF ReadInv
      <4>2. QED
        BY <1>T, <1>1, <2>1, <4>1
    <3>5. table["receiver"].cnt[c][band] = base.cnt[band] + arrived[n][band]
      BY <1>1, <2>2, <2>4, <3>2, <3>3, <3>4 DEF ReceiverCount
    <3>6. CASE table'["receiver"].cnt = table["receiver"].cnt /\ arrived' = arrived
      BY <3>5, <3>6
    <3>7. CASE ArrivePacket
      <4>1. PICK p \in BagToSet(net) :
               /\ p \in Packet
               /\ IF table["receiver"].member
                  THEN TableCounts(table, table', "receiver", p.bit, p.band)
                  ELSE table' = table
               /\ IF p.n = Unmapped THEN arrived' = arrived ELSE BlockCounts(arrived, arrived', p.n, p.band)
        BY <3>7, ArriveEffects
      <4>2. p.n # Unmapped /\ (p.bit = ColourOf(n) <=> p.n = n)
        BY <2>2, <3>4, ArrivesInBlock
      <4>3. ColourOf(n) = c
        <5>1. ColourOf(base.n + 2) = ColourOf(base.n)
          BY <3>1, ColourTurns
        <5>2. QED
          BY <1>1, <3>1, <5>1
      <4>4. /\ \A d \in Colours, b \in Bands : table'["receiver"].cnt[d][b] =
                  IF d = p.bit /\ b = p.band THEN table["receiver"].cnt[d][b] + 1
                                             ELSE table["receiver"].cnt[d][b]
            /\ \A m \in Blocks, b \in Bands : arrived'[m][b] =
                  IF m = p.n /\ b = p.band THEN arrived[m][b] + 1 ELSE arrived[m][b]
        <5>1. TableCounts(table, table', "receiver", p.bit, p.band) /\ BlockCounts(arrived, arrived', p.n, p.band)
          BY <1>1, <3>1, <3>2, <4>1, <4>2
        <5>2. QED
          BY <5>1 DEF TableCounts, BlockCounts
      <4>5. base.cnt[band] \in Nat /\ arrived[n][band] \in Nat /\ table["receiver"].cnt[c][band] \in Nat
        BY <1>T, <3>1 DEF WireType, Table, Reading, Count
      <4>6. QED
        BY <3>5, <4>2, <4>3, <4>4, <4>5
    <3>8. ASSUME NEW e \in Ends, Flip(e) \/ Read(e) \/ ReadFails(e) \/ Reload(e)
          PROVE  table'["receiver"].cnt = table["receiver"].cnt /\ arrived' = arrived
      <4>1. CASE Flip(e) \/ Read(e) \/ ReadFails(e)
        BY <1>T, <4>1, FlipEffects, ReadTurns
      <4>2. CASE Reload(e)
        <5>1. e # "receiver"
          BY <1>T, <3>2, <4>2, ReloadEffects
        <5>2. QED
          BY <1>T, <4>2, <5>1, ReloadEffects
      <4>3. QED
        BY <3>8, <4>1, <4>2
    <3>9. ASSUME NEW b \in Bands, SendPacket(b)
          PROVE  table'["receiver"].cnt = table["receiver"].cnt /\ arrived' = arrived
      <4>1. table'["receiver"] = table["receiver"]
        BY <1>T, <3>9, SendEffects DEF TableCounts
      <4>2. QED
        BY <1>T, <3>9, <4>1, SendEffects
    <3>10. ASSUME Tick \/ UNCHANGED wire
           PROVE  table'["receiver"].cnt = table["receiver"].cnt /\ arrived' = arrived
      BY <3>10, TickEffects DEF wire
    <3>11. QED
      BY <3>6, <3>7, <3>8, <3>9, <3>10, WireSteps
  <2>5. QED
    BY <1>T, <1>1, <2>3, <2>4, BaseSteps
<1>2. QED
  BY <1>1 DEF ReceiverCount

\* The receiver's half is exact when it read on time and the sender marked on time.
ReceivedExact ==
    \A b \in Everywhere("receiver") :
        /\ ~b.reset /\ b.n - 2 \in readOn /\ b.n \in readOn /\ b.n + 1 \in flipped /\ Quiet(b.n)
        => b.cnt = arrived[b.n]

LEMMA ReceivedExactStep ==
    ASSUME ChannelInv, ClockInv, WireType, MapInv, BaseInv, FlightInv, ReadInv, ReceiverCount,
           ReceivedExact, [Next]_vars
    PROVE  ReceivedExact'
<1>T. /\ LoopTimes /\ now \in Nat /\ "receiver" \in Ends /\ loop["receiver"].n \in Nat
      /\ Blocks \subseteq Nat /\ readOn \subseteq Blocks /\ arrived \in [Blocks -> Count]
  BY BegunType, BlockNumbers DEF ChannelInv, LoopTimes, WireType
<1>1. ASSUME NEW b \in Everywhere("receiver"), ~b.reset, b.n - 2 \in readOn', b.n \in readOn',
             b.n + 1 \in flipped', Quiet(b.n)'
      PROVE  b.cnt = arrived'[b.n]
  <2>1. b.n \in Nat /\ b.n < loop["receiver"].n /\ now >= 2 * b.n + 3
    BY <1>T DEF ChannelInv, Numbered, ReadInv
  <2>2. b.n - 2 \in readOn /\ b.n \in readOn
    <3>1. b.n - 2 # loop["receiver"].n /\ b.n # loop["receiver"].n
      BY <1>T, <2>1
    <3>2. QED
      BY <1>T, <1>1, <3>1, ReadOnStep
  <2>3. b.n + 1 \in flipped
    <3>1. now # 2 * (b.n + 1)
      BY <1>T, <2>1
    <3>2. QED
      BY <1>T, <1>1, <3>1, BegunStep
  <2>4. Quiet(b.n)
    <3>1. now # 2 * b.n - 2 /\ b.n \in Blocks
      BY <1>T, <2>1, <2>2
    <3>2. QED
      BY <1>1, <3>1, QuietStarts
  <2>5. b.cnt = arrived[b.n]
    BY <1>1, <2>2, <2>3, <2>4 DEF ReceivedExact
  <2>6. arrived'[b.n] = arrived[b.n]
    <3>1. CASE ArrivePacket
      <4>1. PICK p \in BagToSet(net) : IF p.n = Unmapped THEN arrived' = arrived
                                       ELSE BlockCounts(arrived, arrived', p.n, p.band)
        BY <3>1, ArriveEffects
      <4>2. p.n # b.n
        <5>1. SUFFICES ASSUME p.n = b.n PROVE FALSE
          OBVIOUS
        <5>2. p.n # Unmapped /\ p.n < b.n + 1 /\ p.by \in Nat /\ p.by > now
          BY <2>1, <5>1 DEF Unmapped, WireType, Packet, FlightInv
        <5>3. p.by <= 2 * (b.n + 1) + 1
          BY <2>3, <5>2 DEF FlightInv
        <5>4. QED
          BY <1>T, <2>1, <5>2, <5>3
      <4>3. b.n \in Blocks
        BY <1>T, <2>2
      <4>4. QED
        BY <4>1, <4>2, <4>3 DEF BlockCounts
    <3>2. ASSUME NEW e \in Ends, Read(e) \/ ReadFails(e) \/ Flip(e) \/ Reload(e) PROVE arrived' = arrived
      BY <1>T, <3>2, ReadTurns, FlipEffects, ReloadEffects
    <3>3. ASSUME (\E band \in Bands : SendPacket(band)) \/ Tick \/ UNCHANGED wire
          PROVE  arrived' = arrived
      BY <1>T, <3>3, SendEffects, TickEffects DEF wire
    <3>4. QED
      BY <3>1, <3>2, <3>3, WireSteps
  <2>7. QED
    BY <2>5, <2>6
<1>2. ASSUME NEW b \in Everywhere("receiver")', b \notin Everywhere("receiver"), ~b.reset,
             b.n - 2 \in readOn', b.n \in readOn', b.n + 1 \in flipped', Quiet(b.n)'
      PROVE  b.cnt = arrived'[b.n]
  <2> DEFINE base == last["receiver"][ColourOf(b.n)]
  <2>1. /\ Read("receiver") /\ b.n = loop["receiver"].n /\ b.n \in Nat
        /\ base # NoBaseline /\ base.n + 2 = b.n /\ base.member /\ base.handle = table["receiver"].handle
        /\ b.cnt = [band \in Bands |-> table["receiver"].cnt[ColourOf(b.n)][band] - base.cnt[band]]
    BY <1>T, <1>2, NewBlock
  <2>2. UNCHANGED <<now, arrived>> /\ b.n \in Blocks
    BY <1>T, <2>1, ReadTurns
  <2>3. base \in Reading /\ ColourOf(b.n) \in Colours
    <3>1. ColourOf(b.n) \in Colours
      BY BlockNumbers
    <3>2. QED
      BY <1>T, <2>1, <3>1 DEF WireType
  <2> HIDE DEF base
  <2>4. b.n \notin readOn /\ now = 2 * b.n + 3
    <3>1. b.n \notin readOn
      BY <1>T, <2>1 DEF ReadInv
    <3>2. QED
      BY <1>T, <1>2, <3>1, ReadOnStep
  <2>5. b.n - 2 \in readOn
    <3>1. b.n - 2 # loop["receiver"].n
      BY <1>T, <2>1
    <3>2. QED
      BY <1>T, <1>2, <3>1, ReadOnStep
  <2>6. Quiet(b.n)
    <3>1. now # 2 * b.n - 2
      BY <2>1, <2>4
    <3>2. QED
      BY <1>2, <2>2, <3>1, QuietStarts
  <2>7. \A band \in Bands : table["receiver"].cnt[ColourOf(b.n)][band] = base.cnt[band] + arrived[b.n][band]
    <3>1. now <= 2 * b.n + 3
      BY <2>1, <2>4
    <3>2. QED
      BY <2>1, <2>2, <2>3, <2>5, <2>6, <3>1 DEF ReceiverCount, base
  <2>8. arrived[b.n] \in Count /\ \A band \in Bands : arrived[b.n][band] \in Nat /\ base.cnt[band] \in Nat
    BY <1>T, <2>2, <2>3 DEF Reading, Count
  <2>9. \A band \in Bands : table["receiver"].cnt[ColourOf(b.n)][band] - base.cnt[band] = arrived[b.n][band]
    BY <2>7, <2>8
  <2>10. arrived[b.n] = [band \in Bands |-> arrived[b.n][band]]
    BY <2>8 DEF Count
  <2>11. QED
    BY <2>1, <2>2, <2>9, <2>10
<1>3. QED
  BY <1>1, <1>2 DEF ReceivedExact

-----------------------------------------------------------------------------
(* A joined block is exact.                                                *)

ExactInv ==
    /\ ChannelInv /\ ClockInv /\ WireType
    /\ MapInv /\ BaseInv /\ FlightInv /\ ReadInv /\ ReloadInv
    /\ SenderCount /\ SentExact /\ NoStray /\ ReceiverCount /\ ReceivedExact

LEMMA ExactInvStep ==
    ASSUME ExactInv, [Next]_vars
    PROVE  ExactInv'
<1>1. /\ LoopTimes /\ ChannelInv /\ ClockInv /\ WireType
      /\ MapInv /\ BaseInv /\ FlightInv /\ ReadInv /\ ReloadInv
      /\ SenderCount /\ SentExact /\ NoStray /\ ReceiverCount /\ ReceivedExact
  BY DEF ExactInv, ChannelInv
<1>2. ChannelInv' /\ ClockInv' /\ WireType'
  BY <1>1, ChannelStep, ClockStep, WireTypeStep
<1>3. MapInv' /\ BaseInv'
  BY <1>1, MapInvStep, BaseInvStep
<1>4. FlightInv'
  BY <1>1, FlightInvStep
<1>5. ReadInv'
  BY <1>1, ReadInvStep
<1>6. ReloadInv'
  BY <1>1, ReloadInvStep
<1>7. SenderCount' /\ SentExact'
  BY <1>1, SenderCountStep, SentExactStep
<1>8. NoStray'
  BY <1>1, NoStrayStep
<1>9. ReceiverCount'
  BY <1>1, <1>5, ReceiverCountStep
<1>10. ReceivedExact'
  BY <1>1, ReceivedExactStep
<1>11. QED
  BY <1>2, <1>3, <1>4, <1>5, <1>6, <1>7, <1>8, <1>9, <1>10 DEF ExactInv

LEMMA ExactInvStart == Init => ExactInv
<1> SUFFICES ASSUME Init PROVE ExactInv
  OBVIOUS
<1>1. ChannelInv /\ ClockInv /\ WireType
  BY ChannelInit, ClockStart, WireTypeStart
<1>2. /\ now = 0 /\ mapped = Unmapped /\ flipped = {} /\ readOn = {} /\ net = EmptyBag
      /\ table = [e \in Ends |-> FreshTable(1)]
      /\ last = [e \in Ends |-> [c \in Colours |-> NoBaseline]]
      /\ sent = [n \in Blocks |-> ZeroCount] /\ arrived = [n \in Blocks |-> ZeroCount]
      /\ queue = [e \in Ends |-> <<>>] /\ store = [e \in Ends |-> {}] /\ replies = {}
  BY DEF Init, MarkInit
<1>3. \A e \in Ends : Everywhere(e) = {}
  BY <1>2 DEF Everywhere, InReplies, ToSet
<1>4. BagToSet(net) = {}
  BY <1>2 DEF EmptyBag, SetToBag, BagToSet
<1>5. \A e \in Ends, c \in Colours : last[e][c] = NoBaseline
  BY <1>2
<1>6. "sender" \in Ends /\ "receiver" \in Ends
  BY DEF Ends
<1>7. MapInv
  <2>1. table["sender"].member = FALSE
    BY <1>2, <1>6 DEF FreshTable
  <2>2. \A m \in Blocks : sent[m] = ZeroCount
    BY <1>2
  <2>3. QED
    BY <1>2, <2>1, <2>2 DEF MapInv
<1>8. BaseInv /\ FlightInv
  BY <1>4, <1>5 DEF BaseInv, FlightInv
<1>9. ReadInv /\ ReloadInv /\ SentExact /\ ReceivedExact
  <2>1. \A m \in Blocks : arrived[m] = ZeroCount
    BY <1>2
  <2>2. QED
    BY <1>2, <1>3, <1>6, <2>1 DEF ReadInv, ReloadInv, SentExact, ReceivedExact
<1>10. SenderCount /\ ReceiverCount /\ NoStray
  BY <1>4, <1>5, <1>6 DEF SenderCount, ReceiverCount, NoStray
<1>11. QED
  BY <1>1, <1>7, <1>8, <1>9, <1>10 DEF ExactInv

LEMMA ExactlyJoined ==
    ASSUME ExactInv
    PROVE  ExactLoss
<1>1. ASSUME NEW b \in Joined, OnTime(b.n) PROVE b.sent = sent[b.n] /\ b.recv = arrived[b.n]
  <2>1. PICK p \in store["sender"], q \in store["receiver"] :
           /\ p.n = q.n /\ ~p.reset /\ ~q.reset
           /\ b = [n |-> p.n, sent |-> p.cnt, recv |-> q.cnt,
                   under_test |-> p.under_test \/ q.under_test]
    BY JoinMembers DEF Joined
  <2>2. p \in Everywhere("sender") /\ q \in Everywhere("receiver")
    BY DEF Everywhere
  <2>3. b.n = p.n /\ b.sent = p.cnt /\ b.recv = q.cnt
    BY <2>1
  <2>4. /\ b.n - 1 \in flipped /\ b.n + 1 \in flipped
        /\ b.n - 2 \in readOn /\ b.n \in readOn /\ 2 * b.n + 3 \notin rebuilt
    BY <1>1 DEF OnTime
  <2>5. Quiet(b.n)
    BY <2>1, <2>2, <2>3, <2>4 DEF Quiet, Steady
  <2>6. p.cnt = sent[p.n]
    BY <2>1, <2>2, <2>3, <2>4 DEF ExactInv, SentExact
  <2>7. q.cnt = arrived[q.n]
    BY <2>1, <2>2, <2>3, <2>4, <2>5 DEF ExactInv, ReceivedExact
  <2>8. QED
    BY <2>1, <2>3, <2>6, <2>7
<1>2. QED
  BY <1>1 DEF ExactLoss

\* A joined block holds the packets that the sender marked in it and those of them
\* that arrived, as long as the marking ran on time around it: whatever reloads, failed
\* or hanging nft calls, tests and lost or late replies happened at either end, and in
\* whatever order the two agents and the packets interleaved (mark.rs, nft.rs).
THEOREM LossIsExact == Spec => []ExactLoss
BY ExactInvStep, ExactInvStart, ExactlyJoined, PTL DEF Spec

-----------------------------------------------------------------------------
(* A clean link.                                                           *)

\* The packets of a block that are on the way.
Copies(B, m, band) == {p \in BagToSet(B) : p.n = m /\ p.band = band}
Underway(B, m, band) == SumFunctionOnSet(B, Copies(B, m, band))

LEMMA UnderwayAdd ==
    ASSUME NEW B, IsABag(B), IsFiniteSet(BagToSet(B)), NEW p, NEW E, E = B (+) SetToBag({p}),
           NEW m, NEW band
    PROVE  /\ IsFiniteSet(BagToSet(E)) /\ Underway(B, m, band) \in Nat
           /\ Underway(E, m, band) = IF p.n = m /\ p.band = band THEN Underway(B, m, band) + 1
                                                                ELSE Underway(B, m, band)
<1> DEFINE C == Copies(B, m, band)
           D == Copies(E, m, band)
           x == SumFunctionOnSet(B, C)
           y == SumFunctionOnSet(E, D)
           z == SumFunctionOnSet(B, C \ {p})
<1>1. /\ IsABag(E) /\ BagToSet(E) = BagToSet(B) \cup {p}
      /\ \A q \in BagToSet(B) : q # p => E[q] = B[q]
      /\ E[p] = IF p \in BagToSet(B) THEN B[p] + 1 ELSE 1
  BY ONLY IsABag(B), E = B (+) SetToBag({p}), BagAdd
<1>2. IsFiniteSet(BagToSet(E))
  BY <1>1, FS_AddElement
<1>3. \A q \in BagToSet(B) : B[q] \in Nat
  BY DEF IsABag, BagToSet
<1>4. \A q \in BagToSet(E) : E[q] \in Nat
  BY <1>1 DEF IsABag, BagToSet
<1>5. IsFiniteSet(C) /\ IsFiniteSet(D) /\ C \subseteq BagToSet(B) /\ D \subseteq BagToSet(E)
  BY <1>2, FS_Subset DEF Copies
<1>6. /\ p.n = m /\ p.band = band => D = C \cup {p} /\ (p \in C <=> p \in BagToSet(B))
      /\ ~(p.n = m /\ p.band = band) => D = C /\ p \notin C
  BY <1>1 DEF Copies
<1> HIDE DEF C, D
<1>7. x \in Nat /\ z \in Nat
  <2>1. IsFiniteSet(C \ {p}) /\ \A q \in C \ {p} : B[q] \in Nat
    BY <1>3, <1>5, FS_Subset
  <2>2. QED
    BY <1>3, <1>5, <2>1, SumNat
<1>8. ASSUME ~(p.n = m /\ p.band = band) PROVE y = x
  <2>1. D = C /\ \A q \in C : E[q] = B[q]
    BY <1>1, <1>5, <1>6, <1>8
  <2>2. QED
    BY <1>5, <2>1, SumCongruent
<1>9. ASSUME p.n = m, p.band = band PROVE y = x + 1
  <2>1. D = C \cup {p} /\ p \in D /\ D \ {p} = C \ {p}
    BY <1>6, <1>9
  <2>2. SumFunctionOnSet(E, C \ {p}) = z
    <3>1. IsFiniteSet(C \ {p}) /\ \A q \in C \ {p} : E[q] = B[q]
      BY <1>1, <1>5, FS_Subset
    <3>2. QED
      BY <3>1, SumCongruent
  <2>3. y = E[p] + z
    <3>1. SumFunctionOnSet(E, D) = E[p] + SumFunctionOnSet(E, D \ {p})
      BY <1>4, <1>5, <2>1, SumRemove
    <3>2. QED
      BY <2>1, <2>2, <3>1
  <2>4. CASE p \in C
    <3>1. x = B[p] + z
      BY <1>3, <1>5, <2>4, SumRemove
    <3>2. E[p] = B[p] + 1 /\ B[p] \in Nat
      BY <1>1, <1>3, <1>5, <2>4
    <3> HIDE DEF x, y, z
    <3>3. QED
      BY <1>7, <2>3, <3>1, <3>2
  <2>5. CASE p \notin C
    <3>1. C \ {p} = C /\ E[p] = 1
      BY <1>1, <1>6, <1>9, <2>5
    <3>2. z = x
      BY <3>1
    <3> HIDE DEF x, y, z
    <3>3. QED
      BY <1>7, <2>3, <3>1, <3>2
  <2>6. QED
    BY <2>4, <2>5
<1>10. Underway(B, m, band) = x /\ Underway(E, m, band) = y
  BY DEF Underway, C, D
<1> HIDE DEF x, y, z
<1>11. QED
  BY <1>2, <1>7, <1>8, <1>9, <1>10

LEMMA UnderwayRemove ==
    ASSUME NEW B, IsABag(B), IsFiniteSet(BagToSet(B)), NEW p \in BagToSet(B), NEW E,
           E = B (-) SetToBag({p}), NEW m, NEW band
    PROVE  /\ IsFiniteSet(BagToSet(E)) /\ Underway(E, m, band) \in Nat
           /\ Underway(B, m, band) = IF p.n = m /\ p.band = band THEN Underway(E, m, band) + 1
                                                                ELSE Underway(E, m, band)
<1>1. /\ IsABag(E) /\ BagToSet(E) = IF B[p] = 1 THEN BagToSet(B) \ {p} ELSE BagToSet(B)
      /\ \A q \in BagToSet(B) : q # p => E[q] = B[q]
      /\ B[p] # 1 => E[p] = B[p] - 1
      /\ B[p] \in Nat /\ B[p] > 0
  BY BagRemove, BagRemoveOthers
<1> DEFINE C == Copies(B, m, band)
           D == Copies(E, m, band)
           x == SumFunctionOnSet(B, C)
           y == SumFunctionOnSet(E, D)
           z == SumFunctionOnSet(B, C \ {p})
<1>2. IsFiniteSet(BagToSet(E))
  BY <1>1, FS_Subset
<1>3. \A q \in BagToSet(B) : B[q] \in Nat
  BY DEF IsABag, BagToSet
<1>4. \A q \in BagToSet(E) : E[q] \in Nat
  BY <1>1 DEF IsABag, BagToSet
<1>5. IsFiniteSet(C) /\ IsFiniteSet(D) /\ C \subseteq BagToSet(B) /\ D \subseteq BagToSet(E)
  BY <1>2, FS_Subset DEF Copies
<1>6. /\ D \ {p} = C \ {p}
      /\ p.n = m /\ p.band = band => p \in C /\ (p \in D <=> B[p] # 1)
      /\ ~(p.n = m /\ p.band = band) => D = C /\ p \notin C
  BY <1>1 DEF Copies
<1> HIDE DEF C, D
<1>7. y \in Nat /\ z \in Nat
  <2>1. IsFiniteSet(C \ {p}) /\ \A q \in C \ {p} : B[q] \in Nat
    BY <1>3, <1>5, FS_Subset
  <2>2. QED
    BY <1>4, <1>5, <2>1, SumNat
<1>8. SumFunctionOnSet(E, D \ {p}) = z
  <2>1. IsFiniteSet(C \ {p}) /\ \A q \in C \ {p} : E[q] = B[q]
    BY <1>1, <1>5, <1>6, FS_Subset
  <2>2. SumFunctionOnSet(E, C \ {p}) = z
    BY <2>1, SumCongruent
  <2>3. QED
    BY <1>6, <2>2
<1>9. ASSUME ~(p.n = m /\ p.band = band) PROVE x = y
  <2>1. D = C /\ D \ {p} = D /\ C \ {p} = C
    BY <1>6, <1>9
  <2>2. QED
    BY <1>8, <2>1
<1>10. ASSUME p.n = m, p.band = band PROVE x = y + 1
  <2>1. x = B[p] + z
    BY <1>3, <1>5, <1>6, <1>10, SumRemove
  <2>2. CASE B[p] # 1
    <3>1. SumFunctionOnSet(E, D) = E[p] + SumFunctionOnSet(E, D \ {p})
      BY <1>4, <1>5, <1>6, <1>10, <2>2, SumRemove
    <3>2. y = E[p] + z
      BY <1>8, <3>1
    <3>3. E[p] = B[p] - 1 /\ B[p] \in Nat
      BY <1>1, <2>2
    <3> HIDE DEF x, y, z
    <3>4. QED
      BY <1>7, <2>1, <3>2, <3>3
  <2>3. CASE B[p] = 1
    <3>1. D \ {p} = D
      BY <1>6, <1>10, <2>3
    <3>2. y = z
      BY <1>8, <3>1
    <3> HIDE DEF x, y, z
    <3>3. QED
      BY <1>7, <2>1, <2>3, <3>2
  <2>4. QED
    BY <2>2, <2>3
<1>11. Underway(B, m, band) = x /\ Underway(E, m, band) = y
  BY DEF Underway, C, D
<1> HIDE DEF x, y, z
<1>12. QED
  BY <1>2, <1>7, <1>9, <1>10, <1>11

\* What arrived of a block and what is on the way was marked in it.
Conserved ==
    /\ IsFiniteSet(BagToSet(net))
    /\ \A m \in Blocks, band \in Bands :
          Underway(net, m, band) \in Nat /\ arrived[m][band] + Underway(net, m, band) <= sent[m][band]

LEMMA ConservedStep ==
    ASSUME LoopTimes, ClockInv, WireType, Conserved, [Next]_vars
    PROVE  Conserved'
<1>T. /\ IsABag(net) /\ Unmapped \notin Blocks /\ IsFiniteSet(BagToSet(net))
      /\ \A m \in Blocks, band \in Bands :
            /\ sent[m][band] \in Nat /\ arrived[m][band] \in Nat /\ Underway(net, m, band) \in Nat
            /\ arrived[m][band] + Underway(net, m, band) <= sent[m][band]
  BY BlockNumbers DEF WireType, Count, Conserved
<1>1. ASSUME UNCHANGED <<net, sent, arrived>> PROVE Conserved'
  BY <1>1 DEF Conserved
<1>2. ASSUME NEW bd \in Bands, SendPacket(bd) PROVE Conserved'
  <2>1. PICK p \in Packet :
           p.n = mapped /\ p.band = bd /\ (net' = net \/ net' = net (+) SetToBag({p}))
    BY <1>2, SendEffects
  <2>2. /\ arrived' = arrived
        /\ mapped = Unmapped => sent' = sent
        /\ mapped # Unmapped => mapped \in Blocks /\ BlockCounts(sent, sent', mapped, bd)
    BY <1>2, SendEffects DEF WireType
  <2>3. ASSUME NEW m \in Blocks, NEW band \in Bands
        PROVE  sent'[m][band] = IF m = mapped /\ band = bd THEN sent[m][band] + 1 ELSE sent[m][band]
    <3>1. CASE mapped = Unmapped
      BY <1>T, <2>2, <3>1
    <3>2. CASE mapped # Unmapped
      BY <2>2, <3>2 DEF BlockCounts
    <3>3. QED
      BY <3>1, <3>2
  <2>4. /\ IsFiniteSet(BagToSet(net'))
        /\ \A m \in Blocks, band \in Bands :
              \/ Underway(net', m, band) = Underway(net, m, band)
              \/ Underway(net', m, band) = Underway(net, m, band) + 1 /\ m = mapped /\ band = bd
    <3>1. CASE net' = net
      BY <1>T, <3>1
    <3>2. CASE net' = net (+) SetToBag({p})
      <4>1. \A m, band : /\ IsFiniteSet(BagToSet(net'))
                         /\ Underway(net', m, band) = IF p.n = m /\ p.band = band
                                                      THEN Underway(net, m, band) + 1
                                                      ELSE Underway(net, m, band)
        BY ONLY <1>T, <3>2, UnderwayAdd
      <4>2. QED
        BY <2>1, <4>1
    <3>3. QED
      BY <2>1, <3>1, <3>2
  <2>5. ASSUME NEW m \in Blocks, NEW band \in Bands
        PROVE  /\ Underway(net', m, band) \in Nat
               /\ arrived'[m][band] + Underway(net', m, band) <= sent'[m][band]
    <3> DEFINE u == Underway(net, m, band)
               v == Underway(net', m, band)
    <3>1. /\ sent[m][band] \in Nat /\ arrived[m][band] \in Nat /\ u \in Nat
          /\ arrived[m][band] + u <= sent[m][band]
      BY <1>T
    <3>2. v = u \/ (v = u + 1 /\ m = mapped /\ band = bd)
      BY <2>4
    <3>3. sent'[m][band] = IF m = mapped /\ band = bd THEN sent[m][band] + 1 ELSE sent[m][band]
      BY <2>3
    <3> HIDE DEF u, v
    <3>4. v \in Nat /\ arrived[m][band] + v <= sent'[m][band]
      BY <3>1, <3>2, <3>3
    <3>5. QED
      BY <2>2, <3>4 DEF v
  <2>6. QED
    BY <2>4, <2>5 DEF Conserved
<1>3. ASSUME ArrivePacket PROVE Conserved'
  <2>1. PICK p \in BagToSet(net) :
           /\ p \in Packet /\ net' = net (-) SetToBag({p})
           /\ IF p.n = Unmapped THEN arrived' = arrived ELSE BlockCounts(arrived, arrived', p.n, p.band)
    BY <1>3, ArriveEffects
  <2>2. sent' = sent /\ (p.n # Unmapped => p.n \in Blocks)
    BY <1>3, <2>1, ArriveEffects DEF Packet
  <2>3. ASSUME NEW m \in Blocks, NEW band \in Bands
        PROVE  arrived'[m][band] = IF p.n = m /\ p.band = band THEN arrived[m][band] + 1
                                                               ELSE arrived[m][band]
    <3>1. CASE p.n = Unmapped
      BY <1>T, <2>1, <3>1
    <3>2. CASE p.n # Unmapped
      BY <2>1, <2>2, <3>2 DEF BlockCounts
    <3>3. QED
      BY <3>1, <3>2
  <2>4. \A m, band : /\ IsFiniteSet(BagToSet(net')) /\ Underway(net', m, band) \in Nat
                     /\ Underway(net, m, band) = IF p.n = m /\ p.band = band
                                                 THEN Underway(net', m, band) + 1
                                                 ELSE Underway(net', m, band)
    BY ONLY <1>T, <2>1, UnderwayRemove
  <2>5. ASSUME NEW m \in Blocks, NEW band \in Bands
        PROVE  arrived'[m][band] + Underway(net', m, band) <= sent'[m][band]
    <3> DEFINE u == Underway(net, m, band)
               v == Underway(net', m, band)
    <3>1. /\ sent[m][band] \in Nat /\ arrived[m][band] \in Nat
          /\ arrived[m][band] + u <= sent[m][band]
      BY <1>T
    <3>2. v \in Nat /\ u = IF p.n = m /\ p.band = band THEN v + 1 ELSE v
      BY <2>4
    <3>3. arrived'[m][band] = IF p.n = m /\ p.band = band THEN arrived[m][band] + 1 ELSE arrived[m][band]
      BY <2>3
    <3> HIDE DEF u, v
    <3>4. arrived'[m][band] + v <= sent[m][band]
      BY <3>1, <3>2, <3>3
    <3>5. QED
      BY <2>2, <3>4 DEF v
  <2>6. QED
    BY <2>4, <2>5 DEF Conserved
<1>4. ASSUME NEW e \in Ends, Reload(e) \/ Flip(e) \/ Read(e) \/ ReadFails(e)
      PROVE  UNCHANGED <<net, sent, arrived>>
  BY <1>4, ReloadEffects, FlipEffects, ReadTurns
<1>5. ASSUME Tick \/ UNCHANGED wire PROVE UNCHANGED <<net, sent, arrived>>
  BY <1>5, TickEffects DEF wire
<1>6. QED
  BY <1>1, <1>2, <1>3, <1>4, <1>5, WireSteps

LEMMA ConservedStart == Init => Conserved
<1> SUFFICES ASSUME Init PROVE Conserved
  OBVIOUS
<1>1. net = EmptyBag /\ sent = [n \in Blocks |-> ZeroCount] /\ arrived = [n \in Blocks |-> ZeroCount]
  BY DEF Init, MarkInit
<1>2. BagToSet(net) = {}
  BY <1>1 DEF EmptyBag, SetToBag, BagToSet
<1>3. ASSUME NEW m \in Blocks, NEW band \in Bands
      PROVE  Underway(net, m, band) = 0 /\ arrived[m][band] = 0 /\ sent[m][band] = 0
  <2>1. Copies(net, m, band) = {}
    BY <1>2 DEF Copies
  <2>2. QED
    BY <1>1, <2>1, SumEmpty DEF Underway, ZeroCount
<1>4. QED
  BY <1>2, <1>3, FS_EmptySet DEF Conserved

\* A window that lost nothing in all lost nothing in any block, in any band.
LEMMA NothingLost ==
    ASSUME NEW W \in SUBSET Block, IsFiniteSet(W), TotalLost(W) = 0
    PROVE  /\ \A b \in W : Lost(b) = 0
           /\ \A b \in W, band \in Bands : b.sent[band] <= b.recv[band]
<1> DEFINE f == [b \in W |-> Lost(b)]
           g(b) == [band \in Bands |-> LostIn(b, band)]
<1>1. IsFiniteSet(Bands)
  <2>1. IsFiniteSet(({} \cup {"s"}) \cup {"l"})
    BY FS_EmptySet, FS_AddElement
  <2>2. Bands \subseteq ({} \cup {"s"}) \cup {"l"}
    BY MarkJoinAssumption
  <2>3. QED
    BY <2>1, <2>2, FS_Subset
<1>2. \A b : DOMAIN g(b) = Bands /\ \A band \in Bands : g(b)[band] = LostIn(b, band)
  OBVIOUS
<1>3. \A b : Lost(b) = SumFunctionOnSet(g(b), Bands)
  BY DEF Lost, SumFunction
<1>4. DOMAIN f = W /\ \A b \in W : f[b] = Lost(b)
  OBVIOUS
<1>5. TotalLost(W) = SumFunctionOnSet(f, W)
  BY DEF TotalLost, SumFunction
<1> HIDE DEF f, g
<1>6. ASSUME NEW b \in W PROVE Lost(b) \in Nat
  <2>1. \A band \in Bands : g(b)[band] \in Nat
    BY <1>2, LostInType
  <2>2. SumFunctionOnSet(g(b), Bands) \in Nat
    BY <1>1, <2>1, SumNat
  <2>3. QED
    BY <1>3, <2>2
<1>7. \A b \in W : f[b] \in Nat
  BY <1>4, <1>6
<1>8. \A b \in W : f[b] = 0
  BY <1>5, <1>7, SumZero
<1>9. ASSUME NEW b \in W, NEW band \in Bands PROVE b.sent[band] <= b.recv[band]
  <2>1. SumFunctionOnSet(g(b), Bands) = 0
    BY <1>3, <1>4, <1>8
  <2>2. \A d \in Bands : g(b)[d] \in Nat
    BY <1>2, LostInType
  <2>3. \A d \in Bands : g(b)[d] = 0
    BY <1>1, <2>1, <2>2, SumZero
  <2>4. LostIn(b, band) = 0
    BY <1>2, <2>3
  <2>5. b.sent[band] \in Nat /\ b.recv[band] \in Nat
    BY DEF Block, Count
  <2>6. QED
    BY <2>4, <2>5 DEF LostIn
<1>10. QED
  BY <1>4, <1>8, <1>9

\* The label clean is given for the whole recovery horizon: the fast window is
\* taken only when it shows loss.
LEMMA CleanWindow ==
    ASSUME NEW blocks \in SUBSET Block, IsFiniteSet(blocks), NEW t, Summarize(blocks, t).regime = "clean"
    PROVE  TotalLost(Recent(blocks, t)) = 0
<1> DEFINE W == LossWindow(blocks, t)
<1>1. W # {}
  <2>1. SUFFICES ASSUME W = {} PROVE FALSE
    OBVIOUS
  <2>2. Summarize(blocks, t).regime \in {"under_test", "none"}
    BY <2>1 DEF Summarize, NoRegime
  <2>3. QED
    BY <2>2
<1>2. Summarize(blocks, t).regime = Regime(W)
  BY <1>1 DEF Summarize
<1>3. TotalLost(W) = 0
  BY <1>2 DEF Regime
<1>4. Recent(blocks, t) \subseteq blocks /\ Fast(blocks, t) \subseteq blocks
  BY DEF Recent, Fast
<1>5. Fast(blocks, t) \in SUBSET Block /\ IsFiniteSet(Fast(blocks, t))
  BY <1>4, FS_Subset
<1>6. W = Recent(blocks, t)
  <2>1. SUFFICES ASSUME W # Recent(blocks, t) PROVE FALSE
    OBVIOUS
  <2>2. W = Fast(blocks, t) /\ \E b \in Fast(blocks, t) : Lost(b) > 0
    BY <2>1 DEF LossWindow
  <2>3. \A b \in Fast(blocks, t) : Lost(b) = 0
    BY <1>3, <1>5, <2>2, NothingLost
  <2>4. QED
    BY <2>2, <2>3
<1>7. QED
  BY <1>3, <1>6

CleanInv == ExactInv /\ ReportType /\ Conserved

LEMMA CleanInvStep ==
    ASSUME CleanInv, [Next]_vars
    PROVE  CleanInv'
<1>1. LoopTimes /\ ChannelInv /\ ClockInv /\ WireType
  BY DEF CleanInv, ExactInv, ChannelInv
<1>2. QED
  BY <1>1, ExactInvStep, ReportTypeStep, ConservedStep DEF CleanInv

LEMMA CleanInvStart == Init => CleanInv
BY ExactInvStart, ReportTypeStart, ConservedStart DEF CleanInv

LEMMA CleanMeansClean ==
    ASSUME CleanInv
    PROVE  CleanIsClean
<1>1. SUFFICES ASSUME Summarize(Joined, now).regime = "clean",
                      NEW b \in Joined, ~b.under_test, Age(b, now) <= MarkRecover, OnTime(b.n)
               PROVE  arrived[b.n] = sent[b.n]
  BY DEF CleanIsClean
<1>2. Joined \in SUBSET Block /\ IsFiniteSet(Joined)
  BY JoinedType DEF CleanInv
<1>3. TotalLost(Recent(Joined, now)) = 0
  BY <1>1, <1>2, CleanWindow
<1>4. b \in Recent(Joined, now)
  BY <1>1 DEF Recent
<1>5. Recent(Joined, now) \in SUBSET Block /\ IsFiniteSet(Recent(Joined, now))
  BY <1>2, FS_Subset DEF Recent
<1>6. \A band \in Bands : b.sent[band] <= b.recv[band]
  BY <1>3, <1>4, <1>5, NothingLost
<1>7. b.sent = sent[b.n] /\ b.recv = arrived[b.n]
  BY <1>1, ExactlyJoined DEF CleanInv, ExactLoss
<1>8. b.n \in Blocks /\ WireType
  BY <1>1 DEF OnTime, CleanInv, ExactInv, WireType
<1>9. sent[b.n] \in Count /\ arrived[b.n] \in Count
  BY <1>8 DEF WireType
<1>10. ASSUME NEW band \in Bands PROVE arrived[b.n][band] = sent[b.n][band]
  <2> DEFINE a == arrived[b.n][band]
             s == sent[b.n][band]
             u == Underway(net, b.n, band)
  <2>1. a \in Nat /\ s \in Nat
    BY <1>9 DEF Count
  <2>2. u \in Nat /\ a + u <= s
    BY <1>8 DEF CleanInv, Conserved
  <2>3. s <= a
    BY <1>6, <1>7
  <2> HIDE DEF a, s, u
  <2>4. a = s
    BY <2>1, <2>2, <2>3
  <2>5. QED
    BY <2>4 DEF a, s
<1>11. QED
  BY <1>9, <1>10 DEF Count

\* A link is called clean only when no packet that was marked in a joined block of
\* the recovery horizon is missing at the receiver, for every size of the windows,
\* every sample floor and every number of packets (summarize, regime).
THEOREM CleanReallyIsClean == Spec => []CleanIsClean
BY CleanInvStep, CleanInvStart, CleanMeansClean, PTL DEF Spec
=============================================================================
