------------------------------- MODULE Marking -------------------------------
(***************************************************************************)
(* Alternate marking of one direction of one managed tunnel: the agents at *)
(* its two ends (crates/agent/src/mark.rs, nft.rs, marker_loop in main.rs),*)
(* the kernel tables they assert and read, and the packets between them.   *)
(*                                                                         *)
(* Time runs in half blocks: block n begins at 2n, its counters are read   *)
(* at 2n + 3.  Within a half block the two agents and the packets          *)
(* interleave freely, which stands for the clock error between the ends;   *)
(* Tick lets the guard band of RFC 9341 (clock error plus delay below half *)
(* a block) hold for packets.  A flip or a read may fail, or hang in nft   *)
(* past its half block; the firewall may be reloaded at either end.        *)
(***************************************************************************)
EXTENDS MarkJoin, Sequences, SequencesExt

CONSTANTS
    QUEUE_CAP,     \* finished blocks kept per interface
    PAUSE_HISTORY, \* pauses the gate remembers
    LastBlock,     \* bound: the last block that is read
    MaxPackets,    \* bound on the packets sent
    MaxUpsets      \* bound on reloads, failed and hanging nft calls, tests, lost and late replies

ASSUME MarkingAssumption ==
    /\ QUEUE_CAP \in Nat \ {0} /\ PAUSE_HISTORY \in Nat \ {0}
    /\ {LastBlock, MaxPackets, MaxUpsets} \subseteq Nat

Ends == {"sender", "receiver"}
Colours == {"a", "b"}
Unmapped == -1
NoBaseline == [n |-> -1]

VARIABLES
    now,       \* the half block
    table,     \* table[e]: e's nftables sets, [handle, member, cnt]
    mapped,    \* the block whose colour the sender's map holds, Unmapped when it is empty
    loop,      \* loop[e]: where marker_loop stands, [pc, n, due]
    last,      \* last[e][c]: the previous read of colour c, with its block
    queue,     \* queue[e]: the finished blocks
    pauses,    \* pauses[e]: the gate's pauses as half blocks, the last one open while a test runs
    net,       \* packets in flight
    upsets, packets,
    \* history
    sent,      \* sent[n]: packets marked in block n
    arrived,   \* arrived[n]: those of them that arrived
    flipped,   \* the blocks the sender began in their first half
    readOn,    \* the blocks the receiver read in time
    rebuilt,   \* the half blocks in which the sender's firewall was reloaded
    tested     \* the blocks a test overlapped at either end

kernel == <<table, mapped>>
agents == <<loop, last, queue, pauses>>
history == <<sent, arrived, flipped, readOn, rebuilt, tested>>
counters == <<upsets, packets>>
markVars == <<now, kernel, agents, net, counters, history>>

Blocks == 0..(LastBlock + 1)
ZeroCount == [b \in Bands |-> 0]
FreshTable(h) == [handle |-> h, member |-> FALSE, cnt |-> [c \in Colours |-> ZeroCount]]

ColourOf(n) == IF n % 2 = 0 THEN "a" ELSE "b"

\* The bit on the wire: an unmarked packet looks like colour b.
Bit == IF mapped = Unmapped THEN "b" ELSE ColourOf(mapped)

Reading == [n : Nat, handle : Nat, member : BOOLEAN, cnt : Count]
Packet == [bit : Colours, n : Blocks \cup {Unmapped}, band : Bands, by : Nat]
Pause == [begin : Nat, end : Nat \cup {-1}]

MarkTypeOK ==
    /\ now \in Nat
    /\ table \in [Ends -> [handle : Nat, member : BOOLEAN, cnt : [Colours -> Count]]]
    /\ mapped \in Blocks \cup {Unmapped}
    /\ loop \in [Ends -> [pc : {"sleep", "half"}, n : Nat, due : Nat]]
    /\ last \in [Ends -> [Colours -> Reading \cup {NoBaseline}]]
    /\ queue \in [Ends -> Seq(MarkBlock)] /\ \A e \in Ends : Len(queue[e]) <= QUEUE_CAP
    /\ pauses \in [Ends -> Seq(Pause)] /\ \A e \in Ends : Len(pauses[e]) <= PAUSE_HISTORY
    /\ IsABag(net) /\ BagToSet(net) \subseteq Packet
    /\ upsets \in 0..MaxUpsets /\ packets \in 0..MaxPackets
    /\ sent \in [Blocks -> Count] /\ arrived \in [Blocks -> Count]
    /\ flipped \subseteq Blocks /\ readOn \subseteq Blocks /\ rebuilt \subseteq 0..now /\ tested \subseteq Blocks

MarkInit ==
    /\ now = 0
    /\ table = [e \in Ends |-> FreshTable(1)]
    /\ mapped = Unmapped
    /\ loop = [e \in Ends |-> [pc |-> "sleep", n |-> 0, due |-> 2]]
    /\ last = [e \in Ends |-> [c \in Colours |-> NoBaseline]]
    /\ queue = [e \in Ends |-> <<>>] /\ pauses = [e \in Ends |-> <<>>]
    /\ net = EmptyBag /\ upsets = 0 /\ packets = 0
    /\ sent = [n \in Blocks |-> ZeroCount] /\ arrived = [n \in Blocks |-> ZeroCount]
    /\ flipped = {} /\ readOn = {} /\ rebuilt = {} /\ tested = {}

-----------------------------------------------------------------------------
\* The tunnel (external: the kernel and the include's chains).

\* A packet leaves: the colour chain counts and marks it when the map has the
\* interface.  by is the half block before which it arrives, unless it is lost.
SendPacket(band) ==
    LET overdue == loop["sender"].due <= now
        packet == [bit |-> Bit, n |-> mapped, band |-> band,
                   by |-> IF overdue THEN now + 1 ELSE now + 2]
    IN  /\ packets < MaxPackets
        /\ packets' = packets + 1
        /\ net' \in {net, net (+) SetToBag({packet})}
        /\ IF mapped = Unmapped
           THEN UNCHANGED <<table, sent>>
           ELSE /\ table' = [table EXCEPT !["sender"].cnt[ColourOf(mapped)][band] = @ + 1]
                /\ sent' = [sent EXCEPT ![mapped][band] = @ + 1]
        /\ UNCHANGED <<now, mapped, agents, upsets, arrived, flipped, readOn, rebuilt, tested>>

\* It arrives: the receiver counts it by its bit, if the sets have the interface.
ArrivePacket ==
    \E p \in BagToSet(net) :
        /\ net' = net (-) SetToBag({p})
        /\ table' = IF table["receiver"].member
                    THEN [table EXCEPT !["receiver"].cnt[p.bit][p.band] = @ + 1]
                    ELSE table
        /\ arrived' = IF p.n = Unmapped THEN arrived ELSE [arrived EXCEPT ![p.n][p.band] = @ + 1]
        /\ UNCHANGED <<now, mapped, agents, counters, sent, flipped, readOn, rebuilt, tested>>

\* A firewall reload rebuilds the table from the include: empty sets and map.
Reload(e) ==
    /\ upsets < MaxUpsets
    /\ upsets' = upsets + 1
    /\ table' = [table EXCEPT ![e] = FreshTable(@.handle + 1)]
    /\ mapped' = IF e = "sender" THEN Unmapped ELSE mapped
    /\ rebuilt' = IF e = "sender" THEN rebuilt \cup {now} ELSE rebuilt
    /\ UNCHANGED <<now, agents, net, packets, sent, arrived, flipped, readOn, tested>>

-----------------------------------------------------------------------------
\* marker_loop

\* flip(n + 1): one transaction asserts membership and the colour of block n + 1.
FlipApplies(e) ==
    /\ table' = [table EXCEPT ![e].member = TRUE]
    /\ IF e = "sender"
       THEN /\ mapped' = loop[e].n + 1
            /\ flipped' = IF now = 2 * (loop[e].n + 1) THEN flipped \cup {loop[e].n + 1} ELSE flipped
       ELSE UNCHANGED <<mapped, flipped>>
    /\ UNCHANGED upsets

\* nft failed or timed out: only counted and logged.
FlipFails(e) ==
    /\ upsets < MaxUpsets
    /\ upsets' = upsets + 1
    /\ UNCHANGED <<table, mapped, flipped>>

\* At the boundary; the loop then sleeps half a block.
Flip(e) ==
    /\ loop[e].pc = "sleep" /\ loop[e].due <= now
    /\ loop' = [loop EXCEPT ![e].pc = "half", ![e].due = now + 1]
    /\ FlipApplies(e) \/ FlipFails(e)
    /\ UNCHANGED <<now, last, queue, pauses, net, packets, sent, arrived, readOn, rebuilt, tested>>

\* Gate::overlapped of the block that ended.
Overlapped(e, from, to) ==
    \E i \in DOMAIN pauses[e] :
        /\ pauses[e][i].begin < to
        /\ pauses[e][i].end = -1 \/ pauses[e][i].end >= from

PushAll(q, b) == Append(q, b)      \* mutant: the queue has no cap

\* push_block: the oldest goes when the queue is full.
Push(q, b) == Append(IF Len(q) >= QUEUE_CAP THEN Tail(q) ELSE q, b)

HadAnyBaseline(e, n) ==     \* mutant: takes a stale baseline
    LET base == last[e][ColourOf(n)]
    IN  base # NoBaseline /\ base.member

\* The baseline of block n is the read of block n - 2, with the interface in it.
HadBaseline(e, n) ==
    LET base == last[e][ColourOf(n)]
    IN  base # NoBaseline /\ base.n + 2 = n /\ base.member

\* The counters restarted: a rebuilt table, a missing element, a counter that went back.
Restarted(e, n) ==
    LET base == last[e][ColourOf(n)]
        cur == table[e]
    IN  \/ base.handle # cur.handle
        \/ ~cur.member
        \/ \E b \in Bands : cur.cnt[ColourOf(n)][b] < base.cnt[b]

FinishedBlock(e, n, under_test) ==
    LET base == last[e][ColourOf(n)]
        reset == Restarted(e, n)
    IN  [n |-> n, reset |-> reset, under_test |-> under_test,
         cnt |-> [b \in Bands |-> IF reset THEN 0 ELSE table[e].cnt[ColourOf(n)][b] - base.cnt[b]]]

\* The loop takes the block number afresh from the clock.
Sleep(e) ==
    LET n == now \div 2
    IN  loop' = [loop EXCEPT ![e] = [pc |-> "sleep", n |-> n, due |-> 2 * (n + 1)]]

\* read(n), half a block after the boundary: only this colour's baseline moves.
Read(e) ==
    LET n == loop[e].n
        c == ColourOf(n)
        under_test == Overlapped(e, 2 * n, 2 * (n + 1))
    IN  /\ loop[e].pc = "half" /\ loop[e].due <= now
        /\ queue' = IF HadBaseline(e, n)
                    THEN [queue EXCEPT ![e] = Push(@, FinishedBlock(e, n, under_test))]
                    ELSE queue
        /\ last' = [last EXCEPT ![e][c] = [n |-> n, handle |-> table[e].handle,
                                          member |-> table[e].member, cnt |-> table[e].cnt[c]]]
        /\ readOn' = IF e = "receiver" /\ now = 2 * n + 3 THEN readOn \cup {n} ELSE readOn
        /\ Sleep(e)
        /\ UNCHANGED <<now, kernel, pauses, net, counters, sent, arrived, flipped, rebuilt, tested>>

\* The listing failed, or a set is missing: the baseline stays behind.
ReadFails(e) ==
    /\ loop[e].pc = "half" /\ loop[e].due <= now
    /\ upsets < MaxUpsets
    /\ upsets' = upsets + 1
    /\ Sleep(e)
    /\ UNCHANGED <<now, kernel, last, queue, pauses, net, packets, history>>

-----------------------------------------------------------------------------
\* The gate, as throughput tests move it.

\* The half block on e's own clock, which may be behind while a boundary is due.
ClockOf(e) == IF loop[e].pc = "sleep" /\ loop[e].due = now THEN {now - 1, now} ELSE {now}

Testing(e) == pauses[e] # <<>> /\ Last(pauses[e]).end = -1

GateBegin(e) ==
    /\ upsets < MaxUpsets /\ ~Testing(e)
    /\ upsets' = upsets + 1
    /\ \E t \in ClockOf(e) :
          LET longer == Append(pauses[e], [begin |-> t, end |-> -1])
          IN  pauses' = [pauses EXCEPT ![e] = IF Len(longer) > PAUSE_HISTORY THEN Tail(longer) ELSE longer]
    /\ UNCHANGED <<now, kernel, loop, last, queue, net, packets, history>>

\* The end of the pause includes the grace.
GateEnd(e) ==
    /\ Testing(e)
    /\ \E t \in ClockOf(e) :
          /\ t >= Last(pauses[e]).begin
          /\ pauses' = [pauses EXCEPT ![e][Len(pauses[e])].end = t]
          /\ tested' = tested \cup ((Last(pauses[e]).begin \div 2) .. (t \div 2))
    /\ UNCHANGED <<now, kernel, loop, last, queue, net, counters, sent, arrived, flipped, readOn, rebuilt>>

-----------------------------------------------------------------------------

\* The next half block.  An nft call may hang past it; packets keep the guard band.
Tick ==
    LET hanging == {e \in Ends : loop[e].due <= now}
    IN  /\ now < 2 * LastBlock + 3
        /\ \A p \in BagToSet(net) : p.by > now + 1
        /\ upsets' = upsets + Cardinality(hanging)
        /\ upsets' <= MaxUpsets
        /\ now' = now + 1
        /\ UNCHANGED <<kernel, agents, net, packets, history>>

MarkNext ==
    \/ \E b \in Bands : SendPacket(b)
    \/ ArrivePacket
    \/ \E e \in Ends : Reload(e) \/ Flip(e) \/ Read(e) \/ ReadFails(e)
                        \/ GateBegin(e) \/ GateEnd(e)
    \/ Tick
=============================================================================
