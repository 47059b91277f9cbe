------------------------------- MODULE Probing -------------------------------
(***************************************************************************)
(* What a node's agent measures (crates/agent): the discovery of its       *)
(* tunnels (discover.rs, Agent::refresh), one ping task per tunnel         *)
(* (icmp.rs, window.rs), and the throughput tests the controller asks for  *)
(* (throughput.rs), which load the uplink and pause the pings through the  *)
(* Gate.  Two tasks refresh: the refresher, and the session that says      *)
(* hello after a dial.  The runtime has several threads, so that every     *)
(* step between two awaits or locks may interleave with the others.        *)
(*                                                                         *)
(* Time is counted in ping intervals, as what is left.  A ping's outcome   *)
(* is kept as whether a test loaded the uplink while it was under way; its *)
(* rtt, the echo's id and sequence number, the packet counters, the        *)
(* utilisation counters and the reports are left out.  The costs a         *)
(* snapshot shows and their repair are in CostControl, blocks in Marking.  *)
(***************************************************************************)
EXTENDS Integers, Sequences, FiniteSets

CONSTANTS
    Ifaces, Peers,
    Neighbour,      \* Neighbour[i]: the peer whose router id the adjacency over i shows
    TokenPeer,      \* TokenPeer[i]: the peer the name of i stands for, or None
    Cmds,           \* throughput commands, each executed once: <<command, interface>>
    UdpLeg,         \* whether the test has a UDP leg
    Grace,          \* how long pings stay paused after a test
    LegLimit,       \* the deadline of an iperf3 run
    ReopenDelay,    \* the sleep after a socket that did not open
    WindowSize,
    MaxUpsets,      \* bound on changes of BIRD's picture and on sessions dialled
    MaxFaults,      \* bound on failed calls and socket errors
    None

\* Agent::new lets pings rest for two intervals after a test, and a window holds at least two.
ASSUME ProbingAssumption ==
    /\ Neighbour \in [Ifaces -> Peers] /\ TokenPeer \in [Ifaces -> Peers \cup {None}]
    /\ None \notin Peers
    /\ UdpLeg \in BOOLEAN
    /\ {Grace, WindowSize} \subseteq Nat \ {0, 1}
    /\ {LegLimit, ReopenDelay} \subseteq Nat \ {0}
    /\ {MaxUpsets, MaxFaults} \subseteq Nat

Refreshers == {"refresher", "hello"}

\* A tunnel as discovered: its peer, and whether the neighbour's address is known.
Link == [to : Peers, ll : BOOLEAN]
NoLink == [to |-> None, ll |-> FALSE]

VARIABLES
    picture,    \* picture[i]: what BIRD shows of i: "absent" (or without a readable address),
                \* adjacency "down" or "up"
    links,      \* NodeState.links
    refresh,    \* refresh[r]: a refresh under way, the peers known when it began, what it found
    task,       \* task[i]: the ping task of i, started for a link
    window,     \* window[i]: the latest outcomes, newest last
    running, until,   \* the Gate
    cmd,        \* cmd[c]: the execution of a throughput command
    upsets, faults,
    missed,     \* history: the interfaces some snapshot lacked
    overlapped  \* history: two refreshes were under way at once

discovery == <<picture, links, refresh, upsets, missed, overlapped>>
pings == <<task, window>>
gate == <<running, until>>

vars == <<discovery, pings, gate, cmd, faults>>

NoTask == [pc |-> "none", left |-> 0, link |-> NoLink, loaded |-> FALSE]
NoRefresh == [pc |-> "idle", known |-> [i \in Ifaces |-> None], found |-> [i \in Ifaces |-> NoLink]]
NoCmd == [pc |-> "new", left |-> 0]

Refresh == [pc    : {"idle", "status", "reconcile", "store"},
            known : [Ifaces -> Peers \cup {None}],
            found : [Ifaces -> Link \cup {NoLink}]]
Task == [pc     : {"none", "open", "idle", "send", "flight"},
         left   : 0..(ReopenDelay + 1),
         link   : Link \cup {NoLink},
         loaded : BOOLEAN]
Command == [pc : {"new", "util", "tcp", "udp", "closing", "done"}, left : 0..LegLimit]

DiscoveryOK ==
    /\ picture \in [Ifaces -> {"absent", "down", "up"}]
    /\ links \in [Ifaces -> Link \cup {NoLink}]
    /\ refresh \in [Refreshers -> Refresh]
    /\ upsets \in 0..MaxUpsets /\ missed \subseteq Ifaces /\ overlapped \in BOOLEAN

PingsOK ==
    /\ task \in [Ifaces -> Task]
    /\ window \in [Ifaces -> Seq({"clean", "loaded"})]
    /\ \A i \in Ifaces : Len(window[i]) <= WindowSize

TestsOK ==
    /\ running \in BOOLEAN /\ until \in 0..Grace
    /\ cmd \in [Cmds -> Command]
    /\ faults \in 0..MaxFaults

TypeOK == DiscoveryOK /\ PingsOK /\ TestsOK

Init ==
    /\ picture \in [Ifaces -> {"up", "down"}]
    /\ links = [i \in Ifaces |-> NoLink]
    /\ refresh = [r \in Refreshers |-> NoRefresh]
    /\ task = [i \in Ifaces |-> NoTask]
    /\ window = [i \in Ifaces |-> <<>>]
    /\ running = FALSE /\ until = 0
    /\ cmd = [c \in Cmds |-> NoCmd]
    /\ upsets = 0 /\ faults = 0
    /\ missed = {} /\ overlapped = FALSE

Upset == upsets < MaxUpsets /\ upsets' = upsets + 1
Fault == faults < MaxFaults /\ faults' = faults + 1

-----------------------------------------------------------------------------
\* Discovery

\* BIRD's picture of an interface changes.
Flap(i, shown) ==
    /\ Upset
    /\ picture[i] # shown
    /\ picture' = [picture EXCEPT ![i] = shown]
    /\ UNCHANGED <<links, refresh, missed, overlapped, pings, gate, cmd, faults>>

\* select_links: the peer by router id, else the one known before, else by the name.
SelectPeer(i, known) ==
    IF picture[i] = "up" THEN Neighbour[i]
    ELSE IF known[i] # None THEN known[i] ELSE TokenPeer[i]

\* discover: an interface without a peer is skipped.
Discovered(known) ==
    [i \in Ifaces |->
        IF picture[i] = "absent" \/ SelectPeer(i, known) = None THEN NoLink
        ELSE [to |-> SelectPeer(i, known), ll |-> picture[i] = "up"]]

\* A refresh begins with the peers known then: at the refresher's tick, or for the hello of
\* a session just dialled.
RefreshBegin(r) ==
    /\ refresh[r].pc = "idle"
    /\ IF r = "hello" THEN Upset ELSE UNCHANGED upsets
    /\ refresh' = [refresh EXCEPT ![r] = [NoRefresh EXCEPT
                      !.pc = "status", !.known = [i \in Ifaces |-> links[i].to]]]
    /\ overlapped' = (overlapped \/ \E s \in Refreshers : refresh[s].pc # "idle")
    /\ UNCHANGED <<picture, links, missed, pings, gate, cmd, faults>>

\* BIRD's status and the interfaces' addresses are read.
Status(r) ==
    /\ refresh[r].pc = "status"
    /\ refresh' = [refresh EXCEPT ![r] = [NoRefresh EXCEPT
                      !.pc = "reconcile", !.found = Discovered(refresh[r].known)]]
    /\ missed' = missed \cup {i \in Ifaces : picture[i] = "absent"}
    /\ UNCHANGED <<picture, links, upsets, overlapped, pings, gate, cmd, faults>>

\* `bird status` fails: no links are found.
StatusFails(r) ==
    /\ Fault
    /\ refresh[r].pc = "status"
    /\ refresh' = [refresh EXCEPT ![r] = [NoRefresh EXCEPT !.pc = "reconcile"]]
    /\ missed' = Ifaces
    /\ UNCHANGED <<picture, links, upsets, overlapped, pings, gate, cmd>>

CarriedEmpty(i, l) == IF l = task[i].link THEN window[i] ELSE <<>>     \* mutant: a restart forgets

\* The window of an interface that is still there stays, whatever changed.
Carried(i, l) == IF l = NoLink THEN <<>> ELSE window[i]

SameInterface(i, l) == (l = NoLink) = (task[i].link = NoLink)     \* mutant: a change is not seen

SameLink(i, l) == l = task[i].link

\* Prober::reconcile: tasks of links that are gone or changed end, new ones start.
Reconcile(r) ==
    LET found == refresh[r].found
    IN  /\ refresh[r].pc = "reconcile"
        /\ task' = [i \in Ifaces |->
                      IF SameLink(i, found[i]) THEN task[i]
                      ELSE IF found[i] = NoLink THEN NoTask
                      ELSE [NoTask EXCEPT !.pc = "open", !.link = found[i]]]
        /\ window' = [i \in Ifaces |-> Carried(i, found[i])]
        /\ refresh' = [refresh EXCEPT ![r].pc = "store"]
        /\ UNCHANGED <<picture, links, upsets, missed, overlapped, gate, cmd, faults>>

Store(r) ==
    /\ refresh[r].pc = "store"
    /\ links' = refresh[r].found
    /\ refresh' = [refresh EXCEPT ![r] = NoRefresh]
    /\ UNCHANGED <<picture, upsets, missed, overlapped, pings, gate, cmd, faults>>

-----------------------------------------------------------------------------
\* ping_loop

Paused == running \/ until > 0

\* A test's streams are on the uplink.
Loading == \E c \in Cmds : cmd[c].pc \in {"tcp", "udp"}

PushAll(i, outcome) == Append(window[i], outcome)     \* mutant: the window only grows

\* Window::push
Push(i, outcome) ==
    LET all == Append(window[i], outcome)
    IN  IF Len(all) > WindowSize THEN Tail(all) ELSE all

\* The socket opens and the first tick is due at once.
Open(i) ==
    /\ task[i].pc = "open" /\ task[i].left = 0
    /\ task' = [task EXCEPT ![i].pc = "idle"]
    /\ UNCHANGED <<discovery, window, gate, cmd, faults>>

OpenFails(i) ==
    /\ Fault
    /\ task[i].pc = "open" /\ task[i].left = 0
    /\ task' = [task EXCEPT ![i].left = ReopenDelay]
    /\ UNCHANGED <<discovery, window, gate, cmd>>

\* A tick: nothing is sent while pings are paused.
PingTick(i) ==
    /\ task[i].pc = "idle" /\ task[i].left = 0
    /\ task' = [task EXCEPT ![i].pc = IF Paused THEN "idle" ELSE "send", ![i].left = 1]
    /\ UNCHANGED <<discovery, window, gate, cmd, faults>>

Send(i) ==
    /\ task[i].pc = "send"
    /\ task' = [task EXCEPT ![i].pc = "flight", ![i].loaded = Loading]
    /\ UNCHANGED <<discovery, window, gate, cmd, faults>>

\* A send that fails is a loss.
SendFails(i) ==
    /\ Fault
    /\ task[i].pc = "send"
    /\ task' = [task EXCEPT ![i].pc = "idle"]
    /\ window' = [window EXCEPT ![i] = Push(i, "clean")]
    /\ UNCHANGED <<discovery, gate, cmd>>

\* The reply, or the next tick without one.  Under a pause it is not a sample.
Outcome(i) ==
    /\ task[i].pc = "flight"
    /\ task' = [task EXCEPT ![i].pc = "idle", ![i].loaded = FALSE]
    /\ window' = IF Paused THEN window
                 ELSE [window EXCEPT ![i] = Push(i, IF task[i].loaded THEN "loaded" ELSE "clean")]
    /\ UNCHANGED <<discovery, gate, cmd, faults>>

\* Receiving fails: nothing is recorded, and the socket is opened again after an interval
\* (at the next tick, when pings are paused: the socket is kept).
RecvFails(i) ==
    /\ Fault
    /\ task[i].pc = "flight"
    /\ task' = [task EXCEPT ![i].pc = IF Paused THEN "idle" ELSE "open",
                            ![i].left = IF Paused THEN @ ELSE 1, ![i].loaded = FALSE]
    /\ UNCHANGED <<discovery, window, gate, cmd>>

-----------------------------------------------------------------------------
\* Throughput::run, and Agent::execute of a throughput probe

Iface(c) == c[2]

LockFreeAlways == TRUE     \* mutant: two tests at once

\* The lock of the test: try_lock does not wait.
LockFree == \A c \in Cmds : cmd[c].pc \notin {"util", "tcp", "udp", "closing"}

\* The command starts: an interface the agent does not know, and a test under way, are
\* answered busy.
Execute(c) ==
    /\ cmd[c].pc = "new"
    /\ cmd' = [cmd EXCEPT ![c].pc = IF links[Iface(c)] # NoLink /\ LockFree THEN "util" ELSE "done"]
    /\ UNCHANGED <<discovery, pings, gate, faults>>

\* The link carries traffic: busy.
InUse(c) ==
    /\ cmd[c].pc = "util"
    /\ cmd' = [cmd EXCEPT ![c].pc = "done"]
    /\ UNCHANGED <<discovery, pings, gate, faults>>

\* Gate::begin, then the TCP leg; echoes under way share the uplink with it.
TestBegin(c) ==
    /\ cmd[c].pc = "util"
    /\ running' = TRUE
    /\ cmd' = [cmd EXCEPT ![c] = [pc |-> "tcp", left |-> LegLimit]]
    /\ task' = [i \in Ifaces |-> [task[i] EXCEPT !.loaded = @ \/ task[i].pc = "flight"]]
    /\ UNCHANGED <<discovery, window, until, faults>>

AfterTcp == IF UdpLeg THEN [pc |-> "udp", left |-> LegLimit] ELSE [pc |-> "closing", left |-> 0]

\* Gate::end, its first half: the grace starts.
GraceBegins == until' = Grace

\* iperf3 ends, with a result or without.
LegEnds(c) ==
    /\ cmd[c].pc \in {"tcp", "udp"}
    /\ cmd' = [cmd EXCEPT ![c] = IF @.pc = "tcp" THEN AfterTcp ELSE [pc |-> "closing", left |-> 0]]
    /\ IF cmd'[c].pc = "closing" THEN GraceBegins ELSE UNCHANGED until
    /\ UNCHANGED <<discovery, pings, running, faults>>

OverrunsNever(c) == FALSE /\ LegEnds(c)     \* mutant: iperf3 has no deadline

\* The deadline kills iperf3.
Overruns(c) == cmd[c].left = 0 /\ LegEnds(c)

\* Gate::end, its second half; the reply is sent and the lock released.
TestEnd(c) ==
    /\ cmd[c].pc = "closing"
    /\ running' = FALSE
    /\ cmd' = [cmd EXCEPT ![c].pc = "done"]
    /\ UNCHANGED <<discovery, pings, until, faults>>

-----------------------------------------------------------------------------
\* An interval passes.  The tasks do what is due before it does.
Less(n) == IF n = 0 THEN 0 ELSE n - 1

Tick ==
    /\ \A i \in Ifaces : task[i].pc = "none" \/ (task[i].pc # "send" /\ task[i].left > 0)
    /\ \A c \in Cmds : cmd[c].pc # "closing" /\ (cmd[c].pc \in {"tcp", "udp"} => cmd[c].left > 0)
    /\ task' = [i \in Ifaces |-> [task[i] EXCEPT !.left = Less(@)]]
    /\ cmd' = [c \in Cmds |-> [cmd[c] EXCEPT !.left = Less(@)]]
    /\ until' = Less(until)
    /\ UNCHANGED <<discovery, window, running, faults>>

-----------------------------------------------------------------------------
PingStep(i) == Open(i) \/ OpenFails(i) \/ PingTick(i) \/ Send(i) \/ SendFails(i)
Finishes(r) == Status(r) \/ StatusFails(r) \/ Reconcile(r) \/ Store(r)

Next ==
    \/ \E i \in Ifaces, shown \in {"absent", "down", "up"} : Flap(i, shown)
    \/ \E r \in Refreshers : RefreshBegin(r) \/ Finishes(r)
    \/ \E i \in Ifaces : PingStep(i) \/ Outcome(i) \/ RecvFails(i)
    \/ \E c \in Cmds :
          Execute(c) \/ InUse(c) \/ TestBegin(c) \/ LegEnds(c) \/ Overruns(c) \/ TestEnd(c)
    \/ Tick

\* Tasks run, deadlines fire, the refresher's timer ticks and time passes; iperf3 need not end.
Fairness ==
    /\ \A i \in Ifaces : WF_vars(PingStep(i)) /\ WF_vars(Outcome(i))
    /\ \A r \in Refreshers : WF_vars(Finishes(r))
    /\ WF_vars(RefreshBegin("refresher"))
    /\ \A c \in Cmds : WF_vars(Overruns(c)) /\ WF_vars(TestEnd(c))
    /\ SF_vars(Tick)

Spec == Init /\ [][Next]_vars /\ Fairness

-----------------------------------------------------------------------------
\* Properties

\* "Its self-inflicted queueing must be recorded neither as RTT nor as loss" (icmp.rs): no
\* outcome in a window belongs to an echo that was under way while a test loaded the uplink,
\* although a test begins, or begins and ends, between the sending of the echo and its
\* outcome (Gate, ping_loop, Throughput::run).
CleanWindow == \A i \in Ifaces : \A k \in DOMAIN window[i] : window[i][k] = "clean"

\* "An adjacency flap does not wipe the loss it caused" (Prober::reconcile): while every
\* snapshot has the interface and refreshes do not overlap, a tunnel once discovered stays,
\* keeps the peer its router id resolved to, and its window loses nothing but by age,
\* whatever the adjacency does and however often its ping task is restarted.
FlapKeeps ==
    [][\A i \in Ifaces :
          ~overlapped' /\ i \notin missed' =>
              /\ links[i] # NoLink => links'[i] # NoLink
              /\ links[i].to = Neighbour[i] => links'[i].to = Neighbour[i]
              /\ Len(window'[i]) >= Len(window[i])]_vars

\* Pings resume after every test, though iperf3 hangs (Throughput::iperf_run, Gate::end).
PingsResume == []<>~Paused

\* Once BIRD's picture no longer changes and its status is readable, the links the agent
\* reports are the ones it pings and the ones BIRD shows, though two refreshes overlapped
\* and stored an old discovery over a new one (refresh, reconcile).
ProbesFollow ==
    <>[]\A i \in Ifaces :
          /\ task[i].link = links[i]
          /\ picture[i] = "up" => links[i] = [to |-> Neighbour[i], ll |-> TRUE]
          /\ picture[i] = "absent" => links[i] = NoLink
=============================================================================
