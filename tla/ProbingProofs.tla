---------------------------- MODULE ProbingProofs ----------------------------
(***************************************************************************)
(* Proofs about Probing, for every set of tunnels, commands and bounds: a  *)
(* throughput test never spoils a window of pings, and an adjacency flap   *)
(* never wipes one.                                                        *)
(***************************************************************************)
EXTENDS Probing, TLAPS

-----------------------------------------------------------------------------
(* The inductive invariants.                                               *)

Locked == {"util", "tcp", "udp", "closing"}

\* The lock of the test: one command holds it, the gate is shut while its
\* streams run, and the grace has begun when it opens the gate.
GateInv ==
    /\ \A c1, c2 \in Cmds : cmd[c1].pc \in Locked /\ cmd[c2].pc \in Locked => c1 = c2
    /\ \A c \in Cmds : cmd[c].pc \in Locked \ {"util"} => running
    /\ \A c \in Cmds : cmd[c].pc = "closing" => until = Grace

\* An echo is under way for less than the grace: it was sent with one interval
\* left, and what a test loaded is settled before pings resume.
EchoOK(i) ==
    /\ task[i].pc \in {"send", "flight"} => task[i].left <= 1
    /\ task[i].loaded => task[i].pc = "flight" /\ (running \/ until > task[i].left)

EchoInv == \A i \in Ifaces : EchoOK(i)

Under(r) == refresh[r].pc # "idle"
Found(r) == refresh[r].pc \in {"reconcile", "store"}

\* While refreshes do not overlap, there is one at most.
OneRefresh == ~overlapped => \A r, s \in Refreshers : Under(r) /\ Under(s) => r = s

\* What a refresh knows and finds of a tunnel that every snapshot had, and that
\* a tunnel with pings or a window is stored, or about to be.
TunnelKept(i) ==
    /\ \A r \in Refreshers : refresh[r].pc = "status" => refresh[r].known[i] = links[i].to
    /\ \A r \in Refreshers : Found(r) =>
          /\ links[i] # NoLink => refresh[r].found[i] # NoLink
          /\ links[i].to = Neighbour[i] => refresh[r].found[i].to = Neighbour[i]
    /\ task[i].link # NoLink \/ window[i] # <<>> =>
          \/ links[i] # NoLink
          \/ \E r \in Refreshers : refresh[r].pc = "store" /\ refresh[r].found[i] # NoLink

FlapInv ==
    /\ OneRefresh
    /\ \A i \in Ifaces : task[i].pc # "none" => task[i].link # NoLink
    /\ \A i \in Ifaces : ~overlapped /\ i \notin missed => TunnelKept(i)

-----------------------------------------------------------------------------
(* Types.                                                                  *)

\* The constants, as numbers.
LEMMA Numbers ==
    /\ Grace \in Nat /\ WindowSize \in Nat /\ LegLimit \in Nat /\ ReopenDelay \in Nat
    /\ MaxUpsets \in Nat /\ MaxFaults \in Nat
    /\ Grace >= 2 /\ WindowSize >= 2 /\ LegLimit >= 1 /\ ReopenDelay >= 1
BY ProbingAssumption

\* Nothing is started and nothing is found in the initial values.
LEMMA InitialRecords ==
    NoTask \in Task /\ NoRefresh \in Refresh /\ NoCmd \in Command
<1>1. NoTask \in Task
  BY Numbers DEF NoTask, Task
<1>2. NoRefresh \in Refresh
  BY DEF NoRefresh, Refresh
<1>3. NoCmd \in Command
  BY Numbers DEF NoCmd, Command
<1>4. QED
  BY <1>1, <1>2, <1>3

\* Window::push keeps at most WindowSize outcomes, the latest ones, and only
\* drops one when it is full.
LEMMA PushWindow ==
    ASSUME NEW i \in Ifaces, NEW S, window[i] \in Seq(S), Len(window[i]) <= WindowSize, NEW o \in S
    PROVE  /\ Push(i, o) \in Seq(S)
           /\ Len(Push(i, o)) <= WindowSize
           /\ Len(Push(i, o)) >= Len(window[i])
<1> DEFINE all == Append(window[i], o)
<1>1. all \in Seq(S) /\ Len(all) = Len(window[i]) + 1
  OBVIOUS
<1>2. CASE Len(all) > WindowSize
  <2>1. Push(i, o) = Tail(all)
    BY <1>2 DEF Push
  <2>2. all # <<>>
    BY <1>1
  <2>3. Tail(all) \in Seq(S) /\ Len(Tail(all)) = Len(all) - 1
    BY <1>1, <2>2
  <2>4. QED
    BY <1>1, <2>1, <2>3, Numbers
<1>3. CASE ~(Len(all) > WindowSize)
  <2>1. Push(i, o) = all
    BY <1>3 DEF Push
  <2>2. QED
    BY <1>1, <1>3, <2>1, Numbers
<1>4. QED
  BY <1>2, <1>3

\* A discovery gives links, and only of interfaces that BIRD shows.
LEMMA DiscoveredType ==
    ASSUME TypeOK, NEW known \in [Ifaces -> Peers \cup {None}]
    PROVE  Discovered(known) \in [Ifaces -> Link \cup {NoLink}]
<1> SUFFICES ASSUME NEW i \in Ifaces, SelectPeer(i, known) # None
             PROVE  [to |-> SelectPeer(i, known), ll |-> picture[i] = "up"] \in Link
  BY DEF Discovered
<1>1. SelectPeer(i, known) \in Peers
  BY ProbingAssumption DEF SelectPeer, TypeOK, DiscoveryOK
<1>2. QED
  BY <1>1 DEF Link

\* The peer of a link, or of none.
LEMMA LinkPeer ==
    /\ NoLink.to = None
    /\ \A l \in Link \cup {NoLink} : l.to \in Peers \cup {None}
    /\ \A l \in Link \cup {NoLink} : l.to = None <=> l = NoLink
BY ProbingAssumption DEF Link, NoLink

\* The agent starts well typed.
LEMMA InitType == Init => TypeOK
<1> SUFFICES ASSUME Init PROVE TypeOK
  OBVIOUS
<1> USE Numbers, InitialRecords DEF Init
<1>1. DiscoveryOK
  <2>1. picture \in [Ifaces -> {"absent", "down", "up"}]
    OBVIOUS
  <2>2. upsets \in 0..MaxUpsets
    OBVIOUS
  <2>3. QED
    BY <2>1, <2>2 DEF DiscoveryOK
<1>2. PingsOK
  <2>1. \A i \in Ifaces : window[i] = <<>>
    OBVIOUS
  <2>2. QED
    BY <2>1 DEF PingsOK
<1>3. TestsOK
  <2>1. until \in 0..Grace /\ faults \in 0..MaxFaults
    OBVIOUS
  <2>2. QED
    BY <2>1 DEF TestsOK
<1>4. QED
  BY <1>1, <1>2, <1>3 DEF TypeOK

\* A failing call is counted, an upset too.
LEMMA Counted ==
    ASSUME TypeOK
    PROVE  /\ Fault => faults' \in 0..MaxFaults
           /\ Upset => upsets' \in 0..MaxUpsets
BY Numbers DEF TypeOK, DiscoveryOK, TestsOK, Fault, Upset

\* Every step keeps the types.
LEMMA StepType == TypeOK /\ [Next]_vars => TypeOK'
<1> SUFFICES ASSUME TypeOK, [Next]_vars PROVE TypeOK'
  OBVIOUS
<1>T. DiscoveryOK /\ PingsOK /\ TestsOK
  BY DEF TypeOK
<1>D. ASSUME UNCHANGED discovery PROVE DiscoveryOK'
  BY <1>T, <1>D DEF discovery, DiscoveryOK
<1>P. ASSUME UNCHANGED pings PROVE PingsOK'
  BY <1>T, <1>P DEF pings, PingsOK
<1>W. ASSUME UNCHANGED window, task' \in [Ifaces -> Task] PROVE PingsOK'
  BY <1>T, <1>W DEF PingsOK
<1>G. ASSUME UNCHANGED <<gate, cmd>>, Fault \/ UNCHANGED faults PROVE TestsOK'
  BY <1>T, <1>G, Counted DEF gate, TestsOK
<1>1. ASSUME NEW i \in Ifaces, NEW shown \in {"absent", "down", "up"}, Flap(i, shown) PROVE TypeOK'
  <2>1. DiscoveryOK'
    BY <1>T, <1>1, Counted DEF Flap, DiscoveryOK
  <2>2. QED
    BY <1>1, <1>P, <1>G, <2>1 DEF Flap, TypeOK
<1>2. ASSUME NEW r \in Refreshers, RefreshBegin(r) PROVE TypeOK'
  <2>1. [i \in Ifaces |-> links[i].to] \in [Ifaces -> Peers \cup {None}]
    BY <1>T, LinkPeer DEF DiscoveryOK
  <2>2. [NoRefresh EXCEPT !.pc = "status", !.known = [i \in Ifaces |-> links[i].to]] \in Refresh
    BY <2>1 DEF NoRefresh, Refresh
  <2>3. upsets' \in 0..MaxUpsets
    BY <1>T, <1>2, Counted DEF RefreshBegin, DiscoveryOK
  <2>4. overlapped' \in BOOLEAN
    BY <1>2 DEF RefreshBegin
  <2>5. DiscoveryOK'
    BY <1>T, <1>2, <2>2, <2>3, <2>4 DEF RefreshBegin, DiscoveryOK
  <2>6. QED
    BY <1>2, <1>P, <1>G, <2>5 DEF RefreshBegin, TypeOK
<1>3. ASSUME NEW r \in Refreshers, Status(r) PROVE TypeOK'
  <2>1. refresh[r].known \in [Ifaces -> Peers \cup {None}]
    BY <1>T DEF DiscoveryOK, Refresh
  <2>2. [NoRefresh EXCEPT !.pc = "reconcile", !.found = Discovered(refresh[r].known)] \in Refresh
    BY <2>1, DiscoveredType DEF NoRefresh, Refresh
  <2>3. DiscoveryOK'
    BY <1>T, <1>3, <2>2 DEF Status, DiscoveryOK
  <2>4. QED
    BY <1>3, <1>P, <1>G, <2>3 DEF Status, TypeOK
<1>4. ASSUME NEW r \in Refreshers, StatusFails(r) PROVE TypeOK'
  <2>1. [NoRefresh EXCEPT !.pc = "reconcile"] \in Refresh
    BY DEF NoRefresh, Refresh
  <2>2. DiscoveryOK'
    BY <1>T, <1>4, <2>1 DEF StatusFails, DiscoveryOK
  <2>3. QED
    BY <1>4, <1>P, <1>G, <2>2 DEF StatusFails, TypeOK
<1>5. ASSUME NEW r \in Refreshers, Reconcile(r) PROVE TypeOK'
  <2>1. refresh[r].found \in [Ifaces -> Link \cup {NoLink}]
    BY <1>T DEF DiscoveryOK, Refresh
  <2>2. ASSUME NEW l \in Link PROVE [NoTask EXCEPT !.pc = "open", !.link = l] \in Task
    BY InitialRecords DEF Task
  <2>3. task' \in [Ifaces -> Task]
    BY <1>T, <1>5, <2>1, <2>2, InitialRecords DEF Reconcile, PingsOK
  <2>4. \A i \in Ifaces : window'[i] \in {<<>>, window[i]}
    BY <1>5 DEF Reconcile, Carried
  <2>5. window' = [i \in Ifaces |-> window'[i]]
    BY <1>5 DEF Reconcile
  <2>6. PingsOK'
    <3>1. ASSUME NEW i \in Ifaces
          PROVE  window'[i] \in Seq({"clean", "loaded"}) /\ Len(window'[i]) <= WindowSize
      <4>1. CASE window'[i] = <<>>
        BY <4>1, Numbers
      <4>2. CASE window'[i] = window[i]
        BY <1>T, <4>2 DEF PingsOK
      <4>3. QED
        BY <2>4, <4>1, <4>2
    <3>2. QED
      BY <2>3, <2>5, <3>1 DEF PingsOK
  <2>7. [refresh[r] EXCEPT !.pc = "store"] \in Refresh
    BY <1>T DEF DiscoveryOK, Refresh
  <2>8. DiscoveryOK'
    BY <1>T, <1>5, <2>7 DEF Reconcile, DiscoveryOK
  <2>9. QED
    BY <1>5, <1>G, <2>6, <2>8 DEF Reconcile, TypeOK
<1>6. ASSUME NEW r \in Refreshers, Store(r) PROVE TypeOK'
  <2>1. refresh[r].found \in [Ifaces -> Link \cup {NoLink}]
    BY <1>T DEF DiscoveryOK, Refresh
  <2>2. DiscoveryOK'
    BY <1>T, <1>6, <2>1, InitialRecords DEF Store, DiscoveryOK
  <2>3. QED
    BY <1>6, <1>P, <1>G, <2>2 DEF Store, TypeOK
<1>7. ASSUME NEW i \in Ifaces, Open(i) \/ OpenFails(i) \/ PingTick(i) \/ Send(i) PROVE TypeOK'
  <2>1. task' \in [Ifaces -> Task]
    <3>1. task[i] \in Task /\ task \in [Ifaces -> Task]
      BY <1>T DEF PingsOK
    <3>2. CASE Open(i)
      BY <3>1, <3>2 DEF Open, Task
    <3>3. CASE OpenFails(i)
      BY <3>1, <3>3, Numbers DEF OpenFails, Task
    <3>4. CASE PingTick(i)
      BY <3>1, <3>4, Numbers DEF PingTick, Task
    <3>5. CASE Send(i)
      BY <3>1, <3>5 DEF Send, Task, Loading
    <3>6. QED
      BY <1>7, <3>2, <3>3, <3>4, <3>5
  <2>2. QED
    BY <1>7, <1>D, <1>W, <1>G, <2>1 DEF Open, OpenFails, PingTick, Send, TypeOK
<1>8. ASSUME NEW i \in Ifaces, NEW o \in {"clean", "loaded"},
             window' \in {window, [window EXCEPT ![i] = Push(i, o)]}, task' \in [Ifaces -> Task]
      PROVE  PingsOK'
  <2>1. /\ Push(i, o) \in Seq({"clean", "loaded"})
        /\ Len(Push(i, o)) <= WindowSize
    BY <1>T, PushWindow DEF PingsOK
  <2>2. QED
    BY <1>T, <1>8, <2>1 DEF PingsOK
<1>9. ASSUME NEW i \in Ifaces, SendFails(i) \/ Outcome(i) \/ RecvFails(i) PROVE TypeOK'
  <2>1. task' \in [Ifaces -> Task]
    <3>1. task[i] \in Task /\ task \in [Ifaces -> Task]
      BY <1>T DEF PingsOK
    <3>2. CASE SendFails(i)
      BY <3>1, <3>2 DEF SendFails, Task
    <3>3. CASE Outcome(i)
      BY <3>1, <3>3 DEF Outcome, Task
    <3>4. CASE RecvFails(i)
      <4>1. 1 \in 0..(ReopenDelay + 1)
        BY Numbers
      <4>2. CASE Paused
        BY <3>1, <3>4, <4>2 DEF RecvFails, Task
      <4>3. CASE ~Paused
        BY <3>1, <3>4, <4>1, <4>3 DEF RecvFails, Task
      <4>4. QED
        BY <4>2, <4>3
    <3>5. QED
      BY <1>9, <3>2, <3>3, <3>4
  <2>2. \E o \in {"clean", "loaded"} : window' \in {window, [window EXCEPT ![i] = Push(i, o)]}
    BY <1>9 DEF SendFails, Outcome, RecvFails
  <2>3. PingsOK'
    BY <1>8, <2>1, <2>2
  <2>4. QED
    BY <1>9, <1>D, <1>G, <2>3 DEF SendFails, Outcome, RecvFails, TypeOK
<1>10. ASSUME NEW c \in Cmds, Execute(c) \/ InUse(c) \/ TestEnd(c) PROVE TypeOK'
  <2>1. cmd[c] \in Command /\ cmd \in [Cmds -> Command]
    BY <1>T DEF TestsOK
  <2>2. cmd' \in [Cmds -> Command]
    BY <1>10, <2>1 DEF Execute, InUse, TestEnd, Command
  <2>3. TestsOK'
    BY <1>T, <1>10, <2>2 DEF Execute, InUse, TestEnd, TestsOK, gate
  <2>4. QED
    BY <1>10, <1>D, <1>P, <2>3 DEF Execute, InUse, TestEnd, TypeOK
<1>11. ASSUME NEW c \in Cmds, TestBegin(c) PROVE TypeOK'
  <2>1. [pc |-> "tcp", left |-> LegLimit] \in Command
    BY Numbers DEF Command
  <2>2. TestsOK'
    BY <1>T, <1>11, <2>1 DEF TestBegin, TestsOK
  <2>3. \A i \in Ifaces : [task[i] EXCEPT !.loaded = @ \/ task[i].pc = "flight"] \in Task
    BY <1>T DEF PingsOK, Task
  <2>4. task' \in [Ifaces -> Task]
    BY <1>11, <2>3 DEF TestBegin
  <2>5. QED
    BY <1>11, <1>D, <1>W, <2>2, <2>4 DEF TestBegin, TypeOK
<1>12. ASSUME NEW c \in Cmds, LegEnds(c) PROVE TypeOK'
  <2>1. AfterTcp \in Command /\ [pc |-> "closing", left |-> 0] \in Command
    BY Numbers DEF AfterTcp, Command
  <2>2. cmd' \in [Cmds -> Command]
    BY <1>T, <1>12, <2>1 DEF LegEnds, TestsOK
  <2>3. until' \in 0..Grace
    BY <1>T, <1>12, Numbers DEF LegEnds, GraceBegins, TestsOK
  <2>4. TestsOK'
    BY <1>T, <1>12, <2>2, <2>3 DEF LegEnds, TestsOK
  <2>5. QED
    BY <1>12, <1>D, <1>P, <2>4 DEF LegEnds, TypeOK
<1>13. ASSUME Tick PROVE TypeOK'
  <2>1. ASSUME NEW i \in Ifaces PROVE [task[i] EXCEPT !.left = Less(@)] \in Task
    <3>1. task[i] \in Task
      BY <1>T DEF PingsOK
    <3>2. \A n \in 0..(ReopenDelay + 1) : Less(n) \in 0..(ReopenDelay + 1)
      BY Numbers DEF Less
    <3>3. QED
      BY <3>1, <3>2 DEF Task
  <2>2. \A c \in Cmds : [cmd[c] EXCEPT !.left = Less(@)] \in Command
    BY <1>T, Numbers DEF TestsOK, Command, Less
  <2>3. Less(until) \in 0..Grace
    BY <1>T, Numbers DEF TestsOK, Less
  <2>4. TestsOK'
    BY <1>T, <1>13, <2>2, <2>3 DEF Tick, TestsOK
  <2>5. task' \in [Ifaces -> Task]
    BY <1>13, <2>1 DEF Tick
  <2>6. QED
    BY <1>13, <1>D, <1>W, <2>4, <2>5 DEF Tick, TypeOK
<1>14. ASSUME UNCHANGED vars PROVE TypeOK'
  BY <1>14, <1>D, <1>P, <1>G DEF vars, TypeOK
<1>15. QED
  BY <1>1, <1>2, <1>3, <1>4, <1>5, <1>6, <1>7, <1>9, <1>10, <1>11, <1>12, <1>13, <1>14
  DEF Next, PingStep, Finishes, Overruns

\* The agent's state stays well typed, windows within their size included.
THEOREM ProbingTypes == Spec => []TypeOK
BY InitType, StepType, PTL DEF Spec

-----------------------------------------------------------------------------
(* A test never spoils a window.                                           *)

\* The steps that touch neither the gate nor a command.
LEMMA GateQuiet ==
    ASSUME [Next]_vars
    PROVE  \/ UNCHANGED <<gate, cmd>>
           \/ \E c \in Cmds :
                 Execute(c) \/ InUse(c) \/ TestBegin(c) \/ LegEnds(c) \/ TestEnd(c)
           \/ Tick
<1>1. ASSUME NEW i \in Ifaces, NEW shown \in {"absent", "down", "up"}, Flap(i, shown)
      PROVE  UNCHANGED <<gate, cmd>>
  BY <1>1 DEF Flap
<1>2. ASSUME NEW r \in Refreshers, RefreshBegin(r) \/ Finishes(r)
      PROVE  UNCHANGED <<gate, cmd>>
  BY <1>2 DEF RefreshBegin, Finishes, Status, StatusFails, Reconcile, Store
<1>3. ASSUME NEW i \in Ifaces, PingStep(i) \/ Outcome(i) \/ RecvFails(i)
      PROVE  UNCHANGED <<gate, cmd>>
  BY <1>3 DEF PingStep, Open, OpenFails, PingTick, Send, SendFails, Outcome, RecvFails
<1>4. QED
  BY <1>1, <1>2, <1>3 DEF Next, Overruns, vars

\* One command at a time holds the test's lock, the gate is shut while it tests.
LEMMA StepGate == TypeOK /\ GateInv /\ [Next]_vars => GateInv'
<1> SUFFICES ASSUME TypeOK, GateInv, [Next]_vars PROVE GateInv'
  OBVIOUS
<1>T. /\ cmd \in [Cmds -> Command] /\ \A c \in Cmds : cmd[c] \in Command
      /\ until \in Nat
  BY Numbers DEF TypeOK, TestsOK
<1>1. CASE UNCHANGED <<gate, cmd>>
  BY <1>1 DEF GateInv, gate
<1>2. ASSUME NEW c \in Cmds, Execute(c) PROVE GateInv'
  <2>1. \A d \in Cmds : d # c => cmd'[d] = cmd[d]
    BY <1>T, <1>2 DEF Execute
  <2>2. UNCHANGED <<running, until>>
    BY <1>2 DEF Execute, gate
  <2>3. CASE cmd'[c].pc = "done"
    BY <2>1, <2>2, <2>3 DEF GateInv, Locked
  <2>4. CASE cmd'[c].pc # "done"
    <3>1. cmd'[c].pc = "util" /\ LockFree
      BY <1>T, <1>2, <2>4 DEF Execute, Command
    <3>2. \A d \in Cmds : cmd[d].pc \notin Locked
      BY <3>1 DEF LockFree, Locked
    <3>3. QED
      BY <2>1, <2>2, <3>1, <3>2 DEF GateInv, Locked
  <2>5. QED
    BY <2>3, <2>4
<1>3. ASSUME NEW c \in Cmds, InUse(c) PROVE GateInv'
  <2>1. /\ \A d \in Cmds : d # c => cmd'[d] = cmd[d]
        /\ cmd'[c].pc = "done" /\ UNCHANGED <<running, until>>
    BY <1>T, <1>3 DEF InUse, gate, Command
  <2>2. QED
    BY <2>1 DEF GateInv, Locked
<1>4. ASSUME NEW c \in Cmds, TestBegin(c) PROVE GateInv'
  <2>1. /\ \A d \in Cmds : d # c => cmd'[d] = cmd[d]
        /\ cmd[c].pc = "util" /\ cmd'[c].pc = "tcp" /\ running' /\ until' = until
    BY <1>T, <1>4 DEF TestBegin
  <2>2. QED
    BY <2>1 DEF GateInv, Locked
<1>5. ASSUME NEW c \in Cmds, LegEnds(c) PROVE GateInv'
  <2>1. /\ \A d \in Cmds : d # c => cmd'[d] = cmd[d]
        /\ cmd[c].pc \in {"tcp", "udp"} /\ cmd'[c].pc \in {"udp", "closing"} /\ running' = running
    BY <1>T, <1>5 DEF LegEnds, AfterTcp
  <2>2. IF cmd'[c].pc = "closing" THEN until' = Grace ELSE until' = until
    BY <1>5 DEF LegEnds, GraceBegins
  <2>3. \A d \in Cmds : d # c => cmd[d].pc \notin Locked
    BY <2>1 DEF GateInv, Locked
  <2>4. running
    BY <2>1 DEF GateInv, Locked
  <2>5. QED
    BY <2>1, <2>2, <2>3, <2>4 DEF GateInv, Locked
<1>6. ASSUME NEW c \in Cmds, TestEnd(c) PROVE GateInv'
  <2>1. /\ \A d \in Cmds : d # c => cmd'[d] = cmd[d]
        /\ cmd[c].pc = "closing" /\ cmd'[c].pc = "done"
    BY <1>T, <1>6 DEF TestEnd, Command
  <2>2. \A d \in Cmds : d # c => cmd[d].pc \notin Locked
    BY <2>1 DEF GateInv, Locked
  <2>3. QED
    BY <2>1, <2>2 DEF GateInv, Locked
<1>7. CASE Tick
  <2>1. \A c \in Cmds : cmd'[c].pc = cmd[c].pc /\ cmd[c].pc # "closing"
    BY <1>T, <1>7 DEF Tick, Command
  <2>2. running' = running
    BY <1>7 DEF Tick
  <2>3. QED
    BY <2>1, <2>2 DEF GateInv, Locked
<1>8. QED
  BY <1>1, <1>2, <1>3, <1>4, <1>5, <1>6, <1>7, GateQuiet

\* What a test loaded is not settled before pings resume.
LEMMA StepEcho == TypeOK /\ GateInv /\ EchoInv /\ [Next]_vars => EchoInv'
<1> SUFFICES ASSUME TypeOK, GateInv, EchoInv, [Next]_vars, NEW i \in Ifaces PROVE EchoOK(i)'
  BY DEF EchoInv
<1>T. /\ task \in [Ifaces -> Task] /\ task[i] \in Task
      /\ until \in 0..Grace /\ running \in BOOLEAN
  BY DEF TypeOK, PingsOK, TestsOK
<1>N. task[i].left \in Nat /\ until \in Nat
  BY <1>T, Numbers DEF Task
<1>E. EchoOK(i)
  BY DEF EchoInv
<1>S. ASSUME task'[i] = task[i], running' = running, until' = until PROVE EchoOK(i)'
  BY <1>E, <1>S DEF EchoOK
<1>1. ASSUME NEW j \in Ifaces, NEW shown \in {"absent", "down", "up"}, Flap(j, shown) PROVE EchoOK(i)'
  BY <1>1, <1>S DEF Flap, pings, gate
<1>2. ASSUME NEW r \in Refreshers, RefreshBegin(r) \/ Status(r) \/ StatusFails(r) \/ Store(r)
      PROVE  EchoOK(i)'
  BY <1>2, <1>S DEF RefreshBegin, Status, StatusFails, Store, pings, gate
<1>3. ASSUME NEW r \in Refreshers, Reconcile(r) PROVE EchoOK(i)'
  <2>1. running' = running /\ until' = until
    BY <1>3 DEF Reconcile, gate
  <2>2. CASE task'[i] = task[i]
    BY <1>S, <2>1, <2>2
  <2>3. CASE task'[i] # task[i]
    <3>1. task'[i].pc \in {"none", "open"} /\ task'[i].loaded = FALSE
      BY <1>3, <2>3 DEF Reconcile, NoTask
    <3>2. QED
      BY <3>1 DEF EchoOK
  <2>4. QED
    BY <2>2, <2>3
<1>4. ASSUME NEW j \in Ifaces, PingStep(j) \/ Outcome(j) \/ RecvFails(j) PROVE EchoOK(i)'
  <2>1. running' = running /\ until' = until
    BY <1>4 DEF PingStep, Open, OpenFails, PingTick, Send, SendFails, Outcome, RecvFails, gate
  <2>2. CASE i # j
    <3>1. task'[i] = task[i]
      BY <1>T, <1>4, <2>2
      DEF PingStep, Open, OpenFails, PingTick, Send, SendFails, Outcome, RecvFails
    <3>2. QED
      BY <1>S, <2>1, <3>1
  <2>3. CASE i = j
    <3>1. CASE Open(i) \/ OpenFails(i)
      <4>1. task'[i].pc \in {"open", "idle"} /\ task'[i].loaded = task[i].loaded /\ task[i].pc = "open"
        BY <1>T, <3>1 DEF Open, OpenFails, Task
      <4>2. QED
        BY <1>E, <4>1 DEF EchoOK
    <3>2. CASE PingTick(i)
      <4>1. task'[i].left = 1 /\ task'[i].loaded = task[i].loaded /\ task[i].pc = "idle"
        BY <1>T, <3>2 DEF PingTick, Task
      <4>2. QED
        BY <1>E, <4>1 DEF EchoOK
    <3>3. CASE Send(i)
      <4>1. /\ task[i].pc = "send" /\ task'[i].pc = "flight"
            /\ task'[i].left = task[i].left /\ task'[i].loaded = Loading
        BY <1>T, <3>3 DEF Send, Task
      <4>2. Loading => running
        BY DEF Loading, GateInv, Locked
      <4>3. QED
        BY <1>E, <2>1, <4>1, <4>2 DEF EchoOK
    <3>4. CASE SendFails(i)
      <4>1. task[i].pc = "send" /\ task'[i].pc = "idle" /\ task'[i].loaded = task[i].loaded
        BY <1>T, <3>4 DEF SendFails, Task
      <4>2. QED
        BY <1>E, <4>1 DEF EchoOK
    <3>5. CASE Outcome(i) \/ RecvFails(i)
      <4>1. task'[i].pc \in {"open", "idle"} /\ task'[i].loaded = FALSE
        BY <1>T, <3>5 DEF Outcome, RecvFails, Task
      <4>2. QED
        BY <4>1 DEF EchoOK
    <3>6. QED
      BY <1>4, <2>3, <3>1, <3>2, <3>3, <3>4, <3>5 DEF PingStep
  <2>4. QED
    BY <2>2, <2>3
<1>5. ASSUME NEW c \in Cmds, Execute(c) \/ InUse(c) PROVE EchoOK(i)'
  BY <1>5, <1>S DEF Execute, InUse, pings, gate
<1>6. ASSUME NEW c \in Cmds, TestBegin(c) PROVE EchoOK(i)'
  <2>1. /\ running' /\ task'[i].pc = task[i].pc /\ task'[i].left = task[i].left
        /\ task'[i].loaded => task[i].loaded \/ task[i].pc = "flight"
    BY <1>T, <1>6 DEF TestBegin, Task
  <2>2. QED
    BY <1>E, <2>1 DEF EchoOK
<1>7. ASSUME NEW c \in Cmds, LegEnds(c) PROVE EchoOK(i)'
  <2>1. task'[i] = task[i] /\ running' = running /\ until' \in {until, Grace}
    BY <1>7 DEF LegEnds, GraceBegins, pings
  <2>2. until' \in Nat /\ until' >= until
    BY <1>T, <2>1, Numbers
  <2>3. QED
    BY <1>E, <1>N, <2>1, <2>2 DEF EchoOK
<1>8. ASSUME NEW c \in Cmds, TestEnd(c) PROVE EchoOK(i)'
  <2>1. task'[i] = task[i] /\ until' = until /\ cmd[c].pc = "closing"
    BY <1>8 DEF TestEnd, pings
  <2>2. until = Grace
    BY <2>1 DEF GateInv
  <2>3. QED
    BY <1>E, <1>N, <2>1, <2>2, Numbers DEF EchoOK
<1>9. CASE Tick
  <2>1. /\ task'[i].pc = task[i].pc /\ task'[i].loaded = task[i].loaded
        /\ task'[i].left = Less(task[i].left) /\ until' = Less(until) /\ running' = running
        /\ task[i].pc = "flight" => task[i].left > 0
    BY <1>T, <1>9 DEF Tick, Task
  <2>2. task[i].pc \in {"send", "flight"} => task'[i].left <= 1
    BY <1>E, <1>N, <2>1 DEF EchoOK, Less
  <2>3. ASSUME task[i].loaded PROVE task[i].pc = "flight" /\ (running \/ until' > task'[i].left)
    BY <1>E, <1>N, <2>1, <2>3 DEF EchoOK, Less
  <2>4. QED
    BY <2>1, <2>2, <2>3 DEF EchoOK
<1>10. CASE UNCHANGED vars
  BY <1>10, <1>S DEF vars, pings, gate
<1>11. QED
  BY <1>1, <1>2, <1>3, <1>4, <1>5, <1>6, <1>7, <1>8, <1>9, <1>10 DEF Next, Finishes, Overruns

\* The windows a step changes, and how.
LEMMA WindowSteps ==
    ASSUME TypeOK, [Next]_vars
    PROVE  \/ UNCHANGED window
           \/ \E r \in Refreshers : Reconcile(r)
           \/ \E i \in Ifaces : SendFails(i) \/ (Outcome(i) /\ ~Paused)
<1>1. ASSUME NEW i \in Ifaces, NEW shown \in {"absent", "down", "up"}, Flap(i, shown)
      PROVE  UNCHANGED window
  BY <1>1 DEF Flap, pings
<1>2. ASSUME NEW r \in Refreshers, RefreshBegin(r) \/ Status(r) \/ StatusFails(r) \/ Store(r)
      PROVE  UNCHANGED window
  BY <1>2 DEF RefreshBegin, Status, StatusFails, Store, pings
<1>3. ASSUME NEW i \in Ifaces,
             \/ Open(i) \/ OpenFails(i) \/ PingTick(i) \/ Send(i) \/ RecvFails(i)
             \/ Outcome(i) /\ Paused
      PROVE  UNCHANGED window
  BY <1>3 DEF Open, OpenFails, PingTick, Send, Outcome, RecvFails
<1>4. ASSUME NEW c \in Cmds,
             Execute(c) \/ InUse(c) \/ TestBegin(c) \/ LegEnds(c) \/ TestEnd(c)
      PROVE  UNCHANGED window
  BY <1>4 DEF Execute, InUse, TestBegin, LegEnds, TestEnd, pings
<1>5. Tick \/ UNCHANGED vars => UNCHANGED window
  BY DEF Tick, vars, pings
<1>6. QED
  BY <1>1, <1>2, <1>3, <1>4, <1>5 DEF Next, PingStep, Finishes, Overruns

\* A window of clean outcomes only, as a set of sequences.
LEMMA CleanSeq ==
    ASSUME NEW s \in Seq({"clean", "loaded"}), \A k \in DOMAIN s : s[k] = "clean"
    PROVE  s \in Seq({"clean"})
OBVIOUS

\* No step records what a test loaded.
LEMMA StepClean == TypeOK /\ EchoInv /\ CleanWindow /\ [Next]_vars => CleanWindow'
<1> SUFFICES ASSUME TypeOK, EchoInv, CleanWindow, [Next]_vars, NEW i \in Ifaces
             PROVE  \A k \in DOMAIN window'[i] : window'[i][k] = "clean"
  BY DEF CleanWindow
<1>T. /\ window \in [Ifaces -> Seq({"clean", "loaded"})]
      /\ window[i] \in Seq({"clean"}) /\ Len(window[i]) <= WindowSize
  BY CleanSeq DEF TypeOK, PingsOK, CleanWindow
<1>S. ASSUME window'[i] = window[i] PROVE \A k \in DOMAIN window'[i] : window'[i][k] = "clean"
  BY <1>S DEF CleanWindow
<1>P. ASSUME window' = [window EXCEPT ![i] = Push(i, "clean")]
      PROVE  \A k \in DOMAIN window'[i] : window'[i][k] = "clean"
  <2>1. Push(i, "clean") \in Seq({"clean"})
    BY <1>T, PushWindow
  <2>2. window'[i] = Push(i, "clean")
    BY <1>T, <1>P
  <2>3. QED
    BY <2>1, <2>2
<1>1. ASSUME NEW r \in Refreshers, Reconcile(r) PROVE \A k \in DOMAIN window'[i] : window'[i][k] = "clean"
  <2>1. window'[i] \in {<<>>, window[i]}
    BY <1>1 DEF Reconcile, Carried
  <2>2. QED
    BY <1>S, <2>1
<1>2. ASSUME NEW j \in Ifaces, SendFails(j) PROVE \A k \in DOMAIN window'[i] : window'[i][k] = "clean"
  <2>1. window' = [window EXCEPT ![j] = Push(j, "clean")]
    BY <1>2 DEF SendFails
  <2>2. QED
    BY <1>T, <1>S, <1>P, <2>1
<1>3. ASSUME NEW j \in Ifaces, Outcome(j), ~Paused
      PROVE  \A k \in DOMAIN window'[i] : window'[i][k] = "clean"
  <2>1. task[j].left \in Nat /\ until \in Nat
    BY Numbers DEF TypeOK, PingsOK, TestsOK, Task
  <2>2. ~task[j].loaded
    BY <1>3, <2>1 DEF EchoInv, EchoOK, Paused
  <2>3. window' = [window EXCEPT ![j] = Push(j, "clean")]
    BY <1>3, <2>2 DEF Outcome
  <2>4. QED
    BY <1>T, <1>S, <1>P, <2>3
<1>4. QED
  BY <1>S, <1>1, <1>2, <1>3, WindowSteps

CleanInv == TypeOK /\ GateInv /\ EchoInv /\ CleanWindow

\* Nothing that a test loaded is ever in a window of pings, although tests begin
\* and end between the sending of an echo and its outcome: for every number of
\* tunnels, commands and every grace of two intervals or more.
THEOREM WindowsClean == Spec => []CleanWindow
<1>1. Init => CleanInv
  <2> SUFFICES ASSUME Init PROVE CleanInv
    OBVIOUS
  <2>1. GateInv
    BY DEF Init, NoCmd, GateInv, Locked
  <2>2. EchoInv
    BY DEF Init, NoTask, EchoInv, EchoOK
  <2>3. CleanWindow
    BY DEF Init, CleanWindow
  <2>4. QED
    BY <2>1, <2>2, <2>3, InitType DEF CleanInv
<1>2. CleanInv /\ [Next]_vars => CleanInv'
  BY StepType, StepGate, StepEcho, StepClean DEF CleanInv
<1>3. CleanInv => CleanWindow
  BY DEF CleanInv
<1>4. QED
  BY <1>1, <1>2, <1>3, PTL DEF Spec

-----------------------------------------------------------------------------
(* A flap never wipes a window.                                            *)

\* What a step leaves alone that is not one of a refresh: the links, the
\* refreshes and what each task pings; a window that is not empty was not before,
\* or belongs to a task.
FlapFrame ==
    /\ UNCHANGED <<links, refresh, missed, overlapped>>
    /\ \A i \in Ifaces :
          /\ task'[i].link = task[i].link
          /\ task'[i].pc # "none" => task[i].pc # "none"
          /\ window'[i] # window[i] => task[i].pc # "none"

LEMMA FlapQuiet ==
    ASSUME TypeOK, [Next]_vars
    PROVE  \/ FlapFrame
           \/ \E r \in Refreshers :
                 RefreshBegin(r) \/ Status(r) \/ StatusFails(r) \/ Reconcile(r) \/ Store(r)
<1>T. /\ task \in [Ifaces -> Task] /\ window \in [Ifaces -> Seq({"clean", "loaded"})]
      /\ \A i \in Ifaces : task[i] \in Task
  BY DEF TypeOK, PingsOK
<1>1. ASSUME NEW i \in Ifaces, NEW shown \in {"absent", "down", "up"}, Flap(i, shown)
      PROVE  FlapFrame
  BY <1>1 DEF Flap, FlapFrame, pings
<1>2. ASSUME NEW j \in Ifaces, PingStep(j) \/ Outcome(j) \/ RecvFails(j) PROVE FlapFrame
  <2>1. UNCHANGED <<links, refresh, missed, overlapped>>
    BY <1>2 DEF PingStep, Open, OpenFails, PingTick, Send, SendFails, Outcome, RecvFails, discovery
  <2>2. task[j].pc # "none"
    BY <1>2 DEF PingStep, Open, OpenFails, PingTick, Send, SendFails, Outcome, RecvFails
  <2>3. \A i \in Ifaces : i # j => task'[i] = task[i] /\ window'[i] = window[i]
    BY <1>T, <1>2 DEF PingStep, Open, OpenFails, PingTick, Send, SendFails, Outcome, RecvFails
  <2>4. task'[j].link = task[j].link
    <3>1. CASE Open(j) \/ OpenFails(j) \/ PingTick(j)
      BY <1>T, <3>1 DEF Open, OpenFails, PingTick, Task
    <3>2. CASE Send(j) \/ SendFails(j)
      BY <1>T, <3>2 DEF Send, SendFails, Task
    <3>3. CASE Outcome(j) \/ RecvFails(j)
      BY <1>T, <3>3 DEF Outcome, RecvFails, Task
    <3>4. QED
      BY <1>2, <3>1, <3>2, <3>3 DEF PingStep
  <2>5. QED
    BY <2>1, <2>2, <2>3, <2>4 DEF FlapFrame
<1>3. ASSUME NEW c \in Cmds, Execute(c) \/ InUse(c) \/ LegEnds(c) \/ TestEnd(c) PROVE FlapFrame
  BY <1>3 DEF Execute, InUse, LegEnds, TestEnd, FlapFrame, discovery, pings
<1>4. ASSUME NEW c \in Cmds, TestBegin(c) PROVE FlapFrame
  BY <1>T, <1>4 DEF TestBegin, FlapFrame, discovery, Task
<1>5. ASSUME Tick PROVE FlapFrame
  BY <1>T, <1>5 DEF Tick, FlapFrame, discovery, Task
<1>6. ASSUME UNCHANGED vars PROVE FlapFrame
  BY <1>6 DEF vars, discovery, pings, FlapFrame
<1>7. QED
  BY <1>1, <1>2, <1>3, <1>4, <1>5, <1>6 DEF Next, Finishes, Overruns

\* A snapshot that has the interface finds a tunnel known before again, with its peer.
LEMMA DiscoveredKept ==
    ASSUME TypeOK, NEW i \in Ifaces, picture[i] # "absent", NEW known, known[i] = links[i].to
    PROVE  /\ links[i] # NoLink => Discovered(known)[i] # NoLink
           /\ links[i].to = Neighbour[i] => Discovered(known)[i].to = Neighbour[i]
<1>1. links[i] \in Link \cup {NoLink} /\ Neighbour[i] \in Peers /\ Neighbour[i] # None
  BY ProbingAssumption DEF TypeOK, DiscoveryOK
<1>2. SelectPeer(i, known) # None => Discovered(known)[i] = [to |-> SelectPeer(i, known), ll |-> picture[i] = "up"]
  BY DEF Discovered
<1>3. links[i] # NoLink => SelectPeer(i, known) # None
  BY <1>1, LinkPeer DEF SelectPeer
<1>4. links[i].to = Neighbour[i] => SelectPeer(i, known) = Neighbour[i]
  BY <1>1 DEF SelectPeer
<1>5. ASSUME SelectPeer(i, known) # None PROVE Discovered(known)[i] # NoLink
  BY <1>2, <1>5 DEF NoLink
<1>6. QED
  BY <1>1, <1>2, <1>3, <1>4, <1>5

\* Every step keeps what is known of the tunnels.
LEMMA StepFlap == TypeOK /\ FlapInv /\ [Next]_vars => FlapInv'
<1> SUFFICES ASSUME TypeOK, FlapInv, [Next]_vars PROVE FlapInv'
  OBVIOUS
<1>T. /\ refresh \in [Refreshers -> Refresh] /\ \A r \in Refreshers : refresh[r] \in Refresh
      /\ missed \subseteq Ifaces /\ overlapped \in BOOLEAN
      /\ links \in [Ifaces -> Link \cup {NoLink}]
  BY DEF TypeOK, DiscoveryOK
<1>F. /\ OneRefresh
      /\ \A i \in Ifaces : task[i].pc # "none" => task[i].link # NoLink
      /\ \A i \in Ifaces : ~overlapped /\ i \notin missed => TunnelKept(i)
  BY DEF FlapInv
<1>1. CASE FlapFrame
  <2>1. OneRefresh'
    BY <1>F, <1>1 DEF FlapFrame, OneRefresh, Under
  <2>2. ASSUME NEW i \in Ifaces, ~overlapped', i \notin missed' PROVE TunnelKept(i)'
    BY <1>F, <1>1, <2>2 DEF FlapFrame, TunnelKept, Found
  <2>3. QED
    BY <1>F, <1>1, <2>1, <2>2 DEF FlapFrame, FlapInv
<1>2. ASSUME NEW r \in Refreshers, RefreshBegin(r) PROVE FlapInv'
  <2>1. /\ UNCHANGED <<links, missed, task, window>>
        /\ refresh[r].pc = "idle" /\ \A s \in Refreshers : s # r => refresh'[s] = refresh[s]
        /\ refresh'[r].pc = "status" /\ refresh'[r].known = [i \in Ifaces |-> links[i].to]
        /\ ~overlapped' => ~overlapped /\ \A s \in Refreshers : ~Under(s)
    BY <1>T, <1>2 DEF RefreshBegin, pings, Under, NoRefresh
  <2>2. OneRefresh'
    BY <2>1 DEF OneRefresh, Under
  <2>3. ASSUME NEW i \in Ifaces, ~overlapped', i \notin missed' PROVE TunnelKept(i)'
    BY <1>F, <2>1, <2>3 DEF TunnelKept, Found, Under
  <2>4. QED
    BY <1>F, <2>1, <2>2, <2>3 DEF FlapInv
<1>3. ASSUME NEW r \in Refreshers, Status(r) PROVE FlapInv'
  <2>1. /\ UNCHANGED <<links, overlapped, task, window>>
        /\ refresh[r].pc = "status" /\ \A s \in Refreshers : s # r => refresh'[s] = refresh[s]
        /\ refresh'[r].pc = "reconcile" /\ refresh'[r].found = Discovered(refresh[r].known)
        /\ missed' = missed \cup {i \in Ifaces : picture[i] = "absent"}
    BY <1>T, <1>3 DEF Status, pings, NoRefresh
  <2>2. OneRefresh'
    BY <1>F, <2>1 DEF OneRefresh, Under
  <2>3. ASSUME NEW i \in Ifaces, ~overlapped', i \notin missed' PROVE TunnelKept(i)'
    <3>1. picture[i] # "absent" /\ TunnelKept(i)
      BY <1>F, <2>1, <2>3
    <3>2. refresh[r].known[i] = links[i].to
      BY <2>1, <3>1 DEF TunnelKept
    <3>3. /\ links[i] # NoLink => refresh'[r].found[i] # NoLink
          /\ links[i].to = Neighbour[i] => refresh'[r].found[i].to = Neighbour[i]
      BY <2>1, <3>1, <3>2, DiscoveredKept
    <3>4. QED
      BY <2>1, <3>1, <3>3 DEF TunnelKept, Found
  <2>4. QED
    BY <1>F, <2>1, <2>2, <2>3 DEF FlapInv
<1>4. ASSUME NEW r \in Refreshers, StatusFails(r) PROVE FlapInv'
  <2>1. /\ UNCHANGED <<overlapped, task>>
        /\ refresh[r].pc = "status" /\ \A s \in Refreshers : s # r => refresh'[s] = refresh[s]
        /\ missed' = Ifaces
    BY <1>T, <1>4 DEF StatusFails, pings
  <2>2. OneRefresh'
    BY <1>F, <2>1 DEF OneRefresh, Under
  <2>3. QED
    BY <1>F, <2>1, <2>2 DEF FlapInv
<1>5. ASSUME NEW r \in Refreshers, Reconcile(r) PROVE FlapInv'
  <2>1. /\ UNCHANGED <<links, missed, overlapped>>
        /\ refresh[r].pc = "reconcile" /\ \A s \in Refreshers : s # r => refresh'[s] = refresh[s]
        /\ refresh'[r].pc = "store" /\ refresh'[r].found = refresh[r].found
    BY <1>T, <1>5 DEF Reconcile, Refresh
  <2>2. \A i \in Ifaces : task'[i].link = refresh[r].found[i]
    BY <1>T, <1>5 DEF Reconcile, SameLink, NoTask, PingsOK, Task
  <2>3. \A i \in Ifaces : window'[i] # <<>> => refresh[r].found[i] # NoLink
    BY <1>5 DEF Reconcile, Carried
  <2>4. \A i \in Ifaces : task'[i].pc # "none" => task'[i].link # NoLink
    BY <1>F, <1>5, <2>2 DEF Reconcile, SameLink, NoTask
  <2>5. OneRefresh'
    BY <1>F, <2>1 DEF OneRefresh, Under
  <2>6. ASSUME NEW i \in Ifaces, ~overlapped', i \notin missed' PROVE TunnelKept(i)'
    BY <1>F, <2>1, <2>2, <2>3, <2>6 DEF TunnelKept, Found
  <2>7. QED
    BY <2>4, <2>5, <2>6 DEF FlapInv
<1>6. ASSUME NEW r \in Refreshers, Store(r) PROVE FlapInv'
  <2>1. /\ UNCHANGED <<missed, overlapped, task, window>>
        /\ refresh[r].pc = "store" /\ \A s \in Refreshers : s # r => refresh'[s] = refresh[s]
        /\ refresh'[r].pc = "idle" /\ links' = refresh[r].found
    BY <1>T, <1>6 DEF Store, pings, NoRefresh
  <2>2. OneRefresh'
    BY <1>F, <2>1 DEF OneRefresh, Under
  <2>3. ASSUME NEW i \in Ifaces, ~overlapped', i \notin missed' PROVE TunnelKept(i)'
    <3>1. TunnelKept(i) /\ \A s \in Refreshers : s # r => refresh[s].pc = "idle"
      BY <1>F, <2>1, <2>3 DEF OneRefresh, Under
    <3>2. \A s \in Refreshers : refresh'[s].pc = "idle"
      BY <2>1, <3>1
    <3>3. ASSUME task[i].link # NoLink \/ window[i] # <<>> PROVE links'[i] # NoLink
      BY <2>1, <3>1, <3>3 DEF TunnelKept, Found
    <3>4. QED
      BY <2>1, <3>2, <3>3 DEF TunnelKept, Found
  <2>4. QED
    BY <1>F, <2>1, <2>2, <2>3 DEF FlapInv
<1>7. QED
  BY <1>1, <1>2, <1>3, <1>4, <1>5, <1>6, FlapQuiet

\* What FlapKeeps asks of a step.
FlapStep ==
    \A i \in Ifaces :
        ~overlapped' /\ i \notin missed' =>
            /\ links[i] # NoLink => links'[i] # NoLink
            /\ links[i].to = Neighbour[i] => links'[i].to = Neighbour[i]
            /\ Len(window'[i]) >= Len(window[i])

LEMMA StepKeeps == TypeOK /\ FlapInv /\ [Next]_vars => FlapStep
<1> SUFFICES ASSUME TypeOK, FlapInv, [Next]_vars, NEW i \in Ifaces, ~overlapped', i \notin missed'
             PROVE  /\ links[i] # NoLink => links'[i] # NoLink
                    /\ links[i].to = Neighbour[i] => links'[i].to = Neighbour[i]
                    /\ Len(window'[i]) >= Len(window[i])
  BY DEF FlapStep
<1>T. /\ window \in [Ifaces -> Seq({"clean", "loaded"})] /\ Len(window[i]) <= WindowSize
      /\ window[i] \in Seq({"clean", "loaded"}) /\ Len(window[i]) \in Nat
      /\ missed \subseteq Ifaces /\ overlapped \in BOOLEAN
  BY DEF TypeOK, DiscoveryOK, PingsOK
<1>1. ~overlapped /\ i \notin missed
  <2>1. CASE FlapFrame
    BY <2>1 DEF FlapFrame
  <2>2. ASSUME NEW r \in Refreshers,
               RefreshBegin(r) \/ Status(r) \/ StatusFails(r) \/ Reconcile(r) \/ Store(r)
        PROVE  ~overlapped /\ i \notin missed
    <3>1. CASE RefreshBegin(r)
      BY <3>1, <1>T DEF RefreshBegin
    <3>2. CASE Status(r)
      BY <3>2 DEF Status
    <3>3. CASE StatusFails(r)
      BY <3>3 DEF StatusFails
    <3>4. CASE Reconcile(r) \/ Store(r)
      <4>1. overlapped' = overlapped /\ missed' = missed
        BY <3>4 DEF Reconcile, Store
      <4>2. QED
        BY <4>1
    <3>5. QED
      BY <2>2, <3>1, <3>2, <3>3, <3>4
  <2>3. QED
    BY <2>1, <2>2, FlapQuiet
<1>2. OneRefresh /\ TunnelKept(i)
  BY <1>1 DEF FlapInv
<1>3. /\ links[i] # NoLink => links'[i] # NoLink
      /\ links[i].to = Neighbour[i] => links'[i].to = Neighbour[i]
  <2>1. CASE UNCHANGED links
    BY <2>1
  <2>2. ASSUME NEW r \in Refreshers, Store(r)
        PROVE  /\ links[i] # NoLink => links'[i] # NoLink
               /\ links[i].to = Neighbour[i] => links'[i].to = Neighbour[i]
    BY <1>2, <2>2 DEF Store, TunnelKept, Found
  <2>3. UNCHANGED links \/ \E r \in Refreshers : Store(r)
    BY FlapQuiet DEF FlapFrame, RefreshBegin, Status, StatusFails, Reconcile
  <2>4. QED
    BY <2>1, <2>2, <2>3
<1>4. Len(window'[i]) >= Len(window[i])
  <2>1. CASE window'[i] = window[i]
    BY <1>T, <2>1
  <2>2. ASSUME NEW r \in Refreshers, Reconcile(r) PROVE Len(window'[i]) >= Len(window[i])
    <3>1. CASE refresh[r].found[i] # NoLink
      <4>1. window'[i] = window[i]
        BY <2>2, <3>1 DEF Reconcile, Carried
      <4>2. QED
        BY <2>1, <4>1
    <3>2. CASE refresh[r].found[i] = NoLink
      <4>1. links[i] = NoLink /\ \A s \in Refreshers : s # r => refresh[s].pc = "idle"
        BY <1>1, <1>2, <2>2, <3>2 DEF Reconcile, TunnelKept, Found, OneRefresh, Under
      <4>2. window[i] = <<>>
        BY <1>2, <2>2, <3>2, <4>1 DEF TunnelKept, Reconcile
      <4>3. window'[i] = <<>>
        BY <2>2, <3>2 DEF Reconcile, Carried
      <4>4. QED
        BY <1>T, <4>2, <4>3
    <3>3. QED
      BY <3>1, <3>2
  <2>3. ASSUME NEW j \in Ifaces, NEW o \in {"clean", "loaded"},
               window' = [window EXCEPT ![j] = Push(j, o)]
        PROVE  Len(window'[i]) >= Len(window[i])
    <3>1. CASE i = j
      BY <1>T, <2>3, <3>1, PushWindow
    <3>2. CASE i # j
      BY <1>T, <2>3, <3>2
    <3>3. QED
      BY <3>1, <3>2
  <2>4. ASSUME NEW j \in Ifaces, SendFails(j) \/ (Outcome(j) /\ ~Paused)
        PROVE  Len(window'[i]) >= Len(window[i])
    BY <2>3, <2>4 DEF SendFails, Outcome
  <2>5. QED
    BY <2>1, <2>2, <2>4, WindowSteps
<1>5. QED
  BY <1>3, <1>4

\* While every snapshot has the interface and refreshes do not overlap, a flap
\* loses neither the tunnel, nor its resolved peer, nor an outcome of its window.
THEOREM FlapsKeep == Spec => FlapKeeps
<1> DEFINE Inv == TypeOK /\ FlapInv
<1>1. Init => Inv
  <2>1. Init => FlapInv
    BY DEF Init, FlapInv, OneRefresh, Under, TunnelKept, Found, NoTask, NoRefresh
  <2>2. QED
    BY <2>1, InitType
<1>2. Inv /\ [Next]_vars => Inv'
  BY StepType, StepFlap
<1>3. Inv /\ [Next]_vars => [FlapStep]_vars
  BY StepKeeps
<1>4. Spec => [][FlapStep]_vars
  BY <1>1, <1>2, <1>3, PTL DEF Spec
<1>5. QED
  BY <1>4 DEF FlapKeeps, FlapStep
=============================================================================
