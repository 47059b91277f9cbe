------------------------------- MODULE MCTrace -------------------------------
(***************************************************************************)
(* Instances of Trace for TLC: three nodes and one prefix, the loopback of *)
(* z.  Interface i of the model is the tunnel to the named peer.           *)
(***************************************************************************)
EXTENDS Trace, TLC

Dev == [kind |-> "dev", iface |-> None]
Via(i) == [kind |-> "via", iface |-> i]

Loopbacks == [n \in Nodes |-> IF n = "z" THEN "pz" ELSE None]

\* Every node has a tunnel to both others.
Full == [n \in Nodes |-> [i \in Ifaces |-> IF i = n THEN None ELSE i]]
To(a, b, z) == [n \in Nodes |-> [p \in Targets |-> CASE n = "a" -> a [] n = "b" -> b [] OTHER -> z]]

\* Equal-cost branches with a repeated next hop, a chain to the cap, and a loop.
TheMeshes ==
    {[links |-> Full, route |-> r] : r \in
        {To(<<Via("z"), Via("b"), Via("z")>>, <<Via("z")>>, <<Dev>>),
         To(<<Via("b")>>, <<Via("z"), Via("a")>>, <<Dev, Via("a")>>)}}

TheRelinks == {<<"b", [i \in Ifaces |-> IF i = "z" THEN "a" ELSE None]>>}
TheReroutes == {<<"z", "pz", <<>>>>}
\* The map page traces a to z; b never reported a loopback.
TheRequests ==
    {[from |-> "a", to |-> "z", prefix |-> None], [from |-> "a", to |-> "b", prefix |-> None]}
Grades == [l \in Nodes \X Ifaces |-> IF l = <<"b", "z">> THEN "bad" ELSE "good"]
=============================================================================
