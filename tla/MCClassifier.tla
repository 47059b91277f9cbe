----------------------------- MODULE MCClassifier -----------------------------
(***************************************************************************)
(* Instances of Classifier for TLC.                                        *)
(***************************************************************************)
EXTENDS Classifier

AB == [from |-> "a", to |-> "b", interface |-> "ab"]
BA == [from |-> "b", to |-> "a", interface |-> "ba"]
Tunnel == {AB, BA}

\* Metric 1 is good, 2 acceptable, 3 bad; a throughput of 1 is poor.
RttBounds == <<1, 2, 2, NoMetric>>
TcpBounds == <<2, 2, NoMetric, NoMetric>>
Costs == [q \in 0..3 |-> q + 1]

Ping(m) == [state |-> "quiet", rtt |-> m, tcp |-> NoMetric]
Busy == [state |-> "busy", rtt |-> NoMetric, tcp |-> NoMetric]
Throughput(m) == [state |-> "quiet", rtt |-> NoMetric, tcp |-> m]

\* One half pings well or badly and is in use at times; the other pings, is tested,
\* and reports late.
TunnelReports ==
    {<<AB, Ping(m), 0>> : m \in {1, 2}} \cup {<<AB, Busy, 0>>}
        \cup {<<BA, Ping(1), 0>>, <<BA, Ping(3), 0>>, <<BA, Throughput(1), 1>>}
=============================================================================
