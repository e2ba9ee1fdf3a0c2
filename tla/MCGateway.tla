------------------------------ MODULE MCGateway ------------------------------
(***************************************************************************)
(* Small instances of Gateway for TLC: the user's programs and the servers *)
(* that the configurations choose from.                                    *)
(***************************************************************************)
EXTENDS Gateway

\* Connect before Run, as in simple-gateway.cc:244, and a model of the user's
\* own that has events at times 1 and 2.
ConnectFirst ==
  <<Entry(0, "Connect", NoMessage), Entry(1, "Model", NoMessage),
    Entry(2, "Model", NoMessage)>>

\* The same, with a Simulator::Stop at time 2.
ConnectAndFinish ==
  <<Entry(0, "Connect", NoMessage), Entry(1, "Model", NoMessage),
    Entry(2, "Finish", NoMessage)>>

\* Connect is called by an event at time 2, and once more at time 3.
ConnectLate ==
  <<Entry(0, "Model", NoMessage), Entry(2, "Connect", NoMessage),
    Entry(3, "Connect", NoMessage)>>

\* The programs of a run.
EarlyOrLate == {ConnectFirst, ConnectLate}
Early == {ConnectFirst, ConnectAndFinish}
Late == {ConnectLate}
First == {ConnectFirst}

\* The stamps, one of which asks the gateway to terminate.
StampsTo2 == -1..2
StampsTo3 == -1..3

\* A server that sends any header at any time.
AnyOrder == Headers \X Headers

\* A server that keeps to the documented order: the stamps increase, and
\* nothing follows a request to terminate.
Increasing ==
  {p \in Stamps \X Stamps : p[1] >= 0 /\ (p[1] < p[2] \/ p[2] < 0)}

\* A server that may repeat a stamp.
NonDecreasing ==
  {p \in Stamps \X Stamps : p[1] >= 0 /\ (p[1] <= p[2] \/ p[2] < 0)}

\* A server that, after the stamp it starts with, goes back in time.
Decreasing ==
  {p \in Stamps \X Stamps : p[1] = 0 \/ (p[1] > p[2] /\ p[2] > 0)}

Both == {TRUE, FALSE}
Always == {TRUE}
Never == {FALSE}
=============================================================================
