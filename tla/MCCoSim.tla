------------------------------- MODULE MCCoSim -------------------------------
(***************************************************************************)
(* Small instances of CoSim for TLC.                                       *)
(***************************************************************************)
EXTENDS CoSim

\* Connect before Run, as in simple-gateway.cc:244.
GatewayProgram == {<<Entry(0, "Connect", NoMessage)>>}

\* The server may send any header after any other: its own loop decides.
AnyOrder == Headers \X Headers

Always == {TRUE}

\* A command line of the server, with two speeds and responses in one piece.
Args(start, delta, iterations, nodes) ==
  [timeStart |-> start, timeDelta |-> delta, iterations |-> iterations,
   numberOfNodes |-> nodes, positionDeltaX |-> 2, pieces |-> 1]

\* No step at all; one step; five steps; three with a vehicle that the gateway does not
\* have; too few vehicles; stamps that leave the range of int; stamps that also
\* wrap a uint32_t; steps of no time; a divisor of zero; responses longer than
\* the server's buffer.
CommandLines ==
  {Args(0, 1, 0, 2), Args(2, 1, 1, 2), Args(1, 2, 5, 2), Args(0, 1, 3, 3),
   Args(0, 1, 2, 1), Args(14, 1, 3, 2), Args(15, 17, 2, 2), Args(1, 0, 4, 2),
   [Args(0, 1, 3, 2) EXCEPT !.positionDeltaX = 0],
   [Args(0, 1, 3, 2) EXCEPT !.pieces = 2, !.positionDeltaX = 1]}

\* The times that a stamp stands for.
SmallStamps == -1..75
=============================================================================
