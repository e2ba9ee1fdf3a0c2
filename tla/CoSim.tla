-------------------------------- MODULE CoSim --------------------------------
(***************************************************************************)
(* The co-simulation of the two example programs: simple-gateway.cc, which *)
(* is the gateway of module Gateway with vehicles that move and broadcast, *)
(* and simple-gateway-server.cc, which leads it.  The user may start the   *)
(* two in either order, although README.md tells to start the server first. *)
(*                                                                         *)
(* Only the x-coordinates move.  The packets of a vehicle's                *)
(* TriggeredSendApplication follow from what module TriggeredSend shows:   *)
(* one at once, or at the end of the interval after the last one, and the  *)
(* others at the interval, which is the unit of time here.                 *)
(***************************************************************************)
EXTENDS Gateway, ExternalMobility

CONSTANTS
  N,               \* numberOfNodes of the gateway's program
  ServerArgs,      \* the command lines of the server
  Second,          \* packet intervals in a second
  BroadcastEvery,  \* steps between two rounds of broadcasts
  PacketsPerSend,  \* packets in a broadcast
  BusDelay,        \* external: from a packet's sending to its receipt
  Uint16,          \* bound: the number of values of a uint16_t
  Uint32           \* bound: the number of values of a uint32_t

Vehicles == 1..N

ASSUME SizesAssumption ==
  /\ N \in Nat \ {0}
  /\ {Second, BroadcastEvery, PacketsPerSend, BusDelay, Uint16, Uint32}
       \subseteq Nat \ {0}

\* The options of the server, and how many pieces its system delivers a response in.
CommandLine ==
  LET uint16 == 0..(Uint16 - 1)
      uint32 == 0..(Uint32 - 1) IN
  [timeStart : uint32, timeDelta : uint32, iterations : uint32,
   numberOfNodes : uint16, positionDeltaX : uint16, pieces : Nat \ {0}]

ASSUME ArgsAssumption == ServerArgs \subseteq CommandLine
\* The server's messages, and what the gateway's program does: Connect before Run, and
\* a response to every message (simple-gateway.cc:244 and 100-148).
ASSUME StampsAssumption ==
  {-1} \cup {k * Second : k \in 0..(Uint32 \div 2 - 1)} \subseteq Stamps
ASSUME MainAssumption == Programs = {<<Entry(0, "Connect", NoMessage)>>}
ASSUME ResponsesAssumption == Replies = {TRUE}
\* The packets of a broadcast have all arrived before the next second.
ASSUME BusAssumption == PacketsPerSend - 1 + BusDelay < Second

VARIABLES
  \* the gateway's program
  mobility,   \* each vehicle's ExternalMobilityModel
  count,      \* m_count: the packets each vehicle has received
  bus,        \* the receipts to come: the time and the receiving vehicle
  \* the server's program
  args,       \* its command line, and the pieces it receives a response in
  pc,         \* where it is
  step,       \* i, its loop variable
  world,      \* xPosition, xVelocity and broadcast of each vehicle
  answered,   \* the number of pieces of responses it has received
  \* the messages
  orders,     \* the values in each message sent, by message number
  replies     \* the values in each response sent

vehicles == <<mobility, count, bus>>
program  == <<args, pc, step, world, answered, orders>>

coVars == <<vars, vehicles, program, replies>>

-----------------------------------------------------------------------------
(* The server's start.                                                     *)

\* The socket is bound and listens.
Listen ==
  /\ pc = "start"
  /\ pc' = "accept"
  /\ UNCHANGED <<vars, vehicles, replies, args, step, world, answered, orders>>

\* The socket cannot be had, or its port is taken: a fatal error.
ListenFails ==
  /\ pc = "start"
  /\ pc' = "done"
  /\ UNCHANGED <<vars, vehicles, replies, args, step, world, answered, orders>>

\* A gateway that connects now is not refused.
Listening == pc \notin {"start", "done"}

\* accept returns the connection of the gateway, which may be gone already.
Accept ==
  /\ pc = "accept" /\ conn # "none"
  /\ pc' = IF args.iterations = 0 THEN "close" ELSE "send"
  /\ UNCHANGED <<vars, vehicles, replies, args, step, world, answered, orders>>

-----------------------------------------------------------------------------
(* The server's loop.                                                      *)

\* The header of step k: the time is a uint32_t, and the gateway's stoi refuses
\* what does not fit an int.
Stamp(k) ==
  LET timeNow == (args.timeStart + args.timeDelta * k) % Uint32 IN
  IF timeNow < Uint32 \div 2 THEN timeNow * Second ELSE BadHeader

\* What the server's vehicles do at first.
Standing == [position |-> 0, velocity |-> 0, broadcast |-> FALSE]

\* The steps that choose the broadcasts of the next step.
ChoosesBroadcasts(k) == k % BroadcastEvery = 0

\* std::rand() % positionDeltaX + 1.
Speeds == 1..args.positionDeltaX

\* The vehicles of the next step, with any speed and perhaps a broadcast each.
Moved ==
  {[n \in DOMAIN world |->
      [position  |-> (world[n].position + speed[n]) % Uint16,
       velocity  |-> speed[n],
       broadcast |-> send[n]]] :
     speed \in [DOMAIN world -> Speeds],
     send \in [DOMAIN world -> {FALSE, ChoosesBroadcasts(step)}]}

\* The next message is sent.
SendStep ==
  /\ pc = "send"
  /\ ServerSend(Stamp(step))
  /\ orders' = Append(orders, world)
  /\ pc' = "recv"
  /\ UNCHANGED <<args, step, world, answered, vehicles, replies>>

\* The pieces of responses that have arrived and were not received.
Unread == args.pieces * Len(replies) - answered

\* MUTATION: the server does not wait for the response.
NoAnswerNeeded == pc = "recv" /\ answered' = answered + 1

\* recv returns what has arrived of the responses, or a part of it, and the server
\* takes it for the response.
Answer ==
  /\ pc = "recv"
  /\ \E k \in 1..Unread : answered' = answered + k

\* A response came; the vehicles move on.
NextStep ==
  /\ Answer
  /\ step < args.iterations - 1
  /\ args.numberOfNodes > 0 => args.positionDeltaX > 0
  /\ step' = step + 1
  /\ world' \in Moved
  /\ pc' = "send"
  /\ UNCHANGED <<vars, vehicles, replies, args, orders>>

\* std::rand() % 0: the process ends and the system closes its connection.
DividesByZero ==
  /\ Answer
  /\ step < args.iterations - 1
  /\ args.numberOfNodes > 0 /\ args.positionDeltaX = 0
  /\ pc' = "close"
  /\ UNCHANGED <<vars, vehicles, replies, args, step, world, orders>>

\* The last response came.
LastStep ==
  /\ Answer
  /\ step = args.iterations - 1
  /\ pc' = "terminate"
  /\ UNCHANGED <<vars, vehicles, replies, args, step, world, orders>>

\* The message that ends the simulation.
SendTerminate ==
  /\ pc = "terminate"
  /\ ServerSend(-1)
  /\ orders' = Append(orders, <<>>)
  /\ pc' = "close"
  /\ UNCHANGED <<args, step, world, answered, vehicles, replies>>

\* recv or send finds that the gateway is gone: a warning or a fatal error, and
\* either way the end of the loop.
GatewayGone ==
  /\ pc \in {"send", "recv", "terminate"}
  /\ Ended
  /\ pc = "recv" => Unread = 0
  /\ pc' = "close"
  /\ UNCHANGED <<vars, vehicles, replies, args, step, world, answered, orders>>

\* The connection is closed.  A gateway that is no more does not notice.
Closed == IF Ended THEN UNCHANGED vars ELSE ServerClose

\* The server's program ends.
CloseSockets ==
  /\ pc = "close"
  /\ Closed
  /\ pc' = "done"
  /\ UNCHANGED <<vehicles, replies, args, step, world, answered, orders>>

TheServer ==
  \/ Listen \/ ListenFails \/ Accept
  \/ SendStep \/ NextStep \/ DividesByZero \/ LastStep \/ SendTerminate
  \/ GatewayGone \/ CloseSockets

-----------------------------------------------------------------------------
(* The gateway's program.                                                  *)

\* MUTATION: the velocity is set before the position.
VelocityFirst(m, order) ==
  SetPosition(SetVelocity(m, order.velocity), order.position)

\* A vehicle is moved: the position is set before the velocity.
MovedBy(m, order) ==
  SetVelocity(SetPosition(m, order.position), order.velocity)

\* Who receives the packets of vehicle n.
Receivers(n) == Vehicles \ {n}

\* MUTATION: a broadcast has a packet too many.
OnePacketMore == 0..PacketsPerSend

\* The packets of a broadcast.
Packets == 0..(PacketsPerSend - 1)

\* When the first packet of a request at time ts is sent: a packet that is due at
\* this very time was sent for the request before, unless that was made at this time
\* too and neither has taken effect yet.
FirstPacket(n, ts) ==
  IF \E r \in bus : r.from = n /\ r.at = ts + BusDelay THEN {ts, ts + 1} ELSE {ts}

\* The receipts to come once the vehicles in DOMAIN first were asked at time ts to send,
\* the first packets at first: the new packets replace those not yet sent.
AfterSend(first, ts) ==
  LET new == {[at |-> first[n] + k + BusDelay, to |-> m, from |-> n] :
                n \in DOMAIN first, k \in Packets, m \in Vehicles} IN
  {r \in bus : r.from \in DOMAIN first => r.at <= ts + BusDelay}
    \cup {r \in new : r.to \in Receivers(r.from)}

\* The message has values for every vehicle.
DataFits(m) == N <= Len(orders[m])

\* DoUpdate, with its response, for the message m at time ts.
DoUpdate(m, ts) ==
  LET order == orders[m] IN
  /\ DataFits(m)
  /\ mobility' = [n \in Vehicles |-> MovedBy(mobility[n], order[n])]
  /\ \E first \in [{n \in Vehicles : order[n].broadcast} -> {ts, ts + 1}] :
       /\ \A n \in DOMAIN first : first[n] \in FirstPacket(n, ts)
       /\ bus' = AfterSend(first, ts)
  /\ replies' = IF responses' > responses THEN Append(replies, count) ELSE replies
  /\ UNCHANGED count

\* "received data has insufficient size".
DoUpdateFails(e) ==
  /\ Runs(e, "DoInitialize") \/ Runs(e, "HandleUpdate")
  /\ ~DataFits(e.msg)
  /\ Abort("insufficient data")
  /\ UNCHANGED <<vehicles, replies>>

\* Nothing that happens on the bus is earlier than ts.
BusWaits(ts) == \A r \in bus : ts <= r.at

\* MUTATION: the count is never wrapped.
NotWrapped(c) == c + 1

\* A uint16_t is incremented.
OneMore(c) == (c + 1) % Uint16

\* HandleReceive: a vehicle gets a packet.
HandleReceive(r) ==
  /\ main = "run" /\ fault = "none" /\ ~stopped
  /\ BusWaits(r.at) /\ \A e \in events : r.at <= e.ts
  /\ bus' = bus \ {r}
  /\ count' = [count EXCEPT ![r.to] = OneMore(@)]
  /\ Return(r.at, events, <<>>)
  /\ UNCHANGED <<stopped, main, fault, state, times, waiting, received, socket,
                 server, responses, history, mobility, replies>>

\* The gateway's events that leave the vehicles alone.
OtherEvent(e) ==
  /\ \/ (Listening /\ Connect(e)) \/ (~Listening /\ ConnectFails(e))
     \/ WaitForNextUpdate(e)
     \/ ForwardUpFails(e) \/ ForwardTerminate(e) \/ ForwardFirst(e)
     \/ ForwardUpdate(e) \/ CallbackFails(e) \/ StopBegin(e)
  /\ UNCHANGED <<vehicles, replies>>

TheGateway ==
  /\ \/ \E e \in events :
          /\ BusWaits(e.ts)
          /\ \/ OtherEvent(e)
             \/ DoInitialize(e) /\ DoUpdate(e.msg, e.ts)
             \/ HandleUpdate(e) /\ DoUpdate(e.msg, e.ts)
             \/ DoUpdateFails(e)
     \/ \E r \in bus : HandleReceive(r)
     \/ /\ StopEnd \/ Destroy \/ (RunReturns /\ (stopped \/ bus = {}))
        /\ UNCHANGED <<vehicles, replies>>
  /\ UNCHANGED program

\* A connection that is closed before all of its bytes were received is reset.
ConnectionReset == pc = "done" /\ Unread > 0 /\ ThreadRecvFails

TheThread ==
  /\ Thread \/ ConnectionReset
  /\ UNCHANGED <<vehicles, replies, program>>

-----------------------------------------------------------------------------
\* The vehicles as the main function makes them: all at x = 0.
NewVehicles == [n \in Vehicles |-> Created]

CoInit ==
  /\ Init
  /\ mobility = NewVehicles
  /\ count = [n \in Vehicles |-> 0]
  /\ bus = {}
  /\ args \in ServerArgs
  /\ pc = "start"
  /\ step = 0
  /\ world = [n \in 1..args.numberOfNodes |-> Standing]
  /\ answered = 0
  /\ orders = <<>> /\ replies = <<>>

\* Both programs have ended, or the server waits for a gateway that was refused.
CoTerminating ==
  /\ Ended
  /\ pc = "done" \/ (pc = "accept" /\ conn = "none")
  /\ UNCHANGED coVars

CoNext == TheServer \/ TheGateway \/ TheThread \/ CoTerminating

CoSpec == CoInit /\ [][CoNext]_coVars

\* The operating system runs the two threads of the gateway and the server.
CoFairSpec ==
  CoSpec /\ WF_coVars(TheGateway) /\ WF_coVars(TheThread) /\ WF_coVars(TheServer)

-----------------------------------------------------------------------------
(* Properties.                                                             *)

\* The types of the variables that this module adds (simple-gateway.cc:88-89,
\* simple-gateway-server.cc:53-58 and 125-127).
CoTypeOK ==
  LET Values == 0..(Uint16 - 1) IN
  /\ \A n \in Vehicles :
       /\ mobility[n].position \in Values
       /\ mobility[n].velocity \in 0..args.positionDeltaX
       /\ count[n] \in Values
  /\ bus \subseteq [at : Nat, to : Vehicles, from : Vehicles]
  /\ args \in ServerArgs
  /\ pc \in {"start", "accept", "send", "recv", "terminate", "close", "done"}
  /\ step \in Nat /\ step <= args.iterations
  /\ world \in [1..args.numberOfNodes ->
                  [position : Values, velocity : 0..args.positionDeltaX,
                   broadcast : BOOLEAN]]
  /\ answered \in Nat /\ Unread >= 0
  /\ Len(orders) = Len(sent) /\ Len(replies) = responses
  /\ replies \in Seq([Vehicles -> Values])

\* The command lines that the two programs can work with: the last stamp is an int,
\* there are values for every vehicle and a response fits the server's buffer.
Fits ==
  /\ args.numberOfNodes >= N
  /\ args.pieces = 1
  /\ args.iterations > 0 =>
       args.timeStart + args.timeDelta * (args.iterations - 1) < Uint32 \div 2

\* The gateway's program found no server.
Refused == fault = "cannot connect"

\* Nothing goes wrong in the co-simulation of the two programs once they are
\* connected, as long as the stamps fit and there are enough nodes: no stamp comes
\* late, no response is sent to a server that is gone or from a gateway that stops,
\* whatever the threads and the connection do (simple-gateway-server.cc:129-189
\* against gateway.cc:149, 166, 319 and 355).
WellRun == Fits /\ ~Refused => fault = "none"

\* Lock step: when the server makes up the next step, the gateway has taken in
\* every message and its vehicles are where the server put them, and the clock
\* stands at the time the server last sent, counted from its first
\* (simple-gateway-server.cc:151-170, README.md:73-77).
InStep ==
  pc \in {"send", "terminate"} /\ Len(orders) > 0 /\ fault = "none" /\ args.pieces = 1 =>
    /\ Len(delivered) = Len(sent) /\ InTransit = <<>>
    /\ now = sent[Len(sent)] - sent[1]
    /\ \A n \in Vehicles :
         /\ mobility[n].position = orders[Len(orders)][n].position
         /\ mobility[n].velocity = orders[Len(orders)][n].velocity

\* Each response reports, for each vehicle, the packets of all broadcasts that the
\* messages before ordered from other vehicles, modulo the range of uint16_t:
\* those of its own message are not counted yet and none before are missing; in
\* steps of no time nothing can arrive (simple-gateway.cc:100-148).
CountsReported ==
  \A k \in DOMAIN replies, n \in Vehicles :
    replies[k][n] =
      IF args.timeDelta = 0 THEN 0 ELSE
      (PacketsPerSend * Cardinality({b \in (1..(k - 1)) \X (Vehicles \ {n}) :
                                       orders[b[1]][b[2]].broadcast})) % Uint16

\* The values that the update i set for vehicle n.
Given(i, n) == orders[delivered[i].msg][n]

\* The updates that changed the velocity of vehicle n.
Changed(n) ==
  {i \in DOMAIN delivered :
     Given(i, n).velocity # (IF i = 1 THEN 0 ELSE Given(i - 1, n).velocity)}

\* The CourseChange callback is called once for each update that changes the
\* velocity, and sees the position and the velocity of that update
\* (external-mobility-model.h: "at most one CourseChange callback, during which both
\* position and velocity will have consistent values").
CourseSeen ==
  \A n \in Vehicles :
    LET seen == mobility[n].seen IN
    /\ seen.calls = Cardinality(Changed(n))
    /\ Changed(n) # {} =>
         \E i \in Changed(n) :
           /\ \A k \in Changed(n) : k <= i
           /\ seen.position = Given(i, n).position
           /\ seen.velocity = Given(i, n).velocity

\* Both programs come to their end, with every command line, unless the server was
\* started too late: it asks for the end and closes the connection, even when it
\* takes parts of responses for whole ones or divides by zero, and Run and Destroy
\* return (simple-gateway-server.cc:113-190, simple-gateway.cc:244-247).
BothEnd == <>(Ended /\ (pc = "done" \/ Refused))
=============================================================================
