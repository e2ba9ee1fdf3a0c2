------------------------------ MODULE CoSimProofs ------------------------------
(***************************************************************************)
(* Proofs about CoSim: the two example programs together.                  *)
(*                                                                         *)
(* A step of the composition is a step of Gateway, or the receipt of a     *)
(* packet, so what DeliveryProofs shows of every server holds here too.    *)
(* What the two programs rely on, that they move in lock step, is an       *)
(* invariant over the server's program counter.                            *)
(***************************************************************************)
EXTENDS CoSim, DeliveryProofs

\* The gateway's part behaves as a gateway until the subclass lacks data.
Insufficient == fault = "insufficient data"
GatewayInv == ~Insufficient => EveryInv /\ TimingInv

\* What is on the bus is still to come.
Receipts == [at : Nat, to : Vehicles, from : Vehicles]
BusInv == bus \subseteq Receipts /\ \A r \in bus : r.at >= now

\* The server's command line and its loop variable.
LoopTypes == args \in ServerArgs /\ step \in Nat

\* The values of a vehicle, what the server makes of them and what the gateway has.
Values == 0..(Uint16 - 1)
Speed == 0..args.positionDeltaX
Worlds == [1..args.numberOfNodes ->
             [position : Values, velocity : Speed, broadcast : BOOLEAN]]
Models == [position : Values, velocity : Speed,
           seen : [position : Values, velocity : Speed, calls : Nat]]

\* The server's program.
Places == {"start", "accept", "send", "recv", "terminate", "close", "done"}
ServerTypes ==
  /\ pc \in Places /\ step <= args.iterations
  /\ world \in Worlds /\ answered \in Nat

\* Each message has its values, but for the one that terminates.
MessageTypes ==
  /\ sent \in Seq(Headers) /\ orders \in Seq(Worlds \cup {<<>>})
  /\ Len(orders) = Len(sent)
  /\ \A m \in DOMAIN sent : sent[m] # -1 => orders[m] \in Worlds
  /\ responses \in Nat /\ replies \in Seq([Vehicles -> Values])
  /\ Len(replies) = responses /\ Unread >= 0

\* The gateway's program.
VehicleTypes == mobility \in [Vehicles -> Models] /\ count \in [Vehicles -> Values]

CoTypes == LoopTypes /\ ServerTypes /\ MessageTypes /\ VehicleTypes

\* Where the server is determines what it has sent.
InLoop == pc \in {"send", "recv", "terminate"}
AtEnd == pc \in {"close", "done"}
SentInv ==
  \A m \in DOMAIN sent : \/ sent[m] = Stamp(m - 1) /\ m <= args.iterations
                         \/ sent[m] = -1 /\ m = Len(sent) /\ AtEnd
StepInv ==
  /\ pc \in {"start", "accept"} => step = 0
  /\ InLoop => step < args.iterations
  /\ pc \in {"start", "accept", "send"} => Len(sent) = step
  /\ pc \in {"recv", "terminate"} => Len(sent) = step + 1

\* The connection ends when the server's program does, or with the simulation.
ConnectionInv ==
  /\ conn = "none" <=> state = "CREATED"
  /\ InLoop => conn # "none"
  /\ conn = "closed" => pc = "done"
  /\ thread = "hangup" => pc = "done"
  /\ thread \in {"exited", "joined"} /\ state = "CONNECTED" => pc = "done"
  /\ state = "STOPPING" => pc = "done" \/ main \in {"destroying", "done"}
  /\ stopped => AtEnd
  /\ main \in {"destroy", "destroying", "done"} => AtEnd \/ conn = "none"

\* There is one call of Connect.
ConnectOnce ==
  /\ \A e, f \in events : e.fn = "Connect" /\ f.fn = "Connect" => e = f
  /\ \A e \in events : e.fn = "Connect" => state = "CREATED"

ProgramInv == SentInv /\ StepInv /\ ConnectionInv /\ ConnectOnce

\* The server receives each response as a whole.
Whole == args.pieces = 1

\* It waits for one response at most.
AnswerInv ==
  /\ ~AtEnd => Len(sent) = IF pc = "recv" THEN answered + 1 ELSE answered
  /\ AtEnd => \/ Len(sent) = answered
              \/ Len(sent) = answered + 1 /\ (sent[Len(sent)] = -1 \/ Ended)

\* Each callback ran in its turn, was answered, and left the vehicles where its message
\* put them.
TurnInv ==
  /\ Len(replies) = Len(delivered) /\ Len(delivered) <= Len(sent)
  /\ \A i \in DOMAIN delivered :
       /\ delivered[i].msg = i /\ delivered[i].at = sent[i] - sent[1]
       /\ delivered[i].at <= now
  /\ \A n \in Vehicles :
       IF delivered = <<>> THEN mobility[n].velocity = 0
       ELSE /\ mobility[n].position = orders[Len(delivered)][n].position
            /\ mobility[n].velocity = orders[Len(delivered)][n].velocity

LockInv == Whole => AnswerInv /\ TurnInv

-----------------------------------------------------------------------------
(* The steps of the composition.                                           *)

LEMMA LoopNext == LoopTypes /\ [CoNext]_coVars => LoopTypes'
<1> SUFFICES ASSUME LoopTypes, [CoNext]_coVars PROVE LoopTypes'
  OBVIOUS
<1>1. UNCHANGED args /\ step' \in {step, step + 1}
  BY DEF CoNext, TheServer, Listen, ListenFails, Accept, SendStep, NextStep, DividesByZero,
         LastStep, SendTerminate, GatewayGone, CloseSockets, TheGateway, TheThread,
         CoTerminating, coVars, program
<1> QED
  BY <1>1 DEF LoopTypes

\* Once the process has failed nothing but the server moves.
LEMMA FaultStays ==
  ASSUME fault # "none", [CoNext]_coVars
  PROVE  UNCHANGED vars
<1>1. Ended
  BY DEF Ended
<1>2. ASSUME TheServer PROVE UNCHANGED vars
  BY <1>1, <1>2 DEF TheServer, Listen, ListenFails, Accept, SendStep, NextStep,
     DividesByZero, LastStep, SendTerminate, GatewayGone, CloseSockets, Closed, ServerSend
<1>3. ~TheGateway
  BY DEF TheGateway, OtherEvent, Connect, ConnectFails, WaitForNextUpdate, ForwardUpFails,
         ForwardTerminate, ForwardFirst, ForwardUpdate, CallbackFails, StopBegin,
         DoInitialize, HandleUpdate, DoUpdateFails, Runs, HandleReceive, StopEnd, Destroy,
         RunReturns
<1>4. ~TheThread
  BY DEF TheThread, ConnectionReset, Thread, ThreadCheck, ThreadRecv, ThreadHangup,
         ThreadRecvFails, ThreadPush, ThreadForward, ThreadScheduleStop, At
<1> QED
  BY <1>2, <1>3, <1>4 DEF CoNext, CoTerminating, coVars

\* The header of a step is one the gateway may get.
LEMMA StampType ==
  ASSUME LoopTypes, NEW k \in Nat
  PROVE  /\ Stamp(k) \in Headers
         /\ Stamp(k) # BadHeader => Stamp(k) \in Nat
<1> DEFINE t == (args.timeStart + args.timeDelta * k) % Uint32
<1>1. /\ args.timeStart \in Nat /\ args.timeDelta \in Nat
      /\ Uint32 \in Nat \ {0} /\ Second \in Nat
  BY ArgsAssumption, SizesAssumption DEF LoopTypes, CommandLine
<1>2. args.timeDelta * k \in Nat
  BY <1>1
<1>3. args.timeStart + args.timeDelta * k \in Nat
  BY <1>1, <1>2
<1>4. t \in Nat
  BY <1>1, <1>3
<1>5. Stamp(k) = IF t < Uint32 \div 2 THEN t * Second ELSE BadHeader
  BY DEF Stamp
<1> HIDE DEF t
<1>6. CASE t < Uint32 \div 2
  <2>1. Uint32 \div 2 \in Nat
    BY <1>1
  <2>2. t \in 0..(Uint32 \div 2 - 1)
    BY <1>4, <1>6, <2>1
  <2>3. t * Second \in Stamps
    BY <2>2, StampsAssumption
  <2>4. t * Second \in Nat
    BY <1>1, <1>4
  <2> QED
    BY <1>5, <1>6, <2>3, <2>4 DEF Headers
<1>7. CASE ~(t < Uint32 \div 2)
  BY <1>5, <1>7 DEF Headers
<1> QED
  BY <1>6, <1>7

\* Every step is the gateway's, a receipt or the failure of the subclass.
LEMMA StepOfGateway ==
  ASSUME LoopTypes, [CoNext]_coVars
  PROVE  \/ [Next]_vars
         \/ \E r \in bus : HandleReceive(r)
         \/ \E e \in events : DoUpdateFails(e)
<1>1. CASE TheServer
  <2>1. CASE SendStep
    <3>1. Stamp(step) \in Headers /\ ServerSend(Stamp(step))
      BY <2>1, StampType DEF SendStep, LoopTypes
    <3> QED
      BY <3>1 DEF Next, Server
  <2>2. CASE SendTerminate
    <3>1. -1 \in Headers /\ ServerSend(-1)
      BY <2>2, StampsAssumption DEF SendTerminate, Headers
    <3> QED
      BY <3>1 DEF Next, Server
  <2>3. CASE CloseSockets
    BY <2>3 DEF CloseSockets, Closed, Next, Server
  <2>4. CASE ~(SendStep \/ SendTerminate \/ CloseSockets)
    BY <1>1, <2>4 DEF TheServer, Listen, ListenFails, Accept, NextStep, DividesByZero,
                      LastStep, GatewayGone
  <2> QED
    BY <2>1, <2>2, <2>3, <2>4
<1>2. CASE TheGateway
  BY <1>2 DEF TheGateway, OtherEvent, Next, Main
<1>3. CASE TheThread
  BY <1>3 DEF TheThread, ConnectionReset, Next
<1>4. CASE CoTerminating \/ UNCHANGED coVars
  BY <1>4 DEF CoTerminating, coVars
<1> QED
  BY <1>1, <1>2, <1>3, <1>4 DEF CoNext

-----------------------------------------------------------------------------
(* The receipt of a packet.                                                *)

\* A receipt is at a time that the clock may reach, and before every event.
LEMMA ReceiptTime ==
  ASSUME IInv, BusInv, NEW r \in bus, HandleReceive(r)
  PROVE  /\ r \in Receipts /\ r.at \in Nat /\ r.at >= now
         /\ \A e \in events : EventOK(e, r.at)
         /\ state = "CONNECTED" => r.at <= Granted
<1>1. r \in Receipts /\ r.at \in Nat /\ r.at >= now
  BY DEF BusInv, Receipts
<1>2. main = "run" /\ \A e \in events : r.at <= e.ts
  BY DEF HandleReceive
<1>3. /\ now \in Nat /\ timePause \in Int /\ connectedAt \in Int
      /\ \A e \in events : EventOK(e, now) /\ e.ts \in Nat
  BY DEF IInv, TypeOK, HeldInv, EventsOK, Events
<1>4. ASSUME NEW e \in events
      PROVE  EventOK(e, r.at)
  <2>1. e.ts >= r.at /\ (e.fn \in CallbackFns => e.msg \in Messages)
    BY <1>1, <1>2, <1>3 DEF EventOK
  <2>2. e.fn \in CurrentFns => e.ts = r.at
    <3>1. e.fn \in CurrentFns => e.ts = now
      BY <1>3 DEF EventOK
    <3> QED
      BY <1>1, <1>3, <2>1, <3>1
  <2> QED
    BY <2>1, <2>2 DEF EventOK
<1>5. ASSUME state = "CONNECTED"
      PROVE  r.at <= Granted
  <2>1. now <= Granted
    BY <1>5 DEF IInv, HeldInv, TimeGranted
  <2>2. PICK f \in events :
          f.fn = "WaitForNextUpdate" \/ (f.fn = "HandleUpdate" /\ f.ts = timePause)
    BY <1>2, <1>5 DEF IInv, HeldInv, ClockHeld
  <2>3. r.at <= f.ts /\ (f.ts = now \/ f.ts = timePause)
    BY <1>2, <1>3, <2>2 DEF EventOK, CurrentFns, GatewayFns
  <2> QED
    BY <1>1, <1>3, <2>1, <2>3 DEF Granted
<1> QED
  BY <1>1, <1>4, <1>5

LEMMA ReceiptEvents ==
  ASSUME IInv, BusInv, NEW r \in bus, HandleReceive(r)
  PROVE  IInv'
<1>1. /\ main = "run"
      /\ Return(r.at, events, <<>>)
      /\ UNCHANGED <<stopped, main, fault, state, times, waiting, received, socket,
                     server, responses, history>>
  BY DEF HandleReceive
<1>2. /\ r.at \in Nat /\ r.at >= now
      /\ \A f \in events : EventOK(f, r.at)
  BY ReceiptTime
<1>3. /\ now' = r.at
      /\ events' \in SUBSET Events(Fns, Args)
      /\ Numbered(events')
      /\ withContext' = <<>>
      /\ \A f \in events' : EventOK(f, r.at)
      /\ events \subseteq events'
      /\ withContext = <<>> => events' \subseteq events
  BY <1>1, <1>2, ReturnNothing
<1>4. TypeOK'
  <2>1. events' \in SUBSET Events(UserFns \cup GatewayFns, {NoMessage} \cup Messages)
    BY <1>3 DEF Fns, Args
  <2>2. withContext' \in Seq({"ForwardUp", "Stop"}) /\ now' \in Nat
    BY <1>2, <1>3
  <2> QED
    BY <1>1, <2>1, <2>2
    DEF IInv, TypeOK, times, waiting, received, server, history
<1>5. EventsOK'
  BY <1>3 DEF EventsOK
<1>6. MessagesSent' /\ NothingBeforeConnect' /\ StopSetsState' /\ ClockHeld'
  BY <1>1, <1>3
  DEF IInv, HeldInv, MessagesSent, NothingBeforeConnect, StopSetsState, ClockHeld,
      times, waiting, received, server
<1>7. TimeGranted'
  BY <1>1, <1>3, ReceiptTime DEF TimeGranted, Granted, times, history
<1> QED
  BY <1>3, <1>4, <1>5, <1>6, <1>7 DEF IInv, HeldInv

LEMMA ReceiptStep ==
  ASSUME EveryInv, TimingInv, BusInv, NEW r \in bus, HandleReceive(r)
  PROVE  EveryInv' /\ TimingInv'
<1>1. /\ main = "run" /\ Return(r.at, events, <<>>)
      /\ UNCHANGED <<stopped, main, state, timeStart, timePause, eventWait, messageQueue,
                     messageBuffer, thread, stream, sent, connectedAt, delivered>>
  BY DEF HandleReceive, times, waiting, received, server, history
<1>2. IInv /\ r.at \in Nat
  BY ReceiptTime DEF EveryInv
<1>3. IInv'
  BY <1>2, ReceiptEvents
<1>4. QueueInv'
  <2>1. events \subseteq events'
    BY <1>1, <1>2, GainsNothing
  <2>2. WaitOK'
    BY <1>1, <2>1 DEF EveryInv, QueueInv, WaitOK
  <2>3. Calls(events, "ForwardUp") = ForwardsPending
    BY DEF Calls, ForwardsPending
  <2>4. QueueInv
    BY DEF EveryInv
  <2>5. Countable(events') /\ QueueMatchesForwards'
    BY <1>1, <1>2, <2>3, <2>4, NoEntry, OtherReturns
  <2> QED
    BY <2>2, <2>5 DEF QueueInv
<1>5. DeliveryInv'
  BY <1>1, <1>2, ReturnsNothing DEF EveryInv
<1>6. StopInv'
  BY <1>1, <1>2, StopReturnsNothing DEF EveryInv
<1>7. TimingInv'
  <2>1. \A f \in events' : f \in events \/ f.fn \in LastCalls
    BY <1>1, <1>2, GainsNothing
  <2>2. Seen' = Seen
    BY <1>1, OrderKept DEF EveryInv, DeliveryInv
  <2>3. StampInv'
    BY <1>1, <2>2, StampKept
  <2>4. ConnectInv'
    <3>1. \A f \in events' : f.fn = "Connect" => f \in events
      BY <2>1 DEF LastCalls
    <3> QED
      BY <1>1, <3>1 DEF TimingInv, ConnectInv
  <2>5. \A f \in events' : OnTime(f)
    <3>1. \A f : f.fn \in LastCalls => OnTime(f)
      BY DEF OnTime, LastCalls
    <3> QED
      BY <2>1, <3>1 DEF TimingInv, EventsOnTime
  <2>6. EventsOnTime'
    BY <1>1, <2>5 DEF EventsOnTime, OnTime
  <2> QED
    BY <2>3, <2>4, <2>6 DEF TimingInv
<1> QED
  BY <1>3, <1>4, <1>5, <1>6, <1>7 DEF EveryInv

-----------------------------------------------------------------------------
(* The types.                                                              *)

\* The vehicles of the next step.
LEMMA MovedType ==
  ASSUME LoopTypes, world \in Worlds, NEW w \in Moved
  PROVE  w \in Worlds
<1>1. Uint16 \in Nat \ {0} /\ args.positionDeltaX \in Nat
  BY ArgsAssumption, SizesAssumption DEF LoopTypes, CommandLine
<1>2. DOMAIN world = 1..args.numberOfNodes
  BY DEF Worlds
<1> DEFINE D == DOMAIN world
           Sends == {FALSE, ChoosesBroadcasts(step)}
           next(speed, send) ==
             [n \in D |-> [position  |-> (world[n].position + speed[n]) % Uint16,
                           velocity  |-> speed[n],
                           broadcast |-> send[n]]]
<1>3. PICK speed \in [D -> Speeds], send \in [D -> Sends] : w = next(speed, send)
  <2>1. Moved = {next(speed, send) : speed \in [D -> Speeds], send \in [D -> Sends]}
    BY DEF Moved
  <2> HIDE DEF next, D, Sends
  <2> QED
    BY <2>1
<1>4. ASSUME NEW n \in DOMAIN world
      PROVE  /\ (world[n].position + speed[n]) % Uint16 \in Values
             /\ speed[n] \in Speed /\ send[n] \in BOOLEAN
  <2>1. world[n].position \in Nat
    BY <1>2, <1>4 DEF Worlds, Values
  <2>2. speed[n] \in Nat /\ speed[n] \in Speed
    BY <1>1, <1>3, <1>4 DEF Speeds, Speed
  <2>3. world[n].position + speed[n] \in Nat
    BY <2>1, <2>2
  <2>4. (world[n].position + speed[n]) % Uint16 \in 0..(Uint16 - 1)
    BY <1>1, <2>3
  <2>5. send[n] \in BOOLEAN
    BY <1>3, <1>4 DEF ChoosesBroadcasts
  <2> QED
    BY <2>2, <2>4, <2>5 DEF Values
<1> QED
  BY <1>2, <1>3, <1>4 DEF Worlds

LEMMA ServerTypesNext ==
  ASSUME LoopTypes, ServerTypes, [CoNext]_coVars
  PROVE  ServerTypes' /\ Worlds' = Worlds /\ Models' = Models
<1>1. args' = args
  BY DEF CoNext, TheServer, Listen, ListenFails, Accept, SendStep, NextStep, DividesByZero,
         LastStep, SendTerminate, GatewayGone, CloseSockets, TheGateway, TheThread,
         CoTerminating, coVars, program
<1>2. Worlds' = Worlds /\ Models' = Models
  BY <1>1 DEF Worlds, Models, Speed
<1>3. step' = step \/ (step < args.iterations - 1 /\ step' = step + 1)
  BY DEF CoNext, TheServer, Listen, ListenFails, Accept, SendStep, NextStep, DividesByZero,
         LastStep, SendTerminate, GatewayGone, CloseSockets, TheGateway, TheThread,
         CoTerminating, coVars, program
<1>9. pc' \in Places
  <2>1. pc' = pc \/ TheServer
    BY DEF CoNext, TheGateway, TheThread, CoTerminating, coVars, program
  <2>2. ASSUME TheServer PROVE pc' \in Places
    BY <2>2 DEF TheServer, Listen, ListenFails, Accept, SendStep, NextStep, DividesByZero,
       LastStep, SendTerminate, GatewayGone, CloseSockets, Places
  <2> QED
    BY <2>1, <2>2 DEF ServerTypes
<1>4. world' = world \/ world' \in Moved
  BY DEF CoNext, TheServer, Listen, ListenFails, Accept, SendStep, NextStep, DividesByZero,
         LastStep, SendTerminate, GatewayGone, CloseSockets, TheGateway, TheThread,
         CoTerminating, coVars, program
<1>5. answered' = answered \/ Answer
  BY DEF CoNext, TheServer, Listen, ListenFails, Accept, SendStep, NextStep, DividesByZero,
         LastStep, SendTerminate, GatewayGone, CloseSockets, TheGateway, TheThread,
         CoTerminating, coVars, program
<1>6. answered' \in Nat
  <2>1. ASSUME Answer PROVE answered' \in Nat
    BY <2>1 DEF Answer, ServerTypes
  <2> QED
    BY <1>5, <2>1 DEF ServerTypes
<1>7. step' <= args'.iterations
  <2>1. args.iterations \in Nat /\ step \in Nat
    BY ArgsAssumption DEF LoopTypes, CommandLine
  <2> QED
    BY <1>1, <1>3, <2>1 DEF ServerTypes
<1>8. world' \in Worlds'
  BY <1>2, <1>4, MovedType DEF ServerTypes
<1> QED
  BY <1>2, <1>6, <1>7, <1>8, <1>9 DEF ServerTypes

\* The server sends a header with its values.
LEMMA MessageTypesSend ==
  ASSUME LoopTypes, MessageTypes, NEW h \in Headers, NEW order \in Worlds \cup {<<>>},
         h # -1 => order \in Worlds,
         sent' = Append(sent, h), orders' = Append(orders, order),
         UNCHANGED <<args, answered, responses, replies>>
  PROVE  MessageTypes'
<1> DEFINE S == Len(sent)
<1>1. /\ sent \in Seq(Headers) /\ orders \in Seq(Worlds \cup {<<>>})
      /\ Len(orders) = S /\ S \in Nat /\ DOMAIN sent = 1..S
  BY LenProperties DEF MessageTypes
<1>2. Worlds' = Worlds /\ Unread' = Unread /\ Values' = Values
  BY DEF Worlds, Speed, Unread, Values
<1>3. /\ sent' \in Seq(Headers) /\ Len(sent') = S + 1
      /\ sent'[S + 1] = h /\ \A m \in 1..S : sent'[m] = sent[m]
  BY <1>1, AppendProperties
<1>4. /\ orders' \in Seq(Worlds \cup {<<>>}) /\ Len(orders') = S + 1
      /\ orders'[S + 1] = order /\ \A m \in 1..S : orders'[m] = orders[m]
  BY <1>1, AppendProperties
<1>5. DOMAIN sent' = 1..(S + 1)
  BY <1>3, LenProperties
<1> HIDE DEF S
<1>6. ASSUME NEW m \in DOMAIN sent', sent'[m] # -1
      PROVE  orders'[m] \in Worlds
  <2>1. CASE m = S + 1
    BY <1>3, <1>4, <1>6, <2>1
  <2>2. CASE m # S + 1
    <3>1. m \in 1..S
      BY <1>1, <1>5, <2>2
    <3> QED
      BY <1>1, <1>3, <1>4, <1>6, <3>1 DEF MessageTypes
  <2> QED
    BY <2>1, <2>2
<1> QED
  BY <1>2, <1>3, <1>4, <1>6 DEF MessageTypes

\* The server receives what there is.
LEMMA AnswerTypes ==
  ASSUME CoTypes, Answer, UNCHANGED <<args, replies>>
  PROVE  /\ Unread >= 1 /\ Unread' >= 0 /\ answered' > answered
         /\ args.pieces * Len(replies) \in Nat /\ answered' \in Nat
<1>1. args.pieces \in Nat
  BY ArgsAssumption DEF CoTypes, LoopTypes, CommandLine
<1>2. Len(replies) \in Nat /\ answered \in Nat
  BY LenProperties DEF CoTypes, MessageTypes, ServerTypes
<1>3. args.pieces * Len(replies) \in Nat
  BY <1>1, <1>2
<1>4. PICK u : u = args.pieces * Len(replies)
  OBVIOUS
<1>5. Unread = u - answered /\ Unread' = u - answered'
  BY <1>4 DEF Unread
<1>6. PICK k \in 1..Unread : answered' = answered + k
  BY DEF Answer
<1> QED
  BY <1>2, <1>3, <1>4, <1>5, <1>6

\* What the messages' types speak of.
LEMMA MessageTypesKept ==
  ASSUME MessageTypes, UNCHANGED <<sent, orders, args, responses, replies, answered>>
  PROVE  MessageTypes'
<1>1. Worlds' = Worlds /\ Unread' = Unread /\ Values' = Values
  BY DEF Worlds, Speed, Unread, Values
<1> QED
  BY <1>1 DEF MessageTypes

LEMMA MessageTypesServer ==
  ASSUME CoTypes, TheServer
  PROVE  MessageTypes'
<1>1. CASE SendStep
  <2>1. Stamp(step) \in Headers /\ world \in Worlds
    BY StampType DEF CoTypes, LoopTypes, ServerTypes
  <2>2. /\ sent' = Append(sent, Stamp(step)) /\ orders' = Append(orders, world)
        /\ UNCHANGED <<args, answered, responses, replies>>
    BY <1>1 DEF SendStep, ServerSend
  <2> QED
    BY <2>1, <2>2, MessageTypesSend DEF CoTypes
<1>2. CASE SendTerminate
  <2>1. -1 \in Headers
    BY StampsAssumption DEF Headers
  <2>2. /\ sent' = Append(sent, -1) /\ orders' = Append(orders, <<>>)
        /\ UNCHANGED <<args, answered, responses, replies>>
    BY <1>2 DEF SendTerminate, ServerSend
  <2> QED
    BY <2>1, <2>2, MessageTypesSend DEF CoTypes
<1>3. CASE NextStep \/ DividesByZero \/ LastStep
  <2>1. Answer /\ UNCHANGED <<sent, orders, args, responses, replies>>
    BY <1>3 DEF NextStep, DividesByZero, LastStep, vars, server
  <2>2. Unread' >= 0
    BY <2>1, AnswerTypes
  <2>3. Worlds' = Worlds /\ Values' = Values
    BY <2>1 DEF Worlds, Speed, Values
  <2> QED
    BY <2>1, <2>2, <2>3 DEF CoTypes, MessageTypes
<1>4. CASE Listen \/ ListenFails \/ Accept \/ GatewayGone \/ CloseSockets
  <2>1. UNCHANGED <<sent, orders, args, responses, replies, answered>>
    BY <1>4 DEF Listen, ListenFails, Accept, GatewayGone, CloseSockets, Closed,
                ServerClose, vars, server
  <2> QED
    BY <2>1, MessageTypesKept DEF CoTypes
<1> QED
  BY <1>1, <1>2, <1>3, <1>4 DEF TheServer

\* A callback sends at most one response.
LEMMA MessageTypesReply ==
  ASSUME CoTypes, NEW e \in events, Deliver(e), DoUpdate(e.msg, e.ts),
         UNCHANGED <<sent, program>>
  PROVE  MessageTypes'
<1>1. /\ replies \in Seq([Vehicles -> Values]) /\ Len(replies) = responses
      /\ responses \in Nat /\ count \in [Vehicles -> Values]
      /\ answered \in Nat /\ Unread >= 0 /\ args.pieces \in Nat
  BY ArgsAssumption
  DEF CoTypes, MessageTypes, VehicleTypes, LoopTypes, ServerTypes, CommandLine
<1>2. UNCHANGED <<sent, orders, args, answered>>
  BY DEF program
<1>3. responses' = responses \/ responses' = responses + 1
  BY DEF Deliver
<1>4. replies' = IF responses' > responses THEN Append(replies, count) ELSE replies
  BY DEF DoUpdate
<1>5. CASE responses' = responses
  <2>1. replies' = replies
    BY <1>1, <1>4, <1>5
  <2> QED
    BY <1>2, <1>5, <2>1, MessageTypesKept DEF CoTypes
<1>6. CASE responses' = responses + 1
  <2>1. replies' = Append(replies, count)
    BY <1>1, <1>4, <1>6
  <2>2. replies' \in Seq([Vehicles -> Values]) /\ Len(replies') = Len(replies) + 1
    BY <1>1, <2>1, AppendProperties
  <2>3. Unread' >= 0
    <3> DEFINE p == args.pieces
               r == Len(replies)
    <3>1. p \in Nat /\ r \in Nat
      BY <1>1
    <3>2. Unread = p * r - answered /\ Unread' = p * (r + 1) - answered
      BY <1>2, <2>2 DEF Unread
    <3> HIDE DEF p, r
    <3>3. p * (r + 1) = p * r + p /\ p * r \in Nat
      BY <3>1
    <3> QED
      BY <1>1, <3>1, <3>2, <3>3
  <2>4. Worlds' = Worlds /\ Values' = Values
    BY <1>2 DEF Worlds, Speed, Values
  <2> QED
    BY <1>1, <1>2, <1>6, <2>2, <2>3, <2>4 DEF CoTypes, MessageTypes
<1> QED
  BY <1>3, <1>5, <1>6

\* A step of the gateway's that calls neither DoUpdate nor sends a message.
Callback(e) == DoInitialize(e) \/ HandleUpdate(e)
LEMMA GatewaySplit ==
  ASSUME TheGateway \/ TheThread \/ CoTerminating \/ UNCHANGED coVars
  PROVE  /\ UNCHANGED <<sent, program>>
         /\ \/ \E e \in events : BusWaits(e.ts) /\ Callback(e) /\ DoUpdate(e.msg, e.ts)
            \/ \E r \in bus : HandleReceive(r)
            \/ UNCHANGED <<mobility, count, bus, responses, replies, delivered>>
<1>1. CASE TheGateway
  <2>1. ASSUME NEW e \in events, Callback(e), DoUpdate(e.msg, e.ts)
        PROVE  sent' = sent
    BY <2>1 DEF Callback, DoInitialize, HandleUpdate, server
  <2>2. ASSUME NEW r \in bus, HandleReceive(r)
        PROVE  sent' = sent
    BY <2>2 DEF HandleReceive, server
  <2>3. ASSUME NEW e \in events, OtherEvent(e) \/ DoUpdateFails(e)
        PROVE  UNCHANGED <<sent, mobility, count, bus, responses, replies, delivered>>
    BY <2>3 DEF OtherEvent, DoUpdateFails, Connect, ConnectFails, WaitForNextUpdate,
       ForwardUpFails, ForwardTerminate, ForwardFirst, ForwardUpdate, CallbackFails,
       StopBegin, Abort, server, history, vehicles
  <2>4. ASSUME StopEnd \/ Destroy \/ RunReturns, UNCHANGED <<vehicles, replies>>
        PROVE  UNCHANGED <<sent, mobility, count, bus, responses, replies, delivered>>
    BY <2>4 DEF StopEnd, Destroy, RunReturns, server, history, vehicles
  <2> QED
    BY <1>1, <2>1, <2>2, <2>3, <2>4 DEF TheGateway, Callback
<1>2. CASE TheThread
  BY <1>2 DEF TheThread, ConnectionReset, Thread, ThreadCheck, ThreadRecv, ThreadHangup,
     ThreadRecvFails, ThreadPush, ThreadForward, ThreadScheduleStop, ThreadFrame,
     history, vehicles
<1>3. CASE CoTerminating \/ UNCHANGED coVars
  BY <1>3 DEF CoTerminating, coVars, vars, server, history, vehicles
<1> QED
  BY <1>1, <1>2, <1>3

LEMMA MessageTypesNext ==
  ASSUME CoTypes, [CoNext]_coVars
  PROVE  MessageTypes'
<1>1. CASE TheServer
  BY <1>1, MessageTypesServer
<1>2. CASE TheGateway \/ TheThread \/ CoTerminating \/ UNCHANGED coVars
  <2>1. UNCHANGED <<sent, program>>
    BY <1>2, GatewaySplit
  <2>2. ASSUME NEW e \in events, Callback(e), DoUpdate(e.msg, e.ts)
        PROVE  MessageTypes'
    <3>1. Deliver(e)
      BY <2>2 DEF Callback, DoInitialize, HandleUpdate
    <3> QED
      BY <2>1, <2>2, <3>1, MessageTypesReply
  <2>3. ASSUME UNCHANGED <<responses, replies>>
        PROVE  MessageTypes'
    BY <2>1, <2>3, MessageTypesKept DEF CoTypes, program
  <2>4. ASSUME NEW r \in bus, HandleReceive(r)
        PROVE  UNCHANGED <<responses, replies>>
    BY <2>4 DEF HandleReceive
  <2> QED
    BY <1>2, <2>2, <2>3, <2>4, GatewaySplit
<1> QED
  BY <1>1, <1>2 DEF CoNext

-----------------------------------------------------------------------------
(* What a callback does to the vehicles.                                   *)

\* The message of a callback has its values.
LEMMA OrderOfCallback ==
  ASSUME EveryInv, TimingInv, CoTypes, NEW e \in events, e.fn \in CallbackFns
  PROVE  /\ e.msg \in 1..Len(sent) /\ orders[e.msg] \in Worlds
         /\ DataFits(e.msg) <=> N <= args.numberOfNodes
<1>1. PICK m : m = e.msg
  OBVIOUS
<1>2. m \in 1..Seen /\ ~(sent[m] < 0)
  BY <1>1, CallbackSeen
<1>3. /\ Seen \in Nat /\ Len(sent) \in Nat /\ Seen <= Len(sent)
      /\ DOMAIN sent = 1..Len(sent) /\ sent[m] \in Int
  BY <1>2, SentTypes
<1>4. m \in 1..Len(sent) /\ sent[m] # -1
  BY <1>2, <1>3
<1>5. orders[m] \in Worlds
  BY <1>3, <1>4 DEF CoTypes, MessageTypes
<1>6. args.numberOfNodes \in Nat
  BY ArgsAssumption DEF CoTypes, LoopTypes, CommandLine
<1>7. Len(orders[m]) = args.numberOfNodes
  <2> DEFINE A == [position : Values, velocity : Speed, broadcast : BOOLEAN]
             k == args.numberOfNodes
             w == orders[m]
  <2>1. w \in [1..k -> A] /\ k \in Nat
    BY <1>5, <1>6 DEF Worlds
  <2> HIDE DEF A, k, w
  <2>2. w \in Seq(A) /\ DOMAIN w = 1..k
    BY <2>1
  <2>3. Len(w) \in Nat /\ DOMAIN w = 1..Len(w)
    BY <2>2, LenProperties
  <2>4. Len(w) = k
    BY <2>1, <2>2, <2>3
  <2> QED
    BY <2>4 DEF w, k
<1> QED
  BY <1>1, <1>4, <1>5, <1>7 DEF DataFits

\* A vehicle is where it was put, and what it saw is consistent.
LEMMA MovedByOrder ==
  ASSUME NEW m \in Models, NEW order \in [position : Values, velocity : Speed,
                                          broadcast : BOOLEAN]
  PROVE  LET moved == MovedBy(m, order) IN
         /\ moved \in Models
         /\ moved.position = order.position /\ moved.velocity = order.velocity
         /\ order.velocity = m.velocity => moved.seen = m.seen
         /\ order.velocity # m.velocity =>
              moved.seen = [position |-> order.position, velocity |-> order.velocity,
                            calls |-> m.seen.calls + 1]
<1> DEFINE placed == SetPosition(m, order.position)
           sped == [placed EXCEPT !.velocity = order.velocity]
           moved == MovedBy(m, order)
<1>1. /\ m.position \in Values /\ m.velocity \in Speed
      /\ m.seen \in [position : Values, velocity : Speed, calls : Nat]
      /\ order.position \in Values /\ order.velocity \in Speed
  BY DEF Models
<1>2. placed = [position |-> order.position, velocity |-> m.velocity, seen |-> m.seen]
  BY DEF SetPosition, Models
<1>3. sped = [position |-> order.position, velocity |-> order.velocity, seen |-> m.seen]
  BY <1>2
<1>4. moved = IF order.velocity # m.velocity THEN Notified(sped) ELSE placed
  BY <1>2 DEF MovedBy, SetVelocity
<1>5. Notified(sped) = [position |-> order.position, velocity |-> order.velocity,
        seen |-> [position |-> order.position, velocity |-> order.velocity,
                  calls |-> m.seen.calls + 1]]
  <2> DEFINE saw == [position |-> order.position, velocity |-> order.velocity,
                     calls |-> m.seen.calls + 1]
  <2>1. /\ sped.position = order.position /\ sped.velocity = order.velocity
        /\ sped.seen = m.seen
    BY <1>3
  <2>2. Notified(sped) = [sped EXCEPT !.seen = saw]
    BY <2>1 DEF Notified
  <2> HIDE DEF saw, sped
  <2>3. [sped EXCEPT !.seen = saw] =
          [position |-> order.position, velocity |-> order.velocity, seen |-> saw]
    BY <1>3
  <2> QED
    BY <2>2, <2>3 DEF saw
<1> HIDE DEF placed, sped
<1>6. CASE order.velocity # m.velocity
  <2> DEFINE seen == [position |-> order.position, velocity |-> order.velocity,
                      calls |-> m.seen.calls + 1]
  <2>1. seen \in [position : Values, velocity : Speed, calls : Nat]
    BY <1>1
  <2>2. moved = [position |-> order.position, velocity |-> order.velocity, seen |-> seen]
    BY <1>4, <1>5, <1>6
  <2> HIDE DEF seen, moved
  <2>3. moved \in Models /\ moved.position = order.position
        /\ moved.velocity = order.velocity /\ moved.seen = seen
    BY <1>1, <2>1, <2>2 DEF Models
  <2> QED
    BY <1>6, <2>3 DEF seen, moved
<1>7. CASE order.velocity = m.velocity
  BY <1>1, <1>2, <1>4, <1>7 DEF Models
<1> QED
  BY <1>6, <1>7

\* DoUpdate moves each vehicle as its message says.
LEMMA UpdateMoves ==
  ASSUME EveryInv, TimingInv, CoTypes, NEW e \in events, e.fn \in CallbackFns,
         DoUpdate(e.msg, e.ts), NEW n \in Vehicles
  PROVE  /\ mobility' = [k \in Vehicles |-> MovedBy(mobility[k], orders[e.msg][k])]
         /\ mobility[n] \in Models
         /\ orders[e.msg][n] \in [position : Values, velocity : Speed, broadcast : BOOLEAN]
         /\ mobility'[n] = MovedBy(mobility[n], orders[e.msg][n])
<1>1. DataFits(e.msg)
      /\ mobility' = [k \in Vehicles |-> MovedBy(mobility[k], orders[e.msg][k])]
  BY DEF DoUpdate
<1>2. orders[e.msg] \in Worlds /\ N <= args.numberOfNodes
  BY <1>1, OrderOfCallback
<1>3. args.numberOfNodes \in Nat /\ N \in Nat
  BY ArgsAssumption, SizesAssumption DEF CoTypes, LoopTypes, CommandLine
<1>4. n \in 1..args.numberOfNodes
  BY <1>2, <1>3 DEF Vehicles
<1>5. mobility[n] \in Models
  BY DEF CoTypes, VehicleTypes
<1> QED
  BY <1>1, <1>2, <1>4, <1>5 DEF Worlds

LEMMA VehicleTypesNext ==
  ASSUME CoTypes, BusInv, GatewayInv, [CoNext]_coVars
  PROVE  VehicleTypes'
<1>1. Models' = Models
  BY ServerTypesNext DEF CoTypes
<1>2. CASE UNCHANGED <<mobility, count>>
  BY <1>1, <1>2 DEF CoTypes, VehicleTypes, Values
<1>3. ASSUME NEW e \in events, Callback(e), DoUpdate(e.msg, e.ts)
      PROVE  VehicleTypes'
  <2>1. e.fn \in CallbackFns /\ fault = "none"
    BY <1>3 DEF Callback, DoInitialize, HandleUpdate, Runs, CallbackFns
  <2>2. EveryInv /\ TimingInv
    BY <2>1 DEF GatewayInv, Insufficient
  <2>3. ASSUME NEW n \in Vehicles
        PROVE  MovedBy(mobility[n], orders[e.msg][n]) \in Models
    <3>1. mobility[n] \in Models
          /\ orders[e.msg][n] \in [position : Values, velocity : Speed,
                                   broadcast : BOOLEAN]
      BY <1>3, <2>1, <2>2, UpdateMoves
    <3> QED
      BY <3>1, MovedByOrder
  <2>4. /\ mobility' = [k \in Vehicles |-> MovedBy(mobility[k], orders[e.msg][k])]
        /\ count' = count
    BY <1>3 DEF DoUpdate
  <2> QED
    BY <1>1, <2>3, <2>4 DEF CoTypes, VehicleTypes, Values
<1>4. ASSUME NEW r \in bus, HandleReceive(r)
      PROVE  VehicleTypes'
  <2>1. mobility' = mobility /\ count' = [count EXCEPT ![r.to] = OneMore(@)]
    BY <1>4 DEF HandleReceive
  <2>2. r.to \in Vehicles /\ count \in [Vehicles -> Values] /\ Uint16 \in Nat \ {0}
    BY SizesAssumption DEF BusInv, Receipts, CoTypes, VehicleTypes
  <2>3. OneMore(count[r.to]) \in Values
    BY <2>2 DEF OneMore, Values
  <2>4. count' \in [Vehicles -> Values]
    BY <2>1, <2>2, <2>3
  <2> QED
    BY <1>1, <2>1, <2>4 DEF CoTypes, VehicleTypes, Values
<1>5. ASSUME TheServer PROVE UNCHANGED <<mobility, count>>
  BY <1>5 DEF TheServer, Listen, ListenFails, Accept, SendStep, NextStep, DividesByZero,
     LastStep, SendTerminate, GatewayGone, CloseSockets, vehicles
<1> QED
  BY <1>2, <1>3, <1>4, <1>5, GatewaySplit DEF CoNext

LEMMA CoTypesNext ==
  ASSUME CoTypes, BusInv, GatewayInv, [CoNext]_coVars
  PROVE  CoTypes'
<1>1. LoopTypes' /\ ServerTypes'
  BY LoopNext, ServerTypesNext DEF CoTypes
<1>2. MessageTypes' /\ VehicleTypes'
  BY MessageTypesNext, VehicleTypesNext
<1> QED
  BY <1>1, <1>2 DEF CoTypes

-----------------------------------------------------------------------------
(* The gateway's invariants, and the bus.                                  *)

LEMMA GatewayNext ==
  ASSUME LoopTypes, BusInv, GatewayInv, [CoNext]_coVars
  PROVE  GatewayInv'
<1>1. CASE Insufficient
  <2>1. fault' = fault
    BY <1>1, FaultStays DEF Insufficient, vars
  <2> QED
    BY <1>1, <2>1 DEF GatewayInv, Insufficient
<1>2. CASE ~Insufficient
  <2>1. EveryInv /\ TimingInv
    BY <1>2 DEF GatewayInv
  <2>2. CASE [Next]_vars
    BY <2>1, <2>2, EveryInvNext, TimingNext DEF GatewayInv
  <2>3. ASSUME NEW r \in bus, HandleReceive(r)
        PROVE  GatewayInv'
    BY <2>1, <2>3, ReceiptStep DEF GatewayInv
  <2>4. ASSUME NEW e \in events, DoUpdateFails(e)
        PROVE  GatewayInv'
    BY <2>4 DEF DoUpdateFails, Abort, GatewayInv, Insufficient
  <2> QED
    BY <2>2, <2>3, <2>4, StepOfGateway
<1> QED
  BY <1>1, <1>2

\* An event runs at its own time, and the others leave the clock alone.
LEMMA ClockOfEvent ==
  ASSUME NEW e \in events, OtherEvent(e) \/ Callback(e) \/ DoUpdateFails(e)
  PROVE  IsNext(e, events) /\ (now' = e.ts \/ now' = now)
<1>1. CASE OtherEvent(e)
  <2>1. IsNext(e, events)
    BY <1>1 DEF OtherEvent, Connect, ConnectFails, WaitForNextUpdate, ForwardUpFails,
       ForwardTerminate, ForwardFirst, ForwardUpdate, CallbackFails, StopBegin, Runs
  <2>2. now' = e.ts \/ now' = now
    BY <1>1 DEF OtherEvent, Connect, ConnectFails, WaitForNextUpdate, ForwardUpFails,
       ForwardTerminate, ForwardFirst, ForwardUpdate, CallbackFails, StopBegin, Abort,
       Return, simulator
  <2> QED
    BY <2>1, <2>2
<1>2. CASE Callback(e)
  BY <1>2 DEF Callback, DoInitialize, HandleUpdate, Runs, Return
<1>3. CASE DoUpdateFails(e)
  BY <1>3 DEF DoUpdateFails, Runs, Abort, simulator
<1> QED
  BY <1>1, <1>2, <1>3

\* What an update puts on the bus.
LEMMA UpdateSends ==
  ASSUME NEW m, NEW ts, DoUpdate(m, ts)
  PROVE  \E senders \in SUBSET Vehicles : \E first \in [senders -> {ts, ts + 1}] :
           /\ senders = {n \in Vehicles : orders[m][n].broadcast}
           /\ \A n \in senders : first[n] \in FirstPacket(n, ts)
           /\ bus' = AfterSend(first, ts)
<1>1. PICK senders : senders = {n \in Vehicles : orders[m][n].broadcast}
  OBVIOUS
<1>2. PICK first \in [senders -> {ts, ts + 1}] :
        /\ \A n \in DOMAIN first : first[n] \in FirstPacket(n, ts)
        /\ bus' = AfterSend(first, ts)
  BY <1>1 DEF DoUpdate
<1>3. DOMAIN first = senders /\ senders \in SUBSET Vehicles
  BY <1>1
<1> QED
  BY <1>1, <1>2, <1>3

\* The new packets are on the bus at the earliest now.
LEMMA PacketsLater ==
  ASSUME BusInv, NEW ts \in Nat, BusWaits(ts), NEW senders \in SUBSET Vehicles,
         NEW first \in [senders -> {ts, ts + 1}], NEW r \in AfterSend(first, ts)
  PROVE  r \in Receipts /\ r.at >= ts
<1>1. CASE r \in bus
  <2>1. r \in Receipts /\ r.at \in Nat /\ ts <= r.at
    BY <1>1 DEF BusInv, Receipts, BusWaits
  <2> QED
    BY <2>1
<1>2. CASE r \notin bus
  <2>1. PICK n \in senders, k \in Packets, m \in Vehicles :
          r = [at |-> first[n] + k + BusDelay, to |-> m, from |-> n]
    BY <1>2 DEF AfterSend
  <2>2. first[n] \in Nat /\ first[n] >= ts
    BY <2>1
  <2>3. k \in Nat /\ BusDelay \in Nat
    BY SizesAssumption DEF Packets
  <2>4. first[n] + k + BusDelay \in Nat /\ first[n] + k + BusDelay >= ts
    BY <2>2, <2>3
  <2> QED
    BY <2>1, <2>4 DEF Receipts
<1> QED
  BY <1>1, <1>2

LEMMA BusNext ==
  ASSUME BusInv, GatewayInv, [CoNext]_coVars
  PROVE  BusInv'
<1>1. CASE UNCHANGED <<bus, now>>
  BY <1>1 DEF BusInv
<1>2. ASSUME NEW e \in events, BusWaits(e.ts), OtherEvent(e) \/ DoUpdateFails(e)
      PROVE  BusInv'
  <2>1. bus' = bus /\ (now' = e.ts \/ now' = now)
    BY <1>2, ClockOfEvent DEF OtherEvent, DoUpdateFails, vehicles
  <2>2. ASSUME NEW r \in bus, now' = e.ts
        PROVE  r.at >= now'
    <3>1. fault = "none"
      BY <1>2 DEF OtherEvent, DoUpdateFails, Connect, ConnectFails, WaitForNextUpdate,
         ForwardUpFails, ForwardTerminate, ForwardFirst, ForwardUpdate, CallbackFails,
         StopBegin, Runs
    <3>2. e.ts \in Nat
      <4>1. IInv /\ IsNext(e, events)
        BY <1>2, <3>1, ClockOfEvent DEF GatewayInv, Insufficient, EveryInv
      <4> QED
        BY <4>1, NextEvent
    <3> QED
      BY <1>2, <2>2, <3>2 DEF BusWaits, BusInv, Receipts
  <2> QED
    BY <2>1, <2>2 DEF BusInv
<1>3. ASSUME NEW e \in events, BusWaits(e.ts), Callback(e), DoUpdate(e.msg, e.ts)
      PROVE  BusInv'
  <2>1. IsNext(e, events) /\ now' = e.ts /\ fault = "none"
    BY <1>3 DEF Callback, DoInitialize, HandleUpdate, Runs, Return
  <2>2. e.ts \in Nat
    BY <2>1, NextEvent DEF GatewayInv, Insufficient, EveryInv
  <2>3. PICK senders \in SUBSET Vehicles :
          \E first \in [senders -> {e.ts, e.ts + 1}] : bus' = AfterSend(first, e.ts)
    BY <1>3, UpdateSends
  <2>4. PICK first \in [senders -> {e.ts, e.ts + 1}] : bus' = AfterSend(first, e.ts)
    BY <2>3
  <2> QED
    BY <1>3, <2>1, <2>2, <2>4, PacketsLater DEF BusInv
<1>4. ASSUME NEW r \in bus, HandleReceive(r)
      PROVE  BusInv'
  <2>1. bus' \subseteq bus /\ now' = r.at /\ BusWaits(r.at)
    BY <1>4 DEF HandleReceive, Return
  <2> QED
    BY <2>1 DEF BusInv, Receipts, BusWaits
<1>5. CASE TheServer
  <2>1. bus' = bus /\ now' = now
    BY <1>5 DEF TheServer, Listen, ListenFails, Accept, SendStep, NextStep, DividesByZero,
       LastStep, SendTerminate, GatewayGone, CloseSockets, Closed, ServerSend, ServerClose,
       vars, vehicles, simulator
  <2> QED
    BY <1>1, <2>1
<1>6. CASE TheThread \/ CoTerminating \/ UNCHANGED coVars
  <2>1. bus' = bus /\ now' = now
    BY <1>6 DEF TheThread, ConnectionReset, Thread, ThreadCheck, ThreadRecv, ThreadHangup,
       ThreadRecvFails, ThreadPush, ThreadForward, ThreadScheduleStop, ThreadFrame,
       CoTerminating, coVars, vehicles, vars, simulator
  <2> QED
    BY <1>1, <2>1
<1>7. ASSUME StopEnd \/ Destroy \/ RunReturns, UNCHANGED vehicles
      PROVE  BusInv'
  <2>1. bus' = bus /\ now' = now
    BY <1>7 DEF StopEnd, Destroy, RunReturns, Return, vehicles
  <2> QED
    BY <1>1, <2>1
<1> QED
  BY <1>2, <1>3, <1>4, <1>5, <1>6, <1>7 DEF CoNext, TheGateway, Callback

-----------------------------------------------------------------------------
(* The invariant that holds for every command line.                        *)

CoBase == CoTypes /\ BusInv /\ GatewayInv

\* The program calls Connect before Run.
LEMMA MainConnects == ConnectsAtStart
<1> SUFFICES ASSUME NEW program_ \in Programs, NEW i \in DOMAIN program_
             PROVE  program_[i].ts = 0
  BY DEF ConnectsAtStart
<1>1. program_ = <<Entry(0, "Connect", NoMessage)>>
  BY MainAssumption
<1>2. i = 1
  BY <1>1
<1> QED
  BY <1>1, <1>2 DEF Entry

LEMMA CoBaseInit == CoInit => CoBase
<1> SUFFICES ASSUME CoInit PROVE CoBase
  OBVIOUS
<1>1. Init /\ fault = "none"
  BY DEF CoInit, Init
<1>2. GatewayInv
  BY <1>1, EveryInvInit, TimingInit, MainConnects DEF GatewayInv
<1>3. BusInv
  BY DEF CoInit, BusInv
<1>4. args \in ServerArgs /\ args.iterations \in Nat /\ args.numberOfNodes \in Nat
      /\ args.positionDeltaX \in Nat /\ args.pieces \in Nat
  BY ArgsAssumption DEF CoInit, CommandLine
<1>5. LoopTypes
  BY <1>4 DEF CoInit, LoopTypes
<1>6. 0 \in Values /\ 0 \in Speed
  BY <1>4, SizesAssumption DEF Values, Speed
<1>7. ServerTypes
  BY <1>4, <1>6 DEF CoInit, ServerTypes, Places, Worlds, Standing
<1>8. MessageTypes
  <2>1. sent = <<>> /\ orders = <<>> /\ replies = <<>> /\ answered = 0 /\ responses = 0
    BY <1>1 DEF Init, CoInit
  <2>2. Len(sent) = 0 /\ Len(orders) = 0 /\ Len(replies) = 0 /\ DOMAIN sent = {}
    BY <2>1
  <2>3. Unread >= 0
    BY <1>4, <2>1, <2>2 DEF Unread
  <2> QED
    BY <2>1, <2>2, <2>3 DEF MessageTypes
<1>9. VehicleTypes
  <2>1. NotSeen \in [position : Values, velocity : Speed, calls : Nat]
    BY <1>6 DEF NotSeen
  <2>2. Created \in Models
    BY <1>6, <2>1 DEF Created, Models
  <2> QED
    BY <1>6, <2>2 DEF CoInit, NewVehicles, VehicleTypes
<1> QED
  BY <1>2, <1>3, <1>5, <1>7, <1>8, <1>9 DEF CoBase, CoTypes

LEMMA CoBaseNext == CoBase /\ [CoNext]_coVars => CoBase'
BY CoTypesNext, BusNext, GatewayNext DEF CoBase, CoTypes

\* The variables of the two programs keep their types, with every command line and
\* whatever goes wrong (simple-gateway.cc:88-89, simple-gateway-server.cc:53-58,
\* 125-127): no time step, node count or number of broadcasts takes the positions
\* or the packet counts out of their range, and no more is received than was sent.
THEOREM CoTyped == CoSpec => []CoTypeOK
<1>1. CoBase => CoTypeOK
  <2> SUFFICES ASSUME CoTypes, BusInv PROVE CoTypeOK
    BY DEF CoBase
  <2>1. \A n \in Vehicles : /\ mobility[n].position \in Values
                            /\ mobility[n].velocity \in Speed
                            /\ count[n] \in Values
    BY DEF CoTypes, VehicleTypes, Models
  <2>2. bus \subseteq [at : Nat, to : Vehicles, from : Vehicles]
    BY DEF BusInv, Receipts
  <2> QED
    BY <2>1, <2>2 DEF CoTypes, LoopTypes, ServerTypes, MessageTypes, CoTypeOK, Values, Speed,
                      Worlds, Places
<1> QED
  BY <1>1, CoBaseInit, CoBaseNext, PTL DEF CoSpec

-----------------------------------------------------------------------------
(* What the server has sent.                                               *)

\* What a step of the server leaves alone.
LEMMA ServerFrame ==
  ASSUME TheServer
  PROVE  /\ UNCHANGED <<vehicles, replies, args>>
         /\ UNCHANGED <<simulator, fault, state, times, waiting, received, socket,
                        responses, history>>
         /\ ~SendStep /\ ~SendTerminate => UNCHANGED <<sent, stream, orders>>
         /\ ~CloseSockets => UNCHANGED conn
BY DEF TheServer, Listen, ListenFails, Accept, SendStep, NextStep, DividesByZero,
       LastStep, SendTerminate, GatewayGone, CloseSockets, Closed, ServerSend,
       ServerClose, vars, server

\* A message is sent, and the others stay.
LEMMA SentMore ==
  ASSUME MessageTypes, NEW h, h \in Headers, sent' = Append(sent, h)
  PROVE  /\ Len(sent) \in Nat /\ Len(sent') = Len(sent) + 1
         /\ DOMAIN sent = 1..Len(sent) /\ DOMAIN sent' = 1..(Len(sent) + 1)
         /\ sent'[Len(sent) + 1] = h
         /\ \A m \in 1..Len(sent) : sent'[m] = sent[m]
<1>1. sent \in Seq(Headers)
  BY DEF MessageTypes
<1>2. /\ sent' \in Seq(Headers) /\ Len(sent') = Len(sent) + 1
      /\ sent'[Len(sent) + 1] = h /\ \A m \in 1..Len(sent) : sent'[m] = sent[m]
  BY <1>1, AppendProperties
<1>3. Len(sent) \in Nat /\ DOMAIN sent = 1..Len(sent) /\ DOMAIN sent' = 1..Len(sent')
  BY <1>1, <1>2, LenProperties
<1> QED
  BY <1>2, <1>3

LEMMA SentNext ==
  ASSUME CoTypes, SentInv, StepInv, [CoNext]_coVars
  PROVE  SentInv' /\ StepInv'
<1> DEFINE S == Len(sent)
<1>1. /\ S \in Nat /\ DOMAIN sent = 1..S /\ step \in Nat /\ args.iterations \in Nat
  BY LenProperties, ArgsAssumption
  DEF CoTypes, MessageTypes, LoopTypes, CommandLine
<1>2. CASE UNCHANGED <<sent, pc, args, step>>
  BY <1>2 DEF SentInv, StepInv, Stamp, InLoop, AtEnd
<1>3. CASE SendStep
  <2>1. /\ pc = "send" /\ pc' = "recv" /\ sent' = Append(sent, Stamp(step))
        /\ UNCHANGED <<args, step>>
    BY <1>3 DEF SendStep, ServerSend
  <2>2. S = step /\ step < args.iterations
    BY <2>1 DEF StepInv, InLoop
  <2>3. Stamp(step) \in Headers
    BY <1>1, StampType DEF CoTypes
  <2>4. /\ Len(sent') = S + 1 /\ DOMAIN sent' = 1..(S + 1)
        /\ sent'[S + 1] = Stamp(S) /\ \A m \in 1..S : sent'[m] = sent[m]
    BY <2>1, <2>2, <2>3, SentMore DEF CoTypes
  <2>5. \A m : Stamp(m)' = Stamp(m)
    BY <2>1 DEF Stamp
  <2> HIDE DEF S
  <2>6. ASSUME NEW m \in DOMAIN sent'
        PROVE  sent'[m] = Stamp(m - 1) /\ m <= args.iterations
    <3>1. CASE m = S + 1
      <4>1. m - 1 = S /\ m <= args.iterations
        BY <1>1, <2>2, <3>1
      <4> QED
        BY <2>4, <3>1, <4>1
    <3>2. CASE m # S + 1
      <4>1. m \in 1..S
        BY <1>1, <2>4, <3>2
      <4> QED
        BY <1>1, <2>1, <2>4, <4>1 DEF SentInv, AtEnd
    <3> QED
      BY <3>1, <3>2
  <2>7. SentInv'
    BY <2>1, <2>5, <2>6 DEF SentInv
  <2> QED
    BY <2>1, <2>2, <2>4, <2>7 DEF StepInv, InLoop
<1>4. CASE SendTerminate
  <2>1. /\ pc = "terminate" /\ pc' = "close" /\ sent' = Append(sent, -1)
        /\ UNCHANGED <<args, step>>
    BY <1>4 DEF SendTerminate, ServerSend
  <2>2. -1 \in Headers
    BY StampsAssumption DEF Headers
  <2>3. /\ Len(sent') = S + 1 /\ DOMAIN sent' = 1..(S + 1)
        /\ sent'[S + 1] = -1 /\ \A m \in 1..S : sent'[m] = sent[m]
    BY <2>1, <2>2, SentMore DEF CoTypes
  <2>4. \A m : Stamp(m)' = Stamp(m)
    BY <2>1 DEF Stamp
  <2> HIDE DEF S
  <2>5. ASSUME NEW m \in DOMAIN sent', m # S + 1
        PROVE  sent'[m] = Stamp(m - 1) /\ m <= args.iterations
    <3>1. m \in 1..S
      BY <1>1, <2>3, <2>5
    <3> QED
      BY <1>1, <2>1, <2>3, <3>1 DEF SentInv, AtEnd
  <2>6. SentInv'
    BY <2>1, <2>3, <2>4, <2>5 DEF SentInv, AtEnd
  <2> QED
    BY <2>1, <2>6 DEF StepInv, InLoop
<1>5. CASE TheServer /\ ~SendStep /\ ~SendTerminate
  <2>1. UNCHANGED <<sent, args>>
    BY <1>5, ServerFrame
  <2>2. AtEnd => AtEnd'
    BY <1>5 DEF AtEnd, TheServer, Listen, ListenFails, Accept, Answer, NextStep,
       DividesByZero, LastStep, GatewayGone, CloseSockets
  <2>3. SentInv'
    BY <2>1, <2>2 DEF SentInv, Stamp
  <2>4. StepInv'
    <3>1. CASE Listen \/ ListenFails
      BY <1>1, <2>1, <3>1 DEF Listen, ListenFails, StepInv, InLoop
    <3>2. CASE Accept
      BY <1>1, <2>1, <3>2 DEF Accept, StepInv, InLoop
    <3>3. CASE NextStep
      BY <1>1, <2>1, <3>3 DEF NextStep, Answer, StepInv, InLoop
    <3>4. CASE LastStep
      BY <1>1, <2>1, <3>4 DEF LastStep, Answer, StepInv, InLoop
    <3>5. CASE DividesByZero \/ GatewayGone \/ CloseSockets
      BY <3>5 DEF DividesByZero, GatewayGone, CloseSockets, StepInv, InLoop
    <3> QED
      BY <1>5, <3>1, <3>2, <3>3, <3>4, <3>5 DEF TheServer
  <2> QED
    BY <2>3, <2>4
<1>6. CASE TheGateway \/ TheThread \/ CoTerminating \/ UNCHANGED coVars
  <2>1. UNCHANGED <<sent, pc, args, step>>
    BY <1>6, GatewaySplit DEF program
  <2> QED
    BY <1>2, <2>1
<1> QED
  BY <1>3, <1>4, <1>5, <1>6 DEF CoNext

-----------------------------------------------------------------------------
(* How the connection and the simulation end.                              *)

\* The request to terminate is the server's last message.
LEMMA TerminateAtEnd ==
  ASSUME CoTypes, SentInv, EveryInv, TimingInv, NEW e \in events, ForwardTerminate(e)
  PROVE  AtEnd
<1>1. Runs(e, "ForwardUp") /\ ForwardFault = "none" /\ Header < 0
  BY DEF ForwardTerminate
<1>2. messageQueue # <<>> /\ Header # BadHeader
  BY <1>1 DEF ForwardFault
<1>3. Message \in 1..Len(sent) /\ Header = sent[Message]
  BY <1>1, <1>2, NextSeen
<1>4. PICK m : m = Message
  OBVIOUS
<1>5. m \in DOMAIN sent /\ m \in Nat /\ m >= 1
  BY <1>3, <1>4, LenProperties DEF CoTypes, MessageTypes
<1>6. CASE sent[m] = Stamp(m - 1)
  <2>1. m - 1 \in Nat
    BY <1>5
  <2>2. Stamp(m - 1) \in Nat
    BY <1>2, <1>3, <1>4, <1>6, <2>1, StampType DEF CoTypes
  <2> QED
    BY <1>1, <1>3, <1>4, <1>6, <2>2
<1> QED
  BY <1>5, <1>6 DEF SentInv

LEMMA ConnectionServer ==
  ASSUME ConnectionInv, TheServer
  PROVE  ConnectionInv'
<1>1. UNCHANGED <<state, thread, main, stopped>>
  BY ServerFrame DEF simulator, received
<1>2. CASE CloseSockets
  <2>1. pc = "close" /\ pc' = "done" /\ Closed
    BY <1>2 DEF CloseSockets
  <2>2. conn' = conn \/ (conn = "open" /\ conn' = "closed")
    <3>1. CASE Ended
      BY <2>1, <3>1 DEF Closed, vars, server
    <3>2. CASE ~Ended
      BY <2>1, <3>2 DEF Closed, ServerClose
    <3> QED
      BY <3>1, <3>2
  <2> QED
    BY <1>1, <2>1, <2>2 DEF ConnectionInv, InLoop, AtEnd
<1>3. CASE ~CloseSockets
  <2>1. conn' = conn
    BY <1>3, ServerFrame
  <2>2. /\ InLoop' => InLoop \/ conn # "none"
        /\ pc = "done" => pc' = "done"
        /\ AtEnd => AtEnd'
    BY <1>3 DEF TheServer, Listen, ListenFails, Accept, SendStep, Answer, NextStep,
       DividesByZero, LastStep, SendTerminate, GatewayGone, InLoop, AtEnd
  <2> QED
    BY <1>1, <2>1, <2>2 DEF ConnectionInv
<1> QED
  BY <1>2, <1>3

LEMMA ConnectionThread ==
  ASSUME ConnectionInv, TheThread
  PROVE  ConnectionInv'
<1>1. UNCHANGED <<state, main, stopped, conn, pc>>
  BY DEF TheThread, ConnectionReset, Thread, ThreadCheck, ThreadRecv, ThreadHangup,
         ThreadRecvFails, ThreadPush, ThreadForward, ThreadScheduleStop, ThreadFrame, program
<1>2. \/ thread' \in {"check", "read", "schedule"} \/ thread' = thread
      \/ thread' = "exited" /\ (state # "CONNECTED" \/ thread = "hangup")
      \/ conn = "closed" \/ pc = "done"
  BY DEF TheThread, ConnectionReset, Thread, ThreadCheck, ThreadRecv, ThreadHangup,
         ThreadRecvFails, ThreadPush, ThreadForward, ThreadScheduleStop, ThreadFrame, At
<1> QED
  BY <1>1, <1>2 DEF ConnectionInv, InLoop, AtEnd

LEMMA ConnectionGateway ==
  ASSUME CoTypes, SentInv, ConnectionInv, GatewayInv, TheGateway
  PROVE  ConnectionInv'
<1>1. pc' = pc
  BY DEF TheGateway, program
<1>2. CASE UNCHANGED <<state, thread, main, stopped, conn>>
  BY <1>1, <1>2 DEF ConnectionInv, InLoop, AtEnd
<1>3. ASSUME NEW e \in events, Connect(e)
      PROVE  ConnectionInv'
  <2>1. /\ main = "run" /\ state' = "CONNECTED" /\ thread' = "check" /\ conn' = "open"
        /\ UNCHANGED <<stopped, main>>
    BY <1>3 DEF Connect, Runs
  <2> QED
    BY <1>1, <2>1 DEF ConnectionInv, InLoop, AtEnd
<1>4. ASSUME NEW e \in events, ForwardTerminate(e)
      PROVE  ConnectionInv'
  <2>1. fault = "none"
    BY <1>4 DEF ForwardTerminate, Runs
  <2>2. AtEnd
    BY <1>4, <2>1, TerminateAtEnd DEF GatewayInv, Insufficient
  <2>3. UNCHANGED <<state, thread, main, conn>>
    BY <1>4 DEF ForwardTerminate, server
  <2> QED
    BY <1>1, <2>2, <2>3 DEF ConnectionInv, InLoop, AtEnd
<1>5. ASSUME NEW e \in events, StopBegin(e)
      PROVE  ConnectionInv'
  <2>1. /\ main = "run" /\ fault = "none" /\ e \in Stops
        /\ state' = "STOPPING" /\ main' = "stopping"
        /\ UNCHANGED <<stopped, thread, conn>>
    BY <1>5 DEF StopBegin, Runs, Stops, received, server
  <2>2. thread = "exited" /\ state = "CONNECTED"
    BY <2>1 DEF GatewayInv, Insufficient, EveryInv, StopInv, StopRunsLast, ThreadThrough
  <2> QED
    BY <1>1, <2>1, <2>2 DEF ConnectionInv, InLoop, AtEnd
<1>6. CASE StopEnd
  <2>1. /\ main \in {"stopping", "destroying"} /\ fault = "none"
        /\ main' = IF main = "stopping" THEN "run" ELSE "done"
        /\ thread' \in {thread, "joined"}
        /\ UNCHANGED <<stopped, state, conn>>
    BY <1>6 DEF StopEnd, server
  <2>2. state = "STOPPING"
    BY <2>1 DEF GatewayInv, Insufficient, EveryInv, IInv, HeldInv, StopSetsState
  <2> QED
    BY <1>1, <2>1, <2>2 DEF ConnectionInv, InLoop, AtEnd
<1>7. CASE Destroy
  <2>1. /\ main = "destroy" /\ fault = "none"
        /\ UNCHANGED <<stopped, thread, conn>>
        /\ \/ main' = "destroying" /\ state' = "STOPPING" /\ eventDestroy
           \/ main' = "done" /\ state' = state
    BY <1>7 DEF Destroy, received, server
  <2>2. eventDestroy => state # "CREATED"
    BY <2>1 DEF GatewayInv, Insufficient, EveryInv, IInv, HeldInv, NothingBeforeConnect
  <2> QED
    BY <1>1, <2>1, <2>2 DEF ConnectionInv, InLoop, AtEnd
<1>8. CASE RunReturns
  <2>1. /\ main = "run" /\ fault = "none" /\ main' = "destroy"
        /\ stopped \/ events = {}
        /\ UNCHANGED <<stopped, thread, state, conn>>
    BY <1>8 DEF RunReturns, received, server
  <2>2. IInv /\ state \in {"CREATED", "CONNECTED", "STOPPING"}
    BY <2>1 DEF GatewayInv, Insufficient, EveryInv, IInv, TypeOK
  <2>3. state = "CONNECTED" => stopped
    BY <2>1, <2>2 DEF IInv, HeldInv, ClockHeld
  <2> QED
    BY <1>1, <2>1, <2>2, <2>3 DEF ConnectionInv, InLoop, AtEnd
<1>9. ASSUME NEW e \in events, OtherEvent(e) \/ Callback(e) \/ DoUpdateFails(e),
             ~Connect(e), ~ForwardTerminate(e), ~StopBegin(e)
      PROVE  UNCHANGED <<state, thread, main, stopped, conn>>
  BY <1>9 DEF OtherEvent, Callback, DoUpdateFails, ConnectFails, WaitForNextUpdate,
     ForwardUpFails, ForwardFirst, ForwardUpdate, CallbackFails, DoInitialize,
     HandleUpdate, Abort, simulator, received, server
<1>10. ASSUME NEW r \in bus, HandleReceive(r)
       PROVE  UNCHANGED <<state, thread, main, stopped, conn>>
  BY <1>10 DEF HandleReceive, received, server
<1> QED
  BY <1>2, <1>3, <1>4, <1>5, <1>6, <1>7, <1>8, <1>9, <1>10 DEF TheGateway, Callback

LEMMA ConnectionNext ==
  ASSUME CoTypes, SentInv, ConnectionInv, GatewayInv, [CoNext]_coVars
  PROVE  ConnectionInv'
<1>1. CASE CoTerminating \/ UNCHANGED coVars
  BY <1>1 DEF CoTerminating, coVars, vars, simulator, received, server, program,
     ConnectionInv, InLoop, AtEnd
<1> QED
  BY <1>1, ConnectionServer, ConnectionThread, ConnectionGateway DEF CoNext

\* An event of the co-simulation other than Connect and Stop schedules no Connect.
LEMMA NoNewConnect ==
  ASSUME EveryInv, TimingInv, NEW e \in events, OtherEvent(e) \/ Callback(e) \/ DoUpdateFails(e)
  PROVE  \A f \in events' : f.fn = "Connect" => f \in events
<1>1. CASE Connect(e) \/ WaitForNextUpdate(e) \/ ForwardTerminate(e) \/ Callback(e)
  <2>1. \A f \in events' : f \in events \/ f.fn \in LastCalls \cup {"WaitForNextUpdate"}
    BY <1>1, GainsNoCallback DEF EveryInv, Callback
  <2> QED
    BY <2>1 DEF LastCalls
<1>2. CASE ForwardFirst(e) \/ ForwardUpdate(e)
  <2>1. \A f \in events' : \/ f \in events \/ f.fn \in LastCalls
                           \/ f.fn \in CallbackFns /\ OnTime(f)
    BY <1>2, GainsCallback
  <2> QED
    BY <2>1 DEF LastCalls, CallbackFns
<1>3. CASE ConnectFails(e) \/ ForwardUpFails(e) \/ CallbackFails(e) \/ DoUpdateFails(e)
  <2>1. events' = events
    BY <1>3 DEF ConnectFails, ForwardUpFails, CallbackFails, DoUpdateFails, Abort, simulator
  <2> QED
    BY <2>1
<1>4. CASE StopBegin(e)
  BY <1>4 DEF StopBegin
<1> QED
  BY <1>1, <1>2, <1>3, <1>4 DEF OtherEvent

LEMMA ConnectOnceGateway ==
  ASSUME ConnectOnce, BusInv, GatewayInv, TheGateway
  PROVE  ConnectOnce'
<1>1. ASSUME \A f \in events' : f.fn = "Connect" => f \in events,
             state = "CREATED" => state' = "CREATED"
      PROVE  ConnectOnce'
  BY <1>1 DEF ConnectOnce
<1>2. ASSUME NEW e \in events, Connect(e)
      PROVE  ConnectOnce'
  <2>1. /\ IsNext(e, events) /\ fault = "none" /\ e.fn = "Connect"
        /\ Return(e.ts, events \ {e}, <<Entry(e.ts, "WaitForNextUpdate", NoMessage)>>)
    BY <1>2 DEF Connect, Runs
  <2>2. IInv /\ e.ts \in Nat
    BY <2>1, NextEvent DEF GatewayInv, Insufficient, EveryInv
  <2>3. \A f \in events' : \/ f \in events \ {e} \/ f.fn \in LastCalls
                           \/ f = NewWait(events \ {e}, e.ts)
    BY <2>1, <2>2, GainsWait
  <2>4. NewWait(events \ {e}, e.ts).fn = "WaitForNextUpdate"
    BY DEF NewWait, NewEvent
  <2>5. \A f \in events' : f.fn # "Connect"
    BY <2>1, <2>3, <2>4 DEF ConnectOnce, LastCalls
  <2> QED
    BY <2>5 DEF ConnectOnce
<1>3. ASSUME NEW e \in events, OtherEvent(e) \/ Callback(e) \/ DoUpdateFails(e), ~Connect(e)
      PROVE  ConnectOnce'
  <2>1. fault = "none"
    BY <1>3 DEF OtherEvent, Callback, DoUpdateFails, ConnectFails, WaitForNextUpdate,
       ForwardUpFails, ForwardTerminate, ForwardFirst, ForwardUpdate, CallbackFails,
       DoInitialize, HandleUpdate, StopBegin, Runs
  <2>2. \A f \in events' : f.fn = "Connect" => f \in events
    BY <1>3, <2>1, NoNewConnect DEF GatewayInv, Insufficient
  <2>3. CASE StopBegin(e)
    <3>1. e \in Stops /\ main = "run"
      BY <2>3 DEF StopBegin, Runs, Stops
    <3>2. state = "CONNECTED"
      BY <2>1, <3>1
      DEF GatewayInv, Insufficient, EveryInv, StopInv, StopRunsLast, ThreadThrough
    <3> QED
      BY <1>1, <2>2, <3>2
  <2>4. CASE ~StopBegin(e)
    <3>1. state' = state
      BY <1>3, <2>4 DEF OtherEvent, Callback, DoUpdateFails, ConnectFails,
         WaitForNextUpdate, ForwardUpFails, ForwardTerminate, ForwardFirst, ForwardUpdate,
         CallbackFails, DoInitialize, HandleUpdate, Abort
    <3> QED
      BY <1>1, <2>2, <3>1
  <2> QED
    BY <2>3, <2>4
<1>4. ASSUME NEW r \in bus, HandleReceive(r)
      PROVE  ConnectOnce'
  <2>1. fault = "none" /\ Return(r.at, events, <<>>) /\ state' = state
    BY <1>4 DEF HandleReceive
  <2>2. \A f \in events' : f \in events \/ f.fn \in LastCalls
    BY <2>1, GainsNothing DEF GatewayInv, Insufficient, EveryInv
  <2> QED
    BY <1>1, <2>1, <2>2 DEF LastCalls
<1>5. CASE StopEnd
  <2>1. /\ fault = "none" /\ state' = state
        /\ Return(now, Cancel(events, eventWait), <<>>)
    BY <1>5 DEF StopEnd
  <2>2. \A f \in events' : f \in Cancel(events, eventWait) \/ f.fn \in LastCalls
    BY <2>1, GainsNothing DEF GatewayInv, Insufficient, EveryInv
  <2> QED
    BY <1>1, <2>1, <2>2 DEF LastCalls, Cancel
<1>6. CASE Destroy
  <2>1. fault = "none" /\ events' = events /\ (state' = state \/ eventDestroy)
    BY <1>6 DEF Destroy
  <2>2. eventDestroy => state # "CREATED"
    BY <2>1 DEF GatewayInv, Insufficient, EveryInv, IInv, HeldInv, NothingBeforeConnect
  <2> QED
    BY <1>1, <2>1, <2>2
<1>7. CASE RunReturns
  BY <1>1, <1>7 DEF RunReturns
<1> QED
  BY <1>2, <1>3, <1>4, <1>5, <1>6, <1>7 DEF TheGateway, Callback

LEMMA ConnectOnceNext ==
  ASSUME ConnectOnce, BusInv, GatewayInv, [CoNext]_coVars
  PROVE  ConnectOnce'
<1>1. CASE UNCHANGED <<events, state>>
  BY <1>1 DEF ConnectOnce
<1>2. CASE TheServer \/ TheThread \/ CoTerminating \/ UNCHANGED coVars
  <2>1. UNCHANGED <<events, state>>
    BY <1>2, ServerFrame
    DEF TheThread, ConnectionReset, Thread, ThreadCheck, ThreadRecv, ThreadHangup,
        ThreadRecvFails, ThreadPush, ThreadForward, ThreadScheduleStop, ThreadFrame,
        CoTerminating, coVars, vars, simulator
  <2> QED
    BY <1>1, <2>1
<1> QED
  BY <1>2, ConnectOnceGateway DEF CoNext

LEMMA ProgramNext ==
  CoBase /\ ProgramInv /\ [CoNext]_coVars => ProgramInv'
BY SentNext, ConnectionNext, ConnectOnceNext DEF CoBase, ProgramInv

LEMMA ProgramInit == CoInit => ProgramInv
<1> SUFFICES ASSUME CoInit PROVE ProgramInv
  OBVIOUS
<1>1. /\ sent = <<>> /\ conn = "none" /\ state = "CREATED" /\ thread = "none"
      /\ stopped = FALSE /\ main = "run" /\ pc = "start" /\ step = 0
  BY DEF CoInit, Init
<1>2. SentInv /\ StepInv /\ ConnectionInv
  BY <1>1 DEF SentInv, StepInv, ConnectionInv, InLoop, AtEnd
<1>3. ConnectOnce
  <2>1. events = Schedule({}, <<Entry(0, "Connect", NoMessage)>>)
    BY MainAssumption DEF CoInit, Init
  <2>2. PICK u : events = {[ts |-> 0, uid |-> u, fn |-> "Connect", msg |-> NoMessage]}
    BY <2>1 DEF Schedule, Entry
  <2> QED
    BY <1>1, <2>2 DEF ConnectOnce
<1> QED
  BY <1>2, <1>3 DEF ProgramInv

-----------------------------------------------------------------------------
(* The turns of the two programs.                                          *)

\* While the gateway's process lives its invariants hold.
Live == EveryInv /\ TimingInv

\* The callbacks that ran, and the messages that were seen and sent.
LEMMA TurnCounts ==
  ASSUME Live, CoTypes, TurnInv
  PROVE  /\ Len(delivered) \in Nat /\ DOMAIN delivered = 1..Len(delivered)
         /\ Seen \in Nat /\ Len(sent) \in Nat /\ DOMAIN sent = 1..Len(sent)
         /\ Len(delivered) <= Seen /\ Seen <= Len(sent)
         /\ Len(replies) = Len(delivered)
<1> DEFINE d == Len(delivered)
<1>1. /\ d \in Nat /\ DOMAIN delivered = 1..d
      /\ \A i \in 1..d : delivered[i].msg \in Messages
  <2>1. delivered \in Seq([msg : Messages, at : Nat])
    BY DEF Live, EveryInv, IInv, TypeOK
  <2>2. d \in Nat /\ DOMAIN delivered = 1..d
    BY <2>1, LenProperties
  <2>3. \A i \in 1..d : delivered[i] \in [msg : Messages, at : Nat]
    BY <2>1, ElementOfSeq
  <2> QED
    BY <2>2, <2>3
<1>2. Seen \in Nat /\ Len(sent) \in Nat /\ DOMAIN sent = 1..Len(sent) /\ Seen <= Len(sent)
  BY SentTypes DEF Live
<1>3. d <= Seen
  <2>1. CASE d = 0
    BY <1>2, <2>1
  <2>2. CASE d # 0
    <3>1. d \in 1..d
      BY <1>1, <2>2
    <3>2. delivered[d].msg = d /\ d \in Messages
      BY <1>1, <3>1 DEF TurnInv
    <3>3. d \in Reached(d)
      BY <1>1, <3>1, <3>2 DEF Reached
    <3>4. Placed(d)
      BY <3>2 DEF Live, EveryInv, DeliveryInv
    <3> QED
      BY <3>3, <3>4 DEF Placed, Forwarding
  <2> QED
    BY <2>1, <2>2
<1> QED
  BY <1>1, <1>2, <1>3 DEF TurnInv

\* The server has received no more responses than there are.
LEMMA AnswersCome ==
  ASSUME CoTypes, Whole
  PROVE  Unread = Len(replies) - answered /\ Unread \in Nat /\ answered <= Len(replies)
<1>1. Len(replies) \in Nat /\ answered \in Nat
  BY LenProperties DEF CoTypes, MessageTypes, ServerTypes
<1>2. Unread = Len(replies) - answered
  BY <1>1 DEF Unread, Whole
<1> QED
  BY <1>1, <1>2 DEF CoTypes, MessageTypes

\* A callback that runs has the next message, which the server waits to see answered,
\* and the gateway is connected.
LEMMA CallbackTurn ==
  ASSUME Live, CoTypes, ProgramInv, Whole, AnswerInv, TurnInv,
         NEW e \in events, e.fn \in CallbackFns,
         main = "run", fault = "none", ~stopped
  PROVE  /\ e.msg = Len(delivered) + 1 /\ e.ts = sent[e.msg] - sent[1]
         /\ pc = "recv" /\ answered = Len(delivered)
         /\ state = "CONNECTED" /\ conn = "open"
<1> DEFINE d == Len(delivered)
           S == Len(sent)
<1>1. /\ d \in Nat /\ DOMAIN delivered = 1..d /\ S \in Nat /\ Seen \in Nat
      /\ Seen <= S /\ answered \in Nat /\ answered <= d
  BY TurnCounts, AnswersCome DEF CoTypes, ServerTypes
<1>2. PICK m : m = e.msg
  OBVIOUS
<1>3. /\ m \in Messages /\ m \in 1..Seen /\ Reached(m) = {} /\ ~(sent[m] < 0)
      /\ e.ts = sent[m] - sent[1]
  BY <1>2, CallbackSeen, CallbackTime DEF Live
<1>4. m \notin 1..d
  <2>1. \A i \in 1..d : delivered[i].msg = i
    BY <1>1 DEF TurnInv
  <2> QED
    BY <1>1, <1>3, <2>1 DEF Reached
<1>5. m > d /\ m <= S /\ m \in Nat
  BY <1>1, <1>3, <1>4
<1>6. ~Ended
  BY DEF Ended
<1> HIDE DEF d, S
<1>7. ~AtEnd
  <2>1. SUFFICES ASSUME AtEnd PROVE FALSE
    OBVIOUS
  <2>2. S = answered \/ (S = answered + 1 /\ sent[S] = -1)
    BY <1>6, <2>1 DEF AnswerInv, S
  <2>3. m = S /\ sent[S] = -1
    BY <1>1, <1>5, <2>2
  <2> QED
    BY <1>3, <2>3
<1>8. S = IF pc = "recv" THEN answered + 1 ELSE answered
  BY <1>7 DEF AnswerInv, S
<1>9. pc = "recv" /\ answered = d /\ m = d + 1
  BY <1>1, <1>5, <1>8
<1>10. state = "CONNECTED" /\ conn = "open"
  <2>1. conn \in {"none", "open", "closed"} /\ state \in {"CREATED", "CONNECTED", "STOPPING"}
    BY DEF Live, EveryInv, IInv, TypeOK
  <2> QED
    BY <1>9, <2>1 DEF ProgramInv, ConnectionInv, InLoop
<1> QED
  BY <1>2, <1>3, <1>9, <1>10 DEF d

\* What a callback delivers.
LEMMA CallbackDelivers ==
  ASSUME Live, NEW e \in events, Callback(e)
  PROVE  /\ Len(delivered) \in Nat /\ DOMAIN delivered = 1..Len(delivered)
         /\ Len(delivered') = Len(delivered) + 1
         /\ delivered'[Len(delivered) + 1] = [msg |-> e.msg, at |-> e.ts]
         /\ \A i \in 1..Len(delivered) : delivered'[i] = delivered[i]
         /\ DOMAIN delivered' = 1..(Len(delivered) + 1)
<1>1. Deliver(e)
  BY DEF Callback, DoInitialize, HandleUpdate
<1>2. IInv /\ IsNext(e, events) /\ e.fn \in CallbackFns
  BY DEF Live, EveryInv, Callback, DoInitialize, HandleUpdate, Runs, CallbackFns
<1>3. [msg |-> e.msg, at |-> e.ts] \in [msg : Messages, at : Nat]
  BY <1>2, NextEvent
<1>4. delivered \in Seq([msg : Messages, at : Nat])
  BY <1>2 DEF IInv, TypeOK
<1>5. delivered' = Append(delivered, [msg |-> e.msg, at |-> e.ts])
  BY <1>1 DEF Deliver
<1>6. /\ delivered' \in Seq([msg : Messages, at : Nat])
      /\ Len(delivered') = Len(delivered) + 1
      /\ delivered'[Len(delivered) + 1] = [msg |-> e.msg, at |-> e.ts]
      /\ \A i \in 1..Len(delivered) : delivered'[i] = delivered[i]
  BY <1>3, <1>4, <1>5, AppendProperties
<1>7. DOMAIN delivered' = 1..Len(delivered')
  BY <1>6, LenProperties
<1>8. Len(delivered) \in Nat /\ DOMAIN delivered = 1..Len(delivered)
  BY <1>4, LenProperties
<1> QED
  BY <1>6, <1>7, <1>8

\* It replies.
LEMMA CallbackReplies ==
  ASSUME CoTypes, NEW e \in events, Callback(e), DoUpdate(e.msg, e.ts), conn = "open"
  PROVE  Len(replies') = Len(replies) + 1 /\ replies' = Append(replies, count)
<1>1. Deliver(e)
  BY DEF Callback, DoInitialize, HandleUpdate
<1>2. responses' = responses + 1
  BY <1>1, ResponsesAssumption DEF Deliver
<1>3. /\ responses \in Nat /\ replies \in Seq([Vehicles -> Values])
      /\ count \in [Vehicles -> Values]
  BY DEF CoTypes, MessageTypes, VehicleTypes
<1>4. replies' = Append(replies, count)
  BY <1>2, <1>3 DEF DoUpdate
<1>5. Len(replies') = Len(replies) + 1
  BY <1>3, <1>4, AppendProperties
<1> QED
  BY <1>4, <1>5

LEMMA AnswerServer ==
  ASSUME CoTypes, StepInv, Whole, AnswerInv, TurnInv, TheServer
  PROVE  AnswerInv'
<1> DEFINE S == Len(sent)
<1>1. /\ S \in Nat /\ answered \in Nat /\ Len(replies) \in Nat
      /\ Unread = Len(replies) - answered /\ Len(replies) <= S
  BY LenProperties, AnswersCome DEF CoTypes, MessageTypes, ServerTypes, TurnInv
<1>2. Ended' = Ended \/ CloseSockets
  BY ServerFrame DEF Ended, simulator
<1>3. CASE SendStep
  <2>1. /\ pc = "send" /\ pc' = "recv" /\ sent' = Append(sent, Stamp(step))
        /\ UNCHANGED answered
    BY <1>3 DEF SendStep, ServerSend
  <2>2. Stamp(step) \in Headers
    BY StampType DEF CoTypes, LoopTypes
  <2>3. Len(sent') = S + 1
    BY <2>1, <2>2, SentMore DEF CoTypes
  <2> QED
    BY <2>1, <2>3 DEF AnswerInv, AtEnd
<1>4. CASE SendTerminate
  <2>1. /\ pc = "terminate" /\ pc' = "close" /\ sent' = Append(sent, -1)
        /\ UNCHANGED answered
    BY <1>4 DEF SendTerminate, ServerSend
  <2>2. -1 \in Headers
    BY StampsAssumption DEF Headers
  <2>3. Len(sent') = S + 1 /\ sent'[S + 1] = -1
    BY <2>1, <2>2, SentMore DEF CoTypes
  <2> QED
    BY <2>1, <2>3 DEF AnswerInv, AtEnd
<1>5. CASE NextStep \/ DividesByZero \/ LastStep
  <2>1. Answer /\ sent' = sent /\ pc' \in {"send", "close", "terminate"}
    BY <1>5 DEF NextStep, DividesByZero, LastStep, vars, server
  <2>2. PICK k \in 1..Unread : answered' = answered + k
    BY <2>1 DEF Answer
  <2>3. pc = "recv" /\ S = answered + 1
    BY <2>1 DEF Answer, AnswerInv, AtEnd
  <2>4. k = 1
    BY <1>1, <2>3
  <2>5. S = answered'
    BY <2>2, <2>3, <2>4
  <2> QED
    BY <2>1, <2>5 DEF AnswerInv, AtEnd
<1>6. CASE GatewayGone
  <2>1. /\ pc \in {"send", "recv", "terminate"} /\ pc' = "close" /\ Ended
        /\ UNCHANGED <<sent, answered>> /\ Ended' = Ended
    BY <1>6 DEF GatewayGone, vars, server, simulator, Ended
  <2> QED
    BY <2>1 DEF AnswerInv, AtEnd
<1>7. CASE CloseSockets
  <2>1. pc = "close" /\ pc' = "done" /\ UNCHANGED <<sent, answered>> /\ (Ended => Ended')
    BY <1>7 DEF CloseSockets, Closed, ServerClose, vars, server, simulator, Ended
  <2> QED
    BY <2>1 DEF AnswerInv, AtEnd
<1>8. CASE Listen \/ ListenFails \/ Accept
  <2>1. pc \in {"start", "accept"} /\ pc' # "recv" /\ UNCHANGED <<sent, answered>>
    BY <1>8 DEF Listen, ListenFails, Accept, vars, server
  <2>2. S = answered
    BY <2>1 DEF AnswerInv, AtEnd
  <2> QED
    BY <2>1, <2>2 DEF AnswerInv
<1> QED
  BY <1>3, <1>4, <1>5, <1>6, <1>7, <1>8 DEF TheServer

\* The end of the gateway's process is for good.
LEMMA EndedStays ==
  ASSUME Ended, TheGateway \/ TheThread \/ CoTerminating \/ UNCHANGED coVars
  PROVE  Ended'
<1>1. CASE fault # "none"
  <2>1. fault' = fault
    BY <1>1, FaultStays DEF vars, CoNext
  <2> QED
    BY <1>1, <2>1 DEF Ended
<1>2. CASE fault = "none"
  <2>1. main = "done"
    BY <1>2 DEF Ended
  <2>2. ~TheGateway
    BY <2>1 DEF TheGateway, OtherEvent, Connect, ConnectFails, WaitForNextUpdate,
       ForwardUpFails, ForwardTerminate, ForwardFirst, ForwardUpdate, CallbackFails,
       StopBegin, DoInitialize, HandleUpdate, DoUpdateFails, Runs, HandleReceive, StopEnd,
       Destroy, RunReturns
  <2>3. main' = main
    BY <2>2 DEF TheThread, ConnectionReset, Thread, ThreadCheck, ThreadRecv, ThreadHangup,
       ThreadRecvFails, ThreadPush, ThreadForward, ThreadScheduleStop, ThreadFrame,
       CoTerminating, coVars, vars, simulator
  <2> QED
    BY <2>1, <2>3 DEF Ended
<1> QED
  BY <1>1, <1>2

LEMMA AnswerNext ==
  ASSUME CoTypes, StepInv, Whole, AnswerInv, TurnInv, [CoNext]_coVars
  PROVE  AnswerInv'
<1>1. CASE TheServer
  BY <1>1, AnswerServer
<1>2. CASE TheGateway \/ TheThread \/ CoTerminating \/ UNCHANGED coVars
  <2>1. UNCHANGED <<sent, pc, answered>>
    BY <1>2, GatewaySplit DEF program
  <2>2. Ended => Ended'
    BY <1>2, EndedStays
  <2> QED
    BY <2>1, <2>2 DEF AnswerInv, AtEnd
<1> QED
  BY <1>1, <1>2 DEF CoNext

\* The clock does not go back.
LEMMA ClockForward ==
  ASSUME BusInv, GatewayInv, [CoNext]_coVars
  PROVE  now' = now \/ (Live /\ now \in Nat /\ now' \in Nat /\ now <= now')
<1>1. CASE fault # "none"
  BY <1>1, FaultStays DEF vars, simulator
<1>2. CASE fault = "none"
  <2>1. Live /\ IInv /\ now \in Nat
    BY <1>2 DEF GatewayInv, Insufficient, EveryInv, IInv, TypeOK, Live
  <2>2. ASSUME NEW e \in events, OtherEvent(e) \/ Callback(e) \/ DoUpdateFails(e)
        PROVE  now' = now \/ (now' \in Nat /\ now <= now')
    <3>1. IsNext(e, events) /\ (now' = e.ts \/ now' = now)
      BY <2>2, ClockOfEvent
    <3>2. e.ts \in Nat /\ e.ts >= now
      BY <2>1, <3>1, NextEvent
    <3> QED
      BY <2>1, <3>1, <3>2
  <2>3. ASSUME NEW r \in bus, HandleReceive(r)
        PROVE  now' \in Nat /\ now <= now'
    <3>1. now' = r.at
      BY <2>3 DEF HandleReceive, Return
    <3>2. r.at \in Nat /\ r.at >= now
      BY DEF BusInv, Receipts
    <3> QED
      BY <2>1, <3>1, <3>2
  <2>4. ASSUME StopEnd \/ Destroy \/ RunReturns PROVE now' = now
    BY <2>4 DEF StopEnd, Destroy, RunReturns, Return
  <2>5. ASSUME TheServer \/ TheThread \/ CoTerminating \/ UNCHANGED coVars PROVE now' = now
    BY <2>5, ServerFrame
    DEF TheThread, ConnectionReset, Thread, ThreadCheck, ThreadRecv, ThreadHangup,
        ThreadRecvFails, ThreadPush, ThreadForward, ThreadScheduleStop, ThreadFrame,
        CoTerminating, coVars, vars, simulator
  <2> QED
    BY <2>1, <2>2, <2>3, <2>4, <2>5 DEF CoNext, TheGateway, Callback
<1> QED
  BY <1>1, <1>2

\* Nothing was delivered or sent, and the clock moved on.
LEMMA TurnKept ==
  ASSUME TurnInv, BusInv, GatewayInv, [CoNext]_coVars,
         UNCHANGED <<sent, orders, delivered, replies, mobility>>
  PROVE  TurnInv'
<1>1. now' = now \/ (Live /\ now \in Nat /\ now' \in Nat /\ now <= now')
  BY ClockForward
<1>2. ASSUME NEW i \in DOMAIN delivered
      PROVE  delivered[i].at <= now'
  <2>1. CASE now' = now
    BY <2>1 DEF TurnInv
  <2>2. CASE Live /\ now \in Nat /\ now' \in Nat /\ now <= now'
    <3>1. delivered \in Seq([msg : Messages, at : Nat])
      BY <2>2 DEF Live, EveryInv, IInv, TypeOK
    <3>2. delivered[i] \in [msg : Messages, at : Nat]
      BY <3>1, ElementOfSeq, LenProperties
    <3>3. delivered[i].at <= now
      BY DEF TurnInv
    <3> QED
      BY <2>2, <3>2, <3>3
  <2> QED
    BY <1>1, <2>1, <2>2
<1> QED
  BY <1>2 DEF TurnInv

LEMMA TurnServer ==
  ASSUME CoTypes, TurnInv, BusInv, GatewayInv, TheServer
  PROVE  TurnInv'
<1> DEFINE S == Len(sent)
           d == Len(delivered)
<1>1. UNCHANGED <<now, delivered, replies, mobility>>
  BY ServerFrame DEF simulator, history, vehicles
<1>2. CASE SendStep \/ SendTerminate
  <2>1. PICK h \in Headers, order \in Worlds \cup {<<>>} :
          ServerSend(h) /\ orders' = Append(orders, order)
    <3>1. CASE SendStep
      BY <3>1, StampType DEF SendStep, CoTypes, LoopTypes, ServerTypes
    <3>2. CASE SendTerminate
      <4>1. -1 \in Headers
        BY StampsAssumption DEF Headers
      <4> QED
        BY <3>2, <4>1 DEF SendTerminate
    <3> QED
      BY <1>2, <3>1, <3>2
  <2>2. fault = "none" /\ sent' = Append(sent, h)
    BY <2>1 DEF ServerSend, Ended
  <2>3. Live
    BY <2>2 DEF GatewayInv, Insufficient, Live
  <2>4. d \in Nat /\ DOMAIN delivered = 1..d /\ S \in Nat /\ d <= S
    BY <2>3, TurnCounts
  <2>5. Len(sent') = S + 1 /\ \A m \in 1..S : sent'[m] = sent[m]
    BY <2>2, SentMore DEF CoTypes
  <2>6. \A m \in 1..S : orders'[m] = orders[m]
    <3>1. orders \in Seq(Worlds \cup {<<>>}) /\ Len(orders) = S
      BY DEF CoTypes, MessageTypes
    <3> QED
      BY <2>1, <3>1, AppendProperties
  <2> HIDE DEF S, d
  <2>7. ASSUME NEW i \in 1..d
        PROVE  delivered[i].at = sent'[i] - sent'[1]
    <3>1. i \in 1..S /\ 1 \in 1..S
      BY <2>4
    <3>2. sent'[i] = sent[i] /\ sent'[1] = sent[1]
      BY <2>5, <3>1
    <3> QED
      BY <2>4, <3>2 DEF TurnInv
  <2>8. ASSUME delivered # <<>>
        PROVE  orders'[d] = orders[d]
    <3>1. delivered \in Seq([msg : Messages, at : Nat])
      BY <2>3 DEF Live, EveryInv, IInv, TypeOK
    <3>2. d # 0
      BY <2>8, <3>1, EmptySeq DEF d
    <3> QED
      BY <2>4, <2>6, <3>2
  <2>9. d <= Len(sent')
    BY <2>4, <2>5
  <2> QED
    BY <1>1, <2>4, <2>7, <2>8, <2>9 DEF TurnInv, d
<1>3. CASE ~SendStep /\ ~SendTerminate
  <2>1. UNCHANGED <<sent, orders>>
    BY <1>3, ServerFrame
  <2> QED
    BY <1>1, <2>1 DEF TurnInv
<1> QED
  BY <1>2, <1>3

LEMMA TurnCallback ==
  ASSUME CoBase, ProgramInv, Whole, AnswerInv, TurnInv,
         NEW e \in events, Callback(e), DoUpdate(e.msg, e.ts), UNCHANGED <<sent, program>>
  PROVE  /\ TurnInv' /\ Live /\ pc = "recv"
         /\ e.msg = Len(delivered) + 1 /\ Len(delivered') = Len(delivered) + 1
<1> DEFINE d == Len(delivered)
           m == d + 1
<1>1. /\ IsNext(e, events) /\ e.fn \in CallbackFns /\ now' = e.ts
      /\ main = "run" /\ fault = "none" /\ ~stopped
  BY DEF Callback, DoInitialize, HandleUpdate, Runs, Return, CallbackFns
<1>2. Live /\ CoTypes
  BY <1>1 DEF CoBase, GatewayInv, Insufficient, Live
<1>3. /\ e.msg = m /\ e.ts = sent[m] - sent[1] /\ pc = "recv" /\ conn = "open"
  BY <1>1, <1>2, CallbackTurn
<1>4. e.ts \in Nat /\ now \in Nat /\ e.ts >= now
  BY <1>1, <1>2, NextEvent DEF Live, EveryInv, IInv, TypeOK
<1>5. /\ d \in Nat /\ DOMAIN delivered = 1..d /\ Len(replies) = d
  BY <1>2, TurnCounts
<1>6. /\ Len(replies') = Len(replies) + 1 /\ Len(delivered') = m
      /\ delivered'[m] = [msg |-> m, at |-> e.ts]
      /\ \A i \in 1..d : delivered'[i] = delivered[i]
      /\ DOMAIN delivered' = 1..m
  BY <1>2, <1>3, CallbackDelivers, CallbackReplies
<1>7. m \in 1..Len(sent) /\ orders' = orders
  <2>1. e.msg \in 1..Len(sent)
    BY <1>1, <1>2, OrderOfCallback DEF Live
  <2> QED
    BY <1>3, <2>1 DEF program
<1>8. \A i \in 1..d : delivered[i] \in [msg : Messages, at : Nat]
  <2>1. delivered \in Seq([msg : Messages, at : Nat])
    BY <1>2 DEF Live, EveryInv, IInv, TypeOK
  <2> QED
    BY <2>1, ElementOfSeq
<1> HIDE DEF d
<1>9. ASSUME NEW i \in 1..m
      PROVE  /\ delivered'[i].msg = i /\ delivered'[i].at = sent[i] - sent[1]
             /\ delivered'[i].at <= e.ts
  <2>1. CASE i = m
    BY <1>3, <1>4, <1>6, <2>1
  <2>2. CASE i # m
    <3>1. i \in 1..d
      BY <1>5, <2>2
    <3>2. delivered'[i] = delivered[i] /\ delivered[i].at \in Nat
      BY <1>6, <1>8, <3>1
    <3>3. /\ delivered[i].msg = i /\ delivered[i].at = sent[i] - sent[1]
          /\ delivered[i].at <= now
      BY <1>5, <3>1 DEF TurnInv
    <3> QED
      BY <1>4, <3>2, <3>3
  <2> QED
    BY <2>1, <2>2
<1>10. ASSUME NEW n \in Vehicles
       PROVE  /\ mobility'[n].position = orders'[m][n].position
              /\ mobility'[n].velocity = orders'[m][n].velocity
  <2>1. /\ mobility[n] \in Models
        /\ orders[m][n] \in [position : Values, velocity : Speed, broadcast : BOOLEAN]
        /\ mobility'[n] = MovedBy(mobility[n], orders[m][n])
    BY <1>1, <1>2, <1>3, UpdateMoves DEF Live
  <2>2. /\ MovedBy(mobility[n], orders[m][n]).position = orders[m][n].position
        /\ MovedBy(mobility[n], orders[m][n]).velocity = orders[m][n].velocity
    BY <2>1, MovedByOrder
  <2> QED
    BY <1>7, <2>1, <2>2
<1>11. delivered' # <<>>
  BY <1>5, <1>6
<1>12. Len(replies') = Len(delivered') /\ Len(delivered') <= Len(sent')
  BY <1>5, <1>6, <1>7
<1>13. TurnInv'
  BY <1>1, <1>6, <1>9, <1>10, <1>11, <1>12 DEF TurnInv
<1> QED
  BY <1>2, <1>3, <1>6, <1>13 DEF d

LEMMA TurnNext ==
  ASSUME CoBase, ProgramInv, Whole, AnswerInv, TurnInv, [CoNext]_coVars
  PROVE  TurnInv'
<1>1. CASE TheServer
  BY <1>1, TurnServer DEF CoBase
<1>2. CASE TheGateway \/ TheThread \/ CoTerminating \/ UNCHANGED coVars
  <2>1. UNCHANGED <<sent, program>>
    BY <1>2, GatewaySplit
  <2>2. ASSUME NEW e \in events, Callback(e), DoUpdate(e.msg, e.ts)
        PROVE  TurnInv'
    BY <2>1, <2>2, TurnCallback
  <2>3. ASSUME UNCHANGED <<delivered, replies, mobility>>
        PROVE  TurnInv'
    BY <2>1, <2>3, TurnKept DEF CoBase, program
  <2>4. ASSUME NEW r \in bus, HandleReceive(r)
        PROVE  UNCHANGED <<delivered, replies, mobility>>
    BY <2>4 DEF HandleReceive, history
  <2> QED
    BY <1>2, <2>2, <2>3, <2>4, GatewaySplit
<1> QED
  BY <1>1, <1>2 DEF CoNext

-----------------------------------------------------------------------------
(* The two programs move in lock step.                                     *)

CoInv == CoBase /\ ProgramInv /\ LockInv

LEMMA CoInvInit == CoInit => CoInv
<1> SUFFICES ASSUME CoInit PROVE CoInv
  OBVIOUS
<1>1. /\ sent = <<>> /\ replies = <<>> /\ delivered = <<>> /\ pc = "start" /\ answered = 0
      /\ mobility = NewVehicles
  BY DEF CoInit, Init
<1>2. AnswerInv
  BY <1>1 DEF AnswerInv, AtEnd
<1>3. TurnInv
  BY <1>1 DEF TurnInv, NewVehicles, Created
<1> QED
  BY <1>2, <1>3, CoBaseInit, ProgramInit DEF CoInv, LockInv

LEMMA CoInvNext == CoInv /\ [CoNext]_coVars => CoInv'
<1> SUFFICES ASSUME CoInv, [CoNext]_coVars PROVE CoInv'
  OBVIOUS
<1>1. CoBase' /\ ProgramInv'
  BY CoBaseNext, ProgramNext DEF CoInv
<1>2. Whole' = Whole
  BY LoopNext DEF Whole, CoNext, TheServer, Listen, ListenFails, Accept, SendStep, NextStep,
     DividesByZero, LastStep, SendTerminate, GatewayGone, CloseSockets, TheGateway,
     TheThread, CoTerminating, coVars, program
<1>3. ASSUME Whole PROVE AnswerInv' /\ TurnInv'
  BY <1>3, AnswerNext, TurnNext DEF CoInv, CoBase, LockInv, ProgramInv
<1> QED
  BY <1>1, <1>2, <1>3 DEF CoInv, LockInv

LEMMA CoInvariance == CoSpec => []CoInv
BY CoInvInit, CoInvNext, PTL DEF CoSpec

\* Where the gateway is when the server makes up its next step.
LEMMA InvImpliesInStep == CoInv => InStep
<1> SUFFICES ASSUME CoInv, pc \in {"send", "terminate"}, Len(orders) > 0, fault = "none",
                    args.pieces = 1
             PROVE  /\ Len(delivered) = Len(sent) /\ InTransit = <<>>
                    /\ now = sent[Len(sent)] - sent[1]
                    /\ \A n \in Vehicles :
                         /\ mobility[n].position = orders[Len(orders)][n].position
                         /\ mobility[n].velocity = orders[Len(orders)][n].velocity
  BY DEF InStep
<1> DEFINE d == Len(delivered)
           S == Len(sent)
<1>1. Live /\ CoTypes /\ ProgramInv /\ AnswerInv /\ TurnInv /\ Whole
  BY DEF CoInv, CoBase, GatewayInv, Insufficient, LockInv, Live, Whole
<1>2. /\ d \in Nat /\ DOMAIN delivered = 1..d /\ S \in Nat /\ Seen \in Nat
      /\ d <= Seen /\ Seen <= S /\ answered \in Nat /\ answered <= d
  BY <1>1, TurnCounts, AnswersCome DEF CoTypes, ServerTypes
<1>3. S = answered /\ InLoop /\ ~AtEnd /\ pc # "done" /\ S = Len(orders)
  BY <1>1 DEF AnswerInv, AtEnd, InLoop, CoTypes, MessageTypes
<1>4. d = S /\ Seen = S /\ S > 0
  BY <1>2, <1>3
<1>5. InTransit = <<>>
  <2>1. Len(sent) - Len(InTransit) = Seen
    BY <1>1, InTransitInOrder DEF Live, EveryInv, DeliveryInv
  <2>2. InTransit \in Seq(Messages)
    BY <1>1, ConcatElements DEF Live, EveryInv, IInv, TypeOK, InTransit
  <2>3. Len(InTransit) \in Nat
    BY <2>2, LenProperties
  <2>4. Len(InTransit) = 0
    BY <1>2, <1>4, <2>1, <2>3
  <2> QED
    BY <2>2, <2>4, EmptySeq
<1>6. /\ delivered[d].at = sent[S] - sent[1] /\ delivered[d].at <= now
      /\ delivered[d].at \in Nat /\ now \in Nat
  <2>1. delivered \in Seq([msg : Messages, at : Nat]) /\ now \in Nat
    BY <1>1 DEF Live, EveryInv, IInv, TypeOK
  <2>2. d \in 1..d
    BY <1>2, <1>4
  <2>3. delivered[d] \in [msg : Messages, at : Nat]
    BY <2>1, <2>2, ElementOfSeq
  <2> QED
    BY <1>1, <1>2, <1>4, <2>1, <2>2, <2>3 DEF TurnInv
<1>7. state = "CONNECTED" /\ ~stopped
  <2>1. conn # "none" /\ state \in {"CREATED", "CONNECTED", "STOPPING"}
    BY <1>1, <1>3 DEF ProgramInv, ConnectionInv, Live, EveryInv, IInv, TypeOK
  <2> QED
    BY <1>1, <1>3, <2>1 DEF ProgramInv, ConnectionInv
<1>8. now <= Granted /\ connectedAt = 0
  BY <1>1, <1>7 DEF Live, EveryInv, IInv, HeldInv, TimeGranted, TimingInv, ConnectInv
<1>9. timePause = sent[S] - sent[1]
  <2>1. S \in 1..Seen
    BY <1>2, <1>4
  <2>2. ~(sent[S] < 0)
    BY <1>1, <1>7, <2>1 DEF Live, TimingInv, StampInv, StartKnown
  <2> QED
    BY <1>1, <1>4, <2>2 DEF Live, TimingInv, StampInv, PauseKnown
<1>10. now = sent[S] - sent[1]
  <2>1. timePause \in Int /\ timePause = delivered[d].at
    BY <1>1, <1>6, <1>9 DEF Live, EveryInv, IInv, TypeOK
  <2> QED
    BY <1>6, <1>8, <1>9, <2>1 DEF Granted
<1>11. ASSUME NEW n \in Vehicles
       PROVE  /\ mobility[n].position = orders[S][n].position
              /\ mobility[n].velocity = orders[S][n].velocity
  <2>1. delivered # <<>>
    BY <1>4
  <2> QED
    BY <1>1, <1>4, <2>1 DEF TurnInv
<1> QED
  BY <1>3, <1>4, <1>5, <1>10, <1>11

\* Lock step, with every command line: when the server makes up the next step the
\* gateway has taken in every message, its vehicles are where the server put them and
\* its clock stands at the time last sent (simple-gateway-server.cc:151-170,
\* README.md:73-77), unless a response comes in pieces.
THEOREM LockStep == CoSpec => []InStep
BY CoInvariance, InvImpliesInStep, PTL

-----------------------------------------------------------------------------
(* Command lines that fit.                                                 *)

\* The stamps of a server whose command line fits are ints, and do not decrease.
LEMMA StampFits ==
  ASSUME LoopTypes, Fits, NEW k \in Nat, k < args.iterations
  PROVE  Stamp(k) = (args.timeStart + args.timeDelta * k) * Second
<1> DEFINE a == args.timeStart
           b == args.timeDelta
           n == args.iterations - 1
<1>1. /\ a \in Nat /\ b \in Nat /\ args.iterations \in Nat
      /\ Uint32 \in Nat \ {0} /\ Second \in Nat
  BY ArgsAssumption, SizesAssumption DEF LoopTypes, CommandLine
<1>2. n \in Nat /\ k <= n /\ a + b * n < Uint32 \div 2
  BY <1>1 DEF Fits
<1>3. b * k <= b * n /\ b * k \in Nat /\ b * n \in Nat
  BY <1>1, <1>2
<1> HIDE DEF a, b, n
<1>4. a + b * k \in Nat /\ a + b * k < Uint32 \div 2
  BY <1>1, <1>2, <1>3
<1>5. Uint32 \div 2 <= Uint32
  BY <1>1
<1>6. (a + b * k) % Uint32 = a + b * k
  BY <1>1, <1>4, <1>5
<1> QED
  BY <1>4, <1>6 DEF Stamp, a, b

LEMMA StampsAscend ==
  ASSUME LoopTypes, Fits, NEW j \in Nat, NEW k \in Nat, j <= k, k < args.iterations
  PROVE  Stamp(j) \in Nat /\ Stamp(k) \in Nat /\ Stamp(j) <= Stamp(k)
<1> DEFINE a == args.timeStart
           b == args.timeDelta
<1>1. /\ a \in Nat /\ b \in Nat /\ args.iterations \in Nat /\ Second \in Nat
  BY ArgsAssumption, SizesAssumption DEF LoopTypes, CommandLine
<1>2. /\ Stamp(j) = (a + b * j) * Second
      /\ Stamp(k) = (a + b * k) * Second
  BY <1>1, StampFits
<1>3. b * j <= b * k /\ b * j \in Nat /\ b * k \in Nat
  BY <1>1
<1> HIDE DEF a, b
<1>4. a + b * j \in Nat /\ a + b * k \in Nat /\ a + b * j <= a + b * k
  BY <1>1, <1>3
<1>5. \A x, y \in Nat : x <= y => x * Second <= y * Second /\ x * Second \in Nat
  BY <1>1
<1> QED
  BY <1>2, <1>4, <1>5

\* ForwardUp accepts every message of a server whose command line fits.
LEMMA ForwardFits ==
  ASSUME Live, CoTypes, ProgramInv, Fits, NEW e \in events, Runs(e, "ForwardUp"),
         messageQueue # <<>>
  PROVE  ForwardFault = "none"
<1>1. /\ Message = Seen + 1 /\ Message \in 1..Len(sent) /\ Header = sent[Message]
      /\ timeStart >= 0 =>
           /\ Seen >= 1 /\ timeStart = sent[1] /\ sent[1] \in Int
           /\ sent[Seen] \in Int /\ timePause = sent[Seen] - sent[1]
  BY NextSeen DEF Live
<1>2. Seen \in Nat /\ Len(sent) \in Nat /\ DOMAIN sent = 1..Len(sent) /\ timeStart \in Int
  BY SentTypes DEF Live, EveryInv, IInv, TypeOK
<1>3. PICK m : m = Message
  OBVIOUS
<1>4. m \in 1..Len(sent) /\ m = Seen + 1 /\ Header = sent[m]
  BY <1>1, <1>3
<1>5. sent[m] = -1 \/ (sent[m] = Stamp(m - 1) /\ m <= args.iterations)
  BY <1>2, <1>4 DEF ProgramInv, SentInv
<1>6. CASE sent[m] = -1
  BY <1>4, <1>6, HeadersAssumption DEF ForwardFault
<1>7. CASE sent[m] = Stamp(m - 1) /\ m <= args.iterations
  <2>1. m - 1 = Seen /\ Seen < args.iterations
    <3>1. args.iterations \in Nat
      BY ArgsAssumption DEF CoTypes, LoopTypes, CommandLine
    <3> QED
      BY <1>2, <1>4, <1>7, <3>1
  <2>2. Header = Stamp(Seen) /\ Header \in Nat
    BY <1>2, <1>4, <1>7, <2>1, StampsAscend DEF CoTypes
  <2>3. Header # BadHeader
    BY <2>2, HeadersAssumption
  <2>4. ASSUME timeStart >= 0 PROVE ~(Header - timeStart < now)
    <3>1. Seen >= 1 /\ timeStart = sent[1] /\ timePause = sent[Seen] - sent[1]
      BY <1>1, <2>4
    <3>2. Seen \in 1..Len(sent) /\ 1 \in 1..Len(sent) /\ Seen < Len(sent) /\ Seen - 1 \in Nat
      BY <1>2, <1>4, <3>1
    <3>3. sent[Seen] = Stamp(Seen - 1) /\ sent[1] = Stamp(0)
      <4>1. Seen # Len(sent) /\ 1 # Len(sent)
        <5>1. PICK x, y : x = Seen /\ y = Len(sent)
          OBVIOUS
        <5>2. x \in Nat /\ y \in Nat /\ x < y /\ x >= 1
          BY <1>2, <3>1, <3>2, <5>1
        <5> QED
          BY <5>1, <5>2
      <4>2. \A k \in 1..Len(sent) : k # Len(sent) => sent[k] = Stamp(k - 1)
        BY <1>2 DEF ProgramInv, SentInv
      <4>3. sent[Seen] = Stamp(Seen - 1) /\ sent[1] = Stamp(1 - 1)
        BY <3>2, <4>1, <4>2
      <4>4. 1 - 1 = 0
        OBVIOUS
      <4> QED
        BY <4>3, <4>4
    <3>4. /\ Stamp(0) \in Nat /\ Stamp(Seen - 1) \in Nat
          /\ Stamp(0) <= Stamp(Seen) /\ Stamp(Seen - 1) <= Stamp(Seen)
      <4>1. 0 <= Seen /\ Seen - 1 <= Seen
        BY <1>2
      <4> QED
        BY <1>2, <2>1, <3>2, <4>1, StampsAscend DEF CoTypes
    <3>5. now \in Nat /\ now <= Granted /\ connectedAt = 0
      BY ForwardConnected DEF Live
    <3> QED
      BY <2>2, <3>1, <3>3, <3>4, <3>5 DEF Granted
  <2> QED
    BY <1>4, <2>3, <2>4 DEF ForwardFault, IsLate, PauseFor
<1> QED
  BY <1>5, <1>6, <1>7

\* Nothing but a gateway that was refused ends in an error when the command line fits.
LEMMA WellRunNext == CoInv /\ WellRun /\ [CoNext]_coVars => WellRun'
<1> SUFFICES ASSUME CoInv, WellRun, [CoNext]_coVars, Fits', ~Refused' PROVE fault' = "none"
  BY DEF WellRun
<1>1. Fits
  <2>1. args' = args
    BY DEF CoNext, TheServer, Listen, ListenFails, Accept, SendStep, NextStep,
       DividesByZero, LastStep, SendTerminate, GatewayGone, CloseSockets, TheGateway,
       TheThread, CoTerminating, coVars, program
  <2> QED
    BY <2>1 DEF Fits
<1>2. fault = "none"
  <2>1. SUFFICES ASSUME fault # "none" PROVE FALSE
    OBVIOUS
  <2>2. fault' = fault
    BY <2>1, FaultStays DEF vars
  <2> QED
    BY <1>1, <2>1, <2>2 DEF WellRun, Refused
<1>3. Live /\ CoTypes /\ ProgramInv /\ AnswerInv /\ TurnInv /\ Whole
  BY <1>1, <1>2
  DEF CoInv, CoBase, GatewayInv, Insufficient, LockInv, Live, Whole, Fits
<1>4. ASSUME NEW e \in events, ForwardUpFails(e) PROVE FALSE
  <2>1. Runs(e, "ForwardUp") /\ e.fn = "ForwardUp" /\ ForwardFault # "none"
    BY <1>4 DEF ForwardUpFails, Runs
  <2>2. messageQueue # <<>>
    BY <1>3, <2>1, ForwardHasMessage DEF Live, EveryInv
  <2> QED
    BY <1>1, <1>3, <2>1, <2>2, ForwardFits
<1>5. ASSUME NEW e \in events, CallbackFails(e) PROVE FALSE
  <2>1. e.fn \in CallbackFns /\ main = "run" /\ ~stopped /\ ResponseFaults # {}
    BY <1>5 DEF CallbackFails, Runs, CallbackFns
  <2>2. state = "CONNECTED" /\ conn = "open"
    BY <1>2, <1>3, <2>1, CallbackTurn
  <2> QED
    BY <2>1, <2>2 DEF ResponseFaults, ConnectionIsReset
<1>6. ASSUME NEW e \in events, DoUpdateFails(e) PROVE FALSE
  <2>1. e.fn \in CallbackFns /\ ~DataFits(e.msg)
    BY <1>6 DEF DoUpdateFails, Runs, CallbackFns
  <2>2. N <= args.numberOfNodes
    BY <1>1, SizesAssumption, ArgsAssumption DEF Fits, CoTypes, LoopTypes, CommandLine
  <2> QED
    BY <1>3, <2>1, <2>2, OrderOfCallback DEF Live
<1>7. ASSUME NEW e \in events, ConnectFails(e) PROVE FALSE
  <2>1. e.fn = "Connect"
    BY <1>7 DEF ConnectFails, Runs
  <2>2. state = "CREATED"
    BY <1>3, <2>1 DEF ProgramInv, ConnectOnce
  <2>3. fault' = "cannot connect"
    BY <1>7, <2>2 DEF ConnectFails, Abort
  <2> QED
    BY <2>3 DEF Refused
<1>8. ASSUME NEW e \in events, OtherEvent(e) \/ Callback(e)
      PROVE  fault' = fault
  BY <1>4, <1>5, <1>7, <1>8
  DEF OtherEvent, Callback, Connect, WaitForNextUpdate, ForwardTerminate, ForwardFirst,
      ForwardUpdate, DoInitialize, HandleUpdate, StopBegin
<1>9. ASSUME NEW r \in bus, HandleReceive(r) PROVE fault' = fault
  BY <1>9 DEF HandleReceive
<1>10. ASSUME \/ StopEnd \/ Destroy \/ RunReturns \/ TheServer \/ TheThread
              \/ CoTerminating \/ UNCHANGED coVars
       PROVE  fault' = fault
  BY <1>10, ServerFrame
  DEF StopEnd, Destroy, RunReturns, TheThread, ConnectionReset, Thread, ThreadCheck,
      ThreadRecv, ThreadHangup, ThreadRecvFails, ThreadPush, ThreadForward,
      ThreadScheduleStop, ThreadFrame, CoTerminating, coVars, vars
<1> QED
  BY <1>2, <1>6, <1>8, <1>9, <1>10 DEF CoNext, TheGateway, Callback

\* Nothing goes wrong in the co-simulation once the two programs are connected, with
\* every command line that fits: no stamp comes late, no response is sent to a server
\* that is gone or from a gateway that stops, whatever the threads and the connection
\* do (simple-gateway-server.cc:129-189 against gateway.cc:149, 166, 319 and 355).
THEOREM NothingGoesWrong == CoSpec => []WellRun
<1>1. CoInit => WellRun
  BY DEF CoInit, Init, WellRun
<1> QED
  BY <1>1, WellRunNext, CoInvariance, PTL DEF CoSpec

-----------------------------------------------------------------------------
(* What the CourseChange callback sees.                                    *)

\* A vehicle has the velocity that it was given last.
LastGiven ==
  \A n \in Vehicles :
    mobility[n].velocity =
      IF delivered = <<>> THEN 0 ELSE Given(Len(delivered), n).velocity

CourseInv == LastGiven /\ CourseSeen

LEMMA CourseKept ==
  ASSUME CourseInv, Len(delivered) \in Nat, DOMAIN delivered = 1..Len(delivered),
         UNCHANGED <<delivered, mobility>>,
         \A i \in DOMAIN delivered : orders'[delivered[i].msg] = orders[delivered[i].msg]
  PROVE  CourseInv'
<1> DEFINE d == Len(delivered)
<1>1. ASSUME NEW i \in 1..d, NEW n \in Vehicles
      PROVE  Given(i, n)' = Given(i, n)
  BY <1>1 DEF Given
<1>2. ASSUME NEW n \in Vehicles
      PROVE  Changed(n)' = Changed(n)
  <2>1. \A i \in 1..d : i # 1 => i - 1 \in 1..d
    OBVIOUS
  <2> QED
    BY <1>1, <2>1 DEF Changed
<1>3. ASSUME delivered # <<>> PROVE d \in 1..d
  <2>1. d # 0
    BY <1>3
  <2> QED
    BY <2>1
<1>4. LastGiven'
  BY <1>1, <1>3 DEF CourseInv, LastGiven
<1>5. CourseSeen'
  <2> SUFFICES ASSUME NEW n \in Vehicles
               PROVE  /\ mobility'[n].seen.calls = Cardinality(Changed(n)')
                      /\ Changed(n)' # {} =>
                           \E i \in Changed(n)' :
                             /\ \A k \in Changed(n)' : k <= i
                             /\ mobility'[n].seen.position = Given(i, n)'.position
                             /\ mobility'[n].seen.velocity = Given(i, n)'.velocity
    BY DEF CourseSeen
  <2>1. Changed(n) \subseteq 1..d
    BY DEF Changed
  <2>2. /\ mobility[n].seen.calls = Cardinality(Changed(n))
        /\ Changed(n) # {} =>
             \E i \in Changed(n) :
               /\ \A k \in Changed(n) : k <= i
               /\ mobility[n].seen.position = Given(i, n).position
               /\ mobility[n].seen.velocity = Given(i, n).velocity
    BY DEF CourseInv, CourseSeen
  <2>3. \A i \in Changed(n) : Given(i, n)' = Given(i, n)
    BY <1>1, <2>1
  <2> QED
    BY <1>2, <2>2, <2>3
<1> QED
  BY <1>4, <1>5 DEF CourseInv

LEMMA DeliveredSent ==
  ASSUME Live, NEW i \in DOMAIN delivered
  PROVE  delivered[i].msg \in 1..Len(sent)
<1>1. delivered \in Seq([msg : Messages, at : Nat])
  BY DEF Live, EveryInv, IInv, TypeOK
<1>2. PICK m : m = delivered[i].msg
  OBVIOUS
<1>3. m \in Messages
  <2>1. i \in 1..Len(delivered)
    BY <1>1, LenProperties
  <2>2. delivered[i] \in [msg : Messages, at : Nat]
    BY <1>1, <2>1, ElementOfSeq
  <2> QED
    BY <1>2, <2>2
<1>4. i \in Reached(m)
  BY <1>2 DEF Reached
<1>5. m <= Seen
  BY <1>3, <1>4 DEF Live, EveryInv, DeliveryInv, Placed, Forwarding
<1>6. Seen \in Nat /\ Len(sent) \in Nat /\ Seen <= Len(sent)
  BY SentTypes DEF Live
<1> QED
  BY <1>2, <1>3, <1>5, <1>6 DEF Messages

LEMMA CourseServer ==
  ASSUME CoBase, CourseInv, TheServer
  PROVE  CourseInv'
<1>1. UNCHANGED <<delivered, mobility>>
  BY ServerFrame DEF history, vehicles
<1>2. CASE SendStep \/ SendTerminate
  <2>1. PICK order \in Worlds \cup {<<>>} : orders' = Append(orders, order)
    BY <1>2 DEF SendStep, SendTerminate, CoBase, CoTypes, ServerTypes
  <2>2. fault = "none"
    BY <1>2 DEF SendStep, SendTerminate, ServerSend, Ended
  <2>3. Live
    BY <2>2 DEF CoBase, GatewayInv, Insufficient, Live
  <2>4. orders \in Seq(Worlds \cup {<<>>}) /\ Len(orders) = Len(sent)
    BY DEF CoBase, CoTypes, MessageTypes
  <2>5. \A m \in 1..Len(sent) : orders'[m] = orders[m]
    BY <2>1, <2>4, AppendProperties
  <2>6. delivered \in Seq([msg : Messages, at : Nat])
    BY <2>3 DEF Live, EveryInv, IInv, TypeOK
  <2>7. Len(delivered) \in Nat /\ DOMAIN delivered = 1..Len(delivered)
    BY <2>6, LenProperties
  <2> QED
    BY <1>1, <2>3, <2>5, <2>7, DeliveredSent, CourseKept
<1>3. CASE ~SendStep /\ ~SendTerminate
  <2>1. orders' = orders
    BY <1>3, ServerFrame
  <2> QED
    BY <1>1, <2>1 DEF CourseInv, LastGiven, CourseSeen, Changed, Given
<1> QED
  BY <1>2, <1>3

\* What the update of a callback adds for vehicle n.
LEMMA CourseVehicle ==
  ASSUME CoBase, CourseInv, NEW e \in events, Callback(e), DoUpdate(e.msg, e.ts),
         orders' = orders, NEW n \in Vehicles
  PROVE  LET seen == mobility'[n].seen IN
         /\ seen.calls = Cardinality(Changed(n)')
         /\ Changed(n)' # {} =>
              \E i \in Changed(n)' : /\ \A k \in Changed(n)' : k <= i
                                     /\ seen.position = Given(i, n)'.position
                                     /\ seen.velocity = Given(i, n)'.velocity
<1>0. PICK d : d = Len(delivered)
  OBVIOUS
<1> DEFINE order == orders[e.msg][n]
           old == mobility[n]
           new == mobility'[n]
           before == IF d = 0 THEN 0 ELSE Given(d, n).velocity
<1>1. Live /\ CoTypes /\ e.fn \in CallbackFns
  BY DEF CoBase, GatewayInv, Insufficient, Live, Callback, DoInitialize, HandleUpdate, Runs,
         CallbackFns
<1>2. /\ d \in Nat /\ DOMAIN delivered = 1..d
      /\ delivered'[d + 1] = [msg |-> e.msg, at |-> e.ts]
      /\ \A i \in 1..d : delivered'[i] = delivered[i]
      /\ DOMAIN delivered' = 1..(d + 1)
  BY <1>0, <1>1, CallbackDelivers
<1>3. /\ old \in Models /\ new = MovedBy(old, order)
      /\ order \in [position : Values, velocity : Speed, broadcast : BOOLEAN]
  BY <1>1, UpdateMoves DEF Live
<1>4. /\ order.velocity = old.velocity => new.seen = old.seen
      /\ order.velocity # old.velocity =>
           new.seen = [position |-> order.position, velocity |-> order.velocity,
                       calls |-> old.seen.calls + 1]
  BY <1>3, MovedByOrder
<1>5. old.velocity = before
  <2>1. delivered = <<>> <=> d = 0
    <3>1. delivered \in Seq([msg : Messages, at : Nat])
      BY <1>1 DEF Live, EveryInv, IInv, TypeOK
    <3> QED
      BY <1>0, <3>1, EmptySeq
  <2> QED
    BY <1>0, <2>1 DEF CourseInv, LastGiven
<1>6. Given(d + 1, n)' = order /\ \A i \in 1..d : Given(i, n)' = Given(i, n)
  <2>1. delivered'[d + 1].msg = e.msg
    BY <1>2
  <2> QED
    BY <1>2, <2>1 DEF Given
<1>7. /\ old.seen.calls = Cardinality(Changed(n))
      /\ Changed(n) # {} =>
           \E i \in Changed(n) : /\ \A k \in Changed(n) : k <= i
                                 /\ old.seen.position = Given(i, n).position
                                 /\ old.seen.velocity = Given(i, n).velocity
  BY DEF CourseInv, CourseSeen
<1>8. Changed(n) \subseteq 1..d /\ IsFiniteSet(Changed(n))
  <2>1. Changed(n) \subseteq 1..d
    BY <1>2 DEF Changed
  <2>2. IsFiniteSet(1..d)
    <3>1. 1 \in Int /\ d \in Int
      BY <1>2
    <3> QED
      BY <3>1, FS_Interval
  <2> QED
    BY <2>1, <2>2, FS_Subset
<1> HIDE DEF order, old, new, before
<1>9. ASSUME NEW i \in 1..d
      PROVE  i \in Changed(n)' <=> i \in Changed(n)
  <2>1. i # 1 => i - 1 \in 1..d
    BY <1>2
  <2>2. i \in 1..(d + 1)
    BY <1>2
  <2> QED
    BY <1>2, <1>6, <2>1, <2>2 DEF Changed
<1>10. d + 1 \in Changed(n)' <=> order.velocity # before
  <2>1. CASE d = 0
    <3>1. d + 1 = 1 /\ 1 \in 1..(d + 1)
      BY <2>1
    <3> QED
      BY <1>2, <1>6, <2>1, <3>1 DEF Changed, before
  <2>2. CASE d # 0
    <3>1. d \in 1..d /\ d + 1 # 1 /\ (d + 1) - 1 = d /\ d + 1 \in 1..(d + 1)
      BY <1>2, <2>2
    <3>2. Given((d + 1) - 1, n)' = Given(d, n)
      BY <1>6, <3>1
    <3> QED
      BY <1>2, <1>6, <2>2, <3>1, <3>2 DEF Changed, before
  <2> QED
    BY <2>1, <2>2
<1>11. Changed(n)' \subseteq 1..(d + 1)
  BY <1>2 DEF Changed
<1>12. CASE order.velocity = old.velocity
  <2>1. Changed(n)' = Changed(n)
    <3>1. d + 1 \notin Changed(n)'
      BY <1>5, <1>10, <1>12
    <3>2. \A i \in 1..(d + 1) : i = d + 1 \/ i \in 1..d
      BY <1>2
    <3> QED
      BY <1>8, <1>9, <1>11, <3>1, <3>2
  <2>2. \A i \in Changed(n) : Given(i, n)' = Given(i, n)
    BY <1>6, <1>8
  <2>3. new.seen = old.seen
    BY <1>4, <1>12
  <2> QED
    BY <1>7, <2>1, <2>2, <2>3 DEF new
<1>13. CASE order.velocity # old.velocity
  <2>1. Changed(n)' = Changed(n) \cup {d + 1}
    <3>1. d + 1 \in Changed(n)'
      BY <1>5, <1>10, <1>13
    <3>2. \A i \in 1..(d + 1) : i = d + 1 \/ i \in 1..d
      BY <1>2
    <3> QED
      BY <1>8, <1>9, <1>11, <3>1, <3>2
  <2>2. d + 1 \notin Changed(n)
    BY <1>2, <1>8
  <2>3. Cardinality(Changed(n)') = Cardinality(Changed(n)) + 1
    BY <1>8, <2>1, <2>2, FS_AddElement
  <2>4. \A k \in Changed(n)' : k <= d + 1
    BY <1>2, <1>11
  <2>5. /\ new.seen.calls = old.seen.calls + 1
        /\ new.seen.position = Given(d + 1, n)'.position
        /\ new.seen.velocity = Given(d + 1, n)'.velocity
    BY <1>4, <1>6, <1>13
  <2> QED
    BY <1>7, <2>1, <2>3, <2>4, <2>5 DEF new
<1> QED
  BY <1>12, <1>13

LEMMA CourseNext == CoBase /\ CourseInv /\ [CoNext]_coVars => CourseInv'
<1> SUFFICES ASSUME CoBase, CourseInv, [CoNext]_coVars PROVE CourseInv'
  OBVIOUS
<1>1. CASE TheServer
  BY <1>1, CourseServer
<1>2. CASE TheGateway \/ TheThread \/ CoTerminating \/ UNCHANGED coVars
  <2>1. orders' = orders
    BY <1>2, GatewaySplit DEF program
  <2>2. ASSUME NEW e \in events, Callback(e), DoUpdate(e.msg, e.ts)
        PROVE  CourseInv'
    <3>1. CourseSeen'
      BY <2>1, <2>2, CourseVehicle DEF CourseSeen
    <3>2. Live /\ CoTypes /\ e.fn \in CallbackFns
      BY <2>2
      DEF CoBase, GatewayInv, Insufficient, Live, Callback, DoInitialize, HandleUpdate, Runs,
          CallbackFns
    <3>3. /\ Len(delivered') = Len(delivered) + 1 /\ Len(delivered) \in Nat
          /\ delivered'[Len(delivered) + 1] = [msg |-> e.msg, at |-> e.ts]
      BY <2>2, <3>2, CallbackDelivers
    <3>4. delivered' # <<>> /\ delivered'[Len(delivered')].msg = e.msg
      BY <3>3
    <3>5. ASSUME NEW n \in Vehicles
          PROVE  mobility'[n].velocity = orders'[e.msg][n].velocity
      <4>1. /\ mobility[n] \in Models /\ mobility'[n] = MovedBy(mobility[n], orders[e.msg][n])
            /\ orders[e.msg][n] \in [position : Values, velocity : Speed,
                                     broadcast : BOOLEAN]
        BY <2>2, <3>2, UpdateMoves DEF Live
      <4>2. MovedBy(mobility[n], orders[e.msg][n]).velocity = orders[e.msg][n].velocity
        BY <4>1, MovedByOrder
      <4> QED
        BY <2>1, <4>1, <4>2
    <3>6. LastGiven'
      BY <3>3, <3>4, <3>5 DEF LastGiven, Given
    <3> QED
      BY <3>1, <3>6 DEF CourseInv
  <2>3. ASSUME UNCHANGED <<delivered, mobility>>
        PROVE  CourseInv'
    BY <2>1, <2>3 DEF CourseInv, LastGiven, CourseSeen, Changed, Given
  <2>4. ASSUME NEW r \in bus, HandleReceive(r)
        PROVE  UNCHANGED <<delivered, mobility>>
    BY <2>4 DEF HandleReceive, history
  <2> QED
    BY <1>2, <2>2, <2>3, <2>4, GatewaySplit
<1> QED
  BY <1>1, <1>2 DEF CoNext

\* The CourseChange callback is called once for each update that changes the velocity
\* and sees both values of that update (external-mobility-model.h), for every command
\* line, in whatever order the updates run and whatever goes wrong.
THEOREM CourseIsConsistent == CoSpec => []CourseSeen
<1>1. CoInit => CourseInv
  <2> SUFFICES ASSUME CoInit PROVE CourseInv
    OBVIOUS
  <2>1. delivered = <<>> /\ mobility = NewVehicles
    BY DEF CoInit, Init
  <2>2. \A n \in Vehicles : Changed(n) = {}
    BY <2>1 DEF Changed
  <2>3. Cardinality({}) = 0
    BY FS_EmptySet
  <2> QED
    BY <2>1, <2>2, <2>3 DEF CourseInv, LastGiven, CourseSeen, NewVehicles, Created, NotSeen
<1>2. CourseInv => CourseSeen
  BY DEF CourseInv
<1> QED
  BY <1>1, <1>2, CoBaseInit, CoBaseNext, CourseNext, PTL DEF CoSpec

-----------------------------------------------------------------------------
(* Numbers that wrap.                                                      *)

LEMMA DivMod ==
  ASSUME NEW u \in Nat \ {0}, NEW x \in Nat
  PROVE  \E q \in Int : \E r \in 0..(u - 1) : x = u * q + r /\ r = x % u
<1>1. PICK q \in Int : q = x \div u
  OBVIOUS
<1>2. PICK r \in Int : r = x % u
  OBVIOUS
<1>3. x = u * q + r
  BY <1>1, <1>2
<1>4. r \in 0..(u - 1)
  BY <1>2
<1> QED
  BY <1>2, <1>3, <1>4

LEMMA ModOf ==
  ASSUME NEW u \in Nat \ {0}, NEW q \in Int, NEW r \in 0..(u - 1)
  PROVE  (u * q + r) % u = r
OBVIOUS

\* Wrapping before an addition makes no difference.
LEMMA ModPlus ==
  ASSUME NEW u \in Nat \ {0}, NEW x \in Nat, NEW y \in Nat
  PROVE  ((x % u) + y) % u = (x + y) % u
<1>1. PICK q \in Int, r \in 0..(u - 1) : x = u * q + r /\ r = x % u
  BY DivMod
<1>2. r + y \in Nat
  BY <1>1
<1>3. PICK p \in Int, s \in 0..(u - 1) : r + y = u * p + s /\ s = (r + y) % u
  BY <1>2, DivMod
<1>4. x + y = u * (q + p) + s /\ q + p \in Int
  <2>1. u * (q + p) = u * q + u * p /\ u * q \in Int /\ u * p \in Int
    OBVIOUS
  <2> QED
    BY <1>1, <1>3, <2>1
<1>5. (x + y) % u = s
  BY <1>4, ModOf
<1> QED
  BY <1>1, <1>3, <1>5

\* Of two stamps in a row that are ints, the second is the later one, unless the time
\* step is so large that the time wraps and comes back before the first.
LEMMA StampNext ==
  ASSUME LoopTypes, args.timeDelta > 0, NEW k \in Nat,
         Stamp(k) # BadHeader, Stamp(k + 1) # BadHeader
  PROVE  /\ Stamp(k) \in Nat /\ Stamp(k + 1) \in Nat
         /\ args.timeDelta < Uint32 \div 2 => Stamp(k) < Stamp(k + 1)
         /\ ~(args.timeDelta < Uint32 \div 2) => Stamp(k + 1) < Stamp(k)
<1> DEFINE b == args.timeDelta
           x == args.timeStart + b * k
           half == Uint32 \div 2
           t == x % Uint32
           v == (x + b) % Uint32
<1>1. /\ args.timeStart \in Nat /\ b \in 0..(Uint32 - 1) /\ b > 0
      /\ Uint32 \in Nat \ {0} /\ Second \in Nat \ {0}
  BY ArgsAssumption, SizesAssumption DEF LoopTypes, CommandLine
<1>2. b * k \in Nat /\ b * (k + 1) = b * k + b
  BY <1>1
<1>3. x \in Nat /\ args.timeStart + b * (k + 1) = x + b
  BY <1>1, <1>2
<1>4. /\ Stamp(k) = IF t < half THEN t * Second ELSE BadHeader
      /\ Stamp(k + 1) = IF v < half THEN v * Second ELSE BadHeader
  BY <1>3 DEF Stamp
<1>5. b \in Nat /\ v = (t + b) % Uint32
  <2>1. b \in Nat
    BY <1>1
  <2> HIDE DEF b, x
  <2>2. ((x % Uint32) + b) % Uint32 = (x + b) % Uint32
    BY <1>1, <1>3, <2>1, ModPlus
  <2> QED
    BY <2>1, <2>2
<1>6. half \in Nat /\ half + half <= Uint32
  BY <1>1
<1>7. t \in 0..(Uint32 - 1)
  BY <1>1, <1>3
<1> HIDE DEF t, v, b, x, half
<1>8. t < half /\ v < half /\ Stamp(k) = t * Second /\ Stamp(k + 1) = v * Second
  BY <1>4
<1>9. CASE t + b < Uint32
  <2>1. v = t + b
    BY <1>1, <1>5, <1>7, <1>9
  <2>2. v \in Nat /\ t < v /\ b < half
    BY <1>1, <1>5, <1>6, <1>7, <1>8, <2>1
  <2>3. t * Second \in Nat /\ v * Second \in Nat /\ t * Second < v * Second
    BY <1>1, <1>7, <2>2
  <2> QED
    BY <1>8, <2>2, <2>3 DEF b, half
<1>10. CASE ~(t + b < Uint32)
  <2>1. PICK s : s = t + b - Uint32
    OBVIOUS
  <2>2. s \in 0..(Uint32 - 1) /\ s < t /\ t + b = Uint32 * 1 + s
    BY <1>1, <1>7, <1>10, <2>1
  <2>3. v = s
    <3>1. (Uint32 * 1 + s) % Uint32 = s
      BY <1>1, <2>2, ModOf
    <3> QED
      BY <1>5, <2>2, <3>1
  <2>4. v \in Nat /\ v < t /\ ~(b < half)
    BY <1>1, <1>5, <1>6, <1>7, <1>8, <1>10, <2>2, <2>3
  <2>5. t * Second \in Nat /\ v * Second \in Nat /\ v * Second < t * Second
    BY <1>1, <1>7, <2>4
  <2> QED
    BY <1>8, <2>4, <2>5 DEF b, half
<1> QED
  BY <1>9, <1>10

\* Stamps are whole seconds.
LEMMA StampGap ==
  ASSUME LoopTypes, NEW j \in Nat, NEW k \in Nat,
         Stamp(j) # BadHeader, Stamp(k) # BadHeader, Stamp(j) < Stamp(k)
  PROVE  Stamp(j) + Second <= Stamp(k)
<1> DEFINE t == (args.timeStart + args.timeDelta * j) % Uint32
           v == (args.timeStart + args.timeDelta * k) % Uint32
<1>1. /\ args.timeStart \in Nat /\ args.timeDelta \in Nat
      /\ Uint32 \in Nat \ {0} /\ Second \in Nat \ {0}
  BY ArgsAssumption, SizesAssumption DEF LoopTypes, CommandLine
<1>2. args.timeDelta * j \in Nat /\ args.timeDelta * k \in Nat
  BY <1>1
<1>3. t \in Nat /\ v \in Nat
  BY <1>1, <1>2
<1>4. Stamp(j) = t * Second /\ Stamp(k) = v * Second
  BY DEF Stamp
<1> HIDE DEF t, v
<1>5. t < v
  BY <1>1, <1>3, <1>4
<1>6. (t + 1) * Second <= v * Second /\ (t + 1) * Second = t * Second + Second
  BY <1>1, <1>3, <1>5
<1> QED
  BY <1>4, <1>6

-----------------------------------------------------------------------------
(* The order of the callbacks, for every command line with steps that take *)
(* time.                                                                   *)

\* ForwardUp takes a message, or what was seen stays.
Forwards(e) == ForwardTerminate(e) \/ ForwardFirst(e) \/ ForwardUpdate(e)

LEMMA SeenKept ==
  ASSUME LoopTypes, Live, [CoNext]_coVars
  PROVE  \/ \E e \in events : Forwards(e)
         \/ Seen' = Seen /\ \A m \in 1..Seen : sent'[m] = sent[m]
<1>1. IInv /\ InOrder
  BY DEF Live, EveryInv, DeliveryInv
<1>2. ASSUME UNCHANGED <<messageQueue, messageBuffer, stream, sent>>
      PROVE  Seen' = Seen /\ \A m \in 1..Seen : sent'[m] = sent[m]
  BY <1>1, <1>2, OrderKept
<1>3. CASE [Next]_vars
  <2>1. CASE Thread \/ ThreadRecvFails
    <3>1. sent' = sent
      BY <2>1 DEF Thread, ThreadCheck, ThreadRecv, ThreadHangup, ThreadRecvFails,
         ThreadPush, ThreadForward, ThreadScheduleStop, ThreadFrame
    <3> QED
      BY <1>1, <2>1, <3>1, OrderThread
  <2>2. CASE Server
    BY <1>1, <2>2, OrderServer
  <2>3. ASSUME NEW e \in events,
               \/ Connect(e) \/ Model(e) \/ Finish(e) \/ WaitForNextUpdate(e)
               \/ DoInitialize(e) \/ HandleUpdate(e) \/ StopBegin(e)
               \/ ConnectFails(e) \/ ForwardUpFails(e) \/ CallbackFails(e)
        PROVE  UNCHANGED <<messageQueue, messageBuffer, stream, sent>>
    BY <2>3 DEF Connect, Model, Finish, WaitForNextUpdate, DoInitialize, HandleUpdate,
       StopBegin, ConnectFails, ForwardUpFails, CallbackFails, Abort, received, server
  <2>4. ASSUME StopEnd \/ RunReturns \/ Destroy \/ UNCHANGED vars
        PROVE  UNCHANGED <<messageQueue, messageBuffer, stream, sent>>
    BY <2>4 DEF StopEnd, RunReturns, Destroy, vars, received, server
  <2> QED
    BY <1>2, <1>3, <2>1, <2>2, <2>3, <2>4 DEF Next, Main, Terminating, Forwards
<1>4. ASSUME NEW r \in bus, HandleReceive(r)
      PROVE  UNCHANGED <<messageQueue, messageBuffer, stream, sent>>
  BY <1>4 DEF HandleReceive, received, server
<1>5. ASSUME NEW e \in events, DoUpdateFails(e)
      PROVE  UNCHANGED <<messageQueue, messageBuffer, stream, sent>>
  BY <1>5 DEF DoUpdateFails, Abort, received, server
<1> QED
  BY <1>2, <1>3, <1>4, <1>5, StepOfGateway

\* A stamp that was seen is the server's.
LEMMA SeenStamps ==
  ASSUME Live, SentInv, NEW m \in 1..Seen, ~(sent[m] < 0)
  PROVE  sent[m] = Stamp(m - 1) /\ sent[m] \in Nat /\ Stamp(m - 1) # BadHeader
<1>1. m \in DOMAIN sent /\ sent[m] \in Int
  BY SentTypes DEF Live
<1>2. sent[m] # -1
  OBVIOUS
<1>3. sent[m] = Stamp(m - 1)
  BY <1>1, <1>2 DEF SentInv
<1> QED
  BY <1>1, <1>3, HeadersAssumption

\* The stamp that ForwardUp accepts is later than the one before.
LEMMA ForwardLater ==
  ASSUME Live, CoTypes, ProgramInv, args.timeDelta > 0, SeenIncreases,
         NEW e \in events, Forwards(e), Header >= 0, Seen >= 1
  PROVE  sent[Seen] \in Int /\ Header \in Int /\ sent[Seen] < Header
<1>1. Runs(e, "ForwardUp") /\ ForwardFault = "none"
  BY DEF Forwards, ForwardTerminate, ForwardFirst, ForwardUpdate
<1>2. messageQueue # <<>>
  BY <1>1 DEF ForwardFault
<1>3. PICK S : S = Seen
  OBVIOUS
<1>4. /\ Message = S + 1 /\ Message \in 1..Len(sent) /\ Header = sent[Message]
      /\ \A m \in 1..S : sent[m] >= 0
      /\ timeStart >= 0 /\ timeStart = sent[1]
  <2>1. S \in Nat
    BY <1>3, SentTypes DEF Live
  <2>2. timeStart \in Int
    BY DEF Live, EveryInv, IInv, TypeOK
  <2> QED
    BY <1>1, <1>2, <1>3, <2>1, <2>2, NextSeen DEF Live
<1>5. /\ S \in Nat /\ S >= 1 /\ DOMAIN sent = 1..Len(sent)
      /\ 1 \in 1..S /\ S \in 1..S /\ S - 1 \in Nat
  BY <1>3, SentTypes DEF Live
<1>6. /\ sent[S] = Stamp(S - 1) /\ sent[S] \in Nat /\ Stamp(S - 1) # BadHeader
      /\ sent[1] = Stamp(0) /\ sent[1] \in Nat /\ Stamp(0) # BadHeader
  <2>1. ~(sent[S] < 0) /\ ~(sent[1] < 0)
    <3>1. /\ sent[S] \in Int /\ sent[1] \in Int /\ sent[S] >= 0 /\ sent[1] >= 0
      BY <1>3, <1>4, <1>5, SentTypes DEF Live
    <3> QED
      BY <3>1
  <2>2. 1 - 1 = 0
    OBVIOUS
  <2>3. SentInv
    BY DEF ProgramInv
  <2> QED
    BY <1>3, <1>5, <2>1, <2>2, <2>3, SeenStamps
<1>7. Header = Stamp(S) /\ Header # BadHeader /\ Header \in Nat
  <2>1. Header # BadHeader
    BY <1>1 DEF ForwardFault
  <2>2. Header # -1
    OBVIOUS
  <2>3. Header = Stamp((S + 1) - 1)
    BY <1>4, <1>5, <2>2 DEF ProgramInv, SentInv
  <2>4. (S + 1) - 1 = S
    BY <1>5
  <2>5. Stamp(S) # BadHeader => Stamp(S) \in Nat
    BY <1>5, StampType DEF CoTypes
  <2> QED
    BY <2>1, <2>3, <2>4, <2>5
<1>8. sent[1] <= Header
  <2>1. ~(Header - timeStart < now)
    BY <1>1, <1>2, <1>4, <1>7 DEF ForwardFault, IsLate, PauseFor
  <2>2. now \in Nat
    BY DEF Live, EveryInv, IInv, TypeOK
  <2> QED
    BY <1>4, <1>6, <1>7, <2>1, <2>2
<1>9. CASE args.timeDelta < Uint32 \div 2
  <2>1. Stamp(S - 1) < Stamp((S - 1) + 1)
    <3>1. (S - 1) + 1 = S
      BY <1>5
    <3> QED
      BY <1>5, <1>6, <1>7, <1>9, <3>1, StampNext DEF CoTypes
  <2>2. (S - 1) + 1 = S
    BY <1>5
  <2> QED
    BY <1>3, <1>6, <1>7, <2>1, <2>2
<1>10. CASE ~(args.timeDelta < Uint32 \div 2)
  <2>1. Stamp(1) # BadHeader => Stamp(1) < Stamp(0)
    <3>1. 0 + 1 = 1 /\ 0 \in Nat
      OBVIOUS
    <3> QED
      BY <1>6, <1>10, <3>1, StampNext DEF CoTypes
  <2>2. CASE S = 1
    <3>1. Stamp(1) \in Nat /\ Stamp(1) < Stamp(0)
      BY <1>7, <2>1, <2>2
    <3> QED
      BY <1>6, <1>7, <1>8, <2>2, <3>1
  <2>3. CASE S # 1
    <3>1. 2 \in 1..S /\ 1 \in 1..S
      BY <1>5, <2>3
    <3>2. sent[2] >= 0 /\ sent[2] \in Int /\ sent[1] < sent[2]
      <4>1. sent[2] >= 0 /\ sent[2] \in Int
        BY <1>3, <1>4, <3>1, SentTypes DEF Live
      <4> QED
        BY <1>3, <3>1, <4>1 DEF SeenIncreases
    <3>3. sent[2] = Stamp(1) /\ Stamp(1) # BadHeader
      <4>1. ~(sent[2] < 0) /\ SentInv /\ 2 - 1 = 1
        BY <3>2 DEF ProgramInv
      <4> QED
        BY <1>3, <3>1, <4>1, SeenStamps
    <3> QED
      BY <1>6, <2>1, <3>2, <3>3
  <2> QED
    BY <2>2, <2>3
<1> QED
  BY <1>9, <1>10

LEMMA SeenForward ==
  ASSUME Live, CoTypes, ProgramInv, args.timeDelta > 0, SeenIncreases,
         NEW e \in events, Forwards(e)
  PROVE  SeenIncreases'
<1>1. /\ Runs(e, "ForwardUp") /\ ForwardFault = "none"
      /\ messageQueue' = Tail(messageQueue)
      /\ UNCHANGED <<messageBuffer, stream, sent>>
  BY DEF Forwards, ForwardTerminate, ForwardFirst, ForwardUpdate, server
<1>2. messageQueue # <<>> /\ IInv /\ InOrder
  BY <1>1 DEF ForwardFault, Live, EveryInv, DeliveryInv
<1>3. PICK S : S = Seen
  OBVIOUS
<1>4. Seen' = S + 1 /\ sent' = sent
  BY <1>1, <1>2, <1>3, OrderForward
<1>5. /\ S \in Nat /\ Header = sent[S + 1]
      /\ \A m \in 1..S : sent[m] \in Int /\ sent[m] >= 0
  BY <1>1, <1>2, <1>3, NextSeen, SentTypes DEF Live
<1>6. Header \in Int
  <2>1. S + 1 \in 1..Len(sent) /\ sent \in Seq(Headers)
    BY <1>1, <1>2, <1>3, NextSeen DEF Live, EveryInv, IInv, TypeOK
  <2>2. Header \in Headers /\ Header # BadHeader
    BY <1>1, <1>5, <2>1, ElementOfSeq DEF ForwardFault
  <2> QED
    BY <2>2, HeadersAssumption DEF Headers
<1> SUFFICES ASSUME NEW i \in 1..(S + 1), NEW j \in 1..(S + 1), i < j
             PROVE  /\ sent[i] \in Int /\ sent[j] \in Int /\ sent[i] >= 0
                    /\ sent[j] < 0 \/ sent[i] < sent[j]
  BY <1>4 DEF SeenIncreases
<1>7. i \in 1..S /\ S >= 1 /\ S \in 1..S
  BY <1>5
<1>8. CASE j \in 1..S
  BY <1>3, <1>7, <1>8 DEF SeenIncreases
<1>9. CASE j \notin 1..S
  <2>1. j = S + 1
    BY <1>5, <1>9
  <2>2. CASE Header < 0
    BY <1>5, <1>6, <1>7, <2>1, <2>2
  <2>3. CASE ~(Header < 0)
    <3>1. sent[S] < Header
      BY <1>3, <1>6, <1>7, <2>3, ForwardLater
    <3>2. i = S \/ sent[i] < sent[S]
      <4>1. CASE i # S
        <5>1. i < S
          BY <1>5, <1>7, <4>1
        <5>2. ~(sent[S] < 0)
          BY <1>5, <1>7
        <5> QED
          BY <1>3, <1>7, <5>1, <5>2 DEF SeenIncreases
      <4> QED
        BY <4>1
    <3> QED
      BY <1>5, <1>6, <1>7, <2>1, <3>1, <3>2
  <2> QED
    BY <2>2, <2>3
<1> QED
  BY <1>8, <1>9

LEMMA SeenNext ==
  ASSUME CoBase, Live, ProgramInv, args.timeDelta > 0, SeenIncreases, [CoNext]_coVars
  PROVE  SeenIncreases'
<1>1. CoTypes /\ LoopTypes
  BY DEF CoBase, CoTypes
<1>2. CASE \E e \in events : Forwards(e)
  BY <1>1, <1>2, SeenForward
<1>3. CASE Seen' = Seen /\ \A m \in 1..Seen : sent'[m] = sent[m]
  BY <1>3 DEF SeenIncreases
<1> QED
  BY <1>1, <1>2, <1>3, SeenKept

\* The callbacks run in order, and each a second later than the one before: the packets
\* of a broadcast have all come when the next callback runs.
LastTime == delivered[Len(delivered)].at
BusSoon == \A r \in bus : delivered # <<>> /\ r.at < LastTime + Second
Timely == SeenIncreases /\ DeliveredInv /\ BusSoon

LEMMA CallbackTimely ==
  ASSUME CoBase, Live, ProgramInv, Timely, args.timeDelta > 0,
         NEW e \in events, IsNext(e, events), e.fn \in CallbackFns, BusWaits(e.ts)
  PROVE  bus = {} /\ e.msg = Len(delivered) + 1 /\ e.ts = sent[e.msg] - sent[1]
<1> DEFINE d == Len(delivered)
<1>1. PICK m : m = e.msg
  OBVIOUS
<1>2. m = d + 1 /\ e.ts = sent[m] - sent[1]
  BY <1>1, CallbackInOrder DEF Live, Timely
<1>3. /\ m \in 1..Seen /\ ~(sent[m] < 0) /\ Seen \in Nat
      /\ sent[m] \in Int /\ sent[1] \in Int /\ e.ts \in Int
  BY <1>1, CallbackSeen, CallbackTime, SentTypes DEF Live
<1>4. /\ d \in Nat /\ DOMAIN delivered = 1..d
      /\ delivered # <<>> => d # 0
  <2>1. delivered \in Seq([msg : Messages, at : Nat])
    BY DEF Live, EveryInv, IInv, TypeOK
  <2> QED
    BY <2>1, LenProperties, EmptySeq
<1>5. SUFFICES ASSUME NEW r \in bus PROVE FALSE
  BY <1>1, <1>2
<1>6. r.at \in Nat /\ e.ts <= r.at /\ delivered # <<>> /\ r.at < LastTime + Second
  BY <1>5 DEF CoBase, BusInv, Receipts, BusWaits, Timely, BusSoon
<1> HIDE DEF d
<1>7. d \in 1..d /\ d \in DOMAIN delivered /\ d < m
  BY <1>2, <1>4, <1>6
<1>8. d \in 1..Seen /\ LastTime = sent[d] - sent[1]
  BY <1>7, DeliveredSeen DEF Live, Timely, DeliveredInv, LastTime, d
<1>9. sent[d] \in Int /\ ~(sent[d] < 0) /\ sent[d] < sent[m]
  BY <1>3, <1>7, <1>8 DEF Timely, SeenIncreases
<1>10. sent[d] + Second <= sent[m]
  <2>1. /\ sent[d] = Stamp(d - 1) /\ Stamp(d - 1) # BadHeader
        /\ sent[m] = Stamp(m - 1) /\ Stamp(m - 1) # BadHeader
    BY <1>3, <1>8, <1>9, SeenStamps DEF ProgramInv
  <2>2. d - 1 \in Nat /\ m - 1 \in Nat
    BY <1>3, <1>7, <1>8
  <2> QED
    BY <1>9, <2>1, <2>2, StampGap DEF CoBase, CoTypes
<1>11. Second \in Int /\ r.at \in Int
  BY <1>6, SizesAssumption
<1>12. PICK x \in Int, y \in Int, z \in Int, a \in Int, s \in Int :
         x = sent[m] /\ y = sent[d] /\ z = sent[1] /\ a = r.at /\ s = Second
  BY <1>3, <1>9, <1>11
<1>13. y + s <= x /\ x - z <= a /\ a < y - z + s
  BY <1>2, <1>6, <1>8, <1>10, <1>12
<1> QED
  BY <1>13

\* The packets of the vehicles in senders that vehicle n gets.
NewReceipt(ts, k, n, f) == [at |-> ts + k + BusDelay, to |-> n, from |-> f]

\* What the vehicles in senders send when nothing is on the bus.
SentAtOnce(senders, ts) == AfterSend([n \in senders |-> ts], ts)

LEMMA UpdateOnEmptyBus ==
  ASSUME bus = {}, NEW m, NEW ts, DoUpdate(m, ts)
  PROVE  \E senders \in SUBSET Vehicles :
           /\ senders = {n \in Vehicles : orders[m][n].broadcast}
           /\ bus' = SentAtOnce(senders, ts)
<1>1. PICK senders \in SUBSET Vehicles :
        /\ senders = {n \in Vehicles : orders[m][n].broadcast}
        /\ \E first \in [senders -> {ts, ts + 1}] :
             /\ \A n \in senders : first[n] \in FirstPacket(n, ts)
             /\ bus' = AfterSend(first, ts)
  BY UpdateSends
<1>2. PICK first \in [senders -> {ts, ts + 1}] :
        /\ \A n \in senders : first[n] \in FirstPacket(n, ts)
        /\ bus' = AfterSend(first, ts)
  BY <1>1
<1>3. \A n \in senders : first[n] = ts
  BY <1>2 DEF FirstPacket
<1>4. first = [n \in senders |-> ts]
  BY <1>3
<1> QED
  BY <1>1, <1>2, <1>4 DEF SentAtOnce

LEMMA SentOnEmptyBus ==
  ASSUME bus = {}, NEW ts \in Nat, NEW senders \in SUBSET Vehicles
  PROVE  /\ SentAtOnce(senders, ts) =
              {NewReceipt(ts, p[1], p[3], p[2]) :
                 p \in {q \in Packets \X senders \X Vehicles : q[3] # q[2]}}
         /\ \A r \in SentAtOnce(senders, ts) : r.at > 0 /\ r.at < ts + Second
<1>1. PICK first : first = [n \in senders |-> ts]
  OBVIOUS
<1>2. SentAtOnce(senders, ts) =
        {NewReceipt(ts, p[1], p[3], p[2]) :
           p \in {q \in Packets \X senders \X Vehicles : q[3] # q[2]}}
  <2> DEFINE new == {[at |-> first[n] + k + BusDelay, to |-> m, from |-> n] :
                       n \in senders, k \in Packets, m \in Vehicles}
             all == {NewReceipt(ts, p[1], p[3], p[2]) :
                       p \in {q \in Packets \X senders \X Vehicles : q[3] # q[2]}}
  <2>1. SentAtOnce(senders, ts) = {r \in new : r.to \in Receivers(r.from)}
    BY <1>1 DEF SentAtOnce, AfterSend
  <2>2. ASSUME NEW r \in new, r.to \in Receivers(r.from)
        PROVE  r \in all
    <3>1. PICK n \in senders, k \in Packets, m \in Vehicles :
            r = [at |-> first[n] + k + BusDelay, to |-> m, from |-> n]
      OBVIOUS
    <3>2. r = NewReceipt(ts, k, m, n) /\ m # n
      BY <1>1, <2>2, <3>1 DEF NewReceipt, Receivers
    <3>3. <<k, n, m>> \in {q \in Packets \X senders \X Vehicles : q[3] # q[2]}
      BY <3>2
    <3> QED
      BY <3>2, <3>3
  <2>3. ASSUME NEW r \in all
        PROVE  r \in new /\ r.to \in Receivers(r.from)
    <3>1. PICK p \in {q \in Packets \X senders \X Vehicles : q[3] # q[2]} :
            r = NewReceipt(ts, p[1], p[3], p[2])
      OBVIOUS
    <3>2. p[1] \in Packets /\ p[2] \in senders /\ p[3] \in Vehicles /\ p[3] # p[2]
      OBVIOUS
    <3>3. first[p[2]] = ts
      BY <1>1, <3>2
    <3>4. r = [at |-> first[p[2]] + p[1] + BusDelay, to |-> p[3], from |-> p[2]]
      BY <3>1, <3>3 DEF NewReceipt
    <3> QED
      BY <3>2, <3>4 DEF Receivers
  <2> QED
    BY <2>1, <2>2, <2>3
<1>3. ASSUME NEW r \in SentAtOnce(senders, ts)
      PROVE  r.at > 0 /\ r.at < ts + Second
  <2>1. PICK p \in {q \in Packets \X senders \X Vehicles : q[3] # q[2]} :
          r = NewReceipt(ts, p[1], p[3], p[2])
    BY <1>2, <1>3
  <2>2. PICK k : k = p[1]
    OBVIOUS
  <2>3. r.at = ts + k + BusDelay
    BY <2>1, <2>2 DEF NewReceipt
  <2>4. k \in 0..(PacketsPerSend - 1)
    BY <2>2 DEF Packets
  <2> QED
    BY <2>3, <2>4, SizesAssumption, BusAssumption
<1> QED
  BY <1>2, <1>3

\* The broadcasts of the first d messages whose packets vehicle n gets, and the packets
\* that it is still to get.
Sends(d, n) == {b \in (1..d) \X (Vehicles \ {n}) : orders[b[1]][b[2]].broadcast}
Coming(n) == {r \in bus : r.to = n}

LEMMA VehiclesFinite == IsFiniteSet(Vehicles)
<1>1. 1 \in Int /\ N \in Int
  BY SizesAssumption
<1> QED
  BY <1>1, FS_Interval DEF Vehicles

LEMMA SendsFinite ==
  ASSUME NEW d \in Nat, NEW n \in Vehicles
  PROVE  IsFiniteSet(Sends(d, n)) /\ Cardinality(Sends(d, n)) \in Nat
<1>1. IsFiniteSet(1..d)
  <2>1. 1 \in Int /\ d \in Int
    OBVIOUS
  <2> QED
    BY <2>1, FS_Interval
<1>2. IsFiniteSet(Vehicles \ {n})
  BY VehiclesFinite, FS_Subset
<1>3. IsFiniteSet((1..d) \X (Vehicles \ {n}))
  BY <1>1, <1>2, FS_Product
<1>4. Sends(d, n) \subseteq (1..d) \X (Vehicles \ {n})
  BY DEF Sends
<1>5. IsFiniteSet(Sends(d, n))
  BY <1>3, <1>4, FS_Subset
<1> QED
  BY <1>5, FS_CardinalityType

\* What vehicle n gets of the broadcasts of one message.
Gets(n, senders, ts) == {r \in SentAtOnce(senders, ts) : r.to = n}

LEMMA ReceiptsCounted ==
  ASSUME bus = {}, NEW ts \in Nat, NEW senders \in SUBSET Vehicles, NEW n \in Vehicles
  PROVE  /\ IsFiniteSet(Gets(n, senders, ts))
         /\ Cardinality(Gets(n, senders, ts)) =
              PacketsPerSend * Cardinality(senders \ {n})
<1> DEFINE coming == Gets(n, senders, ts)
           others == senders \ {n}
           pairs == Packets \X others
           f == [p \in pairs |-> NewReceipt(ts, p[1], n, p[2])]
<1>1. SentAtOnce(senders, ts) =
        {NewReceipt(ts, p[1], p[3], p[2]) :
           p \in {q \in Packets \X senders \X Vehicles : q[3] # q[2]}}
  BY SentOnEmptyBus
<1>2. ASSUME NEW p \in pairs
      PROVE  f[p] \in coming
  <2>1. PICK k \in Packets, g \in others : p = <<k, g>>
    OBVIOUS
  <2>2. f[p] = NewReceipt(ts, k, n, g)
    BY <2>1
  <2>3. <<k, g, n>> \in {q \in Packets \X senders \X Vehicles : q[3] # q[2]}
    OBVIOUS
  <2>4. NewReceipt(ts, k, n, g) \in SentAtOnce(senders, ts)
    BY <1>1, <2>3
  <2> QED
    BY <2>2, <2>4 DEF NewReceipt, Gets
<1>3. ASSUME NEW r \in coming
      PROVE  \E p \in pairs : f[p] = r
  <2>1. PICK q \in Packets \X senders \X Vehicles :
          q[3] # q[2] /\ r = NewReceipt(ts, q[1], q[3], q[2])
    BY <1>1, <1>3 DEF Gets
  <2>2. q[3] = n
    BY <1>3, <2>1 DEF NewReceipt, Gets
  <2>3. <<q[1], q[2]>> \in pairs
    BY <2>1, <2>2
  <2>4. f[<<q[1], q[2]>>] = r
    BY <2>1, <2>2, <2>3
  <2> QED
    BY <2>3, <2>4
<1>4. ASSUME NEW p \in pairs, NEW q \in pairs, f[p] = f[q]
      PROVE  p = q
  <2>1. PICK k \in Packets, g \in others : p = <<k, g>>
    OBVIOUS
  <2>2. PICK l \in Packets, h \in others : q = <<l, h>>
    OBVIOUS
  <2>3. NewReceipt(ts, k, n, g) = NewReceipt(ts, l, n, h)
    BY <1>4, <2>1, <2>2
  <2>4. g = h /\ ts + k + BusDelay = ts + l + BusDelay
    BY <2>3 DEF NewReceipt
  <2>5. k = l
    BY <2>4, SizesAssumption DEF Packets
  <2> QED
    BY <2>1, <2>2, <2>4, <2>5
<1>5. IsFiniteSet(pairs) /\ Cardinality(pairs) = PacketsPerSend * Cardinality(others)
  <2>1. IsFiniteSet(Packets) /\ Cardinality(Packets) = PacketsPerSend
    <3>1. /\ 0 \in Int /\ PacketsPerSend - 1 \in Int /\ ~(0 > PacketsPerSend - 1)
          /\ PacketsPerSend - 1 - 0 + 1 = PacketsPerSend
      BY SizesAssumption
    <3> QED
      BY <3>1, FS_Interval DEF Packets
  <2>2. IsFiniteSet(others)
    BY VehiclesFinite, FS_Subset
  <2> QED
    BY <2>1, <2>2, FS_Product
<1>6. f \in Bijection(pairs, coming)
  <2>1. f \in [pairs -> coming]
    BY <1>2
  <2> HIDE DEF f, pairs, coming
  <2>2. f \in Injection(pairs, coming)
    BY <1>4, <2>1 DEF Injection, IsInjective
  <2>3. f \in Surjection(pairs, coming)
    BY <1>3, <2>1 DEF Surjection
  <2> QED
    BY <2>2, <2>3 DEF Bijection
<1>7. ExistsBijection(pairs, coming)
  BY <1>6 DEF ExistsBijection
<1> HIDE DEF f, pairs, coming
<1>8. IsFiniteSet(coming) /\ Cardinality(coming) = Cardinality(pairs)
  BY <1>5, <1>7, FS_Bijection
<1> QED
  BY <1>5, <1>8 DEF coming

\* One message more.
LEMMA SendsMore ==
  ASSUME NEW d \in Nat, NEW n \in Vehicles
  PROVE  Cardinality(Sends(d + 1, n)) =
           Cardinality(Sends(d, n))
             + Cardinality({m \in Vehicles : orders[d + 1][m].broadcast} \ {n})
<1> DEFINE senders == {m \in Vehicles : orders[d + 1][m].broadcast} \ {n}
           more == {d + 1} \X senders
<1>1. Sends(d + 1, n) = Sends(d, n) \cup more
  <2>1. \A i : i \in 1..(d + 1) <=> i \in 1..d \/ i = d + 1
    OBVIOUS
  <2> QED
    BY <2>1 DEF Sends
<1>2. Sends(d, n) \cap more = {}
  <2>1. d + 1 \notin 1..d
    OBVIOUS
  <2> QED
    BY <2>1 DEF Sends
<1>3. IsFiniteSet(senders) /\ Cardinality(senders) \in Nat
  BY VehiclesFinite, FS_Subset, FS_CardinalityType
<1>4. IsFiniteSet(more) /\ Cardinality(more) = Cardinality(senders)
  <2>1. IsFiniteSet({d + 1}) /\ Cardinality({d + 1}) = 1
    BY FS_Singleton
  <2> HIDE DEF senders
  <2>2. IsFiniteSet(more) /\ Cardinality(more) = 1 * Cardinality(senders)
    BY <1>3, <2>1, FS_Product
  <2> QED
    BY <1>3, <2>2
<1> HIDE DEF more, senders
<1>5. IsFiniteSet(Sends(d, n)) /\ Cardinality(Sends(d, n)) \in Nat
  BY SendsFinite
<1>6. Cardinality(Sends(d, n) \cup more) =
        Cardinality(Sends(d, n)) + Cardinality(more) - Cardinality(Sends(d, n) \cap more)
  BY <1>4, <1>5, FS_Union
<1>7. Cardinality(Sends(d, n) \cap more) = 0
  BY <1>2, FS_EmptySet
<1>8. Cardinality(Sends(d + 1, n)) = Cardinality(Sends(d, n)) + Cardinality(senders)
  <2>1. PICK a \in Nat, b \in Nat :
          a = Cardinality(Sends(d, n)) /\ b = Cardinality(senders)
    BY <1>3, <1>5
  <2>2. Cardinality(Sends(d + 1, n)) = a + b - 0
    BY <1>1, <1>4, <1>6, <1>7, <2>1
  <2> QED
    BY <2>1, <2>2
<1> QED
  BY <1>8 DEF senders

\* Each vehicle's count, before it wraps, and the packets that it is still to get are
\* those of the broadcasts so far.
Tally(n) ==
  /\ IsFiniteSet(Coming(n))
  /\ \E c \in Nat :
       /\ count[n] = c % Uint16
       /\ c + Cardinality(Coming(n)) =
            PacketsPerSend * Cardinality(Sends(Len(delivered), n))

\* A callback is answered as long as the server is there.
RepliesInv ==
  /\ Len(replies) <= Len(delivered)
  /\ Len(replies) < Len(delivered) => conn = "closed"

\* Nothing is received at time 0.
NothingAtOnce ==
  /\ now = 0 => \A n \in Vehicles : count[n] = 0
  /\ \A r \in bus : r.at > 0

CountInv ==
  /\ CountsReported
  /\ ~Insufficient =>
       /\ RepliesInv /\ NothingAtOnce
       /\ args.timeDelta > 0 => Timely /\ \A n \in Vehicles : Tally(n)

\* The steps that concern the packets.
LEMMA CountSteps ==
  ASSUME [CoNext]_coVars
  PROVE  \/ \E e \in events : /\ BusWaits(e.ts) /\ Callback(e) /\ DoUpdate(e.msg, e.ts)
                              /\ UNCHANGED program
         \/ \E r \in bus : HandleReceive(r) /\ UNCHANGED <<program, delivered>>
         \/ UNCHANGED <<count, bus, replies, delivered>>
<1>1. CASE TheServer
  BY <1>1, ServerFrame DEF history, vehicles
<1>2. CASE TheGateway \/ TheThread \/ CoTerminating \/ UNCHANGED coVars
  <2>1. ASSUME NEW r \in bus, HandleReceive(r) PROVE delivered' = delivered
    BY <2>1 DEF HandleReceive, history
  <2> QED
    BY <1>2, <2>1, GatewaySplit
<1> QED
  BY <1>1, <1>2 DEF CoNext

LEMMA DeliveredNext ==
  ASSUME CoBase, Live, SeenIncreases, DeliveredInv, [CoNext]_coVars
  PROVE  DeliveredInv'
<1>1. ASSUME NEW e \in events, Callback(e)
      PROVE  DeliveredInv'
  BY <1>1, DeliveredCallback DEF Live, Callback
<1>2. ASSUME delivered' = delivered
      PROVE  DeliveredInv'
  <2>1. \A m \in 1..Seen : sent'[m] = sent[m]
    <3>1. ASSUME NEW e \in events, Forwards(e) PROVE sent' = sent
      BY <3>1 DEF Forwards, ForwardTerminate, ForwardFirst, ForwardUpdate, server
    <3> QED
      BY <3>1, SeenKept DEF CoBase, CoTypes
  <2>2. ASSUME NEW i \in DOMAIN delivered
        PROVE  sent'[i] = sent[i] /\ sent'[1] = sent[1]
    <3>1. i \in 1..Seen /\ Seen \in Nat
      BY DeliveredSeen, SentTypes DEF Live
    <3>2. 1 \in 1..Seen
      BY <3>1
    <3> QED
      BY <2>1, <3>1, <3>2
  <2> QED
    BY <1>2, <2>2 DEF DeliveredInv
<1> QED
  BY <1>1, <1>2, CountSteps

LEMMA BusSoonNext ==
  ASSUME CoBase, Live, ProgramInv, Timely, args.timeDelta > 0, [CoNext]_coVars
  PROVE  BusSoon'
<1>1. ASSUME NEW e \in events, BusWaits(e.ts), Callback(e), DoUpdate(e.msg, e.ts)
      PROVE  BusSoon'
  <2>1. IsNext(e, events) /\ e.fn \in CallbackFns /\ e.ts \in Nat
    <3>1. IsNext(e, events) /\ e.fn \in CallbackFns
      BY <1>1 DEF Callback, DoInitialize, HandleUpdate, Runs, CallbackFns
    <3> QED
      BY <3>1, NextEvent DEF Live, EveryInv
  <2>2. bus = {}
    BY <1>1, <2>1, CallbackTimely
  <2>3. PICK senders \in SUBSET Vehicles : bus' = SentAtOnce(senders, e.ts)
    BY <1>1, <2>2, UpdateOnEmptyBus
  <2>4. \A r \in bus' : r.at < e.ts + Second
    BY <2>1, <2>2, <2>3, SentOnEmptyBus
  <2>5. delivered' # <<>> /\ LastTime' = e.ts
    <3>1. /\ Len(delivered) \in Nat /\ Len(delivered') = Len(delivered) + 1
          /\ delivered'[Len(delivered) + 1] = [msg |-> e.msg, at |-> e.ts]
      BY <1>1, CallbackDelivers
    <3>2. Len(delivered') # 0 /\ delivered'[Len(delivered')].at = e.ts
      BY <3>1
    <3> QED
      BY <3>2 DEF LastTime
  <2> QED
    BY <2>4, <2>5 DEF BusSoon
<1>2. ASSUME bus' \subseteq bus, delivered' = delivered
      PROVE  BusSoon'
  BY <1>2 DEF Timely, BusSoon, LastTime
<1>3. ASSUME NEW r \in bus, HandleReceive(r)
      PROVE  bus' \subseteq bus
  BY <1>3 DEF HandleReceive
<1> QED
  BY <1>1, <1>2, <1>3, CountSteps

LEMMA TimelyNext ==
  ASSUME CoBase, Live, ProgramInv, Timely, args.timeDelta > 0, [CoNext]_coVars
  PROVE  Timely'
BY SeenNext, DeliveredNext, BusSoonNext DEF Timely

\* What was sent stays.
LEMMA OrdersKept ==
  ASSUME CoTypes, [CoNext]_coVars
  PROVE  /\ Len(sent) \in Nat /\ Len(orders) = Len(sent)
         /\ \A m \in 1..Len(sent) : orders'[m] = orders[m]
         /\ args' = args
<1>1. orders \in Seq(Worlds \cup {<<>>}) /\ Len(orders) = Len(sent) /\ Len(sent) \in Nat
  BY LenProperties DEF CoTypes, MessageTypes
<1>2. CASE SendStep \/ SendTerminate
  <2>1. PICK order \in Worlds \cup {<<>>} : orders' = Append(orders, order)
    BY <1>2 DEF SendStep, SendTerminate, CoTypes, ServerTypes
  <2>2. \A m \in 1..Len(sent) : orders'[m] = orders[m]
    BY <1>1, <2>1, AppendProperties
  <2>3. args' = args
    BY <1>2 DEF SendStep, SendTerminate
  <2> QED
    BY <1>1, <2>2, <2>3
<1>3. CASE ~SendStep /\ ~SendTerminate
  <2>1. orders' = orders /\ args' = args
    BY <1>3, ServerFrame
    DEF CoNext, TheGateway, TheThread, CoTerminating, coVars, program
  <2> QED
    BY <1>1, <2>1
<1> QED
  BY <1>2, <1>3

\* A connection that is closed stays so.
LEMMA ClosedStays ==
  ASSUME ConnectionInv, conn = "closed", [CoNext]_coVars
  PROVE  conn' = "closed"
<1>1. state # "CREATED"
  BY DEF ConnectionInv
<1>2. CASE TheServer
  BY <1>2, ServerFrame DEF CloseSockets, Closed, ServerClose, vars, server
<1>3. CASE TheGateway
  <2>1. ASSUME NEW e \in events, OtherEvent(e) \/ Callback(e) \/ DoUpdateFails(e)
        PROVE  conn' = conn
    BY <1>1, <2>1 DEF OtherEvent, Callback, DoUpdateFails, Connect, ConnectFails,
       WaitForNextUpdate, ForwardUpFails, ForwardTerminate, ForwardFirst, ForwardUpdate,
       CallbackFails, StopBegin, DoInitialize, HandleUpdate, Abort, server
  <2>2. ASSUME NEW r \in bus, HandleReceive(r) PROVE conn' = conn
    BY <2>2 DEF HandleReceive, server
  <2>3. ASSUME StopEnd \/ Destroy \/ RunReturns PROVE conn' = conn
    BY <2>3 DEF StopEnd, Destroy, RunReturns, server
  <2> QED
    BY <1>3, <2>1, <2>2, <2>3 DEF TheGateway, Callback
<1>4. CASE TheThread
  BY <1>4 DEF TheThread, ConnectionReset, Thread, ThreadCheck, ThreadRecv, ThreadHangup,
     ThreadRecvFails, ThreadPush, ThreadForward, ThreadScheduleStop, ThreadFrame
<1>5. CASE CoTerminating \/ UNCHANGED coVars
  BY <1>5 DEF CoTerminating, coVars, vars, server
<1> QED
  BY <1>2, <1>3, <1>4, <1>5 DEF CoNext

\* A callback replies, or the server is gone.
LEMMA CallbackAnswer ==
  ASSUME CoTypes, Live, ConnectionInv, NEW e \in events, Callback(e), DoUpdate(e.msg, e.ts)
  PROVE  \/ conn = "open" /\ replies' = Append(replies, count)
            /\ Len(replies') = Len(replies) + 1
         \/ conn = "closed" /\ replies' = replies
<1>1. Deliver(e)
  BY DEF Callback, DoInitialize, HandleUpdate
<1>2. state = "CONNECTED"
  BY <1>1, ResponsesAssumption DEF Deliver
<1>3. conn \in {"open", "closed"}
  BY <1>2 DEF ConnectionInv, Live, EveryInv, IInv, TypeOK
<1>4. CASE conn = "open"
  BY <1>4, CallbackReplies
<1>5. CASE conn = "closed"
  <2>1. responses' = responses /\ responses \in Nat
    BY <1>1, <1>5 DEF Deliver, CoTypes, MessageTypes
  <2> QED
    BY <1>5, <2>1 DEF DoUpdate
<1> QED
  BY <1>3, <1>4, <1>5

LEMMA RepliesNext ==
  ASSUME CoTypes, Live, ConnectionInv, RepliesInv, [CoNext]_coVars
  PROVE  RepliesInv'
<1>1. ASSUME NEW e \in events, Callback(e), DoUpdate(e.msg, e.ts)
      PROVE  RepliesInv'
  <2>1. Len(delivered) \in Nat /\ Len(delivered') = Len(delivered) + 1
    BY <1>1, CallbackDelivers
  <2>2. Len(replies) \in Nat
    BY LenProperties DEF CoTypes, MessageTypes
  <2>3. \/ conn = "open" /\ Len(replies') = Len(replies) + 1
        \/ conn = "closed" /\ Len(replies') = Len(replies)
    BY <1>1, CallbackAnswer
  <2> QED
    BY <2>1, <2>2, <2>3, ClosedStays DEF RepliesInv
<1>2. ASSUME UNCHANGED <<replies, delivered>>
      PROVE  RepliesInv'
  BY <1>2, ClosedStays DEF RepliesInv
<1>3. ASSUME NEW r \in bus, HandleReceive(r) PROVE replies' = replies
  BY <1>3 DEF HandleReceive
<1> QED
  BY <1>1, <1>2, <1>3, CountSteps

\* The clock is at 0 only before anything was received.
LEMMA NothingAtOnceNext ==
  ASSUME CoBase, Live, NothingAtOnce, [CoNext]_coVars
  PROVE  NothingAtOnce'
<1>1. now \in Nat /\ now' \in Nat /\ now <= now'
  <2>1. now \in Nat
    BY DEF Live, EveryInv, IInv, TypeOK
  <2> QED
    BY <2>1, ClockForward DEF CoBase
<1>2. ASSUME NEW e \in events, Callback(e), DoUpdate(e.msg, e.ts)
      PROVE  NothingAtOnce'
  <2>1. e.ts \in Nat
    BY <1>2, NextEvent
    DEF Live, EveryInv, Callback, DoInitialize, HandleUpdate, Runs
  <2>2. ASSUME NEW r \in bus' PROVE r.at > 0
    <3>1. PICK senders \in SUBSET Vehicles :
            \E first \in [senders -> {e.ts, e.ts + 1}] : bus' = AfterSend(first, e.ts)
      BY <1>2, UpdateSends
    <3>2. PICK first \in [senders -> {e.ts, e.ts + 1}] : bus' = AfterSend(first, e.ts)
      BY <3>1
    <3>3. r \in bus \/ \E n \in senders, k \in Packets : r.at = first[n] + k + BusDelay
      BY <2>2, <3>2 DEF AfterSend
    <3>4. ASSUME NEW n \in senders, NEW k \in Packets, r.at = first[n] + k + BusDelay
          PROVE  r.at > 0
      <4>1. PICK f : f = first[n]
        OBVIOUS
      <4>2. f = e.ts \/ f = e.ts + 1
        BY <3>2, <4>1
      <4>3. k \in Nat /\ BusDelay \in Nat /\ BusDelay > 0
        BY SizesAssumption DEF Packets
      <4> QED
        BY <2>1, <3>4, <4>1, <4>2, <4>3
    <3> QED
      BY <3>3, <3>4 DEF NothingAtOnce
  <2>3. count' = count
    BY <1>2 DEF DoUpdate
  <2>4. now' = 0 => now = 0
    BY <1>1
  <2> QED
    BY <2>2, <2>3, <2>4 DEF NothingAtOnce
<1>3. ASSUME NEW r \in bus, HandleReceive(r)
      PROVE  NothingAtOnce'
  <2>1. now' = r.at /\ bus' \subseteq bus
    BY <1>3 DEF HandleReceive, Return
  <2>2. r.at \in Nat /\ r.at > 0
    BY DEF NothingAtOnce, CoBase, BusInv, Receipts
  <2> QED
    BY <2>1, <2>2 DEF NothingAtOnce
<1>4. ASSUME UNCHANGED <<count, bus>>
      PROVE  NothingAtOnce'
  <2>1. now' = 0 => now = 0
    BY <1>1
  <2> QED
    BY <1>4, <2>1 DEF NothingAtOnce
<1> QED
  BY <1>2, <1>3, <1>4, CountSteps

\* The broadcasts of the messages that were sent stay.
LEMMA SendsKept ==
  ASSUME CoTypes, [CoNext]_coVars, NEW d \in Nat, d <= Len(sent), NEW n
  PROVE  Sends(d, n)' = Sends(d, n)
<1>1. ASSUME NEW m \in 1..d PROVE orders'[m] = orders[m]
  <2>1. Len(sent) \in Nat /\ \A k \in 1..Len(sent) : orders'[k] = orders[k]
    BY OrdersKept
  <2>2. m \in 1..Len(sent)
    BY <2>1
  <2> QED
    BY <2>1, <2>2
<1>2. Sends(d, n)' = {b \in (1..d) \X (Vehicles \ {n}) : orders'[b[1]][b[2]].broadcast}
  BY DEF Sends
<1> QED
  BY <1>1, <1>2 DEF Sends

\* The callbacks that ran were those of messages that the server sent.
LEMMA DeliveredCount ==
  ASSUME Live, DeliveredInv
  PROVE  /\ Len(delivered) \in Nat /\ DOMAIN delivered = 1..Len(delivered)
         /\ Len(delivered) <= Seen /\ Len(delivered) <= Len(sent)
<1>1. PICK d : d = Len(delivered)
  OBVIOUS
<1>2. d \in Nat /\ DOMAIN delivered = 1..d
  BY <1>1, LenProperties DEF Live, EveryInv, IInv, TypeOK
<1>3. Seen \in Nat /\ Seen <= Len(sent) /\ Len(sent) \in Nat
  BY SentTypes DEF Live
<1>4. d # 0 => d \in 1..Seen
  BY <1>2, DeliveredSeen DEF Live
<1> QED
  BY <1>1, <1>2, <1>3, <1>4

\* A callback finds that every packet has come, and makes those of its message come.
LEMMA TallyCallback ==
  ASSUME CoBase, Live, ProgramInv, Timely, args.timeDelta > 0,
         NEW n \in Vehicles, Tally(n), NEW e \in events, BusWaits(e.ts),
         Callback(e), DoUpdate(e.msg, e.ts), orders' = orders
  PROVE  /\ count[n] = (PacketsPerSend * Cardinality(Sends(Len(delivered), n))) % Uint16
         /\ Tally(n)'
<1>1. PICK d : d = Len(delivered)
  OBVIOUS
<1>2. IsNext(e, events) /\ e.fn \in CallbackFns /\ e.ts \in Nat
  <2>1. IsNext(e, events) /\ e.fn \in CallbackFns
    BY DEF Callback, DoInitialize, HandleUpdate, Runs, CallbackFns
  <2> QED
    BY <2>1, NextEvent DEF Live, EveryInv
<1>3. bus = {} /\ e.msg = d + 1
  BY <1>1, <1>2, CallbackTimely
<1>4. d \in Nat /\ Len(delivered') = d + 1
  BY <1>1, CallbackDelivers
<1>5. count[n] = (PacketsPerSend * Cardinality(Sends(d, n))) % Uint16
  <2>1. Coming(n) = {}
    BY <1>3 DEF Coming
  <2>2. Cardinality(Coming(n)) = 0
    BY <2>1, FS_EmptySet
  <2>3. PICK c \in Nat : /\ count[n] = c % Uint16
                         /\ c + 0 = PacketsPerSend * Cardinality(Sends(d, n))
    BY <1>1, <2>2 DEF Tally
  <2> QED
    BY <2>3
<1>6. PICK senders \in SUBSET Vehicles :
        /\ senders = {m \in Vehicles : orders[d + 1][m].broadcast}
        /\ bus' = SentAtOnce(senders, e.ts)
  BY <1>3, UpdateOnEmptyBus
<1>7. count' = count
  BY DEF DoUpdate
<1>8. /\ IsFiniteSet(Coming(n)')
      /\ Cardinality(Coming(n)') = PacketsPerSend * Cardinality(senders \ {n})
  <2>1. Coming(n)' = Gets(n, senders, e.ts)
    BY <1>6 DEF Coming, Gets
  <2>2. /\ IsFiniteSet(Gets(n, senders, e.ts))
        /\ Cardinality(Gets(n, senders, e.ts)) =
             PacketsPerSend * Cardinality(senders \ {n})
    BY <1>2, <1>3, ReceiptsCounted
  <2> QED
    BY <2>1, <2>2
<1>9. Sends(Len(delivered), n)' = Sends(d + 1, n)
  BY <1>4 DEF Sends
<1>10. Cardinality(Sends(d + 1, n)) = Cardinality(Sends(d, n)) + Cardinality(senders \ {n})
  BY <1>4, <1>6, SendsMore
<1>11. PICK c \in Nat :
         /\ count[n] = c % Uint16 /\ c = PacketsPerSend * Cardinality(Sends(d, n))
         /\ c + Cardinality(Coming(n)')
              = PacketsPerSend * Cardinality(Sends(Len(delivered), n)')
  <2>1. PICK a \in Nat : a = Cardinality(Sends(d, n))
    BY <1>4, SendsFinite
  <2>2. PICK b \in Nat : b = Cardinality(senders \ {n})
    BY VehiclesFinite, FS_Subset, FS_CardinalityType
  <2>3. PacketsPerSend \in Nat
    BY SizesAssumption
  <2>4. PacketsPerSend * (a + b) = PacketsPerSend * a + PacketsPerSend * b
    BY <2>1, <2>2, <2>3
  <2>5. PacketsPerSend * a \in Nat
    BY <2>1, <2>3
  <2> QED
    BY <1>5, <1>8, <1>9, <1>10, <2>1, <2>2, <2>4, <2>5
<1> QED
  BY <1>1, <1>5, <1>7, <1>8, <1>11 DEF Tally

\* A receipt is one packet less to come.
LEMMA TallyReceipt ==
  ASSUME CoBase, Live, DeliveredInv, NEW n \in Vehicles, Tally(n), NEW r \in bus,
         HandleReceive(r), UNCHANGED <<orders, delivered>>
  PROVE  Tally(n)'
<1>1. bus' = bus \ {r} /\ count' = [count EXCEPT ![r.to] = OneMore(@)]
  BY DEF HandleReceive
<1>2. r.to \in Vehicles /\ count \in [Vehicles -> Values]
  BY DEF CoBase, BusInv, Receipts, CoTypes, VehicleTypes
<1>3. Coming(n)' = Coming(n) \ {r}
  BY <1>1 DEF Coming
<1>4. Sends(Len(delivered), n)' = Sends(Len(delivered), n)
  BY DEF Sends
<1>5. PICK s : s = PacketsPerSend * Cardinality(Sends(Len(delivered), n))
  OBVIOUS
<1>6. IsFiniteSet(Coming(n)) /\ Cardinality(Coming(n)) \in Nat
  BY FS_CardinalityType DEF Tally
<1>7. PICK c \in Nat : count[n] = c % Uint16 /\ c + Cardinality(Coming(n)) = s
  BY <1>5 DEF Tally
<1>8. IsFiniteSet(Coming(n)')
  BY <1>3, <1>6, FS_Subset
<1>9. \E d \in Nat : count'[n] = d % Uint16 /\ d + Cardinality(Coming(n)') = s
  <2>1. CASE r.to = n
    <3>1. count'[n] = ((c % Uint16) + 1) % Uint16
      BY <1>1, <1>2, <1>7, <2>1 DEF OneMore
    <3>2. ((c % Uint16) + 1) % Uint16 = (c + 1) % Uint16
      BY SizesAssumption, ModPlus
    <3>3. r \in Coming(n)
      BY <2>1 DEF Coming
    <3>4. Cardinality(Coming(n)') = Cardinality(Coming(n)) - 1
      BY <1>3, <1>6, <3>3, FS_RemoveElement
    <3>5. c + 1 \in Nat /\ c + 1 + Cardinality(Coming(n)') = s
      BY <1>6, <1>7, <3>4
    <3> QED
      BY <3>1, <3>2, <3>5
  <2>2. CASE r.to # n
    <3>1. count'[n] = count[n]
      BY <1>1, <1>2, <2>2
    <3>2. Coming(n)' = Coming(n)
      BY <1>3, <2>2 DEF Coming
    <3> QED
      BY <1>7, <3>1, <3>2
  <2> QED
    BY <2>1, <2>2
<1> QED
  BY <1>4, <1>5, <1>8, <1>9 DEF Tally

LEMMA TallyNext ==
  ASSUME CoBase, Live, ProgramInv, Timely, args.timeDelta > 0,
         NEW n \in Vehicles, Tally(n), [CoNext]_coVars
  PROVE  Tally(n)'
<1>1. ASSUME NEW e \in events, BusWaits(e.ts), Callback(e), DoUpdate(e.msg, e.ts),
             UNCHANGED program
      PROVE  Tally(n)'
  BY <1>1, TallyCallback DEF program
<1>2. ASSUME NEW r \in bus, HandleReceive(r), UNCHANGED <<program, delivered>>
      PROVE  Tally(n)'
  BY <1>2, TallyReceipt DEF program, Timely
<1>3. ASSUME UNCHANGED <<count, bus, delivered>>
      PROVE  Tally(n)'
  <2>1. PICK d : d = Len(delivered)
    OBVIOUS
  <2>2. d \in Nat /\ d <= Len(sent)
    BY <2>1, DeliveredCount DEF Timely
  <2>3. Sends(d, n)' = Sends(d, n)
    BY <2>2, SendsKept DEF CoBase
  <2>4. Sends(Len(delivered), n)' = Sends(d, n)'
    BY <1>3, <2>1 DEF Sends
  <2>5. Coming(n)' = Coming(n)
    BY <1>3 DEF Coming
  <2> QED
    BY <1>3, <2>1, <2>3, <2>4, <2>5 DEF Tally
<1> QED
  BY <1>1, <1>2, <1>3, CountSteps

\* What a response reports of vehicle n.
Reports(k, n) ==
  IF args.timeDelta = 0 THEN 0
  ELSE (PacketsPerSend * Cardinality(Sends(k - 1, n))) % Uint16

LEMMA CountsAre ==
  CountsReported <=> \A k \in DOMAIN replies, n \in Vehicles : replies[k][n] = Reports(k, n)
BY DEF CountsReported, Reports, Sends

\* In steps of no time nothing has come.
LEMMA CallbackAtOnce ==
  ASSUME CoTypes, Live, ProgramInv, NothingAtOnce, args.timeDelta = 0,
         NEW e \in events, Callback(e), NEW n \in Vehicles
  PROVE  count[n] = 0
<1>1. IInv /\ IsNext(e, events) /\ e.fn \in CallbackFns
  BY DEF Live, EveryInv, Callback, DoInitialize, HandleUpdate, Runs, CallbackFns
<1>2. PICK m : m = e.msg
  OBVIOUS
<1>3. /\ m \in 1..Seen /\ ~(sent[m] < 0) /\ e.ts = sent[m] - sent[1]
  BY <1>1, <1>2, CallbackSeen, CallbackTime DEF Live
<1>4. /\ Seen \in Nat /\ Len(sent) \in Nat /\ Seen <= Len(sent)
      /\ DOMAIN sent = 1..Len(sent) /\ \A k \in 1..Seen : sent[k] \in Int
  BY SentTypes DEF Live
<1>5. 1 \in 1..Seen /\ 1 \in DOMAIN sent
  BY <1>3, <1>4
<1>6. sent[1] = Stamp(0)
  <2>1. CASE sent[1] = -1 /\ 1 = Len(sent)
    <3>1. m = 1
      BY <1>3, <1>4, <2>1
    <3> QED
      BY <1>3, <2>1, <3>1
  <2>2. CASE sent[1] = Stamp(1 - 1)
    BY <2>2
  <2> QED
    BY <1>5, <2>1, <2>2 DEF ProgramInv, SentInv
<1>7. sent[m] = Stamp(m - 1) /\ sent[m] \in Nat
  BY <1>3, SeenStamps DEF ProgramInv
<1>8. Stamp(m - 1) = Stamp(0)
  <2>1. m - 1 \in Nat
    BY <1>3, <1>4
  <2>2. 0 * (m - 1) = 0 * 0
    BY <2>1
  <2> QED
    BY <2>2 DEF Stamp
<1>9. e.ts = 0
  BY <1>3, <1>6, <1>7, <1>8
<1>10. now \in Nat /\ e.ts >= now
  BY <1>1, NextEvent DEF IInv, TypeOK
<1> QED
  BY <1>9, <1>10 DEF NothingAtOnce

\* The reports of the responses that were sent stay.
LEMMA ReportsKept ==
  ASSUME CoBase, ~Insufficient => RepliesInv /\ (args.timeDelta > 0 => DeliveredInv),
         [CoNext]_coVars, NEW k \in DOMAIN replies, NEW n \in Vehicles
  PROVE  Reports(k, n)' = Reports(k, n)
<1>1. args' = args
  BY OrdersKept DEF CoBase
<1>2. args.timeDelta \in Nat
  BY ArgsAssumption DEF CoBase, CoTypes, LoopTypes, CommandLine
<1>3. CASE args.timeDelta = 0
  BY <1>1, <1>3 DEF Reports
<1>4. CASE args.timeDelta > 0 /\ fault = "none"
  <2>1. Live /\ RepliesInv /\ DeliveredInv
    BY <1>4 DEF CoBase, GatewayInv, Insufficient, Live
  <2>2. Len(replies) \in Nat /\ k \in 1..Len(replies)
    BY LenProperties DEF CoBase, CoTypes, MessageTypes
  <2>3. PICK d : d = k - 1
    OBVIOUS
  <2>4. d \in Nat /\ d <= Len(sent)
    <3>1. /\ Len(delivered) \in Nat /\ Len(sent) \in Nat
          /\ Len(delivered) <= Len(sent) /\ Len(replies) <= Len(delivered)
      BY <2>1, DeliveredCount, OrdersKept DEF RepliesInv, CoBase
    <3> QED
      BY <2>2, <2>3, <3>1
  <2>5. Sends(d, n)' = Sends(d, n)
    BY <2>4, SendsKept DEF CoBase
  <2> QED
    BY <1>1, <2>3, <2>5 DEF Reports
<1>5. CASE fault # "none"
  <2>1. orders' = orders
    <3>1. ~SendStep /\ ~SendTerminate
      BY <1>5 DEF SendStep, SendTerminate, ServerSend, Ended
    <3> QED
      BY <3>1, ServerFrame DEF CoNext, TheGateway, TheThread, CoTerminating, coVars, program
  <2> QED
    BY <1>1, <2>1 DEF Reports, Sends
<1> QED
  BY <1>2, <1>3, <1>4, <1>5

LEMMA CountsNext ==
  ASSUME CoBase, ProgramInv, CountInv, [CoNext]_coVars
  PROVE  CountsReported'
<1>1. CountsReported' <=>
        \A k \in DOMAIN replies', n \in Vehicles : replies'[k][n] = Reports(k, n)'
  BY DEF CountsReported, Reports, Sends
<1>2. \A k \in DOMAIN replies, n \in Vehicles :
        replies[k][n] = Reports(k, n) /\ Reports(k, n)' = Reports(k, n)
  BY CountsAre, ReportsKept DEF CountInv, Timely
<1>3. CASE replies' = replies
  BY <1>1, <1>2, <1>3
<1>4. ASSUME NEW e \in events, BusWaits(e.ts), Callback(e), DoUpdate(e.msg, e.ts),
             UNCHANGED program, replies' # replies
      PROVE  CountsReported'
  <2>1. fault = "none"
    BY <1>4 DEF Callback, DoInitialize, HandleUpdate, Runs
  <2>2. Live /\ RepliesInv /\ NothingAtOnce /\ CoTypes /\ ConnectionInv
    BY <2>1 DEF CoBase, GatewayInv, Insufficient, Live, CountInv, ProgramInv
  <2>3. conn = "open" /\ replies' = Append(replies, count)
    BY <1>4, <2>2, CallbackAnswer
  <2>4. PICK l : l = Len(replies)
    OBVIOUS
  <2>5. /\ l \in Nat /\ DOMAIN replies = 1..l /\ DOMAIN replies' = 1..(l + 1)
        /\ replies'[l + 1] = count /\ \A k \in 1..l : replies'[k] = replies[k]
    <3>1. replies \in Seq([Vehicles -> Values]) /\ count \in [Vehicles -> Values]
      BY <2>2 DEF CoTypes, MessageTypes, VehicleTypes
    <3>2. /\ replies' \in Seq([Vehicles -> Values]) /\ Len(replies') = l + 1
          /\ replies'[l + 1] = count /\ \A k \in 1..l : replies'[k] = replies[k]
      BY <2>3, <2>4, <3>1, AppendProperties
    <3> QED
      BY <2>4, <3>1, <3>2, LenProperties
  <2>6. Len(delivered) = l
    <3>1. Len(delivered) \in Nat
      BY <1>4, <2>2, CallbackDelivers
    <3> QED
      BY <2>2, <2>3, <2>4, <2>5, <3>1 DEF RepliesInv
  <2>7. ASSUME NEW n \in Vehicles
        PROVE  count[n] = Reports(l + 1, n)'
    <3>1. args' = args /\ orders' = orders
      BY <1>4 DEF program
    <3>2. args.timeDelta \in Nat
      BY <2>2, ArgsAssumption DEF CoTypes, LoopTypes, CommandLine
    <3>3. CASE args.timeDelta = 0
      BY <1>4, <2>2, <3>1, <3>3, CallbackAtOnce DEF Reports
    <3>4. CASE args.timeDelta > 0
      <4>1. Timely /\ Tally(n)
        BY <2>1, <3>4 DEF CountInv, Insufficient
      <4>2. count[n] = (PacketsPerSend * Cardinality(Sends(l, n))) % Uint16
        BY <1>4, <2>2, <2>6, <3>1, <3>4, <4>1, TallyCallback
      <4>3. PICK k : k = l + 1
        OBVIOUS
      <4>4. k - 1 = l /\ args.timeDelta # 0
        BY <2>5, <3>2, <3>4, <4>3
      <4>5. Reports(k, n) = (PacketsPerSend * Cardinality(Sends(k - 1, n))) % Uint16
        BY <4>4 DEF Reports
      <4>6. Reports(k, n)' = Reports(k, n)
        BY <3>1 DEF Reports, Sends
      <4> QED
        BY <4>2, <4>3, <4>4, <4>5, <4>6
    <3> QED
      BY <3>2, <3>3, <3>4
  <2>8. ASSUME NEW k \in DOMAIN replies', NEW n \in Vehicles
        PROVE  replies'[k][n] = Reports(k, n)'
    <3>1. CASE k = l + 1
      BY <2>5, <2>7, <3>1
    <3>2. CASE k # l + 1
      <4>1. k \in 1..l
        BY <2>5, <2>8, <3>2
      <4> QED
        BY <1>2, <2>5, <4>1
    <3> QED
      BY <3>1, <3>2
  <2> QED
    BY <1>1, <2>8
<1>5. ASSUME NEW r \in bus, HandleReceive(r) PROVE replies' = replies
  BY <1>5 DEF HandleReceive
<1> QED
  BY <1>3, <1>4, <1>5, CountSteps

LEMMA CountNext == CoBase /\ ProgramInv /\ CountInv /\ [CoNext]_coVars => CountInv'
<1> SUFFICES ASSUME CoBase, ProgramInv, CountInv, [CoNext]_coVars PROVE CountInv'
  OBVIOUS
<1>1. CountsReported'
  BY CountsNext
<1>2. ASSUME ~Insufficient'
      PROVE  ~Insufficient
  <2>1. CASE fault = "none"
    BY <2>1 DEF Insufficient
  <2>2. CASE fault # "none"
    <3>1. fault' = fault
      BY <2>2, FaultStays DEF vars
    <3> QED
      BY <1>2, <3>1 DEF Insufficient
  <2> QED
    BY <2>1, <2>2
<1>3. ASSUME ~Insufficient
      PROVE  /\ RepliesInv' /\ NothingAtOnce'
             /\ args'.timeDelta > 0 => Timely' /\ \A n \in Vehicles : Tally(n)'
  <2>1. Live /\ CoTypes /\ ConnectionInv /\ RepliesInv /\ NothingAtOnce
    BY <1>3 DEF CoBase, GatewayInv, Live, CountInv, ProgramInv
  <2>2. RepliesInv' /\ NothingAtOnce'
    BY <2>1, RepliesNext, NothingAtOnceNext
  <2>3. args' = args
    BY <2>1, OrdersKept
  <2>4. ASSUME args.timeDelta > 0
        PROVE  Timely' /\ \A n \in Vehicles : Tally(n)'
    BY <1>3, <2>1, <2>4, TimelyNext, TallyNext DEF CountInv
  <2> QED
    BY <2>2, <2>3, <2>4
<1> QED
  BY <1>1, <1>2, <1>3 DEF CountInv

LEMMA CountInit == CoInit => CountInv
<1> SUFFICES ASSUME CoInit PROVE CountInv
  OBVIOUS
<1>1. /\ replies = <<>> /\ delivered = <<>> /\ bus = {} /\ sent = <<>>
      /\ messageQueue = <<>> /\ messageBuffer = <<>> /\ stream = <<>>
      /\ \A n \in Vehicles : count[n] = 0
  BY DEF CoInit, Init
<1>2. CountsReported
  BY <1>1 DEF CountsReported
<1>3. RepliesInv /\ NothingAtOnce
  BY <1>1 DEF RepliesInv, NothingAtOnce
<1>4. SeenIncreases
  <2>1. Len(sent) = 0 /\ Unseen \in Nat
    BY <1>1 DEF Unseen
  <2>2. \A k \in 1..Seen : FALSE
    BY <2>1 DEF Seen
  <2> QED
    BY <2>2 DEF SeenIncreases
<1>5. DeliveredInv /\ BusSoon
  BY <1>1 DEF DeliveredInv, BusSoon
<1>6. ASSUME NEW n \in Vehicles PROVE Tally(n)
  <2>1. Coming(n) = {}
    BY <1>1 DEF Coming
  <2>2. IsFiniteSet(Coming(n)) /\ Cardinality(Coming(n)) = 0
    BY <2>1, FS_EmptySet
  <2>3. Sends(Len(delivered), n) = {}
    BY <1>1 DEF Sends
  <2>4. Cardinality(Sends(Len(delivered), n)) = 0
    BY <2>3, FS_EmptySet
  <2>5. PacketsPerSend * 0 = 0 /\ 0 % Uint16 = 0
    BY SizesAssumption
  <2> QED
    BY <1>1, <2>2, <2>4, <2>5 DEF Tally
<1> QED
  BY <1>2, <1>3, <1>4, <1>5, <1>6 DEF CountInv, Timely

\* Each response reports, for each vehicle, the packets of all broadcasts that the
\* messages before ordered from other vehicles, modulo the range of uint16_t, with
\* every command line and in whatever pieces the server receives: those of its own
\* message are not counted yet and none before are missing, and in steps of no time
\* nothing can arrive (simple-gateway.cc:100-148).
THEOREM CountsAreReported == CoSpec => []CountsReported
<1>1. CoSpec => [](CoBase /\ ProgramInv)
  BY CoInvariance, PTL DEF CoInv
<1>2. CountInv => CountsReported
  BY DEF CountInv
<1> QED
  BY <1>1, <1>2, CountInit, CountNext, PTL DEF CoSpec

-----------------------------------------------------------------------------
(* The leader and the follower, in the composition.                        *)

\* A receipt moves the clock, and no further than the server granted.
LEMMA ReceiptFollows ==
  ASSUME Live, BusInv, NEW r \in bus, HandleReceive(r)
  PROVE  LF!Advance
<1>1. /\ r.at \in Nat /\ r.at >= now
      /\ state = "CONNECTED" => r.at <= Granted
  BY ReceiptTime DEF Live, EveryInv
<1>2. now' = r.at /\ UNCHANGED <<state, timePause, connectedAt>>
  BY DEF HandleReceive, Return, times, history
<1> QED
  BY <1>1, <1>2 DEF LF!Advance, Granted

\* The subclass that lacks data ends the process, and with it the clock.
LEMMA FailureStutters ==
  ASSUME NEW e \in events, DoUpdateFails(e)
  PROVE  UNCHANGED LF!vars
BY DEF DoUpdateFails, Abort, simulator, times, history, Granted, LF!vars

LEMMA ComposedFollows == CoBase /\ [CoNext]_coVars => [LF!Next]_LF!vars
<1> SUFFICES ASSUME CoBase, [CoNext]_coVars PROVE LF!Next \/ UNCHANGED LF!vars
  OBVIOUS
<1>1. CASE Insufficient
  <2>1. UNCHANGED vars
    BY <1>1, FaultStays DEF Insufficient
  <2> QED
    BY <2>1 DEF vars, simulator, times, history, Granted, LF!vars
<1>2. CASE ~Insufficient
  <2>1. Live /\ IInv /\ BusInv /\ LoopTypes
    BY <1>2 DEF CoBase, CoTypes, GatewayInv, Live, EveryInv
  <2>2. ASSUME [Next]_vars PROVE LF!Next \/ UNCHANGED LF!vars
    BY <2>1, <2>2, IInvNext, FollowsNext
  <2>3. ASSUME NEW r \in bus, HandleReceive(r) PROVE LF!Next
    BY <2>1, <2>3, ReceiptFollows DEF LF!Next
  <2> QED
    BY <2>1, <2>2, <2>3, FailureStutters, StepOfGateway
<1> QED
  BY <1>1, <1>2

\* In the two programs too the clock follows the server: the packets that the vehicles
\* receive between two messages move it no further than the last granted time, and a
\* message with too few values stops it (README.md:69-77, simple-gateway.cc:100-148).
THEOREM ServerLeads == CoSpec => FollowsTheLeader
<1>1. CoInit => LF!Init
  BY FollowsInit DEF CoInit
<1> QED
  BY <1>1, ComposedFollows, CoBaseInit, CoBaseNext, PTL
  DEF CoSpec, FollowsTheLeader, LF!Spec
=============================================================================
