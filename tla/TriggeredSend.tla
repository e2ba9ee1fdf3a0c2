--------------------------- MODULE TriggeredSend ---------------------------
(***************************************************************************)
(* The application of model/triggered-send-application.cc: an application  *)
(* that sends a number of packets, one per packet interval, each time its  *)
(* Send method is called.                                                  *)
(*                                                                         *)
(* Everything happens in the simulator's thread.  The calls that come from *)
(* outside (StartApplication, StopApplication, Send) are made by events    *)
(* that other code scheduled, at any time and anywhere among the events of *)
(* that time; the application's own events are in `events`.                *)
(***************************************************************************)
EXTENDS EventList, FiniteSets

CONSTANTS
  PacketInterval,  \* m_packetInterval
  Counts,          \* the arguments that Send is called with
  Starts,          \* how StartApplication may end, see below
  SendMayFail,     \* whether the open socket may refuse a packet
  MaxTime,         \* bound: the last time of a call from outside
  MaxRequests      \* bound: the number of calls of Send

\* The socket cannot be bound; Connect succeeds at once, as it does for UDP; or
\* the answer, good or bad, comes later, or never.
Outcomes == {"unbound", "at once", "succeeds", "fails", "never"}

ASSUME IntervalAssumption == PacketInterval \in Nat \ {0}
ASSUME CountsAssumption == Counts \subseteq Nat
ASSUME StartsAssumption == Starts \subseteq Outcomes
ASSUME SendAssumption == SendMayFail \in BOOLEAN
ASSUME BoundsAssumption == MaxTime \in Nat /\ MaxRequests \in Nat

VARIABLES
  now,              \* Simulator::Now()
  events,           \* the application's and its socket's pending events
  fault,            \* what ended the process, or "none"
  lifecycle,        \* the calls that ns-3's Application has still to make
  socket,           \* m_socket: "none", "open", "closed" or "disposed"
  connected,        \* m_connected
  packetCount,      \* m_packetCount
  sendPacketEvent,  \* m_sendPacketEvent: a pending event's number, or NoEvent
  \* history
  requests,         \* the calls of Send: time, packets, and what was owed then
  current,          \* the last request that took effect, 0 before the first
  packets           \* the packets handed to the open socket: time and request

vars == <<now, events, fault, lifecycle, socket, connected, packetCount,
          sendPacketEvent, requests, current, packets>>

Init ==
  /\ now = 0 /\ events = {} /\ fault = "none"
  /\ lifecycle = {"StartApplication", "StopApplication"}
  /\ socket = "none" /\ connected = FALSE
  /\ packetCount = 0 /\ sendPacketEvent = NoEvent
  /\ requests = <<>> /\ current = 0 /\ packets = <<>>

-----------------------------------------------------------------------------
(* Which step the simulator can take.                                      *)

\* Run has not returned, nor has an error ended the process.
Running == fault = "none" /\ socket # "disposed"

\* Some other code's event runs at time t.
Outside(t) ==
  /\ Running
  /\ t \in now..MaxTime
  /\ \A e \in events : t <= e.ts

\* The application's event e, which calls fn, runs.
Runs(e, fn) ==
  /\ Running
  /\ IsNext(e, events)
  /\ e.fn = fn

\* NS_FATAL_ERROR, NS_ABORT or a failed NS_ASSERT.
Abort(reason) ==
  /\ fault' = reason
  /\ UNCHANGED <<now, events, lifecycle, socket, connected, packetCount,
                 sendPacketEvent, requests, current, packets>>

\* MUTATION: nothing is cancelled.
NothingCancelled == events

\* CancelEvents: the pending events without the SendPacket event.
WithoutSendPacket == Cancel(events, sendPacketEvent)

-----------------------------------------------------------------------------
(* The application's life.                                                 *)

\* ns-3 makes each of the two calls at most once.
Called(call) ==
  /\ call \in lifecycle
  /\ lifecycle' = lifecycle \ {call}

\* What a Connect at time t leaves in the event list.
Answers(t, outcome) ==
  CASE outcome = "succeeds" ->
         {<<Entry(d, "ConnectionSucceeded", NoMessage)>> : d \in t..MaxTime}
    [] outcome = "fails" ->
         {<<Entry(d, "ConnectionFailed", NoMessage)>> : d \in t..MaxTime}
    [] OTHER -> {<<>>}

\* StartApplication.  It is called once, so that there is no socket yet.
StartApplication(t) ==
  /\ Outside(t)
  /\ Called("StartApplication")
  /\ now' = t
  /\ socket' = "open"
  /\ \E outcome \in Starts \ {"unbound"} :
       /\ connected' = (outcome = "at once")
       /\ \E answer \in Answers(t, outcome) :
            events' = Schedule(WithoutSendPacket, answer)
  /\ sendPacketEvent' = NoEvent
  /\ UNCHANGED <<fault, packetCount, requests, current, packets>>

StartFails(t) ==
  /\ Outside(t)
  /\ "StartApplication" \in lifecycle
  /\ "unbound" \in Starts
  /\ Abort("cannot bind")

ConnectionSucceeded(e) ==
  /\ Runs(e, "ConnectionSucceeded")
  /\ now' = e.ts
  /\ events' = events \ {e}
  /\ connected' = TRUE
  /\ UNCHANGED <<fault, lifecycle, socket, packetCount, sendPacketEvent, requests,
                 current, packets>>

ConnectionFailed(e) ==
  /\ Runs(e, "ConnectionFailed")
  /\ Abort("cannot connect")

\* StopApplication.  Only the socket tells that the application has stopped:
\* m_connected stays as it is.
StopApplication(t) ==
  /\ Outside(t)
  /\ Called("StopApplication")
  /\ now' = t
  /\ events' = WithoutSendPacket
  /\ sendPacketEvent' = NoEvent
  /\ socket' = IF socket = "none" THEN "none" ELSE "closed"
  /\ UNCHANGED <<fault, connected, packetCount, requests, current, packets>>

\* DoDispose, after Run has returned: no event runs any more.
Dispose ==
  /\ Running
  /\ socket' = "disposed"
  /\ events' = WithoutSendPacket
  /\ sendPacketEvent' = NoEvent
  /\ UNCHANGED <<now, fault, lifecycle, connected, packetCount, requests, current,
                 packets>>

-----------------------------------------------------------------------------
(* Sending.                                                                *)

\* MUTATION: the event behind the last packet is not taken into account.
HasPackets == packetCount > 0

\* A SendPacket event is pending: m_sendPacketEvent.IsPending().
IsSending == sendPacketEvent # NoEvent

\* A packet has to be sent at time t.
IsDue(t) ==
  packetCount > 0 /\ \E e \in events : e.uid = sendPacketEvent /\ e.ts = t

\* MUTATION: Send calls ProcessSendRequest itself, ahead of what is pending.
CalledDirectly(t, request) ==
  events \cup {[ts |-> t, uid |-> 0, fn |-> "ProcessSendRequest", msg |-> request]}

\* ScheduleNow(ProcessSendRequest), behind everything that is due at this time.
Deferred(t, request) ==
  Schedule(events, <<Entry(t, "ProcessSendRequest", request)>>)

\* Send, called at time t.  A request for no packets is ignored.
Send(t, n) ==
  /\ Outside(t)
  /\ n > 0 => Len(requests) < MaxRequests
  /\ now' = t
  /\ IF n > 0
     THEN /\ events' = Deferred(t, Len(requests) + 1)
          /\ requests' = Append(requests,
                           [at |-> t, n |-> n,
                            owed |-> IF IsDue(t) THEN Len(packets) + 1 ELSE 0])
     ELSE UNCHANGED <<events, requests>>
  /\ UNCHANGED <<fault, lifecycle, socket, connected, packetCount,
                 sendPacketEvent, current, packets>>

\* MUTATION: a null socket is not noticed.
ConnectedOrNot == TRUE

\* The socket was created and has connected at some time.
Ready == socket # "none" /\ connected

\* MUTATION: the new packets come on top of the old ones.
AddedTo(n) == packetCount + n

\* MUTATION: an application that is sending ignores the request.
RefusedWhenSending(n) == IF IsSending THEN packetCount ELSE n

\* The packets to send once a request for n of them is processed.
CountAfter(n) == n

\* MUTATION: a SendPacket event is scheduled although one is pending.
SchedulesAnyway == TRUE

\* A new SendPacket event is needed; one that is pending is used again, so that
\* the packet interval is kept.
NeedsEvent == ~IsSending

\* ProcessSendRequest.
ProcessSendRequest(e) ==
  /\ Runs(e, "ProcessSendRequest")
  /\ now' = e.ts
  /\ IF Ready
     THEN /\ packetCount' = CountAfter(requests[e.msg].n)
          /\ current' = e.msg
     ELSE UNCHANGED <<packetCount, current>>
  /\ IF Ready /\ NeedsEvent
     THEN /\ events' = Schedule(events \ {e},
                                <<Entry(e.ts, "SendPacket", NoMessage)>>)
          /\ sendPacketEvent' = NewUid(events \ {e})
     ELSE /\ events' = events \ {e}
          /\ UNCHANGED sendPacketEvent
  /\ UNCHANGED <<fault, lifecycle, socket, connected, requests, packets>>

\* MUTATION: the last event sends one packet more.
PacketsOrNone == packetCount >= 0

\* There is a packet left to send.
PacketsLeft == packetCount > 0

\* MUTATION: the next packet follows one time unit too late.
TooLate(ts) ==
  <<Entry(ts + PacketInterval + 1, "SendPacket", NoMessage)>>

\* The event behind each packet, behind the last one too.
NextSendPacket(ts) ==
  <<Entry(ts + PacketInterval, "SendPacket", NoMessage)>>

\* SendPacket.  An open socket may take the packet or not, a closed one refuses
\* it; in either case the packet counts as sent.
SendPacket(e) ==
  /\ Runs(e, "SendPacket")
  /\ sendPacketEvent \in {e.uid, NoEvent}
  /\ now' = e.ts
  /\ IF PacketsLeft
     THEN /\ packetCount' = packetCount - 1
          /\ events' = Schedule(events \ {e}, NextSendPacket(e.ts))
          /\ sendPacketEvent' = NewUid(events \ {e})
          /\ IF socket = "open"
             THEN \E ok \in {TRUE, ~SendMayFail} :
                    packets' = Append(packets,
                                 [at |-> e.ts, request |-> current, ok |-> ok])
             ELSE UNCHANGED packets
     ELSE /\ events' = events \ {e}
          /\ sendPacketEvent' = NoEvent
          /\ UNCHANGED <<packetCount, packets>>
  /\ UNCHANGED <<fault, lifecycle, socket, connected, requests, current>>

\* NS_ASSERT(m_sendPacketEvent.IsExpired()).
SendPacketAsserts(e) ==
  /\ Runs(e, "SendPacket")
  /\ sendPacketEvent \notin {e.uid, NoEvent}
  /\ Abort("SendPacket is pending")

-----------------------------------------------------------------------------
Calls ==
  \E t \in now..MaxTime :
    \/ StartApplication(t) \/ StartFails(t) \/ StopApplication(t)
    \/ \E n \in Counts : Send(t, n)

Handlers ==
  \E e \in events :
    \/ ConnectionSucceeded(e) \/ ConnectionFailed(e)
    \/ ProcessSendRequest(e) \/ SendPacket(e) \/ SendPacketAsserts(e)

Ended == ~Running
Terminating == Ended /\ UNCHANGED vars

Next == Calls \/ Handlers \/ Dispose \/ Terminating

Spec == Init /\ [][Next]_vars

\* Simulator::Run runs the events that are pending; the other code owes nothing.
FairSpec == Spec /\ WF_vars(Handlers)

-----------------------------------------------------------------------------
(* Properties.                                                             *)

Numbers == 1..MaxRequests
SenderFns == {"ConnectionSucceeded", "ConnectionFailed", "ProcessSendRequest",
              "SendPacket"}

\* The types of the variables: the members declared in
\* triggered-send-application.h:109-121.  m_packetCount is unsigned, so that it
\* must not be decremented at zero (triggered-send-application.cc:265 and 297).
TypeOK ==
  /\ now \in Nat
  /\ events \subseteq Events(SenderFns, {NoMessage} \cup Numbers)
  /\ fault \in {"none", "cannot bind", "cannot connect", "SendPacket is pending"}
  /\ lifecycle \subseteq {"StartApplication", "StopApplication"}
  /\ socket \in {"none", "open", "closed", "disposed"}
  /\ connected \in BOOLEAN
  /\ packetCount \in Nat
  /\ sendPacketEvent \in Nat
  /\ requests \in Seq([at : Nat, n : Counts \ {0}, owed : Nat])
  /\ Len(requests) <= MaxRequests
  /\ current \in 0..Len(requests)
  /\ packets \in Seq([at : Nat, request : Nat, ok : BOOLEAN])

\* The end of the interval behind the last packet.
FreeAt == packets[Len(packets)].at + PacketInterval

\* No two SendPacket events are ever pending: the assertion of
\* triggered-send-application.cc:263 holds however the calls of Send fall among
\* the packets, and m_sendPacketEvent is the event that is pending.
OneSendPacket ==
  /\ fault # "SendPacket is pending"
  /\ \A e \in events : e.fn = "SendPacket" <=> e.uid = sendPacketEvent

\* SendPacket never finds a null socket (triggered-send-application.cc:237 and
\* 269): before StartApplication nothing is scheduled, and DoDispose takes away
\* what is.
SocketThere ==
  (\E e \in events : e.fn = "SendPacket") => socket \in {"open", "closed"}

\* What makes these three and the refinement below inductive.
EventsOK ==
  \A e \in events :
    /\ e.ts >= now
    /\ e.fn = "ProcessSendRequest" => e.msg \in DOMAIN requests
    /\ \A f \in events : e.uid = f.uid => e = f

\* m_sendPacketEvent is pending unless it is NoEvent.
SendPacketPending ==
  IsSending => \E e \in events : e.uid = sendPacketEvent

\* Without a socket nothing was ever sent, and nothing but requests is pending.
NothingBeforeStart ==
  /\ "StartApplication" \in lifecycle => socket \in {"none", "disposed"}
  /\ socket = "none" =>
       /\ ~connected /\ packetCount = 0 /\ packets = <<>>
       /\ \A e \in events : e.fn = "ProcessSendRequest"

\* As long as packets can be sent, a packet that is left has its event, no event
\* comes within an interval of the last packet, one that has no packet to send
\* comes at the end of the interval, and there is one until then.
PaceKept ==
  socket = "open" =>
    /\ ~IsSending =>
         /\ packetCount = 0
         /\ packets # <<>> => FreeAt <= now
    /\ \A e \in events : e.fn = "SendPacket" =>
         /\ packets # <<>> => FreeAt <= e.ts
         /\ packetCount = 0 => packets # <<>> /\ e.ts = FreeAt

\* The application's bookkeeping: exactly one event stands for the next packet,
\* or for the end of the interval after the last one, and it keeps the distance
\* (triggered-send-application.cc:239-250, 297-298 and 302).
SenderInv ==
  EventsOK /\ OneSendPacket /\ SendPacketPending /\ SocketThere
    /\ NothingBeforeStart /\ PaceKept

\* The time at which packets[i] should be sent: when its request was made, or
\* one interval after the packet before it, whichever is later.
ShouldBeAt(i) ==
  LET requested == requests[packets[i].request].at
      free      == packets[i - 1].at + PacketInterval
  IN  IF i = 1 \/ requested >= free THEN requested ELSE free

\* Every packet is sent on time, across interruptions, the end of a request
\* included: the cases of triggered-send-example.cc:102-119, for all times and
\* numbers (triggered-send-application.cc:239-250, 298 and 302).
OnSchedule == \A i \in DOMAIN packets : packets[i].at = ShouldBeAt(i)

\* The packets sent so far for the request r.
Served(r) == Cardinality({i \in DOMAIN packets : packets[i].request = r})

\* A request gets no packet too many, and the current one gets no packet too few
\* as long as the application runs: what is left and what was sent add up
\* (triggered-send-application.cc:243, 248 and 297; class comment of the header).
CountsAddUp ==
  /\ \A r \in DOMAIN requests : Served(r) <= requests[r].n
  /\ socket = "open" /\ current # 0
       => Served(current) + packetCount = requests[current].n

\* The race that Send defers ProcessSendRequest for: a packet that is due when Send
\* is called is sent before the request takes effect, for the earlier request
\* (triggered-send-application.cc:116-119; case 4 of the example).
DuePacketFirst ==
  [][\A r \in DOMAIN requests :
       current # r /\ current' = r /\ socket = "open"
         => Len(packets) >= requests[r].owed]_vars

\* What is left to send, and when the next packet may be sent.
Left == IF socket = "open" THEN packetCount ELSE 0
Due ==
  IF socket # "open" THEN 0
  ELSE IF IsSending THEN (CHOOSE e \in events : e.uid = sendPacketEvent).ts
  ELSE IF packets # <<>> THEN FreeAt
  ELSE 0

\* The application as a paced source.
PS == INSTANCE PacedSource WITH
  Interval <- PacketInterval,
  clock    <- now,
  open     <- socket = "open",
  todo     <- Left,
  due      <- Due

\* The packets follow each other at the interval and without delay, and a request
\* replaces the rest of the one before (class comment of the header).
PacesItself == PS!Spec

\* The last request to take effect on a running application gets all its packets
\* in the end, unless the application stops or a new request comes.
RequestsEnd ==
  \A r \in Numbers :
    current = r ~> \/ current # r \/ socket # "open" \/ fault # "none"
                  \/ Served(r) = requests[r].n
=============================================================================
