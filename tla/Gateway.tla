------------------------------- MODULE Gateway -------------------------------
(***************************************************************************)
(* The gateway of model/gateway.cc: the simulator's main thread, which     *)
(* runs the gateway's events, the thread that reads the socket, and the    *)
(* server at the other end of the connection.                              *)
(*                                                                         *)
(* A message is its time-stamp header; its identity is its index in        *)
(* `sent`.  A step of the main thread runs one event (ns-3's Invoke) and   *)
(* then inserts what other threads asked for with ScheduleWithContext      *)
(* (ns-3's ProcessEventsWithContext).  Only Stop, which waits for the      *)
(* other thread in the middle of an event, takes two steps.                *)
(***************************************************************************)
EXTENDS EventList, FiniteSets

CONSTANTS
  Programs,     \* what the user may schedule before Run: sequences of entries
  Stamps,       \* the time stamps of the server's messages; < 0 terminates
  BadHeader,    \* a header that does not start with two integers
  Follows,      \* the pairs <<g, h>> such that the server may send h after g
  MaxMessages,  \* bound: the number of messages the server sends
  Replies,      \* whether DoInitialize and DoUpdate call SendResponse
  RecvMayFail   \* whether recv may return an error

Headers == Stamps \cup {BadHeader}
UserFns == {"Connect", "Model", "Finish"}
GatewayFns == {"WaitForNextUpdate", "ForwardUp", "Stop", "DoInitialize",
               "HandleUpdate"}

ASSUME ProgramsAssumption ==
  Programs \subseteq Seq([ts : Nat, fn : UserFns, msg : {NoMessage}])
ASSUME HeadersAssumption == Stamps \subseteq Int /\ BadHeader \notin Int
ASSUME FollowsAssumption == Follows \subseteq Headers \X Headers
ASSUME MaxMessagesAssumption == MaxMessages \in Nat
ASSUME RepliesAssumption == Replies \subseteq BOOLEAN /\ Replies # {}
ASSUME RecvMayFailAssumption == RecvMayFail \in BOOLEAN

VARIABLES
  \* the ns-3 simulator
  now,            \* Simulator::Now()
  events,         \* the pending events
  withContext,    \* ScheduleWithContext calls the main thread has not seen
  stopped,        \* Simulator::Stop was called
  main,           \* where the main thread is
  fault,          \* the NS_FATAL_ERROR that ended the process, or "none"
  \* the members of the gateway
  state,          \* m_state
  timeStart,      \* m_timeStart
  timePause,      \* m_timePause
  eventWait,      \* m_eventWait: the number of a pending event, or NoEvent
  eventDestroy,   \* m_eventDestroy.IsPending()
  messageQueue,   \* m_messageQueue
  messageBuffer,  \* m_messageBuffer and the receivedData taken from it
  socket,         \* m_socket: "none", "open" or "closed"
  \* the thread that runs RunThread
  thread,         \* where it is
  \* the server and the connection
  sent,           \* the headers of all messages sent so far
  stream,         \* the messages on their way to the gateway
  conn,           \* the server's end: "none", "open" or "closed"
  responses,      \* the number of responses the gateway has sent
  \* history
  connectedAt,    \* when Connect was called, -1 before
  delivered       \* the calls of DoInitialize and DoUpdate: message and time

simulator == <<now, events, withContext, stopped, main>>
times     == <<timeStart, timePause>>
waiting   == <<eventWait, eventDestroy>>
received  == <<messageQueue, messageBuffer, thread>>
server    == <<sent, stream, conn>>
history   == <<connectedAt, delivered>>

vars == <<simulator, fault, state, times, waiting, received, socket, server,
          responses, history>>

Init ==
  /\ now = 0 /\ withContext = <<>>
  /\ events \in {Schedule({}, program) : program \in Programs}
  /\ stopped = FALSE /\ main = "run" /\ fault = "none"
  /\ state = "CREATED" /\ timeStart = -1 /\ timePause = 0
  /\ eventWait = NoEvent /\ eventDestroy = FALSE
  /\ messageQueue = <<>> /\ messageBuffer = <<>>
  /\ socket = "none" /\ thread = "none"
  /\ sent = <<>> /\ stream = <<>> /\ conn = "none" /\ responses = 0
  /\ connectedAt = -1 /\ delivered = <<>>

-----------------------------------------------------------------------------
(* The simulator.                                                          *)

\* The main thread is about to run the event e, which calls fn.
Runs(e, fn) ==
  /\ main = "run" /\ fault = "none" /\ ~stopped
  /\ IsNext(e, events)
  /\ e.fn = fn

\* What the other thread asked for, as events of the current time.
Forwarded(ts) ==
  [i \in DOMAIN withContext |-> Entry(ts, withContext[i], NoMessage)]

\* The end of an event at time ts that leaves `pending` in the event list and
\* has scheduled the entries `new`.
Return(ts, pending, new) ==
  /\ now' = ts
  /\ events' = Schedule(Schedule(pending, new), Forwarded(ts))
  /\ withContext' = <<>>

\* NS_FATAL_ERROR: the process ends where it is.
Abort(reason) ==
  /\ fault' = reason
  /\ UNCHANGED <<simulator, state, times, waiting, received, socket, server,
                 responses, history>>

\* An event of the user's own simulation model.
Model(e) ==
  /\ Runs(e, "Model")
  /\ Return(e.ts, events \ {e}, <<>>)
  /\ UNCHANGED <<stopped, main, fault, state, times, waiting, received, socket,
                 server, responses, history>>

\* A Simulator::Stop that the user scheduled.
Finish(e) ==
  /\ Runs(e, "Finish")
  /\ Return(e.ts, events \ {e}, <<>>)
  /\ stopped' = TRUE
  /\ UNCHANGED <<main, fault, state, times, waiting, received, socket, server,
                 responses, history>>

\* Simulator::Run returns to the user's main function.
RunReturns ==
  /\ main = "run" /\ fault = "none"
  /\ stopped \/ events = {}
  /\ main' = "destroy"
  /\ UNCHANGED <<now, events, withContext, stopped, fault, state, times, waiting,
                 received, socket, server, responses, history>>

-----------------------------------------------------------------------------
(* Connect, and the loop that holds the clock.                             *)

\* Gateway::Connect.  A second call is fatal, and so is a server that cannot
\* be reached.
ConnectFails(e) ==
  /\ Runs(e, "Connect")
  /\ Abort(IF state = "CREATED" THEN "cannot connect" ELSE "connected twice")

Connect(e) ==
  /\ Runs(e, "Connect")
  /\ state = "CREATED"
  /\ Return(e.ts, events \ {e},
            <<Entry(e.ts, "WaitForNextUpdate", NoMessage)>>)
  /\ eventWait' = NewUid(events \ {e})
  /\ eventDestroy' = TRUE
  /\ state' = "CONNECTED"
  /\ socket' = "open"
  /\ thread' = "check"
  /\ conn' = "open"
  /\ connectedAt' = e.ts
  /\ UNCHANGED <<stopped, main, fault, times, messageQueue, messageBuffer, sent,
                 stream, responses, delivered>>

\* What m_eventWait refers to once it has run or was cancelled.
WaitAfter(e) == IF e.uid = eventWait THEN NoEvent ELSE eventWait

\* MUTATION: the loop goes on whatever the state.
AlwaysWaits == TRUE

\* MUTATION: the clock is held only once the server's first stamp is known.
WaitsWhenStarted == state # "STOPPING" /\ timeStart >= 0

\* WaitForNextUpdate schedules itself again unless the gateway is stopping.
KeepsWaiting == state # "STOPPING"

\* Gateway::WaitForNextUpdate.  Another wait event that is still pending is
\* cancelled, so that one loop is left of two.
WaitForNextUpdate(e) ==
  /\ Runs(e, "WaitForNextUpdate")
  /\ IF KeepsWaiting
     THEN LET pending == Cancel(events \ {e}, WaitAfter(e)) IN
            /\ Return(e.ts, pending,
                      <<Entry(e.ts, "WaitForNextUpdate", NoMessage)>>)
            /\ eventWait' = NewUid(pending)
     ELSE /\ Return(e.ts, events \ {e}, <<>>)
          /\ eventWait' = WaitAfter(e)
  /\ UNCHANGED <<stopped, main, fault, state, times, eventDestroy, received,
                 socket, server, responses, history>>

-----------------------------------------------------------------------------
(* ForwardUp: the first message of the queue.                              *)

Message == Head(messageQueue)
Header == sent[Message]

\* MUTATION: the stamp is taken as the delay from now.
PauseRelativeToNow(stamp) == now + (stamp - timeStart)

\* The time a stamp stands for, and at which the clock stops next.
PauseFor(stamp) == stamp - timeStart

\* MUTATION: only a stamp that is late by more than one is refused.
ToleratesLate(ts) == ts < now - 1

\* A stamp in the past of the clock; "0 allowed".
IsLate(ts) == ts < now

\* The reason why ForwardUp is fatal, "none" when it is not.
ForwardFault ==
  IF messageQueue = <<>> THEN "no queued message"
  ELSE IF Header = BadHeader THEN "invalid header"
  ELSE IF Header >= 0 /\ timeStart >= 0 /\ IsLate(PauseFor(Header))
       THEN "stamps not increasing"
  ELSE "none"

ForwardUpFails(e) ==
  /\ Runs(e, "ForwardUp")
  /\ ForwardFault # "none"
  /\ Abort(ForwardFault)

\* A negative stamp asks the simulator to stop.
ForwardTerminate(e) ==
  /\ Runs(e, "ForwardUp")
  /\ ForwardFault = "none"
  /\ Header < 0
  /\ stopped' = TRUE
  /\ messageQueue' = Tail(messageQueue)
  /\ Return(e.ts, events \ {e}, <<>>)
  /\ UNCHANGED <<main, fault, state, times, waiting, messageBuffer, thread, socket,
                 server, responses, history>>

\* The first stamp is the origin of the server's time; the clock stays held.
ForwardFirst(e) ==
  /\ Runs(e, "ForwardUp")
  /\ ForwardFault = "none"
  /\ Header >= 0
  /\ timeStart < 0
  /\ timeStart' = Header
  /\ messageQueue' = Tail(messageQueue)
  /\ Return(e.ts, events \ {e}, <<Entry(e.ts, "DoInitialize", Message)>>)
  /\ UNCHANGED <<stopped, main, fault, state, timePause, waiting, messageBuffer,
                 thread, socket, server, responses, history>>

\* MUTATION: the pending wait event is left alone.
StillWaiting == events

\* The pending events once the wait loop is interrupted.
WithoutWait == Cancel(events, eventWait)

\* Any other stamp lets the clock run up to the time it stands for.
ForwardUpdate(e) ==
  /\ Runs(e, "ForwardUp")
  /\ ForwardFault = "none"
  /\ Header >= 0
  /\ timeStart >= 0
  /\ timePause' = PauseFor(Header)
  /\ messageQueue' = Tail(messageQueue)
  /\ Return(e.ts, WithoutWait \ {e},
            <<Entry(PauseFor(Header), "HandleUpdate", Message)>>)
  /\ eventWait' = NoEvent
  /\ UNCHANGED <<stopped, main, fault, state, timeStart, eventDestroy,
                 messageBuffer, thread, socket, server, responses, history>>

-----------------------------------------------------------------------------
(* DoInitialize, HandleUpdate and the response.                            *)

\* The callback runs, and replies through SendResponse if it chooses to.
Deliver(e) ==
  /\ delivered' = Append(delivered, [msg |-> e.msg, at |-> e.ts])
  /\ \E reply \in Replies :
       /\ reply => state = "CONNECTED"
       /\ responses' = IF reply /\ conn = "open" THEN responses + 1 ELSE responses

\* The system knows that nobody reads: the server closed the connection before it had
\* read a response, or was sent one after it did, and its answer to that was a reset.
\* Either way a response was sent before; that a callback ran before is the same when
\* every callback responds, and allows more when some do not.
ConnectionIsReset == conn = "closed" /\ delivered # <<>>

\* What can end the process in SendResponse: its own check of the state, and the
\* SIGPIPE that send raises with no flags on a connection that was reset.  A send
\* after the close that succeeds, or only returns an error, loses the response.
ResponseFaults ==
  IF state # "CONNECTED" THEN {"response without connection"}
  ELSE IF ConnectionIsReset THEN {"broken pipe"}
  ELSE {}

CallbackFails(e) ==
  /\ \/ Runs(e, "DoInitialize")
     \/ Runs(e, "HandleUpdate")
  /\ TRUE \in Replies
  /\ \E reason \in ResponseFaults : Abort(reason)

DoInitialize(e) ==
  /\ Runs(e, "DoInitialize")
  /\ Return(e.ts, events \ {e}, <<>>)
  /\ Deliver(e)
  /\ UNCHANGED <<stopped, main, fault, state, times, waiting, received, socket,
                 server, connectedAt>>

\* MUTATION: an update at which the clock should stop lets it run.
NeverPauses(ts) == FALSE

\* MUTATION: every update stops the clock, the last one granted or not.
AlwaysPauses(ts) == TRUE

\* The update at time ts is the last one the server allowed.
PausesAt(ts) == ts = timePause

\* Gateway::HandleUpdate, with the DoUpdate it calls.
HandleUpdate(e) ==
  /\ Runs(e, "HandleUpdate")
  /\ IF PausesAt(e.ts)
     THEN /\ Return(e.ts, events \ {e},
                    <<Entry(e.ts, "WaitForNextUpdate", NoMessage)>>)
          /\ eventWait' = NewUid(events \ {e})
     ELSE /\ Return(e.ts, events \ {e}, <<>>)
          /\ UNCHANGED eventWait
  /\ Deliver(e)
  /\ UNCHANGED <<stopped, main, fault, state, times, eventDestroy, received,
                 socket, server, connectedAt>>

-----------------------------------------------------------------------------
(* Stop, which an event or Simulator::Destroy calls.                       *)

\* Stop, up to the join: the thread is told to exit.
StopBegin(e) ==
  /\ Runs(e, "Stop")
  /\ now' = e.ts
  /\ events' = events \ {e}
  /\ state' = "STOPPING"
  /\ main' = "stopping"
  /\ UNCHANGED <<withContext, stopped, fault, times, waiting, received, socket,
                 server, responses, history>>

\* Simulator::Destroy calls Stop if that is still scheduled.
Destroy ==
  /\ main = "destroy" /\ fault = "none"
  /\ eventDestroy' = FALSE
  /\ IF eventDestroy
     THEN main' = "destroying" /\ state' = "STOPPING"
     ELSE main' = "done" /\ UNCHANGED state
  /\ UNCHANGED <<now, events, withContext, stopped, fault, times, eventWait,
                 received, socket, server, responses, history>>

\* MUTATION: Stop does not wait for the thread.
NotJoined == TRUE

\* m_thread.join() returns.
Joined == thread \in {"none", "exited", "joined"}

\* Stop, from the join on: the socket is closed and the events are cancelled.
\* Stop is called once, by its event or by Destroy, so that it always finds the
\* gateway connected.
StopEnd ==
  /\ main \in {"stopping", "destroying"} /\ fault = "none"
  /\ Joined
  /\ thread' = IF thread = "exited" THEN "joined" ELSE thread
  /\ main' = IF main = "stopping" THEN "run" ELSE "done"
  /\ socket' = "closed"
  /\ Return(now, Cancel(events, eventWait), <<>>)
  /\ eventWait' = NoEvent
  /\ eventDestroy' = FALSE
  /\ UNCHANGED <<stopped, fault, state, times, messageQueue, messageBuffer, server,
                 responses, history>>

Main ==
  \/ \E e \in events :
       \/ Connect(e) \/ ConnectFails(e) \/ Model(e) \/ Finish(e)
       \/ WaitForNextUpdate(e)
       \/ ForwardUpFails(e) \/ ForwardTerminate(e) \/ ForwardFirst(e)
       \/ ForwardUpdate(e)
       \/ DoInitialize(e) \/ HandleUpdate(e) \/ CallbackFails(e)
       \/ StopBegin(e)
  \/ StopEnd \/ RunReturns \/ Destroy

-----------------------------------------------------------------------------
(* RunThread.                                                              *)

\* The thread is at `here` and the process is alive.
At(here) == thread = here /\ fault = "none"

ThreadFrame == <<now, events, stopped, main, fault, state, times, waiting,
                 socket, sent, conn, responses, history>>

\* The condition of the outer loop, which reads m_state without a lock.
ThreadCheck ==
  /\ At("check")
  /\ thread' = IF state = "CONNECTED" THEN "read" ELSE "exited"
  /\ UNCHANGED <<ThreadFrame, withContext, messageQueue, messageBuffer, stream>>

\* recv returns: the bytes of at least one message.  A part of a message is as
\* good as none, the inner loop calls recv again.
ThreadRecv ==
  /\ At("read")
  /\ messageBuffer = <<>>
  /\ \E k \in 1..Len(stream) :
       /\ messageBuffer' = SubSeq(stream, 1, k)
       /\ stream' = SubSeq(stream, k + 1, Len(stream))
  /\ UNCHANGED <<ThreadFrame, withContext, messageQueue, thread>>

\* MUTATION: the inner loop calls recv again.
ReadsOn == "read"

\* recv returned 0 or -1: both loops end.
AfterTheEnd == "hangup"

\* recv returns 0: the server has closed the connection.
ThreadHangup ==
  /\ At("read")
  /\ messageBuffer = <<>> /\ stream = <<>> /\ conn = "closed"
  /\ thread' = AfterTheEnd
  /\ UNCHANGED <<ThreadFrame, withContext, messageQueue, messageBuffer, stream>>

\* recv returns -1, whatever is still on its way.
ThreadRecvFails ==
  /\ RecvMayFail
  /\ At("read")
  /\ messageBuffer = <<>>
  /\ thread' = AfterTheEnd
  /\ UNCHANGED <<ThreadFrame, withContext, messageQueue, messageBuffer, stream>>

\* MUTATION: the newest message is forwarded first.
PushedFirst(m) == <<m>> \o messageQueue

\* The queue with one more message.
Pushed(m) == Append(messageQueue, m)

\* The first complete message is taken and put into the queue, under the lock.
ThreadPush ==
  /\ At("read")
  /\ messageBuffer # <<>>
  /\ messageQueue' = Pushed(Head(messageBuffer))
  /\ messageBuffer' = Tail(messageBuffer)
  /\ thread' = "schedule"
  /\ UNCHANGED <<ThreadFrame, withContext, stream>>

\* ForwardUp is scheduled for the message just queued.
ThreadForward ==
  /\ At("schedule")
  /\ withContext' = Append(withContext, "ForwardUp")
  /\ thread' = "check"
  /\ UNCHANGED <<ThreadFrame, messageQueue, messageBuffer, stream>>

\* MUTATION: the thread forwards the end of the stream as if it were a message.
ForwardsTheEnd == Append(withContext, "ForwardUp")

\* MUTATION: Stop overtakes what was asked for before.
StopFirst == <<"Stop">> \o withContext

\* What the main thread is asked to do when the connection is gone.
AskedToStop == Append(withContext, "Stop")

\* Stop is scheduled and the thread ends.
ThreadScheduleStop ==
  /\ At("hangup")
  /\ withContext' = AskedToStop
  /\ thread' = "exited"
  /\ UNCHANGED <<ThreadFrame, messageQueue, messageBuffer, stream>>

Thread ==
  \/ ThreadCheck \/ ThreadRecv \/ ThreadHangup \/ ThreadPush
  \/ ThreadForward \/ ThreadScheduleStop

-----------------------------------------------------------------------------
(* The server, as the gateway sees it, while the gateway's process lives.  *)

\* The process is over: Destroy has returned, or an error was fatal.
Ended == main = "done" \/ fault # "none"

MaySend(h) == sent # <<>> => <<sent[Len(sent)], h>> \in Follows

ServerSend(h) ==
  /\ conn = "open" /\ ~Ended
  /\ Len(sent) < MaxMessages
  /\ MaySend(h)
  /\ sent' = Append(sent, h)
  /\ stream' = Append(stream, Len(sent) + 1)
  /\ UNCHANGED <<simulator, fault, state, times, waiting, received, socket, conn,
                 responses, history>>

ServerClose ==
  /\ conn = "open" /\ ~Ended
  /\ conn' = "closed"
  /\ UNCHANGED <<simulator, fault, state, times, waiting, received, socket, sent,
                 stream, responses, history>>

Server == ServerClose \/ \E h \in Headers : ServerSend(h)

-----------------------------------------------------------------------------
Terminating == Ended /\ UNCHANGED vars

Next == Main \/ Thread \/ ThreadRecvFails \/ Server \/ Terminating

Spec == Init /\ [][Next]_vars

\* The operating system runs both threads; the server owes nothing.
FairSpec == Spec /\ WF_vars(Main) /\ WF_vars(Thread)

-----------------------------------------------------------------------------
(* Properties.                                                             *)

Faults == {"none", "cannot connect", "connected twice", "no queued message",
           "invalid header", "stamps not increasing",
           "response without connection", "broken pipe"}

Messages == 1..MaxMessages

\* The types of the variables: the members declared in gateway.h:206-227 and
\* the simulator, thread and connection they are used with.
TypeOK ==
  /\ now \in Nat
  /\ events \subseteq Events(UserFns \cup GatewayFns, {NoMessage} \cup Messages)
  /\ withContext \in Seq({"ForwardUp", "Stop"})
  /\ stopped \in BOOLEAN
  /\ main \in {"run", "stopping", "destroy", "destroying", "done"}
  /\ fault \in Faults
  /\ state \in {"CREATED", "CONNECTED", "STOPPING"}
  /\ timeStart \in Int /\ timePause \in Int
  /\ eventWait \in Nat /\ eventDestroy \in BOOLEAN
  /\ messageQueue \in Seq(Messages) /\ messageBuffer \in Seq(Messages)
  /\ socket \in {"none", "open", "closed"}
  /\ thread \in {"none", "check", "read", "schedule", "hangup", "exited", "joined"}
  /\ sent \in Seq(Headers) /\ Len(sent) <= MaxMessages
  /\ stream \in Seq(Messages)
  /\ conn \in {"none", "open", "closed"}
  /\ responses \in Nat
  /\ connectedAt \in Int
  /\ delivered \in Seq([msg : Messages, at : Nat])

\* What the other invariants rest on.  An event does not lie in the past; the
\* gateway's events, updates apart, are for the current time; and a callback has
\* a message.
CurrentFns == GatewayFns \ {"HandleUpdate"}
CallbackFns == {"DoInitialize", "HandleUpdate"}
EventOK(e, time) ==
  /\ e.ts >= time
  /\ e.fn \in CurrentFns => e.ts = time
  /\ e.fn \in CallbackFns => e.msg \in Messages
EventsOK == \A e \in events : EventOK(e, now)

\* What is on its way was sent.
MessagesSent ==
  \A s \in {messageQueue, messageBuffer, stream} : s \in Seq(1..Len(sent))

\* Nothing of the gateway's is under way before Connect.
NothingBeforeConnect ==
  state = "CREATED" =>
    /\ timePause = 0 /\ ~eventDestroy
    /\ thread = "none" /\ withContext = <<>>
    /\ \A e \in events : e.fn \in UserFns

\* Stop sets the state before it waits.
StopSetsState == main \in {"stopping", "destroying"} => state = "STOPPING"

\* While the gateway is connected, some event holds the clock, now or at the
\* last granted time.
ClockHeld ==
  state = "CONNECTED" /\ main = "run" =>
    \E e \in events : \/ e.fn = "WaitForNextUpdate"
                      \/ e.fn = "HandleUpdate" /\ e.ts = timePause

\* The latest time the server has allowed: that of Connect until the first
\* update, then that of the last update forwarded.
Granted == IF timePause > connectedAt THEN timePause ELSE connectedAt

\* While the gateway is connected the simulation clock is never past the last
\* granted time, whatever stamps arrive in whatever order and however the two
\* threads interleave (README.md:69-77, gateway.cc:274-287 and 369-373).
TimeGranted == state = "CONNECTED" => now <= Granted

\* TimeGranted with what makes it inductive: the clock cannot pass the last
\* granted time because an event that stops it is pending at or before that time
\* at every moment (gateway.cc:121, 285, 360 and 372, against 348).
HeldInv ==
  /\ EventsOK /\ MessagesSent /\ NothingBeforeConnect /\ StopSetsState
  /\ ClockHeld /\ TimeGranted

\* The calls of ForwardUp that are scheduled, and those that are asked for.
ForwardsPending == {e \in events : e.fn = "ForwardUp"}
ForwardsAsked == {i \in DOMAIN withContext : withContext[i] = "ForwardUp"}

\* Every ForwardUp that is under way finds a message: the calls scheduled, asked
\* for and about to be asked for are as many as the queued messages, so that
\* the fatal error of gateway.cc:298-301 is out of reach.
QueueMatchesForwards ==
  Len(messageQueue) =
      Cardinality(ForwardsPending) + Cardinality(ForwardsAsked)
    + (IF thread = "schedule" THEN 1 ELSE 0)

\* The messages ForwardUp has not seen, oldest first.
InTransit == messageQueue \o messageBuffer \o stream

\* No message is lost, duplicated or overtaken between the server's send and
\* ForwardUp: what is in transit is the tail of what was sent, and each message
\* before it reached its callback or waits for it in one event, unless it was a
\* request to terminate (gateway.cc:221-270, 292-304, 338-361).
NothingLost ==
  LET seen == Len(sent) - Len(InTransit) IN
  /\ \A i \in DOMAIN InTransit : InTransit[i] = seen + i
  /\ \A m \in 1..seen :
       Cardinality({i \in DOMAIN delivered : delivered[i].msg = m})
         + Cardinality({e \in events : e.msg = m})
       = IF sent[m] < 0 THEN 0 ELSE 1

\* When the connection ends, what was received is dealt with first: the thread asks
\* for Stop behind the calls of ForwardUp, so that none of them is left for a gateway
\* that was stopped (gateway.cc:209-272, 174-207).
NothingLeftBehind ==
  state = "STOPPING" /\ main = "run" => messageQueue \o messageBuffer = <<>>

\* Once Stop or Destroy is through, the thread has ended and was joined: it does not
\* read a closed socket, nothing is scheduled on a destroyed simulator, and the
\* gateway can be destroyed without ending the process, even if the thread
\* had already ended of itself (gateway.cc:185-191, gateway.h:142).
ThreadGone ==
  socket = "closed" \/ main = "done" => thread \in {"none", "joined"}

\* The gateway keeps the promise of the leader-follower scheme (README.md:69-77,
\* gateway.h:81-83): the clock stops at Connect, runs only as far as granted, and
\* no grant lies in the past.
LF == INSTANCE LeaderFollower WITH
  clock <- now,
  mode  <- IF state = "CREATED" THEN "free"
           ELSE IF state = "CONNECTED" THEN "led" ELSE "released",
  grant <- IF state = "CONNECTED" THEN Granted ELSE 0
FollowsTheLeader == LF!Spec

\* A server whose stamps increase is never refused (gateway.h:179,
\* gateway.cc:353-358): a granted time is never behind the clock when its
\* message is processed, however far the simulation has run by then.
IncreasingAccepted == fault # "stamps not increasing"

\* The callbacks see the messages in the order they were sent, each once, the
\* first at Connect and each other at the time that lies as far after Connect as
\* its stamp lies after the first stamp (README.md:52-54 and 79-84).
DeliveredOnSchedule ==
  \A i \in DOMAIN delivered :
    /\ delivered[i].msg = i
    /\ delivered[i].at = connectedAt + sent[i] - sent[1]

\* A grant is not taken back: while the clock may run, no pending wait event
\* holds it (README.md:73-76, "cancels the currently scheduled
\* WaitForNextUpdate event").
GrantNotBlocked ==
  state = "CONNECTED" /\ now < timePause
    => \A e \in events : e.fn # "WaitForNextUpdate"

\* Every message that does not terminate the simulation gets to its callback,
\* unless the simulation is over before (README.md:52-54).
UpdatesHappen ==
  \A m \in Messages :
    Len(sent) >= m ~> \/ \E i \in DOMAIN delivered : delivered[i].msg = m
                      \/ stopped \/ Ended

\* When the server closes the connection the simulation gets to its end: the
\* thread notices, Stop lets go of the clock and Run and Destroy return
\* (gateway.h:153-155 and 141-144).
CloseEnds == conn = "closed" ~> Ended

\* Every call of Stop returns (gateway.h:141-144: "a signal is sent for the thread
\* to exit, and the thread is joined").
StopReturns ==
  main \in {"stopping", "destroying"} ~> main \notin {"stopping", "destroying"}

\* A gateway that was stopped does no harm: after Stop it no longer affects
\* the simulation (gateway.h:144).
StoppedIsHarmless == fault # "response without connection"

\* A response that cannot be sent is a warning and not the end of the process
\* (gateway.h:124).
SendErrorIsWarning == fault # "broken pipe"

\* The updates that are scheduled have increasing stamps (gateway.h:179).
AcceptedIncrease ==
  \A e, f \in events :
    e.fn = "HandleUpdate" /\ f.fn = "HandleUpdate" /\ e.msg < f.msg
      => e.ts < f.ts
=============================================================================
