# Verification of ns3-cosim

`ns3-cosim` is a module for the ns-3 network simulator (`src/`).  It lets a remote server,
usually another simulator, lead an ns-3 simulation: the server sends time stamps over a TCP
connection, and ns-3 advances to each of them and stops there.  This directory holds TLA+
models of the module, the configurations with which TLC checks them, and proofs that TLAPS
checks.  File names with a path (`model/gateway.cc`) are relative to `src/`; others are in this
directory.

## 1. The system

### 1.1 Components

| Component | Code | State | Operations |
|---|---|---|---|
| Gateway | `model/gateway.{h,cc}` | life cycle (`m_state`), origin and limit of time (`m_timeStart`, `m_timePause`), wait event, destroy event, message queue and buffer, socket, thread; delimiters, values to send (`m_data`) | `Connect`, `WaitForNextUpdate`, `ForwardUp`, `HandleUpdate`, `Stop`, `RunThread`, `SetValue`, `SendResponse`; `DoInitialize`, `DoUpdate` of the subclass |
| TriggeredSendApplication | `model/triggered-send-application.{h,cc}` | socket, `m_connected`, `m_packetCount`, `m_sendPacketEvent` | `StartApplication`, `StopApplication`, `DoDispose`, `Send`, `ProcessSendRequest`, `SendPacket`, `ConnectionSucceeded`, `ConnectionFailed`, `CancelEvents` |
| TriggeredSendHelper | `model/triggered-send-helper.{h,cc}` | an object factory | `SetAttribute`s, install |
| ExternalMobilityModel | `model/external-mobility-model.{h,cc}` | position, velocity | `SetPosition`, `SetVelocity`, `CourseChange` trace |
| SimpleGateway | `examples/simple-gateway.cc` | vehicles, applications, counters of broadcasts | `DoInitialize`, `DoUpdate`, the callback of a received packet |
| simple-gateway-server | `examples/simple-gateway-server.cc` | step, positions, velocities, flags | listen and accept; one loop: send an update, wait for the response; then terminate and close |
| triggered-send-example, external-mobility-example | `examples/` | none of their own | drive the two classes above |
| ns-3 (not in the repository) | used through `Simulator::`, `EventId`, `Socket`, `Application` | the event list, the clock | `Schedule`, `ScheduleNow`, `ScheduleWithContext`, `ScheduleDestroy`, `Run`, `Stop`, `Destroy` |

### 1.2 How the components interact

- **Server and gateway** talk over one TCP connection.  A message is a header of two integers
  (seconds, nanoseconds) and values; a negative time stamp asks the simulation to end, and a
  closed connection has the same effect.  The gateway may answer each message
  (`SendResponse`).
- **The reading thread and the main thread** share three things: `m_messageQueue` (under a
  mutex), `m_state` (read and written with no synchronisation), and the simulator's list of
  calls made with `ScheduleWithContext`.  Everything else belongs to the main thread, which
  runs the events.
- **The clock is held by an event**, not by a lock: `WaitForNextUpdate` schedules itself at the
  current time again and again, so that simulated time cannot advance.  `ForwardUp` cancels it
  when a stamp arrives and schedules `HandleUpdate` at the time the stamp stands for;
  `HandleUpdate` starts the loop again when that time is the last one granted.
- **The subclass of the gateway** (`SimpleGateway`) moves its nodes' `ExternalMobilityModel` and
  calls `TriggeredSendApplication::Send` from `DoUpdate`.  `Send` does not send but schedules
  `ProcessSendRequest` at the same time, behind what is already pending there.

### 1.3 What is hard

| Behaviour | Where | Why a test hardly reaches it |
|---|---|---|
| Two threads and one queue | `gateway.cc:209-272`, `292-304` | the message is queued in one step and `ForwardUp` is asked for in another |
| The clock is held by a chain of events | `gateway.cc:121, 285, 348, 360, 372` | the chain may break (time runs away) or fork (time stands still for ever) |
| Two origins of time | `gateway.cc:353-354` | stamps count from the first stamp, the clock from the start of the simulation |
| Stop while things are under way | `gateway.cc:174-207` | the other thread reads, updates are scheduled, the server sends |
| A stream without borders | `gateway.cc:221-267` | `recv` may return any part of a message, a delimiter cut in two, or several messages |
| Delimiters chosen by the user | `gateway.cc:59-70, 129-140` | only some of the pairs that cannot be told apart are refused |
| Hang-ups and failing calls | `gateway.cc:166, 237-250` | every moment is possible |
| A request among packets | `triggered-send-application.cc:116, 237-250` | calls of `Send` at, just before and just after the time of a packet |
| The last interval | `triggered-send-application.cc:302` | the event behind the last packet sends nothing and yet keeps the pace |

`PROJECT.json` lists all of them, each at its line, under `hazards`.

### 1.4 What makes each component correct

- *Gateway*: the clock never passes the last granted time and stops there; no message is lost,
  duplicated or overtaken; an update happens at Connect's time plus the difference of the
  stamps; a grant is not taken back; increasing stamps are accepted; `ForwardUp` always finds a
  message; after Stop the thread is gone, nothing holds the clock and nothing fails; a hang-up
  ends the simulation.
- *Message format*: the thread loses no character; messages, values and stamps come out as the
  server wrote them, for all pieces of the stream; a response can be read back.
- *TriggeredSendApplication*: one `SendPacket` event at most, and it is the one
  `m_sendPacketEvent` names; packets at the interval exactly, without delay, even across
  requests; a request replaces the rest of the one before; a packet that is due when a request
  is made goes first; every request ends; no null socket is used.
- *ExternalMobilityModel*: the `CourseChange` callback sees a position and a velocity that
  belong together.
- *SimpleGateway and its server*: the two stay in lock step, the responses count the packets of
  the steps before, and both programs come to an end.


## 2. The modules

```
EventList <-- Gateway <-- CoSim --> ExternalMobility
    ^           |  implements
    |           +--------> LeaderFollower
    +------ TriggeredSend
                |  implements
                +--------> PacedSource
Text <-- Framing
EventListProofs <-- GatewayProofs <-- QueueProofs <-- DeliveryProofs <-- CoSimProofs
EventListProofs <-- TriggeredSendProofs
TextProofs <-- FramingProofs
```

| Module | Models | Kind |
|---|---|---|
| `EventList` | ns-3's event list, by the way the code uses it | operators, external |
| `Gateway` | `model/gateway.cc`: main thread, reading thread, connection and any server | component |
| `LeaderFollower` | what `README.md` and `gateway.h` promise about time | abstract specification |
| `TriggeredSend` | `model/triggered-send-application.cc` | component |
| `PacedSource` | what the class comment of `triggered-send-application.h` promises | abstract specification |
| `ExternalMobility` | `model/external-mobility-model.cc` | operators on a value |
| `CoSim` | `simple-gateway.cc` and `simple-gateway-server.cc` with `Gateway` between them | composition |
| `Text` | `std::string`, `std::stoi`, `std::stol`, splitting and joining | operators and recursive functions |
| `Framing` | the text of `model/gateway.cc`: constructor, `RunThread`'s search, `ForwardUp`'s splitting, `SetValue`, `SendResponse` | component |
| `MCGateway`, `MCTriggeredSend`, `MCCoSim`, `MCFraming` | values of the constants | for TLC |
| `EventListProofs`, `GatewayProofs`, `QueueProofs`, `DeliveryProofs`, `CoSimProofs`, `TriggeredSendProofs`, `TextProofs`, `FramingProofs` | theorems | for TLAPS |

Operators under a comment `MUTATION` are wrong on purpose: each stands for a plausible mistake in
the code, and `PROJECT.json` (`mutants`) says which definition it replaces and which property
then fails.  They are used nowhere else.

### 2.1 EventList

`events` is a set of records (time, number, function, argument).  ns-3 runs events in the order
of time and, at equal times, of insertion; `IsNext` says which one is next.  An event that
reschedules itself for ever would make the numbers grow for ever, so a new event gets the
largest *pending* number plus one: only the relative order of pending events matters.  An
`EventId` is such a number; it is reset (to `NoEvent`) when its event runs or is cancelled, which
is what `EventId::IsPending` tells the code.

### 2.2 Gateway

State: the members of the class keep their names (`state` is `m_state`, and so on; `eventWait` is
the number of the event `m_eventWait` refers to).  A message is its time stamp, and its identity
is its index in `sent`; the queue, the buffer and the connection hold identities, so that a lost
or overtaken message is seen.  `connectedAt` and `delivered` record history for the properties.

| Action | Code |
|---|---|
| `Connect`, `ConnectFails` | `Gateway::Connect` |
| `WaitForNextUpdate` | the function, with both of its branches |
| `ForwardFirst`, `ForwardUpdate`, `ForwardTerminate`, `ForwardUpFails` | the four outcomes of `ForwardUp` |
| `DoInitialize`, `HandleUpdate`, `CallbackFails` | the callbacks with the response they send |
| `StopBegin`, `StopEnd`, `Destroy` | `Stop` before and after the join, as an event or from `Simulator::Destroy` |
| `ThreadCheck`, `ThreadRecv`, `ThreadHangup`, `ThreadRecvFails`, `ThreadPush`, `ThreadForward`, `ThreadScheduleStop` | `RunThread`, split wherever the main thread can see a difference |
| `ServerSend`, `ServerClose` | any server whose stamps follow each other as `Follows` says |
| `Model`, `Finish`, `RunReturns` | the user's own events and the end of `Simulator::Run` |

An event of the main thread is one step, and that step ends, as ns-3's does, by turning the calls
of `ScheduleWithContext` into events of the current time.  The steps of the other thread come
between.  `Stop` is the exception: it waits for the thread in the middle, and is two steps.
`m_state` is read by the thread without a lock, which C++ leaves undefined; the model lets the
read come any time after the write.

`LeaderFollower` has three modes.  *free*: before `Connect`.  *led*: the clock stands at most at
the grant.  *released*: after `Stop`.  The gateway's grant is `Granted`: the time of `Connect`, or
the time the last update stands for, whichever is later.

### 2.3 TriggeredSend

Everything runs in the main thread.  The calls from outside (`StartApplication`,
`StopApplication`, `Send`) are made by events that are not the application's own; they may come at
any time up to `MaxTime` and at any place among the events of that time (`Outside`).  The time
only moves to the next event or to such a call.  `Send` schedules `ProcessSendRequest` at the
present time; the event's argument is the number of the request, whose packet count stands in
`requests`.  The socket is external: binding may fail, connecting may succeed at once or later,
fail or never answer, and a packet may be refused.

`PacedSource` has the packets left (`todo`) and the time the next packet is due (`due`).  The
mapping takes `todo` from `m_packetCount` and `due` from the pending `SendPacket` event; without
one, from the last packet.  That `due` exists in both cases and agrees is the point of the
refinement.

### 2.4 Text and Framing

The class has two concerns that hardly meet: *when* a message is handled, which is `Gateway`'s, and
*which* text a message is, which is `Framing`'s.  `Gateway` takes messages for whole and headers for
valid or not; `Framing` shows what must hold of the text for that, and keeps of the rest only
the order in which messages are queued, processed and answered.

A string is a sequence of characters.  The server writes packets (`packets` is their history) into
the stream `written`; `ThreadRecv` takes the next one to `BufferSize` characters of it, wherever
that cuts; `ThreadPush` takes one message from the buffer when a delimiter is there.  `ForwardUp`
splits the message, reads the header as `stoi` and `stol` do (blanks are skipped, what follows the
digits is ignored, a number outside `int` or `long` throws) and hands the values to the
callback, which calls `SetValue` and `SendResponse` as it likes.  The delimiters are any pair
that the constructor is given.  `Break` ends the stream within a packet.

The properties about what is read speak of delimiters that are `WellChosen`: the first character
of each stands nowhere else in either of them.  This is more than the constructor asks for
(`gateway.cc:59-70`), and so is more than `gateway.h:55-58` lets the user expect: with
the field delimiter `LF CR` and the message delimiter `CR LF`, or `CR` and `CR LF`, a value that
contains no delimiter may still make one together with its neighbours.  The run has such
pairs, and `NothingDropped` holds for them too.

### 2.5 CoSim

`CoSim` extends `Gateway`: each action of the gateway is conjoined with what it does to the
vehicles, and `ServerSend` and `ServerClose` are conjoined with the program counter of the
server's loop.  A message now has values (`orders`), a response too (`replies`).  The bus delivers
every packet to every other vehicle after `BusDelay`.  The clock's unit is the packet interval of
100 ms; a stamp of k seconds is `k * Second` units.  The packets of a broadcast follow from what
`TriggeredSend` shows (`OnSchedule`): a packet that is due at the time of the request goes first,
the others that are left are replaced.  Only when two requests come at the same time, which
needs steps of no time, may the second replace a packet that the first has just made due; both
outcomes are taken (`FirstPacket`).

The two programs start in either order.  A gateway that finds no server ends with a fatal error
(`ConnectFails`), and then the server waits in `accept` for ever (`Refused`); one that connects
between `listen` and `accept` is served.  The command line of the server is any in `ServerArgs`,
with stamps that wrap, too few or too many nodes, steps of no time, and a `positionDeltaX` of
zero, by which the program divides.  Its `pieces` say in how many parts a response arrives:
`Answer` takes what is there for the response, so that with more than one piece the server runs
ahead, and when it closes before it has read everything the connection is reset
(`ConnectionReset`).

## 3. What is checked

### 3.1 Runs that pass

| Run | Question | Bounds, and why they are enough |
|---|---|---|
| `gateway_any` | What holds for every server? | Three messages from {-1, 0, 1, 2, invalid} in every order; hang-up or failing `recv` at every moment; `Connect` before `Run` or by an event at time 2 (with a second, fatal call at time 3); replies or none.  Three messages give a first stamp and two grants, so that grants can be equal, reversed, late or followed by a termination. |
| `gateway_increasing` | What holds for a server that keeps to the documented order? | Four increasing stamps from 0..3, a termination or a hang-up at every moment, user events at times 1 and 2 and a `Simulator::Stop` at time 2. |
| `sender_any` | What holds for all calls and sockets? | An interval of 2, three requests of 0 to 2 packets at times 0 to 3, every outcome of the socket.  Requests before the start, within, at the end of and after an interval all occur, and so do two requests at the same time. |
| `sender_udp` | Are packets on time, and do requests end? | An interval of 3, three requests of up to 3 packets at times 0 to 5, each of which the socket may refuse: a request can interrupt at each offset within the interval, and follow after each. |
| `cosim` | Do the two example programs work together? | Two vehicles, two speeds, up to five steps, a round of broadcasts every two steps, ten command lines; either program may start first; `uint16_t` has 4 values and `uint32_t` 32, so that counts, positions and stamps wrap. |
| `framing` | Is the text read as it was written? | Two packets of five (empty values, values that are half a delimiter, a negative stamp, one too large, no header), pieces of up to three characters, so that a piece ends before, within and after a delimiter and holds one and a half; eight pairs of delimiters, of which three are refused, two overlap or begin alike, and one is a character twice; one call of `SetValue`, whose value a second response repeats (`RespondsWhatWasSet`, below, is for any number of calls). |

Properties, by hazard:

- *The clock*: `HeldInv`, `TimeGranted`, `FollowsTheLeader`, `GrantNotBlocked`, `UpdatesHappen`.
- *Messages between two threads*: `QueueMatchesForwards`, `NothingLost`, `DeliveredOnSchedule`,
  `IncreasingAccepted`.
- *The end*: `ThreadGone`, `NothingLeftBehind`, `CloseEnds`.
- *The text*: `NothingDropped`, `MessagesAsSent`, `ValuesAsSent`, `StampAsSent`, `ResponsesAsSet`,
  `PacketsForwarded`.
- *The pace of packets*: `OneSendPacket`, `SocketThere`, `SenderInv`, `CountsAddUp`,
  `DuePacketFirst`, `OnSchedule`, `RequestsEnd`, `PacesItself`.
- *Two programs in step*: `WellRun`, `InStep`, `CountsReported`, `CourseSeen`, `BothEnd`.

`TypeOK` (one in each component; `CoTypeOK` in `CoSim`) is the type invariant.

### 3.2 Runs that find a disagreement

Each states what a comment or a document says, and TLC finds a behaviour of the code that
contradicts it.  `PROJECT.json` quotes the lines.

| Run | Said | Found |
|---|---|---|
| `late_connect` | with `Connect` at 5 s, stamps 10 s and 11 s lead to 6 s (`README.md:79-84`) | the difference of 1 s is compared with the clock at 5 s, and `ForwardUp` is fatal |
| `equal_stamps` | equal stamps are allowed (`gateway.cc:355`), a stamp cancels the waiting (`README.md:73`) | two updates at the granted time start two wait loops; the next stamp cancels one, and the other holds the clock for ever |
| `decreasing` | stamps must increase between consecutive calls (`gateway.h:179`) | they are only compared with the clock: a smaller one that is still ahead is accepted |
| `stop_hangs` | the thread is signalled and joined (`gateway.h:142`) | a thread blocked in `recv` sees no signal: with a silent server `Stop` never returns |
| `stop_harmless` | after `Stop` the gateway no longer affects the simulation (`gateway.h:144`) | an update scheduled before `Stop` still runs, and its `SendResponse` is fatal |
| `send_error` | a failing send is a warning (`gateway.h:124`) | the first failing send raises SIGPIPE, which ends the process: the connection was reset, because a response was left unread when the server closed or because an earlier one came after that |

Another disagreement is small and has no run: `README.md:196-198` lets broadcasts start at step
6, but the flag chosen in the loop's first iteration (`simple-gateway-server.cc:184`, `0 % 5 ==
0`) is sent with the second message.

### 3.3 Fairness

Weak fairness is used in four specifications, and only for what is always scheduled.

- `Gateway!FairSpec`: of `Main`, because `Simulator::Run` takes the next event as long as there is
  one, and of `Thread`, because the operating system runs it.  `ThreadRecvFails` and the server
  are not fair: an error or a message need never come.  So `UpdatesHappen` says that messages
  which were sent arrive, and `CloseEnds` that a connection which was closed ends the program.
- `TriggeredSend!FairSpec`: of the event handlers, again because of `Simulator::Run`.  Nobody needs
  to call `Send`.
- `CoFairSpec`: of the gateway's two threads and of the server, which never stops of itself but in
  `accept` and `recv`, where `TheServer` is not enabled.
- `Framing!FairSpec`: of `Thread`, which is the thread's loop without a failing `recv`.  Neither
  the server nor the callbacks owe anything.

The wait loop takes steps for ever without changing anything but the numbers of events.  It does
not starve the other thread, whose fairness is its own condition, and it cannot keep the main
thread from an event: what was asked for is behind at most one round of the loop.

## 4. What is proved

TLAPS proves the following for all values of the constants: any stamps, any number of messages,
any programs of the user, any interval, any number and times of requests, any delimiters, packets
and pieces.

| Theorem | Says |
|---|---|
| `GatewayProofs!TypeCorrect`, `TriggeredSendProofs!TypeCorrect` | `[]TypeOK`; for the application it includes that the unsigned packet count is never decremented at zero |
| `GatewayProofs!ClockIsHeld`, `ClockIsGranted` | `[]HeldInv` and `[]TimeGranted` |
| `GatewayProofs!ThreadIsGone` | `[]ThreadGone` |
| `GatewayProofs!Refinement` | `Spec => FollowsTheLeader`: every step is a step of `LeaderFollower` or a stutter |
| `TriggeredSendProofs!AssertionHolds`, `SocketIsThere`, `PaceIsKept` | `[]OneSendPacket`, `[]SocketThere`, `[]SenderInv` |
| `QueueProofs!QueueIsMatched`, `ForwardFindsMessage` | `[]QueueMatchesForwards`, and from it that `ForwardUp` never finds the queue empty |
| `DeliveryProofs!EveryMessageOnce` | `[]NothingLost`: no message is lost, duplicated or overtaken, whatever the server sends |
| `DeliveryProofs!StopComesLast` | `[]NothingLeftBehind`: what was received before the connection ended is dealt with before `Stop` |
| `DeliveryProofs!CallbacksOnSchedule` | `[]DeliveredOnSchedule`, for a server whose stamps increase and a program that connects at time 0 |
| `DeliveryProofs!GrantsAreUsed`, `IncreasingIsAccepted` | `[]GrantNotBlocked` and `[]IncreasingAccepted`, for the same servers and programs |
| `CoSimProofs!CoTyped` | `[]CoTypeOK`, for every command line |
| `CoSimProofs!LockStep` | `[]InStep`: the two programs move in lock step |
| `CoSimProofs!NothingGoesWrong` | `[]WellRun`: with a command line that fits no stamp is refused and no response fails |
| `CoSimProofs!CourseIsConsistent` | `[]CourseSeen`, for every command line |
| `CoSimProofs!CountsAreReported` | `[]CountsReported`, for every command line |
| `CoSimProofs!ServerLeads` | `CoSpec => FollowsTheLeader`: the composition implements `LeaderFollower` too, for every command line |
| `TextProofs!SplitJoin` | splitting undoes joining |
| `FramingProofs!TextTypes`, `KeepsEveryCharacter` | `[]TypeOK` and `[]NothingDropped`, for all delimiters |
| `FramingProofs!ReceivesWhatWasSent`, `ForwardsWhatWasSent` | `[]MessagesAsSent`, `[]ValuesAsSent` |
| `FramingProofs!StampsAsSent`, `TextProofs!DecimalRead` | `[]StampAsSent`, from: a number that is written in decimal is read as that number |
| `FramingProofs!RespondsWhatWasSet` | `[]ResponsesAsSet`, when there is an element of data |
| `TriggeredSendProofs!Refinement` | `Spec => PacesItself` |
| `TriggeredSendProofs!PacketsOnTime`, `CountsAreKept` | `[]OnSchedule` and `[]CountsAddUp` |
| `TriggeredSendProofs!DueGoesFirst` | `Spec => DuePacketFirst` |
| `EventListProofs!NextExists` | an event list with distinct numbers that is not empty has exactly one next event |
| `QueueProofs!SimulatorRunsOn` | in every state of `Gateway` with an event pending, exactly one event is next, and it is not in the past |

**Assumptions.**  Only the types of the constants, named where they are declared
(`ProgramsAssumption`, `HeadersAssumption`, ... in `Gateway`; `IntervalAssumption`, ... in
`TriggeredSend`; `PacketsAssumption`, ... in `Framing`).  TLC evaluates them in every run.
`CoSim` also assumes what its two programs fix of the gateway's constants: the options have the
types that the server gives them (`ArgsAssumption`), every stamp below 2^31 s is a header
(`StampsAssumption`), the one call of `Connect` comes before `Run` (`MainAssumption`,
`simple-gateway.cc:244`), and every callback responds (`ResponsesAssumption`,
`simple-gateway.cc:100-148`).
`RespondsWhatWasSet` also assumes `DataSize # 0`: without elements a response is a delimiter alone,
which a reader splits into one empty value, not into none.
The three theorems on increasing servers assume `StampsIncrease` (each stamp is larger than the one
before, as `gateway.h:179` asks, and nothing follows a request to terminate) and
`ConnectsAtStart` (`Connect` is called before `Run` or at time 0, as in
`simple-gateway.cc:244`).  `gateway_increasing` has such a server and such programs; that the
hypotheses are needed is what `late_connect` (a later `Connect`) and `equal_stamps` (stamps that do
not increase) show.

**The clock.**  `TimeGranted` alone is not inductive: it says nothing of why the clock cannot run
on.  `HeldInv` adds it: as long as the gateway is connected some event stops the clock
(`ClockHeld`), a wait event, or an update at the granted time; the wait events are of the
present (`EventsOK`), so that no event later than the grant can be next.  The other conjuncts say
that messages on their way were sent, that nothing of the gateway is pending before `Connect`,
and that `Stop` sets the state first.  The critical case is `ForwardUpdate`, which cancels the
wait event and must therefore leave an update at the new grant.  The proof has a lemma per action
or group of actions; what a `Return` does to the event list is stated once, in lemmas over
`EventListProofs`.

**The thread.**  `ThreadInv` follows the thread's life through the states of the gateway: none when
created; while connected, a socket that is open and a destroy event that will call `Stop`; when
stopping, either gone or waited for with the socket still open.  Hence nothing is left of it once
the socket is closed or `Destroy` has returned.

**The pace.**  `SenderInv` says that exactly one event stands for the next packet, or for the end
of the interval after the last one; that it is the event `m_sendPacketEvent` names; and that it
does not come within an interval of the last packet.  The event of `triggered-send-application.cc:302`
that has no packet to send is what keeps this true between requests.

**The requests.**  `RInv` adds to the pace what ties an event to its request: a request waits in
the event list at the time it was made, once, and nothing was sent for it (`RequestsWait`); the
pending `SendPacket` event lies exactly where the next packet should be (`NextOnTime`, the state's
half of `OnSchedule`); and a packet that was due when a request was made was sent or comes before
the request in the event list (`OwedFirst`).  The critical step is a request that takes effect while
an event is pending and that event is used again: either it lies at the end of the interval, or
the request before was made at this very time.  Steps that touch neither a request nor a packet
are one lemma (`QuietStep`).

**Refinements.**  They are proved by cases on the action, with the inductive invariant in the state
before and after.  `ServerLeads` adds to the steps of the gateway those that only the composition
has: a receipt stays within the grant because some event at or before the granted time is pending
and none is skipped (`ReceiptTime`), and a failed `DoUpdate` leaves the clock where it is.  In `TriggeredSendProofs` three lemmas say how `due` moves: it stays when the
event stays (`SameDue`), it is the time of the new event when one is scheduled (`NewDue`), and it
is the present when neither is there (`DueNow`).

**The queue.**  `QueueMatchesForwards` counts: the messages queued are as many as the calls of
`ForwardUp` that are pending in the event list, asked for with `ScheduleWithContext`, or about to
be asked for by the thread.  `QueueProofs` has lemmas on how each of the three numbers changes
when an event is added, run or cancelled and when a call is handed over; each action then
moves one from one of the three to another, or takes one away with a message.  The wait event
must be known not to be a `ForwardUp`, since `Cancel` removes it by number alone.  The same lemmas
keep the numbers of the pending events apart; with `NextExists` (a least time exists among
natural numbers, and a least number among the events at it) and `EventsOK` (nothing is scheduled
before the clock) this gives `SimulatorRunsOn`.

**The messages.**  The queue, the buffer and the stream hold, in this order, the messages after
the first `Seen` (`InOrder`), and each of those that were seen is in one place, the argument of one
event or one entry of `delivered`, unless it asked for termination, and then in none (`Placed`).
A step either moves messages along the three buffers, or takes the next one out and schedules
its callback, or turns one event into one delivery; there is a lemma for each of these.

**The end of the connection.**  `StopInv` follows the call of `Stop`: it is the last that the
thread asks for, it becomes the last of the calls in the event list, and the thread then has
nothing left.  With `QueueMatchesForwards` no message is left when it runs.

**A server whose stamps increase.**  `StampInv` ties `timeStart` and `timePause` to the messages
seen: the origin is the first stamp, the limit the last one.  `EventsOnTime` and `DeliveredInv`
say that a callback lies, or ran, where its stamp says.  Updates run in the order of their
messages because their times increase, and none is left out because `Placed` accounts for
all of them.  `HoldInv` is the interplay of the wait loop and the updates: there is one wait event
at most, none next to an update at the limit, and an update at the limit whenever the clock is
before it.  A new stamp is beyond the last one, the clock is not past the last one
(`TimeGranted`), so the new stamp is never refused.

**Lock step.**  A step of `CoSim` is a step of `Gateway`, or a receipt of a packet, which moves the
clock only to a time at which no event of the gateway is skipped (`StepOfGateway`, `ReceiptStep`); so
the invariants of `DeliveryProofs` hold here until a subclass with too few values ends the process.
`CoBase` is these, the types, and that no packet on the bus is overdue; it holds for every
command line.  `ProgramInv` ties the server's program counter to what it has sent (`SentInv`,
`StepInv`) and to the connection (`ConnectionInv`: it is lost, and the simulation stops, only
after the server's last message), also for every command line.
`InStep` and `WellRun` need more, and only when responses come whole: the server waits for one
response at most (`AnswerInv`), and every callback ran at the time of its stamp, in its turn
(`TurnInv`).  The key lemma is `CallbackTurn`: when a callback runs, its message is the one the server
waits for, because all earlier ones were answered and each message is in one place (`Placed`).
This is not the argument of `CallbacksOnSchedule`, since the stamps of the server wrap and do not
increase.  For `WellRun` they do (`StampsAscend`), and then the clock stands at the stamp before
when the next one is processed (`ForwardFits`).

**The course.**  `LastGiven` says that a vehicle has the velocity of the update that ran last; with it an
update adds to `Changed` exactly when the model calls back.  It follows from `CoBase` alone, so
`CourseIsConsistent` does not need the two programs to be in step.

**The counts.**  `CountsReported` follows from two parts of `CountInv`.  `RepliesInv` says that each
callback so far was answered, unless the connection is closed, which it then stays; so while
responses are sent the k-th is that of the k-th callback.  `Tally` says of each vehicle that its
count before it wraps, and the packets on the bus for it, are together the packets of the
broadcasts that the callbacks so far asked for.  A callback finds the bus empty (`CallbackTimely`), so
the count it reports is all of them.  The reason is in the stamps: a stamp that `ForwardUp` does not
refuse is later than the one before (`SeenIncreases`), although the server's time wraps, and then at
least a second later (`StampGap`), which is more than the packets of a broadcast take
(`BusAssumption`).  With a time step of 0 all happens at time 0, where nothing is
received yet (`NothingAtOnce`).

**The text.**  Induction over a string is not available as a proof rule here for a property of
one's own, so the lemmas of `TextProofs` go by the least counterexample: a set of natural numbers
that is not empty has a least element.  They say where a joined text's values start, what stands
between them, and that the first occurrence of a delimiter is where it was written; `SplitJoin`
follows.  In `FramingProofs` the inductive invariant `Correct` says that the
messages, each with its delimiter, and the buffer are exactly what was received
(`NothingDropped`), that what the server has written is what it sent, perhaps with a part
of a packet behind (`WrittenIsSent`), and that for well-chosen delimiters the messages are the
first of the packets.  The critical step is `ThreadPush`: the first delimiter in the buffer is the one
behind the next packet, which holds because no delimiter can begin in a packet and end in the
delimiter behind it.

**The numbers.**  `DecimalRead` goes by the least number again: the text of k is that of k div 10 with
the last digit behind it (`Decimals`), and the value of a text is ten times that of the text without
its last digit, and the digit (`Valued`).  That both recursions define a function is proved first
(`DecimalsExist`, `ValuedExists`).  `StampsAsSent` then needs only that the parts of a message are the
values of its packet.

**Only model-checked.**  Everything that depends on fairness (`UpdatesHappen`, `CloseEnds`,
`RequestsEnd`, `BothEnd`, `PacketsForwarded`), because the prover does not handle it.

## 5. What is not modelled

- `TriggeredSendHelper`: it names a type for an object factory of ns-3 and sets two attributes.
  There is no state, no condition and no order of calls in it.
- `external-mobility-example` is a main function without inputs that has one behaviour; the calls
  it makes are those of `ExternalMobility`, and `CoSim` makes them in more orders.  Of
  `triggered-send-example` the calls of `Send` are instances of `sender_udp`; its nodes, links
  and sink are ns-3's.
- `Framing` has no white space but the blank, CR and LF; the sum of
  seconds and nanoseconds does not leave the range of `Time`, which takes an int and a long
  near 2^63.
- Sockets below `recv` and `send`; an interrupted `recv` (EINTR), which the code takes for an error,
  is covered by `RecvMayFail`.
- Compilers that read `m_state` only once, outside the loop, as the missing synchronisation would
  allow.
- Networks: the bus of `CoSim` loses nothing and has a fixed delay.
- Logging, the other command-line options, and the objects' lifetime in C++.

## 6. Plan

Done: all modules of section 2 with their runs; every invariant, action property and refinement
that a run checks is proved, for every value of the constants.

Left to TLC: the properties under fairness (end of section 4), and the runs of section 3 that
expect a violation.

## 7. How to run

`tlc -config <run>.cfg <module>` checks a run (`PROJECT.json` names the module of each), and
`tlapm <module>.tla` a module of proofs.  The runs take seconds up to about two
minutes, the proofs of a module up to a few minutes.
