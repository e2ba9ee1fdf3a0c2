---------------------------- MODULE GatewayProofs ----------------------------
(***************************************************************************)
(* Proofs about Gateway, for every program, set of stamps, order of        *)
(* stamps, number of messages and behaviour of the callbacks.              *)
(***************************************************************************)
EXTENDS Gateway, EventListProofs

Fns == UserFns \cup GatewayFns
Args == {NoMessage} \cup Messages

\* The inductive invariant.
IInv == TypeOK /\ HeldInv /\ Numbered(events)

-----------------------------------------------------------------------------
(* The types, in three parts that a step can be checked against one by one. *)

SimulatorTypes ==
  /\ now \in Nat
  /\ events \subseteq Events(Fns, Args)
  /\ withContext \in Seq({"ForwardUp", "Stop"})
  /\ stopped \in BOOLEAN
  /\ main \in {"run", "stopping", "destroy", "destroying", "done"}
  /\ fault \in Faults

MemberTypes ==
  /\ state \in {"CREATED", "CONNECTED", "STOPPING"}
  /\ timeStart \in Int /\ timePause \in Int
  /\ eventWait \in Nat /\ eventDestroy \in BOOLEAN
  /\ messageQueue \in Seq(Messages) /\ messageBuffer \in Seq(Messages)
  /\ socket \in {"none", "open", "closed"}
  /\ thread \in {"none", "check", "read", "schedule", "hangup", "exited", "joined"}

ConnectionTypes ==
  /\ sent \in Seq(Headers) /\ Len(sent) <= MaxMessages
  /\ stream \in Seq(Messages)
  /\ conn \in {"none", "open", "closed"}
  /\ responses \in Nat
  /\ connectedAt \in Int
  /\ delivered \in Seq([msg : Messages, at : Nat])

LEMMA TypeParts == TypeOK <=> SimulatorTypes /\ MemberTypes /\ ConnectionTypes
BY DEF TypeOK, SimulatorTypes, MemberTypes, ConnectionTypes, Fns, Args

LEMMA TypePartsAfter ==
  TypeOK' <=> SimulatorTypes' /\ MemberTypes' /\ ConnectionTypes'
BY DEF TypeOK, SimulatorTypes, MemberTypes, ConnectionTypes, Fns, Args

\* What a step leaves alone keeps its type.
LEMMA SimulatorKept ==
  ASSUME SimulatorTypes, UNCHANGED simulator, UNCHANGED fault
  PROVE  SimulatorTypes'
BY DEF SimulatorTypes, simulator

LEMMA MembersKept ==
  ASSUME MemberTypes,
         UNCHANGED <<state, times, waiting, received, socket>>
  PROVE  MemberTypes'
BY DEF MemberTypes, times, waiting, received

LEMMA ConnectionKept ==
  ASSUME ConnectionTypes, UNCHANGED <<server, responses, history>>
  PROVE  ConnectionTypes'
BY DEF ConnectionTypes, server, history

-----------------------------------------------------------------------------
(* The event list.                                                         *)

\* The next event: what it means for the clock to move to its time.
LEMMA NextEvent ==
  ASSUME IInv, NEW e \in events, IsNext(e, events)
  PROVE  /\ e \in Events(Fns, Args)
         /\ e.ts \in Nat /\ e.uid \in Nat \ {0} /\ e.ts >= now
         /\ e.fn \in CurrentFns => e.ts = now
         /\ e.fn \in CallbackFns => e.msg \in Messages
         /\ \A f \in events : EventOK(f, e.ts)
<1>1. /\ events \in SUBSET Events(Fns, Args)
      /\ now \in Nat
      /\ \A f \in events : EventOK(f, now)
  BY DEF IInv, TypeOK, HeldInv, EventsOK, Fns, Args
<1>2. /\ e \in Events(Fns, Args)
      /\ \A f \in events : e.ts <= f.ts
  BY <1>1, NextIsFirst
<1>3. e.ts \in Nat /\ e.uid \in Nat \ {0}
  BY <1>2 DEF Events
<1>4. EventOK(e, now)
  BY <1>1
<1>5. ASSUME NEW f \in events
      PROVE  EventOK(f, e.ts)
  <2>1. f.ts \in Nat
    BY <1>1 DEF Events
  <2>2. EventOK(f, now) /\ e.ts <= f.ts
    BY <1>1, <1>2
  <2> QED
    BY <1>1, <1>3, <1>4, <2>1, <2>2 DEF EventOK
<1> QED
  BY <1>2, <1>3, <1>4, <1>5 DEF EventOK

\* The requests of the other thread become events of the current time.
LEMMA ForwardedEntries ==
  ASSUME TypeOK, NEW ts \in Nat
  PROVE  /\ Forwarded(ts) \in Entries(Fns, Args)
         /\ \A i \in DOMAIN Forwarded(ts) :
              /\ Forwarded(ts)[i].ts = ts
              /\ Forwarded(ts)[i].fn \in {"ForwardUp", "Stop"}
<1> DEFINE E == [ts : Nat, fn : Fns, msg : Args]
<1>1. withContext \in Seq({"ForwardUp", "Stop"})
  BY DEF TypeOK
<1>2. /\ Len(withContext) \in Nat
      /\ DOMAIN withContext = 1..Len(withContext)
      /\ \A i \in DOMAIN withContext : withContext[i] \in {"ForwardUp", "Stop"}
  BY <1>1, ElementOfSeq, LenProperties
<1>3. \A i \in DOMAIN withContext :
        Entry(ts, withContext[i], NoMessage) \in E
  BY <1>2 DEF Entry, Fns, Args, GatewayFns, NoMessage
<1>4. Forwarded(ts) \in [1..Len(withContext) -> E]
  BY <1>2, <1>3 DEF Forwarded
<1>5. Forwarded(ts) \in Seq(E)
  BY <1>2, <1>4, IsASeq DEF Forwarded
<1> QED
  BY <1>2, <1>5 DEF Forwarded, Entry, Entries

\* What the event list is like after an event, when what is still pending and
\* what is new is in order.
LEMMA ReturnEvents ==
  ASSUME IInv, NEW ts \in Nat, NEW pending \in SUBSET events,
         NEW new \in Entries(Fns, Args), Return(ts, pending, new),
         \A e \in events : EventOK(e, ts),
         \A i \in DOMAIN new : EventOK(new[i], ts)
  PROVE  /\ now' = ts
         /\ events' \in SUBSET Events(Fns, Args)
         /\ Numbered(events')
         /\ withContext' = <<>>
         /\ \A e \in events' : EventOK(e, ts)
         /\ pending \subseteq events'
         /\ \A i \in DOMAIN new : \E e \in events' :
              e.fn = new[i].fn /\ e.ts = new[i].ts
         /\ withContext = <<>> /\ DOMAIN new = {} => events' \subseteq pending
<1> DEFINE before == Schedule(pending, new)
           later == Schedule(before, Forwarded(ts))
<1>1. pending \in SUBSET Events(Fns, Args) /\ Numbered(pending)
  <2>1. events \in SUBSET Events(Fns, Args) /\ Numbered(events)
    BY DEF IInv, TypeOK, Fns, Args
  <2> QED
    BY <2>1, FewerEvents
<1>2. /\ before \in SUBSET Events(Fns, Args)
      /\ Numbered(before)
      /\ pending \subseteq before
      /\ \A i \in DOMAIN new : \E e \in before :
           e.ts = new[i].ts /\ e.fn = new[i].fn /\ e.msg = new[i].msg
      /\ \A e \in before : e \in pending \/ \E i \in DOMAIN new :
           e.ts = new[i].ts /\ e.fn = new[i].fn /\ e.msg = new[i].msg
  BY <1>1, ScheduleAdds
<1>3. \A e \in before : EventOK(e, ts)
  BY <1>2 DEF EventOK
<1>4. /\ Forwarded(ts) \in Entries(Fns, Args)
      /\ \A i \in DOMAIN Forwarded(ts) :
           /\ Forwarded(ts)[i].ts = ts
           /\ Forwarded(ts)[i].fn \in {"ForwardUp", "Stop"}
  BY ForwardedEntries DEF IInv
<1> HIDE DEF before
<1>5. /\ later \in SUBSET Events(Fns, Args)
      /\ Numbered(later)
      /\ before \subseteq later
      /\ \A e \in later : e \in before \/ \E i \in DOMAIN Forwarded(ts) :
           /\ e.ts = Forwarded(ts)[i].ts
           /\ e.fn = Forwarded(ts)[i].fn
           /\ e.msg = Forwarded(ts)[i].msg
  BY <1>2, <1>4, ScheduleAdds
<1>6. \A e \in later : EventOK(e, ts)
  BY <1>3, <1>4, <1>5 DEF EventOK, CallbackFns
<1>7. now' = ts /\ events' = later /\ withContext' = <<>>
  BY DEF Return, before
<1>8. withContext = <<>> => DOMAIN Forwarded(ts) = {}
  BY DEF Forwarded
<1> HIDE DEF later
<1>9. withContext = <<>> /\ DOMAIN new = {} => later \subseteq pending
  BY <1>2, <1>5, <1>8
<1> QED
  BY <1>2, <1>5, <1>6, <1>7, <1>9

\* The same for an event that schedules nothing.
LEMMA ReturnNothing ==
  ASSUME IInv, NEW ts \in Nat, NEW pending \in SUBSET events,
         Return(ts, pending, <<>>), \A e \in events : EventOK(e, ts)
  PROVE  /\ now' = ts
         /\ events' \in SUBSET Events(Fns, Args)
         /\ Numbered(events')
         /\ withContext' = <<>>
         /\ \A e \in events' : EventOK(e, ts)
         /\ pending \subseteq events'
         /\ withContext = <<>> => events' \subseteq pending
<1>1. <<>> \in Entries(Fns, Args) /\ DOMAIN <<>> = {}
  BY DEF Entries
<1> QED
  BY <1>1, ReturnEvents

\* The same for an event that schedules one call.
LEMMA ReturnOne ==
  ASSUME IInv, NEW ts \in Nat, NEW pending \in SUBSET events,
         NEW at \in Nat, NEW fn \in Fns, NEW msg \in Args,
         Return(ts, pending, <<Entry(at, fn, msg)>>),
         \A e \in events : EventOK(e, ts),
         EventOK(Entry(at, fn, msg), ts)
  PROVE  /\ now' = ts
         /\ events' \in SUBSET Events(Fns, Args)
         /\ Numbered(events')
         /\ withContext' = <<>>
         /\ \A e \in events' : EventOK(e, ts)
         /\ pending \subseteq events'
         /\ \E e \in events' : e.fn = fn /\ e.ts = at
<1> DEFINE new == <<Entry(at, fn, msg)>>
<1>1. Entry(at, fn, msg) \in [ts : Nat, fn : Fns, msg : Args]
  BY DEF Entry
<1>2. new \in Entries(Fns, Args) /\ DOMAIN new = {1} /\ new[1] = Entry(at, fn, msg)
  BY <1>1 DEF Entries
<1>3. new[1].fn = fn /\ new[1].ts = at
  BY <1>2 DEF Entry
<1> HIDE DEF new
<1>4. \A i \in DOMAIN new : EventOK(new[i], ts)
  BY <1>2
<1>5. Return(ts, pending, new)
  BY DEF new
<1>6. /\ now' = ts
      /\ events' \in SUBSET Events(Fns, Args)
      /\ Numbered(events')
      /\ withContext' = <<>>
      /\ \A e \in events' : EventOK(e, ts)
      /\ pending \subseteq events'
      /\ \A i \in DOMAIN new : \E e \in events' :
           e.fn = new[i].fn /\ e.ts = new[i].ts
      /\ withContext = <<>> /\ DOMAIN new = {} => events' \subseteq pending
  BY <1>2, <1>4, <1>5, ReturnEvents
<1>7. \E e \in events' : e.fn = fn /\ e.ts = at
  BY <1>2, <1>3, <1>6
<1> QED
  BY <1>6, <1>7

\* While the gateway is connected the next event is not later than the last
\* granted time: an event that holds the clock is pending until then.
LEMMA ClockStops ==
  ASSUME IInv, main = "run", state = "CONNECTED",
         NEW e \in events, IsNext(e, events)
  PROVE  e.ts <= Granted
<1>1. /\ now \in Nat /\ timePause \in Int /\ connectedAt \in Int
      /\ now <= Granted
      /\ \A f \in events : EventOK(f, now)
      /\ events \in SUBSET Events(Fns, Args)
  BY DEF IInv, TypeOK, HeldInv, TimeGranted, EventsOK, Fns, Args
<1>2. PICK f \in events :
         f.fn = "WaitForNextUpdate" \/ (f.fn = "HandleUpdate" /\ f.ts = timePause)
  BY DEF IInv, HeldInv, ClockHeld
<1>3. e.ts \in Nat /\ f.ts \in Nat /\ e.ts <= f.ts
  BY <1>1, NextIsFirst DEF Events
<1>4. f.ts = now \/ f.ts = timePause
  BY <1>1, <1>2 DEF EventOK, CurrentFns, GatewayFns
<1> QED
  BY <1>1, <1>3, <1>4 DEF Granted

\* The same for an event that schedules WaitForNextUpdate for now.
LEMMA ReturnWait ==
  ASSUME IInv, NEW ts \in Nat, NEW pending \in SUBSET events,
         Return(ts, pending, <<Entry(ts, "WaitForNextUpdate", NoMessage)>>),
         \A e \in events : EventOK(e, ts)
  PROVE  /\ now' = ts
         /\ events' \in SUBSET Events(Fns, Args)
         /\ Numbered(events')
         /\ withContext' = <<>>
         /\ \A e \in events' : EventOK(e, ts)
         /\ pending \subseteq events'
         /\ \E e \in events' : e.fn = "WaitForNextUpdate" /\ e.ts = ts
         /\ NewUid(pending) \in Nat
<1>1. EventOK(Entry(ts, "WaitForNextUpdate", NoMessage), ts)
  BY DEF EventOK, Entry, CallbackFns
<1>2. "WaitForNextUpdate" \in Fns /\ NoMessage \in Args
  BY DEF Fns, GatewayFns, Args
<1>3. NewUid(pending) \in Nat
  <2>1. pending \in SUBSET Events(Fns, Args) /\ Numbered(pending)
    BY FewerEvents DEF IInv, TypeOK, Fns, Args
  <2> QED
    BY <2>1, NewUidType
<1> DEFINE fn == "WaitForNextUpdate"
           msg == NoMessage
<1>4. fn \in Fns /\ msg \in Args /\ EventOK(Entry(ts, fn, msg), ts)
      /\ Return(ts, pending, <<Entry(ts, fn, msg)>>)
  BY <1>1, <1>2
<1>5. fn = "WaitForNextUpdate"
  OBVIOUS
<1> HIDE DEF fn, msg
<1>6. /\ now' = ts
      /\ events' \in SUBSET Events(Fns, Args)
      /\ Numbered(events')
      /\ withContext' = <<>>
      /\ \A e \in events' : EventOK(e, ts)
      /\ pending \subseteq events'
      /\ \E e \in events' : e.fn = fn /\ e.ts = ts
  BY <1>4, ReturnOne
<1> QED
  BY <1>3, <1>5, <1>6

-----------------------------------------------------------------------------
(* One lemma for each action of the main thread.                           *)

LEMMA UserStep ==
  ASSUME IInv, NEW e \in events, Model(e) \/ Finish(e)
  PROVE  IInv'
<1>1. /\ main = "run" /\ IsNext(e, events) /\ e.fn \in UserFns
      /\ Return(e.ts, events \ {e}, <<>>)
      /\ stopped' \in {stopped, TRUE}
      /\ UNCHANGED <<main, fault, state, times, waiting, received, socket, server,
                     responses, history>>
  BY DEF Model, Finish, Runs, UserFns
<1>2. /\ e.ts \in Nat /\ e.ts >= now
      /\ \A f \in events : EventOK(f, e.ts)
  BY <1>1, NextEvent
<1>3. /\ now' = e.ts
      /\ events' \in SUBSET Events(Fns, Args)
      /\ Numbered(events')
      /\ withContext' = <<>>
      /\ \A f \in events' : EventOK(f, e.ts)
      /\ events \ {e} \subseteq events'
      /\ withContext = <<>> => events' \subseteq events \ {e}
  BY <1>1, <1>2, ReturnNothing
<1>4. TypeOK'
  <2>1. events' \in SUBSET Events(UserFns \cup GatewayFns, {NoMessage} \cup Messages)
    BY <1>3 DEF Fns, Args
  <2>2. withContext' \in Seq({"ForwardUp", "Stop"})
    BY <1>3
  <2>3. now' \in Nat /\ stopped' \in BOOLEAN
    BY <1>1, <1>2, <1>3 DEF IInv, TypeOK
  <2> QED
    BY <1>1, <2>1, <2>2, <2>3
    DEF IInv, TypeOK, times, waiting, received, server, history
<1>5. EventsOK' /\ MessagesSent' /\ NothingBeforeConnect' /\ StopSetsState'
  BY <1>1, <1>3
  DEF IInv, HeldInv, EventsOK, MessagesSent, NothingBeforeConnect, StopSetsState,
      times, waiting, received, server
<1>6. ClockHeld'
  <2>1. e.fn # "WaitForNextUpdate" /\ e.fn # "HandleUpdate"
    BY <1>1 DEF UserFns
  <2> QED
    BY <1>1, <1>3, <2>1 DEF IInv, HeldInv, ClockHeld, times
<1>7. TimeGranted'
  BY <1>1, <1>3, ClockStops DEF TimeGranted, Granted, times, history
<1> QED
  BY <1>3, <1>4, <1>5, <1>6, <1>7 DEF IInv, HeldInv

LEMMA ConnectStep ==
  ASSUME IInv, NEW e \in events, Connect(e)
  PROVE  IInv'
<1>1. /\ main = "run" /\ IsNext(e, events) /\ state = "CREATED"
      /\ Return(e.ts, events \ {e},
                <<Entry(e.ts, "WaitForNextUpdate", NoMessage)>>)
  BY DEF Connect, Runs
<1>2. /\ e.ts \in Nat /\ e.ts >= now
      /\ \A f \in events : EventOK(f, e.ts)
  BY <1>1, NextEvent
<1>3. /\ now' = e.ts
      /\ events' \in SUBSET Events(Fns, Args)
      /\ Numbered(events')
      /\ withContext' = <<>>
      /\ \A f \in events' : EventOK(f, e.ts)
      /\ \E f \in events' : f.fn = "WaitForNextUpdate" /\ f.ts = e.ts
      /\ NewUid(events \ {e}) \in Nat
  BY <1>1, <1>2, ReturnWait
<1>4. TypeOK'
  <2>1. events' \in SUBSET Events(UserFns \cup GatewayFns, {NoMessage} \cup Messages)
    BY <1>3 DEF Fns, Args
  <2>2. withContext' \in Seq({"ForwardUp", "Stop"})
    BY <1>3
  <2>3. now' \in Nat /\ connectedAt' \in Int
    BY <1>2, <1>3 DEF Connect
  <2>4. eventWait' \in Nat
    BY <1>3 DEF Connect
  <2> QED
    BY <2>1, <2>2, <2>3, <2>4 DEF IInv, TypeOK, Connect, times
<1>5. EventsOK' /\ MessagesSent' /\ NothingBeforeConnect' /\ StopSetsState'
  BY <1>1, <1>3
  DEF IInv, HeldInv, EventsOK, MessagesSent, NothingBeforeConnect, StopSetsState,
      Connect
<1>6. ClockHeld'
  BY <1>3 DEF ClockHeld
<1>7. TimeGranted'
  BY <1>2, <1>3 DEF IInv, TypeOK, TimeGranted, Granted, Connect, times
<1> QED
  BY <1>3, <1>4, <1>5, <1>6, <1>7 DEF IInv, HeldInv

LEMMA WaitStep ==
  ASSUME IInv, NEW e \in events, WaitForNextUpdate(e)
  PROVE  IInv'
<1>1. /\ main = "run" /\ IsNext(e, events) /\ e.fn = "WaitForNextUpdate"
      /\ UNCHANGED <<stopped, main, fault, state, times, eventDestroy, received,
                     socket, server, responses, history>>
  BY DEF WaitForNextUpdate, Runs
<1>2. /\ e.ts = now /\ now \in Nat
      /\ \A f \in events : EventOK(f, now)
  <2>1. e.ts \in Nat /\ (e.fn \in CurrentFns => e.ts = now)
        /\ \A f \in events : EventOK(f, e.ts)
    BY <1>1, NextEvent
  <2> QED
    BY <1>1, <2>1 DEF CurrentFns, GatewayFns
<1>3. state # "CREATED"
  BY <1>1 DEF IInv, HeldInv, NothingBeforeConnect, UserFns
<1>4. /\ now' = now
      /\ events' \in SUBSET Events(Fns, Args)
      /\ Numbered(events')
      /\ withContext' = <<>>
      /\ \A f \in events' : EventOK(f, now)
      /\ eventWait' \in Nat
      /\ state # "STOPPING" => \E f \in events' : f.fn = "WaitForNextUpdate"
  <2>1. CASE KeepsWaiting
    <3> DEFINE pending == Cancel(events \ {e}, WaitAfter(e))
    <3>1. /\ Return(now, pending,
                    <<Entry(now, "WaitForNextUpdate", NoMessage)>>)
          /\ eventWait' = NewUid(pending)
      BY <1>2, <2>1 DEF WaitForNextUpdate
    <3>2. pending \in SUBSET events
      BY DEF Cancel
    <3> HIDE DEF pending
    <3> QED
      BY <1>2, <3>1, <3>2, ReturnWait
  <2>2. CASE ~KeepsWaiting
    <3>1. Return(now, events \ {e}, <<>>) /\ eventWait' = WaitAfter(e)
      BY <1>2, <2>2 DEF WaitForNextUpdate
    <3>2. WaitAfter(e) \in Nat
      BY DEF WaitAfter, NoEvent, IInv, TypeOK
    <3> QED
      BY <1>2, <2>2, <3>1, <3>2, ReturnNothing DEF KeepsWaiting
  <2> QED
    BY <2>1, <2>2
<1>5. TypeOK'
  <2>1. events' \in SUBSET Events(UserFns \cup GatewayFns, {NoMessage} \cup Messages)
    BY <1>4 DEF Fns, Args
  <2>2. withContext' \in Seq({"ForwardUp", "Stop"})
    BY <1>4
  <2> QED
    BY <1>1, <1>4, <2>1, <2>2 DEF IInv, TypeOK, times, received, server, history
<1>6. EventsOK' /\ MessagesSent' /\ NothingBeforeConnect' /\ StopSetsState'
  BY <1>1, <1>3, <1>4
  DEF IInv, HeldInv, EventsOK, MessagesSent, NothingBeforeConnect, StopSetsState,
      times, received, server
<1>7. ClockHeld'
  BY <1>1, <1>4 DEF ClockHeld
<1>8. TimeGranted'
  BY <1>1, <1>4 DEF IInv, HeldInv, TimeGranted, Granted, times, history
<1> QED
  BY <1>4, <1>5, <1>6, <1>7, <1>8 DEF IInv, HeldInv

\* The message that ForwardUp takes, when it is not fatal, was sent, and its
\* header is a stamp.
LEMMA ForwardedMessage ==
  ASSUME IInv, ForwardFault = "none"
  PROVE  /\ Message \in Messages /\ Header \in Int
         /\ Tail(messageQueue) \in Seq(1..Len(sent))
         /\ Tail(messageQueue) \in Seq(Messages)
<1>1. messageQueue # <<>> /\ Header # BadHeader
  BY DEF ForwardFault
<1>2. /\ messageQueue \in Seq(1..Len(sent)) /\ messageQueue \in Seq(Messages)
      /\ sent \in Seq(Headers)
  BY DEF IInv, TypeOK, HeldInv, MessagesSent
<1>3. /\ Message \in 1..Len(sent) /\ Message \in Messages
      /\ Tail(messageQueue) \in Seq(1..Len(sent))
      /\ Tail(messageQueue) \in Seq(Messages)
  BY <1>1, <1>2, HeadTailProperties DEF Message
<1>4. Header \in Headers
  BY <1>2, <1>3, ElementOfSeq DEF Header
<1> QED
  BY <1>1, <1>3, <1>4, HeadersAssumption DEF Headers

\* An event that calls ForwardUp is one of the current time, and Connect has
\* happened.
LEMMA ForwardEvent ==
  ASSUME IInv, NEW e \in events, Runs(e, "ForwardUp")
  PROVE  /\ main = "run" /\ IsNext(e, events) /\ e.fn = "ForwardUp"
         /\ e.ts = now /\ now \in Nat
         /\ \A f \in events : EventOK(f, now)
         /\ state # "CREATED"
<1>1. main = "run" /\ IsNext(e, events) /\ e.fn = "ForwardUp"
  BY DEF Runs
<1>2. /\ e.ts \in Nat /\ (e.fn \in CurrentFns => e.ts = now)
      /\ \A f \in events : EventOK(f, e.ts)
  BY <1>1, NextEvent
<1>3. e.ts = now
  BY <1>1, <1>2 DEF CurrentFns, GatewayFns
<1>4. state # "CREATED"
  BY <1>1 DEF IInv, HeldInv, NothingBeforeConnect, UserFns
<1> QED
  BY <1>1, <1>2, <1>3, <1>4

LEMMA ForwardTerminateStep ==
  ASSUME IInv, NEW e \in events, ForwardTerminate(e)
  PROVE  IInv'
<1>1. /\ Return(e.ts, events \ {e}, <<>>)
      /\ ForwardFault = "none" /\ Runs(e, "ForwardUp")
      /\ stopped' = TRUE /\ messageQueue' = Tail(messageQueue)
      /\ UNCHANGED <<main, fault, state, times, waiting, messageBuffer, thread,
                     socket, server, responses, history>>
  BY DEF ForwardTerminate
<1>2. /\ main = "run" /\ IsNext(e, events) /\ e.fn = "ForwardUp"
      /\ e.ts = now /\ now \in Nat
      /\ \A f \in events : EventOK(f, now)
      /\ state # "CREATED"
  BY <1>1, ForwardEvent
<1>3. /\ now' = now
      /\ events' \in SUBSET Events(Fns, Args)
      /\ Numbered(events')
      /\ withContext' = <<>>
      /\ \A f \in events' : EventOK(f, now)
      /\ events \ {e} \subseteq events'
  BY <1>1, <1>2, ReturnNothing
<1>4. messageQueue' \in Seq(1..Len(sent)) /\ messageQueue' \in Seq(Messages)
  BY <1>1, ForwardedMessage
<1>5. TypeOK'
  <2>1. SimulatorTypes /\ MemberTypes /\ ConnectionTypes
    BY TypeParts DEF IInv
  <2>2. SimulatorTypes'
    BY <1>1, <1>2, <1>3, <2>1 DEF SimulatorTypes
  <2>3. MemberTypes'
    BY <1>1, <1>4, <2>1 DEF MemberTypes, times, waiting
  <2>4. ConnectionTypes'
    BY <1>1, <2>1, ConnectionKept
  <2> QED
    BY <2>2, <2>3, <2>4, TypePartsAfter
<1>6. EventsOK' /\ MessagesSent' /\ NothingBeforeConnect' /\ StopSetsState'
  BY <1>1, <1>2, <1>3, <1>4
  DEF IInv, HeldInv, EventsOK, MessagesSent, NothingBeforeConnect, StopSetsState,
      server
<1>7. ClockHeld'
  <2>1. e.fn # "WaitForNextUpdate" /\ e.fn # "HandleUpdate"
    BY <1>2
  <2> QED
    BY <1>1, <1>3, <2>1 DEF IInv, HeldInv, ClockHeld, times
<1>8. TimeGranted'
  BY <1>1, <1>3 DEF IInv, HeldInv, TimeGranted, Granted, times, history
<1> QED
  BY <1>3, <1>5, <1>6, <1>7, <1>8 DEF IInv, HeldInv

LEMMA ForwardFirstStep ==
  ASSUME IInv, NEW e \in events, ForwardFirst(e)
  PROVE  IInv'
<1>1. /\ Return(e.ts, events \ {e}, <<Entry(e.ts, "DoInitialize", Message)>>)
      /\ ForwardFault = "none" /\ Runs(e, "ForwardUp")
      /\ timeStart' = Header /\ messageQueue' = Tail(messageQueue)
      /\ UNCHANGED <<stopped, main, fault, state, timePause, waiting, messageBuffer,
                     thread, socket, server, responses, history>>
  BY DEF ForwardFirst
<1>2. /\ main = "run" /\ IsNext(e, events) /\ e.fn = "ForwardUp"
      /\ e.ts = now /\ now \in Nat
      /\ \A f \in events : EventOK(f, now)
      /\ state # "CREATED"
  BY <1>1, ForwardEvent
<1>3. /\ messageQueue' \in Seq(1..Len(sent)) /\ messageQueue' \in Seq(Messages)
      /\ Message \in Messages /\ Header \in Int
  BY <1>1, ForwardedMessage
<1>4. /\ now' = now
      /\ events' \in SUBSET Events(Fns, Args)
      /\ Numbered(events')
      /\ withContext' = <<>>
      /\ \A f \in events' : EventOK(f, now)
      /\ events \ {e} \subseteq events'
  <2>1. "DoInitialize" \in Fns /\ Message \in Args
    BY <1>3 DEF Fns, GatewayFns, Args
  <2>2. EventOK(Entry(now, "DoInitialize", Message), now)
    BY <1>2, <1>3 DEF EventOK, Entry
  <2>3. Return(now, events \ {e}, <<Entry(now, "DoInitialize", Message)>>)
    BY <1>1, <1>2
  <2> DEFINE fn == "DoInitialize"
  <2> HIDE DEF fn
  <2>4. /\ fn \in Fns /\ EventOK(Entry(now, fn, Message), now)
        /\ Return(now, events \ {e}, <<Entry(now, fn, Message)>>)
    BY <2>1, <2>2, <2>3 DEF fn
  <2> QED
    BY <1>2, <2>1, <2>4, ReturnOne
<1>5. TypeOK'
  <2>1. SimulatorTypes /\ MemberTypes /\ ConnectionTypes
    BY TypeParts DEF IInv
  <2>2. SimulatorTypes'
    BY <1>1, <1>2, <1>4, <2>1 DEF SimulatorTypes
  <2>3. MemberTypes'
    BY <1>1, <1>3, <2>1 DEF MemberTypes, waiting
  <2>4. ConnectionTypes'
    BY <1>1, <2>1, ConnectionKept
  <2> QED
    BY <2>2, <2>3, <2>4, TypePartsAfter
<1>6. EventsOK' /\ MessagesSent' /\ NothingBeforeConnect' /\ StopSetsState'
  BY <1>1, <1>2, <1>3, <1>4
  DEF IInv, HeldInv, EventsOK, MessagesSent, NothingBeforeConnect, StopSetsState,
      server
<1>7. ClockHeld'
  <2>1. e.fn # "WaitForNextUpdate" /\ e.fn # "HandleUpdate"
    BY <1>2
  <2> QED
    BY <1>1, <1>4, <2>1 DEF IInv, HeldInv, ClockHeld
<1>8. TimeGranted'
  BY <1>1, <1>4 DEF IInv, HeldInv, TimeGranted, Granted, history
<1> QED
  BY <1>4, <1>5, <1>6, <1>7, <1>8 DEF IInv, HeldInv

\* The time that an accepted stamp stands for is not in the past.
LEMMA AcceptedPause ==
  ASSUME IInv, ForwardFault = "none", Header >= 0, timeStart >= 0
  PROVE  PauseFor(Header) \in Nat /\ PauseFor(Header) >= now
<1>1. Header \in Int /\ timeStart \in Int /\ now \in Nat
  BY ForwardedMessage DEF IInv, TypeOK
<1>2. PauseFor(Header) \in Int
  BY <1>1 DEF PauseFor
<1>3. ~IsLate(PauseFor(Header))
  BY DEF ForwardFault
<1> QED
  BY <1>1, <1>2, <1>3 DEF IsLate

LEMMA ForwardUpdateStep ==
  ASSUME IInv, NEW e \in events, ForwardUpdate(e)
  PROVE  IInv'
<1> DEFINE pause == PauseFor(Header)
<1> HIDE DEF pause
<1>1. /\ Return(e.ts, WithoutWait \ {e}, <<Entry(pause, "HandleUpdate", Message)>>)
      /\ ForwardFault = "none" /\ Runs(e, "ForwardUp")
      /\ Header >= 0 /\ timeStart >= 0
      /\ timePause' = pause /\ messageQueue' = Tail(messageQueue)
      /\ eventWait' = NoEvent
      /\ UNCHANGED <<stopped, main, fault, state, timeStart, eventDestroy,
                     messageBuffer, thread, socket, server, responses, history>>
  BY DEF ForwardUpdate, pause
<1>2. /\ main = "run" /\ IsNext(e, events) /\ e.fn = "ForwardUp"
      /\ e.ts = now /\ now \in Nat
      /\ \A f \in events : EventOK(f, now)
      /\ state # "CREATED"
  BY <1>1, ForwardEvent
<1>3. /\ messageQueue' \in Seq(1..Len(sent)) /\ messageQueue' \in Seq(Messages)
      /\ Message \in Messages
      /\ pause \in Nat /\ pause >= now
  BY <1>1, ForwardedMessage, AcceptedPause DEF pause
<1>4. /\ now' = now
      /\ events' \in SUBSET Events(Fns, Args)
      /\ Numbered(events')
      /\ withContext' = <<>>
      /\ \A f \in events' : EventOK(f, now)
      /\ \E f \in events' : f.fn = "HandleUpdate" /\ f.ts = pause
  <2> DEFINE fn == "HandleUpdate"
             pending == WithoutWait \ {e}
  <2>1. fn \in Fns /\ Message \in Args
    BY <1>3 DEF Fns, GatewayFns, Args
  <2>2. EventOK(Entry(pause, fn, Message), now)
    BY <1>2, <1>3 DEF EventOK, Entry, CurrentFns, GatewayFns
  <2>3. Return(now, pending, <<Entry(pause, fn, Message)>>)
    BY <1>1, <1>2
  <2>4. pending \in SUBSET events
    BY DEF WithoutWait, Cancel
  <2>5. fn = "HandleUpdate"
    OBVIOUS
  <2> HIDE DEF fn, pending
  <2>6. /\ now' = now
        /\ events' \in SUBSET Events(Fns, Args)
        /\ Numbered(events')
        /\ withContext' = <<>>
        /\ \A f \in events' : EventOK(f, now)
        /\ \E f \in events' : f.fn = fn /\ f.ts = pause
    <3>1. /\ now \in Nat /\ pause \in Nat
          /\ \A f \in events : EventOK(f, now)
      BY <1>2, <1>3
    <3> QED
      BY <2>1, <2>2, <2>3, <2>4, <3>1, ReturnOne
  <2> QED
    BY <2>5, <2>6
<1>5. TypeOK'
  <2>1. SimulatorTypes /\ MemberTypes /\ ConnectionTypes
    BY TypeParts DEF IInv
  <2>2. SimulatorTypes'
    BY <1>1, <1>2, <1>4, <2>1 DEF SimulatorTypes
  <2>3. MemberTypes'
    BY <1>1, <1>3, <2>1 DEF MemberTypes, NoEvent
  <2>4. ConnectionTypes'
    BY <1>1, <2>1, ConnectionKept
  <2> QED
    BY <2>2, <2>3, <2>4, TypePartsAfter
<1>6. EventsOK' /\ MessagesSent' /\ NothingBeforeConnect' /\ StopSetsState'
  BY <1>1, <1>2, <1>3, <1>4
  DEF IInv, HeldInv, EventsOK, MessagesSent, NothingBeforeConnect, StopSetsState,
      server
<1>7. ClockHeld'
  BY <1>1, <1>4 DEF ClockHeld
<1>8. TimeGranted'
  BY <1>1, <1>2, <1>3, <1>4 DEF IInv, TypeOK, TimeGranted, Granted, history
<1> QED
  BY <1>4, <1>5, <1>6, <1>7, <1>8 DEF IInv, HeldInv

\* A callback leaves what it records well-typed.
LEMMA DeliverType ==
  ASSUME IInv, NEW e \in Events(Fns, Args), e.msg \in Messages, Deliver(e)
  PROVE  /\ delivered' \in Seq([msg : Messages, at : Nat])
         /\ responses' \in Nat
<1>1. [msg |-> e.msg, at |-> e.ts] \in [msg : Messages, at : Nat]
  BY DEF Events
<1>2. delivered \in Seq([msg : Messages, at : Nat]) /\ responses \in Nat
  BY DEF IInv, TypeOK
<1>3. delivered' \in Seq([msg : Messages, at : Nat])
  BY <1>1, <1>2, AppendProperties DEF Deliver
<1>4. responses' \in Nat
  BY <1>2 DEF Deliver
<1> QED
  BY <1>3, <1>4

LEMMA DoInitializeStep ==
  ASSUME IInv, NEW e \in events, DoInitialize(e)
  PROVE  IInv'
<1>1. /\ main = "run" /\ IsNext(e, events) /\ e.fn = "DoInitialize"
      /\ Return(e.ts, events \ {e}, <<>>)
      /\ Deliver(e)
      /\ UNCHANGED <<stopped, main, fault, state, times, waiting, received, socket,
                     server, connectedAt>>
  BY DEF DoInitialize, Runs
<1>2. /\ e.ts = now /\ now \in Nat /\ e.msg \in Messages
      /\ e \in Events(Fns, Args)
      /\ \A f \in events : EventOK(f, now)
  <2>1. /\ e.ts \in Nat /\ (e.fn \in CurrentFns => e.ts = now)
        /\ (e.fn \in CallbackFns => e.msg \in Messages)
        /\ e \in Events(Fns, Args)
        /\ \A f \in events : EventOK(f, e.ts)
    BY <1>1, NextEvent
  <2> QED
    BY <1>1, <2>1 DEF CurrentFns, GatewayFns, CallbackFns
<1>3. state # "CREATED"
  BY <1>1 DEF IInv, HeldInv, NothingBeforeConnect, UserFns
<1>4. /\ now' = now
      /\ events' \in SUBSET Events(Fns, Args)
      /\ Numbered(events')
      /\ withContext' = <<>>
      /\ \A f \in events' : EventOK(f, now)
      /\ events \ {e} \subseteq events'
  BY <1>1, <1>2, ReturnNothing
<1>5. TypeOK'
  <2>1. events' \in SUBSET Events(UserFns \cup GatewayFns, {NoMessage} \cup Messages)
    BY <1>4 DEF Fns, Args
  <2>2. withContext' \in Seq({"ForwardUp", "Stop"})
    BY <1>4
  <2>3. delivered' \in Seq([msg : Messages, at : Nat]) /\ responses' \in Nat
    BY <1>1, <1>2, DeliverType
  <2> QED
    BY <1>1, <1>4, <2>1, <2>2, <2>3
    DEF IInv, TypeOK, times, waiting, received, server
<1>6. EventsOK' /\ MessagesSent' /\ NothingBeforeConnect' /\ StopSetsState'
  BY <1>1, <1>3, <1>4
  DEF IInv, HeldInv, EventsOK, MessagesSent, NothingBeforeConnect, StopSetsState,
      received, server
<1>7. ClockHeld'
  <2>1. e.fn # "WaitForNextUpdate" /\ e.fn # "HandleUpdate"
    BY <1>1
  <2> QED
    BY <1>1, <1>4, <2>1 DEF IInv, HeldInv, ClockHeld, times
<1>8. TimeGranted'
  BY <1>1, <1>4 DEF IInv, HeldInv, TimeGranted, Granted, times
<1> QED
  BY <1>4, <1>5, <1>6, <1>7, <1>8 DEF IInv, HeldInv

LEMMA HandleUpdateStep ==
  ASSUME IInv, NEW e \in events, HandleUpdate(e)
  PROVE  IInv'
<1>1. /\ main = "run" /\ IsNext(e, events) /\ e.fn = "HandleUpdate"
      /\ Deliver(e)
      /\ UNCHANGED <<stopped, main, fault, state, times, eventDestroy, received,
                     socket, server, connectedAt>>
  BY DEF HandleUpdate, Runs
<1>2. /\ e.ts \in Nat /\ e.msg \in Messages
      /\ e \in Events(Fns, Args)
      /\ \A f \in events : EventOK(f, e.ts)
  <2>1. /\ e.ts \in Nat /\ (e.fn \in CallbackFns => e.msg \in Messages)
        /\ e \in Events(Fns, Args)
        /\ \A f \in events : EventOK(f, e.ts)
    BY <1>1, NextEvent
  <2> QED
    BY <1>1, <2>1 DEF CallbackFns
<1>3. state # "CREATED"
  BY <1>1 DEF IInv, HeldInv, NothingBeforeConnect, UserFns
<1>4. /\ now' = e.ts
      /\ events' \in SUBSET Events(Fns, Args)
      /\ Numbered(events')
      /\ withContext' = <<>>
      /\ \A f \in events' : EventOK(f, e.ts)
      /\ eventWait' \in Nat
      /\ \/ \E f \in events' : f.fn = "WaitForNextUpdate"
         \/ events \ {e} \subseteq events' /\ e.ts # timePause
  <2>1. CASE PausesAt(e.ts)
    <3>1. /\ Return(e.ts, events \ {e},
                    <<Entry(e.ts, "WaitForNextUpdate", NoMessage)>>)
          /\ eventWait' = NewUid(events \ {e})
      BY <2>1 DEF HandleUpdate
    <3> QED
      BY <1>2, <3>1, ReturnWait
  <2>2. CASE ~PausesAt(e.ts)
    <3>1. Return(e.ts, events \ {e}, <<>>) /\ eventWait' = eventWait
      BY <2>2 DEF HandleUpdate
    <3>2. eventWait \in Nat /\ e.ts # timePause
      BY <2>2 DEF IInv, TypeOK, PausesAt
    <3> QED
      BY <1>2, <3>1, <3>2, ReturnNothing
  <2> QED
    BY <2>1, <2>2
<1>5. TypeOK'
  <2>1. events' \in SUBSET Events(UserFns \cup GatewayFns, {NoMessage} \cup Messages)
    BY <1>4 DEF Fns, Args
  <2>2. withContext' \in Seq({"ForwardUp", "Stop"})
    BY <1>4
  <2>3. delivered' \in Seq([msg : Messages, at : Nat]) /\ responses' \in Nat
    BY <1>1, <1>2, DeliverType
  <2> QED
    BY <1>1, <1>2, <1>4, <2>1, <2>2, <2>3 DEF IInv, TypeOK, times, received, server
<1>6. EventsOK' /\ MessagesSent' /\ NothingBeforeConnect' /\ StopSetsState'
  BY <1>1, <1>3, <1>4
  DEF IInv, HeldInv, EventsOK, MessagesSent, NothingBeforeConnect, StopSetsState,
      received, server
<1>7. ClockHeld'
  <2> SUFFICES ASSUME state = "CONNECTED", events \ {e} \subseteq events',
                      e.ts # timePause
               PROVE  ClockHeld'
    BY <1>1, <1>4 DEF ClockHeld
  <2>1. PICK f \in events :
          f.fn = "WaitForNextUpdate" \/ (f.fn = "HandleUpdate" /\ f.ts = timePause)
    BY <1>1 DEF IInv, HeldInv, ClockHeld
  <2>2. f # e
    BY <1>1, <2>1
  <2> QED
    BY <1>1, <2>1, <2>2 DEF ClockHeld, times
<1>8. TimeGranted'
  <2>1. state = "CONNECTED" => e.ts <= Granted
    BY <1>1, ClockStops
  <2> QED
    BY <1>1, <1>4, <2>1 DEF TimeGranted, Granted, times
<1> QED
  BY <1>4, <1>5, <1>6, <1>7, <1>8 DEF IInv, HeldInv

LEMMA StopBeginStep ==
  ASSUME IInv, NEW e \in events, StopBegin(e)
  PROVE  IInv'
<1>1. /\ main = "run" /\ IsNext(e, events) /\ e.fn = "Stop"
      /\ now' = e.ts /\ events' = events \ {e}
      /\ state' = "STOPPING" /\ main' = "stopping"
      /\ UNCHANGED <<withContext, stopped, fault, times, waiting, received, socket,
                     server, responses, history>>
  BY DEF StopBegin, Runs
<1>2. /\ e.ts \in Nat
      /\ \A f \in events : EventOK(f, e.ts)
  BY <1>1, NextEvent
<1>3. events' \in SUBSET Events(Fns, Args) /\ Numbered(events')
  BY <1>1, FewerEvents DEF IInv, TypeOK, Fns, Args
<1>4. TypeOK'
  BY <1>1, <1>2, <1>3
  DEF IInv, TypeOK, Fns, Args, times, waiting, received, server, history
<1>5. HeldInv'
  BY <1>1, <1>2
  DEF IInv, HeldInv, EventsOK, MessagesSent, NothingBeforeConnect, StopSetsState,
      ClockHeld, TimeGranted, received, server
<1> QED
  BY <1>3, <1>4, <1>5 DEF IInv

LEMMA StopEndStep ==
  ASSUME IInv, StopEnd
  PROVE  IInv'
<1>1. /\ Return(now, Cancel(events, eventWait), <<>>)
      /\ main' \in {"run", "done"} /\ socket' = "closed"
      /\ eventWait' = NoEvent /\ eventDestroy' = FALSE
      /\ thread' \in {thread, "joined"}
      /\ UNCHANGED <<stopped, fault, state, times, messageQueue, messageBuffer,
                     server, responses, history>>
  BY DEF StopEnd
<1>2. state = "STOPPING"
  BY DEF StopEnd, IInv, HeldInv, StopSetsState
<1>3. /\ now' = now
      /\ events' \in SUBSET Events(Fns, Args)
      /\ Numbered(events')
      /\ withContext' = <<>>
      /\ \A f \in events' : EventOK(f, now)
  <2>1. now \in Nat /\ \A f \in events : EventOK(f, now)
    BY DEF IInv, TypeOK, HeldInv, EventsOK
  <2>2. Cancel(events, eventWait) \in SUBSET events
    BY DEF Cancel
  <2> QED
    BY <1>1, <2>1, <2>2, ReturnNothing
<1>4. TypeOK'
  <2>1. events' \in SUBSET Events(UserFns \cup GatewayFns, {NoMessage} \cup Messages)
    BY <1>3 DEF Fns, Args
  <2>2. withContext' \in Seq({"ForwardUp", "Stop"})
    BY <1>3
  <2>3. eventWait' \in Nat
    BY <1>1 DEF NoEvent
  <2> QED
    BY <1>1, <1>3, <2>1, <2>2, <2>3 DEF IInv, TypeOK, times, received, server, history
<1>5. HeldInv'
  BY <1>1, <1>2, <1>3
  DEF IInv, HeldInv, EventsOK, MessagesSent, NothingBeforeConnect, StopSetsState,
      ClockHeld, TimeGranted, received, server
<1> QED
  BY <1>3, <1>4, <1>5 DEF IInv

LEMMA ReturnsStep ==
  ASSUME IInv, RunReturns \/ Destroy
  PROVE  IInv'
<1>1. /\ UNCHANGED <<now, events, withContext, stopped, fault, times, eventWait,
                     received, socket, server, responses, history>>
      /\ \/ main' = "destroy" /\ UNCHANGED <<state, eventDestroy>>
         \/ /\ main' = "destroying" /\ state' = "STOPPING" /\ eventDestroy
            /\ eventDestroy' = FALSE
         \/ main' = "done" /\ UNCHANGED state /\ eventDestroy' = FALSE
  BY DEF RunReturns, Destroy, waiting
<1>2. TypeOK'
  BY <1>1 DEF IInv, TypeOK, times, received, server, history
<1>3. HeldInv'
  BY <1>1
  DEF IInv, HeldInv, EventsOK, MessagesSent, NothingBeforeConnect, StopSetsState,
      ClockHeld, TimeGranted, Granted, times, received, server, history
<1> QED
  BY <1>1, <1>2, <1>3 DEF IInv

LEMMA AbortStep ==
  ASSUME IInv, NEW e \in events, ConnectFails(e) \/ ForwardUpFails(e) \/ CallbackFails(e)
  PROVE  IInv'
<1>1. PICK reason \in Faults : Abort(reason)
  BY DEF ConnectFails, ForwardUpFails, CallbackFails, ForwardFault, ResponseFaults,
         Faults
<1>2. UNCHANGED <<now, events, withContext, stopped, main, state, timeStart, timePause,
                  eventWait, eventDestroy, messageQueue, messageBuffer, thread, sent,
                  stream, conn, connectedAt, delivered, socket, responses>>
      /\ fault' \in Faults
  BY <1>1 DEF Abort, simulator, times, waiting, received, server, history
<1>3. TypeOK'
  <2>1. SimulatorTypes /\ MemberTypes /\ ConnectionTypes
    BY TypeParts DEF IInv
  <2>2. SimulatorTypes'
    BY <1>2, <2>1 DEF SimulatorTypes
  <2>3. MemberTypes'
    BY <1>1, <2>1, MembersKept DEF Abort
  <2>4. ConnectionTypes'
    BY <1>1, <2>1, ConnectionKept DEF Abort
  <2> QED
    BY <2>2, <2>3, <2>4, TypePartsAfter
<1>4. HeldInv'
  BY <1>2
  DEF IInv, HeldInv, EventsOK, MessagesSent, NothingBeforeConnect, StopSetsState,
      ClockHeld, TimeGranted, Granted
<1> QED
  BY <1>2, <1>3, <1>4 DEF IInv

-----------------------------------------------------------------------------
(* The other thread and the server.                                        *)

LEMMA ThreadStep ==
  ASSUME IInv, Thread \/ ThreadRecvFails
  PROVE  IInv'
<1>1. /\ UNCHANGED <<now, events, stopped, main, fault, state, timeStart, timePause,
                     eventWait, eventDestroy, socket, sent, conn, responses,
                     connectedAt, delivered>>
      /\ thread # "none"
      /\ thread' \in {"check", "read", "schedule", "hangup", "exited"}
  BY DEF IInv, TypeOK, Thread, ThreadCheck, ThreadRecv, ThreadHangup, ThreadRecvFails,
         AfterTheEnd, ThreadPush, ThreadForward, ThreadScheduleStop, At, ThreadFrame, times,
         waiting, history
<1>2. withContext' \in Seq({"ForwardUp", "Stop"})
  <2>1. withContext \in Seq({"ForwardUp", "Stop"})
    BY DEF IInv, TypeOK
  <2>2. CASE ThreadForward \/ ThreadScheduleStop
    BY <2>1, <2>2, AppendProperties DEF ThreadForward, ThreadScheduleStop, AskedToStop
  <2>3. CASE ThreadCheck \/ ThreadRecv \/ ThreadHangup \/ ThreadRecvFails \/ ThreadPush
    BY <2>1, <2>3
    DEF ThreadCheck, ThreadRecv, ThreadHangup, ThreadRecvFails, ThreadPush
  <2> QED
    BY <2>2, <2>3 DEF Thread
<1>3. ASSUME NEW S, messageQueue \in Seq(S), messageBuffer \in Seq(S), stream \in Seq(S)
      PROVE  messageQueue' \in Seq(S) /\ messageBuffer' \in Seq(S) /\ stream' \in Seq(S)
  <2>1. CASE ThreadRecv
    <3>1. PICK k \in 1..Len(stream) :
            /\ messageBuffer' = SubSeq(stream, 1, k)
            /\ stream' = SubSeq(stream, k + 1, Len(stream))
      BY <2>1 DEF ThreadRecv
    <3>2. SubSeq(stream, 1, k) \in Seq(S) /\ SubSeq(stream, k + 1, Len(stream)) \in Seq(S)
      BY <1>3, ElementOfSeq, SubSeqProperties
    <3> QED
      BY <1>3, <2>1, <3>1, <3>2 DEF ThreadRecv
  <2>2. CASE ThreadPush
    <3>1. Head(messageBuffer) \in S /\ Tail(messageBuffer) \in Seq(S)
      BY <1>3, <2>2, HeadTailProperties DEF ThreadPush
    <3> QED
      BY <1>3, <2>2, <3>1, AppendProperties DEF ThreadPush, Pushed
  <2>3. CASE ThreadCheck \/ ThreadHangup \/ ThreadRecvFails \/ ThreadForward
             \/ ThreadScheduleStop
    BY <1>3, <2>3
    DEF ThreadCheck, ThreadHangup, ThreadRecvFails, ThreadForward, ThreadScheduleStop
  <2> QED
    BY <2>1, <2>2, <2>3 DEF Thread
<1>4. TypeOK'
  <2>1. messageQueue' \in Seq(Messages) /\ messageBuffer' \in Seq(Messages)
        /\ stream' \in Seq(Messages)
    BY <1>3 DEF IInv, TypeOK
  <2>2. SimulatorTypes /\ MemberTypes /\ ConnectionTypes
    BY TypeParts DEF IInv
  <2>3. SimulatorTypes'
    BY <1>1, <1>2, <2>2 DEF SimulatorTypes
  <2>4. MemberTypes'
    BY <1>1, <1>2, <2>1, <2>2 DEF MemberTypes
  <2>5. ConnectionTypes'
    BY <1>1, <2>1, <2>2 DEF ConnectionTypes
  <2> QED
    BY <2>3, <2>4, <2>5, TypePartsAfter
<1>5. MessagesSent'
  <2> DEFINE S == 1..Len(sent)
  <2>1. messageQueue \in Seq(S) /\ messageBuffer \in Seq(S) /\ stream \in Seq(S)
    BY DEF IInv, HeldInv, MessagesSent
  <2> HIDE DEF S
  <2>2. messageQueue' \in Seq(S) /\ messageBuffer' \in Seq(S) /\ stream' \in Seq(S)
    BY <1>3, <2>1
  <2> QED
    BY <1>1, <2>2 DEF MessagesSent, S
<1>6. HeldInv'
  BY <1>1, <1>5
  DEF IInv, HeldInv, EventsOK, NothingBeforeConnect, StopSetsState, ClockHeld,
      TimeGranted, Granted
<1> QED
  BY <1>1, <1>4, <1>6 DEF IInv

LEMMA ServerStep ==
  ASSUME IInv, Server
  PROVE  IInv'
<1>1. UNCHANGED <<now, events, withContext, stopped, main, fault, state, timeStart,
                  timePause, eventWait, eventDestroy, messageQueue, messageBuffer,
                  thread, socket, responses, connectedAt, delivered>>
  BY DEF Server, ServerSend, ServerClose, simulator, times, waiting, received, history
<1>2. /\ sent' \in Seq(Headers) /\ Len(sent') <= MaxMessages
      /\ stream' \in Seq(Messages) /\ conn' \in {"none", "open", "closed"}
      /\ MessagesSent'
  <2>1. /\ sent \in Seq(Headers) /\ stream \in Seq(1..Len(sent))
        /\ Len(sent) \in Nat /\ Len(sent) <= MaxMessages /\ MaxMessages \in Nat
        /\ stream \in Seq(Messages) /\ MessagesSent /\ conn \in {"none", "open", "closed"}
    BY MaxMessagesAssumption, LenProperties
    DEF IInv, TypeOK, HeldInv, MessagesSent
  <2>2. CASE ServerClose
    BY <1>1, <2>1, <2>2 DEF ServerClose, MessagesSent
  <2>3. ASSUME NEW h \in Headers, ServerSend(h)
        PROVE  /\ sent' \in Seq(Headers) /\ Len(sent') <= MaxMessages
               /\ stream' \in Seq(Messages) /\ conn' \in {"none", "open", "closed"}
               /\ MessagesSent'
    <3>1. /\ sent' = Append(sent, h) /\ stream' = Append(stream, Len(sent) + 1)
          /\ Len(sent) < MaxMessages /\ conn' = conn
      BY <2>3 DEF ServerSend
    <3>2. sent' \in Seq(Headers) /\ Len(sent') = Len(sent) + 1
      BY <2>1, <3>1, AppendProperties
    <3>3. Len(sent) + 1 \in Messages /\ Len(sent) + 1 \in 1..Len(sent')
      BY <2>1, <3>1, <3>2 DEF Messages
    <3>4. Seq(1..Len(sent)) \subseteq Seq(1..Len(sent'))
      BY <2>1, <3>2, SeqMonotonic
    <3>5. stream' \in Seq(Messages) /\ stream' \in Seq(1..Len(sent'))
      BY <2>1, <3>1, <3>3, <3>4, AppendProperties
    <3>6. MessagesSent'
      BY <1>1, <2>1, <3>4, <3>5 DEF MessagesSent
    <3> QED
      BY <2>1, <3>1, <3>2, <3>5, <3>6
  <2> QED
    BY <2>2, <2>3 DEF Server
<1>3. TypeOK'
  <2>1. SimulatorTypes /\ MemberTypes /\ ConnectionTypes
    BY TypeParts DEF IInv
  <2>2. SimulatorTypes'
    BY <1>1, <2>1 DEF SimulatorTypes
  <2>3. MemberTypes'
    BY <1>1, <2>1 DEF MemberTypes
  <2>4. ConnectionTypes'
    BY <1>1, <1>2, <2>1 DEF ConnectionTypes
  <2> QED
    BY <2>2, <2>3, <2>4, TypePartsAfter
<1>4. HeldInv'
  BY <1>1, <1>2
  DEF IInv, HeldInv, EventsOK, NothingBeforeConnect, StopSetsState, ClockHeld,
      TimeGranted, Granted
<1> QED
  BY <1>1, <1>3, <1>4 DEF IInv

-----------------------------------------------------------------------------
(* The invariants.                                                         *)

LEMMA IInvInit == Init => IInv
<1> SUFFICES ASSUME Init PROVE IInv
  OBVIOUS
<1>1. PICK program \in Programs : events = Schedule({}, program)
  BY DEF Init
<1>2. /\ events \in SUBSET Events(UserFns, {NoMessage})
      /\ Numbered(events)
  <2>1. program \in Entries(UserFns, {NoMessage})
    BY ProgramsAssumption DEF Entries
  <2>2. {} \in SUBSET Events(UserFns, {NoMessage}) /\ Numbered({})
    BY DEF Numbered
  <2> QED
    BY <1>1, <2>1, <2>2, ScheduleAdds
<1>3. \A e \in events :
        e \in Events(Fns, Args) /\ e.fn \in UserFns /\ e.ts \in Nat
  BY <1>2 DEF Events, Fns, Args
<1>4. TypeOK
  <2>1. events \subseteq Events(UserFns \cup GatewayFns, {NoMessage} \cup Messages)
    BY <1>3 DEF Fns, Args
  <2>2. MaxMessages \in Nat
    BY MaxMessagesAssumption
  <2>3. /\ withContext = <<>> /\ messageQueue = <<>> /\ messageBuffer = <<>>
        /\ sent = <<>> /\ stream = <<>> /\ delivered = <<>>
    BY DEF Init
  <2>4. /\ withContext \in Seq({"ForwardUp", "Stop"})
        /\ messageQueue \in Seq(Messages) /\ messageBuffer \in Seq(Messages)
        /\ sent \in Seq(Headers) /\ Len(sent) = 0 /\ stream \in Seq(Messages)
        /\ delivered \in Seq([msg : Messages, at : Nat])
    BY <2>3, EmptySeq
  <2>5. /\ now = 0 /\ timeStart = -1 /\ timePause = 0 /\ eventWait = 0
        /\ responses = 0 /\ connectedAt = -1 /\ fault = "none"
        /\ stopped = FALSE /\ main = "run" /\ state = "CREATED"
        /\ eventDestroy = FALSE /\ socket = "none" /\ thread = "none"
        /\ conn = "none"
    BY Zenon DEF Init, NoEvent
  <2>6. stopped \in BOOLEAN /\ eventDestroy \in BOOLEAN
    BY <2>5
  <2>7. fault \in Faults
    BY <2>5 DEF Faults
  <2>8. /\ now \in Nat /\ timeStart \in Int /\ timePause \in Int /\ eventWait \in Nat
        /\ responses \in Nat /\ connectedAt \in Int
    BY <2>5
  <2>9. Len(sent) <= MaxMessages
    BY <2>2, <2>4
  <2> QED
    BY <2>1, <2>4, <2>5, <2>6, <2>7, <2>8, <2>9 DEF TypeOK
<1>5. HeldInv
  <2>1. EventsOK
    <3>1. \A e \in events : e.fn \notin CurrentFns /\ e.fn \notin CallbackFns
      BY <1>3 DEF UserFns, CurrentFns, CallbackFns, GatewayFns
    <3>2. now = 0
      BY DEF Init
    <3> QED
      BY <1>3, <3>1, <3>2 DEF EventsOK, EventOK
  <2>2. MessagesSent
    <3>1. messageQueue = <<>> /\ messageBuffer = <<>> /\ stream = <<>>
      BY DEF Init
    <3> QED
      BY <3>1, EmptySeq DEF MessagesSent
  <2>3. NothingBeforeConnect
    BY <1>3 DEF Init, NothingBeforeConnect
  <2> QED
    BY <2>1, <2>2, <2>3
    DEF Init, HeldInv, StopSetsState, ClockHeld, TimeGranted
<1> QED
  BY <1>2, <1>4, <1>5 DEF IInv

LEMMA IInvNext == IInv /\ [Next]_vars => IInv'
<1> SUFFICES ASSUME IInv, [Next]_vars PROVE IInv'
  OBVIOUS
<1>1. ASSUME NEW e \in events,
             \/ Connect(e) \/ ConnectFails(e) \/ Model(e) \/ Finish(e)
             \/ WaitForNextUpdate(e)
             \/ ForwardUpFails(e) \/ ForwardTerminate(e) \/ ForwardFirst(e)
             \/ ForwardUpdate(e)
             \/ DoInitialize(e) \/ HandleUpdate(e) \/ CallbackFails(e)
             \/ StopBegin(e)
      PROVE  IInv'
  BY <1>1, UserStep, ConnectStep, WaitStep, ForwardTerminateStep, ForwardFirstStep,
     ForwardUpdateStep, DoInitializeStep, HandleUpdateStep, StopBeginStep, AbortStep
<1>2. CASE StopEnd \/ RunReturns \/ Destroy
  BY <1>2, StopEndStep, ReturnsStep
<1>3. CASE Thread \/ ThreadRecvFails
  BY <1>3, ThreadStep
<1>4. CASE Server
  BY <1>4, ServerStep
<1>5. CASE UNCHANGED vars
  <2>1. UNCHANGED <<now, events, withContext, stopped, main, fault, state, timeStart,
                    timePause, eventWait, eventDestroy, messageQueue, messageBuffer,
                    thread, sent, stream, conn, connectedAt, delivered, socket,
                    responses>>
    BY <1>5 DEF vars, simulator, times, waiting, received, server, history
  <2>2. TypeOK'
    BY <1>5, TypeParts, TypePartsAfter, SimulatorKept, MembersKept, ConnectionKept
    DEF IInv, vars
  <2>3. HeldInv'
    BY <2>1
    DEF IInv, HeldInv, EventsOK, MessagesSent, NothingBeforeConnect, StopSetsState,
        ClockHeld, TimeGranted, Granted
  <2> QED
    BY <2>1, <2>2, <2>3 DEF IInv
<1> QED
  BY <1>1, <1>2, <1>3, <1>4, <1>5 DEF Next, Main, Terminating

\* The inductive invariant holds of every behaviour.
THEOREM Invariance == Spec => []IInv
BY IInvInit, IInvNext, PTL DEF Spec

\* Every variable of the gateway, its simulator, its thread and its connection
\* keeps its type, for every program and server (gateway.h:206-227).
THEOREM TypeCorrect == Spec => []TypeOK
<1>1. IInv => TypeOK
  BY DEF IInv
<1> QED
  BY <1>1, Invariance, PTL

\* The clock never passes the last granted time while the gateway is connected,
\* whatever the server sends and however the threads interleave (README.md:69-77).
THEOREM ClockIsGranted == Spec => []TimeGranted
<1>1. IInv => TimeGranted
  BY DEF IInv, HeldInv
<1> QED
  BY <1>1, Invariance, PTL

\* The event that makes it so is pending at every moment (gateway.cc:274-287).
THEOREM ClockIsHeld == Spec => []HeldInv
<1>1. IInv => HeldInv
  BY DEF IInv
<1> QED
  BY <1>1, Invariance, PTL

-----------------------------------------------------------------------------
(* The thread is gone when Stop or Destroy is through.                     *)

\* The thread lives from Connect to the join of Stop, and Destroy makes good for
\* a Stop that no event has called.
NoThread == thread \in {"none", "joined"}
ThreadInv ==
  /\ state = "CREATED" => thread = "none" /\ socket = "none"
  /\ state = "CONNECTED" => eventDestroy /\ socket = "open"
  /\ state = "STOPPING" =>
       NoThread \/ (main \in {"stopping", "destroying"} /\ socket = "open")
  /\ main = "done" => NoThread

LEMMA ThreadInit == Init => ThreadInv
BY DEF Init, ThreadInv, NoThread

\* The events of the main thread.
LEMMA ThreadEvent ==
  ASSUME IInv, ThreadInv, NEW e \in events,
         \/ Connect(e) \/ ConnectFails(e) \/ Model(e) \/ Finish(e)
         \/ WaitForNextUpdate(e)
         \/ ForwardUpFails(e) \/ ForwardTerminate(e) \/ ForwardFirst(e)
         \/ ForwardUpdate(e)
         \/ DoInitialize(e) \/ HandleUpdate(e) \/ CallbackFails(e)
         \/ StopBegin(e)
  PROVE  ThreadInv'
<1>1. CASE Connect(e)
  <2>1. /\ state' = "CONNECTED" /\ eventDestroy' /\ socket' = "open"
        /\ main = "run" /\ main' = main
    BY <1>1 DEF Connect, Runs
  <2> QED
    BY <2>1 DEF ThreadInv
<1>2. CASE StopBegin(e)
  <2>1. /\ e.fn = "Stop" /\ state' = "STOPPING" /\ main' = "stopping"
        /\ UNCHANGED <<thread, socket>>
    BY <1>2 DEF StopBegin, Runs, received
  <2>2. state # "CREATED"
    BY <2>1 DEF IInv, HeldInv, NothingBeforeConnect, UserFns
  <2>3. state \in {"CONNECTED", "STOPPING"}
    BY <2>2 DEF IInv, TypeOK
  <2> QED
    BY <2>1, <2>3 DEF ThreadInv, NoThread
<1>3. CASE ~Connect(e) /\ ~StopBegin(e)
  <2>1. UNCHANGED <<state, thread, socket, eventDestroy, main>>
    BY <1>3
    DEF ConnectFails, Model, Finish, WaitForNextUpdate, ForwardUpFails,
        ForwardTerminate, ForwardFirst, ForwardUpdate, DoInitialize, HandleUpdate,
        CallbackFails, Abort, waiting, received, simulator
  <2> QED
    BY <2>1 DEF ThreadInv, NoThread
<1> QED
  BY <1>1, <1>2, <1>3

\* The end of Run, Stop and Destroy.
LEMMA ThreadEnd ==
  ASSUME IInv, ThreadInv, StopEnd \/ RunReturns \/ Destroy
  PROVE  ThreadInv'
<1>1. CASE StopEnd
  <2>1. state = "STOPPING" /\ state' = state /\ NoThread'
    BY <1>1 DEF StopEnd, IInv, HeldInv, StopSetsState, Joined, NoThread
  <2> QED
    BY <2>1 DEF ThreadInv, NoThread
<1>2. CASE RunReturns
  <2>1. /\ main = "run" /\ main' = "destroy"
        /\ UNCHANGED <<state, thread, socket, eventDestroy>>
    BY <1>2 DEF RunReturns, received, waiting
  <2> QED
    BY <2>1 DEF ThreadInv, NoThread
<1>3. CASE Destroy
  <2>1. main = "destroy" /\ UNCHANGED <<thread, socket>>
    BY <1>3 DEF Destroy, received
  <2>2. state \in {"CREATED", "CONNECTED", "STOPPING"}
    BY DEF IInv, TypeOK
  <2>3. CASE eventDestroy
    <3>1. main' = "destroying" /\ state' = "STOPPING"
      BY <1>3, <2>3 DEF Destroy
    <3>2. state # "CREATED"
      BY <2>3 DEF IInv, HeldInv, NothingBeforeConnect
    <3> QED
      BY <2>1, <2>2, <3>1, <3>2 DEF ThreadInv, NoThread
  <2>4. CASE ~eventDestroy
    <3>1. main' = "done" /\ state' = state
      BY <1>3, <2>4 DEF Destroy
    <3>2. NoThread
      BY <2>1, <2>2, <2>4 DEF ThreadInv, NoThread
    <3>3. state # "CONNECTED"
      BY <2>4 DEF ThreadInv
    <3> QED
      BY <2>1, <3>1, <3>2, <3>3 DEF ThreadInv, NoThread
  <2> QED
    BY <2>3, <2>4
<1> QED
  BY <1>1, <1>2, <1>3

LEMMA ThreadNext == IInv /\ ThreadInv /\ [Next]_vars => ThreadInv'
<1> SUFFICES ASSUME IInv, ThreadInv, [Next]_vars PROVE ThreadInv'
  OBVIOUS
<1>1. CASE Main
  BY <1>1, ThreadEvent, ThreadEnd DEF Main
<1>2. CASE Thread \/ ThreadRecvFails
  <2>1. ~NoThread
    BY <1>2
    DEF Thread, ThreadCheck, ThreadRecv, ThreadHangup, ThreadRecvFails, ThreadPush,
        ThreadForward, ThreadScheduleStop, At, NoThread
  <2>2. UNCHANGED <<state, socket, eventDestroy, main>>
    BY <1>2
    DEF Thread, ThreadCheck, ThreadRecv, ThreadHangup, ThreadRecvFails, ThreadPush,
        ThreadForward, ThreadScheduleStop, ThreadFrame, waiting
  <2> QED
    BY <2>1, <2>2 DEF ThreadInv, NoThread
<1>3. CASE Server \/ UNCHANGED vars
  <2>1. UNCHANGED <<state, thread, socket, eventDestroy, main>>
    BY <1>3
    DEF Server, ServerSend, ServerClose, vars, simulator, waiting, received
  <2> QED
    BY <2>1 DEF ThreadInv, NoThread
<1> QED
  BY <1>1, <1>2, <1>3 DEF Next, Terminating

\* No thread is left that could read a closed socket or schedule an event on a
\* destroyed simulator (gateway.cc:185-191, gateway.h:142).
THEOREM ThreadIsGone == Spec => []ThreadGone
<1>1. IInv /\ ThreadInv => ThreadGone
  BY DEF IInv, TypeOK, ThreadInv, ThreadGone, NoThread
<1> QED
  BY <1>1, ThreadInit, ThreadNext, Invariance, PTL DEF Spec

-----------------------------------------------------------------------------
(* The gateway implements the leader-follower scheme.                      *)

\* What an action does to the clock, the state and the times that the grant
\* depends on.
KeepsMode ==
  /\ now' >= now
  /\ state' = state
  /\ UNCHANGED <<timePause, connectedAt>> \/ state = "STOPPING"
StartsToFollow ==
  /\ now' >= now
  /\ state = "CREATED" /\ state' = "CONNECTED"
  /\ timePause' = 0 /\ connectedAt' = now'
IsGranted == now' = now /\ state = "CONNECTED" /\ UNCHANGED <<state, connectedAt>>
IsReleased == now' = now /\ state # "CREATED" /\ state' = "STOPPING"

LEMMA EventShape ==
  ASSUME IInv, NEW e \in events,
         \/ Connect(e) \/ ConnectFails(e) \/ Model(e) \/ Finish(e)
         \/ WaitForNextUpdate(e)
         \/ ForwardUpFails(e) \/ ForwardTerminate(e) \/ ForwardFirst(e)
         \/ ForwardUpdate(e)
         \/ DoInitialize(e) \/ HandleUpdate(e) \/ CallbackFails(e)
         \/ StopBegin(e)
  PROVE  KeepsMode \/ StartsToFollow \/ IsGranted \/ IsReleased
<1>1. ASSUME IsNext(e, events)
      PROVE  /\ e.ts >= now
             /\ e.fn \in CurrentFns => e.ts = now
             /\ e.fn \notin UserFns => state # "CREATED"
  <2>1. e.ts >= now /\ (e.fn \in CurrentFns => e.ts = now)
    BY <1>1, NextEvent
  <2>2. e.fn \notin UserFns => state # "CREATED"
    BY DEF IInv, HeldInv, NothingBeforeConnect
  <2> QED
    BY <2>1, <2>2
<1>2. CASE Connect(e)
  <2>1. /\ IsNext(e, events) /\ now' = e.ts
        /\ state = "CREATED" /\ state' = "CONNECTED"
        /\ timePause' = timePause /\ connectedAt' = e.ts
    BY <1>2 DEF Connect, Runs, Return, times
  <2>2. timePause = 0
    BY <2>1 DEF IInv, HeldInv, NothingBeforeConnect
  <2> QED
    BY <1>1, <2>1, <2>2 DEF StartsToFollow
<1>3. CASE Model(e) \/ Finish(e) \/ WaitForNextUpdate(e) \/ ForwardTerminate(e)
           \/ ForwardFirst(e) \/ DoInitialize(e) \/ HandleUpdate(e)
  <2>1. /\ IsNext(e, events) /\ now' = e.ts
        /\ UNCHANGED <<state, timePause, connectedAt>>
    BY <1>3
    DEF Model, Finish, WaitForNextUpdate, ForwardTerminate, ForwardFirst,
        DoInitialize, HandleUpdate, Runs, Return, times, history
  <2> QED
    BY <1>1, <2>1 DEF KeepsMode
<1>4. CASE ForwardUpdate(e)
  <2>1. /\ IsNext(e, events) /\ e.fn = "ForwardUp" /\ now' = e.ts
        /\ UNCHANGED <<state, connectedAt>>
    BY <1>4 DEF ForwardUpdate, Runs, Return, history
  <2>2. now' = now /\ state \in {"CONNECTED", "STOPPING"} /\ now \in Nat
    BY <1>1, <2>1 DEF CurrentFns, GatewayFns, UserFns, IInv, TypeOK
  <2> QED
    BY <2>1, <2>2 DEF IsGranted, KeepsMode
<1>5. CASE StopBegin(e)
  <2>1. /\ IsNext(e, events) /\ e.fn = "Stop" /\ now' = e.ts /\ state' = "STOPPING"
    BY <1>5 DEF StopBegin, Runs
  <2> QED
    BY <1>1, <2>1 DEF CurrentFns, GatewayFns, UserFns, IsReleased
<1>6. CASE ConnectFails(e) \/ ForwardUpFails(e) \/ CallbackFails(e)
  <2>1. UNCHANGED <<now, state, timePause, connectedAt>> /\ now \in Nat
    BY <1>6
    DEF ConnectFails, ForwardUpFails, CallbackFails, Abort, simulator, times, history,
        IInv, TypeOK
  <2> QED
    BY <2>1 DEF KeepsMode
<1> QED
  BY <1>2, <1>3, <1>4, <1>5, <1>6

LEMMA StepShape ==
  ASSUME IInv, [Next]_vars
  PROVE  KeepsMode \/ StartsToFollow \/ IsGranted \/ IsReleased
<1>1. now \in Nat
  BY DEF IInv, TypeOK
<1>2. CASE StopEnd \/ RunReturns \/ Thread \/ ThreadRecvFails \/ Server \/ UNCHANGED vars
  <2>1. UNCHANGED <<now, state, timePause, connectedAt>>
    BY <1>2
    DEF StopEnd, Return, RunReturns, Thread, ThreadCheck, ThreadRecv, ThreadHangup,
        ThreadRecvFails, ThreadPush, ThreadForward, ThreadScheduleStop, ThreadFrame,
        Server, ServerSend, ServerClose, vars, simulator, times, history
  <2> QED
    BY <1>1, <2>1 DEF KeepsMode
<1>3. CASE Destroy
  <2>1. /\ UNCHANGED <<now, timePause, connectedAt>>
        /\ state' = state \/ (eventDestroy /\ state' = "STOPPING")
    BY <1>3 DEF Destroy, times, history
  <2> QED
    BY <1>1, <2>1 DEF KeepsMode, IsReleased, IInv, HeldInv, NothingBeforeConnect
<1> QED
  BY <1>2, <1>3, EventShape DEF Next, Main, Terminating

LEMMA FollowsInit == Init => LF!Init
BY DEF Init, LF!Init

LEMMA FollowsNext == IInv /\ IInv' /\ [Next]_vars => [LF!Next]_LF!vars
<1> SUFFICES ASSUME IInv, IInv', [Next]_vars
             PROVE  LF!Next \/ UNCHANGED LF!vars
  OBVIOUS
<1>1. /\ now \in Nat /\ timePause \in Int /\ connectedAt \in Int
      /\ state \in {"CREATED", "CONNECTED", "STOPPING"}
      /\ state = "CONNECTED" => now <= Granted
  BY DEF IInv, TypeOK, HeldInv, TimeGranted
<1>2. /\ now' \in Nat /\ timePause' \in Int /\ connectedAt' \in Int
      /\ state' = "CONNECTED" => now' <= Granted'
  BY DEF IInv, TypeOK, HeldInv, TimeGranted
<1>3. CASE KeepsMode
  <2>1. LF!Advance
    BY <1>1, <1>2, <1>3 DEF KeepsMode, Granted, LF!Advance
  <2> QED
    BY <2>1 DEF LF!Next
<1>4. CASE StartsToFollow
  <2>1. LF!Connect
    BY <1>1, <1>2, <1>4 DEF StartsToFollow, Granted, LF!Connect
  <2> QED
    BY <2>1 DEF LF!Next
<1>5. CASE IsGranted
  <2>1. LF!Grant
    BY <1>1, <1>2, <1>5 DEF IsGranted, Granted, LF!Grant
  <2> QED
    BY <2>1 DEF LF!Next
<1>6. CASE IsReleased
  <2>1. CASE state = "CONNECTED"
    <3>1. LF!Release
      BY <1>6, <2>1 DEF IsReleased, LF!Release
    <3> QED
      BY <3>1 DEF LF!Next
  <2>2. CASE state = "STOPPING"
    BY <1>6, <2>2 DEF IsReleased, LF!vars
  <2> QED
    BY <1>1, <1>6, <2>1, <2>2 DEF IsReleased
<1> QED
  BY <1>3, <1>4, <1>5, <1>6, StepShape

\* The gateway implements the leader-follower scheme: its clock stands still at
\* Connect, advances no further than the server's grants, and is let go by Stop
\* (README.md:69-77, gateway.h:81-83 and 144).
THEOREM Refinement == Spec => FollowsTheLeader
BY FollowsInit, FollowsNext, Invariance, PTL DEF Spec, FollowsTheLeader, LF!Spec
=============================================================================
