------------------------- MODULE TriggeredSendProofs -------------------------
(***************************************************************************)
(* Proofs about TriggeredSend, for every packet interval, every number and *)
(* size of requests, every time of the calls and every outcome of the      *)
(* socket's operations.                                                    *)
(***************************************************************************)
EXTENDS TriggeredSend, EventListProofs, FiniteSetTheorems

Args == {NoMessage} \cup Numbers

\* The inductive invariant.
IInv == TypeOK /\ SenderInv /\ Numbered(events)

-----------------------------------------------------------------------------
(* The event list.                                                         *)

\* The types that the other steps need of the event list.
LEMMA EventTypes ==
  ASSUME IInv
  PROVE  /\ now \in Nat
         /\ events \in SUBSET Events(SenderFns, Args)
         /\ Numbered(events)
         /\ \A e \in events : /\ e.ts \in Nat /\ e.uid \in Nat \ {0}
                              /\ e.fn \in SenderFns /\ e.msg \in Args
                              /\ e.ts >= now
BY DEF IInv, TypeOK, SenderInv, EventsOK, Args, Events

\* The application's next event.
LEMMA NextEvent ==
  ASSUME IInv, NEW e \in events, IsNext(e, events)
  PROVE  /\ e.ts \in Nat /\ e.ts >= now
         /\ \A f \in events : e.ts <= f.ts
BY EventTypes, NextIsFirst

\* What the invariant says of some of the pending events at a later time.
LEMMA FewerEventsOK ==
  ASSUME IInv, NEW ts \in Nat, \A e \in events : ts <= e.ts,
         NEW fewer \in SUBSET events,
         now' = ts, events' = fewer, DOMAIN requests \subseteq DOMAIN requests'
  PROVE  EventsOK' /\ Numbered(events')
                   /\ events' \in SUBSET Events(SenderFns, Args)
<1>1. /\ events \in SUBSET Events(SenderFns, Args) /\ Numbered(events)
      /\ \A e \in events : e.ts \in Nat
  BY EventTypes
<1>2. fewer \in SUBSET Events(SenderFns, Args) /\ Numbered(fewer)
  BY <1>1, FewerEvents
<1>3. EventsOK'
  BY <1>1 DEF IInv, SenderInv, EventsOK
<1> QED
  BY <1>2, <1>3

\* The same with a new event.
LEMMA OneMoreEventOK ==
  ASSUME IInv, NEW ts \in Nat, \A e \in events : ts <= e.ts,
         NEW fewer \in SUBSET events,
         NEW at \in Nat, at >= ts, NEW fn \in SenderFns, NEW msg \in Args,
         now' = ts, events' = Schedule(fewer, <<Entry(at, fn, msg)>>),
         DOMAIN requests \subseteq DOMAIN requests',
         fn = "ProcessSendRequest" => msg \in DOMAIN requests'
  PROVE  LET new == [ts |-> at, uid |-> NewUid(fewer), fn |-> fn, msg |-> msg] IN
         /\ events' = fewer \cup {new}
         /\ \A e \in fewer : e.uid < NewUid(fewer)
         /\ NewUid(fewer) \in Nat \ {0}
         /\ EventsOK' /\ Numbered(events')
         /\ events' \in SUBSET Events(SenderFns, Args)
<1> DEFINE new == [ts |-> at, uid |-> NewUid(fewer), fn |-> fn, msg |-> msg]
<1>1. /\ events \in SUBSET Events(SenderFns, Args) /\ Numbered(events)
      /\ \A e \in events : e.ts \in Nat /\ e.uid \in Nat \ {0}
  BY EventTypes
<1>2. fewer \in SUBSET Events(SenderFns, Args) /\ Numbered(fewer)
  BY <1>1, FewerEvents
<1>3. /\ events' = fewer \cup {new}
      /\ new \in Events(SenderFns, Args)
      /\ \A e \in fewer : e.uid < NewUid(fewer)
      /\ Numbered(fewer \cup {new})
  <2> HIDE DEF new
  <2>1. /\ Schedule(fewer, <<Entry(at, fn, msg)>>) = fewer \cup {new}
        /\ new \in Events(SenderFns, Args)
        /\ \A e \in fewer : e.uid < NewUid(fewer)
        /\ Numbered(fewer \cup {new})
    BY <1>2, ScheduleOne DEF new
  <2> QED
    BY <2>1
<1>4. NewUid(fewer) \in Nat \ {0}
  BY <1>2, NewUidType
<1>5. /\ new.ts = at /\ new.uid = NewUid(fewer) /\ new.fn = fn /\ new.msg = msg
  OBVIOUS
<1> HIDE DEF new
<1>6. \A e \in events' :
        /\ e.ts >= now'
        /\ e.fn = "ProcessSendRequest" => e.msg \in DOMAIN requests'
  BY <1>1, <1>3, <1>5 DEF IInv, SenderInv, EventsOK
<1>7. ASSUME NEW e \in events', NEW f \in events', e.uid = f.uid
      PROVE  e = f
  <2>1. CASE e \in fewer /\ f \in fewer
    BY <1>7, <2>1 DEF IInv, SenderInv, EventsOK
  <2>2. CASE e = new /\ f = new
    BY <2>2
  <2>3. CASE (e \in fewer /\ f = new) \/ (e = new /\ f \in fewer)
    BY <1>1, <1>3, <1>4, <1>5, <1>7, <2>3
  <2> QED
    BY <1>3, <2>1, <2>2, <2>3
<1>8. EventsOK'
  BY <1>6, <1>7 DEF EventsOK
<1> QED
  BY <1>2, <1>3, <1>4, <1>8 DEF new

\* Once it is cancelled no SendPacket event is pending.
LEMMA CancelledOK ==
  ASSUME IInv
  PROVE  /\ WithoutSendPacket \in SUBSET events
         /\ \A e \in WithoutSendPacket : e.fn # "SendPacket" /\ e.uid # NoEvent
<1>1. \A e \in events : /\ e.uid \in Nat \ {0}
                        /\ e.fn = "SendPacket" <=> e.uid = sendPacketEvent
  BY EventTypes DEF IInv, SenderInv, OneSendPacket
<1> QED
  BY <1>1 DEF WithoutSendPacket, Cancel, NoEvent

\* The end of the interval is a time.
LEMMA FreeAtType == IInv /\ packets # <<>> => FreeAt \in Nat
<1> SUFFICES ASSUME IInv, packets # <<>> PROVE FreeAt \in Nat
  OBVIOUS
<1>1. packets \in Seq([at : Nat, request : Nat, ok : BOOLEAN])
  BY DEF IInv, TypeOK
<1>2. Len(packets) \in 1..Len(packets)
  BY <1>1, EmptySeq, LenProperties
<1>3. packets[Len(packets)] \in [at : Nat, request : Nat, ok : BOOLEAN]
  BY <1>1, <1>2, ElementOfSeq
<1> QED
  BY <1>3, IntervalAssumption DEF FreeAt

-----------------------------------------------------------------------------
(* One lemma for each action.                                              *)

LEMMA StartStep ==
  ASSUME IInv, NEW t \in now..MaxTime, StartApplication(t)
  PROVE  IInv'
<1>1. /\ t \in Nat /\ t >= now /\ \A e \in events : t <= e.ts
      /\ socket = "none" /\ fault = "none" /\ now' = t /\ socket' = "open"
      /\ lifecycle' = lifecycle \ {"StartApplication"}
      /\ connected' \in BOOLEAN /\ sendPacketEvent' = NoEvent
      /\ UNCHANGED <<fault, packetCount, requests, current, packets>>
  <2>1. /\ now \in Nat /\ t \in Nat /\ t >= now
        /\ "StartApplication" \in lifecycle /\ socket # "disposed"
    <3>1. now \in Nat
      BY DEF IInv, TypeOK
    <3>2. t \in Nat /\ t >= now
      BY <3>1, BoundsAssumption
    <3> QED
      BY <3>1, <3>2 DEF StartApplication, Outside, Running, Called
  <2>2. socket = "none"
    BY <2>1 DEF IInv, SenderInv, NothingBeforeStart
  <2>3. connected' \in BOOLEAN
    BY DEF StartApplication
  <2> QED
    BY <2>1, <2>2, <2>3 DEF StartApplication, Outside, Running, Called
<1>2. /\ WithoutSendPacket \in SUBSET events
      /\ \A e \in WithoutSendPacket : e.fn # "SendPacket" /\ e.uid # NoEvent
  BY CancelledOK
<1>3. \/ events' = Schedule(WithoutSendPacket, <<>>)
      \/ \E d \in t..MaxTime, fn \in {"ConnectionSucceeded", "ConnectionFailed"} :
           events' = Schedule(WithoutSendPacket, <<Entry(d, fn, NoMessage)>>)
  BY DEF StartApplication, Answers
<1>4. /\ EventsOK' /\ Numbered(events')
      /\ events' \in SUBSET Events(SenderFns, Args)
      /\ \A e \in events' : e.fn # "SendPacket" /\ e.uid # NoEvent
  <2>1. CASE events' = Schedule(WithoutSendPacket, <<>>)
    <3>1. events' = WithoutSendPacket
      BY <2>1 DEF Schedule
    <3> QED
      BY <1>1, <1>2, <3>1, FewerEventsOK
  <2>2. ASSUME NEW d \in t..MaxTime,
               NEW fn \in {"ConnectionSucceeded", "ConnectionFailed"},
               events' = Schedule(WithoutSendPacket, <<Entry(d, fn, NoMessage)>>)
        PROVE  /\ EventsOK' /\ Numbered(events')
               /\ events' \in SUBSET Events(SenderFns, Args)
               /\ \A e \in events' : e.fn # "SendPacket" /\ e.uid # NoEvent
    <3>1. /\ d \in Nat /\ d >= t /\ fn \in SenderFns /\ NoMessage \in Args
          /\ fn # "ProcessSendRequest" /\ fn # "SendPacket"
      BY <1>1, BoundsAssumption DEF SenderFns, Args
    <3>2. LET new == [ts |-> d, uid |-> NewUid(WithoutSendPacket), fn |-> fn,
                      msg |-> NoMessage] IN
          /\ events' = WithoutSendPacket \cup {new}
          /\ NewUid(WithoutSendPacket) \in Nat \ {0}
          /\ EventsOK' /\ Numbered(events')
          /\ events' \in SUBSET Events(SenderFns, Args)
      <4> HIDE DEF NoMessage
      <4> QED
        BY <1>1, <1>2, <2>2, <3>1, OneMoreEventOK
    <3> QED
      BY <1>2, <3>1, <3>2 DEF NoEvent
  <2> QED
    BY <1>3, <2>1, <2>2
<1>5. TypeOK'
  BY <1>1, <1>4 DEF IInv, TypeOK, Args, NoEvent
<1>6. OneSendPacket' /\ SendPacketPending' /\ SocketThere'
  BY <1>1, <1>4 DEF OneSendPacket, SendPacketPending, IsSending, SocketThere
<1>7. NothingBeforeStart' /\ PaceKept'
  BY <1>1, <1>4 DEF IInv, SenderInv, NothingBeforeStart, PaceKept, IsSending
<1> QED
  BY <1>4, <1>5, <1>6, <1>7 DEF IInv, SenderInv

LEMMA StopStep ==
  ASSUME IInv, NEW t \in now..MaxTime, StopApplication(t)
  PROVE  IInv'
<1>1. /\ t \in Nat /\ t >= now /\ \A e \in events : t <= e.ts
      /\ fault = "none" /\ now' = t
      /\ socket \in {"none", "open", "closed"}
      /\ socket' = IF socket = "none" THEN "none" ELSE "closed"
      /\ lifecycle' = lifecycle \ {"StopApplication"}
      /\ events' = WithoutSendPacket /\ sendPacketEvent' = NoEvent
      /\ UNCHANGED <<fault, connected, packetCount, requests, current, packets>>
  BY BoundsAssumption
  DEF StopApplication, Outside, Running, Called, IInv, TypeOK
<1>2. /\ WithoutSendPacket \in SUBSET events
      /\ \A e \in WithoutSendPacket : e.fn # "SendPacket" /\ e.uid # NoEvent
  BY CancelledOK
<1>3. EventsOK' /\ Numbered(events') /\ events' \in SUBSET Events(SenderFns, Args)
  BY <1>1, <1>2, FewerEventsOK
<1>4. TypeOK'
  BY <1>1, <1>3 DEF IInv, TypeOK, Args, NoEvent
<1>5. OneSendPacket' /\ SendPacketPending' /\ SocketThere'
  BY <1>1, <1>2 DEF OneSendPacket, SendPacketPending, IsSending, SocketThere
<1>6. NothingBeforeStart' /\ PaceKept'
  BY <1>1, <1>2 DEF IInv, SenderInv, NothingBeforeStart, PaceKept
<1> QED
  BY <1>3, <1>4, <1>5, <1>6 DEF IInv, SenderInv

LEMMA DisposeStep ==
  ASSUME IInv, Dispose
  PROVE  IInv'
<1>1. /\ now \in Nat /\ \A e \in events : now <= e.ts
      /\ fault = "none" /\ socket' = "disposed"
      /\ events' = WithoutSendPacket /\ sendPacketEvent' = NoEvent
      /\ UNCHANGED <<now, fault, lifecycle, connected, packetCount, requests,
                     current, packets>>
  BY EventTypes DEF Dispose, Running
<1>2. /\ WithoutSendPacket \in SUBSET events
      /\ \A e \in WithoutSendPacket : e.fn # "SendPacket" /\ e.uid # NoEvent
  BY CancelledOK
<1>3. EventsOK' /\ Numbered(events') /\ events' \in SUBSET Events(SenderFns, Args)
  BY <1>1, <1>2, FewerEventsOK
<1>4. TypeOK'
  BY <1>1, <1>3 DEF IInv, TypeOK, Args, NoEvent
<1>5. OneSendPacket' /\ SendPacketPending' /\ SocketThere'
  BY <1>1, <1>2 DEF OneSendPacket, SendPacketPending, IsSending, SocketThere
<1>6. NothingBeforeStart' /\ PaceKept'
  BY <1>1 DEF NothingBeforeStart, PaceKept
<1> QED
  BY <1>3, <1>4, <1>5, <1>6 DEF IInv, SenderInv

LEMMA ConnectionStep ==
  ASSUME IInv, NEW e \in events, ConnectionSucceeded(e)
  PROVE  IInv'
<1>1. /\ IsNext(e, events) /\ e.fn = "ConnectionSucceeded"
      /\ now' = e.ts /\ events' = events \ {e} /\ connected' = TRUE
      /\ UNCHANGED <<fault, lifecycle, socket, packetCount, sendPacketEvent,
                     requests, current, packets>>
  BY DEF ConnectionSucceeded, Runs
<1>2. /\ e.ts \in Nat /\ e.ts >= now /\ \A f \in events : e.ts <= f.ts
  BY <1>1, NextEvent
<1>3. EventsOK' /\ Numbered(events') /\ events' \in SUBSET Events(SenderFns, Args)
  BY <1>1, <1>2, FewerEventsOK
<1>4. TypeOK'
  BY <1>1, <1>2, <1>3 DEF IInv, TypeOK, Args
<1>5. OneSendPacket' /\ SendPacketPending' /\ SocketThere'
  BY <1>1
  DEF IInv, SenderInv, OneSendPacket, SendPacketPending, IsSending, SocketThere
<1>6. NothingBeforeStart' /\ PaceKept'
  <2>1. NothingBeforeStart'
    BY <1>1 DEF IInv, SenderInv, NothingBeforeStart
  <2>2. FreeAt' = FreeAt /\ IsSending' = IsSending
    BY <1>1 DEF FreeAt, IsSending
  <2>3. packets # <<>> /\ FreeAt <= now => FreeAt <= e.ts
    BY <1>2, FreeAtType, EventTypes
  <2>4. PaceKept
    BY DEF IInv, SenderInv
  <2>5. PaceKept'
    BY <1>1, <2>2, <2>3, <2>4 DEF PaceKept
  <2> QED
    BY <2>1, <2>5
<1> QED
  BY <1>3, <1>4, <1>5, <1>6 DEF IInv, SenderInv

LEMMA SendStep ==
  ASSUME IInv, NEW t \in now..MaxTime, NEW n \in Counts, Send(t, n)
  PROVE  IInv'
<1> DEFINE request == [at |-> t, n |-> n,
                       owed |-> IF IsDue(t) THEN Len(packets) + 1 ELSE 0]
           fn == "ProcessSendRequest"
<1>1. /\ t \in Nat /\ t >= now /\ \A e \in events : t <= e.ts
      /\ fault = "none" /\ now' = t
      /\ UNCHANGED <<fault, lifecycle, socket, connected, packetCount,
                     sendPacketEvent, current, packets>>
  <2>1. now \in Nat
    BY DEF IInv, TypeOK
  <2>2. t \in Nat /\ t >= now
    BY <2>1, BoundsAssumption
  <2> QED
    BY <2>2 DEF Send, Outside, Running
<1>2. CASE n = 0
  <2>1. UNCHANGED <<events, requests>>
    BY <1>2 DEF Send
  <2>2. EventsOK' /\ Numbered(events') /\ events' \in SUBSET Events(SenderFns, Args)
    BY <1>1, <2>1, FewerEventsOK
  <2>3. TypeOK'
    BY <1>1, <2>1, <2>2 DEF IInv, TypeOK, Args
  <2>4. OneSendPacket' /\ SendPacketPending' /\ SocketThere' /\ NothingBeforeStart'
    BY <1>1, <2>1
    DEF IInv, SenderInv, OneSendPacket, SendPacketPending, IsSending, SocketThere,
        NothingBeforeStart
  <2>5. PaceKept'
    <3>1. FreeAt' = FreeAt /\ IsSending' = IsSending
      BY <1>1 DEF FreeAt, IsSending
    <3>2. packets # <<>> /\ FreeAt <= now => FreeAt <= t
      BY <1>1, FreeAtType, EventTypes
    <3>3. PaceKept
      BY DEF IInv, SenderInv
    <3> QED
      BY <1>1, <2>1, <3>1, <3>2, <3>3 DEF PaceKept
  <2> QED
    BY <2>2, <2>3, <2>4, <2>5 DEF IInv, SenderInv
<1>3. CASE n > 0
  <2>1. /\ Len(requests) < MaxRequests
        /\ events' = Schedule(events, <<Entry(t, fn, Len(requests) + 1)>>)
        /\ requests' = Append(requests, request)
    BY <1>3 DEF Send, Deferred
  <2>2. /\ requests \in Seq([at : Nat, n : Counts \ {0}, owed : Nat])
        /\ packets \in Seq([at : Nat, request : Nat, ok : BOOLEAN])
        /\ current \in 0..Len(requests)
    BY DEF IInv, TypeOK
  <2>3. /\ Len(packets) \in Nat /\ Len(requests) \in Nat
        /\ Len(requests) + 1 \in Numbers /\ n \in Counts \ {0}
    BY <1>3, <2>1, <2>2, BoundsAssumption, CountsAssumption DEF Numbers
  <2>4. request \in [at : Nat, n : Counts \ {0}, owed : Nat]
    BY <1>1, <2>3
  <2> HIDE DEF request
  <2>5. /\ requests' \in Seq([at : Nat, n : Counts \ {0}, owed : Nat])
        /\ Len(requests') = Len(requests) + 1
        /\ DOMAIN requests \subseteq DOMAIN requests'
        /\ Len(requests) + 1 \in DOMAIN requests'
    BY <2>1, <2>2, <2>3, <2>4
  <2>6. fn \in SenderFns /\ fn = "ProcessSendRequest" /\ Len(requests) + 1 \in Args
    BY <2>3 DEF SenderFns, Args
  <2> DEFINE new == [ts |-> t, uid |-> NewUid(events), fn |-> fn,
                     msg |-> Len(requests) + 1]
  <2> HIDE DEF fn
  <2>7. /\ events' = events \cup {new}
        /\ \A e \in events : e.uid < NewUid(events)
        /\ NewUid(events) \in Nat \ {0}
        /\ EventsOK' /\ Numbered(events')
        /\ events' \in SUBSET Events(SenderFns, Args)
    BY <1>1, <2>1, <2>5, <2>6, OneMoreEventOK
  <2>8. new.fn = "ProcessSendRequest" /\ new.uid = NewUid(events)
    BY <2>6
  <2> HIDE DEF new
  <2>9. TypeOK'
    <3>1. current' \in 0..Len(requests') /\ Len(requests') <= MaxRequests
      BY <1>1, <2>1, <2>2, <2>3, <2>5, BoundsAssumption
    <3>2. events' \subseteq Events(SenderFns, {NoMessage} \cup Numbers)
      BY <2>7 DEF Args
    <3> QED
      BY <1>1, <2>5, <3>1, <3>2 DEF IInv, TypeOK
  <2>10. NewUid(events) # sendPacketEvent
    BY <2>7 DEF IInv, SenderInv, SendPacketPending, IsSending, NoEvent
  <2>11. OneSendPacket' /\ SendPacketPending' /\ SocketThere' /\ NothingBeforeStart'
    BY <1>1, <2>7, <2>8, <2>10
    DEF IInv, SenderInv, OneSendPacket, SendPacketPending, IsSending, SocketThere,
        NothingBeforeStart
  <2>12. PaceKept'
    <3>1. FreeAt' = FreeAt /\ IsSending' = IsSending
      BY <1>1 DEF FreeAt, IsSending
    <3>2. packets # <<>> /\ FreeAt <= now => FreeAt <= t
      BY <1>1, FreeAtType, EventTypes
    <3>3. PaceKept
      BY DEF IInv, SenderInv
    <3> QED
      BY <1>1, <2>7, <2>8, <3>1, <3>2, <3>3 DEF PaceKept
  <2> QED
    BY <2>7, <2>9, <2>11, <2>12 DEF IInv, SenderInv
<1> QED
  BY <1>2, <1>3, CountsAssumption

LEMMA ProcessStep ==
  ASSUME IInv, NEW e \in events, ProcessSendRequest(e)
  PROVE  IInv'
<1> DEFINE fn == "SendPacket"
           fewer == events \ {e}
<1>1. /\ IsNext(e, events) /\ e.fn = "ProcessSendRequest"
      /\ now' = e.ts /\ fault = "none" /\ socket # "disposed"
      /\ UNCHANGED <<fault, lifecycle, socket, connected, requests, packets>>
  BY DEF ProcessSendRequest, Runs, Running
<1>2. /\ e.ts \in Nat /\ e.ts >= now /\ \A f \in events : e.ts <= f.ts
      /\ e.msg \in DOMAIN requests
  BY <1>1, NextEvent DEF IInv, SenderInv, EventsOK
<1>3. /\ requests \in Seq([at : Nat, n : Counts \ {0}, owed : Nat])
      /\ e.msg \in 1..Len(requests)
      /\ requests[e.msg].n \in Nat \ {0}
  <2>1. requests \in Seq([at : Nat, n : Counts \ {0}, owed : Nat])
    BY DEF IInv, TypeOK
  <2>2. e.msg \in 1..Len(requests)
    BY <1>2, <2>1
  <2>3. requests[e.msg] \in [at : Nat, n : Counts \ {0}, owed : Nat]
    BY <2>1, <2>2, ElementOfSeq
  <2> QED
    BY <2>1, <2>2, <2>3, CountsAssumption
<1>4. /\ packetCount' \in Nat /\ current' \in 0..Len(requests')
      /\ Ready => packetCount' > 0
      /\ ~Ready => UNCHANGED packetCount
  <2>1. packetCount \in Nat /\ current \in 0..Len(requests)
    BY DEF IInv, TypeOK
  <2>2. /\ requests' = requests
        /\ IF Ready THEN packetCount' = requests[e.msg].n /\ current' = e.msg
           ELSE UNCHANGED <<packetCount, current>>
    BY DEF ProcessSendRequest, CountAfter
  <2> QED
    BY <1>3, <2>1, <2>2
<1>5. \A f \in events : /\ f.uid \in Nat \ {0}
                        /\ f.fn = "SendPacket" <=> f.uid = sendPacketEvent
  BY EventTypes DEF IInv, SenderInv, OneSendPacket
<1>6. Ready => socket \in {"open", "closed"}
  BY <1>1 DEF Ready, IInv, TypeOK
<1>7. FreeAt' = FreeAt /\ (packets # <<>> /\ FreeAt <= now => FreeAt <= e.ts)
  <2>1. FreeAt' = FreeAt
    BY <1>1 DEF FreeAt
  <2> QED
    BY <1>2, <2>1, FreeAtType, EventTypes
<1>8. CASE Ready /\ ~IsSending
  <2>1. /\ events' = Schedule(fewer, <<Entry(e.ts, fn, NoMessage)>>)
        /\ sendPacketEvent' = NewUid(fewer)
    BY <1>8 DEF ProcessSendRequest, NeedsEvent
  <2>2. fn \in SenderFns /\ fn = "SendPacket" /\ NoMessage \in Args
        /\ fn # "ProcessSendRequest"
    BY DEF SenderFns, Args
  <2> DEFINE new == [ts |-> e.ts, uid |-> NewUid(fewer), fn |-> fn, msg |-> NoMessage]
  <2>3. /\ events' = fewer \cup {new}
        /\ \A f \in fewer : f.uid < NewUid(fewer)
        /\ NewUid(fewer) \in Nat \ {0}
        /\ EventsOK' /\ Numbered(events')
        /\ events' \in SUBSET Events(SenderFns, Args)
    <3> HIDE DEF fn, NoMessage
    <3>1. DOMAIN requests \subseteq DOMAIN requests'
      BY <1>1
    <3> QED
      BY <1>1, <1>2, <2>1, <2>2, <3>1, OneMoreEventOK
  <2>4. new.fn = "SendPacket" /\ new.uid = NewUid(fewer) /\ new.ts = e.ts
        /\ new \in events'
    BY <2>2, <2>3
  <2>5. \A f \in fewer : f.fn # "SendPacket" /\ f.uid # NewUid(fewer)
    BY <1>5, <1>8, <2>3 DEF IsSending, NoEvent
  <2> HIDE DEF new, fewer, fn
  <2>6. TypeOK'
    <3>1. events' \subseteq Events(SenderFns, {NoMessage} \cup Numbers)
      BY <2>3 DEF Args
    <3>2. now' \in Nat /\ sendPacketEvent' \in Nat
      BY <1>1, <1>2, <2>1, <2>3
    <3> QED
      BY <1>1, <1>4, <3>1, <3>2 DEF IInv, TypeOK
  <2>7. OneSendPacket' /\ SendPacketPending' /\ SocketThere' /\ NothingBeforeStart'
    <3>1. OneSendPacket' /\ SendPacketPending'
      BY <1>1, <2>1, <2>3, <2>4, <2>5
      DEF OneSendPacket, SendPacketPending
    <3>2. SocketThere' /\ NothingBeforeStart'
      BY <1>1, <1>6, <1>8
      DEF IInv, SenderInv, SocketThere, NothingBeforeStart
    <3> QED
      BY <3>1, <3>2
  <2>8. PaceKept'
    <3>1. socket = "open" /\ packets # <<>> => FreeAt <= e.ts
      BY <1>7, <1>8 DEF IInv, SenderInv, PaceKept
    <3>2. IsSending'
      BY <2>1, <2>3 DEF IsSending, NoEvent
    <3> QED
      BY <1>1, <1>4, <1>7, <1>8, <2>3, <2>4, <2>5, <3>1, <3>2 DEF PaceKept
  <2> QED
    BY <2>3, <2>6, <2>7, <2>8 DEF IInv, SenderInv
<1>9. CASE ~(Ready /\ ~IsSending)
  <2>1. events' = fewer /\ UNCHANGED sendPacketEvent
    BY <1>9 DEF ProcessSendRequest, NeedsEvent
  <2>2. EventsOK' /\ Numbered(events') /\ events' \in SUBSET Events(SenderFns, Args)
    BY <1>1, <1>2, <2>1, FewerEventsOK
  <2>3. TypeOK'
    <3>1. events' \subseteq Events(SenderFns, {NoMessage} \cup Numbers)
      BY <2>2 DEF Args
    <3> QED
      BY <1>1, <1>2, <1>4, <2>1, <3>1 DEF IInv, TypeOK
  <2>4. OneSendPacket' /\ SendPacketPending' /\ SocketThere'
    BY <1>1, <1>5, <2>1
    DEF IInv, SenderInv, OneSendPacket, SendPacketPending, IsSending, SocketThere
  <2>5. NothingBeforeStart'
    BY <1>1, <1>4, <1>6, <2>1 DEF IInv, SenderInv, NothingBeforeStart
  <2>6. PaceKept'
    <3>1. IsSending' = IsSending
      BY <2>1 DEF IsSending
    <3>2. PaceKept
      BY DEF IInv, SenderInv
    <3>3. Ready => IsSending
      BY <1>9
    <3> QED
      BY <1>1, <1>4, <1>7, <2>1, <3>1, <3>2, <3>3 DEF PaceKept
  <2> QED
    BY <2>2, <2>3, <2>4, <2>5, <2>6 DEF IInv, SenderInv
<1> QED
  BY <1>8, <1>9

\* Sending a packet: one left fewer, and the next event one interval later.
LEMMA PacketStep ==
  ASSUME IInv, NEW e \in events, SendPacket(e), packetCount > 0
  PROVE  IInv'
<1> DEFINE fn == "SendPacket"
           at == e.ts + PacketInterval
           fewer == events \ {e}
<1>1. /\ IsNext(e, events) /\ e.fn = "SendPacket"
      /\ now' = e.ts /\ fault = "none"
      /\ packetCount' = packetCount - 1
      /\ events' = Schedule(fewer, <<Entry(at, fn, NoMessage)>>)
      /\ sendPacketEvent' = NewUid(fewer)
      /\ UNCHANGED <<fault, lifecycle, socket, connected, requests, current>>
  BY DEF SendPacket, Runs, Running, PacketsLeft, NextSendPacket
<1>2. /\ e.ts \in Nat /\ e.ts >= now /\ \A f \in events : e.ts <= f.ts
      /\ at \in Nat /\ at >= e.ts
  BY <1>1, NextEvent, IntervalAssumption
<1>3. packetCount - 1 \in Nat /\ current \in Nat
      /\ packets \in Seq([at : Nat, request : Nat, ok : BOOLEAN])
  <2>1. /\ packetCount \in Nat /\ current \in 0..Len(requests)
        /\ requests \in Seq([at : Nat, n : Counts \ {0}, owed : Nat])
        /\ packets \in Seq([at : Nat, request : Nat, ok : BOOLEAN])
    BY DEF IInv, TypeOK
  <2>2. Len(requests) \in Nat
    BY <2>1
  <2> QED
    BY <2>1, <2>2
<1>4. \A f \in events : /\ f.uid \in Nat \ {0}
                        /\ f.fn = "SendPacket" <=> f.uid = sendPacketEvent
                        /\ f.uid = e.uid => f = e
  BY EventTypes DEF IInv, SenderInv, OneSendPacket, EventsOK
<1>5. fn \in SenderFns /\ fn = "SendPacket" /\ NoMessage \in Args
      /\ fn # "ProcessSendRequest"
  BY DEF SenderFns, Args
<1> DEFINE new == [ts |-> at, uid |-> NewUid(fewer), fn |-> fn, msg |-> NoMessage]
<1> HIDE DEF at
<1>6. /\ events' = fewer \cup {new}
      /\ \A f \in fewer : f.uid < NewUid(fewer)
      /\ NewUid(fewer) \in Nat \ {0}
      /\ EventsOK' /\ Numbered(events')
      /\ events' \in SUBSET Events(SenderFns, Args)
  <2> HIDE DEF fn, NoMessage
  <2>1. DOMAIN requests \subseteq DOMAIN requests'
    BY <1>1
  <2> QED
    BY <1>1, <1>2, <1>5, <2>1, OneMoreEventOK
<1>7. new.fn = "SendPacket" /\ new.uid = NewUid(fewer) /\ new.ts = at /\ new \in events'
  BY <1>5, <1>6
<1>8. \A f \in fewer : f.fn # "SendPacket" /\ f.uid # NewUid(fewer)
  <2>1. e.uid = sendPacketEvent
    BY <1>1, <1>4
  <2>2. \A f \in fewer : f.fn # "SendPacket"
    BY <1>4, <2>1
  <2>3. \A f \in fewer : f.uid \in Nat /\ f.uid < NewUid(fewer) /\ NewUid(fewer) \in Nat
    BY <1>4, <1>6
  <2> QED
    BY <2>2, <2>3
<1>9. socket \in {"open", "closed"}
  BY <1>1 DEF IInv, SenderInv, SocketThere
<1> HIDE DEF new, fewer, fn
<1>10. packets' \in Seq([at : Nat, request : Nat, ok : BOOLEAN]) /\ PaceKept'
  <2>1. CASE socket = "open"
    <3>1. PICK ok \in {TRUE, ~SendMayFail} :
            packets' = Append(packets, [at |-> e.ts, request |-> current, ok |-> ok])
      BY <2>1 DEF SendPacket, PacketsLeft
    <3> DEFINE packet == [at |-> e.ts, request |-> current, ok |-> ok]
    <3>2. packet \in [at : Nat, request : Nat, ok : BOOLEAN] /\ packet.at = e.ts
      BY <1>2, <1>3, <3>1, SendAssumption
    <3>3. packets' = Append(packets, packet)
      BY <3>1
    <3> HIDE DEF packet
    <3>4. /\ packets' \in Seq([at : Nat, request : Nat, ok : BOOLEAN])
          /\ packets' # <<>>
          /\ packets'[Len(packets')] = packet
      BY <1>3, <3>2, <3>3
    <3>5. FreeAt' = at
      BY <3>2, <3>4 DEF FreeAt, at
    <3>6. IsSending'
      BY <1>1, <1>6 DEF IsSending, NoEvent
    <3> QED
      BY <1>1, <1>2, <1>6, <1>7, <1>8, <3>4, <3>5, <3>6 DEF PaceKept
  <2>2. CASE socket # "open"
    BY <1>1, <1>3, <2>2 DEF SendPacket, PacketsLeft, PaceKept
  <2> QED
    BY <2>1, <2>2
<1>11. TypeOK'
  <2>1. events' \subseteq Events(SenderFns, {NoMessage} \cup Numbers)
    BY <1>6 DEF Args
  <2>2. now' \in Nat /\ sendPacketEvent' \in Nat /\ packetCount' \in Nat
    BY <1>1, <1>2, <1>3, <1>6
  <2> QED
    BY <1>1, <1>10, <2>1, <2>2 DEF IInv, TypeOK
<1>12. OneSendPacket' /\ SendPacketPending'
  BY <1>1, <1>6, <1>7, <1>8 DEF OneSendPacket, SendPacketPending
<1>13. SocketThere' /\ NothingBeforeStart'
  BY <1>1, <1>9 DEF IInv, SenderInv, SocketThere, NothingBeforeStart
<1> QED
  BY <1>6, <1>10, <1>11, <1>12, <1>13 DEF IInv, SenderInv

\* The event behind the last packet: the interval is over.
LEMMA NoPacketStep ==
  ASSUME IInv, NEW e \in events, SendPacket(e), ~(packetCount > 0)
  PROVE  IInv'
<1>1. /\ IsNext(e, events) /\ e.fn = "SendPacket"
      /\ now' = e.ts /\ fault = "none"
      /\ events' = events \ {e} /\ sendPacketEvent' = NoEvent
      /\ UNCHANGED <<fault, lifecycle, socket, connected, packetCount, requests,
                     current, packets>>
  BY DEF SendPacket, Runs, Running, PacketsLeft
<1>2. /\ e.ts \in Nat /\ e.ts >= now /\ \A f \in events : e.ts <= f.ts
  BY <1>1, NextEvent
<1>3. \A f \in events : /\ f.uid \in Nat \ {0}
                        /\ f.fn = "SendPacket" <=> f.uid = sendPacketEvent
                        /\ f.uid = e.uid => f = e
  BY EventTypes DEF IInv, SenderInv, OneSendPacket, EventsOK
<1>4. \A f \in events' : f.fn # "SendPacket" /\ f.uid # NoEvent
  BY <1>1, <1>3 DEF NoEvent
<1>5. EventsOK' /\ Numbered(events') /\ events' \in SUBSET Events(SenderFns, Args)
  BY <1>1, <1>2, FewerEventsOK
<1>6. TypeOK'
  <2>1. events' \subseteq Events(SenderFns, {NoMessage} \cup Numbers)
    BY <1>5 DEF Args
  <2> QED
    BY <1>1, <1>2, <2>1 DEF IInv, TypeOK, NoEvent
<1>7. OneSendPacket' /\ SendPacketPending' /\ SocketThere' /\ NothingBeforeStart'
  BY <1>1, <1>4
  DEF IInv, SenderInv, OneSendPacket, SendPacketPending, IsSending, SocketThere,
      NothingBeforeStart
<1>8. PaceKept'
  <2>1. packetCount = 0 /\ FreeAt' = FreeAt
    BY <1>1 DEF IInv, TypeOK, FreeAt
  <2>2. socket = "open" => packets # <<>> /\ e.ts = FreeAt
    BY <1>1, <2>1 DEF IInv, SenderInv, PaceKept
  <2> QED
    BY <1>1, <1>2, <1>4, <2>1, <2>2 DEF PaceKept
<1> QED
  BY <1>5, <1>6, <1>7, <1>8 DEF IInv, SenderInv

\* An error that ends the process; the assertion of SendPacket is none of them.
LEMMA AbortStep ==
  ASSUME IInv,
         \/ \E t \in now..MaxTime : StartFails(t)
         \/ \E e \in events : ConnectionFailed(e) \/ SendPacketAsserts(e)
  PROVE  IInv'
<1>1. ~ \E e \in events : SendPacketAsserts(e)
  BY DEF SendPacketAsserts, Runs, IInv, SenderInv, OneSendPacket
<1>2. /\ fault' \in {"cannot bind", "cannot connect"}
      /\ UNCHANGED <<now, events, lifecycle, socket, connected, packetCount,
                     sendPacketEvent, requests, current, packets>>
  BY <1>1 DEF StartFails, ConnectionFailed, Abort
<1>3. TypeOK'
  BY <1>2 DEF IInv, TypeOK
<1>4. SenderInv'
  BY <1>2
  DEF IInv, SenderInv, EventsOK, OneSendPacket, SendPacketPending, IsSending,
      SocketThere, NothingBeforeStart, PaceKept, FreeAt
<1> QED
  BY <1>2, <1>3, <1>4 DEF IInv

-----------------------------------------------------------------------------
(* The invariant.                                                          *)

LEMMA IInvInit == Init => IInv
<1> SUFFICES ASSUME Init PROVE IInv
  OBVIOUS
<1>1. TypeOK
  <2>1. /\ requests = <<>> /\ packets = <<>> /\ events = {} /\ current = 0
        /\ fault = "none" /\ socket = "none" /\ connected = FALSE
        /\ now = 0 /\ packetCount = 0 /\ sendPacketEvent = 0
        /\ lifecycle = {"StartApplication", "StopApplication"}
    BY DEF Init, NoEvent
  <2>2. Len(requests) = 0 /\ 0 <= MaxRequests /\ current \in 0..Len(requests)
    BY <2>1, BoundsAssumption
  <2>3. /\ requests \in Seq([at : Nat, n : Counts \ {0}, owed : Nat])
        /\ packets \in Seq([at : Nat, request : Nat, ok : BOOLEAN])
    BY <2>1
  <2> QED
    BY <2>1, <2>2, <2>3 DEF TypeOK
<1>2. SenderInv
  BY DEF Init, SenderInv, EventsOK, OneSendPacket, SendPacketPending, IsSending,
         SocketThere, NothingBeforeStart, PaceKept, NoEvent
<1>3. Numbered(events)
  BY DEF Init, Numbered
<1> QED
  BY <1>1, <1>2, <1>3 DEF IInv

LEMMA IInvNext == IInv /\ [Next]_vars => IInv'
<1> SUFFICES ASSUME IInv, [Next]_vars PROVE IInv'
  OBVIOUS
<1>1. CASE Calls
  BY <1>1, StartStep, StopStep, SendStep, AbortStep DEF Calls
<1>2. CASE Handlers
  BY <1>2, ConnectionStep, ProcessStep, PacketStep, NoPacketStep, AbortStep
  DEF Handlers
<1>3. CASE Dispose
  BY <1>3, DisposeStep
<1>4. CASE UNCHANGED vars
  <2>1. UNCHANGED <<now, events, fault, lifecycle, socket, connected, packetCount,
                    sendPacketEvent, requests, current, packets>>
    BY <1>4 DEF vars
  <2>2. TypeOK'
    BY <2>1 DEF IInv, TypeOK
  <2>3. SenderInv'
    BY <2>1
    DEF IInv, SenderInv, EventsOK, OneSendPacket, SendPacketPending, IsSending,
        SocketThere, NothingBeforeStart, PaceKept, FreeAt
  <2> QED
    BY <2>1, <2>2, <2>3 DEF IInv
<1> QED
  BY <1>1, <1>2, <1>3, <1>4 DEF Next, Terminating

\* The inductive invariant holds of every behaviour.
THEOREM Invariance == Spec => []IInv
BY IInvInit, IInvNext, PTL DEF Spec

\* Every variable of the application keeps its type: the unsigned packet count is
\* never decremented at zero (triggered-send-application.cc:265 and 297).
THEOREM TypeCorrect == Spec => []TypeOK
<1>1. IInv => TypeOK
  BY DEF IInv
<1> QED
  BY <1>1, Invariance, PTL

\* The assertion of SendPacket holds and a single SendPacket event is pending,
\* whatever calls are made and when (triggered-send-application.cc:263).
THEOREM AssertionHolds == Spec => []OneSendPacket
<1>1. IInv => OneSendPacket
  BY DEF IInv, SenderInv
<1> QED
  BY <1>1, Invariance, PTL

\* SendPacket has a socket to send with (triggered-send-application.cc:269).
THEOREM SocketIsThere == Spec => []SocketThere
<1>1. IInv => SocketThere
  BY DEF IInv, SenderInv
<1> QED
  BY <1>1, Invariance, PTL

\* The bookkeeping that keeps the packet interval across requests
\* (triggered-send-application.cc:239-250 and 302).
THEOREM PaceIsKept == Spec => []SenderInv
<1>1. IInv => SenderInv
  BY DEF IInv
<1> QED
  BY <1>1, Invariance, PTL

-----------------------------------------------------------------------------
(* The application implements the paced source.                            *)

\* An event is found by its number.
LEMMA FoundByNumber ==
  ASSUME NEW S, NEW u, NEW e \in S, e.uid = u, \A f \in S : f.uid = u => f = e
  PROVE  (CHOOSE f \in S : f.uid = u) = e
OBVIOUS

\* While a SendPacket event is pending, its time is when the next packet is due;
\* otherwise that time has come.
LEMMA DueNow ==
  ASSUME IInv, socket = "open"
  PROVE  /\ \A e \in events : e.fn = "SendPacket" => Due = e.ts /\ IsSending
         /\ ~IsSending => packetCount = 0 /\ Due \in Nat /\ Due <= now
         /\ IsSending => \E e \in events : e.fn = "SendPacket" /\ Due = e.ts
<1>1. \A e \in events :
        /\ e.uid # NoEvent
        /\ e.fn = "SendPacket" <=> e.uid = sendPacketEvent
        /\ \A f \in events : f.uid = e.uid => f = e
  BY EventTypes DEF IInv, SenderInv, OneSendPacket, EventsOK, NoEvent
<1>2. ASSUME NEW e \in events, e.fn = "SendPacket"
      PROVE  Due = e.ts /\ IsSending
  <2>1. e.uid = sendPacketEvent /\ IsSending
    BY <1>1, <1>2 DEF IsSending
  <2>2. \A f \in events : f.uid = sendPacketEvent => f = e
    BY <1>1, <2>1
  <2>3. (CHOOSE f \in events : f.uid = sendPacketEvent) = e
    BY <2>1, <2>2, FoundByNumber
  <2> QED
    BY <2>1, <2>3 DEF Due
<1>3. IsSending => \E e \in events : e.fn = "SendPacket"
  BY <1>1 DEF IInv, SenderInv, SendPacketPending
<1>4. ~IsSending => packetCount = 0 /\ Due \in Nat /\ Due <= now
  BY FreeAtType, EventTypes DEF IInv, SenderInv, PaceKept, Due
<1> QED
  BY <1>2, <1>3, <1>4

\* Time passes at most until the next packet is due.
LEMMA PassesToDue ==
  ASSUME IInv, now' \in Nat, now' >= now, \A e \in events : now' <= e.ts
  PROVE  PS!TimePasses
<1>1. Left > 0 => now' <= Due
  <2>1. CASE socket = "open" /\ IsSending
    BY <2>1, DueNow
  <2>2. CASE socket = "open" /\ ~IsSending
    BY <2>2, DueNow DEF Left
  <2>3. CASE socket # "open"
    BY <2>3 DEF Left
  <2> QED
    BY <2>1, <2>2, <2>3
<1> QED
  BY <1>1 DEF PS!TimePasses

\* A step that leaves the SendPacket event and the packets alone.
LEMMA SameDue ==
  ASSUME IInv, IInv', UNCHANGED <<socket, sendPacketEvent, packets>>,
         \A f \in events : f.fn = "SendPacket" => f \in events'
  PROVE  Due' = Due
<1>1. CASE socket = "open" /\ IsSending
  <2>1. PICK e \in events : e.fn = "SendPacket" /\ Due = e.ts
    BY <1>1, DueNow
  <2>2. e.uid = sendPacketEvent /\ e \in events'
    BY <2>1 DEF IInv, SenderInv, OneSendPacket
  <2>3. \A f \in events' : f.uid = sendPacketEvent' => f = e
    BY <2>2 DEF IInv, SenderInv, EventsOK
  <2>4. (CHOOSE f \in events' : f.uid = sendPacketEvent') = e
    BY <2>2, <2>3, FoundByNumber
  <2> QED
    BY <1>1, <2>1, <2>4 DEF Due, IsSending
<1>2. CASE ~(socket = "open" /\ IsSending)
  BY <1>2 DEF Due, IsSending, FreeAt
<1> QED
  BY <1>1, <1>2

\* A step that schedules the SendPacket event anew.
LEMMA NewDue ==
  ASSUME IInv, IInv', NEW e \in events, NEW at \in Nat, socket' = "open",
         events' = Schedule(events \ {e}, <<Entry(at, "SendPacket", NoMessage)>>),
         sendPacketEvent' = NewUid(events \ {e})
  PROVE  Due' = at
<1> DEFINE fn == "SendPacket"
           fewer == events \ {e}
           new == [ts |-> at, uid |-> NewUid(fewer), fn |-> fn, msg |-> NoMessage]
<1>1. fn \in SenderFns /\ NoMessage \in Args
  BY DEF SenderFns, Args
<1>2. fewer \in SUBSET Events(SenderFns, Args) /\ Numbered(fewer)
  BY EventTypes, FewerEvents
<1>3. events' = fewer \cup {new}
  <2> HIDE DEF fn, NoMessage, new, fewer
  <2>1. events' = Schedule(fewer, <<Entry(at, fn, NoMessage)>>)
    BY DEF fn, fewer
  <2>2. /\ Schedule(fewer, <<Entry(at, fn, NoMessage)>>) = fewer \cup {new}
        /\ new \in Events(SenderFns, Args)
        /\ \A f \in fewer : f.uid < NewUid(fewer)
        /\ Numbered(fewer \cup {new})
    BY <1>1, <1>2, ScheduleOne DEF new
  <2> QED
    BY <2>1, <2>2
<1>4. NewUid(fewer) \in Nat \ {0}
  BY <1>2, NewUidType
<1>5. new \in events' /\ new.uid = sendPacketEvent' /\ new.ts = at
  BY <1>3
<1> HIDE DEF new
<1>6. \A f \in events' : f.uid = sendPacketEvent' => f = new
  BY <1>5 DEF IInv, SenderInv, EventsOK
<1>7. (CHOOSE f \in events' : f.uid = sendPacketEvent') = new
  BY <1>5, <1>6, FoundByNumber
<1> QED
  BY <1>4, <1>5, <1>7 DEF Due, IsSending, NoEvent

\* Nothing but time changes.
LEMMA IdleStep ==
  ASSUME IInv, IInv', now' \in Nat, now' >= now, \A e \in events : now' <= e.ts,
         UNCHANGED <<socket, packetCount, sendPacketEvent, packets>>,
         \A f \in events : f.fn = "SendPacket" => f \in events'
  PROVE  PS!Next
<1>1. PS!TimePasses
  BY PassesToDue
<1>2. Due' = Due /\ Left' = Left /\ (socket = "open")' = (socket = "open")
  BY SameDue DEF Left
<1> QED
  BY <1>1, <1>2 DEF PS!Next, PS!Idle

\* Without an open socket nothing but time is seen.
LEMMA ClosedStep ==
  ASSUME IInv, now' \in Nat, now' >= now, \A e \in events : now' <= e.ts,
         socket # "open", socket' # "open"
  PROVE  PS!Next
<1>1. PS!TimePasses
  BY PassesToDue
<1>2. Due = 0 /\ Due' = 0 /\ Left = 0 /\ Left' = 0
  BY DEF Due, Left
<1> QED
  BY <1>1, <1>2 DEF PS!Next, PS!Idle

LEMMA CallPaces ==
  ASSUME IInv, IInv', NEW t \in now..MaxTime,
         \/ StartApplication(t) \/ StopApplication(t)
         \/ \E n \in Counts : Send(t, n)
  PROVE  PS!Next
<1>1. now' \in Nat /\ now' >= now /\ \A e \in events : now' <= e.ts
  <2>1. now \in Nat /\ now' \in Nat
    BY DEF IInv, TypeOK
  <2>2. now' = t /\ \A e \in events : t <= e.ts
    BY DEF StartApplication, StopApplication, Send, Outside
  <2> QED
    BY <2>1, <2>2, BoundsAssumption
<1>2. CASE StartApplication(t)
  <2>1. "StartApplication" \in lifecycle /\ socket # "disposed" /\ socket' = "open"
        /\ UNCHANGED <<packetCount, packets>> /\ sendPacketEvent' = NoEvent
    BY <1>2 DEF StartApplication, Called, Outside, Running
  <2>2. socket = "none" /\ packetCount = 0 /\ packets = <<>>
    BY <2>1 DEF IInv, SenderInv, NothingBeforeStart
  <2>3. Left = 0 /\ Left' = 0 /\ Due = 0 /\ Due' = 0
    BY <2>1, <2>2 DEF Left, Due, IsSending
  <2>4. PS!Open
    BY <1>1, <2>1, <2>2, <2>3, PassesToDue DEF PS!Open
  <2> QED
    BY <2>4 DEF PS!Next
<1>3. CASE StopApplication(t)
  <2>1. socket' # "open"
    BY <1>3 DEF StopApplication
  <2>2. CASE socket = "open"
    <3>1. Left' = 0 /\ Due' = 0
      BY <2>1 DEF Left, Due
    <3>2. PS!Close
      BY <1>1, <2>1, <2>2, <3>1, PassesToDue DEF PS!Close
    <3> QED
      BY <3>2 DEF PS!Next
  <2>3. CASE socket # "open"
    BY <1>1, <2>1, <2>3, ClosedStep
  <2> QED
    BY <2>2, <2>3
<1>4. CASE \E n \in Counts : Send(t, n)
  <2>1. events \subseteq events'
    BY <1>4 DEF Send, Deferred, Schedule
  <2>2. UNCHANGED <<socket, packetCount, sendPacketEvent, packets>>
    BY <1>4 DEF Send
  <2> QED
    BY <1>1, <2>1, <2>2, IdleStep
<1> QED
  BY <1>2, <1>3, <1>4

LEMMA EventPaces ==
  ASSUME IInv, IInv', NEW e \in events,
         ConnectionSucceeded(e) \/ ProcessSendRequest(e) \/ SendPacket(e)
  PROVE  PS!Next
<1>1. /\ IsNext(e, events) /\ now' = e.ts /\ socket' = socket
      /\ now' \in Nat /\ now' >= now /\ \A f \in events : now' <= f.ts
  <2>1. IsNext(e, events) /\ now' = e.ts /\ socket' = socket
    BY DEF ConnectionSucceeded, ProcessSendRequest, SendPacket, Runs
  <2> QED
    BY <2>1, NextEvent
<1>2. CASE socket # "open"
  BY <1>1, <1>2, ClosedStep
<1>3. CASE ConnectionSucceeded(e)
  <2>1. e.fn = "ConnectionSucceeded" /\ events' = events \ {e}
        /\ UNCHANGED <<packetCount, sendPacketEvent, packets>>
    BY <1>3 DEF ConnectionSucceeded, Runs
  <2> QED
    BY <1>1, <2>1, IdleStep
<1>4. CASE ProcessSendRequest(e) /\ ~Ready
  <2>1. e.fn = "ProcessSendRequest" /\ events' = events \ {e}
        /\ UNCHANGED <<packetCount, sendPacketEvent, packets>>
    BY <1>4 DEF ProcessSendRequest, Runs
  <2> QED
    BY <1>1, <2>1, IdleStep
<1>5. CASE ProcessSendRequest(e) /\ Ready /\ socket = "open"
  <2>1. e.fn = "ProcessSendRequest" /\ UNCHANGED packets
    BY <1>5 DEF ProcessSendRequest, Runs
  <2>2. packetCount' \in Nat \ {0}
    <3>1. e.msg \in DOMAIN requests
      BY <2>1 DEF IInv, SenderInv, EventsOK
    <3>2. requests \in Seq([at : Nat, n : Counts \ {0}, owed : Nat])
      BY DEF IInv, TypeOK
    <3>3. e.msg \in 1..Len(requests)
      BY <3>1, <3>2
    <3>4. requests[e.msg] \in [at : Nat, n : Counts \ {0}, owed : Nat]
      BY <3>2, <3>3, ElementOfSeq
    <3> QED
      BY <1>5, <3>4, CountsAssumption DEF ProcessSendRequest, CountAfter
  <2>3. Left' = packetCount'
    BY <1>1, <1>5 DEF Left
  <2>4. Due' = IF Due > now' THEN Due ELSE now'
    <3>1. CASE IsSending
      <4>1. events' = events \ {e} /\ UNCHANGED sendPacketEvent
        BY <1>5, <3>1 DEF ProcessSendRequest, NeedsEvent
      <4>2. Due' = Due
        BY <1>1, <2>1, <4>1, SameDue
      <4>3. Due >= now' /\ Due \in Nat
        BY <1>1, <1>5, <3>1, DueNow, EventTypes
      <4> QED
        BY <1>1, <4>2, <4>3
    <3>2. CASE ~IsSending
      <4>1. Due \in Nat /\ Due <= now
        BY <1>5, <3>2, DueNow
      <4>2. /\ events' = Schedule(events \ {e}, <<Entry(e.ts, "SendPacket", NoMessage)>>)
            /\ sendPacketEvent' = NewUid(events \ {e})
        BY <1>5, <3>2 DEF ProcessSendRequest, NeedsEvent
      <4>3. Due' = e.ts
        BY <1>1, <1>5, <2>1, <4>2, NewDue
      <4> QED
        BY <1>1, <4>1, <4>3, EventTypes
    <3> QED
      BY <3>1, <3>2
  <2>5. PS!Request
    BY <1>1, <1>5, <2>2, <2>3, <2>4, PassesToDue DEF PS!Request
  <2> QED
    BY <2>5 DEF PS!Next
<1>6. CASE SendPacket(e) /\ socket = "open"
  <2>1. e.fn = "SendPacket"
    BY <1>6 DEF SendPacket, Runs
  <2>2. Due = e.ts
    BY <1>6, <2>1, DueNow
  <2>3. CASE packetCount > 0
    <3>1. /\ events' = Schedule(events \ {e},
                         <<Entry(e.ts + PacketInterval, "SendPacket", NoMessage)>>)
          /\ sendPacketEvent' = NewUid(events \ {e})
          /\ packetCount' = packetCount - 1
      BY <1>6, <2>3 DEF SendPacket, PacketsLeft, NextSendPacket
    <3>2. e.ts + PacketInterval \in Nat
      BY <1>1, IntervalAssumption
    <3>3. Due' = e.ts + PacketInterval
      BY <1>1, <1>6, <3>1, <3>2, NewDue
    <3>4. Left = packetCount /\ Left' = packetCount - 1
      BY <1>1, <1>6, <3>1 DEF Left
    <3>5. PS!Packet
      BY <1>1, <1>6, <2>2, <2>3, <3>3, <3>4 DEF PS!Packet
    <3> QED
      BY <3>5 DEF PS!Next
  <2>4. CASE ~(packetCount > 0)
    <3>1. /\ packetCount = 0 /\ UNCHANGED <<packetCount, packets>>
          /\ sendPacketEvent' = NoEvent
      <4>1. packetCount \in Nat
        BY DEF IInv, TypeOK
      <4>2. packetCount = 0
        BY <2>4, <4>1
      <4> QED
        BY <1>6, <2>4, <4>2 DEF SendPacket, PacketsLeft
    <3>2. packets # <<>> /\ e.ts = FreeAt
      BY <1>6, <2>1, <3>1 DEF IInv, SenderInv, PaceKept
    <3>3. Due' = e.ts
      BY <1>1, <1>6, <3>1, <3>2 DEF Due, IsSending, FreeAt
    <3>4. Left' = Left
      BY <1>1, <3>1 DEF Left
    <3>5. PS!Idle
      BY <1>1, <1>6, <2>2, <3>3, <3>4, PassesToDue DEF PS!Idle
    <3> QED
      BY <3>5 DEF PS!Next
  <2> QED
    BY <2>3, <2>4
<1> QED
  BY <1>2, <1>3, <1>4, <1>5, <1>6

LEMMA PacesInit == Init => PS!Init
BY DEF Init, PS!Init, Left, Due

LEMMA PacesNext == IInv /\ IInv' /\ [Next]_vars => [PS!Next]_PS!vars
<1> SUFFICES ASSUME IInv, IInv', [Next]_vars
             PROVE  PS!Next \/ UNCHANGED PS!vars
  OBVIOUS
<1>1. CASE \E t \in now..MaxTime :
             \/ StartApplication(t) \/ StopApplication(t)
             \/ \E n \in Counts : Send(t, n)
  BY <1>1, CallPaces
<1>2. CASE \E e \in events :
             ConnectionSucceeded(e) \/ ProcessSendRequest(e) \/ SendPacket(e)
  BY <1>2, EventPaces
<1>3. CASE \/ \E t \in now..MaxTime : StartFails(t)
           \/ \E e \in events : ConnectionFailed(e) \/ SendPacketAsserts(e)
           \/ UNCHANGED vars
  <2>1. UNCHANGED <<now, events, socket, packetCount, sendPacketEvent, packets>>
    BY <1>3 DEF StartFails, ConnectionFailed, SendPacketAsserts, Abort, vars
  <2>2. Due' = Due /\ Left' = Left
    BY <2>1 DEF Due, Left, IsSending, FreeAt
  <2> QED
    BY <2>1, <2>2 DEF PS!vars
<1>4. CASE Dispose
  <2>1. now' = now /\ socket' = "disposed"
    BY <1>4 DEF Dispose
  <2>2. now \in Nat /\ now' >= now /\ \A e \in events : now' <= e.ts
    BY <2>1, EventTypes
  <2>3. CASE socket = "open"
    <3>1. Left' = 0 /\ Due' = 0
      BY <2>1 DEF Left, Due
    <3>2. PS!Close
      BY <2>1, <2>2, <2>3, <3>1, PassesToDue DEF PS!Close
    <3> QED
      BY <3>2 DEF PS!Next
  <2>4. CASE socket # "open"
    BY <2>1, <2>2, <2>4, ClosedStep
  <2> QED
    BY <2>3, <2>4
<1> QED
  BY <1>1, <1>2, <1>3, <1>4 DEF Next, Calls, Handlers, Terminating

\* The application implements the paced source: the packets of a request follow at
\* the interval and without delay, a request replaces the rest of the one before,
\* and no two packets are closer together than the interval (class comment of
\* triggered-send-application.h).
THEOREM Refinement == Spec => PacesItself
BY PacesInit, PacesNext, Invariance, PTL DEF Spec, PacesItself, PS!Spec

-----------------------------------------------------------------------------
(* The requests: when each packet is sent, and for which request.          *)

\* A request waits in the event list at the time it was made, and once only: it has
\* not taken effect, and no packet was sent for it.
RequestsWait ==
  /\ \A r \in DOMAIN requests : requests[r].at <= now
  /\ \A e \in events : e.fn = "ProcessSendRequest" =>
       /\ requests[e.msg].at = e.ts
       /\ e.msg # current
       /\ \A i \in DOMAIN packets : packets[i].request # e.msg
       /\ \A f \in events : f.fn = "ProcessSendRequest" /\ f.msg = e.msg => f = e

\* Packets are for requests that were made.
PacketsRequested ==
  /\ \A i \in DOMAIN packets : packets[i].request \in DOMAIN requests
  /\ packetCount > 0 => current # 0
  /\ socket = "none" => current = 0

\* When the next packet should be sent.
ShouldBeNext ==
  IF packets = <<>> \/ requests[current].at >= FreeAt
  THEN requests[current].at
  ELSE FreeAt

\* The event of the next packet is pending for that time.
NextOnTime ==
  socket = "open" /\ packetCount > 0 =>
    \A e \in events : e.fn = "SendPacket" => e.ts = ShouldBeNext

\* The packet that was due when a request was made was sent, or it comes before the
\* request in the event list.
OwedFirst ==
  socket \in {"none", "open"} =>
    \A e \in events : e.fn = "ProcessSendRequest" =>
      \/ requests[e.msg].owed <= Len(packets)
      \/ /\ requests[e.msg].owed = Len(packets) + 1
         /\ packetCount > 0
         /\ \E f \in events :
              f.fn = "SendPacket" /\ f.ts = e.ts /\ f.uid < e.uid

\* The inductive invariant, given IInv.
RInv ==
  /\ RequestsWait /\ PacketsRequested /\ NextOnTime /\ OwedFirst
  /\ OnSchedule /\ CountsAddUp

-----------------------------------------------------------------------------
(* Steps that neither make nor process a request nor send a packet.        *)

\* What these steps have in common.
Quiet ==
  /\ UNCHANGED <<requests, current, packets, packetCount>>
  /\ now' >= now
  /\ \A e \in events' :
       e.fn \in {"ProcessSendRequest", "SendPacket"} => e \in events
  /\ socket' \in {"none", "open"} /\ packetCount > 0 =>
       \A e \in events : e.fn = "SendPacket" => e \in events'
  /\ socket' = "none" => socket = "none"
  /\ socket' = "open" => socket \in {"none", "open"}

\* The types these proofs use.
LEMMA RequestTypes ==
  ASSUME IInv
  PROVE  /\ now \in Nat /\ packetCount \in Nat
         /\ requests \in Seq([at : Nat, n : Counts \ {0}, owed : Nat])
         /\ Len(requests) \in Nat /\ DOMAIN requests = 1..Len(requests)
         /\ current \in 0..Len(requests)
         /\ packets \in Seq([at : Nat, request : Nat, ok : BOOLEAN])
         /\ Len(packets) \in Nat /\ DOMAIN packets = 1..Len(packets)
         /\ \A r \in DOMAIN requests :
              requests[r].at \in Nat /\ requests[r].n \in Nat \ {0}
                /\ requests[r].owed \in Nat
         /\ \A i \in DOMAIN packets :
              packets[i].at \in Nat /\ packets[i].request \in Nat
<1>1. /\ now \in Nat /\ packetCount \in Nat
      /\ requests \in Seq([at : Nat, n : Counts \ {0}, owed : Nat])
      /\ current \in 0..Len(requests)
      /\ packets \in Seq([at : Nat, request : Nat, ok : BOOLEAN])
  BY DEF IInv, TypeOK
<1>2. Counts \ {0} \subseteq Nat \ {0}
  BY CountsAssumption
<1>3. /\ Len(requests) \in Nat /\ DOMAIN requests = 1..Len(requests)
      /\ Len(packets) \in Nat /\ DOMAIN packets = 1..Len(packets)
  BY <1>1
<1>4. \A r \in DOMAIN requests :
        requests[r] \in [at : Nat, n : Counts \ {0}, owed : Nat]
  BY <1>1, <1>3, ElementOfSeq
<1>5. \A i \in DOMAIN packets : packets[i] \in [at : Nat, request : Nat, ok : BOOLEAN]
  BY <1>1, <1>3, ElementOfSeq
<1> QED
  BY <1>1, <1>2, <1>3, <1>4, <1>5

\* The number of the packets that were sent for the request r.
Sent(sent, r) == Cardinality({i \in DOMAIN sent : sent[i].request = r})

\* CountsAddUp in terms of the packets, before and after a step.
LEMMA CountsInSent ==
  CountsAddUp <=>
    /\ \A r \in DOMAIN requests : Sent(packets, r) <= requests[r].n
    /\ socket = "open" /\ current # 0
         => Sent(packets, current) + packetCount = requests[current].n
BY DEF CountsAddUp, Served, Sent

LEMMA CountsInSentAfter ==
  CountsAddUp' <=>
    /\ \A r \in DOMAIN requests' : Sent(packets', r) <= requests'[r].n
    /\ socket' = "open" /\ current' # 0
         => Sent(packets', current') + packetCount' = requests'[current'].n
BY DEF CountsAddUp, Served, Sent

\* Quiet steps change nothing that the invariant says.
LEMMA QuietStep ==
  ASSUME IInv, IInv', RInv, Quiet
  PROVE  RInv'
<1>1. /\ UNCHANGED <<requests, current, packets, packetCount>>
      /\ now \in Nat /\ now' \in Nat /\ now' >= now
      /\ \A r \in DOMAIN requests : requests[r].at \in Nat
  BY RequestTypes DEF Quiet, IInv, TypeOK
<1>2. socket = "none" => packetCount = 0 /\ current = 0
  BY DEF IInv, SenderInv, NothingBeforeStart, RInv, PacketsRequested
<1>3. RequestsWait'
  BY <1>1 DEF RInv, RequestsWait, Quiet
<1>4. PacketsRequested'
  BY <1>1 DEF RInv, PacketsRequested, Quiet
<1>5. NextOnTime'
  BY <1>1, <1>2 DEF RInv, NextOnTime, ShouldBeNext, FreeAt, Quiet
<1>6. OwedFirst'
  <2> SUFFICES ASSUME socket' \in {"none", "open"}, NEW e \in events',
                      e.fn = "ProcessSendRequest"
               PROVE  \/ requests[e.msg].owed <= Len(packets)
                      \/ /\ requests[e.msg].owed = Len(packets) + 1
                         /\ packetCount > 0
                         /\ \E f \in events' :
                              f.fn = "SendPacket" /\ f.ts = e.ts /\ f.uid < e.uid
    BY <1>1 DEF OwedFirst
  <2>1. socket \in {"none", "open"} /\ e \in events
    BY DEF Quiet
  <2>2. \/ requests[e.msg].owed <= Len(packets)
        \/ /\ requests[e.msg].owed = Len(packets) + 1
           /\ packetCount > 0
           /\ \E f \in events :
                f.fn = "SendPacket" /\ f.ts = e.ts /\ f.uid < e.uid
    BY <2>1 DEF RInv, OwedFirst
  <2> QED
    BY <2>2 DEF Quiet
<1>7. OnSchedule'
  BY <1>1 DEF RInv, OnSchedule, ShouldBeAt
<1>8. CountsAddUp'
  BY <1>1, <1>2 DEF RInv, CountsAddUp, Served, Quiet
<1> QED
  BY <1>3, <1>4, <1>5, <1>6, <1>7, <1>8 DEF RInv

LEMMA CallsAreQuiet ==
  ASSUME IInv, NEW t \in now..MaxTime, StartApplication(t) \/ StopApplication(t)
  PROVE  Quiet
<1>1. /\ now \in Nat /\ now' = t /\ t >= now
      /\ UNCHANGED <<requests, current, packets, packetCount>>
  <2>1. now' = t /\ UNCHANGED <<requests, current, packets, packetCount>>
    BY DEF StartApplication, StopApplication
  <2> QED
    BY <2>1, RequestTypes, BoundsAssumption
<1>2. /\ WithoutSendPacket \in SUBSET events
      /\ \A e \in WithoutSendPacket : e.fn # "SendPacket"
  BY CancelledOK
<1>3. CASE StartApplication(t)
  <2>1. socket = "none" /\ socket' = "open"
    BY <1>3 DEF StartApplication, Outside, Running, Called, IInv, SenderInv,
                NothingBeforeStart
  <2>2. \A e \in events : e.fn = "ProcessSendRequest"
    BY <2>1 DEF IInv, SenderInv, NothingBeforeStart
  <2>3. \/ events' = Schedule(WithoutSendPacket, <<>>)
        \/ \E d \in t..MaxTime, fn \in {"ConnectionSucceeded", "ConnectionFailed"} :
             events' = Schedule(WithoutSendPacket, <<Entry(d, fn, NoMessage)>>)
    BY <1>3 DEF StartApplication, Answers
  <2>4. \A e \in events' :
          e.fn \in {"ProcessSendRequest", "SendPacket"} => e \in events
    <3>1. CASE events' = Schedule(WithoutSendPacket, <<>>)
      BY <1>2, <3>1 DEF Schedule
    <3>2. ASSUME NEW d \in t..MaxTime,
                 NEW fn \in {"ConnectionSucceeded", "ConnectionFailed"},
                 events' = Schedule(WithoutSendPacket, <<Entry(d, fn, NoMessage)>>)
          PROVE  \A e \in events' :
                   e.fn \in {"ProcessSendRequest", "SendPacket"} => e \in events
      BY <1>2, <3>2 DEF Schedule, Entry
    <3> QED
      BY <2>3, <3>1, <3>2
  <2> QED
    BY <1>1, <2>1, <2>2, <2>4 DEF Quiet
<1>4. CASE StopApplication(t)
  <2>1. /\ events' = WithoutSendPacket
        /\ socket' = IF socket = "none" THEN "none" ELSE "closed"
    BY <1>4 DEF StopApplication
  <2>2. socket = "none" => packetCount = 0
    BY DEF IInv, SenderInv, NothingBeforeStart
  <2> QED
    BY <1>1, <1>2, <2>1, <2>2 DEF Quiet
<1> QED
  BY <1>3, <1>4

LEMMA EventsAreQuiet ==
  ASSUME IInv, IInv', NEW e \in events,
         \/ ConnectionSucceeded(e)
         \/ ProcessSendRequest(e) /\ ~Ready
         \/ SendPacket(e) /\ ~(packetCount > 0)
  PROVE  Quiet
<1>1. /\ IsNext(e, events) /\ now' = e.ts /\ events' = events \ {e}
      /\ e.fn = "SendPacket" => ~(packetCount > 0)
      /\ UNCHANGED <<socket, requests, current, packets, packetCount>>
  BY DEF ConnectionSucceeded, ProcessSendRequest, SendPacket, Runs, PacketsLeft
<1>2. e.ts >= now
  BY <1>1, NextEvent
<1> QED
  BY <1>1, <1>2 DEF Quiet

LEMMA OthersAreQuiet ==
  ASSUME IInv,
         \/ Dispose \/ Terminating \/ UNCHANGED vars
         \/ \E t \in now..MaxTime : StartFails(t)
         \/ \E e \in events : ConnectionFailed(e) \/ SendPacketAsserts(e)
  PROVE  Quiet
<1>1. now \in Nat
  BY RequestTypes
<1>2. CASE Dispose
  <2>1. WithoutSendPacket \in SUBSET events
    BY CancelledOK
  <2> QED
    BY <1>1, <1>2, <2>1 DEF Dispose, Quiet
<1>3. CASE ~Dispose
  <2>1. /\ UNCHANGED <<now, events, socket, requests, current, packets, packetCount>>
        /\ socket = "open" => socket \in {"none", "open"}
    BY <1>3
    DEF Terminating, StartFails, ConnectionFailed, SendPacketAsserts, Abort, vars
  <2> QED
    BY <1>1, <2>1 DEF Quiet
<1> QED
  BY <1>2, <1>3

-----------------------------------------------------------------------------
(* A request is made.                                                      *)

LEMMA RequestStep ==
  ASSUME IInv, IInv', RInv, NEW t \in now..MaxTime, NEW n \in Counts, Send(t, n)
  PROVE  RInv'
<1> DEFINE r == Len(requests) + 1
           fn == "ProcessSendRequest"
           owed == IF IsDue(t) THEN Len(packets) + 1 ELSE 0
           request == [at |-> t, n |-> n, owed |-> owed]
           new == [ts |-> t, uid |-> NewUid(events), fn |-> fn, msg |-> r]
<1>1. /\ now \in Nat /\ now' = t /\ t \in Nat /\ t >= now
      /\ \A e \in events : t <= e.ts
      /\ UNCHANGED <<socket, packetCount, current, packets, sendPacketEvent>>
  BY RequestTypes DEF Send, Outside
<1>2. CASE ~(n > 0)
  <2>1. Quiet
    BY <1>1, <1>2 DEF Send, Quiet
  <2> QED
    BY <2>1, QuietStep
<1>3. CASE n > 0
  <2>1. /\ Len(requests) < MaxRequests
        /\ requests' = Append(requests, request)
        /\ events' = Schedule(events, <<Entry(t, fn, r)>>)
    BY <1>3 DEF Send, Deferred
  <2>2. /\ requests \in Seq([at : Nat, n : Counts \ {0}, owed : Nat])
        /\ Len(requests) \in Nat /\ r \in Nat \ {0} /\ Len(packets) \in Nat
        /\ DOMAIN requests = 1..Len(requests)
        /\ current \in 0..Len(requests) /\ owed \in Nat
    BY RequestTypes
  <2>3. request \in [at : Nat, n : Counts \ {0}, owed : Nat]
    BY <1>1, <1>3, <2>2
  <2> HIDE DEF request
  <2>4. /\ Len(requests') = r /\ DOMAIN requests' = 1..r
        /\ \A k \in DOMAIN requests : k # r /\ requests'[k] = requests[k]
        /\ requests'[r] = request
    BY <2>1, <2>2, <2>3
  <2>5. request.at = t /\ request.owed = owed
    BY DEF request
  <2>6. /\ events' = events \cup {new}
        /\ \A e \in events : e.uid < NewUid(events)
    <3>1. fn \in SenderFns /\ r \in Args
      BY <2>1, <2>2, BoundsAssumption DEF SenderFns, Args, Numbers
    <3>2. events \in SUBSET Events(SenderFns, Args) /\ Numbered(events)
      BY EventTypes
    <3> HIDE DEF fn, r, new
    <3>3. /\ Schedule(events, <<Entry(t, fn, r)>>) = events \cup {new}
          /\ new \in Events(SenderFns, Args)
          /\ \A e \in events : e.uid < NewUid(events)
          /\ Numbered(events \cup {new})
      BY <1>1, <3>1, <3>2, ScheduleOne DEF new
    <3> QED
      BY <2>1, <3>3
  <2>7. \A e \in events : e.fn = fn => e.msg \in DOMAIN requests
    BY DEF IInv, SenderInv, EventsOK
  <2>8. RequestsWait'
    <3>1. \A k \in DOMAIN requests' : requests'[k].at <= now'
      <4>1. \A k \in DOMAIN requests : requests[k].at \in Nat /\ requests[k].at <= now
        BY RequestTypes DEF RInv, RequestsWait
      <4>2. \A k \in DOMAIN requests' : k \in DOMAIN requests \/ k = r
        BY <2>2, <2>4
      <4> QED
        BY <1>1, <2>4, <2>5, <4>1, <4>2
    <3>2. ASSUME NEW e \in events, e.fn = fn
          PROVE  /\ requests'[e.msg].at = e.ts /\ e.msg # current
                 /\ \A i \in DOMAIN packets : packets[i].request # e.msg
                 /\ \A f \in events' : f.fn = fn /\ f.msg = e.msg => f = e
      BY <2>2, <2>4, <2>6, <2>7, <3>2 DEF RInv, RequestsWait
    <3>3. /\ requests'[new.msg].at = new.ts /\ new.msg # current
          /\ \A i \in DOMAIN packets : packets[i].request # new.msg
          /\ \A f \in events' : f.fn = fn /\ f.msg = new.msg => f = new
      BY <2>2, <2>4, <2>5, <2>6, <2>7 DEF RInv, PacketsRequested
    <3> QED
      BY <1>1, <2>6, <3>1, <3>2, <3>3 DEF RequestsWait
  <2>9. PacketsRequested'
    BY <1>1, <2>2, <2>4 DEF RInv, PacketsRequested
  <2>10. NextOnTime'
    <3>1. \A e \in events' : e.fn = "SendPacket" => e \in events
      BY <2>6
    <3>2. packetCount > 0 => current \in DOMAIN requests
      BY <2>2 DEF RInv, PacketsRequested
    <3> QED
      BY <1>1, <2>4, <3>1, <3>2 DEF RInv, NextOnTime, ShouldBeNext, FreeAt
  <2>11. OwedFirst'
    <3> SUFFICES ASSUME socket \in {"none", "open"}, NEW e \in events', e.fn = fn
                 PROVE  \/ requests'[e.msg].owed <= Len(packets)
                        \/ /\ requests'[e.msg].owed = Len(packets) + 1
                           /\ packetCount > 0
                           /\ \E f \in events' :
                                f.fn = "SendPacket" /\ f.ts = e.ts /\ f.uid < e.uid
      BY <1>1 DEF OwedFirst
    <3>1. CASE e \in events
      <4>1. requests'[e.msg] = requests[e.msg]
        BY <2>4, <2>7, <3>1
      <4> QED
        BY <2>6, <3>1, <4>1 DEF RInv, OwedFirst
    <3>2. CASE e = new
      <4>1. requests'[e.msg].owed = owed /\ e.ts = t /\ e.uid = NewUid(events)
        BY <2>4, <2>5, <3>2
      <4>2. CASE IsDue(t)
        <5>1. PICK f \in events : f.uid = sendPacketEvent /\ f.ts = t
          BY <4>2 DEF IsDue
        <5>2. f.fn = "SendPacket" /\ f.uid < e.uid /\ f \in events'
          BY <2>6, <4>1, <5>1 DEF IInv, SenderInv, OneSendPacket
        <5> QED
          BY <4>1, <4>2, <5>1, <5>2 DEF IsDue
      <4>3. CASE ~IsDue(t)
        BY <2>2, <4>1, <4>3
      <4> QED
        BY <4>2, <4>3
    <3> QED
      BY <2>6, <3>1, <3>2
  <2>12. OnSchedule'
    BY <1>1, <2>2, <2>4 DEF RInv, OnSchedule, ShouldBeAt, PacketsRequested
  <2>13. CountsAddUp'
    <3>1. Sent(packets, r) = 0
      <4>1. {i \in DOMAIN packets : packets[i].request = r} = {}
        BY <2>2, <2>4 DEF RInv, PacketsRequested
      <4> QED
        BY <4>1, FS_EmptySet DEF Sent
    <3>2. request.n = n /\ n \in Nat
      BY CountsAssumption DEF request
    <3>3. \A k \in DOMAIN requests' : k \in DOMAIN requests \/ k = r
      BY <2>2, <2>4
    <3>4. \A k \in DOMAIN requests' : Sent(packets, k) <= requests'[k].n
      BY <2>4, <3>1, <3>2, <3>3, CountsInSent DEF RInv
    <3>5. current # 0 => current \in DOMAIN requests
      BY <2>2
    <3> QED
      BY <1>1, <2>4, <3>4, <3>5, CountsInSent, CountsInSentAfter DEF RInv
  <2> QED
    BY <2>8, <2>9, <2>10, <2>11, <2>12, <2>13 DEF RInv
<1> QED
  BY <1>1, <1>2, <1>3, CountsAssumption

-----------------------------------------------------------------------------
(* A request takes effect.                                                 *)

\* A new SendPacket event follows an application event e at once, or at the end of
\* the interval.
LEMMA PacketEventAdded ==
  ASSUME IInv, NEW e \in events, NEW at \in Nat
  PROVE  LET after == Schedule(events \ {e},
                               <<Entry(at, "SendPacket", NoMessage)>>)
         IN  /\ events \ {e} \subseteq after
             /\ \A f \in after :
                  \/ f \in events \ {e}
                  \/ f.fn = "SendPacket" /\ f.ts = at
<1> DEFINE fn == "SendPacket"
           fewer == events \ {e}
           new == [ts |-> at, uid |-> NewUid(fewer), fn |-> fn, msg |-> NoMessage]
<1>1. fn \in SenderFns /\ NoMessage \in Args
  BY DEF SenderFns, Args
<1>2. fewer \in SUBSET Events(SenderFns, Args) /\ Numbered(fewer)
  BY EventTypes, FewerEvents
<1>3. Schedule(fewer, <<Entry(at, fn, NoMessage)>>) = fewer \cup {new}
  <2> HIDE DEF fn, NoMessage, new, fewer
  <2>1. /\ Schedule(fewer, <<Entry(at, fn, NoMessage)>>) = fewer \cup {new}
        /\ new \in Events(SenderFns, Args)
        /\ \A f \in fewer : f.uid < NewUid(fewer)
        /\ Numbered(fewer \cup {new})
    BY <1>1, <1>2, ScheduleOne DEF new
  <2> QED
    BY <2>1
<1>4. new.fn = "SendPacket" /\ new.ts = at
  OBVIOUS
<1> HIDE DEF new
<1> QED
  BY <1>3, <1>4

\* The pending packet event of a busy application is in time for a new request, and
\* an idle one has waited for the interval to end.
LEMMA InTime ==
  ASSUME IInv, RInv, NEW e \in events, IsNext(e, events), socket = "open",
         e.fn = "ProcessSendRequest"
  PROVE  LET free == packets = <<>> \/ e.ts >= FreeAt IN
         /\ ~IsSending => free
         /\ \A f \in events : f.fn = "SendPacket" =>
              f.ts = IF free THEN e.ts ELSE FreeAt
<1>1. /\ now \in Nat /\ e.ts \in Nat /\ e.ts >= now
      /\ \A f \in events : e.ts <= f.ts /\ f.ts \in Nat
      /\ packets # <<>> => FreeAt \in Nat
      /\ packetCount \in Nat
  BY NextEvent, EventTypes, FreeAtType, RequestTypes
<1>2. PaceKept
  BY DEF IInv, SenderInv
<1>3. ~IsSending => packets = <<>> \/ e.ts >= FreeAt
  BY <1>1, <1>2 DEF PaceKept
<1>4. ASSUME NEW f \in events, f.fn = "SendPacket"
      PROVE  f.ts = IF packets = <<>> \/ e.ts >= FreeAt THEN e.ts ELSE FreeAt
  <2>1. /\ packets # <<>> => FreeAt <= f.ts
        /\ packetCount = 0 => packets # <<>> /\ f.ts = FreeAt
    BY <1>2, <1>4 DEF PaceKept
  <2>2. CASE packetCount = 0
    BY <1>1, <2>1, <2>2
  <2>3. CASE packetCount > 0
    <3>1. f.ts = ShouldBeNext
      BY <1>4, <2>3 DEF RInv, NextOnTime
    <3>2. requests[current].at \in Nat /\ requests[current].at <= now
      BY <2>3, RequestTypes DEF RInv, PacketsRequested, RequestsWait
    <3> QED
      BY <1>1, <2>1, <3>1, <3>2 DEF ShouldBeNext
  <2> QED
    BY <1>1, <2>2, <2>3
<1> QED
  BY <1>3, <1>4

LEMMA TakesEffectStep ==
  ASSUME IInv, IInv', RInv, NEW e \in events, ProcessSendRequest(e), Ready
  PROVE  RInv'
<1> DEFINE r == e.msg
<1>1. /\ IsNext(e, events) /\ e.fn = "ProcessSendRequest" /\ now' = e.ts
      /\ packetCount' = requests[r].n /\ current' = r
      /\ UNCHANGED <<socket, requests, packets>>
      /\ socket # "none"
  BY DEF ProcessSendRequest, Runs, Ready, CountAfter
<1>2. /\ now \in Nat /\ e.ts \in Nat /\ e.ts >= now
      /\ \A f \in events : e.ts <= f.ts
  BY <1>1, NextEvent, EventTypes
<1>3. /\ r \in DOMAIN requests /\ r # 0 /\ requests[r].n \in Nat \ {0}
      /\ requests[r].at = e.ts
      /\ \A i \in DOMAIN packets : packets[i].request # r
  <2>1. r \in DOMAIN requests
    BY <1>1 DEF IInv, SenderInv, EventsOK
  <2>2. requests[r].n \in Nat \ {0} /\ r # 0
    BY <2>1, RequestTypes
  <2>3. /\ requests[r].at = e.ts
        /\ \A i \in DOMAIN packets : packets[i].request # r
    BY <1>1 DEF RInv, RequestsWait
  <2> QED
    BY <2>1, <2>2, <2>3
<1>4. /\ events \ {e} \subseteq events'
      /\ \A f \in events' :
           \/ f \in events \ {e}
           \/ ~IsSending /\ f.fn = "SendPacket" /\ f.ts = e.ts
  <2>1. CASE IsSending
    BY <1>1, <2>1 DEF ProcessSendRequest, NeedsEvent
  <2>2. CASE ~IsSending
    <3>1. events' = Schedule(events \ {e}, <<Entry(e.ts, "SendPacket", NoMessage)>>)
      BY <2>2 DEF ProcessSendRequest, NeedsEvent
    <3> QED
      BY <1>2, <2>2, <3>1, PacketEventAdded
  <2> QED
    BY <2>1, <2>2
<1> HIDE DEF r
<1>5. \A f \in events' : f.fn = "ProcessSendRequest" =>
        f \in events /\ f # e /\ f.msg # r
  BY <1>1, <1>4 DEF RInv, RequestsWait, r
<1>6. RequestsWait'
  <2>1. \A k \in DOMAIN requests : requests[k].at <= now'
    BY <1>1, <1>2, RequestTypes DEF RInv, RequestsWait
  <2> QED
    BY <1>1, <1>5, <2>1 DEF RInv, RequestsWait
<1>7. PacketsRequested'
  BY <1>1, <1>3 DEF RInv, PacketsRequested
<1>8. NextOnTime'
  <2> SUFFICES ASSUME socket = "open", NEW f \in events', f.fn = "SendPacket"
               PROVE  f.ts = IF packets = <<>> \/ e.ts >= FreeAt THEN e.ts ELSE FreeAt
    BY <1>1, <1>3 DEF NextOnTime, ShouldBeNext, FreeAt
  <2>1. CASE f \in events
    BY <1>1, <2>1, InTime
  <2>2. CASE f \notin events
    BY <1>1, <1>4, <2>2, InTime
  <2> QED
    BY <2>1, <2>2
<1>9. OwedFirst'
  <2> SUFFICES ASSUME socket \in {"none", "open"}, NEW f \in events',
                      f.fn = "ProcessSendRequest"
               PROVE  \/ requests[f.msg].owed <= Len(packets)
                      \/ /\ requests[f.msg].owed = Len(packets) + 1
                         /\ packetCount' > 0
                         /\ \E g \in events' :
                              g.fn = "SendPacket" /\ g.ts = f.ts /\ g.uid < f.uid
    BY <1>1 DEF OwedFirst
  <2>1. f \in events
    BY <1>5
  <2>2. \A g \in events : g.fn = "SendPacket" => g \in events'
    BY <1>1, <1>4
  <2>3. packetCount' > 0
    BY <1>1, <1>3
  <2> QED
    BY <2>1, <2>2, <2>3 DEF RInv, OwedFirst
<1>10. OnSchedule'
  BY <1>1 DEF RInv, OnSchedule, ShouldBeAt
<1>11. CountsAddUp'
  <2>1. {i \in DOMAIN packets : packets[i].request = r} = {}
    BY <1>3
  <2>2. Sent(packets, r) = 0
    BY <2>1, FS_EmptySet DEF Sent
  <2> QED
    BY <1>1, <1>3, <2>2, CountsInSent, CountsInSentAfter DEF RInv
<1> QED
  BY <1>6, <1>7, <1>8, <1>9, <1>10, <1>11 DEF RInv

-----------------------------------------------------------------------------
(* A packet is sent.                                                       *)

\* One packet more counts for its request only.
LEMMA SentOneMore ==
  ASSUME NEW T, NEW sent \in Seq(T), NEW p \in T, NEW r
  PROVE  /\ Sent(sent, r) \in Nat
         /\ Sent(Append(sent, p), r) =
              IF p.request = r THEN Sent(sent, r) + 1 ELSE Sent(sent, r)
<1> DEFINE last == Len(sent) + 1
           before == {i \in DOMAIN sent : sent[i].request = r}
           after == {i \in DOMAIN Append(sent, p) : Append(sent, p)[i].request = r}
<1>1. /\ Len(sent) \in Nat /\ DOMAIN sent = 1..Len(sent)
      /\ DOMAIN Append(sent, p) = 1..last
      /\ Append(sent, p)[last] = p
      /\ \A i \in 1..Len(sent) : Append(sent, p)[i] = sent[i]
  OBVIOUS
<1>2. IsFiniteSet(before) /\ Cardinality(before) \in Nat
  <2>1. IsFiniteSet(1..Len(sent)) /\ before \in SUBSET (1..Len(sent))
    BY <1>1, FS_Interval
  <2>2. IsFiniteSet(before)
    BY <2>1, FS_Subset
  <2> QED
    BY <2>2, FS_CardinalityType
<1>3. last \notin before
  BY <1>1
<1>4. after = IF p.request = r THEN before \cup {last} ELSE before
  BY <1>1
<1> HIDE DEF before, after, last
<1>5. Cardinality(before \cup {last}) = Cardinality(before) + 1
  BY <1>2, <1>3, FS_AddElement
<1>6. Cardinality(after) =
        IF p.request = r THEN Cardinality(before) + 1 ELSE Cardinality(before)
  BY <1>4, <1>5
<1> QED
  BY <1>2, <1>6 DEF Sent, before, after

\* What every packet event does that has a packet.
LEMMA PacketEvent ==
  ASSUME IInv, RInv, NEW e \in events, SendPacket(e), packetCount > 0
  PROVE  /\ now' = e.ts /\ e.ts \in Nat /\ e.ts >= now
         /\ e.fn = "SendPacket" /\ socket \in {"open", "closed"}
         /\ packetCount' = packetCount - 1
         /\ UNCHANGED <<socket, requests, current>>
         /\ current \in DOMAIN requests
         /\ \A f \in events' :
              \/ f \in events /\ f.fn # "SendPacket"
              \/ f.fn = "SendPacket" /\ f.ts = e.ts + PacketInterval
<1>1. /\ IsNext(e, events) /\ e.fn = "SendPacket" /\ now' = e.ts
      /\ packetCount' = packetCount - 1
      /\ UNCHANGED <<socket, requests, current>>
      /\ events' = Schedule(events \ {e},
                     <<Entry(e.ts + PacketInterval, "SendPacket", NoMessage)>>)
  BY DEF SendPacket, Runs, PacketsLeft, NextSendPacket
<1>2. e.ts \in Nat /\ e.ts >= now /\ e.ts + PacketInterval \in Nat
  BY <1>1, NextEvent, IntervalAssumption
<1>3. socket \in {"open", "closed"}
  BY <1>1 DEF IInv, SenderInv, SocketThere
<1>4. current \in DOMAIN requests
  BY RequestTypes DEF RInv, PacketsRequested
<1>5. \A f \in events : f.fn = "SendPacket" => f = e
  BY <1>1 DEF IInv, SenderInv, OneSendPacket, EventsOK
<1>6. \A f \in events' :
        \/ f \in events /\ f # e
        \/ f.fn = "SendPacket" /\ f.ts = e.ts + PacketInterval
  BY <1>1, <1>2, PacketEventAdded
<1> QED
  BY <1>1, <1>2, <1>3, <1>4, <1>5, <1>6

LEMMA PacketSentStep ==
  ASSUME IInv, IInv', RInv, NEW e \in events, SendPacket(e), packetCount > 0
  PROVE  RInv'
<1>1. /\ now' = e.ts /\ e.ts \in Nat /\ e.ts >= now
      /\ e.fn = "SendPacket" /\ socket \in {"open", "closed"}
      /\ packetCount' = packetCount - 1
      /\ UNCHANGED <<socket, requests, current>>
      /\ current \in DOMAIN requests
      /\ \A f \in events' :
           \/ f \in events /\ f.fn # "SendPacket"
           \/ f.fn = "SendPacket" /\ f.ts = e.ts + PacketInterval
  BY PacketEvent
<1>2. /\ now \in Nat /\ packetCount \in Nat
      /\ Len(packets) \in Nat /\ DOMAIN packets = 1..Len(packets)
      /\ packets \in Seq([at : Nat, request : Nat, ok : BOOLEAN])
      /\ \A k \in DOMAIN requests : requests[k].at \in Nat /\ requests[k].at <= now
      /\ DOMAIN requests = 1..Len(requests) /\ Len(requests) \in Nat
  BY RequestTypes DEF RInv, RequestsWait
<1>3. \A k \in DOMAIN requests : requests[k].at <= now'
  BY <1>1, <1>2
<1>4. CASE socket = "closed"
  <2>1. UNCHANGED packets
    BY <1>4 DEF SendPacket, PacketsLeft
  <2>2. RequestsWait'
    BY <1>1, <1>3, <2>1 DEF RInv, RequestsWait
  <2>3. PacketsRequested'
    BY <1>1, <1>2, <2>1 DEF RInv, PacketsRequested
  <2>4. NextOnTime' /\ OwedFirst'
    BY <1>1, <1>4 DEF NextOnTime, OwedFirst
  <2>5. OnSchedule'
    BY <1>1, <2>1 DEF RInv, OnSchedule, ShouldBeAt
  <2>6. CountsAddUp'
    BY <1>1, <1>4, <2>1, CountsInSent, CountsInSentAfter DEF RInv
  <2> QED
    BY <2>2, <2>3, <2>4, <2>5, <2>6 DEF RInv
<1>5. CASE socket = "open"
  <2>1. PICK ok \in {TRUE, ~SendMayFail} :
          packets' = Append(packets, [at |-> e.ts, request |-> current, ok |-> ok])
    BY <1>5 DEF SendPacket, PacketsLeft
  <2> DEFINE packet == [at |-> e.ts, request |-> current, ok |-> ok]
  <2>2. /\ packet \in [at : Nat, request : Nat, ok : BOOLEAN]
        /\ packet.at = e.ts /\ packet.request = current
    <3>1. ok \in BOOLEAN
      BY SendAssumption
    <3>2. current \in Nat
      BY <1>1, <1>2
    <3> QED
      BY <1>1, <3>1, <3>2
  <2> HIDE DEF packet
  <2>3. PICK last \in Nat \ {0} : last = Len(packets) + 1
    BY <1>2
  <2>4. /\ packets' = Append(packets, packet)
        /\ Len(packets') = last /\ DOMAIN packets' = 1..last /\ packets' # <<>>
        /\ packets'[last] = packet
        /\ \A i \in DOMAIN packets : packets'[i] = packets[i] /\ i # last
        /\ \A i \in DOMAIN packets' : i \in DOMAIN packets \/ i = last
    <3>1. packets' = Append(packets, packet)
      BY <2>1 DEF packet
    <3> QED
      BY <1>2, <2>3, <2>2, <3>1
  <2>5. last - 1 = Len(packets) /\ (last = 1 <=> packets = <<>>)
    BY <1>2, <2>3
  <2>6. RequestsWait'
    <3>1. ASSUME NEW f \in events', f.fn = "ProcessSendRequest"
          PROVE  /\ f \in events /\ f.msg # current
                 /\ \A i \in DOMAIN packets' : packets'[i].request # f.msg
      BY <1>1, <2>2, <2>4, <3>1 DEF RInv, RequestsWait
    <3> QED
      BY <1>1, <1>3, <3>1 DEF RInv, RequestsWait
  <2>7. PacketsRequested'
    BY <1>1, <1>2, <2>2, <2>4 DEF RInv, PacketsRequested
  <2>8. NextOnTime'
    <3>1. FreeAt' = e.ts + PacketInterval
      BY <2>2, <2>4 DEF FreeAt
    <3>2. requests[current].at \in Nat /\ requests[current].at < FreeAt'
      BY <1>1, <1>2, <3>1, IntervalAssumption
    <3>3. ShouldBeNext' = FreeAt'
      BY <1>1, <2>4, <3>1, <3>2, IntervalAssumption DEF ShouldBeNext
    <3> QED
      BY <1>1, <3>1, <3>3 DEF NextOnTime
  <2>9. OwedFirst'
    <3> SUFFICES ASSUME NEW f \in events', f.fn = "ProcessSendRequest"
                 PROVE  requests[f.msg].owed <= last
      BY <1>1, <2>4 DEF OwedFirst
    <3>1. f \in events /\ f.msg \in DOMAIN requests
      BY <1>1 DEF IInv, SenderInv, EventsOK
    <3>2. requests[f.msg].owed \in Nat
      BY <3>1, RequestTypes
    <3> QED
      BY <1>2, <1>5, <2>3, <3>1, <3>2 DEF RInv, OwedFirst
  <2>10. OnSchedule'
    <3>1. ASSUME NEW i \in DOMAIN packets
          PROVE  packets'[i].at = ShouldBeAt(i)'
      <4>1. i # 1 => i - 1 \in DOMAIN packets
        BY <1>2
      <4>2. ShouldBeAt(i)' = ShouldBeAt(i)
        BY <1>1, <2>4, <4>1 DEF ShouldBeAt
      <4> QED
        BY <2>4, <4>2 DEF RInv, OnSchedule
    <3>2. packets'[last].at = ShouldBeAt(last)'
      <4>1. e.ts = ShouldBeNext
        BY <1>1, <1>5 DEF RInv, NextOnTime
      <4>2. packets # <<>> => Len(packets) \in DOMAIN packets
        BY <1>2, <2>5
      <4>3. packets # <<>> => packets'[last - 1] = packets[Len(packets)]
        BY <2>4, <2>5, <4>2
      <4>4. ShouldBeAt(last)' = ShouldBeNext
        BY <1>1, <2>2, <2>4, <2>5, <4>3 DEF ShouldBeAt, ShouldBeNext, FreeAt
      <4> QED
        BY <2>2, <2>4, <4>1, <4>4
    <3> QED
      BY <2>4, <3>1, <3>2 DEF OnSchedule
  <2>11. CountsAddUp'
    <3>1. \A k : /\ Sent(packets, k) \in Nat
                 /\ Sent(packets', k) = IF current = k THEN Sent(packets, k) + 1
                                        ELSE Sent(packets, k)
      <4> DEFINE T == [at : Nat, request : Nat, ok : BOOLEAN]
      <4>1. packets \in Seq(T) /\ packet \in T
        BY <1>2, <2>2
      <4> HIDE DEF T
      <4> SUFFICES ASSUME NEW k
                   PROVE  /\ Sent(packets, k) \in Nat
                          /\ Sent(packets', k) = IF current = k
                                                 THEN Sent(packets, k) + 1
                                                 ELSE Sent(packets, k)
        OBVIOUS
      <4>2. /\ Sent(packets, k) \in Nat
            /\ Sent(Append(packets, packet), k) =
                 IF packet.request = k THEN Sent(packets, k) + 1
                 ELSE Sent(packets, k)
        BY <4>1, SentOneMore
      <4> QED
        BY <2>2, <2>4, <4>2
    <3>2. current # 0
      BY <1>1, <1>2
    <3>3. Sent(packets, current) + packetCount = requests[current].n
      BY <1>5, <3>2, CountsInSent DEF RInv
    <3>4. \A k \in DOMAIN requests : Sent(packets, k) <= requests[k].n
      BY CountsInSent DEF RInv
    <3>5. \A k \in DOMAIN requests : Sent(packets', k) <= requests[k].n
      <4>1. Sent(packets', current) <= requests[current].n
        BY <1>2, <3>1, <3>3
      <4>2. \A k \in DOMAIN requests : k # current =>
              Sent(packets', k) <= requests[k].n
        BY <3>1, <3>4
      <4> QED
        BY <4>1, <4>2
    <3>6. Sent(packets', current) + packetCount' = requests[current].n
      BY <1>1, <1>2, <3>1, <3>3
    <3> QED
      BY <1>1, <3>5, <3>6, CountsInSentAfter
  <2> QED
    BY <2>6, <2>7, <2>8, <2>9, <2>10, <2>11 DEF RInv
<1> QED
  BY <1>1, <1>4, <1>5

-----------------------------------------------------------------------------
(* The theorems.                                                           *)

LEMMA RInvInit == Init => RInv
BY DEF Init, RInv, RequestsWait, PacketsRequested, NextOnTime, OwedFirst, OnSchedule,
       CountsAddUp

LEMMA RInvNext == IInv /\ IInv' /\ RInv /\ [Next]_vars => RInv'
<1> SUFFICES ASSUME IInv, IInv', RInv, [Next]_vars PROVE RInv'
  OBVIOUS
<1>1. CASE \E t \in now..MaxTime :
             \/ StartApplication(t) \/ StopApplication(t)
             \/ \E n \in Counts : Send(t, n)
  BY <1>1, CallsAreQuiet, QuietStep, RequestStep
<1>2. CASE \E e \in events :
             ConnectionSucceeded(e) \/ ProcessSendRequest(e) \/ SendPacket(e)
  BY <1>2, EventsAreQuiet, QuietStep, TakesEffectStep, PacketSentStep
<1>3. CASE \/ Dispose \/ Terminating \/ UNCHANGED vars
           \/ \E t \in now..MaxTime : StartFails(t)
           \/ \E e \in events : ConnectionFailed(e) \/ SendPacketAsserts(e)
  BY <1>3, OthersAreQuiet, QuietStep
<1> QED
  BY <1>1, <1>2, <1>3 DEF Next, Calls, Handlers

LEMMA RequestsInvariance == Spec => [](IInv /\ RInv)
<1>1. Init => IInv /\ RInv
  BY IInvInit, RInvInit
<1>2. IInv /\ RInv /\ [Next]_vars => (IInv /\ RInv)'
  BY IInvNext, RInvNext
<1> QED
  BY <1>1, <1>2, PTL DEF Spec

\* Every packet is sent exactly when its request was made or one interval after the
\* packet before it, across interruptions and the ends of requests, for every
\* interval and all times of the calls (triggered-send-application.cc:239-250, 298
\* and 302; triggered-send-example.cc:102-119).
THEOREM PacketsOnTime == Spec => []OnSchedule
<1>1. RInv => OnSchedule
  BY DEF RInv
<1> QED
  BY <1>1, RequestsInvariance, PTL

\* What was sent for a request and what is left of it add up to what it asked for
\* (triggered-send-application.cc:243, 248 and 297).
THEOREM CountsAreKept == Spec => []CountsAddUp
<1>1. RInv => CountsAddUp
  BY DEF RInv
<1> QED
  BY <1>1, RequestsInvariance, PTL

\* A request that is made when a packet is due takes effect only after that packet:
\* the event list runs the packet's event first
\* (triggered-send-application.cc:116-119).
THEOREM DueGoesFirst == Spec => DuePacketFirst
<1> DEFINE Owed == \A r \in DOMAIN requests :
                     current # r /\ current' = r /\ socket = "open"
                       => Len(packets) >= requests[r].owed
<1>1. IInv /\ RInv /\ [Next]_vars => Owed \/ UNCHANGED vars
  <2> SUFFICES ASSUME IInv, RInv, Next, NEW r \in DOMAIN requests,
                      current # r, current' = r, socket = "open"
               PROVE  Len(packets) >= requests[r].owed
    OBVIOUS
  <2>1. PICK e \in events : ProcessSendRequest(e) /\ Ready
    BY DEF Next, Calls, Handlers, Dispose, Terminating, vars, StartApplication,
           StartFails, StopApplication, Send, ConnectionSucceeded, ConnectionFailed,
           ProcessSendRequest, SendPacket, SendPacketAsserts, Abort
  <2>2. e.fn = "ProcessSendRequest" /\ e.msg = r /\ IsNext(e, events)
    BY <2>1 DEF ProcessSendRequest, Runs
  <2>3. ~\E f \in events : f.fn = "SendPacket" /\ f.ts = e.ts /\ f.uid < e.uid
    <3> SUFFICES ASSUME NEW f \in events, f.fn = "SendPacket", f.ts = e.ts,
                        f.uid < e.uid
                 PROVE  FALSE
      OBVIOUS
    <3>1. /\ e.ts \in Nat /\ e.uid \in Nat /\ f.uid \in Nat /\ f # e
      BY <2>2, EventTypes
    <3>2. e.ts < f.ts \/ (e.ts = f.ts /\ e.uid < f.uid)
      BY <2>2, <3>1 DEF IsNext
    <3> QED
      BY <3>1, <3>2
  <2>4. requests[r].owed <= Len(packets)
    BY <2>2, <2>3 DEF RInv, OwedFirst
  <2> QED
    BY <2>4, RequestTypes
<1> QED
  BY <1>1, RequestsInvariance, PTL DEF Spec, DuePacketFirst
=============================================================================
