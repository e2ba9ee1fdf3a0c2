---------------------------- MODULE DeliveryProofs ----------------------------
(***************************************************************************)
(* Proofs about what becomes of the messages in Gateway: none is lost,     *)
(* duplicated or overtaken between the server's send and its callback, for *)
(* every server; and what a server whose stamps increase can rely on.      *)
(*                                                                         *)
(* The messages are numbered as they are sent, so ForwardUp has seen those *)
(* up to some number and the rest is on its way, in three buffers.  What   *)
(* was seen sits in the argument of one event, until its callback runs.    *)
(***************************************************************************)
EXTENDS QueueProofs

\* The number of messages that ForwardUp has not seen, and of those it has.
Unseen == Len(messageQueue) + Len(messageBuffer) + Len(stream)
Seen == Len(sent) - Unseen

\* What is on its way are the messages after those seen, in their order.
InOrder ==
  /\ Seen >= 0
  /\ \A i \in 1..Len(messageQueue) : messageQueue[i] = Seen + i
  /\ \A i \in 1..Len(messageBuffer) :
       messageBuffer[i] = Seen + Len(messageQueue) + i
  /\ \A i \in 1..Len(stream) :
       stream[i] = Seen + Len(messageQueue) + Len(messageBuffer) + i

\* Where message m is: in an event, or among the messages delivered.
Carrying(es, m) == {e \in es : e.msg = m}
Carried(m) == Carrying(events, m)
Reached(m) == {i \in DOMAIN delivered : delivered[i].msg = m}

\* Only the events of the callbacks have an argument.
CallbacksCarry == \A e \in events : e.fn \notin CallbackFns => e.msg = NoMessage

\* Message m has been seen and was no request to terminate.
Forwarding(m) == m <= Seen /\ ~(sent[m] < 0)

\* Message m is in one place if ForwardUp has passed it on, and in none otherwise.
Placed(m) ==
  /\ Forwarding(m) =>
       \/ (\E e \in events : Carried(m) = {e}) /\ Reached(m) = {}
       \/ Carried(m) = {} /\ (\E i \in DOMAIN delivered : Reached(m) = {i})
  /\ ~Forwarding(m) => Carried(m) = {} /\ Reached(m) = {}

DeliveryInv == InOrder /\ CallbacksCarry /\ \A m \in Messages : Placed(m)

-----------------------------------------------------------------------------
(* The messages on their way.                                              *)

LEMMA BufferTypes ==
  ASSUME IInv
  PROVE  /\ messageQueue \in Seq(Messages) /\ Len(messageQueue) \in Nat
         /\ messageBuffer \in Seq(Messages) /\ Len(messageBuffer) \in Nat
         /\ stream \in Seq(Messages) /\ Len(stream) \in Nat
         /\ sent \in Seq(Headers) /\ Len(sent) \in Nat
         /\ Seen \in Int /\ Seen <= Len(sent)
<1>1. /\ messageQueue \in Seq(Messages) /\ messageBuffer \in Seq(Messages)
      /\ stream \in Seq(Messages) /\ sent \in Seq(Headers)
  BY DEF IInv, TypeOK
<1>2. /\ Len(messageQueue) \in Nat /\ Len(messageBuffer) \in Nat
      /\ Len(stream) \in Nat /\ Len(sent) \in Nat
  BY <1>1, LenProperties
<1> QED
  BY <1>1, <1>2 DEF Seen, Unseen

LEMMA OrderKept ==
  ASSUME InOrder, UNCHANGED <<messageQueue, messageBuffer, stream, sent>>
  PROVE  InOrder' /\ Seen' = Seen
BY DEF InOrder, Seen, Unseen

\* ForwardUp takes the first message that was not seen.
LEMMA OrderForward ==
  ASSUME IInv, InOrder, messageQueue # <<>>, messageQueue' = Tail(messageQueue),
         UNCHANGED <<messageBuffer, stream, sent>>
  PROVE  /\ InOrder' /\ Seen' = Seen + 1
         /\ Message = Seen + 1 /\ Message \in 1..Len(sent)
<1> DEFINE q == messageQueue
           n == Len(messageQueue)
<1>1. /\ q \in Seq(Messages) /\ n \in Nat /\ Len(messageBuffer) \in Nat
      /\ Len(stream) \in Nat /\ Len(sent) \in Nat /\ Seen \in Int
  BY BufferTypes
<1>2. n >= 1 /\ Head(q) = q[1]
  BY <1>1
<1>3. Len(Tail(q)) = n - 1 /\ \A i \in 1..(n - 1) : Tail(q)[i] = q[i + 1]
  BY <1>1, <1>2
<1>4. Len(messageQueue') = n - 1 /\ \A i \in 1..(n - 1) : messageQueue'[i] = q[i + 1]
  BY <1>3
<1>5. \A i \in 1..n : q[i] = Seen + i
  BY DEF InOrder
<1>6. Seen' = Seen + 1
  BY <1>1, <1>4 DEF Seen, Unseen
<1>7. Message = Seen + 1 /\ Message \in 1..Len(sent)
  <2>1. Message = Seen + 1 /\ Seen >= 0
    BY <1>1, <1>2, <1>5 DEF Message, InOrder
  <2>2. Seen + n <= Len(sent)
    BY <1>1 DEF Seen, Unseen
  <2> QED
    BY <1>1, <1>2, <2>1, <2>2
<1> HIDE DEF q, n
<1>8. InOrder'
  <2>1. Seen' >= 0
    BY <1>1, <1>6 DEF InOrder
  <2>2. \A i \in 1..Len(messageQueue') : messageQueue'[i] = Seen' + i
    <3> SUFFICES ASSUME NEW i \in 1..(n - 1) PROVE messageQueue'[i] = Seen' + i
      BY <1>4
    <3>1. i + 1 \in 1..n
      BY <1>1
    <3>2. q[i + 1] = Seen + (i + 1)
      BY <1>5, <3>1
    <3> QED
      BY <1>1, <1>4, <1>6, <3>2
  <2>3. Seen' + Len(messageQueue') = Seen + Len(messageQueue)
    BY <1>1, <1>4, <1>6 DEF n
  <2>4. \A i \in 1..Len(messageBuffer') :
          messageBuffer'[i] = Seen' + Len(messageQueue') + i
    BY <2>3 DEF InOrder
  <2>5. \A i \in 1..Len(stream') :
          stream'[i] = Seen' + Len(messageQueue') + Len(messageBuffer') + i
    BY <2>3 DEF InOrder
  <2> QED
    BY <2>1, <2>2, <2>4, <2>5 DEF InOrder
<1> QED
  BY <1>6, <1>7, <1>8

\* The other thread moves messages from one buffer to the next.
LEMMA OrderThread ==
  ASSUME IInv, InOrder, Thread \/ ThreadRecvFails
  PROVE  InOrder' /\ Seen' = Seen
<1>1. /\ messageQueue \in Seq(Messages) /\ Len(messageQueue) \in Nat
      /\ messageBuffer \in Seq(Messages) /\ Len(messageBuffer) \in Nat
      /\ stream \in Seq(Messages) /\ Len(stream) \in Nat
      /\ Len(sent) \in Nat /\ Seen \in Int
  BY BufferTypes
<1>2. sent' = sent
  BY DEF Thread, ThreadCheck, ThreadRecv, ThreadHangup, ThreadRecvFails, ThreadPush,
         ThreadForward, ThreadScheduleStop, ThreadFrame
<1>3. CASE ThreadRecv
  <2>1. PICK k \in 1..Len(stream) :
          /\ messageBuffer' = SubSeq(stream, 1, k)
          /\ stream' = SubSeq(stream, k + 1, Len(stream))
    BY <1>3 DEF ThreadRecv
  <2>2. messageBuffer = <<>> /\ messageQueue' = messageQueue
    BY <1>3 DEF ThreadRecv
  <2>3. /\ Len(messageBuffer') = k
        /\ \A i \in 1..k : messageBuffer'[i] = stream[i]
    BY <1>1, <2>1
  <2>4. /\ Len(stream') = Len(stream) - k
        /\ \A i \in 1..(Len(stream) - k) : stream'[i] = stream[k + i]
    BY <1>1, <2>1
  <2>5. Len(messageBuffer) = 0
    BY <2>2
  <2>6. Seen' = Seen
    BY <1>1, <1>2, <2>2, <2>3, <2>4, <2>5 DEF Seen, Unseen
  <2>7. \A i \in 1..Len(stream) : stream[i] = Seen + Len(messageQueue) + i
    BY <1>1, <2>5 DEF InOrder
  <2>8. \A i \in 1..Len(messageBuffer') :
          messageBuffer'[i] = Seen' + Len(messageQueue') + i
    BY <1>1, <2>2, <2>3, <2>6, <2>7
  <2>9. \A i \in 1..Len(stream') :
          stream'[i] = Seen' + Len(messageQueue') + Len(messageBuffer') + i
    <3> SUFFICES ASSUME NEW i \in 1..(Len(stream) - k)
                 PROVE  stream'[i] = Seen + Len(messageQueue) + k + i
      BY <2>2, <2>3, <2>4, <2>6
    <3>1. k + i \in 1..Len(stream)
      BY <1>1
    <3>2. stream[k + i] = Seen + Len(messageQueue) + (k + i)
      BY <2>7, <3>1
    <3> QED
      BY <1>1, <2>4, <3>2
  <2> QED
    BY <2>2, <2>6, <2>8, <2>9 DEF InOrder
<1>4. CASE ThreadPush
  <2> DEFINE q == messageQueue
             b == messageBuffer
             n == Len(messageQueue)
             l == Len(messageBuffer)
  <2>1. b # <<>> /\ messageQueue' = Append(q, Head(b)) /\ messageBuffer' = Tail(b)
        /\ stream' = stream
    BY <1>4 DEF ThreadPush, Pushed
  <2>2. l >= 1 /\ Head(b) = b[1] /\ Head(b) \in Messages
    BY <1>1, <2>1
  <2>3. /\ Len(messageQueue') = n + 1 /\ messageQueue'[n + 1] = b[1]
        /\ \A i \in 1..n : messageQueue'[i] = q[i]
    BY <1>1, <2>1, <2>2
  <2>4. /\ Len(messageBuffer') = l - 1
        /\ \A i \in 1..(l - 1) : messageBuffer'[i] = b[i + 1]
    BY <1>1, <2>1, <2>2
  <2>5. /\ \A i \in 1..n : q[i] = Seen + i
        /\ \A i \in 1..l : b[i] = Seen + n + i
        /\ \A i \in 1..Len(stream) : stream[i] = Seen + n + l + i
    BY DEF InOrder
  <2>6. n \in Nat /\ l \in Nat
    BY <1>1
  <2>7. Seen' = Seen
    BY <1>1, <1>2, <2>1, <2>3, <2>4 DEF Seen, Unseen
  <2> HIDE DEF q, b, n, l
  <2>8. \A i \in 1..Len(messageQueue') : messageQueue'[i] = Seen' + i
    <3>1. messageQueue'[n + 1] = Seen + (n + 1)
      BY <1>1, <2>2, <2>3, <2>5, <2>6
    <3> QED
      BY <2>3, <2>5, <2>6, <2>7, <3>1
  <2>9. \A i \in 1..Len(messageBuffer') :
          messageBuffer'[i] = Seen' + Len(messageQueue') + i
    <3> SUFFICES ASSUME NEW i \in 1..(l - 1)
                 PROVE  messageBuffer'[i] = Seen + (n + 1) + i
      BY <2>3, <2>4, <2>7
    <3>1. i + 1 \in 1..l
      BY <2>6
    <3>2. b[i + 1] = Seen + n + (i + 1)
      BY <2>5, <3>1
    <3> QED
      BY <1>1, <2>4, <2>6, <3>2
  <2>10. \A i \in 1..Len(stream') :
           stream'[i] = Seen' + Len(messageQueue') + Len(messageBuffer') + i
    <3>1. Seen' + Len(messageQueue') + Len(messageBuffer') = Seen + n + l
      BY <1>1, <2>3, <2>4, <2>6, <2>7
    <3> QED
      BY <2>1, <2>5, <3>1
  <2> QED
    BY <2>7, <2>8, <2>9, <2>10 DEF InOrder
<1>5. CASE ThreadCheck \/ ThreadHangup \/ ThreadRecvFails \/ ThreadForward
           \/ ThreadScheduleStop
  <2>1. UNCHANGED <<messageQueue, messageBuffer, stream>>
    BY <1>5 DEF ThreadCheck, ThreadHangup, ThreadRecvFails, ThreadForward,
                ThreadScheduleStop
  <2> QED
    BY <1>2, <2>1, OrderKept
<1> QED
  BY <1>3, <1>4, <1>5 DEF Thread

\* A message that is sent is the last on its way.
LEMMA OrderServer ==
  ASSUME IInv, InOrder, Server
  PROVE  /\ InOrder' /\ Seen' = Seen
         /\ \A m \in 1..Seen : sent'[m] = sent[m]
<1>1. /\ Len(messageQueue) \in Nat /\ Len(messageBuffer) \in Nat
      /\ stream \in Seq(Messages) /\ Len(stream) \in Nat
      /\ sent \in Seq(Headers) /\ Len(sent) \in Nat
      /\ Seen \in Int /\ Seen <= Len(sent)
  BY BufferTypes
<1>2. UNCHANGED <<messageQueue, messageBuffer>>
  BY DEF Server, ServerSend, ServerClose, received
<1>3. CASE ServerClose
  <2>1. UNCHANGED <<stream, sent>>
    BY <1>3 DEF ServerClose
  <2> QED
    BY <1>2, <2>1, OrderKept
<1>4. ASSUME NEW h \in Headers, ServerSend(h)
      PROVE  /\ InOrder' /\ Seen' = Seen
             /\ \A m \in 1..Seen : sent'[m] = sent[m]
  <2>1. sent' = Append(sent, h) /\ stream' = Append(stream, Len(sent) + 1)
        /\ Len(sent) < MaxMessages
    BY <1>4 DEF ServerSend
  <2>2. Len(sent') = Len(sent) + 1 /\ \A m \in 1..Len(sent) : sent'[m] = sent[m]
    BY <1>1, <2>1
  <2>3. /\ Len(stream') = Len(stream) + 1
        /\ stream'[Len(stream) + 1] = Len(sent) + 1
        /\ \A i \in 1..Len(stream) : stream'[i] = stream[i]
    BY <1>1, <2>1
  <2>4. Seen' = Seen
    BY <1>1, <1>2, <2>2, <2>3 DEF Seen, Unseen
  <2>5. Len(sent) = Seen + Len(messageQueue) + Len(messageBuffer) + Len(stream)
    BY <1>1 DEF Seen, Unseen
  <2>6. \A i \in 1..Len(stream') :
          stream'[i] = Seen' + Len(messageQueue') + Len(messageBuffer') + i
    <3>1. \A i \in 1..Len(stream) :
            stream[i] = Seen + Len(messageQueue) + Len(messageBuffer) + i
      BY DEF InOrder
    <3>2. stream'[Len(stream) + 1]
            = Seen + Len(messageQueue) + Len(messageBuffer) + (Len(stream) + 1)
      BY <1>1, <2>3, <2>5
    <3>3. ASSUME NEW i \in 1..(Len(stream) + 1)
          PROVE  stream'[i] = Seen + Len(messageQueue) + Len(messageBuffer) + i
      <4>1. CASE i = Len(stream) + 1
        BY <2>3, <3>2, <4>1
      <4>2. CASE i # Len(stream) + 1
        <5>1. i \in 1..Len(stream)
          BY <1>1, <4>2
        <5> QED
          BY <2>3, <3>1, <5>1
      <4> QED
        BY <4>1, <4>2
    <3> QED
      BY <1>2, <2>3, <2>4, <3>3
  <2>7. InOrder'
    BY <1>2, <2>4, <2>6 DEF InOrder
  <2>8. \A m \in 1..Seen : sent'[m] = sent[m]
    BY <1>1, <2>2
  <2> QED
    BY <2>4, <2>7, <2>8
<1> QED
  BY <1>3, <1>4 DEF Server

-----------------------------------------------------------------------------
(* The event list after an event.                                          *)

\* The event that a call of Schedule adds to the pending events.
NewEvent(pending, at, fn, msg) ==
  [ts |-> at, uid |-> NewUid(pending), fn |-> fn, msg |-> msg]

\* The events that the other thread asked for, once they are in the list.
Requested(before, time) ==
  {[ts |-> time, uid |-> LastUid(before) + i, fn |-> withContext[i],
    msg |-> NoMessage] : i \in DOMAIN withContext}

LEMMA AfterNothing ==
  ASSUME NEW ts, NEW pending, Return(ts, pending, <<>>)
  PROVE  events' = pending \cup Requested(pending, ts)
<1>1. Schedule(pending, <<>>) = pending
  BY DEF Schedule
<1>2. events' = Schedule(pending, Forwarded(ts))
  BY <1>1 DEF Return
<1>3. DOMAIN Forwarded(ts) = DOMAIN withContext
      /\ \A i \in DOMAIN withContext : Forwarded(ts)[i] = Entry(ts, withContext[i], NoMessage)
  BY DEF Forwarded
<1>4. Schedule(pending, Forwarded(ts)) = pending \cup Requested(pending, ts)
  BY <1>3 DEF Schedule, Requested, Entry
<1> QED
  BY <1>2, <1>4

LEMMA AfterOne ==
  ASSUME IInv, NEW ts \in Nat, NEW pending \in SUBSET events,
         NEW at \in Nat, NEW fn \in Fns, NEW msg \in Args,
         Return(ts, pending, <<Entry(at, fn, msg)>>)
  PROVE  LET before == pending \cup {NewEvent(pending, at, fn, msg)} IN
         /\ events' = before \cup Requested(before, ts)
         /\ before \in SUBSET Events(Fns, Args) /\ Numbered(before)
         /\ \A e \in pending : e.uid < NewUid(pending)
<1> DEFINE new == [ts |-> at, uid |-> NewUid(pending), fn |-> fn, msg |-> msg]
           before == pending \cup {NewEvent(pending, at, fn, msg)}
<1>1. pending \in SUBSET Events(Fns, Args) /\ Numbered(pending)
  BY FewerEvents DEF IInv, TypeOK, Fns, Args
<1>2. /\ Schedule(pending, <<Entry(at, fn, msg)>>) = pending \cup {new}
      /\ new \in Events(Fns, Args)
      /\ \A e \in pending : e.uid < NewUid(pending)
      /\ Numbered(pending \cup {new})
  BY <1>1, ScheduleOne
<1>3. before = pending \cup {new}
  BY DEF NewEvent
<1> HIDE DEF before, new
<1>4. events' = Schedule(before, Forwarded(ts))
  BY <1>2, <1>3 DEF Return
<1>5. DOMAIN Forwarded(ts) = DOMAIN withContext
      /\ \A i \in DOMAIN withContext : Forwarded(ts)[i] = Entry(ts, withContext[i], NoMessage)
  BY DEF Forwarded
<1>6. Schedule(before, Forwarded(ts)) = before \cup Requested(before, ts)
  BY <1>5 DEF Schedule, Requested, Entry
<1>7. events' = before \cup Requested(before, ts)
  BY <1>4, <1>6
<1>8. before \in SUBSET Events(Fns, Args) /\ Numbered(before)
  BY <1>1, <1>2, <1>3
<1> QED
  BY <1>2, <1>7, <1>8 DEF before

-----------------------------------------------------------------------------
(* Where a message is.                                                     *)

LEMMA StaysPlaced ==
  ASSUME NEW m, Placed(m), Carried(m)' = Carried(m), Reached(m)' = Reached(m),
         Forwarding(m)' <=> Forwarding(m), UNCHANGED DOMAIN delivered
  PROVE  Placed(m)'
<1>1. \A e : Carried(m)' = {e} => e \in events'
  BY DEF Carried, Carrying
<1> QED
  BY <1>1 DEF Placed

LEMMA ForwardingKept ==
  ASSUME NEW m \in Messages, Seen \in Int, Seen' = Seen,
         \A k \in 1..Seen : sent'[k] = sent[k]
  PROVE  Forwarding(m)' <=> Forwarding(m)
<1>1. m \in Nat /\ m >= 1
  BY DEF Messages
<1>2. CASE m <= Seen
  <2>1. sent'[m] = sent[m]
    BY <1>1, <1>2
  <2> QED
    BY <1>2, <2>1 DEF Forwarding
<1>3. CASE ~(m <= Seen)
  BY <1>3 DEF Forwarding
<1> QED
  BY <1>2, <1>3

\* A step of the main thread that neither takes nor delivers a message: what it
\* removes from the event list and what it adds carries none.
LEMMA PlacesKept ==
  ASSUME IInv, DeliveryInv, NEW before, NEW requested,
         events' = before \cup requested,
         \A m \in Messages : Carrying(before, m) = Carried(m),
         \A e \in before : e.fn \notin CallbackFns => e.msg = NoMessage,
         \A e \in requested : e.msg = NoMessage,
         UNCHANGED <<delivered, messageQueue, messageBuffer, stream, sent>>
  PROVE  DeliveryInv'
<1>1. InOrder' /\ Seen' = Seen
  BY OrderKept DEF DeliveryInv
<1>2. CallbacksCarry'
  BY DEF CallbacksCarry
<1>3. ASSUME NEW m \in Messages
      PROVE  Placed(m)'
  <2>1. m # NoMessage
    BY DEF Messages, NoMessage
  <2>2. Carried(m)' = Carried(m)
    BY <2>1 DEF Carried, Carrying
  <2>3. Reached(m)' = Reached(m)
    BY DEF Reached
  <2>4. Forwarding(m)' <=> Forwarding(m)
    BY <1>1 DEF Forwarding
  <2>5. Placed(m)
    BY DEF DeliveryInv
  <2> QED
    BY <2>2, <2>3, <2>4, <2>5, StaysPlaced
<1> QED
  BY <1>1, <1>2, <1>3 DEF DeliveryInv

\* What the other thread asked for has no argument.
LEMMA RequestedCarryNothing ==
  ASSUME NEW before, NEW ts
  PROVE  \A e \in Requested(before, ts) : e.msg = NoMessage
BY DEF Requested

\* Events with no argument can go.
LEMMA OthersCarry ==
  ASSUME NEW pending \in SUBSET events,
         \A e \in events \ pending : e.msg = NoMessage
  PROVE  \A m \in Messages : Carrying(pending, m) = Carried(m)
<1>1. \A m \in Messages : m # NoMessage
  BY DEF Messages, NoMessage
<1> QED
  BY <1>1 DEF Carrying, Carried

\* Only a wait event is cancelled.
LEMMA WaitCancelled ==
  ASSUME IInv, QueueInv, NEW es \in SUBSET events, NEW e \in es,
         e \notin Cancel(es, eventWait)
  PROVE  e.fn = "WaitForNextUpdate"
<1>1. e.uid = eventWait
  BY DEF Cancel
<1>2. e.uid \in Nat \ {0}
  BY DEF IInv, TypeOK, Events
<1> QED
  BY <1>1, <1>2 DEF QueueInv, WaitOK, Countable, NoEvent

\* An event that carries no message and schedules nothing, or one call that
\* carries none.
LEMMA ReturnsNothing ==
  ASSUME IInv, DeliveryInv, NEW ts, NEW pending \in SUBSET events,
         \A e \in events \ pending : e.msg = NoMessage,
         Return(ts, pending, <<>>),
         UNCHANGED <<delivered, messageQueue, messageBuffer, stream, sent>>
  PROVE  DeliveryInv'
<1> DEFINE requested == Requested(pending, ts)
<1>1. events' = pending \cup requested
  BY AfterNothing
<1>2. \A e \in requested : e.msg = NoMessage
  BY RequestedCarryNothing
<1>3. \A m \in Messages : Carrying(pending, m) = Carried(m)
  BY OthersCarry
<1>4. \A e \in pending : e.fn \notin CallbackFns => e.msg = NoMessage
  BY DEF DeliveryInv, CallbacksCarry
<1> HIDE DEF requested
<1> QED
  BY <1>1, <1>2, <1>3, <1>4, PlacesKept

LEMMA ReturnsWait ==
  ASSUME IInv, DeliveryInv, NEW ts \in Nat, NEW pending \in SUBSET events,
         \A e \in events \ pending : e.msg = NoMessage,
         Return(ts, pending, <<Entry(ts, "WaitForNextUpdate", NoMessage)>>),
         UNCHANGED <<delivered, messageQueue, messageBuffer, stream, sent>>
  PROVE  DeliveryInv'
<1> DEFINE fn == "WaitForNextUpdate"
           none == NoMessage
           new == NewEvent(pending, ts, fn, none)
           before == pending \cup {new}
           requested == Requested(before, ts)
<1>1. fn \in Fns /\ none \in Args
  BY DEF Fns, GatewayFns, Args
<1>2. Return(ts, pending, <<Entry(ts, fn, none)>>)
  OBVIOUS
<1>3. events' = before \cup requested
  <2> HIDE DEF fn, none
  <2> QED
    BY <1>1, <1>2, AfterOne
<1>4. \A e \in requested : e.msg = NoMessage
  BY RequestedCarryNothing
<1>5. new.msg = NoMessage
  BY DEF NewEvent
<1> HIDE DEF new
<1>6. \A m \in Messages : Carrying(before, m) = Carried(m)
  <2>1. \A m \in Messages : Carrying(pending, m) = Carried(m)
    BY OthersCarry
  <2>2. \A m \in Messages : m # NoMessage
    BY DEF Messages, NoMessage
  <2> QED
    BY <1>5, <2>1, <2>2 DEF Carrying
<1>7. \A e \in before : e.fn \notin CallbackFns => e.msg = NoMessage
  BY <1>5 DEF DeliveryInv, CallbacksCarry
<1> HIDE DEF before, requested
<1> QED
  BY <1>3, <1>4, <1>6, <1>7, PlacesKept

-----------------------------------------------------------------------------
(* The steps.                                                              *)

LEMMA DeliveryInit == Init => DeliveryInv
<1> SUFFICES ASSUME Init PROVE DeliveryInv
  OBVIOUS
<1>1. /\ messageQueue = <<>> /\ messageBuffer = <<>> /\ stream = <<>> /\ sent = <<>>
      /\ delivered = <<>>
  BY DEF Init
<1>2. Seen = 0 /\ InOrder
  <2>1. /\ Len(messageQueue) = 0 /\ Len(messageBuffer) = 0
        /\ Len(stream) = 0 /\ Len(sent) = 0
    BY <1>1
  <2>2. Seen = 0
    BY <2>1 DEF Seen, Unseen
  <2> QED
    BY <2>1, <2>2 DEF InOrder
<1>3. \A e \in events : e.msg = NoMessage
  <2>1. PICK program \in Programs : events = Schedule({}, program)
    BY DEF Init
  <2>2. program \in Entries(UserFns, {NoMessage})
    BY ProgramsAssumption DEF Entries
  <2>3. {} \in SUBSET Events(UserFns, {NoMessage}) /\ Numbered({})
    BY DEF Numbered
  <2>4. events \in SUBSET Events(UserFns, {NoMessage})
    BY <2>1, <2>2, <2>3, ScheduleAdds
  <2> QED
    BY <2>4 DEF Events
<1>4. ASSUME NEW m \in Messages
      PROVE  Placed(m)
  <2>1. m \in Nat /\ m >= 1 /\ m # NoMessage
    BY DEF Messages, NoMessage
  <2>2. Carried(m) = {} /\ Reached(m) = {}
    BY <1>1, <1>3, <2>1 DEF Carried, Carrying, Reached
  <2>3. ~Forwarding(m)
    BY <1>2, <2>1 DEF Forwarding
  <2> QED
    BY <2>2, <2>3 DEF Placed
<1> QED
  BY <1>2, <1>3, <1>4 DEF DeliveryInv, CallbacksCarry

\* The user's events, Connect and WaitForNextUpdate.
LEMMA DeliveryEvent ==
  ASSUME IInv, QueueInv, DeliveryInv, NEW e \in events,
         Connect(e) \/ Model(e) \/ Finish(e) \/ WaitForNextUpdate(e)
  PROVE  DeliveryInv'
<1>1. /\ IsNext(e, events)
      /\ e.fn \in {"Connect", "Model", "Finish", "WaitForNextUpdate"}
      /\ UNCHANGED <<delivered, messageQueue, messageBuffer, stream, sent>>
  BY DEF Connect, Model, Finish, WaitForNextUpdate, Runs, received, server, history
<1>2. e.ts \in Nat /\ e.msg = NoMessage
  BY <1>1, NextEvent DEF DeliveryInv, CallbacksCarry, CallbackFns
<1>3. \A f \in events : f.fn = "WaitForNextUpdate" => f.msg = NoMessage
  BY DEF DeliveryInv, CallbacksCarry, CallbackFns
<1>4. CASE Connect(e)
  <2>1. Return(e.ts, events \ {e}, <<Entry(e.ts, "WaitForNextUpdate", NoMessage)>>)
    BY <1>4 DEF Connect
  <2> QED
    BY <1>1, <1>2, <2>1, ReturnsWait
<1>5. CASE Model(e) \/ Finish(e) \/ (WaitForNextUpdate(e) /\ ~KeepsWaiting)
  <2>1. Return(e.ts, events \ {e}, <<>>)
    BY <1>5 DEF Model, Finish, WaitForNextUpdate
  <2> QED
    BY <1>1, <1>2, <2>1, ReturnsNothing
<1>6. CASE WaitForNextUpdate(e) /\ KeepsWaiting
  <2> DEFINE pending == Cancel(events \ {e}, WaitAfter(e))
  <2>1. Return(e.ts, pending, <<Entry(e.ts, "WaitForNextUpdate", NoMessage)>>)
    BY <1>6 DEF WaitForNextUpdate
  <2>2. pending \in SUBSET events
    BY DEF Cancel
  <2>3. ASSUME NEW f \in events \ pending
        PROVE  f.msg = NoMessage
    <3>1. CASE f = e
      BY <1>2, <3>1
    <3>2. CASE f # e /\ e.uid = eventWait
      <4>1. f.uid # 0 /\ WaitAfter(e) = 0
        BY <3>2 DEF WaitAfter, NoEvent, IInv, TypeOK, Events
      <4> QED
        BY <3>2, <4>1 DEF Cancel
    <3>3. CASE f # e /\ e.uid # eventWait
      <4>1. f \in events \ {e} /\ f \notin Cancel(events \ {e}, eventWait)
        BY <3>3 DEF WaitAfter
      <4>2. f.fn = "WaitForNextUpdate"
        BY <4>1, WaitCancelled
      <4> QED
        BY <1>3, <4>2
    <3> QED
      BY <3>1, <3>2, <3>3
  <2> HIDE DEF pending
  <2> QED
    BY <1>1, <1>2, <2>1, <2>2, <2>3, ReturnsWait
<1> QED
  BY <1>4, <1>5, <1>6

\* Stop.
LEMMA DeliveryStop ==
  ASSUME IInv, QueueInv, DeliveryInv, StopEnd \/ \E e \in events : StopBegin(e)
  PROVE  DeliveryInv'
<1>1. UNCHANGED <<delivered, messageQueue, messageBuffer, stream, sent>>
  BY DEF StopEnd, StopBegin, received, server, history
<1>2. ASSUME NEW e \in events, StopBegin(e)
      PROVE  DeliveryInv'
  <2>1. e.fn = "Stop" /\ events' = events \ {e}
    BY <1>2 DEF StopBegin, Runs
  <2> DEFINE before == events \ {e}
             requested == {}
  <2>2. events' = before \cup requested /\ \A f \in requested : f.msg = NoMessage
    BY <2>1
  <2>3. e.msg = NoMessage
    BY <2>1 DEF DeliveryInv, CallbacksCarry, CallbackFns
  <2>4. \A m \in Messages : Carrying(before, m) = Carried(m)
    BY <2>3, OthersCarry
  <2>5. \A f \in before : f.fn \notin CallbackFns => f.msg = NoMessage
    BY DEF DeliveryInv, CallbacksCarry
  <2> HIDE DEF before, requested
  <2> QED
    BY <1>1, <2>2, <2>4, <2>5, PlacesKept
<1>3. CASE StopEnd
  <2>1. Return(now, Cancel(events, eventWait), <<>>)
    BY <1>3 DEF StopEnd
  <2>2. Cancel(events, eventWait) \in SUBSET events
    BY DEF Cancel
  <2>3. \A f \in events \ Cancel(events, eventWait) : f.msg = NoMessage
    BY WaitCancelled DEF DeliveryInv, CallbacksCarry, CallbackFns
  <2> QED
    BY <1>1, <2>1, <2>2, <2>3, ReturnsNothing
<1> QED
  BY <1>2, <1>3

\* The message that ForwardUp has taken from the queue.
LEMMA ForwardTakes ==
  ASSUME IInv, DeliveryInv, ForwardFault = "none", messageQueue' = Tail(messageQueue),
         UNCHANGED <<messageBuffer, stream, sent, delivered>>
  PROVE  /\ InOrder' /\ Message \in Messages /\ Seen \in Nat
         /\ Message = Seen + 1 /\ Seen' = Message /\ Message \in 1..Len(sent)
         /\ Carried(Message) = {} /\ Reached(Message) = {}
         /\ Header \in Int /\ Header = sent[Message] /\ sent' = sent
         /\ \A m \in Messages : m # Message =>
              (Forwarding(m)' <=> Forwarding(m)) /\ Reached(m)' = Reached(m)
<1>1. messageQueue # <<>> /\ InOrder
  BY DEF ForwardFault, DeliveryInv
<1>2. /\ InOrder' /\ Seen' = Seen + 1
      /\ Message = Seen + 1 /\ Message \in 1..Len(sent)
  BY <1>1, OrderForward
<1>3. Message \in Messages /\ Header \in Int
  BY ForwardedMessage
<1>4. Seen \in Nat
  BY <1>1, BufferTypes DEF InOrder
<1>5. ~Forwarding(Message)
  BY <1>2, <1>4 DEF Forwarding
<1>6. Carried(Message) = {} /\ Reached(Message) = {}
  BY <1>3, <1>5 DEF DeliveryInv, Placed
<1>7. ASSUME NEW m \in Messages, m # Message
      PROVE  (Forwarding(m)' <=> Forwarding(m)) /\ Reached(m)' = Reached(m)
  <2>1. m <= Seen + 1 <=> m <= Seen
    BY <1>2, <1>4, <1>7 DEF Messages
  <2>2. sent' = sent /\ delivered' = delivered
    OBVIOUS
  <2> QED
    BY <1>2, <2>1, <2>2 DEF Forwarding, Reached
<1> QED
  BY <1>2, <1>3, <1>4, <1>6, <1>7 DEF Header

\* A message with a stamp goes into one event.
LEMMA ForwardPlaces ==
  ASSUME IInv, DeliveryInv, ForwardFault = "none", messageQueue' = Tail(messageQueue),
         UNCHANGED <<messageBuffer, stream, sent, delivered>>,
         Header >= 0,
         NEW ts \in Nat, NEW pending \in SUBSET events,
         \A e \in events \ pending : e.msg = NoMessage,
         NEW at \in Nat, NEW fn \in CallbackFns,
         Return(ts, pending, <<Entry(at, fn, Message)>>)
  PROVE  DeliveryInv'
<1> DEFINE k == Message
           new == NewEvent(pending, at, fn, k)
           before == pending \cup {new}
           requested == Requested(before, ts)
<1>1. /\ InOrder' /\ k \in Messages /\ Seen \in Nat
      /\ k = Seen + 1 /\ Seen' = k /\ k \in 1..Len(sent)
      /\ Carried(k) = {} /\ Reached(k) = {}
      /\ Header \in Int /\ Header = sent[k] /\ sent' = sent
      /\ \A m \in Messages : m # k =>
           (Forwarding(m)' <=> Forwarding(m)) /\ Reached(m)' = Reached(m)
  BY ForwardTakes
<1>2. fn \in Fns /\ k \in Args
  BY <1>1 DEF CallbackFns, Fns, GatewayFns, Args
<1>3. events' = before \cup requested
  BY <1>2, AfterOne
<1>4. \A e \in requested : e.msg = NoMessage
  BY RequestedCarryNothing
<1>5. new.msg = k /\ new.fn = fn
  BY DEF NewEvent
<1>6. \A m \in Messages : Carrying(pending, m) = Carried(m) /\ m # NoMessage
  BY OthersCarry DEF Messages, NoMessage
<1>7. PICK j : j = k
  OBVIOUS
<1> HIDE DEF k, new
<1>8. CallbacksCarry'
  BY <1>3, <1>4, <1>5 DEF CallbacksCarry, DeliveryInv
<1> HIDE DEF requested
<1>9. ASSUME NEW m \in Messages, m # j
      PROVE  Placed(m)'
  <2>1. Carried(m)' = Carried(m)
    BY <1>3, <1>4, <1>5, <1>6, <1>7, <1>9 DEF Carried, Carrying
  <2>2. (Forwarding(m)' <=> Forwarding(m)) /\ Reached(m)' = Reached(m)
    BY <1>1, <1>7, <1>9
  <2>3. Placed(m)
    BY DEF DeliveryInv
  <2> QED
    BY <2>1, <2>2, <2>3, StaysPlaced
<1>10. Placed(j)'
  <2>1. Carried(j)' = {new} /\ new \in events'
    <3>1. Carrying(pending, j) = {} /\ j # NoMessage
      BY <1>1, <1>6, <1>7
    <3> QED
      BY <1>3, <1>4, <1>5, <1>7, <3>1 DEF Carried, Carrying
  <2>2. Reached(j)' = {}
    BY <1>1, <1>7 DEF Reached
  <2>3. Forwarding(j)'
    <3>1. Seen' = j /\ sent'[j] \in Int /\ sent'[j] >= 0 /\ j \in Int
      BY <1>1, <1>7
    <3> QED
      BY <3>1 DEF Forwarding
  <2> QED
    BY <2>1, <2>2, <2>3 DEF Placed
<1> QED
  BY <1>1, <1>8, <1>9, <1>10 DEF DeliveryInv

LEMMA DeliveryForward ==
  ASSUME IInv, QueueInv, DeliveryInv, NEW e \in events,
         ForwardTerminate(e) \/ ForwardFirst(e) \/ ForwardUpdate(e)
  PROVE  DeliveryInv'
<1>1. /\ Runs(e, "ForwardUp") /\ ForwardFault = "none"
      /\ messageQueue' = Tail(messageQueue)
      /\ UNCHANGED <<messageBuffer, stream, sent, delivered>>
  BY DEF ForwardTerminate, ForwardFirst, ForwardUpdate, server, history
<1>2. e.fn = "ForwardUp" /\ e.ts \in Nat /\ e.msg = NoMessage
  BY <1>1, ForwardEvent DEF DeliveryInv, CallbacksCarry, CallbackFns
<1>3. CASE ForwardTerminate(e)
  <2>1. Header < 0 /\ Return(e.ts, events \ {e}, <<>>)
    BY <1>3 DEF ForwardTerminate
  <2>2. PICK k : k = Message
    OBVIOUS
  <2>3. /\ InOrder' /\ k \in Messages /\ Seen' = k
        /\ Carried(k) = {} /\ Reached(k) = {}
        /\ Header = sent[k] /\ sent' = sent
        /\ \A m \in Messages : m # k =>
             (Forwarding(m)' <=> Forwarding(m)) /\ Reached(m)' = Reached(m)
    BY <1>1, <2>2, ForwardTakes
  <2> DEFINE requested == Requested(events \ {e}, e.ts)
  <2>4. /\ events' = (events \ {e}) \cup requested
        /\ \A f \in requested : f.msg = NoMessage
    BY <2>1, AfterNothing, RequestedCarryNothing
  <2> HIDE DEF requested
  <2>5. \A m \in Messages : Carried(m)' = Carried(m)
    BY <1>2, <2>4 DEF Carried, Carrying, Messages, NoMessage
  <2>6. CallbacksCarry'
    BY <2>4 DEF CallbacksCarry, DeliveryInv
  <2>7. ASSUME NEW m \in Messages
        PROVE  Placed(m)'
    <3>1. CASE m # k
      BY <1>1, <2>3, <2>5, <3>1, StaysPlaced DEF DeliveryInv
    <3>2. CASE m = k
      <4>1. Carried(m)' = {} /\ Reached(m)' = {}
        BY <1>1, <2>3, <2>5, <3>2 DEF Reached
      <4>2. ~Forwarding(m)'
        BY <2>1, <2>3, <3>2 DEF Forwarding
      <4> QED
        BY <4>1, <4>2 DEF Placed
    <3> QED
      BY <3>1, <3>2
  <2> QED
    BY <2>3, <2>6, <2>7 DEF DeliveryInv
<1>4. CASE ForwardFirst(e)
  <2> DEFINE fn == "DoInitialize"
  <2>1. Header >= 0 /\ Return(e.ts, events \ {e}, <<Entry(e.ts, fn, Message)>>)
    BY <1>4 DEF ForwardFirst
  <2>2. fn \in CallbackFns
    BY DEF CallbackFns
  <2> HIDE DEF fn
  <2> QED
    BY <1>1, <1>2, <2>1, <2>2, ForwardPlaces
<1>5. CASE ForwardUpdate(e)
  <2> DEFINE fn == "HandleUpdate"
             at == PauseFor(Header)
             pending == WithoutWait \ {e}
  <2>1. Header >= 0 /\ timeStart >= 0 /\ Return(e.ts, pending, <<Entry(at, fn, Message)>>)
    BY <1>5 DEF ForwardUpdate
  <2>2. fn \in CallbackFns /\ at \in Nat
    BY <1>1, <2>1, AcceptedPause DEF CallbackFns
  <2>3. pending \in SUBSET events
    BY DEF WithoutWait, Cancel
  <2>4. ASSUME NEW f \in events \ pending
        PROVE  f.msg = NoMessage
    <3>1. f = e \/ f \notin Cancel(events, eventWait)
      BY <2>4 DEF WithoutWait
    <3>2. CASE f = e
      BY <1>2, <3>2
    <3>3. CASE f \notin Cancel(events, eventWait)
      BY <3>3, WaitCancelled DEF DeliveryInv, CallbacksCarry, CallbackFns
    <3> QED
      BY <3>1, <3>2, <3>3
  <2> HIDE DEF fn, at, pending
  <2> QED
    BY <1>1, <1>2, <2>1, <2>2, <2>3, <2>4, ForwardPlaces
<1> QED
  BY <1>3, <1>4, <1>5

\* A callback has its message: the event is the only place where it was.
LEMMA CallbackPlaces ==
  ASSUME IInv, DeliveryInv, NEW e \in events, e.fn \in CallbackFns, e.msg \in Messages,
         Deliver(e), NEW before, NEW requested,
         events' = before \cup requested,
         \A f \in requested : f.msg = NoMessage,
         \A f \in before : \/ f \in events \ {e}
                           \/ f.fn \notin CallbackFns /\ f.msg = NoMessage,
         events \ {e} \subseteq before,
         UNCHANGED <<messageQueue, messageBuffer, stream, sent>>
  PROVE  DeliveryInv'
<1> DEFINE n == Len(delivered)
<1>1. delivered \in Seq([msg : Messages, at : Nat]) /\ n \in Nat
      /\ DOMAIN delivered = 1..n
  BY LenProperties DEF IInv, TypeOK
<1>2. PICK k : k = e.msg
  OBVIOUS
<1>3. /\ DOMAIN delivered' = 1..(n + 1)
      /\ delivered'[n + 1].msg = k
      /\ \A i \in 1..n : delivered'[i] = delivered[i]
  <2>1. delivered' = Append(delivered, [msg |-> e.msg, at |-> e.ts])
    BY DEF Deliver
  <2>2. Len(delivered') = n + 1 /\ delivered'[n + 1] = [msg |-> e.msg, at |-> e.ts]
        /\ \A i \in 1..n : delivered'[i] = delivered[i]
    BY <1>1, <2>1, AppendProperties
  <2>3. DOMAIN delivered' = 1..(n + 1)
    BY <1>1, <2>1, <2>2
  <2> QED
    BY <1>2, <2>2, <2>3
<1> HIDE DEF n
<1>4. InOrder' /\ Seen' = Seen /\ sent' = sent
  BY OrderKept DEF DeliveryInv
<1>5. CallbacksCarry'
  BY DEF CallbacksCarry, DeliveryInv
<1>6. \A m \in Messages : m # NoMessage
  BY DEF Messages, NoMessage
<1>7. \A m \in Messages : Forwarding(m)' <=> Forwarding(m)
  BY <1>4 DEF Forwarding
<1>8. 1..(n + 1) = (1..n) \cup {n + 1} /\ n + 1 \notin 1..n
  BY <1>1
<1>9. k \in Messages /\ Placed(k)
  BY <1>2 DEF DeliveryInv
<1>10. Forwarding(k) /\ Carried(k) = {e} /\ Reached(k) = {}
  <2>1. e \in Carried(k)
    BY <1>2 DEF Carried, Carrying
  <2> QED
    BY <1>9, <2>1 DEF Placed
<1>11. Placed(k)'
  <2>1. Carried(k)' = {}
    <3>1. \A f \in events : f.msg = k => f = e
      BY <1>10 DEF Carried, Carrying
    <3>2. \A f \in before \cup requested : f.msg # k
      BY <1>6, <1>9, <3>1
    <3> QED
      BY <3>2 DEF Carried, Carrying
  <2>2. Reached(k)' = {n + 1}
    <3>1. \A i \in 1..n : delivered[i].msg # k
      BY <1>1, <1>10 DEF Reached
    <3> QED
      BY <1>3, <1>8, <3>1 DEF Reached
  <2>3. n + 1 \in DOMAIN delivered'
    BY <1>3, <1>8
  <2> QED
    BY <1>7, <1>9, <1>10, <2>1, <2>2, <2>3 DEF Placed
<1>12. ASSUME NEW m \in Messages, m # k
       PROVE  Placed(m)'
  <2>1. Carried(m)' = Carried(m)
    <3>1. m # NoMessage /\ m # e.msg
      BY <1>2, <1>6, <1>12
    <3>2. \A f : f \in before \cup requested /\ f.msg = m <=> f \in events /\ f.msg = m
      BY <3>1
    <3> QED
      BY <3>2 DEF Carried, Carrying
  <2>2. Reached(m)' = Reached(m)
    <3>1. \A i \in 1..n : delivered'[i].msg = delivered[i].msg
      BY <1>3
    <3> QED
      BY <1>1, <1>3, <1>8, <1>12, <3>1 DEF Reached
  <2>3. Forwarding(m)' <=> Forwarding(m)
    BY <1>7
  <2>4. Placed(m)
    BY DEF DeliveryInv
  <2>5. \A f : Carried(m)' = {f} => f \in events'
    BY DEF Carried, Carrying
  <2>6. \A i \in DOMAIN delivered : i \in DOMAIN delivered'
    BY <1>1, <1>3, <1>8
  <2> QED
    BY <2>1, <2>2, <2>3, <2>4, <2>5, <2>6 DEF Placed
<1> QED
  BY <1>4, <1>5, <1>11, <1>12 DEF DeliveryInv

LEMMA DeliveryCallback ==
  ASSUME IInv, QueueInv, DeliveryInv, NEW e \in events,
         DoInitialize(e) \/ HandleUpdate(e)
  PROVE  DeliveryInv'
<1>1. /\ IsNext(e, events) /\ e.fn \in CallbackFns
      /\ Deliver(e)
      /\ UNCHANGED <<messageQueue, messageBuffer, stream, sent>>
  BY DEF DoInitialize, HandleUpdate, Runs, CallbackFns, received, server
<1>2. e.ts \in Nat /\ e.msg \in Messages
  BY <1>1, NextEvent
<1>3. CASE DoInitialize(e) \/ (HandleUpdate(e) /\ ~PausesAt(e.ts))
  <2> DEFINE before == events \ {e}
             requested == Requested(before, e.ts)
  <2>1. Return(e.ts, events \ {e}, <<>>)
    BY <1>3 DEF DoInitialize, HandleUpdate
  <2>2. /\ events' = before \cup requested
        /\ \A f \in requested : f.msg = NoMessage
    BY <2>1, AfterNothing, RequestedCarryNothing
  <2>3. before = events \ {e}
    OBVIOUS
  <2> HIDE DEF before, requested
  <2> QED
    BY <1>1, <1>2, <2>2, <2>3, CallbackPlaces
<1>4. CASE HandleUpdate(e) /\ PausesAt(e.ts)
  <2> DEFINE fn == "WaitForNextUpdate"
             none == NoMessage
             pending == events \ {e}
             new == NewEvent(pending, e.ts, fn, none)
             before == pending \cup {new}
             requested == Requested(before, e.ts)
  <2>1. Return(e.ts, pending, <<Entry(e.ts, fn, none)>>)
    BY <1>4 DEF HandleUpdate
  <2>2. fn \in Fns /\ none \in Args /\ pending \in SUBSET events
    BY DEF Fns, GatewayFns, Args
  <2>3. events' = before \cup requested
    <3> HIDE DEF fn, none, pending
    <3> QED
      BY <1>2, <2>1, <2>2, AfterOne
  <2>4. \A f \in requested : f.msg = NoMessage
    BY RequestedCarryNothing
  <2>5. new.fn \notin CallbackFns /\ new.msg = NoMessage
    BY DEF NewEvent, CallbackFns
  <2> HIDE DEF new
  <2>6. /\ \A f \in before : \/ f \in events \ {e}
                             \/ f.fn \notin CallbackFns /\ f.msg = NoMessage
        /\ events \ {e} \subseteq before
    BY <2>5
  <2> HIDE DEF before, requested
  <2> QED
    BY <1>1, <1>2, <2>3, <2>4, <2>6, CallbackPlaces
<1> QED
  BY <1>3, <1>4

\* Everything else.
LEMMA DeliveryOther ==
  ASSUME IInv, DeliveryInv, InOrder', Seen' = Seen, \A k \in 1..Seen : sent'[k] = sent[k],
         UNCHANGED <<events, delivered>>
  PROVE  DeliveryInv'
<1>1. Seen \in Int
  BY BufferTypes
<1>2. ASSUME NEW m \in Messages
      PROVE  Placed(m)'
  <2>1. Forwarding(m)' <=> Forwarding(m)
    BY <1>1, ForwardingKept
  <2>2. Carried(m)' = Carried(m) /\ Reached(m)' = Reached(m)
    BY DEF Carried, Carrying, Reached
  <2> QED
    BY <2>1, <2>2, StaysPlaced DEF DeliveryInv
<1> QED
  BY <1>2 DEF DeliveryInv, CallbacksCarry

LEMMA DeliveryNext == IInv /\ QueueInv /\ DeliveryInv /\ [Next]_vars => DeliveryInv'
<1> SUFFICES ASSUME IInv, QueueInv, DeliveryInv, [Next]_vars PROVE DeliveryInv'
  OBVIOUS
<1>1. ASSUME NEW e \in events,
             \/ Connect(e) \/ Model(e) \/ Finish(e) \/ WaitForNextUpdate(e)
             \/ ForwardTerminate(e) \/ ForwardFirst(e) \/ ForwardUpdate(e)
             \/ DoInitialize(e) \/ HandleUpdate(e)
      PROVE  DeliveryInv'
  BY <1>1, DeliveryEvent, DeliveryForward, DeliveryCallback
<1>2. CASE StopEnd \/ \E e \in events : StopBegin(e)
  BY <1>2, DeliveryStop
<1>3. ASSUME UNCHANGED <<events, delivered, messageQueue, messageBuffer, stream, sent>>
      PROVE  DeliveryInv'
  <2>1. InOrder' /\ Seen' = Seen /\ sent' = sent
    BY <1>3, OrderKept DEF DeliveryInv
  <2> QED
    BY <1>3, <2>1, DeliveryOther
<1>4. ASSUME NEW e \in events, ConnectFails(e) \/ ForwardUpFails(e) \/ CallbackFails(e)
      PROVE  DeliveryInv'
  <2>1. UNCHANGED <<events, delivered, messageQueue, messageBuffer, stream, sent>>
    BY <1>4 DEF ConnectFails, ForwardUpFails, CallbackFails, Abort, simulator, received,
                server, history
  <2> QED
    BY <1>3, <2>1
<1>5. CASE RunReturns \/ Destroy \/ UNCHANGED vars
  <2>1. UNCHANGED <<events, delivered, messageQueue, messageBuffer, stream, sent>>
    BY <1>5 DEF RunReturns, Destroy, vars, simulator, received, server, history
  <2> QED
    BY <1>3, <2>1
<1>6. CASE Thread \/ ThreadRecvFails
  <2>1. UNCHANGED <<events, delivered, sent>>
    BY <1>6 DEF Thread, ThreadCheck, ThreadRecv, ThreadHangup, ThreadRecvFails,
                ThreadPush, ThreadForward, ThreadScheduleStop, ThreadFrame, history
  <2>2. InOrder' /\ Seen' = Seen
    BY <1>6, OrderThread DEF DeliveryInv
  <2> QED
    BY <2>1, <2>2, DeliveryOther
<1>7. CASE Server
  <2>1. UNCHANGED <<events, delivered>>
    BY <1>7 DEF Server, ServerSend, ServerClose, simulator, history
  <2>2. InOrder' /\ Seen' = Seen /\ \A k \in 1..Seen : sent'[k] = sent[k]
    BY <1>7, OrderServer DEF DeliveryInv
  <2> QED
    BY <2>1, <2>2, DeliveryOther
<1> QED
  BY <1>1, <1>2, <1>4, <1>5, <1>6, <1>7 DEF Next, Main, Terminating

\* An element of a concatenation.
LEMMA ConcatElements ==
  ASSUME NEW S, NEW s1 \in Seq(S), NEW s2 \in Seq(S)
  PROVE  /\ s1 \o s2 \in Seq(S) /\ Len(s1 \o s2) = Len(s1) + Len(s2)
         /\ \A i \in 1..Len(s1 \o s2) :
              (s1 \o s2)[i] = IF i <= Len(s1) THEN s1[i] ELSE s2[i - Len(s1)]
<1>1. /\ s1 \o s2 \in Seq(S)
      /\ Len(s1 \o s2) = Len(s1) + Len(s2)
      /\ \A i \in 1 .. Len(s1) + Len(s2) : (s1 \o s2)[i] =
                     IF i <= Len(s1) THEN s1[i] ELSE s2[i - Len(s1)]
  BY ConcatProperties
<1> QED
  BY <1>1, Zenon

\* What is on its way, as one sequence.
LEMMA InTransitInOrder ==
  ASSUME IInv, InOrder
  PROVE  /\ Len(sent) - Len(InTransit) = Seen
         /\ \A i \in DOMAIN InTransit : InTransit[i] = Seen + i
<1> DEFINE q == messageQueue
           b == messageBuffer
           s == stream
           qb == q \o b
<1>1. /\ q \in Seq(Messages) /\ b \in Seq(Messages) /\ s \in Seq(Messages)
      /\ Len(q) \in Nat /\ Len(b) \in Nat /\ Len(s) \in Nat /\ Len(sent) \in Nat
      /\ Seen \in Int
  BY BufferTypes
<1>2. /\ \A i \in 1..Len(q) : q[i] = Seen + i
      /\ \A i \in 1..Len(b) : b[i] = Seen + Len(q) + i
      /\ \A i \in 1..Len(s) : s[i] = Seen + Len(q) + Len(b) + i
  BY DEF InOrder
<1>3. Seen = Len(sent) - (Len(q) + Len(b) + Len(s))
  BY DEF Seen, Unseen
<1>4. InTransit = qb \o s
  BY DEF InTransit
<1> HIDE DEF q, b, s
<1>5. /\ qb \in Seq(Messages) /\ Len(qb) = Len(q) + Len(b)
      /\ \A i \in 1..Len(qb) : qb[i] = IF i <= Len(q) THEN q[i] ELSE b[i - Len(q)]
  BY <1>1, ConcatElements
<1>6. \A i \in 1..Len(qb) : qb[i] = Seen + i
  <2> SUFFICES ASSUME NEW i \in 1..Len(qb) PROVE qb[i] = Seen + i
    OBVIOUS
  <2>1. CASE i <= Len(q)
    BY <1>1, <1>2, <1>5, <2>1
  <2>2. CASE ~(i <= Len(q))
    <3>1. i - Len(q) \in 1..Len(b)
      BY <1>1, <1>5, <2>2
    <3>2. b[i - Len(q)] = Seen + Len(q) + (i - Len(q))
      BY <1>2, <3>1
    <3> QED
      BY <1>1, <1>5, <2>2, <3>2
  <2> QED
    BY <2>1, <2>2
<1> HIDE DEF qb
<1>7. /\ InTransit \in Seq(Messages) /\ Len(InTransit) = Len(qb) + Len(s)
      /\ \A i \in 1..Len(InTransit) :
           InTransit[i] = IF i <= Len(qb) THEN qb[i] ELSE s[i - Len(qb)]
  <2> DEFINE all == qb \o s
  <2>1. qb \in Seq(Messages) /\ s \in Seq(Messages)
    BY <1>1, <1>5
  <2>2. /\ all \in Seq(Messages) /\ Len(all) = Len(qb) + Len(s)
        /\ \A i \in 1..Len(all) :
             all[i] = IF i <= Len(qb) THEN qb[i] ELSE s[i - Len(qb)]
    BY <2>1, ConcatElements, Zenon
  <2>3. InTransit = all
    BY <1>4
  <2> HIDE DEF all
  <2> QED
    BY <2>2, <2>3
<1>8. \A i \in 1..Len(InTransit) : InTransit[i] = Seen + i
  <2> SUFFICES ASSUME NEW i \in 1..Len(InTransit) PROVE InTransit[i] = Seen + i
    OBVIOUS
  <2>1. CASE i <= Len(qb)
    BY <1>1, <1>5, <1>6, <1>7, <2>1
  <2>2. CASE ~(i <= Len(qb))
    <3>1. i - Len(qb) \in 1..Len(s)
      BY <1>1, <1>5, <1>7, <2>2
    <3>2. s[i - Len(qb)] = Seen + Len(q) + Len(b) + (i - Len(qb))
      BY <1>2, <3>1
    <3> QED
      BY <1>1, <1>5, <1>7, <2>2, <3>2
  <2> QED
    BY <2>1, <2>2
<1>9. DOMAIN InTransit = 1..Len(InTransit)
  BY <1>7, LenProperties
<1> QED
  BY <1>1, <1>3, <1>5, <1>7, <1>8, <1>9

LEMMA InvImpliesNothingLost == IInv /\ DeliveryInv => NothingLost
<1> SUFFICES ASSUME IInv, DeliveryInv PROVE NothingLost
  OBVIOUS
<1> DEFINE seen == Len(sent) - Len(InTransit)
<1>1. seen = Seen /\ \A i \in DOMAIN InTransit : InTransit[i] = Seen + i
  BY InTransitInOrder DEF DeliveryInv
<1> HIDE DEF seen
<1>2. ASSUME NEW m \in 1..Seen
      PROVE  Cardinality({i \in DOMAIN delivered : delivered[i].msg = m})
               + Cardinality({e \in events : e.msg = m})
             = IF sent[m] < 0 THEN 0 ELSE 1
  <2>1. m \in Messages /\ m <= Seen
    <3>1. Len(sent) <= MaxMessages /\ MaxMessages \in Nat /\ Len(sent) \in Nat
          /\ Seen \in Int /\ Seen <= Len(sent)
      BY BufferTypes, MaxMessagesAssumption DEF IInv, TypeOK
    <3> QED
      BY <3>1 DEF Messages
  <2>2. Placed(m)
    BY <2>1 DEF DeliveryInv
  <2>3. Cardinality({}) = 0 /\ \A x : Cardinality({x}) = 1
    BY FS_EmptySet, FS_Singleton
  <2>4. CASE sent[m] < 0
    <3>1. Carried(m) = {} /\ Reached(m) = {}
      BY <2>2, <2>4 DEF Placed, Forwarding
    <3> QED
      BY <2>3, <2>4, <3>1 DEF Carried, Carrying, Reached
  <2>5. CASE ~(sent[m] < 0)
    <3>1. Forwarding(m)
      BY <2>1, <2>5 DEF Forwarding
    <3>2. CASE (\E e \in events : Carried(m) = {e}) /\ Reached(m) = {}
      <4>1. Cardinality(Carried(m)) = 1 /\ Cardinality(Reached(m)) = 0
        BY <2>3, <3>2
      <4> QED
        BY <2>5, <4>1 DEF Carried, Carrying, Reached
    <3>3. CASE Carried(m) = {} /\ \E i \in DOMAIN delivered : Reached(m) = {i}
      <4>1. Cardinality(Carried(m)) = 0 /\ Cardinality(Reached(m)) = 1
        BY <2>3, <3>3
      <4> QED
        BY <2>5, <4>1 DEF Carried, Carrying, Reached
    <3> QED
      BY <2>2, <3>1, <3>2, <3>3 DEF Placed
  <2> QED
    BY <2>4, <2>5
<1> QED
  BY <1>1, <1>2 DEF NothingLost, seen

\* No message is lost, duplicated or overtaken on its way from the server's send to
\* its callback, whatever the server sends and however the two threads and the
\* server interleave (gateway.cc:221-270, 292-304, 338-361).
THEOREM EveryMessageOnce == Spec => []NothingLost
<1> QED
  BY QueueInit, QueueNext, DeliveryInit, DeliveryNext, Invariance,
     InvImpliesNothingLost, PTL DEF Spec

-----------------------------------------------------------------------------
(* Stop comes after everything that was received.                          *)

LastCalls == {"ForwardUp", "Stop"}
Stops == {e \in events : e.fn = "Stop"}

\* The thread has asked for Stop: it has nothing left and has ended.
ThreadThrough == thread = "exited" /\ messageBuffer = <<>> /\ state = "CONNECTED"

\* Stop is asked for last, is the last of the calls in the event list, and leaves
\* no call behind.
StopAskedLast ==
  \A i \in DOMAIN withContext : withContext[i] = "Stop" =>
    i = Len(withContext) /\ Stops = {} /\ ThreadThrough
StopRunsLast ==
  \A e \in Stops :
    /\ withContext = <<>> /\ ThreadThrough
    /\ \A f \in events : f.fn \in LastCalls => f.uid <= e.uid
StoppedForGood ==
  state = "STOPPING" =>
    /\ withContext = <<>> /\ thread \in {"exited", "joined"} /\ messageBuffer = <<>>
    /\ \A e \in events : e.fn \notin LastCalls

StopInv ==
  main \in {"run", "stopping"} =>
    /\ StopAskedLast /\ StopRunsLast /\ StoppedForGood
    /\ thread = "hangup" => messageBuffer = <<>>

\* An event that does not call Stop.
LEMMA StopAfterEvent ==
  ASSUME IInv, StopInv, main = "run",
         UNCHANGED <<main, state, thread, messageBuffer>>, withContext' = <<>>,
         NEW ts, NEW before \in SUBSET Events(Fns, Args), Numbered(before),
         events' = before \cup Requested(before, ts),
         \A f \in before : f.fn \in LastCalls => f \in events
  PROVE  StopInv'
<1> DEFINE asked == Requested(before, ts)
           last == LastUid(before)
           n == Len(withContext)
<1>1. /\ StopAskedLast /\ StopRunsLast /\ StoppedForGood
      /\ thread = "hangup" => messageBuffer = <<>>
  BY DEF StopInv
<1>2. n \in Nat /\ DOMAIN withContext = 1..n
  BY LenProperties DEF IInv, TypeOK
<1>3. last \in Nat /\ \A f \in before : f.uid \in Nat /\ f.uid <= last
  <2>1. \A f \in before : f.uid \in Nat
    BY DEF Events
  <2> QED
    BY <2>1, LastUidIsLast
<1>4. \A f \in asked : \E i \in 1..n : f.fn = withContext[i] /\ f.uid = last + i
  BY <1>2 DEF Requested
<1> HIDE DEF last, n
<1>5. withContext = <<>> => asked = {}
  <2>1. withContext = <<>> => DOMAIN withContext = {}
    OBVIOUS
  <2> QED
    BY <2>1 DEF Requested
<1> HIDE DEF asked
<1>6. events' = before \cup asked
  BY DEF asked
<1>7. StopAskedLast'
  BY DEF StopAskedLast
<1>8. StoppedForGood'
  BY <1>1, <1>5, <1>6 DEF StoppedForGood
<1>9. StopRunsLast'
  <2> SUFFICES ASSUME NEW e \in events', e.fn = "Stop"
               PROVE  /\ ThreadThrough
                      /\ \A f \in events' : f.fn \in LastCalls => f.uid <= e.uid
    BY DEF StopRunsLast, Stops, ThreadThrough
  <2>1. CASE e \in before
    <3>1. e \in Stops
      BY <2>1 DEF LastCalls, Stops
    <3>2. /\ withContext = <<>> /\ ThreadThrough
          /\ \A f \in events : f.fn \in LastCalls => f.uid <= e.uid
      BY <1>1, <3>1 DEF StopRunsLast
    <3> QED
      BY <1>5, <1>6, <3>2
  <2>2. CASE e \in asked
    <3>1. PICK i \in 1..n : withContext[i] = "Stop" /\ e.uid = last + i
      BY <1>4, <2>2
    <3>2. i = n /\ ThreadThrough
      BY <1>1, <1>2, <3>1 DEF StopAskedLast, n
    <3>3. \A f \in events' : f.uid <= e.uid
      BY <1>2, <1>3, <1>4, <1>6, <3>1, <3>2
    <3> QED
      BY <3>2, <3>3
  <2> QED
    BY <1>6, <2>1, <2>2
<1>10. thread' = "hangup" => messageBuffer' = <<>>
  BY <1>1
<1> QED
  BY <1>7, <1>8, <1>9, <1>10 DEF StopInv

\* The two forms in which the events of the main thread return.
LEMMA StopReturnsNothing ==
  ASSUME IInv, StopInv, main = "run", UNCHANGED <<main, state, thread, messageBuffer>>,
         NEW ts, NEW pending \in SUBSET events, Return(ts, pending, <<>>)
  PROVE  StopInv'
<1>1. pending \in SUBSET Events(Fns, Args) /\ Numbered(pending)
  BY FewerEvents DEF IInv, TypeOK, Fns, Args
<1>2. events' = pending \cup Requested(pending, ts) /\ withContext' = <<>>
  BY AfterNothing DEF Return
<1> QED
  BY <1>1, <1>2, StopAfterEvent

LEMMA StopReturnsOne ==
  ASSUME IInv, StopInv, main = "run", UNCHANGED <<main, state, thread, messageBuffer>>,
         NEW ts \in Nat, NEW pending \in SUBSET events,
         NEW at \in Nat, NEW fn \in Fns \ LastCalls, NEW msg \in Args,
         Return(ts, pending, <<Entry(at, fn, msg)>>)
  PROVE  StopInv'
<1> DEFINE before == pending \cup {NewEvent(pending, at, fn, msg)}
<1>1. /\ events' = before \cup Requested(before, ts)
      /\ before \in SUBSET Events(Fns, Args) /\ Numbered(before)
  BY AfterOne
<1>2. \A f \in before : f.fn \in LastCalls => f \in events
  BY DEF NewEvent
<1>3. withContext' = <<>>
  BY DEF Return
<1> HIDE DEF before
<1> QED
  BY <1>1, <1>2, <1>3, StopAfterEvent

LEMMA StopInit == Init => StopInv
<1> SUFFICES ASSUME Init PROVE StopInv
  OBVIOUS
<1>1. IInv
  BY IInvInit
<1>2. state = "CREATED" /\ withContext = <<>> /\ thread = "none"
  BY DEF Init
<1>3. \A e \in events : e.fn \in UserFns
  BY <1>1, <1>2 DEF IInv, HeldInv, NothingBeforeConnect
<1>4. Stops = {}
  BY <1>3 DEF Stops, UserFns
<1>5. StopAskedLast
  BY <1>2 DEF StopAskedLast
<1> QED
  BY <1>2, <1>4, <1>5 DEF StopInv, StopRunsLast, StoppedForGood

LEMMA StopConnect ==
  ASSUME IInv, NEW e \in events, Connect(e)
  PROVE  StopInv'
<1> DEFINE fn == "WaitForNextUpdate"
           none == NoMessage
           pending == events \ {e}
           before == pending \cup {NewEvent(pending, e.ts, fn, none)}
<1>1. /\ IsNext(e, events) /\ state = "CREATED"
      /\ Return(e.ts, pending, <<Entry(e.ts, fn, none)>>)
      /\ state' = "CONNECTED" /\ thread' = "check"
  BY DEF Connect, Runs
<1>2. /\ e.ts \in Nat /\ withContext = <<>>
      /\ \A f \in events : f.fn \in UserFns
  BY <1>1, NextEvent DEF IInv, HeldInv, NothingBeforeConnect
<1>3. fn \in Fns /\ none \in Args /\ pending \in SUBSET events
  BY DEF Fns, GatewayFns, Args
<1>4. events' = before \cup Requested(before, e.ts)
  <2> HIDE DEF fn, none, pending
  <2> QED
    BY <1>1, <1>2, <1>3, AfterOne
<1>5. Requested(before, e.ts) = {} /\ withContext' = <<>>
  <2>1. DOMAIN withContext = {}
    BY <1>2
  <2> QED
    BY <1>1, <2>1 DEF Requested, Return
<1>6. \A f \in before : f.fn \notin LastCalls
  BY <1>2 DEF NewEvent, LastCalls, UserFns
<1> HIDE DEF before
<1>7. Stops' = {} /\ StopAskedLast'
  BY <1>4, <1>5, <1>6 DEF Stops, LastCalls, StopAskedLast
<1> QED
  BY <1>1, <1>7 DEF StopInv, StopRunsLast, StoppedForGood

LEMMA StopEvent ==
  ASSUME IInv, StopInv, NEW e \in events,
         \/ Model(e) \/ Finish(e) \/ WaitForNextUpdate(e)
         \/ ForwardTerminate(e) \/ ForwardFirst(e) \/ ForwardUpdate(e)
         \/ DoInitialize(e) \/ HandleUpdate(e)
  PROVE  StopInv'
<1>1. /\ IsNext(e, events) /\ main = "run"
      /\ UNCHANGED <<main, state, thread, messageBuffer>>
  BY DEF Model, Finish, WaitForNextUpdate, ForwardTerminate, ForwardFirst, ForwardUpdate,
         DoInitialize, HandleUpdate, Runs, received
<1>2. e.ts \in Nat
  BY <1>1, NextEvent
<1>3. CASE \E pending \in SUBSET events : Return(e.ts, pending, <<>>)
  BY <1>1, <1>3, StopReturnsNothing
<1>4. CASE \E pending \in SUBSET events, at \in Nat, msg \in Args,
              fn \in {"WaitForNextUpdate", "DoInitialize", "HandleUpdate"} :
             Return(e.ts, pending, <<Entry(at, fn, msg)>>)
  <2>1. PICK pending \in SUBSET events, at \in Nat, msg \in Args,
              fn \in {"WaitForNextUpdate", "DoInitialize", "HandleUpdate"} :
             Return(e.ts, pending, <<Entry(at, fn, msg)>>)
    BY <1>4
  <2>2. fn \in Fns \ LastCalls
    BY DEF Fns, GatewayFns, LastCalls
  <2> QED
    BY <1>1, <1>2, <2>1, <2>2, StopReturnsOne
<1>5. CASE \/ Model(e) \/ Finish(e) \/ ForwardTerminate(e) \/ DoInitialize(e)
           \/ WaitForNextUpdate(e) /\ ~KeepsWaiting
           \/ HandleUpdate(e) /\ ~PausesAt(e.ts)
  <2>1. Return(e.ts, events \ {e}, <<>>)
    BY <1>5 DEF Model, Finish, ForwardTerminate, DoInitialize, WaitForNextUpdate,
                HandleUpdate
  <2> QED
    BY <1>3, <2>1
<1>6. NoMessage \in Args
  BY DEF Args
<1>7. CASE WaitForNextUpdate(e) /\ KeepsWaiting
  <2> DEFINE pending == Cancel(events \ {e}, WaitAfter(e))
  <2>1. Return(e.ts, pending, <<Entry(e.ts, "WaitForNextUpdate", NoMessage)>>)
    BY <1>7 DEF WaitForNextUpdate
  <2>2. pending \in SUBSET events
    BY DEF Cancel
  <2> HIDE DEF pending
  <2> QED
    BY <1>2, <1>4, <1>6, <2>1, <2>2
<1>8. CASE HandleUpdate(e) /\ PausesAt(e.ts)
  <2>1. Return(e.ts, events \ {e}, <<Entry(e.ts, "WaitForNextUpdate", NoMessage)>>)
    BY <1>8 DEF HandleUpdate
  <2> QED
    BY <1>2, <1>4, <1>6, <2>1
<1>9. CASE ForwardFirst(e)
  <2>1. /\ Return(e.ts, events \ {e}, <<Entry(e.ts, "DoInitialize", Message)>>)
        /\ ForwardFault = "none"
    BY <1>9 DEF ForwardFirst
  <2>2. Message \in Args
    BY <2>1, ForwardedMessage DEF Args
  <2> QED
    BY <1>2, <1>4, <2>1, <2>2
<1>10. CASE ForwardUpdate(e)
  <2> DEFINE pending == WithoutWait \ {e}
             at == PauseFor(Header)
  <2>1. /\ Return(e.ts, pending, <<Entry(at, "HandleUpdate", Message)>>)
        /\ ForwardFault = "none" /\ Header >= 0 /\ timeStart >= 0
    BY <1>10 DEF ForwardUpdate
  <2>2. Message \in Args /\ at \in Nat
    BY <2>1, ForwardedMessage, AcceptedPause DEF Args
  <2>3. pending \in SUBSET events
    BY DEF WithoutWait, Cancel
  <2> HIDE DEF pending, at
  <2> QED
    BY <1>4, <2>1, <2>2, <2>3
<1> QED
  BY <1>5, <1>7, <1>8, <1>9, <1>10

\* Stop itself: it runs after every call of ForwardUp, so that none is left.
LEMMA StopStop ==
  ASSUME IInv, QueueInv, StopInv, StopEnd \/ \E e \in events : StopBegin(e)
  PROVE  StopInv'
<1>1. ASSUME NEW e \in events, StopBegin(e)
      PROVE  StopInv'
  <2>1. /\ main = "run" /\ IsNext(e, events) /\ e.fn = "Stop"
        /\ events' = events \ {e} /\ state' = "STOPPING"
        /\ UNCHANGED <<withContext, messageBuffer, thread>>
    BY <1>1 DEF StopBegin, Runs, received
  <2>2. /\ withContext = <<>> /\ ThreadThrough
        /\ \A f \in events : f.fn \in LastCalls => f.uid <= e.uid
    BY <2>1 DEF StopInv, StopRunsLast, Stops
  <2>3. ASSUME NEW f \in events \ {e}
        PROVE  f.fn \notin LastCalls
    <3> SUFFICES ASSUME f.fn \in LastCalls PROVE FALSE
      OBVIOUS
    <3>1. f.ts = now /\ e.ts = now
      BY <2>1 DEF IInv, HeldInv, EventsOK, EventOK, CurrentFns, GatewayFns, LastCalls
    <3>2. f.uid \in Nat /\ e.uid \in Nat /\ now \in Nat
      BY DEF IInv, TypeOK, Events
    <3>3. e.uid < f.uid
      BY <2>1, <3>1, <3>2 DEF IsNext
    <3> QED
      BY <2>2, <3>2, <3>3
  <2>4. StopAskedLast'
    BY <2>1, <2>2 DEF StopAskedLast
  <2>5. Stops' = {}
    BY <2>1, <2>3 DEF Stops, LastCalls
  <2>6. StoppedForGood'
    BY <2>1, <2>2, <2>3 DEF StoppedForGood, ThreadThrough
  <2> QED
    BY <2>1, <2>2, <2>4, <2>5, <2>6 DEF StopInv, StopRunsLast, ThreadThrough
<1>2. CASE StopEnd
  <2>1. CASE main = "destroying"
    <3>1. main' = "done"
      BY <1>2, <2>1 DEF StopEnd
    <3> QED
      BY <3>1 DEF StopInv
  <2>2. CASE main = "stopping"
    <3> DEFINE pending == Cancel(events, eventWait)
    <3>1. /\ state = "STOPPING" /\ state' = state /\ messageBuffer' = messageBuffer
          /\ thread \in {"none", "exited", "joined"}
          /\ thread' = IF thread = "exited" THEN "joined" ELSE thread
          /\ Return(now, pending, <<>>)
      BY <1>2, <2>2 DEF StopEnd, Joined, IInv, HeldInv, StopSetsState
    <3>2. /\ withContext = <<>> /\ thread \in {"exited", "joined"} /\ messageBuffer = <<>>
          /\ \A e \in events : e.fn \notin LastCalls
      BY <2>2, <3>1 DEF StopInv, StoppedForGood
    <3>3. events' = pending \cup Requested(pending, now) /\ withContext' = <<>>
      BY <3>1, AfterNothing DEF Return
    <3>4. Requested(pending, now) = {}
      <4>1. DOMAIN withContext = {}
        BY <3>2
      <4> QED
        BY <4>1 DEF Requested
    <3>5. \A e \in events' : e.fn \notin LastCalls
      BY <3>2, <3>3, <3>4 DEF Cancel
    <3>6. Stops' = {} /\ StopAskedLast'
      BY <3>3, <3>5 DEF Stops, LastCalls, StopAskedLast
    <3> HIDE DEF pending
    <3> QED
      BY <3>1, <3>2, <3>3, <3>5, <3>6 DEF StopInv, StopRunsLast, StoppedForGood
  <2> QED
    BY <1>2, <2>1, <2>2 DEF StopEnd
<1> QED
  BY <1>1, <1>2

\* The other thread asks for Stop when it has nothing left, and ends.
LEMMA StopThread ==
  ASSUME IInv, StopInv, Thread \/ ThreadRecvFails
  PROVE  StopInv'
<1>1. UNCHANGED <<events, main, state>>
  BY DEF Thread, ThreadCheck, ThreadRecv, ThreadHangup, ThreadRecvFails, ThreadPush,
         ThreadForward, ThreadScheduleStop, ThreadFrame
<1>2. thread \in {"check", "read", "schedule", "hangup"}
  BY DEF Thread, ThreadCheck, ThreadRecv, ThreadHangup, ThreadRecvFails, ThreadPush,
         ThreadForward, ThreadScheduleStop, At
<1>3. SUFFICES ASSUME main \in {"run", "stopping"} PROVE StopInv'
  BY <1>1 DEF StopInv
<1>4. /\ StopAskedLast /\ StopRunsLast /\ StoppedForGood
      /\ thread = "hangup" => messageBuffer = <<>>
  BY <1>3 DEF StopInv
<1>5. \A i \in DOMAIN withContext : withContext[i] # "Stop"
  BY <1>2, <1>4 DEF StopAskedLast, ThreadThrough
<1>6. Stops = {}
  BY <1>2, <1>4 DEF StopRunsLast, ThreadThrough
<1>7. state = "CONNECTED"
  <2>1. state # "STOPPING"
    BY <1>2, <1>4 DEF StoppedForGood
  <2>2. state # "CREATED"
    BY <1>2 DEF IInv, HeldInv, NothingBeforeConnect
  <2> QED
    BY <2>1, <2>2 DEF IInv, TypeOK
<1>8. Stops' = {} /\ state' = "CONNECTED"
  BY <1>1, <1>6, <1>7 DEF Stops
<1>9. StopRunsLast' /\ StoppedForGood'
  BY <1>8 DEF StopRunsLast, StoppedForGood
<1>10. /\ withContext \in Seq({"ForwardUp", "Stop"}) /\ Len(withContext) \in Nat
       /\ DOMAIN withContext = 1..Len(withContext)
  BY LenProperties DEF IInv, TypeOK
<1>11. CASE ThreadScheduleStop
  <2>1. /\ thread = "hangup" /\ thread' = "exited" /\ messageBuffer' = messageBuffer
        /\ withContext' = Append(withContext, "Stop")
    BY <1>11 DEF ThreadScheduleStop, At, AskedToStop
  <2>2. /\ Len(withContext') = Len(withContext) + 1
        /\ DOMAIN withContext' = 1..(Len(withContext) + 1)
        /\ \A i \in 1..Len(withContext) : withContext'[i] = withContext[i]
    BY <1>10, <2>1, AppendProperties, LenProperties
  <2>3. \A i \in DOMAIN withContext' : withContext'[i] = "Stop" => i = Len(withContext')
    BY <1>5, <1>10, <2>2
  <2>4. ThreadThrough'
    BY <1>4, <1>8, <2>1 DEF ThreadThrough
  <2> QED
    BY <1>8, <1>9, <2>1, <2>3, <2>4 DEF StopInv, StopAskedLast
<1>12. CASE ThreadForward
  <2>1. thread' = "check" /\ withContext' = Append(withContext, "ForwardUp")
    BY <1>12 DEF ThreadForward
  <2>2. /\ DOMAIN withContext' = 1..(Len(withContext) + 1)
        /\ \A i \in 1..Len(withContext) : withContext'[i] = withContext[i]
        /\ withContext'[Len(withContext) + 1] = "ForwardUp"
    BY <1>10, <2>1, AppendProperties, LenProperties
  <2>3. \A i \in DOMAIN withContext' : withContext'[i] # "Stop"
    <3>1. 1..(Len(withContext) + 1) = (1..Len(withContext)) \cup {Len(withContext) + 1}
      BY <1>10
    <3> QED
      BY <1>5, <1>10, <2>2, <3>1
  <2> QED
    BY <1>9, <2>1, <2>3 DEF StopInv, StopAskedLast
<1>13. CASE ThreadCheck \/ ThreadRecv \/ ThreadHangup \/ ThreadRecvFails \/ ThreadPush
  <2>1. withContext' = withContext /\ (thread' = "hangup" => messageBuffer' = <<>>)
    BY <1>13 DEF ThreadCheck, ThreadRecv, ThreadHangup, ThreadRecvFails, ThreadPush, At
  <2>2. StopAskedLast'
    BY <1>5, <2>1 DEF StopAskedLast
  <2> QED
    BY <1>9, <2>1, <2>2 DEF StopInv
<1> QED
  BY <1>11, <1>12, <1>13 DEF Thread

LEMMA StopNext == IInv /\ QueueInv /\ StopInv /\ [Next]_vars => StopInv'
<1> SUFFICES ASSUME IInv, QueueInv, StopInv, [Next]_vars PROVE StopInv'
  OBVIOUS
<1>1. ASSUME NEW e \in events,
             \/ Connect(e) \/ Model(e) \/ Finish(e) \/ WaitForNextUpdate(e)
             \/ ForwardTerminate(e) \/ ForwardFirst(e) \/ ForwardUpdate(e)
             \/ DoInitialize(e) \/ HandleUpdate(e)
      PROVE  StopInv'
  BY <1>1, StopConnect, StopEvent
<1>2. CASE StopEnd \/ \E e \in events : StopBegin(e)
  BY <1>2, StopStop
<1>3. CASE Thread \/ ThreadRecvFails
  BY <1>3, StopThread
<1>4. CASE RunReturns \/ Destroy
  <2>1. main' \notin {"run", "stopping"}
    BY <1>4 DEF RunReturns, Destroy
  <2> QED
    BY <2>1 DEF StopInv
<1>5. ASSUME UNCHANGED <<main, events, withContext, thread, state, messageBuffer>>
      PROVE  StopInv'
  BY <1>5 DEF StopInv, StopAskedLast, StopRunsLast, StoppedForGood, Stops, ThreadThrough
<1>6. ASSUME NEW e \in events, ConnectFails(e) \/ ForwardUpFails(e) \/ CallbackFails(e)
      PROVE  StopInv'
  <2>1. UNCHANGED <<main, events, withContext, thread, state, messageBuffer>>
    BY <1>6 DEF ConnectFails, ForwardUpFails, CallbackFails, Abort, simulator, received
  <2> QED
    BY <1>5, <2>1
<1>7. CASE Server \/ UNCHANGED vars
  <2>1. UNCHANGED <<main, events, withContext, thread, state, messageBuffer>>
    BY <1>7 DEF Server, ServerSend, ServerClose, vars, simulator, received
  <2> QED
    BY <1>5, <2>1
<1> QED
  BY <1>1, <1>2, <1>3, <1>4, <1>6, <1>7 DEF Next, Main, Terminating

\* Once Stop is through, no call of ForwardUp is under way, so that no message is
\* queued for one.
LEMMA InvImpliesNothingLeft ==
  IInv /\ QueueInv /\ StopInv => NothingLeftBehind
<1> SUFFICES ASSUME IInv, QueueInv, StopInv, state = "STOPPING", main = "run"
             PROVE  messageQueue \o messageBuffer = <<>>
  BY DEF NothingLeftBehind
<1>1. /\ withContext = <<>> /\ thread \in {"exited", "joined"} /\ messageBuffer = <<>>
      /\ \A e \in events : e.fn \notin LastCalls
  BY DEF StopInv, StoppedForGood
<1>2. ForwardsPending = {} /\ ForwardsAsked = {}
  BY <1>1 DEF ForwardsPending, ForwardsAsked, LastCalls
<1>3. Len(messageQueue) = 0
  BY <1>1, <1>2, FS_EmptySet DEF QueueInv, QueueMatchesForwards
<1>4. messageQueue \in Seq(Messages)
  BY DEF IInv, TypeOK
<1>5. messageQueue = <<>>
  BY <1>3, <1>4
<1> QED
  BY <1>1, <1>5

\* What was received when the connection ended is dealt with before the gateway
\* stops, for every server and interleaving (gateway.cc:209-272, 174-207).
THEOREM StopComesLast == Spec => []NothingLeftBehind
<1> QED
  BY QueueInit, QueueNext, StopInit, StopNext, Invariance, InvImpliesNothingLeft,
     PTL DEF Spec

-----------------------------------------------------------------------------
(* A server whose stamps increase.                                         *)

\* The server keeps to the documented order: each stamp is later than the one before,
\* and nothing follows a request to terminate (gateway.h:179).
StampsIncrease ==
  Follows \subseteq
    {p \in Stamps \X Stamps : p[1] >= 0 /\ (p[1] < p[2] \/ p[2] < 0)}

\* The user calls Connect before Run or at time 0, as simple-gateway.cc:244 does.
ConnectsAtStart ==
  \A program \in Programs : \A i \in DOMAIN program :
    program[i].fn = "Connect" => program[i].ts = 0

\* What was seen are stamps, and a request to terminate ends it.  The origin of time is
\* the first stamp; the clock may run up to the last.
StartKnown ==
  /\ \A m \in 1..Seen : sent[m] \in Int /\ (sent[m] < 0 => stopped)
  /\ Seen = 0 \/ sent[1] < 0 => timeStart < 0
  /\ ~(Seen = 0 \/ sent[1] < 0) => timeStart = sent[1]
PauseKnown ==
  /\ Seen = 0 => timePause = 0
  /\ Seen > 0 /\ ~(sent[Seen] < 0) => timePause = sent[Seen] - sent[1]
StampInv == StartKnown /\ PauseKnown

\* The gateway was connected at time 0.
ConnectInv ==
  /\ \A e \in events : e.fn = "Connect" => e.ts = 0
  /\ state # "CREATED" => connectedAt = 0
  /\ state = "CREATED" => delivered = <<>>

\* Each callback is scheduled for the time its stamp stands for.
OnTime(e) ==
  /\ e.fn = "DoInitialize" => e.msg = 1 /\ e.ts = 0
  /\ e.fn = "HandleUpdate" => e.msg > 1 /\ e.ts = sent[e.msg] - sent[1]
EventsOnTime == \A e \in events : OnTime(e)

\* What holds for every server once Connect is called at time 0.
TimingInv == StampInv /\ ConnectInv /\ EventsOnTime

\* What was sent increases; all but the last are stamps.
SentIncreases ==
  \A i, j \in DOMAIN sent : i < j =>
    /\ sent[i] \in Int /\ sent[j] \in Int /\ sent[i] >= 0
    /\ sent[i] < sent[j] \/ sent[j] < 0

\* What was seen increases.
SeenIncreases ==
  \A k, m \in 1..Seen : k < m =>
    /\ sent[k] \in Int /\ sent[m] \in Int /\ sent[k] >= 0
    /\ sent[m] < 0 \/ sent[k] < sent[m]

\* The callbacks that ran did so in order and at their times.
DeliveredInv ==
  \A i \in DOMAIN delivered :
    delivered[i].msg = i /\ delivered[i].at = sent[i] - sent[1]

\* The clock is held by one wait event, or by the update at the last granted time.
IsWait(e) == e.fn = "WaitForNextUpdate"
IsLastUpdate(e) == e.fn = "HandleUpdate" /\ e.ts = timePause
HoldInv ==
  state = "CONNECTED" =>
    /\ \A e \in events : IsWait(e) => e.uid = eventWait
    /\ \A e, f \in events : IsLastUpdate(e) => ~IsWait(f)
    /\ now < timePause => \E e \in events : IsLastUpdate(e)

OrderedInv == SentIncreases /\ DeliveredInv /\ HoldInv

\* The invariants that hold for every server.
EveryInv == IInv /\ QueueInv /\ DeliveryInv /\ StopInv

-----------------------------------------------------------------------------
(* The stamps.                                                             *)

LEMMA SentTypes ==
  ASSUME EveryInv, TimingInv
  PROVE  /\ Seen \in Nat /\ Seen <= Len(sent) /\ Len(sent) \in Nat
         /\ DOMAIN sent = 1..Len(sent)
         /\ \A m \in 1..Seen : m \in DOMAIN sent /\ sent[m] \in Int
<1>1. /\ sent \in Seq(Headers) /\ Len(sent) \in Nat
      /\ Seen \in Int /\ Seen <= Len(sent) /\ Seen >= 0
  BY BufferTypes DEF EveryInv, DeliveryInv, InOrder
<1>2. DOMAIN sent = 1..Len(sent)
  BY <1>1, LenProperties
<1>3. \A m \in 1..Seen : m \in DOMAIN sent
  BY <1>1, <1>2
<1> QED
  BY <1>1, <1>2, <1>3 DEF TimingInv, StampInv, StartKnown

\* Of two messages seen, the later one has the later stamp.
LEMMA StampOrder ==
  ASSUME EveryInv, TimingInv, OrderedInv, NEW k \in 1..Seen, NEW m \in 1..Seen, k < m
  PROVE  /\ sent[k] \in Int /\ sent[m] \in Int /\ sent[k] >= 0
         /\ sent[m] < 0 \/ sent[k] < sent[m]
BY SentTypes DEF OrderedInv, SentIncreases

LEMMA OrderedSeen ==
  ASSUME EveryInv, TimingInv, OrderedInv
  PROVE  SeenIncreases
BY StampOrder DEF SeenIncreases

\* ForwardUp runs only while the gateway is connected.
LEMMA ForwardConnected ==
  ASSUME EveryInv, TimingInv, NEW e \in events, Runs(e, "ForwardUp")
  PROVE  /\ state = "CONNECTED" /\ connectedAt = 0 /\ ~stopped
         /\ e.ts = now /\ now \in Nat /\ now <= Granted
<1>1. /\ main = "run" /\ e.fn = "ForwardUp" /\ e.ts = now /\ now \in Nat
      /\ state # "CREATED" /\ ~stopped
  BY ForwardEvent DEF EveryInv, Runs
<1>2. state # "STOPPING"
  BY <1>1 DEF EveryInv, StopInv, StoppedForGood, LastCalls
<1>3. state = "CONNECTED"
  BY <1>1, <1>2 DEF EveryInv, IInv, TypeOK
<1> QED
  BY <1>1, <1>3 DEF TimingInv, ConnectInv, EveryInv, IInv, HeldInv, TimeGranted

\* The message that ForwardUp finds at the head of the queue, and the one before it.
LEMMA NextSeen ==
  ASSUME EveryInv, TimingInv, NEW e \in events, Runs(e, "ForwardUp"),
         messageQueue # <<>>
  PROVE  /\ Message = Seen + 1 /\ Message \in 1..Len(sent) /\ Header = sent[Message]
         /\ \A m \in 1..Seen : sent[m] >= 0
         /\ timeStart < 0 => Seen = 0 /\ timePause = 0 /\ now = 0
         /\ timeStart >= 0 =>
              /\ Seen >= 1 /\ timeStart = sent[1] /\ sent[1] \in Int
              /\ sent[Seen] \in Int /\ timePause = sent[Seen] - sent[1]
<1>1. /\ Seen \in Nat /\ Len(sent) \in Nat /\ DOMAIN sent = 1..Len(sent)
      /\ \A m \in 1..Seen : m \in DOMAIN sent /\ sent[m] \in Int
  BY SentTypes
<1>2. /\ connectedAt = 0 /\ ~stopped /\ now \in Nat /\ now <= Granted
  BY ForwardConnected
<1>3. Message = Seen + 1 /\ Message \in 1..Len(sent) /\ Header = sent[Message]
  <2>1. Head(messageQueue) = messageQueue[1] /\ Len(messageQueue) \in Nat \ {0}
    BY DEF EveryInv, IInv, TypeOK
  <2>2. messageQueue[1] = Seen + 1
    BY <2>1 DEF EveryInv, DeliveryInv, InOrder
  <2>3. Seen + Len(messageQueue) <= Len(sent)
    BY BufferTypes DEF EveryInv, Seen, Unseen
  <2> QED
    BY <1>1, <2>1, <2>2, <2>3 DEF Message, Header
<1>4. \A m \in 1..Seen : sent[m] \in Int /\ sent[m] >= 0
  BY <1>1, <1>2 DEF TimingInv, StampInv, StartKnown
<1>5. /\ Seen = 0 \/ sent[1] < 0 => timeStart < 0
      /\ ~(Seen = 0 \/ sent[1] < 0) => timeStart = sent[1]
      /\ Seen = 0 => timePause = 0
      /\ Seen > 0 /\ ~(sent[Seen] < 0) => timePause = sent[Seen] - sent[1]
  BY DEF TimingInv, StampInv, StartKnown, PauseKnown
<1>6. CASE Seen = 0
  <2>1. timeStart < 0 /\ timePause = 0 /\ timeStart \in Int
    BY <1>5, <1>6 DEF EveryInv, IInv, TypeOK
  <2>2. now = 0
    BY <1>2, <2>1 DEF Granted
  <2> QED
    BY <1>3, <1>4, <1>6, <2>1, <2>2
<1>7. CASE Seen # 0
  <2>1. 1 \in 1..Seen /\ Seen \in 1..Seen
    BY <1>1, <1>7
  <2>2. sent[1] \in Int /\ sent[1] >= 0 /\ sent[Seen] \in Int /\ sent[Seen] >= 0
    BY <1>4, <2>1
  <2>3. timeStart = sent[1] /\ timePause = sent[Seen] - sent[1]
    BY <1>1, <1>5, <1>7, <2>2
  <2>4. ~(timeStart < 0)
    BY <2>2, <2>3
  <2> QED
    BY <1>1, <1>3, <1>4, <1>7, <2>2, <2>3, <2>4
<1> QED
  BY <1>6, <1>7

LEMMA NextStamp ==
  ASSUME EveryInv, TimingInv, OrderedInv, NEW e \in events, Runs(e, "ForwardUp"),
         messageQueue # <<>>, timeStart >= 0
  PROVE  /\ Seen >= 1 /\ timeStart = sent[1] /\ sent[1] \in Int
         /\ timePause = sent[Seen] - sent[1] /\ now <= timePause
         /\ sent[Seen] \in Int /\ sent[Seen] >= sent[1]
         /\ Header \in Int /\ (Header < 0 \/ sent[Seen] < Header)
<1>1. /\ Seen \in Nat /\ Len(sent) \in Nat /\ DOMAIN sent = 1..Len(sent)
  BY SentTypes
<1>2. /\ Message = Seen + 1 /\ Message \in 1..Len(sent) /\ Header = sent[Message]
      /\ \A m \in 1..Seen : sent[m] >= 0
      /\ Seen >= 1 /\ timeStart = sent[1] /\ sent[1] \in Int
      /\ sent[Seen] \in Int /\ timePause = sent[Seen] - sent[1]
  BY NextSeen
<1>3. \A i, j \in 1..Len(sent) : i < j =>
        /\ sent[i] \in Int /\ sent[j] \in Int /\ sent[i] >= 0
        /\ sent[i] < sent[j] \/ sent[j] < 0
  BY <1>1 DEF OrderedInv, SentIncreases
<1>4. 1 \in 1..Seen /\ Seen \in 1..Seen /\ Seen \in 1..Len(sent) /\ Seen < Message
  BY <1>1, <1>2
<1>5. sent[Seen] >= sent[1] /\ sent[1] >= 0 /\ sent[Seen] >= 0
  <2>1. sent[1] >= 0 /\ sent[Seen] >= 0
    BY <1>2, <1>4
  <2>2. CASE Seen = 1
    BY <1>2, <2>1, <2>2
  <2>3. CASE Seen # 1
    BY <1>1, <1>2, <1>4, <2>1, <2>3, StampOrder
  <2> QED
    BY <2>1, <2>2, <2>3
<1>6. now <= timePause
  <2>1. connectedAt = 0 /\ now \in Nat /\ now <= Granted
    BY ForwardConnected
  <2> QED
    BY <1>2, <1>5, <2>1 DEF Granted
<1>7. Header \in Int /\ (Header < 0 \/ sent[Seen] < Header)
  BY <1>2, <1>3, <1>4
<1> QED
  BY <1>2, <1>5, <1>6, <1>7

LEMMA StampKept ==
  ASSUME TimingInv, Seen' = Seen, UNCHANGED <<sent, timeStart, timePause>>,
         stopped => stopped'
  PROVE  StampInv'
BY DEF TimingInv, StampInv, StartKnown, PauseKnown

\* The server sends the next stamp.
LEMMA StampServer ==
  ASSUME EveryInv, TimingInv, Server
  PROVE  StampInv'
<1>1. Seen \in Nat
  BY SentTypes
<1>2. Seen' = Seen /\ \A m \in 1..Seen : sent'[m] = sent[m]
  BY OrderServer DEF EveryInv, DeliveryInv
<1>3. UNCHANGED <<timeStart, timePause, stopped>>
  BY DEF Server, ServerSend, ServerClose, times, simulator
<1>4. Seen > 0 => sent'[1] = sent[1] /\ sent'[Seen] = sent[Seen]
  BY <1>1, <1>2
<1>5. StartKnown'
  BY <1>1, <1>2, <1>3, <1>4 DEF TimingInv, StampInv, StartKnown
<1>6. PauseKnown'
  BY <1>1, <1>2, <1>3, <1>4 DEF TimingInv, StampInv, PauseKnown
<1> QED
  BY <1>5, <1>6 DEF StampInv

LEMMA IncreasesServer ==
  ASSUME StampsIncrease, EveryInv, OrderedInv, Server
  PROVE  SentIncreases'
<1>1. /\ sent \in Seq(Headers) /\ Len(sent) \in Nat /\ DOMAIN sent = 1..Len(sent)
  BY LenProperties DEF EveryInv, IInv, TypeOK
<1>2. CASE ServerClose
  BY <1>2 DEF ServerClose, OrderedInv, SentIncreases
<1>3. ASSUME NEW h \in Headers, ServerSend(h)
      PROVE  SentIncreases'
  <2> DEFINE n == Len(sent)
  <2>1. sent' = Append(sent, h) /\ MaySend(h)
    BY <1>3 DEF ServerSend
  <2>2. /\ DOMAIN sent' = 1..(n + 1) /\ sent'[n + 1] = h
        /\ \A i \in 1..n : sent'[i] = sent[i]
    BY <1>1, <2>1, AppendProperties, LenProperties
  <2>3. n > 0 => sent[n] \in Int /\ h \in Int /\ sent[n] >= 0 /\ (sent[n] < h \/ h < 0)
    <3> SUFFICES ASSUME n > 0
                 PROVE  sent[n] \in Int /\ h \in Int /\ sent[n] >= 0
                        /\ (sent[n] < h \/ h < 0)
      OBVIOUS
    <3>1. sent # <<>>
      BY <1>1
    <3>2. <<sent[n], h>> \in Follows
      BY <2>1, <3>1 DEF MaySend
    <3>3. <<sent[n], h>> \in {p \in Stamps \X Stamps : p[1] >= 0 /\ (p[1] < p[2] \/ p[2] < 0)}
      BY <3>2 DEF StampsIncrease
    <3>4. /\ sent[n] \in Stamps /\ h \in Stamps
          /\ sent[n] >= 0 /\ (sent[n] < h \/ h < 0)
      BY <3>3
    <3> QED
      BY <3>4, HeadersAssumption
  <2>4. \A i, j \in 1..n : i < j =>
          /\ sent[i] \in Int /\ sent[j] \in Int /\ sent[i] >= 0
          /\ sent[i] < sent[j] \/ sent[j] < 0
    BY <1>1 DEF OrderedInv, SentIncreases
  <2> HIDE DEF n
  <2>5. n \in Nat
    BY <1>1 DEF n
  <2> SUFFICES ASSUME NEW i \in 1..(n + 1), NEW j \in 1..(n + 1), i < j
               PROVE  /\ sent'[i] \in Int /\ sent'[j] \in Int /\ sent'[i] >= 0
                      /\ sent'[i] < sent'[j] \/ sent'[j] < 0
    BY <2>2 DEF SentIncreases
  <2>6. i \in 1..n /\ sent'[i] = sent[i] /\ n > 0 /\ n \in 1..n
    BY <2>2, <2>5
  <2>7. CASE j \in 1..n
    BY <2>2, <2>4, <2>6, <2>7
  <2>8. CASE j = n + 1
    <3>1. sent[n] \in Int /\ h \in Int /\ sent[n] >= 0 /\ (sent[n] < h \/ h < 0)
      BY <2>3, <2>6
    <3>2. sent[i] \in Int /\ sent[i] >= 0 /\ sent[i] <= sent[n]
      <4>1. CASE i = n
        BY <3>1, <4>1
      <4>2. CASE i # n
        BY <2>4, <2>5, <2>6, <3>1, <4>2
      <4> QED
        BY <4>1, <4>2
    <3> QED
      BY <2>2, <2>6, <2>8, <3>1, <3>2
  <2> QED
    BY <2>5, <2>7, <2>8
<1> QED
  BY <1>2, <1>3 DEF Server

\* ForwardUp moves on to the next stamp.
LEMMA StampForward ==
  ASSUME EveryInv, TimingInv, NEW e \in events,
         ForwardTerminate(e) \/ ForwardFirst(e) \/ ForwardUpdate(e)
  PROVE  StampInv'
<1>1. /\ Runs(e, "ForwardUp") /\ ForwardFault = "none"
      /\ messageQueue' = Tail(messageQueue)
      /\ UNCHANGED <<messageBuffer, stream, sent, delivered>>
  BY DEF ForwardTerminate, ForwardFirst, ForwardUpdate, server, history
<1>2. messageQueue # <<>>
  BY <1>1 DEF ForwardFault
<1>3. PICK k : k = Message
  OBVIOUS
<1>4. /\ Seen' = k /\ k = Seen + 1 /\ Seen \in Nat /\ Header = sent[k] /\ Header \in Int
      /\ sent' = sent
  BY <1>1, <1>3, ForwardTakes DEF EveryInv
<1>5. /\ timeStart < 0 => Seen = 0 /\ timePause = 0
      /\ timeStart >= 0 => Seen >= 1 /\ timeStart = sent[1] /\ sent[1] \in Int
      /\ \A m \in 1..Seen : sent[m] >= 0
  BY <1>1, <1>2, NextSeen
<1>6. timeStart \in Int
  BY DEF EveryInv, IInv, TypeOK
<1>7. \A m \in 1..k : sent[m] \in Int
  <2>1. \A m \in 1..Seen : sent[m] \in Int
    BY DEF TimingInv, StampInv, StartKnown
  <2> QED
    BY <1>4, <2>1
<1>8. ASSUME Header >= 0
      PROVE  \A m \in 1..k : sent[m] \in Int /\ ~(sent[m] < 0)
  <2> SUFFICES ASSUME NEW m \in 1..k PROVE sent[m] \in Int /\ ~(sent[m] < 0)
    OBVIOUS
  <2>1. CASE m = k
    BY <1>4, <1>8, <2>1
  <2>2. CASE m # k
    <3>1. m \in 1..Seen
      BY <1>4, <2>2
    <3> QED
      BY <1>5, <1>7, <3>1
  <2> QED
    BY <2>1, <2>2
<1>9. CASE ForwardTerminate(e)
  <2>1. Header < 0 /\ stopped' = TRUE /\ UNCHANGED <<timeStart, timePause>>
    BY <1>9 DEF ForwardTerminate, times
  <2>2. StartKnown'
    <3>1. CASE timeStart < 0
      <4>1. k = 1 /\ sent[1] < 0
        BY <1>4, <1>5, <2>1, <3>1
      <4> QED
        BY <1>4, <1>7, <2>1, <3>1, <4>1 DEF StartKnown
    <3>2. CASE ~(timeStart < 0)
      BY <1>4, <1>5, <1>6, <1>7, <2>1, <3>2 DEF StartKnown
    <3> QED
      BY <3>1, <3>2
  <2>3. PauseKnown'
    BY <1>4, <2>1 DEF PauseKnown
  <2> QED
    BY <2>2, <2>3 DEF StampInv
<1>10. CASE ForwardFirst(e)
  <2>1. /\ Header >= 0 /\ timeStart < 0 /\ timeStart' = Header /\ timePause' = timePause
    BY <1>10 DEF ForwardFirst
  <2>2. k = 1 /\ timePause' = 0
    BY <1>4, <1>5, <2>1
  <2>3. StartKnown'
    BY <1>4, <1>8, <2>1, <2>2 DEF StartKnown
  <2>4. PauseKnown'
    BY <1>4, <2>1, <2>2 DEF PauseKnown
  <2> QED
    BY <2>3, <2>4 DEF StampInv
<1>11. CASE ForwardUpdate(e)
  <2>1. /\ Header >= 0 /\ timeStart >= 0 /\ timeStart' = timeStart
        /\ timePause' = Header - timeStart
    BY <1>11 DEF ForwardUpdate, PauseFor
  <2>2. Seen >= 1 /\ timeStart = sent[1] /\ sent[1] \in Int
    BY <1>5, <2>1
  <2>3. StartKnown'
    BY <1>4, <1>8, <2>1, <2>2 DEF StartKnown
  <2>4. PauseKnown'
    BY <1>4, <2>1, <2>2 DEF PauseKnown
  <2> QED
    BY <2>3, <2>4 DEF StampInv
<1> QED
  BY <1>9, <1>10, <1>11

-----------------------------------------------------------------------------
(* The events are on time.                                                 *)

\* What the event list gains at the end of an event.
LEMMA GainsNothing ==
  ASSUME IInv, NEW ts, NEW pending, Return(ts, pending, <<>>)
  PROVE  /\ pending \subseteq events' /\ now' = ts
         /\ \A f \in events' : f \in pending \/ f.fn \in LastCalls
<1>1. events' = pending \cup Requested(pending, ts) /\ now' = ts
  BY AfterNothing DEF Return
<1>2. \A i \in DOMAIN withContext : withContext[i] \in LastCalls
  BY ElementOfSeq, LenProperties DEF IInv, TypeOK, LastCalls
<1>3. \A f \in Requested(pending, ts) : f.fn \in LastCalls
  BY <1>2 DEF Requested
<1> QED
  BY <1>1, <1>3

LEMMA GainsOne ==
  ASSUME IInv, NEW ts \in Nat, NEW pending \in SUBSET events,
         NEW at \in Nat, NEW fn \in Fns, NEW msg \in Args,
         Return(ts, pending, <<Entry(at, fn, msg)>>)
  PROVE  /\ pending \subseteq events' /\ now' = ts
         /\ NewEvent(pending, at, fn, msg) \in events'
         /\ \A f \in events' : \/ f \in pending \/ f.fn \in LastCalls
                               \/ f = NewEvent(pending, at, fn, msg)
<1> DEFINE new == NewEvent(pending, at, fn, msg)
           before == pending \cup {new}
<1>1. events' = before \cup Requested(before, ts) /\ now' = ts
  BY AfterOne DEF Return
<1>2. \A i \in DOMAIN withContext : withContext[i] \in LastCalls
  BY ElementOfSeq, LenProperties DEF IInv, TypeOK, LastCalls
<1>3. \A f \in Requested(before, ts) : f.fn \in LastCalls
  BY <1>2 DEF Requested
<1> HIDE DEF new
<1> QED
  BY <1>1, <1>3 DEF new

\* The wait event that Connect, WaitForNextUpdate and HandleUpdate schedule.
NewWait(pending, ts) == NewEvent(pending, ts, "WaitForNextUpdate", NoMessage)

LEMMA GainsWait ==
  ASSUME IInv, NEW ts \in Nat, NEW pending \in SUBSET events,
         Return(ts, pending, <<Entry(ts, "WaitForNextUpdate", NoMessage)>>)
  PROVE  /\ pending \subseteq events' /\ now' = ts
         /\ NewWait(pending, ts) \in events'
         /\ \A f \in events' : \/ f \in pending \/ f.fn \in LastCalls
                               \/ f = NewWait(pending, ts)
<1> DEFINE fn == "WaitForNextUpdate"
           none == NoMessage
<1>1. fn \in Fns /\ none \in Args
  BY DEF Fns, GatewayFns, Args
<1>2. Return(ts, pending, <<Entry(ts, fn, none)>>)
  OBVIOUS
<1> HIDE DEF fn, none
<1>3. /\ pending \subseteq events' /\ now' = ts
      /\ NewEvent(pending, ts, fn, none) \in events'
      /\ \A f \in events' : \/ f \in pending \/ f.fn \in LastCalls
                            \/ f = NewEvent(pending, ts, fn, none)
  BY <1>1, <1>2, GainsOne
<1> QED
  BY <1>3 DEF NewWait, fn, none

\* The events that schedule no callback.
LEMMA GainsNoCallback ==
  ASSUME IInv, NEW e \in events,
         \/ Connect(e) \/ Model(e) \/ Finish(e) \/ WaitForNextUpdate(e)
         \/ ForwardTerminate(e) \/ DoInitialize(e) \/ HandleUpdate(e)
  PROVE  \A f \in events' : f \in events \/ f.fn \in LastCalls \cup {"WaitForNextUpdate"}
<1>1. IsNext(e, events)
  BY DEF Connect, Model, Finish, WaitForNextUpdate, ForwardTerminate, DoInitialize,
         HandleUpdate, Runs
<1>2. e.ts \in Nat
  BY <1>1, NextEvent
<1>3. ASSUME NEW pending \in SUBSET events, Return(e.ts, pending, <<>>)
      PROVE  \A f \in events' : f \in events \/ f.fn \in LastCalls \cup {"WaitForNextUpdate"}
  BY <1>3, GainsNothing
<1>4. ASSUME NEW pending \in SUBSET events,
             Return(e.ts, pending, <<Entry(e.ts, "WaitForNextUpdate", NoMessage)>>)
      PROVE  \A f \in events' : f \in events \/ f.fn \in LastCalls \cup {"WaitForNextUpdate"}
  <2>1. NewWait(pending, e.ts).fn = "WaitForNextUpdate"
    BY DEF NewWait, NewEvent
  <2>2. \A f \in events' : \/ f \in pending \/ f.fn \in LastCalls
                           \/ f = NewWait(pending, e.ts)
    BY <1>2, <1>4, GainsWait
  <2> QED
    BY <2>1, <2>2
<1>5. CASE \/ Model(e) \/ Finish(e) \/ ForwardTerminate(e) \/ DoInitialize(e)
           \/ WaitForNextUpdate(e) /\ ~KeepsWaiting
           \/ HandleUpdate(e) /\ ~PausesAt(e.ts)
  <2>1. Return(e.ts, events \ {e}, <<>>)
    BY <1>5 DEF Model, Finish, ForwardTerminate, DoInitialize, WaitForNextUpdate,
                HandleUpdate
  <2> QED
    BY <1>3, <2>1
<1>6. CASE Connect(e) \/ (HandleUpdate(e) /\ PausesAt(e.ts))
  <2>1. Return(e.ts, events \ {e}, <<Entry(e.ts, "WaitForNextUpdate", NoMessage)>>)
    BY <1>6 DEF Connect, HandleUpdate
  <2> QED
    BY <1>4, <2>1
<1>7. CASE WaitForNextUpdate(e) /\ KeepsWaiting
  <2> DEFINE pending == Cancel(events \ {e}, WaitAfter(e))
  <2>1. Return(e.ts, pending, <<Entry(e.ts, "WaitForNextUpdate", NoMessage)>>)
    BY <1>7 DEF WaitForNextUpdate
  <2>2. pending \in SUBSET events
    BY DEF Cancel
  <2> HIDE DEF pending
  <2> QED
    BY <1>4, <2>1, <2>2
<1> QED
  BY <1>5, <1>6, <1>7

\* The callbacks that ForwardUp schedules are on time.
LEMMA GainsCallback ==
  ASSUME EveryInv, TimingInv, NEW e \in events, ForwardFirst(e) \/ ForwardUpdate(e)
  PROVE  \A f \in events' :
           \/ f \in events \/ f.fn \in LastCalls
           \/ f.fn \in CallbackFns /\ OnTime(f)
<1>1. /\ Runs(e, "ForwardUp") /\ ForwardFault = "none"
  BY DEF ForwardFirst, ForwardUpdate
<1>2. messageQueue # <<>> /\ IInv
  BY <1>1 DEF ForwardFault, EveryInv
<1>3. PICK k : k = Message
  OBVIOUS
<1>4. /\ k = Seen + 1 /\ Seen \in Nat /\ Header = sent[k]
      /\ timeStart < 0 => Seen = 0 /\ now = 0
      /\ timeStart >= 0 => Seen >= 1 /\ timeStart = sent[1]
  BY <1>1, <1>2, <1>3, NextSeen, SentTypes
<1>5. e.ts = now /\ e.ts \in Nat /\ k \in Args
  BY <1>1, <1>2, <1>3, ForwardEvent, ForwardedMessage DEF Args
<1>6. CASE ForwardFirst(e)
  <2> DEFINE fn == "DoInitialize"
             pending == events \ {e}
             new == NewEvent(pending, e.ts, fn, k)
  <2>1. timeStart < 0 /\ Return(e.ts, pending, <<Entry(e.ts, fn, k)>>)
    BY <1>3, <1>6 DEF ForwardFirst
  <2>2. fn \in Fns /\ pending \in SUBSET events
    BY DEF Fns, GatewayFns
  <2>3. new.fn = "DoInitialize" /\ new.msg = 1 /\ new.ts = 0
    BY <1>4, <1>5, <2>1 DEF NewEvent
  <2>4. new.fn \in CallbackFns /\ OnTime(new)
    BY <2>3 DEF OnTime, CallbackFns
  <2>5. \A f \in events' : f \in pending \/ f.fn \in LastCalls \/ f = new
    <3> HIDE DEF fn, pending
    <3> QED
      BY <1>2, <1>5, <2>1, <2>2, GainsOne
  <2> HIDE DEF new
  <2> QED
    BY <2>4, <2>5
<1>7. CASE ForwardUpdate(e)
  <2> DEFINE fn == "HandleUpdate"
             at == PauseFor(Header)
             pending == WithoutWait \ {e}
             new == NewEvent(pending, at, fn, k)
  <2>1. /\ Header >= 0 /\ timeStart >= 0
        /\ Return(e.ts, pending, <<Entry(at, fn, k)>>)
    BY <1>3, <1>7 DEF ForwardUpdate
  <2>2. fn \in Fns /\ at \in Nat /\ pending \in SUBSET events
    BY <1>1, <1>2, <2>1, AcceptedPause DEF Fns, GatewayFns, WithoutWait, Cancel
  <2>3. new.fn = "HandleUpdate" /\ new.msg = k /\ new.ts = at
    BY DEF NewEvent
  <2>4. at = sent[k] - sent[1] /\ k > 1
    BY <1>4, <2>1 DEF PauseFor
  <2>5. new.fn \in CallbackFns /\ OnTime(new)
    BY <2>3, <2>4 DEF OnTime, CallbackFns
  <2>6. \A f \in events' : f \in pending \/ f.fn \in LastCalls \/ f = new
    <3> HIDE DEF fn, pending, at
    <3> QED
      BY <1>2, <1>5, <2>1, <2>2, GainsOne
  <2> HIDE DEF new
  <2> QED
    BY <2>2, <2>5, <2>6
<1> QED
  BY <1>6, <1>7

\* What is delivered or waits for its callback was seen, and was a stamp.
LEMMA CallbackSeen ==
  ASSUME EveryInv, TimingInv, NEW e \in events, e.fn \in CallbackFns
  PROVE  /\ e.msg \in Messages /\ e.msg \in 1..Seen
         /\ Carried(e.msg) = {e} /\ Reached(e.msg) = {}
         /\ ~(sent[e.msg] < 0)
<1>1. e.msg \in Messages
  BY DEF EveryInv, IInv, HeldInv, EventsOK, EventOK
<1>2. Placed(e.msg) /\ e \in Carried(e.msg)
  BY <1>1 DEF EveryInv, DeliveryInv, Carried, Carrying
<1>3. Forwarding(e.msg) /\ Carried(e.msg) = {e} /\ Reached(e.msg) = {}
  BY <1>2 DEF Placed
<1>4. e.msg \in 1..Seen
  BY <1>1, <1>3, SentTypes DEF Forwarding, Messages
<1> QED
  BY <1>1, <1>3, <1>4 DEF Forwarding

LEMMA DeliveredSeen ==
  ASSUME EveryInv, TimingInv, DeliveredInv, NEW i \in DOMAIN delivered
  PROVE  i \in 1..Seen /\ delivered[i].msg = i
<1>1. delivered[i].msg = i
  BY DEF DeliveredInv
<1>2. i \in Messages
  <2>1. delivered \in Seq([msg : Messages, at : Nat])
    BY DEF EveryInv, IInv, TypeOK
  <2>2. delivered[i] \in [msg : Messages, at : Nat]
    BY <2>1, ElementOfSeq, LenProperties
  <2> QED
    BY <1>1, <2>2
<1>3. Placed(i) /\ i \in Reached(i)
  BY <1>1, <1>2 DEF EveryInv, DeliveryInv, Reached
<1>4. Forwarding(i)
  BY <1>3 DEF Placed
<1> QED
  BY <1>1, <1>2, <1>4, SentTypes DEF Forwarding, Messages

-----------------------------------------------------------------------------
(* Connect is called at time 0.                                            *)

LEMMA ConnectEvent ==
  ASSUME EveryInv, TimingInv, NEW e \in events,
         \/ Connect(e) \/ Model(e) \/ Finish(e) \/ WaitForNextUpdate(e)
         \/ ForwardTerminate(e) \/ ForwardFirst(e) \/ ForwardUpdate(e)
         \/ DoInitialize(e) \/ HandleUpdate(e)
  PROVE  ConnectInv'
<1>1. \A f \in events' : f.fn = "Connect" => f \in events
  <2>1. CASE ForwardFirst(e) \/ ForwardUpdate(e)
    <3>1. \A f \in events' : f \in events \/ f.fn \in LastCalls \/ f.fn \in CallbackFns
      BY <2>1, GainsCallback
    <3> QED
      BY <3>1 DEF LastCalls, CallbackFns
  <2>2. CASE ~(ForwardFirst(e) \/ ForwardUpdate(e))
    <3>1. \A f \in events' :
            f \in events \/ f.fn \in LastCalls \cup {"WaitForNextUpdate"}
      BY <2>2, GainsNoCallback DEF EveryInv
    <3> QED
      BY <3>1 DEF LastCalls
  <2> QED
    BY <2>1, <2>2
<1>2. \A f \in events' : f.fn = "Connect" => f.ts = 0
  BY <1>1 DEF TimingInv, ConnectInv
<1>3. CASE Connect(e)
  <2>1. e.fn = "Connect" /\ state' = "CONNECTED" /\ connectedAt' = e.ts
    BY <1>3 DEF Connect, Runs
  <2>2. e.ts = 0
    BY <2>1 DEF TimingInv, ConnectInv
  <2> QED
    BY <1>2, <2>1, <2>2 DEF ConnectInv
<1>4. CASE ~Connect(e)
  <2>1. UNCHANGED <<state, connectedAt>>
    BY <1>4 DEF Model, Finish, WaitForNextUpdate, ForwardTerminate, ForwardFirst,
                ForwardUpdate, DoInitialize, HandleUpdate, history
  <2>2. state = "CREATED" => UNCHANGED delivered
    <3>1. CASE DoInitialize(e) \/ HandleUpdate(e)
      <4>1. e.fn \in CallbackFns
        BY <3>1 DEF DoInitialize, HandleUpdate, Runs, CallbackFns
      <4>2. state # "CREATED"
        BY <4>1 DEF EveryInv, IInv, HeldInv, NothingBeforeConnect, CallbackFns, UserFns
      <4> QED
        BY <4>2
    <3>2. CASE ~(DoInitialize(e) \/ HandleUpdate(e))
      BY <1>4, <3>2 DEF Model, Finish, WaitForNextUpdate, ForwardTerminate, ForwardFirst,
                        ForwardUpdate, history
    <3> QED
      BY <3>1, <3>2
  <2> QED
    BY <1>2, <2>1, <2>2 DEF TimingInv, ConnectInv
<1> QED
  BY <1>3, <1>4

LEMMA ConnectStop ==
  ASSUME EveryInv, TimingInv, StopEnd \/ Destroy \/ \E e \in events : StopBegin(e)
  PROVE  ConnectInv'
<1>1. UNCHANGED <<connectedAt, delivered>>
  BY DEF StopEnd, Destroy, StopBegin, history
<1>2. /\ \A f \in events : f.fn = "Connect" => f.ts = 0
      /\ state # "CREATED" => connectedAt = 0
      /\ state = "CREATED" => delivered = <<>>
  BY DEF TimingInv, ConnectInv
<1>3. CASE StopEnd
  <2>1. /\ main \in {"stopping", "destroying"}
        /\ Return(now, Cancel(events, eventWait), <<>>) /\ state' = state
    BY <1>3 DEF StopEnd
  <2>2. state' = "STOPPING" /\ state = "STOPPING"
    BY <2>1 DEF EveryInv, IInv, HeldInv, StopSetsState
  <2>3. \A f \in events' : f \in events \/ f.fn \in LastCalls
    BY <2>1, GainsNothing DEF EveryInv, Cancel
  <2>4. \A f \in events' : f.fn = "Connect" => f.ts = 0
    BY <1>2, <2>3 DEF LastCalls
  <2> QED
    BY <1>1, <1>2, <2>2, <2>4 DEF ConnectInv
<1>4. ASSUME NEW e \in events, StopBegin(e)
      PROVE  ConnectInv'
  <2>1. e.fn = "Stop" /\ events' = events \ {e} /\ state' = "STOPPING"
    BY <1>4 DEF StopBegin, Runs
  <2>2. state # "CREATED"
    BY <2>1 DEF EveryInv, IInv, HeldInv, NothingBeforeConnect, UserFns
  <2> QED
    BY <1>1, <1>2, <2>1, <2>2 DEF ConnectInv
<1>5. CASE Destroy
  <2>1. /\ events' = events
        /\ IF eventDestroy THEN state' = "STOPPING" ELSE state' = state
    BY <1>5 DEF Destroy
  <2>2. eventDestroy => state # "CREATED"
    BY DEF EveryInv, IInv, HeldInv, NothingBeforeConnect
  <2> QED
    BY <1>1, <1>2, <2>1, <2>2 DEF ConnectInv
<1> QED
  BY <1>3, <1>4, <1>5

-----------------------------------------------------------------------------
(* The callbacks are on time.                                              *)

LEMMA OnTimeEvent ==
  ASSUME EveryInv, TimingInv, NEW e \in events,
         \/ Connect(e) \/ Model(e) \/ Finish(e) \/ WaitForNextUpdate(e)
         \/ ForwardTerminate(e) \/ ForwardFirst(e) \/ ForwardUpdate(e)
         \/ DoInitialize(e) \/ HandleUpdate(e)
  PROVE  EventsOnTime'
<1>1. sent' = sent
  BY DEF Connect, Model, Finish, WaitForNextUpdate, ForwardTerminate, ForwardFirst,
         ForwardUpdate, DoInitialize, HandleUpdate, server
<1>2. \A f \in events : OnTime(f)
  BY DEF TimingInv, EventsOnTime
<1>3. \A f : f.fn \in LastCalls \cup {"WaitForNextUpdate"} => OnTime(f)
  BY DEF OnTime, LastCalls
<1>4. \A f \in events' : OnTime(f)
  <2>1. CASE ForwardFirst(e) \/ ForwardUpdate(e)
    <3>1. \A f \in events' : \/ f \in events \/ f.fn \in LastCalls
                             \/ f.fn \in CallbackFns /\ OnTime(f)
      BY <2>1, GainsCallback
    <3> QED
      BY <1>2, <1>3, <3>1
  <2>2. CASE ~(ForwardFirst(e) \/ ForwardUpdate(e))
    <3>1. \A f \in events' :
            f \in events \/ f.fn \in LastCalls \cup {"WaitForNextUpdate"}
      BY <2>2, GainsNoCallback DEF EveryInv
    <3> QED
      BY <1>2, <1>3, <3>1
  <2> QED
    BY <2>1, <2>2
<1> QED
  BY <1>1, <1>4 DEF EventsOnTime, OnTime

LEMMA OnTimeStop ==
  ASSUME EveryInv, TimingInv, StopEnd \/ \E e \in events : StopBegin(e)
  PROVE  EventsOnTime'
<1>1. sent' = sent
  BY DEF StopEnd, StopBegin, server
<1>2. \A f \in events' : f \in events \/ f.fn \in LastCalls
  <2>1. CASE StopEnd
    <3>1. Return(now, Cancel(events, eventWait), <<>>)
      BY <2>1 DEF StopEnd
    <3> QED
      BY <3>1, GainsNothing DEF EveryInv, Cancel
  <2>2. CASE \E e \in events : StopBegin(e)
    BY <2>2 DEF StopBegin
  <2> QED
    BY <2>1, <2>2
<1>3. \A f \in events' : OnTime(f)
  BY <1>2 DEF TimingInv, EventsOnTime, OnTime, LastCalls
<1> QED
  BY <1>1, <1>3 DEF EventsOnTime, OnTime

\* What the server sends does not move an event, nor what was delivered.
LEMMA OnTimeServer ==
  ASSUME EveryInv, TimingInv, Server
  PROVE  EventsOnTime'
<1>1. events' = events
  BY DEF Server, ServerSend, ServerClose, simulator
<1>2. Seen \in Nat /\ \A m \in 1..Seen : sent'[m] = sent[m]
  BY OrderServer, SentTypes DEF EveryInv, DeliveryInv
<1>3. ASSUME NEW f \in events
      PROVE  OnTime(f)'
  <2>1. OnTime(f)
    BY DEF TimingInv, EventsOnTime
  <2>2. CASE f.fn \in CallbackFns
    <3>1. f.msg \in 1..Seen /\ 1 \in 1..Seen
      BY <1>2, <2>2, CallbackSeen
    <3>2. sent'[f.msg] = sent[f.msg] /\ sent'[1] = sent[1]
      BY <1>2, <3>1
    <3> QED
      BY <2>1, <3>2 DEF OnTime
  <2>3. CASE f.fn \notin CallbackFns
    BY <2>3 DEF OnTime, CallbackFns
  <2> QED
    BY <2>2, <2>3
<1> QED
  BY <1>1, <1>3 DEF EventsOnTime

\* The time of a callback.
LEMMA CallbackTime ==
  ASSUME EveryInv, TimingInv, NEW e \in events, e.fn \in CallbackFns
  PROVE  /\ e.ts = sent[e.msg] - sent[1]
         /\ e.ts \in Int /\ sent[e.msg] \in Int /\ sent[1] \in Int
<1>1. PICK m : m = e.msg
  OBVIOUS
<1>2. /\ m \in 1..Seen /\ Seen \in Nat
      /\ \A k \in 1..Seen : sent[k] \in Int
  BY <1>1, CallbackSeen, SentTypes
<1>3. 1 \in 1..Seen
  BY <1>2
<1>4. sent[1] \in Int /\ sent[m] \in Int
  BY <1>2, <1>3
<1>5. e.ts = sent[m] - sent[1]
  <2>1. OnTime(e)
    BY DEF TimingInv, EventsOnTime
  <2>2. CASE e.fn = "DoInitialize"
    <3>1. m = 1 /\ e.ts = 0
      BY <1>1, <2>1, <2>2 DEF OnTime
    <3> QED
      BY <1>4, <3>1
  <2>3. CASE e.fn = "HandleUpdate"
    BY <1>1, <2>1, <2>3 DEF OnTime
  <2> QED
    BY <2>2, <2>3 DEF CallbackFns
<1> QED
  BY <1>1, <1>4, <1>5

\* Together: what holds of the times for every server.
LEMMA TimingInit == ConnectsAtStart /\ Init => TimingInv
<1> SUFFICES ASSUME ConnectsAtStart, Init PROVE TimingInv
  OBVIOUS
<1>1. /\ messageQueue = <<>> /\ messageBuffer = <<>> /\ stream = <<>> /\ sent = <<>>
      /\ delivered = <<>> /\ timeStart = -1 /\ timePause = 0 /\ state = "CREATED"
  BY DEF Init
<1>2. Seen = 0
  <2>1. /\ Len(messageQueue) = 0 /\ Len(messageBuffer) = 0
        /\ Len(stream) = 0 /\ Len(sent) = 0
    BY <1>1
  <2> QED
    BY <2>1 DEF Seen, Unseen
<1>3. StampInv
  BY <1>1, <1>2 DEF StampInv, StartKnown, PauseKnown
<1>4. PICK program \in Programs : events = Schedule({}, program)
  BY DEF Init
<1>5. \A e \in events : \E i \in DOMAIN program :
        e.fn = program[i].fn /\ e.ts = program[i].ts
  BY <1>4 DEF Schedule
<1>6. ConnectInv
  <2>1. \A i \in DOMAIN program : program[i].fn = "Connect" => program[i].ts = 0
    BY DEF ConnectsAtStart
  <2>2. \A e \in events : e.fn = "Connect" => e.ts = 0
    BY <1>5, <2>1
  <2> QED
    BY <1>1, <2>2 DEF ConnectInv
<1>7. EventsOnTime
  <2>1. NothingBeforeConnect
    BY IInvInit DEF IInv, HeldInv
  <2>2. \A e \in events : e.fn \in UserFns
    BY <1>1, <2>1 DEF NothingBeforeConnect
  <2> QED
    BY <2>2 DEF EventsOnTime, OnTime, UserFns
<1> QED
  BY <1>3, <1>6, <1>7 DEF TimingInv

LEMMA TimingEvent ==
  ASSUME EveryInv, TimingInv, NEW e \in events,
         \/ Connect(e) \/ Model(e) \/ Finish(e) \/ WaitForNextUpdate(e)
         \/ ForwardTerminate(e) \/ ForwardFirst(e) \/ ForwardUpdate(e)
         \/ DoInitialize(e) \/ HandleUpdate(e)
  PROVE  TimingInv'
<1>1. CASE ForwardTerminate(e) \/ ForwardFirst(e) \/ ForwardUpdate(e)
  BY <1>1, StampForward, ConnectEvent, OnTimeEvent DEF TimingInv
<1>2. CASE ~(ForwardTerminate(e) \/ ForwardFirst(e) \/ ForwardUpdate(e))
  <2>1. /\ UNCHANGED <<messageQueue, messageBuffer, stream, sent>>
        /\ UNCHANGED <<timeStart, timePause>>
        /\ stopped => stopped'
    BY <1>2 DEF Connect, Model, Finish, WaitForNextUpdate, DoInitialize, HandleUpdate,
                received, server, times
  <2>2. Seen' = Seen
    BY <2>1, OrderKept DEF EveryInv, DeliveryInv
  <2>3. StampInv'
    BY <2>1, <2>2, StampKept
  <2> QED
    BY <2>3, ConnectEvent, OnTimeEvent DEF TimingInv
<1> QED
  BY <1>1, <1>2

LEMMA TimingStop ==
  ASSUME EveryInv, TimingInv, StopEnd \/ Destroy \/ \E e \in events : StopBegin(e)
  PROVE  TimingInv'
<1>1. /\ UNCHANGED <<messageQueue, messageBuffer, stream, sent>>
      /\ UNCHANGED <<timeStart, timePause, stopped>>
  BY DEF StopEnd, Destroy, StopBegin, received, server, times
<1>2. Seen' = Seen
  BY <1>1, OrderKept DEF EveryInv, DeliveryInv
<1>3. StampInv'
  BY <1>1, <1>2, StampKept
<1>4. EventsOnTime'
  <2>1. CASE Destroy
    <3>1. UNCHANGED <<events, sent>>
      BY <1>1, <2>1 DEF Destroy
    <3> QED
      BY <3>1 DEF TimingInv, EventsOnTime, OnTime
  <2>2. CASE ~Destroy
    BY <2>2, OnTimeStop
  <2> QED
    BY <2>1, <2>2
<1> QED
  BY <1>3, <1>4, ConnectStop DEF TimingInv

LEMMA TimingServer ==
  ASSUME EveryInv, TimingInv, Server
  PROVE  TimingInv'
<1>1. UNCHANGED <<events, state, connectedAt, delivered>>
  BY DEF Server, ServerSend, ServerClose, simulator, history
<1>2. ConnectInv'
  BY <1>1 DEF TimingInv, ConnectInv
<1> QED
  BY <1>2, StampServer, OnTimeServer DEF TimingInv

\* A step that leaves the main thread's data alone.
LEMMA TimingKept ==
  ASSUME TimingInv, Seen' = Seen, stopped => stopped',
         UNCHANGED <<events, state, timeStart, timePause, sent, connectedAt, delivered>>
  PROVE  TimingInv'
<1>1. StampInv'
  BY StampKept
<1>2. ConnectInv' /\ EventsOnTime'
  BY DEF TimingInv, ConnectInv, EventsOnTime, OnTime
<1> QED
  BY <1>1, <1>2 DEF TimingInv

LEMMA TimingThread ==
  ASSUME EveryInv, TimingInv, Thread \/ ThreadRecvFails
  PROVE  TimingInv'
<1>1. UNCHANGED <<events, stopped, state, timeStart, timePause, sent, connectedAt, delivered>>
  BY DEF Thread, ThreadCheck, ThreadRecv, ThreadHangup, ThreadRecvFails, ThreadPush,
         ThreadForward, ThreadScheduleStop, ThreadFrame, times, history
<1>2. Seen' = Seen
  BY OrderThread DEF EveryInv, DeliveryInv
<1> QED
  BY <1>1, <1>2, TimingKept

\* The step changes nothing but where the main thread is and why the process ended.
LEMMA TimingUnchanged ==
  ASSUME EveryInv, TimingInv,
         UNCHANGED <<messageQueue, messageBuffer, stream>>,
         UNCHANGED <<events, stopped, state, timeStart, timePause, sent, connectedAt,
                     delivered>>
  PROVE  TimingInv'
<1>1. Seen' = Seen
  BY OrderKept DEF EveryInv, DeliveryInv
<1> QED
  BY <1>1, TimingKept

LEMMA TimingNext == EveryInv /\ TimingInv /\ [Next]_vars => TimingInv'
<1> SUFFICES ASSUME EveryInv, TimingInv, [Next]_vars PROVE TimingInv'
  OBVIOUS
<1>1. ASSUME NEW e \in events, ConnectFails(e) \/ ForwardUpFails(e) \/ CallbackFails(e)
      PROVE  TimingInv'
  <2>1. /\ UNCHANGED <<messageQueue, messageBuffer, stream>>
        /\ UNCHANGED <<events, stopped, state, timeStart, timePause, sent, connectedAt,
                       delivered>>
    BY <1>1 DEF ConnectFails, ForwardUpFails, CallbackFails, Abort, simulator, times,
                received, server, history
  <2> QED
    BY <2>1, TimingUnchanged
<1>2. CASE RunReturns \/ UNCHANGED vars
  <2>1. /\ UNCHANGED <<messageQueue, messageBuffer, stream>>
        /\ UNCHANGED <<events, stopped, state, timeStart, timePause, sent, connectedAt,
                       delivered>>
    BY <1>2 DEF RunReturns, vars, simulator, times, received, server, history
  <2> QED
    BY <2>1, TimingUnchanged
<1> QED
  BY <1>1, <1>2, TimingEvent, TimingStop, TimingThread, TimingServer
  DEF Next, Main, Terminating

-----------------------------------------------------------------------------
(* The callbacks run in order.                                             *)

\* The callback that is next is that of the first message not delivered: one before
\* it would have an earlier stamp.
LEMMA CallbackInOrder ==
  ASSUME EveryInv, TimingInv, SeenIncreases, DeliveredInv,
         NEW e \in events, IsNext(e, events), e.fn \in CallbackFns
  PROVE  e.msg = Len(delivered) + 1 /\ e.ts = sent[e.msg] - sent[1]
<1> DEFINE n == Len(delivered)
<1>1. n \in Nat /\ DOMAIN delivered = 1..n
  BY LenProperties DEF EveryInv, IInv, TypeOK
<1>2. PICK m : m = e.msg
  OBVIOUS
<1>3. m \in Messages /\ m \in 1..Seen /\ Reached(m) = {} /\ ~(sent[m] < 0)
  BY <1>2, CallbackSeen
<1>4. /\ Seen \in Nat /\ \A k \in 1..Seen : sent[k] \in Int
      /\ m \in Nat /\ m >= 1
  BY <1>3, SentTypes DEF Messages
<1>6. e.ts = sent[m] - sent[1]
  BY <1>2, CallbackTime
<1> HIDE DEF n
<1>7. m \notin 1..n
  <2>1. \A i \in 1..n : delivered[i].msg = i
    BY <1>1 DEF DeliveredInv
  <2> QED
    BY <1>1, <1>3, <2>1 DEF Reached
<1>8. ASSUME m > n + 1
      PROVE  FALSE
  <2>1. PICK k : k = n + 1
    OBVIOUS
  <2>2. k \in 1..Seen /\ k < m /\ k \in Messages /\ k \notin 1..n
    BY <1>1, <1>3, <1>4, <1>8, <2>1, MaxMessagesAssumption DEF Messages
  <2>3. /\ sent[k] \in Int /\ sent[m] \in Int /\ ~(sent[k] < 0)
        /\ sent[k] < sent[m]
    BY <1>3, <1>4, <2>2 DEF SeenIncreases
  <2>4. Placed(k) /\ Forwarding(k)
    BY <1>4, <2>2, <2>3 DEF EveryInv, DeliveryInv, Forwarding
  <2>5. Reached(k) = {}
    <3>1. \A i \in 1..n : delivered[i].msg = i
      BY <1>1 DEF DeliveredInv
    <3> QED
      BY <1>1, <2>2, <3>1 DEF Reached
  <2>6. PICK f \in events : Carried(k) = {f}
    BY <2>4, <2>5 DEF Placed
  <2>7. f.msg = k /\ f # e
    BY <1>2, <2>2, <2>6, <1>4 DEF Carried, Carrying
  <2>8. f.fn \in CallbackFns
    <3>1. k # NoMessage
      BY <2>2 DEF Messages, NoMessage
    <3> QED
      BY <2>7, <3>1 DEF EveryInv, DeliveryInv, CallbacksCarry
  <2>10. f.ts = sent[k] - sent[1]
    BY <2>7, <2>8, CallbackTime
  <2>11. 1 \in 1..Seen /\ sent[1] \in Int
    BY <1>3, <1>4
  <2>12. f.ts < e.ts /\ f.ts \in Int /\ e.ts \in Int
    BY <1>6, <2>3, <2>10, <2>11
  <2>13. e.ts < f.ts \/ e.ts = f.ts
    BY <2>7 DEF IsNext
  <2> QED
    BY <2>12, <2>13
<1>9. m = n + 1
  BY <1>1, <1>4, <1>7, <1>8
<1> QED
  BY <1>2, <1>6, <1>9 DEF n

LEMMA DeliveredCallback ==
  ASSUME EveryInv, TimingInv, SeenIncreases, DeliveredInv,
         NEW e \in events, DoInitialize(e) \/ HandleUpdate(e)
  PROVE  DeliveredInv'
<1> DEFINE n == Len(delivered)
<1>1. /\ delivered \in Seq([msg : Messages, at : Nat])
      /\ n \in Nat /\ DOMAIN delivered = 1..n
  BY LenProperties DEF EveryInv, IInv, TypeOK
<1>2. /\ IsNext(e, events) /\ e.fn \in CallbackFns
      /\ Deliver(e) /\ sent' = sent
  BY DEF DoInitialize, HandleUpdate, Runs, CallbackFns, server
<1>3. e.msg = n + 1 /\ e.ts = sent[e.msg] - sent[1]
  BY <1>2, CallbackInOrder
<1>4. e.msg \in Messages /\ e.ts \in Nat
  BY <1>2, NextEvent DEF EveryInv
<1>5. PICK r : r = [msg |-> e.msg, at |-> e.ts]
  OBVIOUS
<1>6. r \in [msg : Messages, at : Nat] /\ r.msg = n + 1 /\ r.at = sent[n + 1] - sent[1]
  BY <1>3, <1>4, <1>5
<1>7. delivered' = Append(delivered, r)
  BY <1>2, <1>5 DEF Deliver
<1>8. /\ DOMAIN delivered' = 1..(n + 1) /\ delivered'[n + 1] = r
      /\ \A i \in 1..n : delivered'[i] = delivered[i]
  BY <1>1, <1>6, <1>7, AppendProperties, LenProperties
<1>9. \A i \in 1..n :
        delivered[i].msg = i /\ delivered[i].at = sent[i] - sent[1]
  BY <1>1 DEF DeliveredInv
<1> HIDE DEF n
<1>10. ASSUME NEW i \in 1..(n + 1)
       PROVE  delivered'[i].msg = i /\ delivered'[i].at = sent[i] - sent[1]
  <2>1. CASE i = n + 1
    BY <1>6, <1>8, <2>1
  <2>2. CASE i # n + 1
    <3>1. i \in 1..n
      BY <1>1, <2>2
    <3> QED
      BY <1>8, <1>9, <3>1
  <2> QED
    BY <2>1, <2>2
<1> QED
  BY <1>2, <1>8, <1>10 DEF DeliveredInv

-----------------------------------------------------------------------------
(* What holds the clock.                                                   *)

LEMMA HoldUnchanged ==
  ASSUME OrderedInv, UNCHANGED <<events, now, timePause, eventWait>>,
         state' = "CONNECTED" => state = "CONNECTED"
  PROVE  HoldInv'
BY DEF OrderedInv, HoldInv, IsWait, IsLastUpdate

\* An event that does not hold the clock.
LEMMA HoldKept ==
  ASSUME EveryInv, TimingInv, OrderedInv, NEW e \in events, ~IsWait(e), ~IsLastUpdate(e),
         events \ {e} \subseteq events',
         \A f \in events' : f \in events \/ f.fn \notin {"WaitForNextUpdate", "HandleUpdate"},
         UNCHANGED <<state, timePause, eventWait>>,
         now' \in Nat, now' >= now
  PROVE  HoldInv'
<1> SUFFICES ASSUME state = "CONNECTED"
             PROVE  /\ \A f \in events' : IsWait(f) => f.uid = eventWait
                    /\ \A f, g \in events' : IsLastUpdate(f) => ~IsWait(g)
                    /\ now' < timePause => \E f \in events' : IsLastUpdate(f)
  BY DEF HoldInv, IsWait, IsLastUpdate
<1>1. /\ \A f \in events : IsWait(f) => f.uid = eventWait
      /\ \A f, g \in events : IsLastUpdate(f) => ~IsWait(g)
      /\ now < timePause => \E f \in events : IsLastUpdate(f)
  BY DEF OrderedInv, HoldInv
<1>2. \A f \in events' : IsWait(f) \/ IsLastUpdate(f) => f \in events
  BY DEF IsWait, IsLastUpdate
<1>3. ASSUME now' < timePause
      PROVE  \E f \in events' : IsLastUpdate(f)
  <2>1. now < timePause
    BY <1>3 DEF EveryInv, IInv, TypeOK
  <2>2. PICK f \in events : IsLastUpdate(f)
    BY <1>1, <2>1
  <2> QED
    BY <2>2
<1> QED
  BY <1>1, <1>2, <1>3

LEMMA HoldEvent ==
  ASSUME EveryInv, TimingInv, OrderedInv, NEW e \in events,
         \/ Model(e) \/ Finish(e) \/ ForwardTerminate(e) \/ ForwardFirst(e)
         \/ DoInitialize(e) \/ (HandleUpdate(e) /\ ~PausesAt(e.ts))
  PROVE  HoldInv'
<1>1. /\ IsNext(e, events)
      /\ UNCHANGED <<state, timePause, eventWait>>
  BY DEF Model, Finish, ForwardTerminate, ForwardFirst, DoInitialize, HandleUpdate, Runs,
         times, waiting
<1>2. ~IsWait(e) /\ ~IsLastUpdate(e)
  BY DEF Model, Finish, ForwardTerminate, ForwardFirst, DoInitialize, HandleUpdate, Runs,
         IsWait, IsLastUpdate, PausesAt
<1>3. e.ts \in Nat /\ e.ts >= now
  BY <1>1, NextEvent DEF EveryInv
<1>4. /\ events \ {e} \subseteq events' /\ now' = e.ts
      /\ \A f \in events' :
           f \in events \/ f.fn \notin {"WaitForNextUpdate", "HandleUpdate"}
  <2>1. CASE ~ForwardFirst(e)
    <3>1. Return(e.ts, events \ {e}, <<>>)
      BY <2>1 DEF Model, Finish, ForwardTerminate, DoInitialize, HandleUpdate
    <3>2. /\ events \ {e} \subseteq events' /\ now' = e.ts
          /\ \A f \in events' : f \in events \ {e} \/ f.fn \in LastCalls
      BY <1>3, <3>1, GainsNothing DEF EveryInv
    <3> QED
      BY <3>2 DEF LastCalls
  <2>2. CASE ForwardFirst(e)
    <3> DEFINE fn == "DoInitialize"
               pending == events \ {e}
               new == NewEvent(pending, e.ts, fn, Message)
    <3>1. Return(e.ts, pending, <<Entry(e.ts, fn, Message)>>) /\ ForwardFault = "none"
      BY <2>2 DEF ForwardFirst
    <3>2. fn \in Fns /\ pending \in SUBSET events
      BY DEF Fns, GatewayFns
    <3>3. Message \in Args
      <4>1. Message \in Messages
        BY <3>1, ForwardedMessage DEF EveryInv
      <4> QED
        BY <4>1 DEF Args
    <3>4. new.fn = "DoInitialize"
      BY DEF NewEvent
    <3>5. /\ pending \subseteq events' /\ now' = e.ts
          /\ \A f \in events' : f \in pending \/ f.fn \in LastCalls \/ f = new
      <4> HIDE DEF fn, pending
      <4> QED
        BY <1>3, <3>1, <3>2, <3>3, GainsOne DEF EveryInv
    <3> HIDE DEF new
    <3> QED
      BY <3>4, <3>5 DEF LastCalls
  <2> QED
    BY <2>1, <2>2
<1> QED
  BY <1>1, <1>2, <1>3, <1>4, HoldKept

\* Connect starts the loop that holds the clock.
LEMMA HoldConnect ==
  ASSUME EveryInv, TimingInv, OrderedInv, NEW e \in events, Connect(e)
  PROVE  HoldInv'
<1> DEFINE pending == events \ {e}
           new == NewWait(pending, e.ts)
<1>1. /\ IsNext(e, events) /\ state = "CREATED" /\ timePause' = timePause
      /\ Return(e.ts, pending, <<Entry(e.ts, "WaitForNextUpdate", NoMessage)>>)
      /\ eventWait' = NewUid(pending)
  BY DEF Connect, Runs, times
<1>2. timePause = 0 /\ \A f \in events : f.fn \in UserFns
  BY <1>1 DEF EveryInv, IInv, HeldInv, NothingBeforeConnect
<1>3. e.ts \in Nat
  BY <1>1, NextEvent DEF EveryInv
<1>4. /\ now' = e.ts
      /\ \A f \in events' : f \in pending \/ f.fn \in LastCalls \/ f = new
  <2> HIDE DEF pending
  <2>1. pending \in SUBSET events
    BY DEF pending
  <2> QED
    BY <1>1, <1>3, <2>1, GainsWait DEF EveryInv
<1>5. new.fn = "WaitForNextUpdate" /\ new.uid = NewUid(pending)
  BY DEF NewWait, NewEvent
<1>6. \A f \in pending : f.fn \in UserFns
  BY <1>2
<1> HIDE DEF new, pending
<1>7. \A f \in events' : IsWait(f) => f.uid = eventWait'
  BY <1>1, <1>4, <1>5, <1>6 DEF IsWait, UserFns, LastCalls
<1>8. \A f \in events' : f.fn # "HandleUpdate"
  BY <1>4, <1>5, <1>6 DEF UserFns, LastCalls
<1>9. ~(now' < timePause')
  BY <1>1, <1>2, <1>3, <1>4
<1> QED
  BY <1>7, <1>8, <1>9 DEF HoldInv, IsWait, IsLastUpdate

\* Of the wait events one is left.
LEMMA HoldWait ==
  ASSUME EveryInv, TimingInv, OrderedInv, NEW e \in events, WaitForNextUpdate(e)
  PROVE  HoldInv'
<1>1. /\ IsNext(e, events) /\ e.fn = "WaitForNextUpdate"
      /\ UNCHANGED <<state, timePause>>
  BY DEF WaitForNextUpdate, Runs, times
<1>2. SUFFICES ASSUME state = "CONNECTED" PROVE HoldInv'
  BY <1>1 DEF HoldInv
<1>3. /\ \A f \in events : IsWait(f) => f.uid = eventWait
      /\ \A f \in events : ~IsLastUpdate(f)
      /\ ~(now < timePause)
  <2>1. IsWait(e)
    BY <1>1 DEF IsWait
  <2> QED
    BY <1>2, <2>1 DEF OrderedInv, HoldInv
<1>4. e.ts \in Nat /\ e.ts = now /\ e.uid \in Nat
  BY <1>1, NextEvent DEF EveryInv, CurrentFns, GatewayFns
<1>5. \A f \in events \ {e} : ~IsWait(f)
  <2> SUFFICES ASSUME NEW f \in events \ {e}, IsWait(f) PROVE FALSE
    OBVIOUS
  <2>1. f.uid = eventWait /\ e.uid = eventWait
    BY <1>1, <1>3 DEF IsWait
  <2>2. f.ts = now
    BY DEF EveryInv, IInv, HeldInv, EventsOK, EventOK, IsWait, CurrentFns, GatewayFns
  <2>3. e.ts < f.ts \/ e.uid < f.uid
    BY <1>1 DEF IsNext
  <2> QED
    BY <1>4, <2>1, <2>2, <2>3
<1> DEFINE pending == Cancel(events \ {e}, WaitAfter(e))
           new == NewWait(pending, e.ts)
<1>6. /\ Return(e.ts, pending, <<Entry(e.ts, "WaitForNextUpdate", NoMessage)>>)
      /\ eventWait' = NewUid(pending)
  BY <1>2 DEF WaitForNextUpdate, KeepsWaiting
<1>7. pending \in SUBSET events /\ \A f \in pending : ~IsWait(f)
  BY <1>5 DEF Cancel
<1>8. /\ now' = e.ts
      /\ \A f \in events' : f \in pending \/ f.fn \in LastCalls \/ f = new
  <2> HIDE DEF pending
  <2> QED
    BY <1>4, <1>6, <1>7, GainsWait DEF EveryInv
<1>9. new.fn = "WaitForNextUpdate" /\ new.uid = NewUid(pending)
  BY DEF NewWait, NewEvent
<1> HIDE DEF new, pending
<1>10. \A f \in events' : IsWait(f) => f.uid = eventWait'
  BY <1>6, <1>7, <1>8, <1>9 DEF IsWait, LastCalls
<1>11. \A f \in events' : ~IsLastUpdate(f)
  BY <1>3, <1>7, <1>8, <1>9 DEF IsLastUpdate, LastCalls
<1>12. ~(now' < timePause')
  BY <1>1, <1>3, <1>4, <1>8
<1> QED
  BY <1>1, <1>10, <1>11, <1>12 DEF HoldInv, IsWait, IsLastUpdate

\* ForwardUp lets the clock run: to an update, and past no wait event.
LEMMA HoldForward ==
  ASSUME EveryInv, TimingInv, OrderedInv, NEW e \in events, ForwardUpdate(e)
  PROVE  HoldInv'
<1> DEFINE fn == "HandleUpdate"
           at == PauseFor(Header)
           pending == WithoutWait \ {e}
<1>1. PICK k : k = Message
  OBVIOUS
<1>2. /\ Runs(e, "ForwardUp") /\ ForwardFault = "none"
      /\ Header >= 0 /\ timeStart >= 0
      /\ timePause' = at
      /\ Return(e.ts, pending, <<Entry(at, fn, k)>>)
  BY <1>1 DEF ForwardUpdate
<1>3. state = "CONNECTED" /\ e.ts = now /\ now \in Nat
  BY <1>2, ForwardConnected
<1>4. k \in Args
  <2>1. k \in Messages
    BY <1>1, <1>2, ForwardedMessage DEF EveryInv
  <2> QED
    BY <2>1 DEF Args
<1>5. at \in Nat
  BY <1>2, AcceptedPause DEF EveryInv
<1>6. pending \in SUBSET events /\ fn \in Fns
  BY DEF WithoutWait, Cancel, Fns, GatewayFns
<1>7. \A f \in pending : ~IsWait(f)
  BY <1>3 DEF OrderedInv, HoldInv, WithoutWait, Cancel
<1>8. PICK new : new = NewEvent(pending, at, fn, k)
  OBVIOUS
<1>9. new.fn = "HandleUpdate" /\ new.ts = timePause'
  BY <1>2, <1>8 DEF NewEvent
<1> HIDE DEF fn, at, pending
<1>10. /\ new \in events'
       /\ \A f \in events' : f \in pending \/ f.fn \in LastCalls \/ f = new
  BY <1>2, <1>3, <1>4, <1>5, <1>6, <1>8, GainsOne DEF EveryInv
<1>11. \A f \in events' : ~IsWait(f)
  BY <1>7, <1>9, <1>10 DEF IsWait, LastCalls
<1>12. \E f \in events' : f.fn = "HandleUpdate" /\ f.ts = timePause'
  BY <1>9, <1>10
<1> QED
  BY <1>11, <1>12 DEF HoldInv, IsWait, IsLastUpdate

\* Two updates are never due at one time.
LEMMA UpdatesDiffer ==
  ASSUME EveryInv, TimingInv, OrderedInv, NEW e \in events, NEW f \in events, e # f,
         e.fn = "HandleUpdate", f.fn = "HandleUpdate"
  PROVE  e.ts # f.ts
<1>1. PICK m, k : m = e.msg /\ k = f.msg
  OBVIOUS
<1>2. /\ m \in 1..Seen /\ Carried(m) = {e} /\ ~(sent[m] < 0)
      /\ k \in 1..Seen /\ Carried(k) = {f} /\ ~(sent[k] < 0)
  BY <1>1, CallbackSeen DEF CallbackFns
<1>3. m # k
  BY <1>2
<1>4. /\ Seen \in Nat /\ \A j \in 1..Seen : sent[j] \in Int
  BY SentTypes
<1>5. sent[m] # sent[k]
  <2>1. CASE m < k
    BY <1>2, <2>1, StampOrder
  <2>2. CASE k < m
    BY <1>2, <2>2, StampOrder
  <2> QED
    BY <1>2, <1>3, <1>4, <2>1, <2>2
<1>6. e.ts = sent[m] - sent[1] /\ f.ts = sent[k] - sent[1]
  BY <1>1 DEF TimingInv, EventsOnTime, OnTime
<1>7. sent[1] \in Int /\ sent[m] \in Int /\ sent[k] \in Int
  BY <1>2, <1>4
<1> QED
  BY <1>5, <1>6, <1>7

\* The update that stops the clock starts the loop again.
LEMMA HoldPauses ==
  ASSUME EveryInv, TimingInv, OrderedInv, NEW e \in events, HandleUpdate(e), PausesAt(e.ts)
  PROVE  HoldInv'
<1> DEFINE pending == events \ {e}
           new == NewWait(pending, e.ts)
<1>1. /\ IsNext(e, events) /\ e.fn = "HandleUpdate" /\ e.ts = timePause
      /\ UNCHANGED <<state, timePause>>
      /\ Return(e.ts, pending, <<Entry(e.ts, "WaitForNextUpdate", NoMessage)>>)
      /\ eventWait' = NewUid(pending)
  BY DEF HandleUpdate, Runs, PausesAt, times
<1>2. SUFFICES ASSUME state = "CONNECTED" PROVE HoldInv'
  BY <1>1 DEF HoldInv
<1>3. e.ts \in Nat
  BY <1>1, NextEvent DEF EveryInv
<1>4. \A f \in events : ~IsWait(f)
  BY <1>1, <1>2 DEF OrderedInv, HoldInv, IsLastUpdate
<1>5. \A f \in pending : ~IsLastUpdate(f)
  BY <1>1, UpdatesDiffer DEF IsLastUpdate
<1>6. pending \in SUBSET events
  OBVIOUS
<1>7. /\ now' = e.ts
      /\ \A f \in events' : f \in pending \/ f.fn \in LastCalls \/ f = new
  <2> HIDE DEF pending
  <2> QED
    BY <1>1, <1>3, <1>6, GainsWait DEF EveryInv
<1>8. new.fn = "WaitForNextUpdate" /\ new.uid = NewUid(pending)
  BY DEF NewWait, NewEvent
<1> HIDE DEF new, pending
<1>9. \A f \in events' : IsWait(f) => f.uid = eventWait'
  BY <1>1, <1>4, <1>6, <1>7, <1>8 DEF IsWait, LastCalls
<1>10. \A f \in events' : ~IsLastUpdate(f)
  BY <1>5, <1>7, <1>8 DEF IsLastUpdate, LastCalls
<1>11. ~(now' < timePause')
  BY <1>1, <1>3, <1>7
<1> QED
  BY <1>1, <1>9, <1>10, <1>11 DEF HoldInv, IsWait, IsLastUpdate

-----------------------------------------------------------------------------
(* All of it together.                                                     *)

LEMMA OrderedInit == Init => OrderedInv
<1> SUFFICES ASSUME Init PROVE OrderedInv
  OBVIOUS
<1>1. sent = <<>> /\ delivered = <<>> /\ state = "CREATED"
  BY DEF Init
<1>2. DOMAIN sent = {} /\ DOMAIN delivered = {}
  BY <1>1
<1> QED
  BY <1>1, <1>2 DEF OrderedInv, SentIncreases, DeliveredInv, HoldInv

LEMMA OrderedEvent ==
  ASSUME EveryInv, TimingInv, OrderedInv, NEW e \in events,
         \/ Connect(e) \/ Model(e) \/ Finish(e) \/ WaitForNextUpdate(e)
         \/ ForwardTerminate(e) \/ ForwardFirst(e) \/ ForwardUpdate(e)
         \/ DoInitialize(e) \/ HandleUpdate(e)
  PROVE  OrderedInv'
<1>1. SentIncreases'
  <2>1. sent' = sent
    BY DEF Connect, Model, Finish, WaitForNextUpdate, ForwardTerminate, ForwardFirst,
           ForwardUpdate, DoInitialize, HandleUpdate, server
  <2> QED
    BY <2>1 DEF OrderedInv, SentIncreases
<1>2. DeliveredInv'
  <2>1. CASE DoInitialize(e) \/ HandleUpdate(e)
    BY <2>1, DeliveredCallback, OrderedSeen DEF OrderedInv
  <2>2. CASE ~(DoInitialize(e) \/ HandleUpdate(e))
    <3>1. UNCHANGED <<delivered, sent>>
      BY <2>2 DEF Connect, Model, Finish, WaitForNextUpdate, ForwardTerminate,
                  ForwardFirst, ForwardUpdate, server, history
    <3> QED
      BY <3>1 DEF OrderedInv, DeliveredInv
  <2> QED
    BY <2>1, <2>2
<1>3. HoldInv'
  BY HoldConnect, HoldWait, HoldForward, HoldPauses, HoldEvent
<1> QED
  BY <1>1, <1>2, <1>3 DEF OrderedInv

LEMMA OrderedStop ==
  ASSUME EveryInv, OrderedInv, StopEnd \/ Destroy \/ \E e \in events : StopBegin(e)
  PROVE  OrderedInv'
<1>1. UNCHANGED <<sent, delivered, timePause>>
  BY DEF StopEnd, Destroy, StopBegin, server, times, history
<1>2. SentIncreases' /\ DeliveredInv'
  BY <1>1 DEF OrderedInv, SentIncreases, DeliveredInv
<1>3. HoldInv'
  <2>1. CASE Destroy
    <3>1. /\ UNCHANGED <<events, now, timePause, eventWait>>
          /\ state' = "CONNECTED" => state = "CONNECTED"
      BY <1>1, <2>1 DEF Destroy
    <3> QED
      BY <3>1, HoldUnchanged
  <2>2. CASE StopEnd
    <3>1. state = "STOPPING" /\ state' = state
      BY <2>2 DEF StopEnd, EveryInv, IInv, HeldInv, StopSetsState
    <3> QED
      BY <3>1 DEF HoldInv
  <2>3. CASE \E e \in events : StopBegin(e)
    BY <2>3 DEF StopBegin, HoldInv
  <2> QED
    BY <2>1, <2>2, <2>3
<1> QED
  BY <1>2, <1>3 DEF OrderedInv

\* A step that leaves the main thread's data alone.
LEMMA OrderedKept ==
  ASSUME OrderedInv,
         UNCHANGED <<events, now, state, timePause, eventWait, sent, delivered>>
  PROVE  OrderedInv'
<1>1. SentIncreases' /\ DeliveredInv'
  BY DEF OrderedInv, SentIncreases, DeliveredInv
<1>2. HoldInv'
  BY HoldUnchanged
<1> QED
  BY <1>1, <1>2 DEF OrderedInv

LEMMA OrderedServer ==
  ASSUME StampsIncrease, EveryInv, TimingInv, OrderedInv, Server
  PROVE  OrderedInv'
<1>1. UNCHANGED <<events, now, state, timePause, eventWait, delivered>>
  BY DEF Server, ServerSend, ServerClose, simulator, times, waiting, history
<1>2. SentIncreases'
  BY IncreasesServer
<1>3. DeliveredInv'
  <2>1. Seen \in Nat /\ \A m \in 1..Seen : sent'[m] = sent[m]
    BY OrderServer, SentTypes DEF EveryInv, DeliveryInv
  <2>2. ASSUME NEW i \in DOMAIN delivered
        PROVE  delivered[i].msg = i /\ delivered[i].at = sent'[i] - sent'[1]
    <3>1. i \in 1..Seen /\ 1 \in 1..Seen
      BY <2>1, DeliveredSeen DEF OrderedInv
    <3>2. sent'[i] = sent[i] /\ sent'[1] = sent[1]
      BY <2>1, <3>1
    <3> QED
      BY <3>2 DEF OrderedInv, DeliveredInv
  <2> QED
    BY <1>1, <2>2 DEF DeliveredInv
<1>4. HoldInv'
  BY <1>1, HoldUnchanged
<1> QED
  BY <1>2, <1>3, <1>4 DEF OrderedInv

LEMMA OrderedNext ==
  StampsIncrease /\ EveryInv /\ TimingInv /\ OrderedInv /\ [Next]_vars => OrderedInv'
<1> SUFFICES ASSUME StampsIncrease, EveryInv, TimingInv, OrderedInv, [Next]_vars
             PROVE  OrderedInv'
  OBVIOUS
<1>1. ASSUME NEW e \in events,
             \/ Connect(e) \/ Model(e) \/ Finish(e) \/ WaitForNextUpdate(e)
             \/ ForwardTerminate(e) \/ ForwardFirst(e) \/ ForwardUpdate(e)
             \/ DoInitialize(e) \/ HandleUpdate(e)
      PROVE  OrderedInv'
  BY <1>1, OrderedEvent
<1>2. CASE StopEnd \/ Destroy \/ \E e \in events : StopBegin(e)
  BY <1>2, OrderedStop
<1>3. CASE Thread \/ ThreadRecvFails
  <2>1. UNCHANGED <<events, now, state, timePause, eventWait, sent, delivered>>
    BY <1>3 DEF Thread, ThreadCheck, ThreadRecv, ThreadHangup, ThreadRecvFails,
                ThreadPush, ThreadForward, ThreadScheduleStop, ThreadFrame, times, waiting,
                history
  <2> QED
    BY <2>1, OrderedKept
<1>4. ASSUME NEW e \in events, ConnectFails(e) \/ ForwardUpFails(e) \/ CallbackFails(e)
      PROVE  OrderedInv'
  <2>1. UNCHANGED <<events, now, state, timePause, eventWait, sent, delivered>>
    BY <1>4 DEF ConnectFails, ForwardUpFails, CallbackFails, Abort, simulator, times,
                waiting, server, history
  <2> QED
    BY <2>1, OrderedKept
<1>5. CASE RunReturns \/ UNCHANGED vars
  <2>1. UNCHANGED <<events, now, state, timePause, eventWait, sent, delivered>>
    BY <1>5 DEF RunReturns, vars, simulator, times, waiting, server, history
  <2> QED
    BY <2>1, OrderedKept
<1>6. CASE Server
  BY <1>6, OrderedServer
<1> QED
  BY <1>1, <1>2, <1>3, <1>4, <1>5, <1>6 DEF Next, Main, Terminating

\* The invariants of any server, and those of an increasing one.
LEMMA EveryInvInit == Init => EveryInv
BY IInvInit, QueueInit, DeliveryInit, StopInit DEF EveryInv

LEMMA EveryInvNext == EveryInv /\ [Next]_vars => EveryInv'
BY IInvNext, QueueNext, DeliveryNext, StopNext DEF EveryInv

LEMMA IncreasingInvariance ==
  ASSUME StampsIncrease, ConnectsAtStart
  PROVE  Spec => [](EveryInv /\ TimingInv /\ OrderedInv)
<1>1. Init => EveryInv /\ TimingInv /\ OrderedInv
  BY EveryInvInit, TimingInit, OrderedInit
<1>2. EveryInv /\ TimingInv /\ OrderedInv /\ [Next]_vars
        => (EveryInv /\ TimingInv /\ OrderedInv)'
  BY EveryInvNext, TimingNext, OrderedNext
<1> QED
  BY <1>1, <1>2, PTL DEF Spec

\* The callbacks see the messages in order, each once and at its time, with every
\* server whose stamps increase and every program that connects at time 0
\* (README.md:52-54 and 79-84).
THEOREM CallbacksOnSchedule ==
  ASSUME StampsIncrease, ConnectsAtStart
  PROVE  Spec => []DeliveredOnSchedule
<1>1. EveryInv /\ TimingInv /\ OrderedInv => DeliveredOnSchedule
  <2> SUFFICES ASSUME EveryInv, TimingInv, OrderedInv, NEW i \in DOMAIN delivered
               PROVE  /\ delivered[i].msg = i
                      /\ delivered[i].at = connectedAt + sent[i] - sent[1]
    BY DEF DeliveredOnSchedule
  <2>1. delivered[i].msg = i /\ delivered[i].at = sent[i] - sent[1]
    BY DEF OrderedInv, DeliveredInv
  <2>2. connectedAt = 0
    <3>1. delivered # <<>>
      OBVIOUS
    <3> QED
      BY <3>1 DEF TimingInv, ConnectInv
  <2>3. i \in 1..Seen /\ Seen \in Nat
    BY DeliveredSeen, SentTypes DEF OrderedInv
  <2>4. 1 \in 1..Seen
    BY <2>3
  <2>5. sent[i] \in Int /\ sent[1] \in Int
    BY <2>3, <2>4, SentTypes
  <2> QED
    BY <2>1, <2>2, <2>5
<1> QED
  BY <1>1, IncreasingInvariance, PTL

\* A grant of such a server is not taken back: no pending wait event holds the clock
\* while it may run (README.md:73-76, gateway.cc:345-361).
THEOREM GrantsAreUsed ==
  ASSUME StampsIncrease, ConnectsAtStart
  PROVE  Spec => []GrantNotBlocked
<1>1. EveryInv /\ TimingInv /\ OrderedInv => GrantNotBlocked
  BY DEF OrderedInv, HoldInv, IsWait, GrantNotBlocked
<1> QED
  BY <1>1, IncreasingInvariance, PTL

-----------------------------------------------------------------------------
(* Such a server is never refused.                                         *)

LEMMA AcceptedNext ==
  EveryInv /\ TimingInv /\ OrderedInv /\ IncreasingAccepted /\ [Next]_vars => IncreasingAccepted'
<1> SUFFICES ASSUME EveryInv, TimingInv, OrderedInv, IncreasingAccepted, [Next]_vars
             PROVE  IncreasingAccepted'
  OBVIOUS
<1>1. ASSUME NEW e \in events, ForwardUpFails(e)
      PROVE  IncreasingAccepted'
  <2>1. Runs(e, "ForwardUp") /\ fault' = ForwardFault
    BY <1>1 DEF ForwardUpFails, Abort
  <2>2. SUFFICES ASSUME ForwardFault = "stamps not increasing" PROVE FALSE
    BY <2>1 DEF IncreasingAccepted
  <2>3. /\ messageQueue # <<>> /\ Header >= 0 /\ timeStart >= 0
        /\ Header - timeStart < now
    BY <2>2 DEF ForwardFault, IsLate, PauseFor
  <2>4. /\ timeStart = sent[1] /\ sent[1] \in Int /\ sent[Seen] \in Int
        /\ timePause = sent[Seen] - sent[1] /\ now <= timePause
        /\ Header \in Int /\ (Header < 0 \/ sent[Seen] < Header)
    BY <2>1, <2>3, NextStamp
  <2>5. now \in Nat
    BY DEF EveryInv, IInv, TypeOK
  <2> QED
    BY <2>3, <2>4, <2>5
<1>2. ASSUME NEW e \in events, ConnectFails(e) \/ CallbackFails(e)
      PROVE  IncreasingAccepted'
  BY <1>2 DEF ConnectFails, CallbackFails, Abort, ResponseFaults, IncreasingAccepted
<1>3. ASSUME NEW e \in events,
             \/ Connect(e) \/ Model(e) \/ Finish(e) \/ WaitForNextUpdate(e)
             \/ ForwardTerminate(e) \/ ForwardFirst(e) \/ ForwardUpdate(e)
             \/ DoInitialize(e) \/ HandleUpdate(e) \/ StopBegin(e)
      PROVE  UNCHANGED fault
  BY <1>3
  DEF Connect, Model, Finish, WaitForNextUpdate, ForwardTerminate, ForwardFirst,
      ForwardUpdate, DoInitialize, HandleUpdate, StopBegin
<1>4. CASE StopEnd \/ RunReturns \/ Destroy \/ Thread \/ ThreadRecvFails \/ Server
           \/ UNCHANGED vars
  <2>1. UNCHANGED fault
    BY <1>4
    DEF StopEnd, RunReturns, Destroy, Thread, ThreadCheck, ThreadRecv, ThreadHangup,
        ThreadRecvFails, ThreadPush, ThreadForward, ThreadScheduleStop, ThreadFrame,
        Server, ServerSend, ServerClose, vars
  <2> QED
    BY <2>1 DEF IncreasingAccepted
<1>5. CASE UNCHANGED fault
  BY <1>5 DEF IncreasingAccepted
<1> QED
  BY <1>1, <1>2, <1>3, <1>4, <1>5 DEF Next, Main, Terminating

\* A server whose stamps increase is never refused (gateway.h:179,
\* gateway.cc:353-358), whatever the delay between the two threads.
THEOREM IncreasingIsAccepted ==
  ASSUME StampsIncrease, ConnectsAtStart
  PROVE  Spec => []IncreasingAccepted
<1>1. Init => IncreasingAccepted
  BY DEF Init, IncreasingAccepted
<1> QED
  BY <1>1, AcceptedNext, IncreasingInvariance, PTL DEF Spec
=============================================================================
