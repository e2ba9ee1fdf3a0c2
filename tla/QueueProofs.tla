----------------------------- MODULE QueueProofs -----------------------------
(***************************************************************************)
(* Proofs about the queue of Gateway: there is one message in it for every *)
(* call of ForwardUp that is under way, for every program, server and      *)
(* interleaving of the two threads.                                        *)
(*                                                                         *)
(* The calls are counted over the events of the event list, so the event   *)
(* list must be finite and its events must differ in their numbers; and an *)
(* event that is cancelled must not be a call of ForwardUp, which holds    *)
(* because m_eventWait refers to a pending WaitForNextUpdate or nothing.   *)
(***************************************************************************)
EXTENDS GatewayProofs, FiniteSetTheorems

\* A finite event list whose events have different numbers.
Countable(es) ==
  /\ IsFiniteSet(es)
  /\ \A e, f \in es : e.uid = f.uid => e = f

\* The events of a list, and the entries of a sequence, that call fn.
Calls(es, fn) == {e \in es : e.fn = fn}
AsksFor(entries, fn) == {i \in DOMAIN entries : entries[i].fn = fn}

\* What m_eventWait refers to.
WaitOK == eventWait # NoEvent =>
  \E e \in events : e.uid = eventWait /\ e.fn = "WaitForNextUpdate"

QueueInv == Countable(events) /\ WaitOK /\ QueueMatchesForwards

-----------------------------------------------------------------------------
(* Counting the calls in an event list.                                    *)

\* Schedule adds as many calls of a function as the entries ask for.
LEMMA ScheduleCounts ==
  ASSUME NEW fns, NEW msgs,
         NEW es \in SUBSET Events(fns, msgs), Numbered(es), Countable(es),
         NEW entries \in Entries(fns, msgs), NEW fn
  PROVE  LET after == Schedule(es, entries) IN
         /\ Countable(after)
         /\ Cardinality(Calls(after, fn))
              = Cardinality(Calls(es, fn)) + Cardinality(AsksFor(entries, fn))
<1> DEFINE event(i) == [ts  |-> entries[i].ts,
                        uid |-> LastUid(es) + i,
                        fn  |-> entries[i].fn,
                        msg |-> entries[i].msg]
           after == Schedule(es, entries)
           I == DOMAIN entries
           J == AsksFor(entries, fn)
<1>1. /\ LastUid(es) \in Nat
      /\ \A e \in es : e.uid \in Nat /\ e.uid <= LastUid(es)
  <2>1. \A e \in es : e.uid \in Nat
    BY DEF Events
  <2> QED
    BY <2>1, LastUidIsLast
<1>2. after = es \cup {event(i) : i \in I}
  BY DEF Schedule
<1>3. I = 1..Len(entries) /\ Len(entries) \in Nat
  BY DEF Entries
<1>4. IsFiniteSet(I) /\ IsFiniteSet(J)
  <2>1. IsFiniteSet(I)
    BY <1>3, FS_Interval
  <2> QED
    BY <2>1, FS_Subset DEF AsksFor
<1>5. \A i \in I : event(i).uid = LastUid(es) + i /\ event(i).fn = entries[i].fn
  OBVIOUS
<1> HIDE DEF event, after
<1>6. \A i, j \in I : event(i).uid = event(j).uid => i = j
  BY <1>1, <1>3, <1>5
<1>7. \A i \in I, e \in es : event(i).uid # e.uid
  BY <1>1, <1>3, <1>5
<1>8. ASSUME NEW K \in SUBSET I
      PROVE  LET new == {event(i) : i \in K} IN
             IsFiniteSet(new) /\ Cardinality(new) = Cardinality(K)
  <2> DEFINE new == {event(i) : i \in K}
             number == [i \in K |-> event(i)]
  <2>1. IsFiniteSet(K)
    BY <1>4, FS_Subset
  <2>2. number \in [K -> new]
    OBVIOUS
  <2>3. \A i, j \in K : number[i] = number[j] => i = j
    BY <1>6
  <2>4. \A e \in new : \E i \in K : number[i] = e
    OBVIOUS
  <2> HIDE DEF number, new
  <2>5. number \in Bijection(K, new)
    BY <2>2, <2>3, <2>4 DEF Bijection, Injection, Surjection, IsInjective
  <2>6. ExistsBijection(K, new)
    BY <2>5 DEF ExistsBijection
  <2>7. IsFiniteSet(new) /\ Cardinality(new) = Cardinality(K)
    BY <2>1, <2>6, FS_Bijection
  <2> QED
    BY <2>7 DEF new
<1>9. Countable(after)
  <2>1. IsFiniteSet({event(i) : i \in I})
    BY <1>8
  <2>2. IsFiniteSet(after)
    BY <1>2, <2>1, FS_Union DEF Countable
  <2>3. ASSUME NEW e \in after, NEW f \in after, e.uid = f.uid
        PROVE  e = f
    <3>1. CASE e \in es /\ f \in es
      BY <2>3, <3>1 DEF Countable
    <3>2. CASE e \notin es \/ f \notin es
      BY <1>2, <1>6, <1>7, <2>3, <3>2
    <3> QED
      BY <3>1, <3>2
  <2> QED
    BY <2>2, <2>3 DEF Countable
<1>10. Cardinality(Calls(after, fn)) = Cardinality(Calls(es, fn)) + Cardinality(J)
  <2> DEFINE new == {event(i) : i \in J}
  <2>1. Calls(after, fn) = Calls(es, fn) \cup new
    <3>1. \A i \in I : event(i).fn = fn <=> i \in J
      BY <1>5 DEF AsksFor
    <3>2. J \subseteq I
      BY DEF AsksFor
    <3> QED
      BY <1>2, <3>1, <3>2 DEF Calls
  <2>2. J \in SUBSET I
    BY DEF AsksFor
  <2>3. Calls(es, fn) \cap new = {}
    BY <1>7, <2>2 DEF Calls
  <2>4. IsFiniteSet(new) /\ Cardinality(new) = Cardinality(J)
    BY <1>8, <2>2
  <2>5. IsFiniteSet(Calls(es, fn))
    BY FS_Subset DEF Calls, Countable
  <2> HIDE DEF new
  <2>6. Cardinality(Calls(es, fn) \cup new)
          = Cardinality(Calls(es, fn)) + Cardinality(new) - Cardinality({})
    BY <2>3, <2>4, <2>5, FS_Union
  <2>7. Cardinality({}) = 0 /\ Cardinality(Calls(es, fn)) \in Nat
        /\ Cardinality(new) \in Nat
    BY <2>4, <2>5, FS_EmptySet, FS_CardinalityType
  <2> QED
    BY <2>1, <2>4, <2>6, <2>7
<1> QED
  BY <1>9, <1>10 DEF after

\* The end of an event that schedules no call of ForwardUp: the calls left are
\* those that were pending and those that the other thread asked for.
LEMMA ReturnCounts ==
  ASSUME IInv, Countable(events), NEW ts \in Nat, NEW pending \in SUBSET events,
         NEW new \in Entries(Fns, Args), AsksFor(new, "ForwardUp") = {},
         Return(ts, pending, new)
  PROVE  /\ Countable(events')
         /\ Cardinality(ForwardsPending')
              = Cardinality(Calls(pending, "ForwardUp")) + Cardinality(ForwardsAsked)
         /\ ForwardsAsked' = {}
<1> DEFINE before == Schedule(pending, new)
<1>1. pending \in SUBSET Events(Fns, Args) /\ Numbered(pending)
  BY FewerEvents DEF IInv, TypeOK, Fns, Args
<1>2. Countable(pending)
  BY FS_Subset DEF Countable
<1>3. before \in SUBSET Events(Fns, Args) /\ Numbered(before)
  BY <1>1, ScheduleAdds
<1>4. /\ Countable(before)
      /\ Cardinality(Calls(before, "ForwardUp"))
           = Cardinality(Calls(pending, "ForwardUp"))
  <2>1. /\ Countable(before)
        /\ Cardinality(Calls(before, "ForwardUp"))
             = Cardinality(Calls(pending, "ForwardUp")) + Cardinality({})
    BY <1>1, <1>2, ScheduleCounts
  <2>2. Cardinality(Calls(pending, "ForwardUp")) \in Nat /\ Cardinality({}) = 0
    BY <1>2, FS_Subset, FS_CardinalityType, FS_EmptySet DEF Calls, Countable
  <2> QED
    BY <2>1, <2>2
<1>5. /\ Forwarded(ts) \in Entries(Fns, Args)
      /\ AsksFor(Forwarded(ts), "ForwardUp") = ForwardsAsked
  <2>1. Forwarded(ts) \in Entries(Fns, Args)
    BY ForwardedEntries DEF IInv
  <2>2. DOMAIN Forwarded(ts) = DOMAIN withContext
        /\ \A i \in DOMAIN withContext : Forwarded(ts)[i].fn = withContext[i]
    BY DEF Forwarded, Entry
  <2> QED
    BY <2>1, <2>2 DEF AsksFor, ForwardsAsked
<1>6. events' = Schedule(before, Forwarded(ts)) /\ withContext' = <<>>
  BY DEF Return
<1> HIDE DEF before
<1>7. /\ Countable(events')
      /\ Cardinality(Calls(events', "ForwardUp"))
           = Cardinality(Calls(before, "ForwardUp")) + Cardinality(ForwardsAsked)
  <2> DEFINE fn == "ForwardUp"
             entries == Forwarded(ts)
             after == Schedule(before, entries)
  <2>1. entries \in Entries(Fns, Args) /\ AsksFor(entries, fn) = ForwardsAsked
    BY <1>5
  <2>2. after = events'
    BY <1>6
  <2> HIDE DEF fn, entries
  <2>3. /\ Countable(after)
        /\ Cardinality(Calls(after, fn))
             = Cardinality(Calls(before, fn)) + Cardinality(AsksFor(entries, fn))
    BY <1>3, <1>4, <2>1, ScheduleCounts
  <2> QED
    BY <2>1, <2>2, <2>3 DEF fn
<1>8. ForwardsPending' = Calls(events', "ForwardUp")
  BY DEF ForwardsPending, Calls
<1>9. ForwardsAsked' = {}
  BY <1>6 DEF ForwardsAsked
<1> QED
  BY <1>4, <1>7, <1>8, <1>9

\* The numbers of calls are numbers.
LEMMA CountsAreNumbers ==
  ASSUME IInv, Countable(events)
  PROVE  /\ IsFiniteSet(ForwardsPending) /\ Cardinality(ForwardsPending) \in Nat
         /\ IsFiniteSet(ForwardsAsked) /\ Cardinality(ForwardsAsked) \in Nat
         /\ Len(messageQueue) \in Nat
<1>1. IsFiniteSet(ForwardsPending)
  BY FS_Subset DEF ForwardsPending, Countable
<1>2. IsFiniteSet(ForwardsAsked)
  <2>1. Len(withContext) \in Nat /\ DOMAIN withContext = 1..Len(withContext)
    BY LenProperties DEF IInv, TypeOK
  <2>2. IsFiniteSet(DOMAIN withContext)
    BY <2>1, FS_Interval
  <2> QED
    BY <2>2, FS_Subset DEF ForwardsAsked
<1>3. Len(messageQueue) \in Nat
  BY LenProperties DEF IInv, TypeOK
<1> QED
  BY <1>1, <1>2, <1>3, FS_CardinalityType

\* Cancelling m_eventWait leaves every call of ForwardUp.
LEMMA CancelKeepsForwards ==
  ASSUME IInv, QueueInv, NEW es \in SUBSET events
  PROVE  Calls(Cancel(es, eventWait), "ForwardUp") = Calls(es, "ForwardUp")
<1> SUFFICES ASSUME NEW e \in events, e.fn = "ForwardUp"
             PROVE  e.uid # eventWait
  BY DEF Calls, Cancel
<1>1. e.uid \in Nat \ {0}
  BY DEF IInv, TypeOK, Events
<1> QED
  BY <1>1 DEF QueueInv, WaitOK, Countable, NoEvent

\* Removing an event that is not a call of ForwardUp, and one that is.
LEMMA OtherRemoved ==
  ASSUME NEW e \in events, e.fn # "ForwardUp"
  PROVE  Calls(events \ {e}, "ForwardUp") = ForwardsPending
BY DEF Calls, ForwardsPending

LEMMA ForwardRemoved ==
  ASSUME IInv, Countable(events), NEW e \in events, e.fn = "ForwardUp"
  PROVE  Cardinality(Calls(events \ {e}, "ForwardUp"))
           = Cardinality(ForwardsPending) - 1
<1>1. Calls(events \ {e}, "ForwardUp") = ForwardsPending \ {e} /\ e \in ForwardsPending
  BY DEF Calls, ForwardsPending
<1>2. IsFiniteSet(ForwardsPending)
  BY CountsAreNumbers
<1> QED
  BY <1>1, <1>2, FS_RemoveElement

\* An event that is neither a ForwardUp nor schedules one keeps the count.
LEMMA OtherReturns ==
  ASSUME IInv, QueueInv, NEW ts \in Nat, NEW pending \in SUBSET events,
         Calls(pending, "ForwardUp") = ForwardsPending,
         NEW new \in Entries(Fns, Args), AsksFor(new, "ForwardUp") = {},
         Return(ts, pending, new), messageQueue' = messageQueue,
         thread' = "schedule" <=> thread = "schedule"
  PROVE  Countable(events') /\ QueueMatchesForwards'
<1>1. /\ Countable(events')
      /\ Cardinality(ForwardsPending')
           = Cardinality(ForwardsPending) + Cardinality(ForwardsAsked)
      /\ ForwardsAsked' = {}
  BY ReturnCounts DEF QueueInv
<1>2. Cardinality({}) = 0
  BY FS_EmptySet
<1>3. /\ Cardinality(ForwardsPending) \in Nat
      /\ Cardinality(ForwardsAsked) \in Nat
      /\ Len(messageQueue) \in Nat
  BY CountsAreNumbers DEF QueueInv
<1>4. Len(messageQueue) =
          Cardinality(ForwardsPending) + Cardinality(ForwardsAsked)
        + (IF thread = "schedule" THEN 1 ELSE 0)
  BY DEF QueueInv, QueueMatchesForwards
<1>5. Len(messageQueue') =
          Cardinality(ForwardsPending') + Cardinality(ForwardsAsked')
        + (IF thread' = "schedule" THEN 1 ELSE 0)
  BY <1>1, <1>2, <1>3, <1>4
<1> QED
  BY <1>1, <1>5 DEF QueueMatchesForwards

\* ForwardUp takes a message.
LEMMA ForwardReturns ==
  ASSUME IInv, QueueInv, NEW e \in events, e.fn = "ForwardUp",
         ForwardFault = "none",
         NEW ts \in Nat, NEW pending \in SUBSET events,
         Calls(pending, "ForwardUp") = Calls(events \ {e}, "ForwardUp"),
         NEW new \in Entries(Fns, Args), AsksFor(new, "ForwardUp") = {},
         Return(ts, pending, new), messageQueue' = Tail(messageQueue),
         UNCHANGED thread
  PROVE  Countable(events') /\ QueueMatchesForwards'
<1>1. /\ Countable(events')
      /\ Cardinality(ForwardsPending')
           = Cardinality(ForwardsPending) - 1 + Cardinality(ForwardsAsked)
      /\ ForwardsAsked' = {}
  BY ReturnCounts, ForwardRemoved DEF QueueInv
<1>2. Cardinality({}) = 0
  BY FS_EmptySet
<1>3. /\ Cardinality(ForwardsPending) \in Nat
      /\ Cardinality(ForwardsAsked) \in Nat
      /\ Len(messageQueue) \in Nat
  BY CountsAreNumbers DEF QueueInv
<1>4. Len(messageQueue') = Len(messageQueue) - 1
  <2>1. messageQueue \in Seq(Messages) /\ messageQueue # <<>>
    BY DEF IInv, TypeOK, ForwardFault
  <2> QED
    BY <2>1, HeadTailProperties
<1>5. Len(messageQueue) =
          Cardinality(ForwardsPending) + Cardinality(ForwardsAsked)
        + (IF thread = "schedule" THEN 1 ELSE 0)
  BY DEF QueueInv, QueueMatchesForwards
<1>6. Len(messageQueue') =
          Cardinality(ForwardsPending') + Cardinality(ForwardsAsked')
        + (IF thread' = "schedule" THEN 1 ELSE 0)
  BY <1>1, <1>2, <1>3, <1>4, <1>5
<1> QED
  BY <1>1, <1>6 DEF QueueMatchesForwards

\* Nothing to schedule, and one call of another function.
LEMMA NoEntry == <<>> \in Entries(Fns, Args) /\ AsksFor(<<>>, "ForwardUp") = {}
BY DEF Entries, AsksFor

LEMMA OneEntry ==
  ASSUME NEW at \in Nat, NEW fn \in Fns \ {"ForwardUp"}, NEW msg \in Args
  PROVE  /\ <<Entry(at, fn, msg)>> \in Entries(Fns, Args)
         /\ AsksFor(<<Entry(at, fn, msg)>>, "ForwardUp") = {}
<1> DEFINE new == <<Entry(at, fn, msg)>>
<1>1. Entry(at, fn, msg) \in [ts : Nat, fn : Fns, msg : Args]
      /\ Entry(at, fn, msg).fn = fn
  BY DEF Entry
<1>2. new \in Entries(Fns, Args) /\ DOMAIN new = {1} /\ new[1] = Entry(at, fn, msg)
  BY <1>1 DEF Entries
<1> HIDE DEF new
<1>3. AsksFor(new, "ForwardUp") = {}
  BY <1>1, <1>2 DEF AsksFor
<1> QED
  BY <1>2, <1>3 DEF new

-----------------------------------------------------------------------------
(* What m_eventWait refers to.                                             *)

\* It stays pending when another event has run.
LEMMA WaitKept ==
  ASSUME IInv, QueueInv, NEW e \in events, e.uid # eventWait,
         NEW ts, NEW new, Return(ts, events \ {e}, new),
         UNCHANGED eventWait
  PROVE  WaitOK'
<1>1. events \ {e} \subseteq events'
  BY DEF Return, Schedule
<1> QED
  BY <1>1 DEF QueueInv, WaitOK

\* Only a WaitForNextUpdate is referred to.
LEMMA OtherIsNotWait ==
  ASSUME IInv, QueueInv, NEW e \in events, e.fn # "WaitForNextUpdate"
  PROVE  e.uid # eventWait
<1>1. e.uid \in Nat \ {0}
  BY DEF IInv, TypeOK, Events
<1> QED
  BY <1>1 DEF QueueInv, WaitOK, Countable, NoEvent

\* It is the event that has just been scheduled.
LEMMA WaitNew ==
  ASSUME IInv, NEW ts \in Nat, NEW pending \in SUBSET events,
         Return(ts, pending, <<Entry(ts, "WaitForNextUpdate", NoMessage)>>),
         eventWait' = NewUid(pending)
  PROVE  WaitOK'
<1> DEFINE new == [ts |-> ts, uid |-> NewUid(pending), fn |-> "WaitForNextUpdate",
                   msg |-> NoMessage]
<1>1. pending \in SUBSET Events(Fns, Args) /\ Numbered(pending)
  BY FewerEvents DEF IInv, TypeOK, Fns, Args
<1>2. "WaitForNextUpdate" \in Fns /\ NoMessage \in Args
  BY DEF Fns, GatewayFns, Args
<1>3. Schedule(pending, <<Entry(ts, "WaitForNextUpdate", NoMessage)>>)
        = pending \cup {new}
  <2> DEFINE fn == "WaitForNextUpdate"
             msg == NoMessage
             added == [ts |-> ts, uid |-> NewUid(pending), fn |-> fn, msg |-> msg]
  <2>1. fn \in Fns /\ msg \in Args
    BY <1>2
  <2> HIDE DEF fn, msg, added
  <2>2. /\ Schedule(pending, <<Entry(ts, fn, msg)>>) = pending \cup {added}
        /\ added \in Events(Fns, Args)
        /\ \A e \in pending : e.uid < NewUid(pending)
        /\ Numbered(pending \cup {added})
    BY <1>1, <2>1, ScheduleOne DEF added
  <2> QED
    BY <2>2 DEF fn, msg, added
<1>4. new \in events'
  BY <1>3 DEF Return, Schedule
<1> QED
  BY <1>4 DEF WaitOK

-----------------------------------------------------------------------------
(* The steps.                                                              *)

LEMMA QueueInit == Init => QueueInv
<1> SUFFICES ASSUME Init PROVE QueueInv
  OBVIOUS
<1>1. PICK program \in Programs : events = Schedule({}, program)
  BY DEF Init
<1>2. program \in Entries(UserFns, {NoMessage})
  BY ProgramsAssumption DEF Entries
<1>3. {} \in SUBSET Events(UserFns, {NoMessage}) /\ Numbered({}) /\ Countable({})
  BY FS_EmptySet DEF Numbered, Countable
<1>4. Countable(events)
  BY <1>1, <1>2, <1>3, ScheduleCounts
<1>5. ForwardsPending = {}
  <2>1. events \in SUBSET Events(UserFns, {NoMessage})
    BY <1>1, <1>2, <1>3, ScheduleAdds
  <2> QED
    BY <2>1 DEF ForwardsPending, Events, UserFns
<1>6. ForwardsAsked = {}
  BY DEF Init, ForwardsAsked
<1>7. QueueMatchesForwards
  <2>1. messageQueue = <<>> /\ thread = "none"
    BY DEF Init
  <2> QED
    BY <1>5, <1>6, <2>1, FS_EmptySet DEF QueueMatchesForwards
<1>8. WaitOK
  BY DEF Init, WaitOK
<1> QED
  BY <1>4, <1>7, <1>8 DEF QueueInv

LEMMA QueueConnect ==
  ASSUME IInv, QueueInv, NEW e \in events, Connect(e)
  PROVE  QueueInv'
<1>1. /\ IsNext(e, events) /\ e.fn = "Connect" /\ state = "CREATED"
      /\ Return(e.ts, events \ {e},
                <<Entry(e.ts, "WaitForNextUpdate", NoMessage)>>)
      /\ eventWait' = NewUid(events \ {e})
      /\ thread' = "check" /\ messageQueue' = messageQueue
  BY DEF Connect, Runs
<1>2. e.ts \in Nat /\ thread = "none"
  BY <1>1, NextEvent DEF IInv, HeldInv, NothingBeforeConnect
<1> DEFINE fn == "WaitForNextUpdate"
           new == <<Entry(e.ts, fn, NoMessage)>>
<1>3. fn \in Fns \ {"ForwardUp"} /\ NoMessage \in Args
  BY DEF Fns, GatewayFns, Args
<1>4. new \in Entries(Fns, Args) /\ AsksFor(new, "ForwardUp") = {}
  <2> HIDE DEF fn
  <2> QED
    BY <1>2, <1>3, OneEntry
<1>5. WaitOK'
  BY <1>1, <1>2, WaitNew
<1>6. Return(e.ts, events \ {e}, new)
  BY <1>1
<1> HIDE DEF new
<1>7. Countable(events') /\ QueueMatchesForwards'
  BY <1>1, <1>2, <1>4, <1>6, OtherRemoved, OtherReturns
<1> QED
  BY <1>5, <1>7 DEF QueueInv

\* Events that schedule nothing and are not calls of ForwardUp.
LEMMA QueueUser ==
  ASSUME IInv, QueueInv, NEW e \in events, Model(e) \/ Finish(e) \/ DoInitialize(e)
  PROVE  QueueInv'
<1>1. /\ IsNext(e, events) /\ e.fn \in {"Model", "Finish", "DoInitialize"}
      /\ Return(e.ts, events \ {e}, <<>>)
      /\ UNCHANGED <<eventWait, messageQueue, thread>>
  BY DEF Model, Finish, DoInitialize, Runs, waiting, received
<1>2. e.ts \in Nat
  BY <1>1, NextEvent
<1>3. WaitOK'
  BY <1>1, OtherIsNotWait, WaitKept
<1>4. Countable(events') /\ QueueMatchesForwards'
  BY <1>1, <1>2, NoEntry, OtherRemoved, OtherReturns
<1> QED
  BY <1>3, <1>4 DEF QueueInv

LEMMA QueueWait ==
  ASSUME IInv, QueueInv, NEW e \in events, WaitForNextUpdate(e)
  PROVE  QueueInv'
<1>1. /\ IsNext(e, events) /\ e.fn = "WaitForNextUpdate"
      /\ UNCHANGED <<messageQueue, thread>>
  BY DEF WaitForNextUpdate, Runs, received
<1>2. e.ts \in Nat
  BY <1>1, NextEvent
<1>3. CASE KeepsWaiting
  <2> DEFINE pending == Cancel(events \ {e}, WaitAfter(e))
             fn == "WaitForNextUpdate"
             new == <<Entry(e.ts, fn, NoMessage)>>
  <2>1. /\ Return(e.ts, pending,
                  <<Entry(e.ts, "WaitForNextUpdate", NoMessage)>>)
        /\ eventWait' = NewUid(pending)
    BY <1>3 DEF WaitForNextUpdate
  <2>2. pending \in SUBSET events
    BY DEF Cancel
  <2>3. Calls(pending, "ForwardUp") = ForwardsPending
    <3>1. CASE e.uid = eventWait
      <4>1. WaitAfter(e) = 0 /\ \A f \in events : f.uid # 0
        BY <3>1 DEF WaitAfter, NoEvent, IInv, TypeOK, Events
      <4> QED
        BY <1>1, <4>1 DEF Cancel, Calls, ForwardsPending
    <3>2. CASE e.uid # eventWait
      <4>1. WaitAfter(e) = eventWait
        BY <3>2 DEF WaitAfter
      <4>2. pending = Cancel(events \ {e}, eventWait)
        BY <4>1
      <4> HIDE DEF pending
      <4>3. Calls(pending, "ForwardUp") = Calls(events \ {e}, "ForwardUp")
        BY <4>2, CancelKeepsForwards
      <4> QED
        BY <1>1, <4>3, OtherRemoved
    <3> QED
      BY <3>1, <3>2
  <2>4. fn \in Fns \ {"ForwardUp"} /\ NoMessage \in Args
    BY DEF Fns, GatewayFns, Args
  <2>5. new \in Entries(Fns, Args) /\ AsksFor(new, "ForwardUp") = {}
    <3> HIDE DEF fn
    <3> QED
      BY <1>2, <2>4, OneEntry
  <2>6. Return(e.ts, pending, new)
    BY <2>1
  <2> HIDE DEF pending
  <2>7. WaitOK'
    BY <1>2, <2>1, <2>2, WaitNew
  <2> HIDE DEF new
  <2>8. Countable(events') /\ QueueMatchesForwards'
    BY <1>1, <1>2, <2>2, <2>3, <2>5, <2>6, OtherReturns
  <2> QED
    BY <2>7, <2>8 DEF QueueInv
<1>4. CASE ~KeepsWaiting
  <2>1. Return(e.ts, events \ {e}, <<>>) /\ eventWait' = WaitAfter(e)
    BY <1>4 DEF WaitForNextUpdate
  <2>2. Countable(events') /\ QueueMatchesForwards'
    BY <1>1, <1>2, <2>1, NoEntry, OtherRemoved, OtherReturns
  <2>3. WaitOK'
    <3>1. CASE e.uid = eventWait
      BY <2>1, <3>1 DEF WaitAfter, WaitOK
    <3>2. CASE e.uid # eventWait
      BY <2>1, <3>2, WaitKept DEF WaitAfter
    <3> QED
      BY <3>1, <3>2
  <2> QED
    BY <2>2, <2>3 DEF QueueInv
<1> QED
  BY <1>3, <1>4

LEMMA QueueForward ==
  ASSUME IInv, QueueInv, NEW e \in events,
         ForwardTerminate(e) \/ ForwardFirst(e) \/ ForwardUpdate(e)
  PROVE  QueueInv'
<1>1. /\ Runs(e, "ForwardUp") /\ ForwardFault = "none"
      /\ messageQueue' = Tail(messageQueue) /\ UNCHANGED thread
  BY DEF ForwardTerminate, ForwardFirst, ForwardUpdate
<1>2. e.fn = "ForwardUp" /\ e.ts \in Nat /\ Message \in Args
  BY <1>1, ForwardEvent, ForwardedMessage DEF Args
<1>3. ASSUME NEW at \in Nat, NEW fn \in Fns \ {"ForwardUp"}
      PROVE  /\ <<Entry(at, fn, Message)>> \in Entries(Fns, Args)
             /\ AsksFor(<<Entry(at, fn, Message)>>, "ForwardUp") = {}
  BY <1>2, <1>3, OneEntry
<1>4. e.uid # eventWait
  BY <1>2, OtherIsNotWait
<1>5. CASE ForwardTerminate(e)
  <2>1. Return(e.ts, events \ {e}, <<>>) /\ UNCHANGED eventWait
    BY <1>5 DEF ForwardTerminate, waiting
  <2>2. Countable(events') /\ QueueMatchesForwards'
    BY <1>1, <1>2, <2>1, NoEntry, ForwardReturns
  <2>3. WaitOK'
    BY <1>4, <2>1, WaitKept
  <2> QED
    BY <2>2, <2>3 DEF QueueInv
<1>6. CASE ForwardFirst(e)
  <2> DEFINE fn == "DoInitialize"
             new == <<Entry(e.ts, fn, Message)>>
  <2>1. Return(e.ts, events \ {e}, new) /\ UNCHANGED eventWait
    BY <1>6 DEF ForwardFirst, waiting
  <2>2. fn \in Fns \ {"ForwardUp"}
    BY DEF Fns, GatewayFns
  <2> HIDE DEF fn
  <2>3. new \in Entries(Fns, Args) /\ AsksFor(new, "ForwardUp") = {}
    BY <1>2, <1>3, <2>2
  <2> HIDE DEF new
  <2>4. Countable(events') /\ QueueMatchesForwards'
    BY <1>1, <1>2, <2>1, <2>3, ForwardReturns
  <2>5. WaitOK'
    BY <1>4, <2>1, WaitKept
  <2> QED
    BY <2>4, <2>5 DEF QueueInv
<1>7. CASE ForwardUpdate(e)
  <2> DEFINE fn == "HandleUpdate"
             at == PauseFor(Header)
             new == <<Entry(at, fn, Message)>>
             pending == WithoutWait \ {e}
  <2>1. Return(e.ts, pending, new) /\ eventWait' = NoEvent
    BY <1>7 DEF ForwardUpdate
  <2>2. fn \in Fns \ {"ForwardUp"} /\ at \in Nat
    BY <1>1, <1>7, AcceptedPause DEF Fns, GatewayFns, ForwardUpdate
  <2> HIDE DEF fn, at
  <2>3. new \in Entries(Fns, Args) /\ AsksFor(new, "ForwardUp") = {}
    BY <1>2, <1>3, <2>2
  <2> HIDE DEF new
  <2>4. pending \in SUBSET events /\ pending = Cancel(events \ {e}, eventWait)
    BY DEF WithoutWait, Cancel
  <2> HIDE DEF pending
  <2>5. Calls(pending, "ForwardUp") = Calls(events \ {e}, "ForwardUp")
    BY <2>4, CancelKeepsForwards
  <2>6. Countable(events') /\ QueueMatchesForwards'
    BY <1>1, <1>2, <2>1, <2>3, <2>4, <2>5, ForwardReturns
  <2>7. WaitOK'
    BY <2>1 DEF WaitOK
  <2> QED
    BY <2>6, <2>7 DEF QueueInv
<1> QED
  BY <1>5, <1>6, <1>7

LEMMA QueueUpdate ==
  ASSUME IInv, QueueInv, NEW e \in events, HandleUpdate(e)
  PROVE  QueueInv'
<1>1. /\ IsNext(e, events) /\ e.fn = "HandleUpdate"
      /\ UNCHANGED <<messageQueue, thread>>
  BY DEF HandleUpdate, Runs, received
<1>2. e.ts \in Nat
  BY <1>1, NextEvent
<1>3. CASE PausesAt(e.ts)
  <2> DEFINE fn == "WaitForNextUpdate"
             new == <<Entry(e.ts, fn, NoMessage)>>
  <2>1. /\ Return(e.ts, events \ {e},
                  <<Entry(e.ts, "WaitForNextUpdate", NoMessage)>>)
        /\ eventWait' = NewUid(events \ {e})
    BY <1>3 DEF HandleUpdate
  <2>2. fn \in Fns \ {"ForwardUp"} /\ NoMessage \in Args
    BY DEF Fns, GatewayFns, Args
  <2>3. new \in Entries(Fns, Args) /\ AsksFor(new, "ForwardUp") = {}
    <3> HIDE DEF fn
    <3> QED
      BY <1>2, <2>2, OneEntry
  <2>4. Return(e.ts, events \ {e}, new)
    BY <2>1
  <2>5. WaitOK'
    BY <1>2, <2>1, WaitNew
  <2> HIDE DEF new
  <2>6. Countable(events') /\ QueueMatchesForwards'
    BY <1>1, <1>2, <2>3, <2>4, OtherRemoved, OtherReturns
  <2> QED
    BY <2>5, <2>6 DEF QueueInv
<1>4. CASE ~PausesAt(e.ts)
  <2>1. Return(e.ts, events \ {e}, <<>>) /\ UNCHANGED eventWait
    BY <1>4 DEF HandleUpdate
  <2>2. Countable(events') /\ QueueMatchesForwards'
    BY <1>1, <1>2, <2>1, NoEntry, OtherRemoved, OtherReturns
  <2>3. WaitOK'
    BY <1>1, <2>1, OtherIsNotWait, WaitKept
  <2> QED
    BY <2>2, <2>3 DEF QueueInv
<1> QED
  BY <1>3, <1>4

\* Stop.
LEMMA QueueStop ==
  ASSUME IInv, QueueInv, StopEnd \/ \E e \in events : StopBegin(e)
  PROVE  QueueInv'
<1>1. ASSUME NEW e \in events, StopBegin(e)
      PROVE  QueueInv'
  <2>1. /\ e.fn = "Stop" /\ events' = events \ {e}
        /\ UNCHANGED <<withContext, eventWait, messageQueue, thread>>
    BY <1>1 DEF StopBegin, Runs, waiting, received
  <2>2. Countable(events')
    BY <2>1, FS_Subset DEF QueueInv, Countable
  <2>3. ForwardsPending' = ForwardsPending /\ ForwardsAsked' = ForwardsAsked
    BY <2>1 DEF ForwardsPending, ForwardsAsked
  <2>4. QueueMatchesForwards'
    BY <2>1, <2>3 DEF QueueInv, QueueMatchesForwards
  <2>5. WaitOK'
    BY <2>1 DEF QueueInv, WaitOK
  <2> QED
    BY <2>2, <2>4, <2>5 DEF QueueInv
<1>2. CASE StopEnd
  <2> DEFINE pending == Cancel(events, eventWait)
  <2>1. /\ Return(now, pending, <<>>) /\ eventWait' = NoEvent
        /\ messageQueue' = messageQueue
        /\ thread' = "schedule" <=> thread = "schedule"
    BY <1>2 DEF StopEnd
  <2>2. pending \in SUBSET events /\ now \in Nat
    BY DEF Cancel, IInv, TypeOK
  <2>3. Calls(pending, "ForwardUp") = ForwardsPending
    <3>1. Calls(pending, "ForwardUp") = Calls(events, "ForwardUp")
      BY CancelKeepsForwards
    <3> QED
      BY <3>1 DEF Calls, ForwardsPending
  <2> HIDE DEF pending
  <2>4. Countable(events') /\ QueueMatchesForwards'
    BY <2>1, <2>2, <2>3, NoEntry, OtherReturns
  <2>5. WaitOK'
    BY <2>1 DEF WaitOK
  <2> QED
    BY <2>4, <2>5 DEF QueueInv
<1> QED
  BY <1>1, <1>2

\* The other thread: a message in the queue, then the call that will take it.
LEMMA QueueThread ==
  ASSUME IInv, QueueInv, Thread \/ ThreadRecvFails
  PROVE  QueueInv'
<1>1. UNCHANGED <<events, eventWait>>
  BY DEF Thread, ThreadCheck, ThreadRecv, ThreadHangup, ThreadRecvFails, ThreadPush,
         ThreadForward, ThreadScheduleStop, ThreadFrame, waiting
<1>2. /\ IsFiniteSet(ForwardsAsked)
      /\ Cardinality(ForwardsPending) \in Nat /\ Cardinality(ForwardsAsked) \in Nat
      /\ messageQueue \in Seq(Messages) /\ Len(messageQueue) \in Nat
      /\ withContext \in Seq({"ForwardUp", "Stop"})
  BY CountsAreNumbers DEF QueueInv, IInv, TypeOK
<1>3. ForwardsPending' = ForwardsPending
  BY <1>1 DEF ForwardsPending
<1>4. Len(messageQueue) =
          Cardinality(ForwardsPending) + Cardinality(ForwardsAsked)
        + (IF thread = "schedule" THEN 1 ELSE 0)
  BY DEF QueueInv, QueueMatchesForwards
<1>5. ASSUME NEW call \in {"ForwardUp", "Stop"}, withContext' = Append(withContext, call)
      PROVE  ForwardsAsked' = IF call = "ForwardUp"
                              THEN ForwardsAsked \cup {Len(withContext) + 1}
                              ELSE ForwardsAsked
  <2>1. /\ DOMAIN withContext = 1..Len(withContext) /\ Len(withContext) \in Nat
        /\ DOMAIN withContext' = 1..(Len(withContext) + 1)
        /\ \A i \in 1..Len(withContext) : withContext'[i] = withContext[i]
        /\ withContext'[Len(withContext) + 1] = call
    BY <1>2, <1>5, AppendProperties, LenProperties
  <2>2. 1..(Len(withContext) + 1) = (1..Len(withContext)) \cup {Len(withContext) + 1}
    BY <2>1
  <2> QED
    BY <2>1, <2>2 DEF ForwardsAsked
<1>6. QueueMatchesForwards'
  <2>1. CASE ThreadPush
    <3>1. /\ thread = "read" /\ thread' = "schedule"
          /\ messageQueue' = Append(messageQueue, Head(messageBuffer))
          /\ withContext' = withContext
      BY <2>1 DEF ThreadPush, At, Pushed
    <3>2. Len(messageQueue') = Len(messageQueue) + 1
      BY <1>2, <3>1 DEF IInv, TypeOK
    <3>3. ForwardsAsked' = ForwardsAsked
      BY <3>1 DEF ForwardsAsked
    <3> QED
      BY <1>2, <1>3, <1>4, <3>1, <3>2, <3>3 DEF QueueMatchesForwards
  <2>2. CASE ThreadForward
    <3>1. /\ thread = "schedule" /\ thread' = "check"
          /\ messageQueue' = messageQueue
          /\ withContext' = Append(withContext, "ForwardUp")
      BY <2>2 DEF ThreadForward, At
    <3>2. ForwardsAsked' = ForwardsAsked \cup {Len(withContext) + 1}
          /\ Len(withContext) + 1 \notin ForwardsAsked
      BY <1>2, <1>5, <3>1 DEF ForwardsAsked
    <3>3. Cardinality(ForwardsAsked') = Cardinality(ForwardsAsked) + 1
      BY <1>2, <3>2, FS_AddElement
    <3> QED
      BY <1>2, <1>3, <1>4, <3>1, <3>3 DEF QueueMatchesForwards
  <2>3. CASE ThreadScheduleStop
    <3>1. /\ thread = "hangup" /\ thread' = "exited"
          /\ messageQueue' = messageQueue
          /\ withContext' = Append(withContext, "Stop")
      BY <2>3 DEF ThreadScheduleStop, At, AskedToStop
    <3>2. ForwardsAsked' = ForwardsAsked
      BY <1>5, <3>1
    <3> QED
      BY <1>3, <1>4, <3>1, <3>2 DEF QueueMatchesForwards
  <2>4. CASE ThreadCheck \/ ThreadRecv \/ ThreadHangup \/ ThreadRecvFails
    <3>1. /\ thread # "schedule" /\ thread' # "schedule"
          /\ UNCHANGED <<messageQueue, withContext>>
      BY <2>4 DEF ThreadCheck, ThreadRecv, ThreadHangup, ThreadRecvFails, AfterTheEnd, At
    <3>2. ForwardsAsked' = ForwardsAsked
      BY <3>1 DEF ForwardsAsked
    <3> QED
      BY <1>3, <1>4, <3>1, <3>2 DEF QueueMatchesForwards
  <2> QED
    BY <2>1, <2>2, <2>3, <2>4 DEF Thread
<1> QED
  BY <1>1, <1>6 DEF QueueInv, WaitOK

\* Everything else.
LEMMA QueueUnchanged ==
  ASSUME QueueInv, UNCHANGED <<events, withContext, eventWait, messageQueue, thread>>
  PROVE  QueueInv'
BY DEF QueueInv, WaitOK, QueueMatchesForwards, ForwardsPending, ForwardsAsked

LEMMA QueueNext == IInv /\ QueueInv /\ [Next]_vars => QueueInv'
<1> SUFFICES ASSUME IInv, QueueInv, [Next]_vars PROVE QueueInv'
  OBVIOUS
<1>1. ASSUME NEW e \in events,
             \/ Connect(e) \/ Model(e) \/ Finish(e) \/ WaitForNextUpdate(e)
             \/ ForwardTerminate(e) \/ ForwardFirst(e) \/ ForwardUpdate(e)
             \/ DoInitialize(e) \/ HandleUpdate(e)
      PROVE  QueueInv'
  BY <1>1, QueueConnect, QueueUser, QueueWait, QueueForward, QueueUpdate
<1>2. ASSUME NEW e \in events, ConnectFails(e) \/ ForwardUpFails(e) \/ CallbackFails(e)
      PROVE  QueueInv'
  <2>1. UNCHANGED <<events, withContext, eventWait, messageQueue, thread>>
    BY <1>2
    DEF ConnectFails, ForwardUpFails, CallbackFails, Abort, simulator, waiting, received
  <2> QED
    BY <2>1, QueueUnchanged
<1>3. CASE StopEnd \/ \E e \in events : StopBegin(e)
  BY <1>3, QueueStop
<1>4. CASE Thread \/ ThreadRecvFails
  BY <1>4, QueueThread
<1>5. CASE RunReturns \/ Destroy \/ Server \/ UNCHANGED vars
  <2>1. UNCHANGED <<events, withContext, eventWait, messageQueue, thread>>
    BY <1>5
    DEF RunReturns, Destroy, Server, ServerSend, ServerClose, vars, simulator, waiting,
        received
  <2> QED
    BY <2>1, QueueUnchanged
<1> QED
  BY <1>1, <1>2, <1>3, <1>4, <1>5 DEF Next, Main, Terminating

\* Every call of ForwardUp that is under way has its message in the queue,
\* whatever the two threads are in the middle of (gateway.cc:264-269, 292-304).
THEOREM QueueIsMatched == Spec => []QueueMatchesForwards
<1>1. QueueInv => QueueMatchesForwards
  BY DEF QueueInv
<1> QED
  BY <1>1, QueueInit, QueueNext, Invariance, PTL DEF Spec

-----------------------------------------------------------------------------
(* The simulator always knows what to run.                                 *)

\* Whatever the gateway schedules, cancels and asks for from its other thread, a
\* simulator with a pending event has exactly one next event, and the clock does not
\* go back to run it: the loop of wait events (gateway.cc:274-287), which goes on at one
\* time for ever, cannot leave two events undecided.
THEOREM SimulatorRunsOn ==
  Spec => [](events # {} =>
               \E e \in events : /\ IsNext(e, events) /\ now <= e.ts
                                 /\ \A f \in events : IsNext(f, events) => f = e)
<1>1. ASSUME IInv, QueueInv, events # {}
      PROVE  \E e \in events : /\ IsNext(e, events) /\ now <= e.ts
                               /\ \A f \in events : IsNext(f, events) => f = e
  <2>1. events \in SUBSET Events(Fns, Args) /\ \A e \in events : now <= e.ts
    <3>1. now \in Nat /\ events \in SUBSET Events(Fns, Args)
      BY <1>1 DEF IInv, TypeOK, Fns, Args
    <3>2. \A e \in events : e.ts >= now /\ e.ts \in Nat
      BY <1>1, <3>1 DEF IInv, HeldInv, EventsOK, EventOK, Events
    <3> QED
      BY <3>1, <3>2
  <2>2. \A e, f \in events : e.uid = f.uid => e = f
    BY <1>1 DEF QueueInv, Countable
  <2> QED
    BY <1>1, <2>1, <2>2, NextExists
<1> QED
  BY <1>1, QueueInit, QueueNext, Invariance, PTL DEF Spec

-----------------------------------------------------------------------------
(* The fatal error of an empty queue.                                      *)

MessageFound == fault # "no queued message"

\* A ForwardUp that is scheduled has its message in the queue.
LEMMA ForwardHasMessage ==
  ASSUME IInv, QueueInv, NEW e \in events, e.fn = "ForwardUp"
  PROVE  messageQueue # <<>>
<1>1. e \in ForwardsPending
  BY DEF ForwardsPending
<1>2. /\ IsFiniteSet(ForwardsPending) /\ Cardinality(ForwardsPending) \in Nat
      /\ Cardinality(ForwardsAsked) \in Nat
  BY CountsAreNumbers DEF QueueInv
<1>3. Cardinality(ForwardsPending) # 0
  BY <1>1, <1>2, FS_EmptySet
<1>4. Len(messageQueue) # 0
  BY <1>2, <1>3 DEF QueueInv, QueueMatchesForwards
<1> QED
  BY <1>4

LEMMA MessageFoundNext == IInv /\ QueueInv /\ MessageFound /\ [Next]_vars => MessageFound'
<1> SUFFICES ASSUME IInv, QueueInv, MessageFound, [Next]_vars PROVE MessageFound'
  OBVIOUS
<1>1. ASSUME NEW e \in events, ForwardUpFails(e)
      PROVE  MessageFound'
  <2>1. e.fn = "ForwardUp" /\ fault' = ForwardFault
    BY <1>1 DEF ForwardUpFails, Runs, Abort
  <2>2. messageQueue # <<>>
    BY <2>1, ForwardHasMessage
  <2> QED
    BY <2>1, <2>2 DEF ForwardFault, MessageFound
<1>2. ASSUME NEW e \in events, ConnectFails(e) \/ CallbackFails(e)
      PROVE  MessageFound'
  BY <1>2 DEF ConnectFails, CallbackFails, Abort, ResponseFaults, MessageFound
<1>3. CASE UNCHANGED fault
  BY <1>3 DEF MessageFound
<1>4. ASSUME NEW e \in events,
             \/ Connect(e) \/ Model(e) \/ Finish(e) \/ WaitForNextUpdate(e)
             \/ ForwardTerminate(e) \/ ForwardFirst(e) \/ ForwardUpdate(e)
             \/ DoInitialize(e) \/ HandleUpdate(e) \/ StopBegin(e)
      PROVE  UNCHANGED fault
  BY <1>4
  DEF Connect, Model, Finish, WaitForNextUpdate, ForwardTerminate, ForwardFirst,
      ForwardUpdate, DoInitialize, HandleUpdate, StopBegin
<1>5. CASE StopEnd \/ RunReturns \/ Destroy \/ Thread \/ ThreadRecvFails \/ Server
           \/ UNCHANGED vars
  <2>1. UNCHANGED fault
    BY <1>5
    DEF StopEnd, RunReturns, Destroy, Thread, ThreadCheck, ThreadRecv, ThreadHangup,
        ThreadRecvFails, ThreadPush, ThreadForward, ThreadScheduleStop, ThreadFrame,
        Server, ServerSend, ServerClose, vars
  <2> QED
    BY <1>3, <2>1
<1> QED
  BY <1>1, <1>2, <1>3, <1>4, <1>5 DEF Next, Main, Terminating

\* ForwardUp never finds the queue empty (the NS_FATAL_ERROR of
\* gateway.cc:298-301 cannot be reached).
THEOREM ForwardFindsMessage == Spec => [](fault # "no queued message")
<1>1. Init => MessageFound
  BY DEF Init, MessageFound
<1>2. Spec => []QueueInv
  BY QueueInit, QueueNext, Invariance, PTL DEF Spec
<1> QED
  BY <1>1, <1>2, MessageFoundNext, Invariance, PTL DEF Spec, MessageFound
=============================================================================
