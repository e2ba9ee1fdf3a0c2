--------------------------- MODULE EventListProofs ---------------------------
(***************************************************************************)
(* Lemmas about the operators of EventList: which events an event list     *)
(* holds after a call of Schedule or Cancel, and which event is next.      *)
(***************************************************************************)
EXTENDS EventList, WellFoundedInduction, SequenceTheorems, TLAPS

\* The entries that ask for the events of Events(fns, msgs).
Entries(fns, msgs) == Seq([ts : Nat, fn : fns, msg : msgs])

\* There is a largest event number, or none at all.
Numbered(events) == \E b \in Nat : \A e \in events : e.uid <= b

\* A set of natural numbers that is not empty has a smallest element.
LEMMA SmallestExists ==
  ASSUME NEW S \in SUBSET Nat, S # {}
  PROVE  \E n \in S : \A m \in S : n <= m
<1> DEFINE Less == {ss \in Nat \X Nat : ss[1] < ss[2]}
<1>1. IsWellFoundedOn(Less, Nat)
  BY NatLessThanWellFounded DEF OpToRel
<1>2. PICK n \in S : \A m \in S : <<m, n>> \notin Less
  <2> HIDE DEF Less
  <2> QED
    BY <1>1, WFMin
<1>3. \A m \in S : ~(m < n)
  BY <1>2
<1> QED
  BY <1>3

\* The last number exists and is at least the number of every event: the CHOOSE
\* of LastUid has a value (the FIFO rule of triggered-send-application.cc:116).
LEMMA LastUidIsLast ==
  ASSUME NEW events, \A e \in events : e.uid \in Nat, Numbered(events)
  PROVE  /\ LastUid(events) \in Nat
         /\ \A e \in events : e.uid <= LastUid(events)
<1>1. CASE events = {}
  BY <1>1 DEF LastUid
<1>2. CASE events # {}
  <2> DEFINE Bounds == {b \in Nat : \A e \in events : e.uid <= b}
  <2>1. PICK b \in Bounds : \A c \in Bounds : b <= c
    <3>1. Bounds # {} /\ Bounds \subseteq Nat
      BY DEF Numbered
    <3> HIDE DEF Bounds
    <3> QED
      BY <3>1, SmallestExists
  <2>2. PICK e \in events : e.uid = b
    <3>1. SUFFICES ASSUME \A e \in events : e.uid # b
                   PROVE  FALSE
      OBVIOUS
    <3>2. \A e \in events : e.uid <= b /\ e.uid # b
      BY <2>1, <3>1
    <3>3. PICK f \in events : TRUE
      BY <1>2
    <3>4. b - 1 \in Nat
      BY <3>2, <3>3
    <3>5. b - 1 \in Bounds
      BY <3>2, <3>4
    <3> QED
      BY <2>1, <3>5
  <2>3. \E u \in {f.uid : f \in events} : \A f \in events : f.uid <= u
    BY <2>1, <2>2
  <2> QED
    BY <1>2, <2>3 DEF LastUid
<1> QED
  BY <1>1, <1>2

\* Schedule keeps the pending events, adds one event for each entry and nothing
\* else, and the numbers stay bounded.
LEMMA ScheduleAdds ==
  ASSUME NEW fns, NEW msgs,
         NEW events \in SUBSET Events(fns, msgs), Numbered(events),
         NEW entries \in Entries(fns, msgs)
  PROVE  LET after == Schedule(events, entries) IN
         /\ after \subseteq Events(fns, msgs)
         /\ Numbered(after)
         /\ events \subseteq after
         /\ \A i \in DOMAIN entries : \E e \in after :
              e.ts = entries[i].ts /\ e.fn = entries[i].fn /\ e.msg = entries[i].msg
         /\ \A e \in after : e \in events \/ \E i \in DOMAIN entries :
              e.ts = entries[i].ts /\ e.fn = entries[i].fn /\ e.msg = entries[i].msg
<1> DEFINE event(i) == [ts  |-> entries[i].ts,
                        uid |-> LastUid(events) + i,
                        fn  |-> entries[i].fn,
                        msg |-> entries[i].msg]
           after == Schedule(events, entries)
<1>1. /\ LastUid(events) \in Nat
      /\ \A e \in events : e.uid <= LastUid(events)
  <2>1. \A e \in events : e.uid \in Nat
    BY DEF Events
  <2> QED
    BY <2>1, LastUidIsLast
<1>2. after = events \cup {event(i) : i \in DOMAIN entries}
  BY DEF Schedule
<1>3. DOMAIN entries = 1..Len(entries) /\ Len(entries) \in Nat
  BY DEF Entries
<1>4. \A i \in DOMAIN entries : entries[i] \in [ts : Nat, fn : fns, msg : msgs]
  BY <1>3, ElementOfSeq DEF Entries
<1>5. \A i \in DOMAIN entries : event(i) \in Events(fns, msgs)
  BY <1>1, <1>3, <1>4 DEF Events
<1>6. Numbered(after)
  <2>1. LastUid(events) + Len(entries) \in Nat
    BY <1>1, <1>3
  <2>2. \A e \in events : e.uid <= LastUid(events) + Len(entries)
    BY <1>1, <1>3 DEF Events
  <2>3. \A i \in DOMAIN entries : event(i).uid <= LastUid(events) + Len(entries)
    BY <1>1, <1>3
  <2> HIDE DEF event
  <2> QED
    BY <1>2, <2>1, <2>2, <2>3 DEF Numbered
<1>7. \A i \in DOMAIN entries :
         /\ event(i).ts = entries[i].ts
         /\ event(i).fn = entries[i].fn
         /\ event(i).msg = entries[i].msg
  OBVIOUS
<1> HIDE DEF event, after
<1> QED
  BY <1>2, <1>5, <1>6, <1>7 DEF after

\* The new number is a number of an event.
LEMMA NewUidType ==
  ASSUME NEW fns, NEW msgs,
         NEW events \in SUBSET Events(fns, msgs), Numbered(events)
  PROVE  NewUid(events) \in Nat \ {0}
<1>1. \A e \in events : e.uid \in Nat
  BY DEF Events
<1> QED
  BY <1>1, LastUidIsLast DEF NewUid

\* Fewer events are still events with bounded numbers; Cancel leaves fewer.
LEMMA FewerEvents ==
  ASSUME NEW fns, NEW msgs,
         NEW events \in SUBSET Events(fns, msgs), Numbered(events),
         NEW fewer \in SUBSET events
  PROVE  fewer \in SUBSET Events(fns, msgs) /\ Numbered(fewer)
BY DEF Numbered

\* No pending event is earlier than the next one.
LEMMA NextIsFirst ==
  ASSUME NEW fns, NEW msgs, NEW events \in SUBSET Events(fns, msgs),
         NEW e, IsNext(e, events)
  PROVE  /\ e \in events
         /\ e \in Events(fns, msgs)
         /\ \A f \in events : e.ts <= f.ts
<1>1. e \in events /\ e \in Events(fns, msgs)
  BY DEF IsNext
<1>2. ASSUME NEW f \in events
      PROVE  e.ts <= f.ts
  BY <1>1, <1>2 DEF IsNext, Events
<1> QED
  BY <1>1, <1>2

\* Pending events that have different numbers are never undecided: when there are any,
\* exactly one is next (the order that triggered-send-application.cc:116 and the
\* gateway's wait loop rely on).
THEOREM NextExists ==
  ASSUME NEW fns, NEW msgs, NEW events \in SUBSET Events(fns, msgs), events # {},
         \A e, f \in events : e.uid = f.uid => e = f
  PROVE  \E e \in events : /\ IsNext(e, events)
                            /\ \A f \in events : IsNext(f, events) => f = e
<1>1. \A e \in events : e.ts \in Nat /\ e.uid \in Nat
  BY DEF Events
<1>2. PICK t \in {e.ts : e \in events} : \A s \in {e.ts : e \in events} : t <= s
  <2>1. {e.ts : e \in events} \in SUBSET Nat /\ {e.ts : e \in events} # {}
    BY <1>1
  <2> QED
    BY <2>1, SmallestExists
<1> DEFINE first == {e \in events : e.ts = t}
<1>3. PICK u \in {e.uid : e \in first} : \A v \in {e.uid : e \in first} : u <= v
  <2>1. {e.uid : e \in first} \in SUBSET Nat /\ {e.uid : e \in first} # {}
    BY <1>1, <1>2
  <2> QED
    BY <2>1, SmallestExists
<1>4. PICK e \in events : e.ts = t /\ e.uid = u
  BY <1>3
<1>5. ASSUME NEW f \in events \ {e}
      PROVE  e.ts < f.ts \/ (e.ts = f.ts /\ e.uid < f.uid)
  <2>1. t <= f.ts /\ (f.ts = t => u <= f.uid) /\ f.uid # u
    BY <1>2, <1>3, <1>4, <1>5
  <2>2. t \in Nat /\ u \in Nat /\ f.ts \in Nat /\ f.uid \in Nat
    BY <1>1, <1>4
  <2> QED
    BY <1>4, <2>1, <2>2
<1>6. IsNext(e, events)
  BY <1>5 DEF IsNext
<1>7. ASSUME NEW f \in events, IsNext(f, events)
      PROVE  f = e
  BY <1>1, <1>6, <1>7 DEF IsNext
<1> QED
  BY <1>6, <1>7

\* A single new event: it comes behind every pending event of its time.
LEMMA ScheduleOne ==
  ASSUME NEW fns, NEW msgs,
         NEW events \in SUBSET Events(fns, msgs), Numbered(events),
         NEW ts \in Nat, NEW fn \in fns, NEW msg \in msgs
  PROVE  LET new == [ts |-> ts, uid |-> NewUid(events), fn |-> fn, msg |-> msg] IN
         /\ Schedule(events, <<Entry(ts, fn, msg)>>) = events \cup {new}
         /\ new \in Events(fns, msgs)
         /\ \A e \in events : e.uid < NewUid(events)
         /\ Numbered(events \cup {new})
<1> DEFINE new == [ts |-> ts, uid |-> NewUid(events), fn |-> fn, msg |-> msg]
<1>1. /\ LastUid(events) \in Nat
      /\ \A e \in events : e.uid \in Nat /\ e.uid <= LastUid(events)
  <2>1. \A e \in events : e.uid \in Nat
    BY DEF Events
  <2> QED
    BY <2>1, LastUidIsLast
<1>2. Schedule(events, <<Entry(ts, fn, msg)>>) = events \cup {new}
  <2> DEFINE entries == <<Entry(ts, fn, msg)>>
  <2>1. DOMAIN entries = {1} /\ entries[1] = Entry(ts, fn, msg)
    OBVIOUS
  <2> HIDE DEF entries
  <2>2. Schedule(events, entries)
          = events \cup {[ts  |-> entries[1].ts, uid |-> LastUid(events) + 1,
                          fn  |-> entries[1].fn, msg |-> entries[1].msg]}
    BY <2>1 DEF Schedule
  <2>3. Schedule(events, entries) = events \cup {new}
    BY <2>1, <2>2 DEF Entry, NewUid
  <2> QED
    BY <2>3 DEF entries
<1>3. new \in Events(fns, msgs)
  BY <1>1 DEF NewUid, Events
<1>4. \A e \in events : e.uid < NewUid(events)
  BY <1>1 DEF NewUid
<1>5. Numbered(events \cup {new})
  <2>1. NewUid(events) \in Nat /\ new.uid = NewUid(events)
    BY <1>1 DEF NewUid
  <2>2. \A e \in events \cup {new} : e.uid <= NewUid(events)
    BY <1>1, <2>1 DEF NewUid
  <2> QED
    BY <2>1, <2>2 DEF Numbered
<1> QED
  BY <1>2, <1>3, <1>4, <1>5
=============================================================================
