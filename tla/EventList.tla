------------------------------ MODULE EventList ------------------------------
(***************************************************************************)
(* The event list of the ns-3 simulator, as the code in model/ uses it     *)
(* through Simulator::Schedule, ScheduleNow and ScheduleWithContext.  ns-3 *)
(* is not part of the repository: this module is a model of its contract.  *)
(*                                                                         *)
(* An event has a time stamp and a number that grows with every insertion; *)
(* ns-3 runs the events in the order of (time stamp, number), so the       *)
(* events of one time stamp run first-in first-out.  triggered-send-       *)
(* application.cc:116 relies on it, and so does the gateway.               *)
(*                                                                         *)
(* Only the relative order of the pending events can be observed, so a new *)
(* event is numbered one above the largest pending number.  That keeps an  *)
(* event that reschedules itself for ever in a finite state space.         *)
(***************************************************************************)
EXTENDS Integers, Sequences

\* No event, and the argument of a function that takes none.
NoEvent == 0
NoMessage == 0

\* What a call of Schedule asks for: run fn(msg) at time ts.
Entry(ts, fn, msg) == [ts |-> ts, fn |-> fn, msg |-> msg]

\* The events whose functions are in fns and whose arguments are in msgs.
Events(fns, msgs) == [ts : Nat, uid : Nat \ {0}, fn : fns, msg : msgs]

\* The largest number of a pending event, 0 when nothing is pending.
LastUid(events) ==
  IF events = {}
  THEN 0
  ELSE CHOOSE u \in {e.uid : e \in events} : \A e \in events : e.uid <= u

\* The number the next event to be inserted gets.
NewUid(events) == LastUid(events) + 1

\* The event list after the entries of a sequence were scheduled in its order.
Schedule(events, entries) ==
  events \cup
    {[ts  |-> entries[i].ts,
      uid |-> LastUid(events) + i,
      fn  |-> entries[i].fn,
      msg |-> entries[i].msg] : i \in DOMAIN entries}

\* e is the event that the scheduler removes next.
IsNext(e, events) ==
  /\ e \in events
  /\ \A f \in events \ {e} :
        e.ts < f.ts \/ (e.ts = f.ts /\ e.uid < f.uid)

\* The event list without the event an EventId refers to.  ns-3 leaves a
\* cancelled event in its list and skips it when its time comes, where nothing
\* but Simulator::Now() can be seen of it, and nothing of the code reads that.
Cancel(events, uid) == {e \in events : e.uid # uid}
=============================================================================
