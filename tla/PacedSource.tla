---------------------------- MODULE PacedSource ----------------------------
(***************************************************************************)
(* What the TriggeredSendApplication promises (class comment of            *)
(* triggered-send-application.h): it sends nothing unless requested; the   *)
(* packets of a request follow each other at the packet interval, without  *)
(* delay; a request replaces what is left of the previous one, but never   *)
(* brings two packets closer together than the interval.                   *)
(***************************************************************************)
EXTENDS Integers

CONSTANT Interval  \* the time between two packets, a positive number

VARIABLES
  clock,   \* the simulation time
  open,    \* whether packets can be sent
  todo,    \* the packets left of the current request
  due      \* when the next packet may be sent, and is sent if one is left

vars == <<clock, open, todo, due>>

Init ==
  /\ clock = 0
  /\ open = FALSE
  /\ todo = 0
  /\ due = 0

\* Time may pass, but no packet is late.
TimePasses ==
  /\ clock' \in Nat
  /\ clock' >= clock
  /\ todo > 0 => clock' <= due

Idle == TimePasses /\ UNCHANGED <<open, todo, due>>

Open ==
  /\ TimePasses
  /\ ~open
  /\ open' = TRUE
  /\ UNCHANGED <<todo, due>>

\* A request takes effect: at once, or when the interval is over.
Request ==
  /\ TimePasses
  /\ open
  /\ todo' \in Nat \ {0}
  /\ due' = IF due > clock' THEN due ELSE clock'
  /\ UNCHANGED open

Packet ==
  /\ open
  /\ todo > 0
  /\ clock' = due
  /\ todo' = todo - 1
  /\ due' = due + Interval
  /\ UNCHANGED open

Close ==
  /\ TimePasses
  /\ open
  /\ open' = FALSE
  /\ todo' = 0
  /\ due' = 0

Next == Idle \/ Open \/ Request \/ Packet \/ Close

Spec == Init /\ [][Next]_vars
=============================================================================
