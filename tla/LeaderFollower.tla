--------------------------- MODULE LeaderFollower ---------------------------
(***************************************************************************)
(* What the gateway promises about time (README.md, Time Management; class *)
(* comment of gateway.h): from Connect on the remote server leads, the     *)
(* ns-3 clock stands still until the server grants a later time and never  *)
(* passes the last granted time, until the gateway lets go of the clock.   *)
(***************************************************************************)
EXTENDS Integers

VARIABLES
  clock,   \* the simulation time
  mode,    \* "free" before Connect, "led" while connected, "released" after
  grant    \* the latest time the leader allows; meaningful while led

vars == <<clock, mode, grant>>

Init ==
  /\ clock = 0
  /\ mode = "free"
  /\ grant = 0

\* The follower moves to a later time, as far as the leader allows.
Advance ==
  /\ clock' \in Nat
  /\ clock' >= clock
  /\ mode = "led" => clock' <= grant
  /\ UNCHANGED <<mode, grant>>

\* The follower puts itself under the leader's control: time stops here.
Connect ==
  /\ mode = "free"
  /\ clock' \in Nat
  /\ clock' >= clock
  /\ mode' = "led"
  /\ grant' = clock'

\* The leader allows time to run up to a time that is not in the past.
Grant ==
  /\ mode = "led"
  /\ grant' \in Nat
  /\ grant' >= clock
  /\ UNCHANGED <<clock, mode>>

\* The leader is gone: nothing holds the clock any more.
Release ==
  /\ mode = "led"
  /\ mode' = "released"
  /\ grant' = 0
  /\ UNCHANGED clock

Next == Advance \/ Connect \/ Grant \/ Release

Spec == Init /\ [][Next]_vars
=============================================================================
