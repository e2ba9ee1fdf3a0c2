-------------------------- MODULE ExternalMobility --------------------------
(***************************************************************************)
(* The mobility model of model/external-mobility-model.cc, as a value: the *)
(* x-coordinates of position and velocity, and what the callback of the    *)
(* CourseChange trace saw when it was last called.                         *)
(***************************************************************************)
EXTENDS Naturals

\* The callback was not called yet.
NotSeen == [position |-> 0, velocity |-> 0, calls |-> 0]

\* The model as it is created.
Created == [position |-> 0, velocity |-> 0, seen |-> NotSeen]

\* NotifyCourseChange: the callback reads the model as it is.
Notified(m) ==
  [m EXCEPT !.seen = [position |-> m.position, velocity |-> m.velocity,
                      calls |-> m.seen.calls + 1]]

\* DoSetPosition: a new position is never reported.
SetPosition(m, p) == [m EXCEPT !.position = p]

\* SetVelocity: a new velocity is.
SetVelocity(m, v) ==
  IF v # m.velocity THEN Notified([m EXCEPT !.velocity = v]) ELSE m
=============================================================================
