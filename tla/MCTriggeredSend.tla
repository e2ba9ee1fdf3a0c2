-------------------------- MODULE MCTriggeredSend --------------------------
(***************************************************************************)
(* Small instances of TriggeredSend for TLC.                               *)
(***************************************************************************)
EXTENDS TriggeredSend

\* A UDP socket, which connects at once and takes every packet.
Udp == {"at once"}

\* A socket that has all outcomes.
AnyOutcome == Outcomes

\* Requests for nothing, one and two packets, and for up to three.
UpToTwo == 0..2
UpToThree == 0..3
=============================================================================
