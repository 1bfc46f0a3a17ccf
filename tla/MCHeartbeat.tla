----------------------------- MODULE MCHeartbeat -----------------------------
(* Heartbeat on a small instance for TLC.                                  *)
EXTENDS Heartbeat

CONSTANTS o1, o2, h1, h2, h3

TwoOwners == {o1, o2}
TwoBeats == {h1, h2}
ThreeBeats == {h1, h2, h3}
==============================================================================
