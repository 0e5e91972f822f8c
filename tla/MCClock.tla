------------------------------- MODULE MCClock -------------------------------
(***************************************************************************)
(* Small instances of Clock for TLC.                                       *)
(***************************************************************************)
EXTENDS Clock, TLC

CONSTANTS w1, h1, u1

BothModes == {"real", "manual"}
RealMode == {"real"}
TwoWorks == {w1, h1}
OneHeld == {h1}
OneSeeder == {u1}
=============================================================================
