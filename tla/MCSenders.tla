------------------------------- MODULE MCSenders -------------------------------
(***************************************************************************)
(* Small instances of Senders for TLC.                                     *)
(***************************************************************************)
EXTENDS Senders

CONSTANTS d1, d2, e1, p1

TwoDomains == {d1, d2}
OneEmail == {e1}
OnSubdomain == [x \in OneEmail |-> d1]
Parents == [x \in TwoDomains |-> IF x = d1 THEN {d2} ELSE {}]
OnePath == {p1}
=============================================================================
