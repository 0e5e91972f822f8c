-------------------------------- MODULE MCBulk --------------------------------
(***************************************************************************)
(* Small instances of Bulk for TLC.                                        *)
(***************************************************************************)
EXTENDS Bulk

CONSTANTS a1, a2

TwoAddresses == {a1, a2}
OneLocal == {a1}

Job(bad, to, renders) == [draft |-> [bad |-> bad, to |-> to], renders |-> renders]
Mixed == <<Job("nothing", {a1}, TRUE), Job("nothing", {a1, a2}, TRUE)>>
Invalid == <<Job("nothing", {a1}, TRUE), Job("limit", {a1}, TRUE)>>
Unrendered == <<Job("nothing", {a2}, FALSE)>>
ThreeKinds == {Mixed, Unrendered, Invalid}
=============================================================================
