--------------------------- MODULE SuppressionList ---------------------------
(***************************************************************************)
(* What the suppression lists of a server promise, whatever handlers,      *)
(* webhooks and clock tasks do (docs/04 section 3.2, as the code of        *)
(* src/recipients/transitions.ts implements it): an address gets a row     *)
(* only when it has none, a row is lifted only when its kind allows it,    *)
(* and everything else is the end of a whole stream.  In particular a      *)
(* spam complaint outlives every step but the purge of its stream.         *)
(***************************************************************************)
CONSTANTS StreamIDs, Emails

VARIABLE list   \* <<stream, email>> -> the kind of its row, or "None"

Kinds == {"HardBounce", "SpamComplaint", "ManualCustomer", "ManualRecipient"}
Addresses == StreamIDs \X Emails

\* T1, T3, T5, T6: the address becomes suppressed.
Suppress(a, kind) == list[a] = "None" /\ list' = [list EXCEPT ![a] = kind]

\* T7, T8, T11: the customer reactivates the address.
Lift(a) ==
  /\ list[a] \in {"HardBounce", "ManualCustomer"}
  /\ list' = [list EXCEPT ![a] = "None"]

\* The stream is purged with its whole list.
PurgeList(s) == list' = [a \in Addresses |-> IF a[1] = s THEN "None" ELSE list[a]]

Init == list = [a \in Addresses |-> "None"]

Next ==
  \/ \E a \in Addresses, kind \in Kinds : Suppress(a, kind)
  \/ \E a \in Addresses : Lift(a)
  \/ \E s \in StreamIDs : PurgeList(s)

Spec == Init /\ [][Next]_list
=============================================================================
