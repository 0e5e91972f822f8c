---------------------------- MODULE InboundStatus ----------------------------
(***************************************************************************)
(* The life of an inbound message as the Messages API shows it: what its   *)
(* Status promises, whatever receivers, retries, calls and changes of the  *)
(* configuration do (the comment of src/inbound/deliver.ts and the         *)
(* transitions of src/api/inbound/routes.ts).  A processed message is      *)
(* done for good, a blocked one moves only by a bypass, a failed one only  *)
(* by a retry.                                                             *)
(***************************************************************************)
CONSTANT Mails

VARIABLE status   \* mail -> Status, "None" before it came

Moves(from) ==
  CASE from = "None" -> {"Queued", "Blocked"}
    [] from = "Blocked" -> {"Queued"}
    [] from = "Queued" -> {"Processed", "Scheduled", "Failed"}
    [] from = "Scheduled" -> {"Processed", "Scheduled", "Failed"}
    [] from = "Failed" -> {"Queued"}
    [] from = "Processed" -> {}

\* One mail reaches several servers at once; otherwise one message moves.
Arrive(mails) ==
  /\ \A m \in mails : status[m] = "None"
  /\ \E came \in [mails -> Moves("None")] :
       status' = [m \in Mails |-> IF m \in mails THEN came[m] ELSE status[m]]

Move(m) ==
  /\ status[m] # "None"
  /\ \E to \in Moves(status[m]) : status' = [status EXCEPT ![m] = to]

Init == status = [m \in Mails |-> "None"]

Next == (\E mails \in SUBSET Mails : Arrive(mails)) \/ \E m \in Mails : Move(m)

Spec == Init /\ [][Next]_status
=============================================================================
