------------------------------- MODULE BulkLife -------------------------------
(***************************************************************************)
(* What the bulk API promises of a request: it is accepted, processed      *)
(* message by message, and completes when each message was released or     *)
(* failed, unless it is cancelled or stops; nothing is released before or  *)
(* after.  A request that a reset or a failed seed takes away stays away.  *)
(***************************************************************************)
EXTENDS Naturals

CONSTANTS
  Ids,     \* requests
  Sizes    \* how many messages a request may have

VARIABLE life  \* what a client that polls a request sees of it

Statuses == {"none", "Accepted", "Processing", "Completed", "Cancelled", "gone"}
Life == [status: Statuses, total: Nat, released: Nat, failed: Nat, stopped: BOOLEAN]

Fresh == [status |-> "none", total |-> 0, released |-> 0, failed |-> 0, stopped |-> FALSE]
Gone == [Fresh EXCEPT !.status = "gone"]

Init == life = [id \in Ids |-> Fresh]

\* The moves of one request, from b to c.
Accept(b, c) ==
  /\ b = Fresh
  /\ \E total \in Sizes : c = [Fresh EXCEPT !.status = "Accepted", !.total = total]

Begin(b, c) ==
  /\ b.status = "Accepted"
  /\ c = [b EXCEPT !.status = "Processing"]

\* One message more, and the end with the last one.
Message(b, c) ==
  /\ b.status = "Processing" /\ ~ b.stopped
  /\ c.released + c.failed = b.released + b.failed + 1
  /\ c.released >= b.released /\ c.failed >= b.failed
  /\ c = [b EXCEPT !.released = c.released, !.failed = c.failed,
                   !.status = IF c.released + c.failed = b.total THEN "Completed" ELSE @]

Stop(b, c) ==
  /\ b.status = "Processing" /\ ~ b.stopped
  /\ c = [b EXCEPT !.stopped = TRUE]

Cancel(b, c) ==
  /\ b.status \in {"Accepted", "Processing"}
  /\ c = [b EXCEPT !.status = "Cancelled"]

Vanish(b, c) == c = Gone

Move(b, c) ==
  Accept(b, c) \/ Begin(b, c) \/ Message(b, c) \/ Stop(b, c) \/ Cancel(b, c) \/ Vanish(b, c)

\* A reset takes several requests away at once; otherwise one moves at a time.
Next ==
  /\ DOMAIN life' = Ids
  /\ \A id \in Ids : life'[id] = life[id] \/ Move(life[id], life'[id])

Spec == Init /\ [][Next]_life
=============================================================================
