------------------------------- MODULE Pipeline -------------------------------
(***************************************************************************)
(* The checks of an outbound send (src/pipeline/submit.ts), which every    *)
(* channel shares: single sends, batches, bulk requests and SMTP.  They    *)
(* read the state as it is at the moment of the call and change nothing.   *)
(*                                                                         *)
(* A draft is what its checks tell apart: the first fault of its contents, *)
(* and its recipients.  `world` holds what they read of the account: the   *)
(* stream of the draft, its sender, the approval and the suppressed.       *)
(***************************************************************************)
EXTENDS Naturals

CONSTANTS
  Addresses,  \* recipients
  Local       \* those on the domain of the sender

ASSUME PipelineAssumption == Local \subseteq Addresses

\* What may be wrong with the contents of a draft, in the order of its checks.
BadContents == {"type", "size", "from", "list", "noRecipient", "tooMany",
                "noBody", "limit", "extension", "fakeBounce"}

Draft == [bad: BadContents \union {"nothing"}, to: SUBSET Addresses]

StreamStates == {"none", "inbound", "archived", "live"}
SenderStates == {"authorized", "pending", "unknown"}
Approvals == {"approved", "pending", "unapproved"}
World == [stream: StreamStates, sender: SenderStates, approval: Approvals,
          suppressed: SUBSET Addresses]

\* The account of a seed, and that of a reset before its seed is applied.
FreshWorld == [stream |-> "live", sender |-> "authorized", approval |-> "approved",
               suppressed |-> {}]
EmptyWorld == [FreshWorld EXCEPT !.stream = "none", !.sender = "unknown"]

(***************************************************************************)
(* One change of the account by another client: of a suppression, of the   *)
(* stream, of the approval, which only a seed sets, or of the sender.  A   *)
(* signature is confirmed, or deleted and created again, not yet           *)
(* confirmed.                                                              *)
(***************************************************************************)
SuppressionChanged(w) ==
  {[w EXCEPT !.suppressed = IF a \in @ THEN @ \ {a} ELSE @ \union {a}] : a \in Addresses}

StreamChanged(w) ==
  {[w EXCEPT !.stream = IF @ = "live" THEN "archived" ELSE "live"]}

ApprovalChanged(w) == {[w EXCEPT !.approval = a] : a \in Approvals \ {w.approval}}

SenderConfirmed(w) ==
  IF w.sender = "authorized" THEN {} ELSE {[w EXCEPT !.sender = "authorized"]}

SenderReplaced(w) ==
  IF w.sender = "authorized" THEN {[w EXCEPT !.sender = "pending"]} ELSE {}

Changed(w) ==
  SuppressionChanged(w)
    \union (IF w.stream = "none" THEN {} ELSE StreamChanged(w))
    \union ApprovalChanged(w) \union SenderConfirmed(w) \union SenderReplaced(w)

-----------------------------------------------------------------------------
(***************************************************************************)
(* Answers.  An error code rejects the send; code 501 is the error that    *)
(* the code throws for behaviour it did not capture, which no caller but a *)
(* bulk release catches.                                                   *)
(***************************************************************************)
Ok == 0
Uncaptured == 501

\* The type and the size are checked before the stream.
Early == {"type", "size"}
Malformed == {"from", "list", "noRecipient", "tooMany", "noBody", "limit"}

DataAnswer(world, draft) ==
  CASE draft.bad = "type" -> 403
    [] draft.bad = "size" -> Uncaptured
    [] draft.bad \notin Early /\ world.stream = "none" -> 1235
    [] draft.bad \notin Early /\ world.stream = "inbound" -> 1236
    [] draft.bad \notin Early /\ world.stream = "archived" -> Uncaptured
    [] draft.bad \in Malformed /\ world.stream = "live" -> 300
    [] draft.bad = "extension" /\ world.stream = "live" -> 411
    [] draft.bad \in {"nothing", "fakeBounce"} /\ world.stream = "live" -> Ok

\* Only a From that names one address has a sender to check.
SenderReadable(draft) == draft.bad # "from"

SenderAnswer(world) ==
  CASE world.sender = "authorized" -> Ok
    [] world.sender = "pending" -> Uncaptured
    [] world.sender = "unknown" -> 400

(***************************************************************************)
(* `validateOutbound`.  A draft that fails a data check and the sender     *)
(* check has no captured answer.                                           *)
(***************************************************************************)
Validate(world, draft) ==
  LET data == DataAnswer(world, draft)
      sender == SenderAnswer(world)
  IN  CASE data = Uncaptured -> Uncaptured
        [] data \notin {Ok, Uncaptured} ->
             IF SenderReadable(draft) /\ sender # Ok THEN Uncaptured ELSE data
        [] data = Ok /\ sender # Ok -> sender
        [] data = Ok /\ sender = Ok ->
             IF draft.bad = "fakeBounce" THEN Uncaptured ELSE Ok

\* `storeOutbound` of a draft that passed: approval, then suppressions.
Inactive(world, draft) == draft.to \intersect world.suppressed
StoreAnswer(world, draft) ==
  IF world.approval = "unapproved" THEN 413
  ELSE IF world.approval = "pending" /\ ~ draft.to \subseteq Local THEN 412
  ELSE IF draft.to \subseteq world.suppressed THEN 406
  ELSE Ok

\* The two in one, as a release does them: Ok when the message is stored.
Submit(world, draft) ==
  LET answer == Validate(world, draft)
  IN  IF answer = Ok THEN StoreAnswer(world, draft) ELSE answer
=============================================================================
