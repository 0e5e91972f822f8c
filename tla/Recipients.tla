----------------------------- MODULE Recipients -----------------------------
(***************************************************************************)
(* The recipient state machine of one Postmark server: the messages that   *)
(* were sent, the bounces and complaints recorded for them, the per-stream *)
(* suppression lists, and the life of the message streams that own both    *)
(* (src/recipients/, src/api/suppressions, src/api/bounces,                *)
(* src/api/message-streams, src/control/endpoints/recipients.ts).          *)
(*                                                                         *)
(* postmock is one JavaScript thread, so a handler runs without            *)
(* interruption up to an `await` that really waits.  Here that is          *)
(* `events.emit`: a webhook listening to the event makes the emitter wait  *)
(* for an HTTP answer, up to 120 seconds.  A handler that changes state    *)
(* after such an await is a frame in `flight`; everything it does between  *)
(* two waits happens with the turn held (see Turn).                        *)
(***************************************************************************)
EXTENDS Integers, Sequences, Functions

CONSTANTS
  StreamIDs,      \* IDs of outbound message streams of the server
  Unarchivable,   \* the default streams that refuse archiving
  Broadcasts,     \* streams of type Broadcasts with Postmark's unsubscribe link
  Emails,         \* addresses, as they compare: lower-cased
  FakeBounce,     \* address on the bounce-testing domain -> bounce type it gives
  MessageIDs,     \* outbound messages that may be sent
  NoMessage,      \* the message of a handler that has none
  Requests,       \* concurrent API and control requests
  Runner,         \* the clock's queue, which runs one task at a time
  Slow,           \* events a webhook listens to: emitting one really waits
  PurgeDelay,     \* from archive to purge, and how long a bounce is readable
  MaxTime,        \* bound: no time passes beyond this instant
  MaxBounces,     \* bound: reports stop after this many bounces
  MaxList         \* bound: recipients of a message, items of a customer batch

Events == {"bounced", "spamComplaint", "subscriptionChange"}

(***************************************************************************)
(* HardBounce and SpamComplaint deactivate the address.  SoftBounce stands *)
(* for the other types a mail server reports, which do not; Transient is   *)
(* the one of them that leaves the message undecided.                      *)
(***************************************************************************)
BounceTypes == {"HardBounce", "SpamComplaint", "Transient", "SoftBounce"}

ASSUME RecipientsAssumption ==
  /\ Unarchivable \subseteq StreamIDs
  /\ Broadcasts \subseteq StreamIDs
  /\ DOMAIN FakeBounce \subseteq Emails
  /\ FakeBounce \in [DOMAIN FakeBounce -> BounceTypes \ {"SpamComplaint"}]
  /\ NoMessage \notin MessageIDs
  /\ Runner \notin Requests
  /\ Slow \subseteq Events
  /\ PurgeDelay \in Nat \ {0}
  /\ MaxTime \in Nat
  /\ MaxBounces \in Nat
  /\ MaxList \in Nat

Handlers == Requests \union {Runner}

(***************************************************************************)
(* A suppression row by its reason and origin.  "None" is no row.          *)
(***************************************************************************)
Rows == {"HardBounce", "SpamComplaint", "ManualCustomer", "ManualRecipient"}
RowOrNone == Rows \union {"None"}

Deactivates(type) == type \in {"HardBounce", "SpamComplaint"}
CanActivate(type) == type # "SpamComplaint"
\* A slip: the event named after the bounce type.
EventOfType(type) == type
EventOf(type) == IF type = "SpamComplaint" THEN "spamComplaint" ELSE "bounced"

\* A slip: the complaint may be lifted like a hard bounce.
LiftableComplaint == {"HardBounce", "ManualCustomer", "SpamComplaint"}
\* What a customer may lift: reason and origin of the row decide.
Liftable == {"HardBounce", "ManualCustomer"}

VARIABLES
  now,        \* the clock
  streams,    \* live stream -> [created, purge]; purge = 0 when not archived
  outbound,   \* message -> [stream, at, to, suppressed]
  bounces,    \* set of bounce records
  nextBounce, \* the next bounce ID
  rows,       \* <<stream, email>> -> its suppression row, or "None"
  tasks,      \* pending clock tasks: purges and fake bounces
  flight      \* handler -> the frame it waits in

vars == <<now, streams, outbound, bounces, nextBounce, rows, tasks, flight>>

Keys == StreamIDs \X Emails

Stream == [created: Nat, purge: Nat]
Message == [stream: StreamIDs, at: Nat, to: Seq(Emails), suppressed: SUBSET Emails]
Bounce == [id: Nat, msg: MessageIDs, stream: StreamIDs, email: Emails,
           type: BounceTypes, at: Nat, inactive: BOOLEAN]
Task == [kind: {"purge"}, stream: StreamIDs, due: Nat]
          \union [kind: {"fakeBounces"}, msg: MessageIDs, due: Nat]

(***************************************************************************)
(* A frame: what the handler does (op), where it stands (at: the event it  *)
(* waits for, or "item" at the head of its loop), the address at hand, the *)
(* row it adds when the awaited event is over, and the addresses left.     *)
(***************************************************************************)
Ops == {"report", "suppress", "lift", "fakeBounces", "other"}
Frame == [op: Ops, at: Events \union {"item"}, stream: StreamIDs,
          email: Emails, msg: MessageIDs \union {NoMessage},
          add: RowOrNone, todo: Seq(Emails)]

EmptyMap == [x \in {} |-> x]
IsMap(f, S, T) == DOMAIN f \subseteq S /\ f \in [DOMAIN f -> T]

TypeOK ==
  /\ now \in Nat
  /\ IsMap(streams, StreamIDs, Stream)
  /\ IsMap(outbound, MessageIDs, Message)
  /\ bounces \subseteq Bounce
  /\ nextBounce \in Nat
  /\ rows \in [Keys -> RowOrNone]
  /\ tasks \subseteq Task
  /\ IsMap(flight, Handlers, Frame)

-----------------------------------------------------------------------------
(***************************************************************************)
(* Turns.  A handler that is not really waiting holds the thread.          *)
(***************************************************************************)
Holds(p) == p \in DOMAIN flight /\ flight[p].at \notin Slow
Turn(p) == \A q \in Handlers : Holds(q) => q = p
Free == \A q \in Handlers : ~Holds(q)

Start(p, frame) ==
  flight' = [q \in DOMAIN flight \union {p} |-> IF q = p THEN frame ELSE flight[q]]

\* The handler has no change left to make: it answers.
Answer(p) == flight' = Restrict(flight, DOMAIN flight \ {p})

\* A slip: the loop ends with its first item.
AnswerAtOnce(p) == Answer(p)
\* The next item of the handler's loop, or its answer after the last one.
Continue(p) ==
  LET f == flight[p]
  IN  IF f.todo = <<>>
      THEN Answer(p)
      ELSE Start(p, [f EXCEPT !.at = "item", !.email = Head(f.todo),
                              !.add = "None", !.todo = Tail(f.todo)])

-----------------------------------------------------------------------------
Archived(s) == streams[s].purge # 0

\* The recipients a send skips: those on the stream's own list.
SuppressedAmong(s, to) == {e \in Range(to) : rows[<<s, e>>] # "None"}

\* A slip: the stream with the same ID is taken for the message's own.
StreamOfSameID(m) == outbound[m].stream \in DOMAIN streams
\* Neither missing, purged nor recreated since the message was received.
StreamOf(m) ==
  /\ outbound[m].stream \in DOMAIN streams
  /\ streams[outbound[m].stream].created <= outbound[m].at

\* A slip: every address of the message was delivered to.
DeliveredToAll(m, e) ==
  m \in DOMAIN outbound /\ e \in Range(outbound[m].to) /\ StreamOf(m)
\* A message and one of its recipients that a bounce or complaint may name.
Delivered(m, e) ==
  /\ m \in DOMAIN outbound
  /\ e \in Range(outbound[m].to)
  /\ StreamOf(m)
  /\ e \notin outbound[m].suppressed

\* A slip: only a bounce that deactivates ends the message.
AfterFinalInactive(m, e) ==
  \E b \in bounces : b.msg = m /\ b.email = e /\ b.inactive
AfterFinal(m, e) ==
  \E b \in bounces : b.msg = m /\ b.email = e /\ b.type # "Transient"

BounceVisible(b) == now - b.at < PurgeDelay

-----------------------------------------------------------------------------
(***************************************************************************)
(* A send: stores the message with the recipients it skipped, unless all   *)
(* are suppressed (406).  A recipient on the bounce-testing domain gets a  *)
(* fake bounce from a clock task that is due at once.                      *)
(***************************************************************************)
FakeAmong(to, suppressed) == (Range(to) \ suppressed) \intersect DOMAIN FakeBounce

Send(m, s, to) ==
  LET suppressed == SuppressedAmong(s, to)
  IN  /\ Free
      /\ m \notin DOMAIN outbound
      /\ s \in DOMAIN streams
      /\ ~Archived(s)
      /\ suppressed # Range(to)
      /\ outbound' = [x \in DOMAIN outbound \union {m} |->
                        IF x = m
                        THEN [stream |-> s, at |-> now, to |-> to,
                              suppressed |-> suppressed]
                        ELSE outbound[x]]
      /\ tasks' = IF FakeAmong(to, suppressed) = {}
                  THEN tasks
                  ELSE tasks \union {[kind |-> "fakeBounces", msg |-> m, due |-> now]}
      /\ UNCHANGED <<now, streams, bounces, nextBounce, rows, flight>>

-----------------------------------------------------------------------------
(***************************************************************************)
(* recordBounceAt up to the emit of the bounce event: the row is read and  *)
(* the bounce is stored here; the row is added after the event (BounceOver)*)
(* on the strength of what was read here.  A refused report also uses up a *)
(* bounce ID, which nothing but the gap in the IDs would show.             *)
(***************************************************************************)
Reason(type) == IF type = "SpamComplaint" THEN "SpamComplaint" ELSE "HardBounce"

\* A slip: the bounce is recorded over whatever row there is.
BounceAlways(m, e, type) == TRUE
BounceSupported(m, e, type) ==
  Deactivates(type) => rows[<<outbound[m].stream, e>>] \in {"None", Reason(type)}

RecordBounce(p, op, m, e, type, todo) ==
  LET s == outbound[m].stream
      existing == rows[<<s, e>>]
  IN  /\ BounceSupported(m, e, type)
      /\ bounces' = bounces \union
           {[id |-> nextBounce, msg |-> m, stream |-> s, email |-> e,
             type |-> type, at |-> now, inactive |-> Deactivates(type)]}
      /\ nextBounce' = nextBounce + 1
      /\ Start(p, [op |-> op, at |-> EventOf(type), stream |-> s, email |-> e,
                   msg |-> m, todo |-> todo,
                   add |-> IF Deactivates(type) /\ existing = "None"
                           THEN Reason(type) ELSE "None"])

\* POST /control/bounces and POST /control/events/spam-complaint.
Report(p, m, e, type) ==
  /\ Free
  /\ p \notin DOMAIN flight
  /\ nextBounce < MaxBounces
  /\ Delivered(m, e)
  /\ ~AfterFinal(m, e)
  /\ RecordBounce(p, "report", m, e, type, <<>>)
  /\ UNCHANGED <<now, streams, outbound, rows, tasks>>

\* The bounce event is over: add the row decided before it, else go on.
BounceOver(p) ==
  /\ p \in DOMAIN flight
  /\ Turn(p)
  /\ flight[p].at \in {"bounced", "spamComplaint"}
  /\ LET f == flight[p]
     IN  IF f.add = "None"
         THEN Continue(p) /\ UNCHANGED rows
         ELSE /\ rows' = [rows EXCEPT ![<<f.stream, f.email>>] = f.add]
              /\ Start(p, [f EXCEPT !.at = "subscriptionChange", !.add = "None"])
  /\ UNCHANGED <<now, streams, outbound, bounces, nextBounce, tasks>>

\* The subscriptionChange event is over.
ChangeOver(p) ==
  /\ p \in DOMAIN flight
  /\ Turn(p)
  /\ flight[p].at = "subscriptionChange"
  /\ Continue(p)
  /\ UNCHANGED <<now, streams, outbound, bounces, nextBounce, rows, tasks>>

-----------------------------------------------------------------------------
\* addSuppression: the row, then the event.
AddRow(s, e, row) == rows' = [rows EXCEPT ![<<s, e>>] = row]

\* A slip: the row goes and its bounces are forgotten.
ReactivateRowOnly(s, e) == rows' = [rows EXCEPT ![<<s, e>>] = "None"] /\ UNCHANGED bounces
\* reactivate: the row goes and the bounces of its address turn active.
Reactivate(s, e) ==
  /\ rows' = [rows EXCEPT ![<<s, e>>] = "None"]
  /\ bounces' = {IF b.stream = s /\ b.email = e THEN [b EXCEPT !.inactive = FALSE] ELSE b
                   : b \in bounces}

AwaitChange(p, op, s, e, m) ==
  Start(p, [op |-> op, at |-> "subscriptionChange", stream |-> s, email |-> e,
            msg |-> m, add |-> "None", todo |-> <<>>])

\* POST /control/events/unsubscribe; any row already there leaves it as it is.
Unsubscribe(p, m, e) ==
  /\ Free
  /\ p \notin DOMAIN flight
  /\ Delivered(m, e)
  /\ LET s == outbound[m].stream
     IN  /\ s \in Broadcasts
         /\ rows[<<s, e>>] = "None"
         /\ AddRow(s, e, "ManualRecipient")
         /\ AwaitChange(p, "other", s, e, m)
  /\ UNCHANGED <<now, streams, outbound, bounces, nextBounce, tasks>>

\* PUT /bounces/{id}/activate.
Activate(p, b) ==
  /\ Free
  /\ p \notin DOMAIN flight
  /\ BounceVisible(b)
  /\ CanActivate(b.type)
  /\ b.inactive
  /\ rows[<<b.stream, b.email>>] = "HardBounce"
  /\ Reactivate(b.stream, b.email)
  /\ AwaitChange(p, "other", b.stream, b.email, b.msg)
  /\ UNCHANGED <<now, streams, outbound, nextBounce, tasks>>

-----------------------------------------------------------------------------
(***************************************************************************)
(* POST .../suppressions (op "suppress") and .../suppressions/delete       *)
(* ("lift"): the stream is checked once, then each item is applied and its *)
(* event awaited before the next.                                          *)
(***************************************************************************)
CustomerBatch(p, op, s, items) ==
  /\ Free
  /\ p \notin DOMAIN flight
  /\ s \in DOMAIN streams
  /\ ~Archived(s)
  /\ Start(p, [op |-> op, at |-> "item", stream |-> s, email |-> Head(items),
               msg |-> NoMessage, add |-> "None", todo |-> Tail(items)])
  /\ UNCHANGED <<now, streams, outbound, bounces, nextBounce, rows, tasks>>

AtItem(p, op) ==
  p \in DOMAIN flight /\ Turn(p) /\ flight[p].at = "item" /\ flight[p].op = op

\* The item changed a row; its event is awaited.
ItemChanged(p) == Start(p, [flight[p] EXCEPT !.at = "subscriptionChange"])

\* suppressByCustomer.  Over a row of another kind it throws, ending the batch.
SuppressItem(p) ==
  /\ AtItem(p, "suppress")
  /\ LET f == flight[p]
         existing == rows[<<f.stream, f.email>>]
     IN  \/ /\ existing = "None"
            /\ AddRow(f.stream, f.email, "ManualCustomer")
            /\ ItemChanged(p)
         \/ existing \in {"SpamComplaint", "ManualCustomer"} /\ Continue(p) /\ UNCHANGED rows
         \/ existing \in {"HardBounce", "ManualRecipient"} /\ Answer(p) /\ UNCHANGED rows
  /\ UNCHANGED <<now, streams, outbound, bounces, nextBounce, tasks>>

\* deleteSuppression.  A complaint fails its item; an unsubscribe ends the batch.
LiftItem(p) ==
  /\ AtItem(p, "lift")
  /\ LET f == flight[p]
         existing == rows[<<f.stream, f.email>>]
     IN  \/ existing \in Liftable /\ Reactivate(f.stream, f.email) /\ ItemChanged(p)
         \/ existing \in {"None", "SpamComplaint"} /\ Continue(p) /\ UNCHANGED <<rows, bounces>>
         \/ existing = "ManualRecipient" /\ Answer(p) /\ UNCHANGED <<rows, bounces>>
  /\ UNCHANGED <<now, streams, outbound, nextBounce, tasks>>

-----------------------------------------------------------------------------
(***************************************************************************)
(* Message streams.  The set of purged IDs only picks the error an         *)
(* unarchive answers with, and is left out.                                *)
(***************************************************************************)
CreateStream(s) ==
  /\ Free
  /\ s \notin DOMAIN streams
  /\ streams' = [x \in DOMAIN streams \union {s} |->
                   IF x = s THEN [created |-> now, purge |-> 0] ELSE streams[x]]
  /\ UNCHANGED <<now, outbound, bounces, nextBounce, rows, tasks, flight>>

\* The purge task of an earlier archive stays pending.
Archive(s) ==
  /\ Free
  /\ s \in DOMAIN streams \ Unarchivable
  /\ ~Archived(s)
  /\ streams' = [streams EXCEPT ![s].purge = now + PurgeDelay]
  /\ tasks' = tasks \union {[kind |-> "purge", stream |-> s, due |-> now + PurgeDelay]}
  /\ UNCHANGED <<now, outbound, bounces, nextBounce, rows, flight>>

Unarchive(s) ==
  /\ Free
  /\ s \in DOMAIN streams
  /\ Archived(s)
  /\ streams' = [streams EXCEPT ![s].purge = 0]
  /\ UNCHANGED <<now, outbound, bounces, nextBounce, rows, tasks, flight>>

-----------------------------------------------------------------------------
(***************************************************************************)
(* The clock, as far as these tasks see it: the queue runs one task at a   *)
(* time, in due order, and waits for it.                                   *)
(***************************************************************************)
\* A slip: a task due at this instant waits for the next one.
DueBefore(t) == t \in tasks /\ t.due < now /\ \A u \in tasks : t.due <= u.due
DueFirst(t) ==
  /\ t \in tasks
  /\ t.due <= now
  /\ \A u \in tasks : t.due <= u.due

\* A slip: the purge task only asks whether the stream is archived now.
StillArchived(t) == t.stream \in DOMAIN streams /\ Archived(t.stream)
StillDue(t) == t.stream \in DOMAIN streams /\ streams[t.stream].purge = t.due

\* The task of schedulePurge.
Purge(t) ==
  /\ Free
  /\ Runner \notin DOMAIN flight
  /\ DueFirst(t)
  /\ t.kind = "purge"
  /\ tasks' = tasks \ {t}
  /\ IF StillDue(t)
     THEN /\ streams' = Restrict(streams, DOMAIN streams \ {t.stream})
          /\ rows' = [k \in Keys |-> IF k[1] = t.stream THEN "None" ELSE rows[k]]
          /\ bounces' = {b \in bounces : b.stream # t.stream}
     ELSE UNCHANGED <<streams, rows, bounces>>
  /\ UNCHANGED <<now, outbound, nextBounce, flight>>

\* The task of the test-bounces plugin starts its loop over the recipients.
FakeBounces(t) ==
  /\ Free
  /\ Runner \notin DOMAIN flight
  /\ DueFirst(t)
  /\ t.kind = "fakeBounces"
  /\ tasks' = tasks \ {t}
  /\ LET m == outbound[t.msg]
     IN  Start(Runner, [op |-> "fakeBounces", at |-> "item", stream |-> m.stream,
                        email |-> Head(m.to), msg |-> t.msg, add |-> "None",
                        todo |-> Tail(m.to)])
  /\ UNCHANGED <<now, streams, outbound, bounces, nextBounce, rows>>

\* Whether the recipient gets a fake bounce, and one whose effect is captured.
FakeSupported(m, e) ==
  /\ e \in FakeAmong(outbound[m].to, outbound[m].suppressed)
  /\ BounceSupported(m, e, FakeBounce[e])

\* One recipient: its fake bounce, or nothing.
FakeItem ==
  /\ AtItem(Runner, "fakeBounces")
  /\ LET f == flight[Runner]
     IN  \/ /\ FakeSupported(f.msg, f.email)
            /\ RecordBounce(Runner, "fakeBounces", f.msg, f.email,
                            FakeBounce[f.email], f.todo)
         \/ /\ ~FakeSupported(f.msg, f.email)
            /\ Continue(Runner)
            /\ UNCHANGED <<bounces, nextBounce>>
  /\ UNCHANGED <<now, streams, outbound, rows, tasks>>

\* Time may pass a pending task: a timer fires late, and a purge has none.
Tick ==
  /\ Free
  /\ now < MaxTime
  /\ now' = now + 1
  /\ UNCHANGED <<streams, outbound, bounces, nextBounce, rows, tasks, flight>>

-----------------------------------------------------------------------------
Init ==
  /\ now = 0
  /\ streams = [s \in StreamIDs |-> [created |-> 0, purge |-> 0]]
  /\ outbound = EmptyMap
  /\ bounces = {}
  /\ nextBounce = 0
  /\ rows = [k \in Keys |-> "None"]
  /\ tasks = {}
  /\ flight = EmptyMap

Lists == UNION {[1..n -> Emails] : n \in 1..MaxList}

Client(p) ==
  \/ \E m \in MessageIDs, e \in Emails, type \in BounceTypes : Report(p, m, e, type)
  \/ \E m \in MessageIDs, e \in Emails : Unsubscribe(p, m, e)
  \/ \E b \in bounces : Activate(p, b)
  \/ \E op \in {"suppress", "lift"}, s \in StreamIDs, items \in Lists :
       CustomerBatch(p, op, s, items)

Resume(p) == BounceOver(p) \/ ChangeOver(p) \/ SuppressItem(p) \/ LiftItem(p)

RunTask == \E t \in tasks : Purge(t) \/ FakeBounces(t)
\* The one thing the clock's queue does next, of a task or of the next one.
QueueStep == Resume(Runner) \/ FakeItem \/ RunTask

Next ==
  \/ \E m \in MessageIDs, s \in StreamIDs, to \in Lists : Send(m, s, to)
  \/ \E p \in Requests : Client(p)
  \/ \E p \in Handlers : Resume(p)
  \/ \E s \in StreamIDs : CreateStream(s) \/ Archive(s) \/ Unarchive(s)
  \/ RunTask
  \/ FakeItem
  \/ Tick

Spec == Init /\ [][Next]_vars

(***************************************************************************)
(* What the server does by itself happens: the event loop starves no       *)
(* runnable continuation or timer, and a webhook call ends by an answer or *)
(* by its 120 second timeout.  Clients and time owe nothing.               *)
(***************************************************************************)
Fairness ==
  /\ \A p \in Requests : SF_vars(Resume(p))
  /\ SF_vars(QueueStep)

FairSpec == Spec /\ Fairness
-----------------------------------------------------------------------------
(***************************************************************************)
(* Properties.                                                             *)
(***************************************************************************)

\* The bounce of this handler is stored and its suppression row is to come.
PendingAdd(p, s, e) ==
  /\ p \in DOMAIN flight
  /\ flight[p].add # "None"
  /\ flight[p].stream = s
  /\ flight[p].email = e

(***************************************************************************)
(* An inactive bounce has its suppression row, or a handler that recorded  *)
(* a bounce of the address is still waiting for its webhook and will add   *)
(* the row (recordBounceAt against reactivate, the customer's batches and  *)
(* the purge, in every order).                                             *)
(***************************************************************************)
InactiveCovered ==
  \A b \in bounces : b.inactive =>
    \/ rows[<<b.stream, b.email>>] # "None"
    \/ \E p \in Handlers : PendingAdd(p, b.stream, b.email)

(***************************************************************************)
(* No bounce is on a stream other than the very one its message was sent   *)
(* on: not on a purged one, not on a new stream with the same ID, although *)
(* messages outlive their stream and fake bounces run later on the clock.  *)
(***************************************************************************)
BouncesOnOwnStream ==
  \A b \in bounces :
    /\ b.stream \in DOMAIN streams
    /\ b.stream = outbound[b.msg].stream
    /\ streams[b.stream].created <= outbound[b.msg].at

(***************************************************************************)
(* A recipient the send skipped as suppressed never bounces or complains   *)
(* for that message, whatever became of its row since (delivered, and the  *)
(* filter of the test-bounces plugin).                                     *)
(***************************************************************************)
SkippedNeverBounces ==
  \A b \in bounces : b.email \notin outbound[b.msg].suppressed

(***************************************************************************)
(* A message ends once for a recipient that only reports can end: no two   *)
(* bounces other than Transient, though a report waits for webhooks while  *)
(* others come in (refuseAfterFinal).  Bounces of the bounce-testing       *)
(* domain, which also come from the clock, are left out.                   *)
(***************************************************************************)
ReportsEndOnce ==
  \A b, c \in bounces :
    /\ b.msg = c.msg /\ b.email = c.email
    /\ b.type # "Transient" /\ c.type # "Transient"
    /\ b.email \notin DOMAIN FakeBounce
    => b = c

(***************************************************************************)
(* A stream ends only at the purge date of the archive in force, so a task *)
(* left over by an archive that was undone never takes it (schedulePurge). *)
(***************************************************************************)
PurgedOnlyWhenDue ==
  [][\A s \in DOMAIN streams \ DOMAIN streams' :
       streams[s].purge # 0 /\ streams[s].purge <= now]_streams

(***************************************************************************)
(* With bounce webhooks that do not wait, an inactive bounce and the row   *)
(* of its address always agree on the reason, whatever batches, lifts,     *)
(* purges and new streams come between.                                    *)
(***************************************************************************)
InactiveMatchesRow ==
  Free => \A b \in bounces : b.inactive => rows[<<b.stream, b.email>>] = Reason(b.type)

\* The suppression rows behave as the abstract list.
List == INSTANCE SuppressionList WITH list <- rows
ListSpec == List!Spec

(***************************************************************************)
(* A fake bounce comes: once a send to the bounce-testing domain has       *)
(* scheduled its task, the bounce of each recipient in it is recorded, or  *)
(* the address is found with a row that makes the effect uncaptured,       *)
(* though the recipients before it in the message wait for slow webhooks.  *)
(***************************************************************************)
FakeBounceDue(m, e) ==
  \E t \in tasks :
    /\ t.kind = "fakeBounces" /\ t.msg = m
    /\ e \in FakeAmong(outbound[m].to, outbound[m].suppressed)
FakeBounceDone(m, e) ==
  \/ \E b \in bounces : b.msg = m /\ b.email = e
  \/ m \in DOMAIN outbound /\ rows[<<outbound[m].stream, e>>] \notin {"None", "HardBounce"}
FakeBounceComes ==
  \A m \in MessageIDs, e \in DOMAIN FakeBounce :
    FakeBounceDue(m, e) ~> FakeBounceDone(m, e)

-----------------------------------------------------------------------------
(***************************************************************************)
(* Statements of the code that a waiting webhook breaks.                   *)
(***************************************************************************)

(***************************************************************************)
(* The check of activateBounce cannot fail: a bounce that may be activated *)
(* has a row.  The code throws an internal error otherwise.                *)
(***************************************************************************)
ActivateFindsRow ==
  \A b \in bounces :
    b.inactive /\ CanActivate(b.type) /\ BounceVisible(b)
      => rows[<<b.stream, b.email>>] # "None"

=============================================================================
