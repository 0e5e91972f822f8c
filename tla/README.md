# A verification development of postmock

postmock is a mock of the Postmark mail service: a REST API, an SMTP listener and
a control API over one in-memory account, with a clock that tests can move, and
webhooks that it really posts. This directory holds TLA+ models of its stateful
parts, the TLC configurations that check them on small instances, and TLAPS
proofs about them for every instance. `PROJECT.json` relates each definition to
the source lines it models.

What makes the program hard is one thing in many places. It is one JavaScript
thread, so a handler runs undisturbed up to an `await` that really waits, and
many do: a webhook listener makes `events.emit` wait for an HTTP receiver, up to
120 seconds. Handlers read state before such a wait and use it after, and in
between come other requests, clock tasks, purges, resets and failed seeds.
The models keep exactly these waits as the points where steps interleave. Where a
handler awaits nothing that waits, as in templates and domains, it is one step,
and what is hard is a long sequence of legal calls.

## Inventory

| Component | State | Operations | Interacts with | Hard behaviour | What makes it correct |
| --- | --- | --- | --- | --- | --- |
| Clock (`state/clock.ts`) | offset or standing instant, tasks, timers, holds, the promise queue | schedule, hold, advance, idle, reset, checkpoint/restore, timers | all that waits: retries, purges, bulk releases, fake bounces, delayed requests; seeding resets it | timer against advance, a throwing task, reset in between, a task that awaits | one at a time, once, in due order; time never back; holds answered |
| Recipients (`recipients/`, `api/suppressions`, `api/bounces`, `control/endpoints/recipients.ts`) | bounces, suppressions | bounce, complaint, unsubscribe, activate, suppress, lift | streams own both, sends read them, emits `bounced`, `spamComplaint`, `subscriptionChange` | row read before the await and written after; batches that await per item | flags and rows agree; a list behaves as the API says; a message ends once |
| Message streams (`api/message-streams`) | streams, purged streams | create, archive, unarchive, purge task | deletes rows and bounces of the stream, whose messages stay | left-over purge tasks, a new stream with an old ID | purged only when due; nothing outlives its stream |
| Fake bounces (`plugins/test-bounces.ts`) | - | listener on `sent`, task at delay 0 | clock, recipients | runs late, after changes of the list | each comes, or is skipped for a reason |
| Webhook delivery (`webhooks/`, `plugins/webhooks.ts`) | attempts log, retries on the clock | emit, attempt, retry, drop | listens to every event; configuration of hooks; egress | late answers, edits during a wait, resets with attempts in flight | one row per attempt, schedule kept, retries run |
| Inbound (`inbound/`, `api/inbound`) | inbound messages with a status | receive, deliver, bypass, retry | delivery, servers, rules | a mail of several servers; calls against a pending retry | status follows the one delivery |
| Webhook and server configuration (`api/webhooks`, `api/account/servers.ts`, `api/server`) | hooks, servers with hook URLs | create, edit, delete | read by emits and by retries | changes while events are in flight | a retry goes only to a hook that still asks for it |
| Reset and seeding (`control/seeding.ts`) | saved state and clock | reset, seed, close | replaces the state, resets the clock | awaits a seed; fails and restores | all or nothing |
| Send pipeline (`pipeline/`, `api/email`) | outbound messages | validate, store, emit `sent` | suppressions, templates, approval, sandbox | batches that await, list read at the send | suppressed recipients are skipped and told |
| Bulk (`api/bulk`) | bulk requests | accept, start, release, cancel, list | clock, pipeline | cancel during a release; an object replaced by a restore | counters add up; a cancelled request sends no more |
| Tracking and stats (`tracking.ts`, `plugins/message-events.ts`, `plugins/stats.ts`) | opens, clicks, message events, stats rows | delivered, opened, clicked | webhooks, stats queries | first open or click against awaits | delivered once; counts agree with the events |
| Templates and push (`api/templates`, `api/account/push.ts`, `render/`) | templates, layouts | create, edit, delete, send, push | servers, pipeline | aliases and layouts used by others, copied to another server | alias unique; layouts found; a push leaves nothing to push |
| Domains and signatures (`api/account`) | domains, DKIM keys, senders | create, edit, verify, rotate, confirm, delete | pipeline checks senders | rotation pending while used | keys in order; who may send goes on to |
| SMTP (`smtp/`) | session, tokens, faults | connect, auth, data | pipeline, recipients (SMTPApiError) | state used across the parsing | each rejected message has its bounce |
| HTTP flow (`http/`) | faults, latencies, request log | match, hold, fault, authenticate, handle | clock holds, every API | state after the hold | each rule used as often as set |
| Event bus, plugins (`events.ts`, `plugins.ts`) | listeners | on, emit | all | listeners one after the other, each awaited | - |
| Startup (`server.ts`, `main.ts`) | listeners | start, close | seeding, clock | close with held requests | close ends |
| Pure parts (`errors.ts`, `time.ts`, `http/normalize.ts`, `render/mustachio.ts`, `mime/`, `api/stats/aggregate.ts`, `api/messages/query.ts`) | - | - | - | string processing, aggregation | - |

## Modules

| Module | What it is |
| --- | --- |
| `Recipients` | bounces, suppressions, streams, sends and fake bounces of one server |
| `SuppressionList` | abstract: what a suppression list promises its callers |
| `MCRecipients` | instances of `Recipients` for TLC |
| `RecipientsProofs` | proofs about `Recipients`, and that it implements `SuppressionList` |
| `Clock`, `MCClock` | the clock with its jobs, timers and resets; instances |
| `Agenda`, `ClockProofs` | abstract: what the clock promises those who schedule work; proofs, and that `Clock` implements it |
| `Delivery` | webhook events, retries, the log, inbound messages, the hooks' configuration |
| `InboundStatus` | abstract: the statuses an inbound message may go through |
| `MCDelivery`, `DeliveryProofs` | instances; proofs, and that `Delivery` implements `InboundStatus` |
| `Pipeline` | the checks of a send in their order, as operators: what it answers and stores |
| `Bulk`, `MCBulk` | bulk requests with their tasks on the clock, seeds and a paging client; instances |
| `BulkLife`, `BulkProofs` | abstract: the life that the API promises of a bulk request; proofs, and that `Bulk` implements it |
| `Tracking`, `MCTracking`, `TrackingProofs` | what becomes of a sent message, in its five records; instances; proofs |
| `Templates`, `MCTemplates`, `TemplatesProofs` | templates, layouts, servers and the push; instances; proofs |
| `Senders`, `MCSenders`, `SendersProofs` | domains, signatures and their DKIM keys; instances; proofs |
| `Intake`, `MCIntake`, `IntakeProofs` | sends over HTTP and SMTP and inbound mail, with rules, seeds and resets; instances; proofs |

`Bulk` and `Intake` compose with `Pipeline`: they call `Validate`, `StoreAnswer` and
`Submit` at the points where the code calls `validateOutbound`, `acceptOutbounds` and
`submitOutbound`, on the account as it is then.

### How the models correspond to the code

A handler that waits is a *frame* in the map `flight`: which loop it is in, what
it awaits and what it has read that it will use afterwards (the row to add, the
targets left). `Turn(p)` and `Free` say who has the thread: a handler that stands
between two awaits that do not really wait holds it, so nothing else runs, and
one that awaits a receiver gives it away. Each action is a handler, or the part
of one from a wait to the next wait, with every change it makes.

`Recipients`: `Report` is the control API's bounce or complaint up to the
emitted event (`recordBounceAt` to line 170), `BounceOver` the rest, which adds
the row with the `existing` it read before; `Activate`, `Unsubscribe`,
`CustomerBatch` with `SuppressItem` and `LiftItem` are the other paths;
`Reactivate` is their common part (delete the row, turn the bounces active).
`Send` stores a message with the recipients it skips and schedules the fake
bounces. `Archive` schedules `Purge`, `Unarchive` leaves the task. `Slow` is the
set of events with a webhook that waits: the other events return at once.

`Clock`: `jobs` are the links of the promise chain with what they wait for, an
`advance` with the instant it goes to or the `take` of a fired timer. A job whose
task awaits a listener is `running` with a work, and everything else goes on
around it. `Seeders` are the callers of reset, seed and close: `Call` awaits
`idle`, `Resume` takes the checkpoint and resets, `Applied` and `ApplyFails` end
the seed. The instant of a task and its timer are separate: `due` on the clock,
`fires` in real time.

`Delivery`: a *chain* is an event and the attempts made for it, with the number
of the attempt, when it started, and whether it is posting or waiting for its
retry. `Emit` lists the targets, `EmitItem` posts to one, `Answered` is all that
`attempt` does after the POST (log row, retry on the clock, status of the inbound
message, next turn of the caller's loop). `RunRetry` is the task of a retry, with
`stillConfigured`. `Receive`, `InboundItem` and `Redeliver` are the inbound side.
A hook is the URL it has now; `Off` stands for no URL or a trigger that is off.
Chains of API calls carry `plugin = FALSE`: their runtime object has no egress.

`Pipeline`: a draft is the first fault of its contents and its recipients, the
`world` what the checks read of the account. An answer is an ErrorCode; 501 stands
for `Unsupported`, which stops a whole batch, a bulk request or an SMTP mail.

`Bulk`: `objs` are the request objects that closures hold, `table` the ones in the
state. A failed seed puts clones in the table while the tasks that come back go
on with the originals; without a failed seed the two are the same. `Accept`
schedules all tasks, `Start`, `Release` and `Skip` are what they do, and the clock
step runs the one that is due first, the earliest scheduled of those. `Cancel`, `ChangeWorld`,
`DeleteServer`, `Seed` and its ends `Seeded` and `SeedFails` are the others. `ReadPage` is a
client that follows the keys of the list.

`Tracking`: `Deliver`, `Open`, `Click` and `Bounce` each make all the records in one
step, as the listeners that record never wait: `opens` and `clicks` (the first of
each), `events` of the message, `facts` of the statistics, bounces and rows, and
`posts`, the first attempts to a hook of the stream. `at` is an instant that the control
call gives. `Overview` is `GET /stats/outbound` over a range, `Series` a path below it,
`Listed` with `ReadPage` a client that pages messages, opens or clicks.

`Templates`: a reference to a layout keeps the form in which it was given, since
`activeLayout` looks up by alias or ID and `layoutUsers` compares with the alias. `Push`
computes the changes from both servers as they are and then copies them.
`Senders`: DKIM keys are numbers in the order of their making; active, pending and
revoked keys are three fields as in the code. `SenderState` is `senderAuthorized`.

`Intake`: a call is a record of where it stands: `held` by a latency, `released` by a
reset of the clock, `waiting` at a fault that never answers, `parsing` a mail,
`bouncing` the recipients left, or `answered`. `Serve` is all that `createApiApp` does
after the hold. `store` is the object that `runtime.store.state` points to, `epoch` its number: an inbound
mail keeps the object of its arrival. `session` is one SMTP connection.

### Order of the plan

1. `Recipients`, `Clock`, `Delivery`, their abstractions and proofs: done.
2. `Pipeline`, `Bulk`, `Tracking`, `Templates`, `Senders`, `Intake`: modelled, checked and
   proved about.
3. To prove next: nothing that a run checks, but for what is out of the prover's reach
   (see "Only model-checked"); a module of item 4 comes with its proofs.
4. To model next: search filters and the other Stats queries as operators; webhooks
   of the events of `Tracking` and of the inbound mail of `Intake`, by composition
   with `Delivery`; IDs that start again after a reset.

A run has one instance for the safe and the live properties where it can, and a
disagreement with a text has a run of its own for the two with the widest
effect; the others are listed below.

## What the runs check

Clients may stop at any time, so no run checks for deadlock; that something goes
on is what the liveness properties say.

| Run | Instance | Properties |
| --- | --- | --- |
| `RecipientsSafety` | one stream, two addresses (one fake), one message, two requests, all events slow, time to 1, two bounces, batches of one; symmetry | `TypeOK`, `InactiveCovered`, `BouncesOnOwnStream`, `ReportsEndOnce`, `PurgedOnlyWhenDue` |
| `RecipientsList` | one request, only `subscriptionChange` slow, one message to two test addresses (one bounces hard, one softly), lists of two, one reported bounce, no unsubscribe link (an unsubscription is in `RecipientsSafety`, and in the theorem); fairness | `InactiveMatchesRow`, `SkippedNeverBounces`, `ListSpec`, `FakeBounceComes` |
| `Clock` | both modes, two works (one held), delays 1 and 2, advances by 2, timers up to 1, one seeder, two jobs, one reset and what a failed seed restores, real time to 1; fairness | `TypeOK`, `OneAtATime`, `RunOnce`, `HoldsHaveTasks`, `ResetsWhenIdle`, `AgendaSpec`, `JobsFinish`, `HeldAnswered` |
| `Delivery` | one server, one event hook, one mail, a remote URL, all outcomes, one retry outbound and two inbound, two requests, time to 2; symmetry | `TypeOK`, `StatusFollowsChain`, `RetriesKeepSchedule`, `InboundSpec` |
| `DeliveryLive` | two servers, a mail that reaches both, good or bad answers, one retry; fairness | `RetriesRun`, `QueuedIsDelivered` |
| `Bulk` | three requests of up to two messages and three messages in all (some refused, one with a template that does not render), two recipients, one change of the account, one seed or reset, four of these events together, pages of one; fairness | `TypeOK`, `CountersMatch`, `ListingComplete`, `LifeSpec`, `Completes` |
| `Tracking` | one message to two recipients with one link, soft bounces and complaints, four reports, a hook that wants first opens only, three instants, retention of one day, pages of one | `TypeOK`, `FirstsAgree`, `StoryHolds`, `OverviewAdds`, `PagingMissesNone` |
| `Templates` | two servers, four templates, one given alias and the generated ones, one content, a limit of two per server; symmetry of server names | `TemplatesUsable`, `PushConverges` |
| `Senders` | a domain and its parent, an address, one Return-Path, three entities, four keys | `KeysSound`, `StaysAuthorized` |
| `Intake` | two calls, two control calls, one reset or seed, four of all together, two recipients, one sender of inbound mail, rules of two uses and of one that share requests; fairness | `RulesCounted`, `AnswersHold`, `AllAnswered` |

The bounds are small and the interesting cases are in them. Two requests are
enough for one handler to run between the wait and the continuation of another;
the clock's own queue is a third actor. In `Recipients` a second stream is only
another copy, as rows, bounces and messages are keyed by stream, while the same ID
made anew, which matters, needs one ID and the time to purge and create (MaxTime
1 with PurgeDelay 1). Two bounces are a pair for every property that compares
two. In `RecipientsList` both recipients of the message are test addresses: the hard
bounce of the first adds a row, whose webhook is slow, and the bounce of the second waits for it
in the same task. In `Clock`, two works give a task that is due before another that was
scheduled first, and timers of at most 1 with delays of 2 a task without a timer.
Real time goes on once, which fires a timer, ends a hold, and makes the second of two
tasks overdue for an advance that still awaits the first.
In `Delivery`, two inbound retries show a chain in each of its phases (first,
later, exhausted). Nothing in the modelled code counts beyond these
numbers except the lengths of the delay lists, which the proofs leave open.

In `Bulk`, two messages are a first and a last one, and two requests give the clock a
choice and the list a second page. A third is accepted while a client is between
two pages: it shifts the places of the others. With one seed each moment of a
release can be the one that a failed seed goes back to.
`MaxMessages` and `MaxEvents` bound the messages of all requests at three, and
requests, changes of the account, resets and seeds together at four: three requests
leave room for one of the others, two for a change and a seed. In `Tracking`, four reports are a
delivery, an open and a click with one more event of another kind or recipient;
three days are yesterday, today and one that is out of retention; a soft bounce says
that the message did not arrive and a complaint suppresses, a hard bounce does both. In `Templates`, two
templates per server are a layout and its user, four are those of a push to the
other server, and a limit of two is met. In `Senders`, four keys are two
rotations of a domain next to a parent and a signature. In `Intake`, `MaxEvents`
bounds calls, control calls and seeds together at four, which leaves room for a
rule, two calls that compete for it and a reset between them. A rule with two
`times` answers both calls or stands half used when a seed saves it; one with a single use is used up
by the first, and the second call meets the rule behind it or none. Of the SMTP rules the
one of RCPT has two uses, as a mail has two recipients.

### Fairness

`FairSpec` of each module says what the process does by itself: the event loop
starves no continuation that can run, timers fire, a POST ends by an answer or by
its 120 second timeout, real time passes. It is strong fairness in `Recipients`
and `Delivery`, where a continuation waits for its turn and may be disabled for a
while by another handler that holds the thread; the loop's queues are first in
first out, so none waits for ever. What runs for the queue of the clock in `Recipients`, the
next task or the next step of the running one, is one action for fairness. Clients owe nothing, and a manual clock does
not move by itself: `HeldAnswered` speaks of holds that have a timer. Weak fairness is enough in
`Bulk`, where the clock goes on while it has tasks, in `Clock`, where a
step that can run stays so, and in `Intake`: some call that can go on does, by its timer, the end of its parsing, the answer to the webhooks of a
bounce, or a client that gives up on a reply that never comes. Calls are finite
and each goes on a finite number of times, so none is left out. `AllAnswered` thus
assumes a clock that moves (a real one, or a manual one that somebody advances), and
nothing of seeds: one that hangs, as a seed may await what it likes, keeps no call waiting.

### What the code contradicts

Two runs expect their property to be violated.

| Run | Statement | What happens |
| --- | --- | --- |
| `RecipientsActivate` | "Every path that removes a row also turns its bounces active." and the throw after it (`transitions.ts:312`) | the inactive bounce is stored before the webhook is awaited and the row after it; an activation in between throws |
| `DeliveryDouble` | "`Scheduled` while a retry waits" (`inbound/deliver.ts:8`) | a bypass at a second server, while the first is posted, leads to two deliveries of one message |

The models show more places where the code does not do what a text says. They
follow the code there, and their properties are stated so that they allow it:

- `Recipients`: a row that is added during the await of a bounce event is overwritten, against
  "adds a Recipient row on the message stream unless one exists" (`transitions.ts:119`);
  and a handler in flight across the purge of its stream adds a row to it, which a
  new stream with the same ID inherits, against "with its suppressions" (`streams.ts:12`).
- `Clock`: an advance that starts during a seed that fails makes the restore throw,
  against "restores state, clock offset and tasks, and answers 400"
  (`CONTROL-API.md:31`): `seeding[s].at = "crashed"` is reachable.
- `Delivery`: bypass and retry refuse an allowed host, against "Webhook targets other
  than loopback" (`README.md:105`), as their runtime object has no egress.
- `Tracking`: after a purge has deleted a bounce, its recipient can be recorded as
  delivered, against "the message never reached the recipient" (`tracking.ts:42`).
- `Templates`: a layout that a template names by its ID has no user for
  `layoutUsers`, so it can be deleted, and a send with the template is then 1101.
- `Bulk`: after a failed seed, the tasks of a request release its messages and count them
  on an object that nobody reads: the restored request stays in Accepted or
  Processing, and a cancel of it does not stop them.

## What is proved

The proofs hold for all values of the constants that satisfy the named
assumptions of each module: any number of streams, addresses, hooks, servers,
requests, any delays, and any bounds.

`RecipientsProofs` rests on `Sound`, which adds to the types: no stream or message
is from later than now (`TimesSound`), a fake-bounce task is due when its message
was sent, before any purge of the message's stream (`TasksSound`), and a frame of
the fake-bounce loop speaks of a message whose stream is still its own, while a
row to add is carried only across a bounce event (`FramesSound`). The properties
of bounces are not inductive without it: a fake bounce is recorded later than its
message is sent and checks nothing, so that it lands on its own stream follows
from the order of the clock's queue, which `TasksSound` states.
It gives `TypeCorrect`, `BouncesStayOnOwnStream`, `SkippedStaySilent`,
`MessagesEndOnce` and `StreamsPurgedOnlyWhenDue`.

Of suppressions it proves `InactiveStaysCovered` with no further assumption, and
under `QuickBounces` (no listener to bounces and complaints really waits)
`BouncesMatchRows` and the refinement `RowsImplementList`. The assumption is
needed: with slow bounce events, the run `RecipientsActivate` shows how rows and
bounces come apart.

`ClockProofs` uses two invariants, and for the refinement adds to the second.
`Chained` describes the promise queue: every job waits for the one enqueued just before it, none starts before all earlier ones
are over, and while a caller of `idle` has not resumed, every job enqueued after
its call still waits, which is why no advance runs when it does resume. It gives
`JobsOneAtATime` and `IdleResetsAreSafe`. `Sound` describes the tasks, those on
the clock and those in a checkpoint: at most one object per work, a work that ran
has none, every hold has one, and on a manual clock none is overdue. It gives
`TasksRunOnce`, `HoldsKeepTasks` and `ManualNeverOverdue`; the part about
checkpoints is what lets the three survive a restore. `ManualNeverOverdue`
and `TimeMovesForward` (which needs the types only) have no place of their own in a
run, as `AgendaSpec` includes what they say. `AgendaRefined` shows the clock to implement `Agenda`: what an
advance, a timer, a reset or a restore does is for those who schedule a run of one
work that is due, a pass of time, a drop or a restore of all. That no timer runs its
task early needs `TimersSound` (an armed timer fires when the clock shows the due
instant or later, since the offset only grows while the task is there and a restore
sets the timers anew), and the order of works that are due at one instant needs
`SeqsSound` (no task, on the clock or saved, has a number still to be given).

`DeliveryProofs`: `Sound` says that trace IDs are new, that a handler that awaits
a POST awaits one of its own, and that one at the head of its loop has an item.
`AttemptsKeepSchedule` needs `LogSound` too: the rows of an event that goes on
announced a retry at or before the instant when its next attempt is due or was
started. Under `OneServerMail` (a mail reaches one server), `StatusSound` adds that
a handler about to post a message holds the thread, that the message is in no
delivery, and that nothing is left to do after it; it gives `StatusFollows` and
the refinement `StatusesImplement`. The run `DeliveryDouble` is why the
assumption is there.

`SendersProofs`: `KeysSound` alone is not inductive, as a rotation could take a key that is
already active; `Sound` adds that no key of a domain or signature is newer than the last one made, and that
entities have the IDs given so far, so that a new one replaces none. One lemma per
operator of `authentication.ts` shows that it keeps the keys in order, one per table that
another authentication in one place keeps the table sound; the step theorem
combines them action by action. It gives `KeysAlwaysSound`. `AuthorizedStays` shows
that each step keeps what allows an address (`Keeps`): names, addresses,
verified keys and confirmed signatures.

`BulkProofs`: types alone do not give the refinement of `BulkLife`. `Sound` adds that every
object is of an accepted request (`KnownIds`), which makes a newly accepted one the only
object of its ID, and that each task has its object (`TasksKnown`), both also for what
a running seed saved. What is shown of a request depends on one object only, the one in
the table that has no clone (`LiveIn`), so a step that sets one object moves at most one
request (`OneMoves`), and after a failed seed every object of the table has an older
one of the same request, so all are gone (`SeedFailsMoves`). It gives `TypeCorrect` and
`LifeRefined`.

The counters need more: `CountsHold` says that of a request that is released message by
message the uncounted jobs are exactly its tasks on the clock, due in the order of the jobs, that
the released ones are its stored messages, and that a cancelled or lost request has
none left; `MessagesKnown` that no message is of a request yet to come. A step of the clock
runs the task that is due first, so it counts the next job (`FirstStep`,
`RunCounts`); all other steps change no request that has tasks but to add, cancel or
abandon it. That gives `CountersAlwaysMatch`. For the list, `ListHolds` adds to
`ListingComplete` that the IDs of a table grow from row to row, that a reset leaves a saved
table which agrees with what the client has read, and that a page begins after a row that
is there or was deleted; it gives `ListingAlwaysComplete`.

`TrackingProofs`: each handler appends to several sequences at once. `Grows` says what one step
appends to each, all of one message and recipient, and the records of a recipient are index sets
that can only gain the new positions (`WhereKept`, `WhereMore`). `FirstsAgree` is inductive
with `KnownMessages`: records speak of messages that were sent, so a new message starts
with none. `Story` adds three parts to `StoryHolds`: a hook was told of each delivery
(`DeliveryTold`), while the stream of a message lives the bounces that its events tell of
are stored (`BouncesKept`; only a purge deletes them, and they are what refuses a
delivery), and nothing is sent on a stream that is gone (`StreamSound`). For the client
that pages, `PlaceStays` shows that the place of an item in a list never gets smaller while
it is retained: what is recorded goes before it or after it, and what leaves the list is older.

That the counts add up, over facts, events and posts of any number, is `OverviewAlwaysAdds`.
A count is the size of a set of places of a sequence (`Count`), which an appended sequence
makes larger by its own count (`CountAdds`, `EventsInMore`), so `CountsAgree` is inductive
as soon as what each handler appends is `Balanced`: as many first opens as events that show
one, as many bounces as posts that tell one, and so on. That no number of firsts exceeds what was
tracked needs two more parts: `FactsSound` (an open or a click is of a message that tracks it
and of one of its recipients) and `SentFor` (the facts of sends are one for each recipient of
each message, and no others); the first opens then go one to one into the facts of sends, and the first
clicks into pairs of such a fact and a tracked link. A sum over the days or the keys of an answer counts the
elements of a set in parts (`SumCounts`): of the sets for which it would not, one has
no smaller one, which is where the fold of the library and the cardinality are compared.
All five theorems follow from `Soundness`.

`IntakeProofs`: `Sound` adds three things to the types. Rules (`LatenciesSound`,
`FaultsSound`): a request names its rule by place and by the epoch that the rule was in,
the place is in the list of that epoch, and the list only grows in it, so that a new rule has
been taken by no one; a new epoch starts with rules that no request has met
(`RulesAfresh`). Calls (`CallSound`): one that has not been served has stored nothing,
neither in the state nor in what a running seed saved of it, which is why a restored state
is right about calls that were answered by another; and a mail whose bounces are under way is sent to, bounced
for or has left each of its recipients, and only one of the three (`MailSound`). Epochs (`EpochSound`): a seed
replaces the state twice at most. `ServeSound` carries the end of a request, with `ItemsAre` for a batch:
the results of the valid drafts, taken in their order, are each that of its own draft, as the rank of a draft among
the valid ones tells it (`RankTells`). The other lemmas go action by action, through
three shapes of a step: of one call (`OneCall`), beside the calls (`AsideSound`), to a new
epoch (`NewEpoch`). They give `TypeCorrect`, `RulesAlwaysCounted` and `AnswersAlwaysHold`.

`TemplatesProofs`: `Sound` splits `TemplatesUsable` into its parts and adds that IDs are those given so
far, so that a new server owns no template and a new template replaces none. Both theorems
assume `NoCases`: no two aliases differ in case only, as a push compares without case what
the rest of the code compares as it is. Under it a source has one target at most
(`TargetByAlias`); `Pushed` says what the table is after a push, with the new IDs
numbered by `Rank`, and `Mirrored` that each source then has its like at
the destination. A layout that a pushed template names is thus there too, which gives
`TemplatesStayUsable`, and a second push finds nothing to do, which gives
`PushesConverge`. That a generated alias is always free is the pigeonhole
principle (`GeneratedTyped`).

Only model-checked: the liveness properties (liveness under fairness and ENABLED
are out of the prover's reach) and the violated statements. Every invariant, action
property and refinement that a run checks has a theorem. Where an
argument would go by induction over a sequence or a set, a least element does instead (`LeastNat`
of `BulkProofs`, `LeastOfFinite` of `TemplatesProofs`, `SumCounts` of `TrackingProofs`): the first row of
a request, the task that is due first, the first alias that is free, the smallest set that
is summed up wrong. No module has a RECURSIVE definition.

## What is not modelled

Contents: addresses, headers, bodies, payloads, the text of templates and errors are
model values or left out: the Mustachio renderer, MIME in both directions, `errors.ts`,
`time.ts`, `http/normalize.ts`, `webhooks/payloads.ts` and the validation of each field
are string processing with no state, and tables. They are more than a quarter of
the source. Reads that change nothing, but for the two lists whose paging races
with writes. Validation of requests is in a guard where it decides a state change
that a property is about, and left out where it only refuses. IDs and their
counters: in most modules entities have their names from the start, so that two
entities never share an ID, also across a reset, which the code does allow for
numbers of bounces and hooks. Layouts that are named by ID and aliases that differ
in case are in `Templates` but not in its instance, for the reasons above. Delivery abstracts
from the hosts in a redirect chain: the outcome of the whole chain is the
outcome of the POST. Data removals are rows that nothing reads. The control
application and the dispatch of plugins are in the actions that they call.
