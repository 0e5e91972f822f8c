--------------------------------- MODULE Bulk ---------------------------------
(***************************************************************************)
(* Bulk requests (src/api/bulk, src/control/endpoints/bulk.ts).  A request *)
(* is accepted or refused as a whole; then tasks on the clock release its  *)
(* messages one by one, each against the state of that moment.             *)
(*                                                                         *)
(* A task holds the object of its request.  The state that a failed seed   *)
(* puts back is a clone (src/control/seeding.ts), so from then on the      *)
(* tasks, which are put back too, change objects that no call can see:     *)
(* objects are numbered, and `table` says which object a request ID names. *)
(***************************************************************************)
EXTENDS Pipeline, Sequences, FiniteSets, SequencesExt

CONSTANTS
  Submissions,  \* contents of bulk requests: sequences of jobs
  StartDelay,   \* BULK_START_MS
  StepDelay,    \* BULK_STEP_MS
  PageSizes,    \* counts that a client of the list asks for
  MaxRequests,  \* bound: requests accepted
  MaxMessages,  \* bound: messages in them
  MaxChanges,   \* bound: changes of the account by others
  MaxSeeds,     \* bound: resets and seeds
  MaxEvents     \* bound: requests, changes, resets and seeds together

ASSUME BulkAssumption ==
  /\ Submissions \subseteq Seq([draft: Draft, renders: BOOLEAN]) \ {<<>>}
  /\ StartDelay \in Nat /\ StepDelay \in Nat \ {0}
  /\ PageSizes \subseteq Nat \ {0}
  /\ MaxRequests \in Nat /\ MaxMessages \in Nat
  /\ MaxChanges \in Nat /\ MaxSeeds \in Nat /\ MaxEvents \in Nat

VARIABLES
  now,       \* what the clock shows
  tasks,     \* its pending tasks
  world,     \* what the checks of a send read
  contents,  \* request ID -> its jobs
  objs,      \* every BulkRequest object ever made
  table,     \* the requests of the state: a sequence of objects, oldest first
  outbound,  \* the stored messages of bulk requests, oldest first
  seeding,   \* what a running seed saved
  reader,    \* a client that lists all requests page by page
  changes, seeds

storeVars == <<table, outbound, world>>
counters == <<changes, seeds>>
vars == <<now, tasks, contents, objs, storeVars, seeding, reader, counters>>

Ids == 1..Len(contents)
Object == [id: Nat, status: {"Accepted", "Processing", "Completed", "Cancelled"},
           released: Nat, failed: Nat, stopped: BOOLEAN]
\* Step 0 starts the request, step i releases its message i.
Task == [obj: Nat, step: Nat, due: Nat]
Stored == [id: Nat, job: Nat]

NoSeed == [on |-> FALSE]
Idle == [on |-> FALSE]
Saved == [on: {TRUE}, reset: BOOLEAN, now: Nat, tasks: SUBSET Task, world: World,
          table: Seq(Object), outbound: Seq(Stored)]
\* The client got the key of its next page.
Reader == [on: {TRUE}, key: Nat, seen: Seq(Nat), first: SUBSET Nat]

TypeOK ==
  /\ now \in Nat
  /\ tasks \subseteq Task
  /\ world \in World
  /\ contents \in Seq(Submissions)
  /\ objs \in Seq(Object)
  /\ table \in Seq(DOMAIN objs)
  /\ outbound \in Seq(Stored)
  /\ seeding \in Saved \union {NoSeed}
  /\ reader \in Reader \union {Idle}
  /\ changes \in 0..MaxChanges
  /\ seeds \in 0..MaxSeeds

Total(id) == Len(contents[id])
\* The place of a request in the table, 0 when it has none.
RowOf(id) == SelectInSeq(table, LAMBDA o : objs[o].id = id)

\* The bounds that the messages, and that the events of a run, share.
Submitted == UNION {{id} \X DOMAIN contents[id] : id \in Ids}
MoreEvents == Len(contents) + changes + seeds < MaxEvents

Set(o, new) == objs' = [objs EXCEPT ![o] = new]

-----------------------------------------------------------------------------
(***************************************************************************)
(* POST /email/bulk.  A message that fails to render is checked with the   *)
(* source of its content, so a render failure refuses nothing.             *)
(***************************************************************************)
Refused(jobs) ==
  \/ world.stream = "none"
  \/ \E i \in DOMAIN jobs : Validate(world, jobs[i].draft) # Ok

\* A slip: the delays of the messages do not count from the start.
DueWithoutStart(step) == now + IF step = 0 THEN StartDelay ELSE step * StepDelay
DueOf(step) == now + StartDelay + step * StepDelay

Accept(jobs) ==
  /\ Len(contents) < MaxRequests /\ MoreEvents
  /\ Cardinality(Submitted) + Len(jobs) <= MaxMessages
  /\ ~ Refused(jobs)
  /\ LET id == Len(contents) + 1
         o == Len(objs) + 1
     IN  /\ contents' = Append(contents, jobs)
         /\ objs' = Append(objs, [id |-> id, status |-> "Accepted", released |-> 0,
                                  failed |-> 0, stopped |-> FALSE])
         /\ table' = Append(table, o)
         /\ tasks' = tasks \union {[obj |-> o, step |-> i, due |-> DueOf(i)] : i \in 0..Len(jobs)}
  /\ UNCHANGED <<now, outbound, world, seeding, reader, counters>>

(***************************************************************************)
(* The clock runs the task that is due first, the one scheduled first      *)
(* among equals: objects are numbered in the order of their scheduling.    *)
(***************************************************************************)
Before(s, t) ==
  \/ s.due < t.due
  \/ s.due = t.due /\ (s.obj < t.obj \/ (s.obj = t.obj /\ s.step < t.step))
DueFirst(t) == t \in tasks /\ \A s \in tasks \ {t} : Before(t, s)

Run(t) ==
  /\ DueFirst(t)
  /\ tasks' = tasks \ {t}
  /\ now' = IF now < t.due THEN t.due ELSE now
  /\ UNCHANGED <<contents, table, world, seeding, reader, counters>>

\* A slip: the start does not look at the status.
StartAlways(b) == TRUE
MayStart(b) == b.status = "Accepted"

Start(t) ==
  LET b == objs[t.obj]
  IN  /\ t.step = 0
      /\ Run(t)
      /\ Set(t.obj, IF MayStart(b) THEN [b EXCEPT !.status = "Processing"] ELSE b)
      /\ UNCHANGED outbound

Goes(b) == b.status = "Processing" /\ ~ b.stopped

\* A slip: the failures do not count towards the end.
FinishedReleased(b) == b.released = Total(b.id)
Finished(b) == b.released + b.failed = Total(b.id)
\* A slip: a status that the API does not know.
CountedMisnamed(b) == IF Finished(b) THEN [b EXCEPT !.status = "Done"] ELSE b
Counted(b) == IF Finished(b) THEN [b EXCEPT !.status = "Completed"] ELSE b

ReleaseTask(t) == t.step # 0 /\ Run(t)

\* A task of a request that is cancelled, done or stopped does nothing.
Skip(t) ==
  /\ ~ Goes(objs[t.obj])
  /\ ReleaseTask(t)
  /\ UNCHANGED <<objs, outbound>>

\* What `release` answers: 0 when the message is stored.
Outcome(job) == IF job.renders THEN Submit(world, job.draft) ELSE 422

Release(t) ==
  LET b == objs[t.obj]
      outcome == Outcome(contents[b.id][t.step])
  IN  /\ Goes(b)
      /\ ReleaseTask(t)
      /\ \/ /\ outcome = Ok
            /\ outbound' = Append(outbound, [id |-> b.id, job |-> t.step])
            /\ Set(t.obj, Counted([b EXCEPT !.released = @ + 1]))
         \/ /\ outcome \notin {Ok, Uncaptured}
            /\ Set(t.obj, Counted([b EXCEPT !.failed = @ + 1]))
            /\ UNCHANGED outbound
         \/ /\ outcome = Uncaptured
            /\ Set(t.obj, [b EXCEPT !.stopped = TRUE])
            /\ UNCHANGED outbound

\* POST /control/bulk/:id/cancel
Cancellable(b) == b.status \in {"Accepted", "Processing"}
Cancel(id) ==
  /\ RowOf(id) # 0
  /\ LET o == table[RowOf(id)]
     IN  /\ Cancellable(objs[o])
         /\ Set(o, [objs[o] EXCEPT !.status = "Cancelled"])
  /\ UNCHANGED <<now, tasks, contents, storeVars, seeding, reader, counters>>

-----------------------------------------------------------------------------
(***************************************************************************)
(* The others: the account changes between accept and release, and seeds   *)
(* come with or without a reset.                                           *)
(***************************************************************************)
ChangeWorld ==
  /\ changes < MaxChanges /\ MoreEvents
  /\ changes' = changes + 1
  /\ world' \in Changed(world)
  /\ UNCHANGED <<now, tasks, contents, objs, table, outbound, seeding, reader, seeds>>

\* The server goes, and what it owns.
DeleteServer ==
  /\ changes < MaxChanges /\ MoreEvents
  /\ world.stream # "none"
  /\ changes' = changes + 1
  /\ world' = [world EXCEPT !.stream = "none"]
  /\ table' = <<>> /\ outbound' = <<>>
  /\ UNCHANGED <<now, tasks, contents, objs, seeding, reader, seeds>>

Seed(reset) ==
  /\ ~ seeding.on
  /\ seeds < MaxSeeds /\ MoreEvents
  /\ seeds' = seeds + 1
  /\ seeding' = [on |-> TRUE, reset |-> reset, now |-> now, tasks |-> tasks, world |-> world,
                 table |-> [i \in DOMAIN table |-> objs[table[i]]], outbound |-> outbound]
  /\ IF reset
     THEN /\ now' = 0 /\ tasks' = {}
          /\ table' = <<>> /\ outbound' = <<>> /\ world' = EmptyWorld
     ELSE UNCHANGED <<now, tasks, storeVars>>
  /\ UNCHANGED <<contents, objs, reader, changes>>

Seeded ==
  /\ seeding.on
  /\ seeding' = NoSeed
  /\ world' = IF seeding.reset THEN FreshWorld ELSE world
  /\ UNCHANGED <<now, tasks, contents, objs, table, outbound, reader, counters>>

\* The clone of the state comes back, with new objects, and the tasks with the old ones.
SeedFails ==
  /\ seeding.on
  /\ seeding' = NoSeed
  /\ now' = seeding.now /\ tasks' = seeding.tasks
  /\ world' = seeding.world /\ outbound' = seeding.outbound
  /\ objs' = objs \o seeding.table
  /\ table' = [i \in DOMAIN seeding.table |-> Len(objs) + i]
  /\ UNCHANGED <<contents, reader, counters>>

-----------------------------------------------------------------------------
(***************************************************************************)
(* GET /email/bulk: the newest first; the key of the next page names its   *)
(* first request.  A key that names no request answers error 13.           *)
(***************************************************************************)
Listed == [i \in DOMAIN table |-> objs[table[Len(table) + 1 - i]].id]

\* A slip: the next page starts behind as many requests as the client has seen.
PlaceByOffset(id) == IF id \in ToSet(Listed) THEN Len(reader.seen) + 1 ELSE 0
PlaceOf(id) == SelectInSeq(Listed, LAMBDA other : other = id)

ReadPage(count) ==
  LET start == IF reader.on THEN PlaceOf(reader.key) ELSE 1
      page == SubSeq(Listed, start, Min({start + count - 1, Len(Listed)}))
      next == start + count
  IN  /\ reader' =
           IF start = 0 \/ next > Len(Listed) THEN Idle
           ELSE [on |-> TRUE, key |-> Listed[next],
                 seen |-> IF reader.on THEN reader.seen \o page ELSE page,
                 first |-> IF reader.on THEN reader.first ELSE ToSet(Listed)]
      /\ UNCHANGED <<now, tasks, contents, objs, storeVars, seeding, counters>>

-----------------------------------------------------------------------------
Init ==
  /\ now = 0 /\ tasks = {}
  /\ world = FreshWorld
  /\ contents = <<>> /\ objs = <<>> /\ table = <<>> /\ outbound = <<>>
  /\ seeding = NoSeed /\ reader = Idle
  /\ changes = 0 /\ seeds = 0

ClockStep == \E t \in tasks : Start(t) \/ Skip(t) \/ Release(t)

Next ==
  \/ \E jobs \in Submissions : Accept(jobs)
  \/ ClockStep
  \/ \E id \in Ids : Cancel(id)
  \/ ChangeWorld
  \/ DeleteServer
  \/ \E reset \in BOOLEAN : Seed(reset)
  \/ Seeded
  \/ SeedFails
  \/ \E count \in PageSizes : ReadPage(count)

\* Timers of a real clock fire; a manual clock has to be advanced to its tasks.
Spec == Init /\ [][Next]_vars /\ WF_vars(ClockStep)

-----------------------------------------------------------------------------
(***************************************************************************)
(* Properties.                                                             *)
(***************************************************************************)
\* No seed has put a clone in the place of the object.
Original(o) == \A p \in DOMAIN objs : objs[p].id = objs[o].id => p = o

\* Where the messages of a request are stored.
MessagesOf(id) == {m \in DOMAIN outbound : outbound[m].id = id}
Ended(b) == b.released + b.failed = Total(b.id)

\* The counters a client sees agree with the messages stored for the request,
\* which are those of its jobs in their order and none twice, and with the
\* tasks that still wait for it; it is Completed when all its jobs were counted
\* (scheduleBulk), whatever changed between accept and release.
CountersMatch ==
  \A i \in DOMAIN table :
    LET o == table[i]
        b == objs[o]
        sent == MessagesOf(b.id)
        waiting == {t \in tasks : t.obj = o /\ t.step # 0}
    IN  Original(o) =>
          /\ Cardinality(sent) = b.released
          /\ \A m, n \in sent : m < n => outbound[m].job < outbound[n].job
          /\ b.status \in {"Accepted", "Processing"} /\ ~ b.stopped =>
                b.released + b.failed + Cardinality(waiting) = Total(b.id)
          /\ b.status = "Completed" <=> Ended(b)

\* A client that follows the keys of GET /email/bulk sees each request there
\* was at its first page once, the newest first: those it has seen, and those
\* from its key on, though others are accepted meanwhile and a seed comes and
\* fails.  A key that a reset or a deletion took is refused.
ListingComplete ==
  LET all == reader.seen \o SubSeq(Listed, PlaceOf(reader.key), Len(Listed))
  IN  reader.on /\ PlaceOf(reader.key) # 0 =>
        /\ ToSet(all) = reader.first
        /\ \A i, j \in DOMAIN all : i < j => all[i] > all[j]

\* The object under the ID, unless it is lost or a clone: at most one.
Live(id) == {o \in ToSet(table) : objs[o].id = id /\ Original(o)}

View(b, total) ==
  [status |-> b.status, total |-> total, released |-> b.released, failed |-> b.failed,
   stopped |-> b.stopped]
Unseen(status) ==
  [status |-> status, total |-> 0, released |-> 0, failed |-> 0, stopped |-> FALSE]

\* What the API shows of each request that has not been lost or cloned.
Shown ==
  [id \in 1..MaxRequests |->
     IF id > Len(contents) THEN Unseen("none")
     ELSE IF Live(id) = {} THEN Unseen("gone")
     ELSE CHOOSE v \in {View(objs[o], Total(id)) : o \in Live(id)} : TRUE]

Promise == INSTANCE BulkLife WITH Ids <- 1..MaxRequests,
                                  Sizes <- {Len(jobs) : jobs \in Submissions},
                                  life <- Shown

\* Each request goes through the life that the bulk API promises: from Accepted
\* to Processing, one message at a time to Completed, and no further once it is
\* cancelled or stopped.
LifeSpec == Promise!Spec

\* A request that nobody cancels, whose sends stay within what the code
\* captures, and that no reset, deletion or seed takes away, completes.
Completes ==
  \A id \in 1..MaxRequests :
    Shown[id].status = "Accepted" ~>
      \/ Shown[id].status \in {"Completed", "Cancelled", "gone"}
      \/ Shown[id].stopped
=============================================================================
