-------------------------------- MODULE Clock --------------------------------
(***************************************************************************)
(* The clock of postmock (src/state/clock.ts) and those who reset it: the  *)
(* control API's reset and seed calls and the shutdown of the server       *)
(* (src/control/seeding.ts, src/server.ts).                                *)
(*                                                                         *)
(* A real clock is real time plus an offset that advances grow, and runs   *)
(* its tasks from timers and from advances; a manual clock stands still    *)
(* and only advances move it.  Advances and the takes of fired timers are  *)
(* jobs, each chained to the promise of the one before it.  A task may     *)
(* wait for a webhook, so everything else happens while a job runs.  A     *)
(* seed also waits, for the import of its module at least.                 *)
(***************************************************************************)
EXTENDS Integers, Sequences, FiniteSets, Functions

CONSTANTS
  Modes,      \* modes a clock may be started in
  Works,      \* closures that may be put on the clock
  Held,       \* those that release a held request
  NoWork,     \* no closure runs
  Delays,     \* delays that callers ask for
  Amounts,    \* amounts of the advances
  MaxTimer,   \* the longest delay of a timer
  Seeders,    \* concurrent callers that reset the clock
  MaxReal,    \* bound: real time stops here
  MaxJobs,    \* bound: advances stop after this many jobs
  MaxResets   \* bound: resets of the clock

ASSUME ClockAssumption ==
  /\ Modes \subseteq {"real", "manual"}
  /\ Held \subseteq Works
  /\ NoWork \notin Works
  /\ Delays \subseteq Nat
  /\ Amounts \subseteq Nat
  /\ MaxTimer \in Nat
  /\ MaxReal \in Nat
  /\ MaxJobs \in Nat
  /\ MaxResets \in Nat

VARIABLES
  mode,       \* fixed when the clock is made
  real,       \* real time
  offset,     \* what a real clock adds to it
  stands,     \* the instant a manual clock stands at
  nextSeq,    \* the number of the next scheduled task
  resets,     \* how often the clock was reset
  tasks,      \* pending tasks
  fired,      \* tasks whose timer has fired
  jobs,       \* every job ever enqueued, in order
  last,       \* the job whose promise the next one is chained to; 0 at the start
  holds,      \* works of held requests that were not released
  seeding,    \* caller of a reset or seed -> where it waits
  runs        \* how often a work ran since it was put on the clock

timeVars == <<real, offset, stands>>
taskVars == <<nextSeq, resets, tasks, fired, holds, runs>>
vars == <<mode, timeVars, taskVars, jobs, last, seeding>>

(***************************************************************************)
(* A task object.  `made` tells the objects of a restore from the ones     *)
(* they copy; an armed task has a timer that fires at a real instant.      *)
(***************************************************************************)
Task == [work: Works, due: Nat, seq: Nat, made: Nat, armed: BOOLEAN, fires: Nat]

Status == {"waiting", "running", "done", "failed"}
Job == [kind: {"advance"}, ms: Nat, target: Nat, after: Nat, status: Status,
        work: Works \union {NoWork}]
         \union
       [kind: {"take"}, task: Task, after: Nat, status: Status,
        work: Works \union {NoWork}]

Checkpoint == [offset: Nat, stands: Nat, tasks: SUBSET Task]
ResetOps == {"reset", "seed", "close"}
Seeding == [at: {"idle"}, op: ResetOps, on: Nat]
             \union [at: {"applying"}, saved: Checkpoint]
             \union [at: {"crashed"}, first: BOOLEAN]

TypeOK ==
  /\ mode \in Modes
  /\ real \in Nat /\ offset \in Nat /\ stands \in Nat
  /\ nextSeq \in Nat /\ resets \in Nat
  /\ tasks \subseteq Task
  /\ fired \subseteq Task
  /\ jobs \in Seq(Job)
  /\ last \in Nat
  /\ holds \subseteq Held
  /\ DOMAIN seeding \subseteq Seeders /\ seeding \in [DOMAIN seeding -> Seeding]
  /\ runs \in [Works -> Nat]

-----------------------------------------------------------------------------
\* The larger of two instants.
Later(a, b) == IF a < b THEN b ELSE a

\* A slip: the offset is taken off real time.
OffsetOff == IF mode = "manual" THEN stands ELSE real - offset
Now == IF mode = "manual" THEN stands ELSE real + offset

\* Time never moves back.
MoveTarget(instant) == Later(Now, instant)

MoveTo(instant) ==
  LET target == MoveTarget(instant)
  IN  IF mode = "manual"
      THEN stands' = target /\ UNCHANGED <<real, offset>>
      ELSE offset' = target - real /\ UNCHANGED <<real, stands>>

(***************************************************************************)
(* A timer that is set for a delay: setTimeout fires at once when the      *)
(* delay is beyond what it takes, so such a task gets no timer.            *)
(***************************************************************************)
TimerAt(delay) == IF delay <= MaxTimer THEN real + Later(0, delay) ELSE real

\* A slip: every task of a real clock gets a timer.
AlwaysArmed(delay) == mode = "real"
Armed(delay) == mode = "real" /\ delay <= MaxTimer

\* A task object as `add` makes it when the clock shows `now`.
NewTask(work, due, seq, made, now) ==
  LET armed == Armed(due - now)
  IN  [work |-> work, due |-> due, seq |-> seq, made |-> made,
       armed |-> armed, fires |-> IF armed THEN TimerAt(due - now) ELSE 0]

-----------------------------------------------------------------------------
(***************************************************************************)
(* The chain of jobs.                                                      *)
(***************************************************************************)
Running(j) == jobs[j].status = "running"
Advancing == \E j \in DOMAIN jobs : jobs[j].kind = "advance" /\ Running(j)

\* A slip: an error of a task breaks the chain of the jobs after it.
SettledByDone(j) == j # 0 => jobs[j].status = "done"
\* The promise of a job in the chain is settled, whether or not its task threw.
Settled(j) == j # 0 => jobs[j].status \in {"done", "failed"}

\* A slip: the queue is not moved on to the new job.
SameLast == last
NewLast == Len(jobs) + 1

Enqueue(job) ==
  /\ jobs' = Append(jobs, job)
  /\ last' = NewLast

\* `schedule`, and `hold` for the work of a held request.
Schedule(work, delay) ==
  /\ runs[work] = 0
  /\ \A t \in tasks : t.work # work
  /\ tasks' = tasks \union {NewTask(work, Now + delay, nextSeq, resets, Now)}
  /\ nextSeq' = nextSeq + 1
  /\ holds' = holds \union ({work} \intersect Held)
  /\ UNCHANGED <<mode, timeVars, resets, fired, jobs, last, seeding, runs>>

\* `advance`; its target is computed when the job starts.
Advance(ms) ==
  /\ Len(jobs) < MaxJobs
  /\ Enqueue([kind |-> "advance", ms |-> ms, target |-> 0, after |-> last,
              status |-> "waiting", work |-> NoWork])
  /\ UNCHANGED <<mode, timeVars, taskVars, seeding>>

\* The timer of a task fires, at its real instant or later.
Fire(t) ==
  /\ t \in tasks \ fired
  /\ t.armed
  /\ t.fires <= real
  /\ fired' = fired \union {t}
  /\ Enqueue([kind |-> "take", task |-> t, after |-> last, status |-> "waiting",
              work |-> NoWork])
  /\ UNCHANGED <<mode, timeVars, nextSeq, resets, tasks, holds, runs, seeding>>

\* A slip: a task runs although someone else has taken it.
AlwaysClaimed(t) == TRUE
\* Whoever deletes the task from the set runs it.
Claimed(t) == t \in tasks

\* The task leaves the set and its work begins; a hold is released at once.
BeginRun(t) ==
  /\ tasks' = tasks \ {t}
  /\ fired' = fired \ {t}
  /\ runs' = [runs EXCEPT ![t.work] = @ + 1]
  /\ holds' = holds \ {t.work}
  /\ UNCHANGED <<nextSeq, resets>>

(***************************************************************************)
(* A job starts when the one before it has settled.  A caller of `idle`    *)
(* that awaits the same promise registered earlier, so it goes first.      *)
(***************************************************************************)
MayStart(j) ==
  /\ jobs[j].status = "waiting"
  /\ Settled(jobs[j].after)
  /\ \A s \in DOMAIN seeding :
       seeding[s].at = "idle" => seeding[s].on # jobs[j].after

StartAdvance(j) ==
  /\ MayStart(j)
  /\ jobs[j].kind = "advance"
  /\ jobs' = [jobs EXCEPT ![j].status = "running", ![j].target = Now + jobs[j].ms]
  /\ UNCHANGED <<mode, timeVars, taskVars, last, seeding>>

StartTake(j) ==
  /\ MayStart(j)
  /\ jobs[j].kind = "take"
  /\ LET t == jobs[j].task
     IN  IF Claimed(t)
         THEN /\ jobs' = [jobs EXCEPT ![j].status = "running", ![j].work = t.work]
              /\ BeginRun(t)
         ELSE /\ jobs' = [jobs EXCEPT ![j].status = "done"]
              /\ UNCHANGED taskVars
  /\ UNCHANGED <<mode, timeVars, last, seeding>>

\* A slip: the tasks of an advance run in the order they were scheduled.
BySeq(t, u) == t.seq <= u.seq
ByDue(t, u) == t.due < u.due \/ (t.due = u.due /\ t.seq <= u.seq)

\* One round of the loop of an advance: the next task that is due, or the end.
AdvanceStep(j) ==
  LET dueTasks == {t \in tasks : t.due <= jobs[j].target}
  IN  /\ Running(j)
      /\ jobs[j].kind = "advance"
      /\ jobs[j].work = NoWork
      /\ \/ /\ dueTasks = {}
            /\ MoveTo(jobs[j].target)
            /\ jobs' = [jobs EXCEPT ![j].status = "done"]
            /\ UNCHANGED taskVars
         \/ \E t \in dueTasks :
              /\ \A u \in dueTasks : ByDue(t, u)
              /\ MoveTo(t.due)
              /\ BeginRun(t)
              /\ jobs' = [jobs EXCEPT ![j].work = t.work]
      /\ UNCHANGED <<mode, last, seeding>>

\* The work that a job awaits is over.
RunOver(j) ==
  /\ Running(j)
  /\ jobs[j].work # NoWork
  /\ \/ /\ jobs[j].kind = "take"
        /\ jobs' = [jobs EXCEPT ![j].work = NoWork, ![j].status = "done"]
     \/ /\ jobs[j].kind = "advance"
        /\ jobs' = [jobs EXCEPT ![j].work = NoWork]
  /\ UNCHANGED <<mode, timeVars, taskVars, last, seeding>>

\* It throws: the advance ends where it stands and its caller gets the error.
\* On a timer the error ends the process, and with it the model.
RunThrows(j) ==
  /\ Running(j)
  /\ jobs[j].kind = "advance"
  /\ jobs[j].work # NoWork
  /\ jobs' = [jobs EXCEPT ![j].work = NoWork, ![j].status = "failed"]
  /\ UNCHANGED <<mode, timeVars, taskVars, last, seeding>>

RealTick ==
  /\ real < MaxReal
  /\ real' = real + 1
  /\ UNCHANGED <<mode, offset, stands, taskVars, jobs, last, seeding>>

-----------------------------------------------------------------------------
(***************************************************************************)
(* Resets.                                                                 *)
(***************************************************************************)

\* A slip: the requests that wait on the clock are forgotten.
KeptHolds == holds
\* Every hold is released.
ReleasedHolds == {}

\* `reset`, up to the tasks and the time that it, or a restore, puts in place.
ResetTo(newTasks, newOffset, newStands) ==
  /\ tasks' = newTasks
  /\ fired' = {}
  /\ holds' = ReleasedHolds
  /\ resets' = resets + 1
  /\ offset' = newOffset
  /\ stands' = newStands
  /\ UNCHANGED <<real, nextSeq>>

Reset ==
  /\ ResetTo({}, 0, IF mode = "manual" THEN real ELSE stands)
  /\ UNCHANGED runs

\* The function that `checkpoint` returns, which resets the clock first.
Restore(saved) ==
  LET now == IF mode = "manual" THEN saved.stands ELSE real + saved.offset
      again == {t.work : t \in saved.tasks}
  IN  /\ ResetTo({NewTask(t.work, t.due, t.seq, resets + 1, now) : t \in saved.tasks},
                 saved.offset, saved.stands)
      /\ runs' = [w \in Works |-> IF w \in again THEN 0 ELSE runs[w]]

Waits(s, frame) ==
  seeding' = [x \in DOMAIN seeding \union {s} |-> IF x = s THEN frame ELSE seeding[x]]
Answers(s) == seeding' = Restrict(seeding, DOMAIN seeding \ {s})

\* A slip: nobody waits for the clock to be idle.
NoIdle == 0
\* The promise that `idle` returns.
Idle == last

\* A reset, a seed or the end of the server is asked for and awaits `idle`.
Call(s, op) ==
  /\ s \notin DOMAIN seeding
  /\ resets < MaxResets
  /\ Waits(s, [at |-> "idle", op |-> op, on |-> Idle])
  /\ UNCHANGED <<mode, timeVars, taskVars, jobs, last>>

\* `reset` throws during an advance.
Crash(s, first) ==
  /\ Advancing
  /\ Waits(s, [at |-> "crashed", first |-> first])
  /\ UNCHANGED <<timeVars, taskVars>>

\* The clock is idle: seedAtomically, or `close`, goes on.
Resume(s) ==
  /\ s \in DOMAIN seeding
  /\ seeding[s].at = "idle"
  /\ Settled(seeding[s].on)
  /\ LET saved == [offset |-> offset, stands |-> stands, tasks |-> tasks]
         op == seeding[s].op
     IN  \/ /\ op = "seed"
            /\ Waits(s, [at |-> "applying", saved |-> saved])
            /\ UNCHANGED <<timeVars, taskVars>>
         \/ op = "reset" /\ ~Advancing /\ Reset /\ Waits(s, [at |-> "applying", saved |-> saved])
         \/ op = "close" /\ ~Advancing /\ Reset /\ Answers(s)
         \/ op # "seed" /\ Crash(s, TRUE)
  /\ UNCHANGED <<mode, jobs, last>>

\* The seed was applied.
Applied(s) ==
  /\ s \in DOMAIN seeding
  /\ seeding[s].at = "applying"
  /\ Answers(s)
  /\ UNCHANGED <<mode, timeVars, taskVars, jobs, last>>

\* The seed failed: the clock is put back, unless an advance runs by now.
ApplyFails(s) ==
  /\ s \in DOMAIN seeding
  /\ seeding[s].at = "applying"
  /\ \/ ~Advancing /\ Restore(seeding[s].saved) /\ Answers(s)
     \/ Crash(s, FALSE)
  /\ UNCHANGED <<mode, jobs, last>>

-----------------------------------------------------------------------------
Init ==
  /\ mode \in Modes
  /\ real = 0 /\ offset = 0 /\ stands = 0
  /\ nextSeq = 0 /\ resets = 0
  /\ tasks = {} /\ fired = {} /\ holds = {}
  /\ jobs = <<>> /\ last = 0
  /\ seeding = [s \in {} |-> 0]
  /\ runs = [w \in Works |-> 0]

JobStep(j) == StartAdvance(j) \/ StartTake(j) \/ AdvanceStep(j) \/ RunOver(j) \/ RunThrows(j)
SeederStep(s) == Resume(s) \/ Applied(s) \/ ApplyFails(s)

Next ==
  \/ \E work \in Works, delay \in Delays : Schedule(work, delay)
  \/ \E ms \in Amounts : Advance(ms)
  \/ \E t \in tasks : Fire(t)
  \/ \E j \in DOMAIN jobs : JobStep(j)
  \/ RealTick
  \/ \E s \in Seeders, op \in ResetOps : Call(s, op)
  \/ \E s \in Seeders : SeederStep(s)

Spec == Init /\ [][Next]_vars

\* Every job is an advance or the take of a task.  A work is scheduled once, and
\* a seed that fails may put back a task whose timer has fired already.
JobIndexes == 1..(MaxJobs + Cardinality(Works) * (MaxResets + 1))

(***************************************************************************)
(* The event loop runs what can run: real time passes, timers fire,        *)
(* settled promises go on, a task's webhook answers or times out, and a    *)
(* seed's import ends.  Nothing makes a client call.                       *)
(***************************************************************************)
Fairness ==
  /\ WF_vars(RealTick)
  /\ WF_vars(\E t \in tasks : Fire(t))
  /\ \A j \in JobIndexes : WF_vars(j \in DOMAIN jobs /\ JobStep(j))
  /\ \A s \in Seeders : WF_vars(SeederStep(s))

FairSpec == Spec /\ Fairness

-----------------------------------------------------------------------------
(***************************************************************************)
(* Properties.                                                             *)
(***************************************************************************)

\* Nothing of the job is left to do, whether or not a task of it threw.
Over(j) == jobs[j].status \in {"done", "failed"}

(***************************************************************************)
(* "Advances and real-timer tasks run one at a time": no job begins before *)
(* every earlier one is over, even when tasks of it throw, timers fire     *)
(* during it and resets come between.                                      *)
(***************************************************************************)
OneAtATime ==
  \A i, j \in DOMAIN jobs : i < j /\ jobs[j].status # "waiting" => Over(i)

(***************************************************************************)
(* A task runs once, though a timer and an advance, or two advances, may   *)
(* both come for it; a restore that puts it back counts as a new task.     *)
(***************************************************************************)
RunOnce ==
  \A w \in Works : runs[w] <= 1 /\ (runs[w] = 1 => \A t \in tasks : t.work # w)

(***************************************************************************)
(* On a manual clock nothing is ever overdue: advances run every task at   *)
(* its own time before the clock passes it, also those that tasks schedule *)
(* and those that a restore puts back.                                     *)
(***************************************************************************)
NothingOverdue == mode = "manual" => \A t \in tasks : Now <= t.due

(***************************************************************************)
(* A held request that waits has its task on the clock, so something can   *)
(* still release it, whatever resets, restores and takes come between.     *)
(***************************************************************************)
HoldsHaveTasks == \A h \in holds : \E t \in tasks : t.work = h

(***************************************************************************)
(* `reset` never finds an advance that runs when its caller awaited `idle` *)
(* first, although advances may have queued up in between.                 *)
(***************************************************************************)
ResetsWhenIdle == \A s \in DOMAIN seeding : seeding[s].at = "crashed" => ~seeding[s].first

\* Time never moves back but by a reset.
TimeNeverBack == [][Now <= Now' \/ resets # resets']_vars

(***************************************************************************)
(* What those who schedule rely on, whatever timers, advances, resets and  *)
(* failed seeds come between: no task runs before it is due or twice, and  *)
(* a manual clock runs all in order and passes none by (class Clock and    *)
(* its comments).                                                          *)
(***************************************************************************)
Pending(ts) == {[work |-> t.work, due |-> t.due, seq |-> t.seq] : t \in ts}
Applying == {s \in DOMAIN seeding : seeding[s].at = "applying"}
Promised == INSTANCE Agenda WITH
  manual <- mode = "manual", now <- Now, agenda <- Pending(tasks),
  ran <- {w \in Works : runs[w] > 0},
  kept <- {Pending(seeding[s].saved.tasks) : s \in Applying}, era <- resets
AgendaSpec == Promised!Spec

(***************************************************************************)
(* Every advance and every fired timer gets its turn in the end, also      *)
(* after a task of an earlier advance threw: jobs are only added to the    *)
(* chain, and again and again all that are in it are over.                 *)
(***************************************************************************)
JobsFinish == []<>(\A j \in DOMAIN jobs : Over(j))

(***************************************************************************)
(* "So a held request always answers": on a real clock a hold that a timer *)
(* can end is released, by the timer, an advance or a reset.               *)
(***************************************************************************)
HeldByTimer(h) == h \in holds /\ \E t \in tasks : t.work = h /\ t.armed /\ t.fires <= MaxReal
HeldAnswered == \A h \in Held : HeldByTimer(h) ~> h \notin holds

=============================================================================
