----------------------------- MODULE ClockProofs -----------------------------
(***************************************************************************)
(* Proofs about Clock, for every choice of its constants.                  *)
(***************************************************************************)
EXTENDS Clock, TLAPS

-----------------------------------------------------------------------------
(***************************************************************************)
(* Types.                                                                  *)
(***************************************************************************)

\* The time shown is a natural number; on a real clock it is real time or later.
LEMMA NowTyped ==
  ASSUME TypeOK
  PROVE  Now \in Nat /\ (mode # "manual" => real <= Now)
BY DEF TypeOK, Now

\* The move of the clock keeps the types of time.
LEMMA MoveTyped ==
  ASSUME TypeOK, NEW instant \in Nat, MoveTo(instant)
  PROVE  real' \in Nat /\ offset' \in Nat /\ stands' \in Nat
BY NowTyped DEF TypeOK, MoveTo, MoveTarget, Later

\* A task object, however overdue it is.
LEMMA NewTaskTyped ==
  ASSUME TypeOK, NEW work \in Works, NEW due \in Nat, NEW seq \in Nat,
         NEW made \in Nat, NEW t \in Nat
  PROVE  NewTask(work, due, seq, made, t) \in Task
<1>1. TimerAt(due - t) \in Nat
  BY DEF TypeOK, TimerAt, Later
<1> QED BY <1>1 DEF TypeOK, NewTask, Armed, Task

LEMMA JobTyped ==
  ASSUME TypeOK, NEW j \in DOMAIN jobs
  PROVE  jobs[j] \in Job /\ j \in Nat \ {0}
BY DEF TypeOK

LEMMA EnqueueTyped ==
  ASSUME TypeOK, NEW job \in Job, Enqueue(job)
  PROVE  jobs' \in Seq(Job) /\ last' \in Nat
BY DEF TypeOK, Enqueue, NewLast

\* A job that moved on is still a job of the chain.
LEMMA SetJobTyped ==
  ASSUME TypeOK, NEW j \in DOMAIN jobs, NEW job \in Job,
         jobs' = [jobs EXCEPT ![j] = job]
  PROVE  jobs' \in Seq(Job)
BY DEF TypeOK

LEMMA BeginRunTyped ==
  ASSUME TypeOK, NEW t \in Task, BeginRun(t)
  PROVE  /\ tasks' \subseteq Task /\ fired' \subseteq Task
         /\ holds' \subseteq Held /\ runs' \in [Works -> Nat]
         /\ nextSeq' \in Nat /\ resets' \in Nat
<1>1. t.work \in Works
  BY DEF Task
<1>2. runs[t.work] + 1 \in Nat
  BY <1>1 DEF TypeOK
<1>3. runs' \in [Works -> Nat]
  BY <1>1, <1>2 DEF TypeOK, BeginRun
<1> QED BY <1>3 DEF TypeOK, BeginRun

LEMMA WaitsTyped ==
  ASSUME TypeOK, NEW s \in Seeders, NEW frame \in Seeding, Waits(s, frame)
  PROVE  DOMAIN seeding' \subseteq Seeders /\ seeding' \in [DOMAIN seeding' -> Seeding]
BY DEF TypeOK, Waits

LEMMA AnswersTyped ==
  ASSUME TypeOK, NEW s \in Seeders, Answers(s)
  PROVE  DOMAIN seeding' \subseteq Seeders /\ seeding' \in [DOMAIN seeding' -> Seeding]
BY DEF TypeOK, Answers, Restrict

LEMMA ResetTyped ==
  ASSUME TypeOK, Reset
  PROVE  /\ real' \in Nat /\ offset' \in Nat /\ stands' \in Nat
         /\ nextSeq' \in Nat /\ resets' \in Nat
         /\ tasks' \subseteq Task /\ fired' \subseteq Task /\ holds' \subseteq Held
         /\ runs' \in [Works -> Nat]
BY DEF TypeOK, Reset, ResetTo, ReleasedHolds

LEMMA RestoreTyped ==
  ASSUME TypeOK, NEW saved \in Checkpoint, Restore(saved)
  PROVE  /\ real' \in Nat /\ offset' \in Nat /\ stands' \in Nat
         /\ nextSeq' \in Nat /\ resets' \in Nat
         /\ tasks' \subseteq Task /\ fired' \subseteq Task /\ holds' \subseteq Held
         /\ runs' \in [Works -> Nat]
<1> DEFINE t0 == IF mode = "manual" THEN saved.stands ELSE real + saved.offset
<1>1. t0 \in Nat
  BY DEF TypeOK, Checkpoint
<1>2. \A t \in saved.tasks : NewTask(t.work, t.due, t.seq, resets + 1, t0) \in Task
  <2> SUFFICES ASSUME NEW t \in saved.tasks
               PROVE  NewTask(t.work, t.due, t.seq, resets + 1, t0) \in Task
    OBVIOUS
  <2>1. t.work \in Works /\ t.due \in Nat /\ t.seq \in Nat
    BY DEF Checkpoint, Task
  <2>2. resets + 1 \in Nat
    BY DEF TypeOK
  <2> HIDE DEF t0
  <2> QED BY <1>1, <2>1, <2>2, NewTaskTyped
<1>3. tasks' = {NewTask(t.work, t.due, t.seq, resets + 1, t0) : t \in saved.tasks}
  BY DEF Restore, ResetTo
<1>4. tasks' \subseteq Task
  BY <1>2, <1>3
<1> QED BY <1>4 DEF TypeOK, Restore, ResetTo, ReleasedHolds, Checkpoint

\* Every step keeps the types.
LEMMA StepTyped ==
  ASSUME TypeOK, [Next]_vars
  PROVE  TypeOK'
<1>1. ASSUME NEW work \in Works, NEW delay \in Delays, Schedule(work, delay)
      PROVE  TypeOK'
  <2>1. delay \in Nat /\ Now \in Nat
    BY ClockAssumption, NowTyped
  <2>2. NewTask(work, Now + delay, nextSeq, resets, Now) \in Task
    <3>1. Now + delay \in Nat /\ nextSeq \in Nat /\ resets \in Nat
      BY <2>1 DEF TypeOK
    <3> QED BY <2>1, <3>1, NewTaskTyped
  <2> QED BY <1>1, <2>2 DEF TypeOK, Schedule, timeVars
<1>2. ASSUME NEW ms \in Amounts, Advance(ms)
      PROVE  TypeOK'
  <2> DEFINE job == [kind |-> "advance", ms |-> ms, target |-> 0, after |-> last,
                     status |-> "waiting", work |-> NoWork]
  <2>1. job \in Job
    BY ClockAssumption DEF TypeOK, Job, Status
  <2>2. jobs' \in Seq(Job) /\ last' \in Nat
    BY <1>2, <2>1, EnqueueTyped DEF Advance
  <2> QED BY <1>2, <2>2 DEF TypeOK, Advance, timeVars, taskVars
<1>3. ASSUME NEW t \in tasks, Fire(t)
      PROVE  TypeOK'
  <2> DEFINE job == [kind |-> "take", task |-> t, after |-> last, status |-> "waiting",
                     work |-> NoWork]
  <2>1. t \in Task /\ job \in Job
    BY DEF TypeOK, Job, Status
  <2>2. jobs' \in Seq(Job) /\ last' \in Nat
    BY <1>3, <2>1, EnqueueTyped DEF Fire
  <2> QED BY <1>3, <2>1, <2>2 DEF TypeOK, Fire, timeVars
<1>4. ASSUME NEW j \in DOMAIN jobs, JobStep(j)
      PROVE  TypeOK'
  <2> DEFINE job == jobs[j]
  <2>0. job \in Job /\ j \in Nat \ {0}
    BY JobTyped
  <2>1. ASSUME StartAdvance(j)
        PROVE  TypeOK'
    <3>1. Now + job.ms \in Nat
      BY <2>0, <2>1, NowTyped DEF StartAdvance, Job
    <3>2. [job EXCEPT !.status = "running", !.target = Now + job.ms] \in Job
      BY <2>0, <2>1, <3>1 DEF StartAdvance, Job, Status
    <3>3. jobs' \in Seq(Job)
      BY <2>1, <3>2, SetJobTyped DEF StartAdvance
    <3> QED BY <2>1, <3>3 DEF StartAdvance, TypeOK, timeVars, taskVars
  <2>2. ASSUME StartTake(j)
        PROVE  TypeOK'
    <3>1. job.task \in Task /\ job.task.work \in Works
      BY <2>0, <2>2 DEF StartTake, Job, Task
    <3>2. [job EXCEPT !.status = "running", !.work = job.task.work] \in Job
      BY <2>0, <2>2, <3>1 DEF StartTake, Job, Status
    <3>3. [job EXCEPT !.status = "done"] \in Job
      BY <2>0, <2>2 DEF StartTake, Job, Status
    <3>4. CASE Claimed(job.task)
      <4>1. jobs' \in Seq(Job)
        BY <2>2, <3>2, <3>4, SetJobTyped DEF StartTake
      <4>2. BeginRun(job.task)
        BY <2>2, <3>4 DEF StartTake
      <4> QED BY <2>2, <3>1, <4>1, <4>2, BeginRunTyped DEF StartTake, TypeOK, timeVars
    <3>5. CASE ~Claimed(job.task)
      <4>1. jobs' \in Seq(Job)
        BY <2>2, <3>3, <3>5, SetJobTyped DEF StartTake
      <4> QED BY <2>2, <3>5, <4>1 DEF StartTake, TypeOK, timeVars, taskVars
    <3> QED BY <3>4, <3>5
  <2>3. ASSUME AdvanceStep(j)
        PROVE  TypeOK'
    <3>0. job.kind = "advance" /\ job.target \in Nat
      BY <2>0, <2>3 DEF AdvanceStep, Job
    <3>1. [job EXCEPT !.status = "done"] \in Job
      BY <2>0, <3>0 DEF Job, Status
    <3>2. CASE /\ MoveTo(job.target)
               /\ jobs' = [jobs EXCEPT ![j].status = "done"]
               /\ UNCHANGED taskVars
      <4>1. jobs' \in Seq(Job)
        BY <3>1, <3>2, SetJobTyped
      <4> QED BY <2>3, <3>0, <3>2, <4>1, MoveTyped DEF AdvanceStep, TypeOK, taskVars
    <3>3. ASSUME NEW t \in tasks, MoveTo(t.due), BeginRun(t),
                 jobs' = [jobs EXCEPT ![j].work = t.work]
          PROVE  TypeOK'
      <4>1. t \in Task /\ t.due \in Nat /\ t.work \in Works
        BY DEF TypeOK, Task
      <4>2. [job EXCEPT !.work = t.work] \in Job
        BY <2>0, <3>0, <4>1 DEF Job
      <4>3. jobs' \in Seq(Job)
        BY <3>3, <4>2, SetJobTyped
      <4> QED BY <2>3, <3>3, <4>1, <4>3, MoveTyped, BeginRunTyped DEF AdvanceStep, TypeOK
    <3> QED BY <2>3, <3>2, <3>3 DEF AdvanceStep
  <2>4. ASSUME RunOver(j)
        PROVE  TypeOK'
    <3>1. /\ [job EXCEPT !.work = NoWork, !.status = "done"] \in Job
          /\ [job EXCEPT !.work = NoWork] \in Job
      BY <2>0 DEF Job, Status
    <3>2. jobs' \in Seq(Job)
      BY <2>4, <3>1, SetJobTyped DEF RunOver
    <3> QED BY <2>4, <3>2 DEF RunOver, TypeOK, timeVars, taskVars
  <2>5. ASSUME RunThrows(j)
        PROVE  TypeOK'
    <3>1. [job EXCEPT !.work = NoWork, !.status = "failed"] \in Job
      BY <2>0 DEF Job, Status
    <3>2. jobs' \in Seq(Job)
      BY <2>5, <3>1, SetJobTyped DEF RunThrows
    <3> QED BY <2>5, <3>2 DEF RunThrows, TypeOK, timeVars, taskVars
  <2> QED BY <1>4, <2>1, <2>2, <2>3, <2>4, <2>5 DEF JobStep
<1>5. ASSUME RealTick
      PROVE  TypeOK'
  BY <1>5 DEF RealTick, TypeOK, taskVars
<1>6. ASSUME NEW s \in Seeders, NEW op \in ResetOps, Call(s, op)
      PROVE  TypeOK'
  <2>1. [at |-> "idle", op |-> op, on |-> Idle] \in Seeding
    BY DEF Seeding, TypeOK, Idle
  <2> QED BY <1>6, <2>1, WaitsTyped DEF Call, TypeOK, timeVars, taskVars
<1>7. ASSUME NEW s \in Seeders, Resume(s)
      PROVE  TypeOK'
  <2> DEFINE saved == [offset |-> offset, stands |-> stands, tasks |-> tasks]
             frame == [at |-> "applying", saved |-> saved]
  <2>1. frame \in Seeding
    BY DEF TypeOK, Seeding, Checkpoint
  <2>2. CASE Waits(s, frame) /\ UNCHANGED <<timeVars, taskVars>>
    BY <1>7, <2>1, <2>2, WaitsTyped DEF Resume, TypeOK, timeVars, taskVars
  <2>3. CASE Reset /\ Waits(s, frame)
    BY <1>7, <2>1, <2>3, WaitsTyped, ResetTyped DEF Resume, TypeOK
  <2>4. CASE Reset /\ Answers(s)
    BY <1>7, <2>4, AnswersTyped, ResetTyped DEF Resume, TypeOK
  <2>5. CASE Crash(s, TRUE)
    <3>1. [at |-> "crashed", first |-> TRUE] \in Seeding
      BY DEF Seeding
    <3> QED BY <1>7, <2>5, <3>1, WaitsTyped DEF Resume, Crash, TypeOK, timeVars, taskVars
  <2> QED BY <1>7, <2>2, <2>3, <2>4, <2>5 DEF Resume
<1>8. ASSUME NEW s \in Seeders, Applied(s)
      PROVE  TypeOK'
  BY <1>8, AnswersTyped DEF Applied, TypeOK, timeVars, taskVars
<1>9. ASSUME NEW s \in Seeders, ApplyFails(s)
      PROVE  TypeOK'
  <2>1. seeding[s].saved \in Checkpoint
    BY <1>9 DEF ApplyFails, TypeOK, Seeding
  <2>2. CASE Restore(seeding[s].saved) /\ Answers(s)
    BY <1>9, <2>1, <2>2, AnswersTyped, RestoreTyped DEF ApplyFails, TypeOK
  <2>3. CASE Crash(s, FALSE)
    <3>1. [at |-> "crashed", first |-> FALSE] \in Seeding
      BY DEF Seeding
    <3> QED BY <1>9, <2>3, <3>1, WaitsTyped DEF ApplyFails, Crash, TypeOK, timeVars, taskVars
  <2> QED BY <1>9, <2>2, <2>3 DEF ApplyFails
<1>10. CASE UNCHANGED vars
  BY <1>10 DEF vars, TypeOK, timeVars, taskVars
<1> QED BY <1>1, <1>2, <1>3, <1>4, <1>5, <1>6, <1>7, <1>8, <1>9, <1>10 DEF Next, SeederStep

(***************************************************************************)
(* Every variable keeps its type: no advance, timer, reset or restore      *)
(* makes the offset negative or leaves a malformed task or job.            *)
(***************************************************************************)
THEOREM TypeCorrect == Spec => []TypeOK
<1>1. Init => TypeOK
  BY DEF Init, TypeOK
<1>2. TypeOK /\ [Next]_vars => TypeOK'
  BY StepTyped
<1> QED BY <1>1, <1>2, PTL DEF Spec

-----------------------------------------------------------------------------
(***************************************************************************)
(* The chain of jobs and those who wait for its end.                       *)
(***************************************************************************)

\* Every job waits for the one enqueued just before it, so none is skipped.
ChainSound ==
  /\ last = Len(jobs)
  /\ \A j \in DOMAIN jobs : jobs[j].after = j - 1
  /\ OneAtATime

(***************************************************************************)
(* While a caller of `idle` has not resumed, every job enqueued after its  *)
(* call still waits: this is why no advance runs when it resumes.          *)
(***************************************************************************)
IdleSound ==
  \A s \in DOMAIN seeding : seeding[s].at = "idle" =>
    /\ seeding[s].on <= Len(jobs)
    /\ \A j \in DOMAIN jobs : seeding[s].on < j => jobs[j].status = "waiting"

Chained == TypeOK /\ ChainSound /\ IdleSound /\ ResetsWhenIdle

\* What every step of a job does to the chain.
LEMMA JobMoves ==
  ASSUME TypeOK, NEW j \in DOMAIN jobs, JobStep(j)
  PROVE  /\ DOMAIN jobs' = DOMAIN jobs /\ Len(jobs') = Len(jobs)
         /\ UNCHANGED <<last, seeding>>
         /\ \A i \in DOMAIN jobs \ {j} : jobs'[i] = jobs[i]
         /\ jobs'[j].after = jobs[j].after
         /\ jobs'[j].status # "waiting"
         /\ MayStart(j) \/ Running(j)
<1>0. jobs[j] \in Job
  BY JobTyped
<1>1. CASE StartAdvance(j)
  BY <1>0, <1>1 DEF StartAdvance, TypeOK, Job
<1>2. CASE StartTake(j)
  <2>1. \/ jobs' = [jobs EXCEPT ![j].status = "running", ![j].work = jobs[j].task.work]
        \/ jobs' = [jobs EXCEPT ![j].status = "done"]
    BY <1>2 DEF StartTake
  <2>2. MayStart(j) /\ UNCHANGED <<last, seeding>> /\ jobs[j].kind = "take"
    BY <1>2 DEF StartTake
  <2>3. CASE jobs' = [jobs EXCEPT ![j].status = "running", ![j].work = jobs[j].task.work]
    BY <1>0, <2>2, <2>3 DEF TypeOK, Job
  <2>4. CASE jobs' = [jobs EXCEPT ![j].status = "done"]
    BY <1>0, <2>2, <2>4 DEF TypeOK, Job
  <2> QED BY <2>1, <2>3, <2>4
<1>3. CASE AdvanceStep(j)
  BY <1>0, <1>3 DEF AdvanceStep, TypeOK, Job, Running
<1>4. CASE RunOver(j)
  <2>1. CASE jobs[j].kind = "take"
    BY <1>0, <1>4, <2>1 DEF RunOver, TypeOK, Job, Running
  <2>2. CASE jobs[j].kind = "advance"
    BY <1>0, <1>4, <2>2 DEF RunOver, TypeOK, Job, Running
  <2> QED BY <1>4, <2>1, <2>2 DEF RunOver
<1>5. CASE RunThrows(j)
  BY <1>0, <1>5 DEF RunThrows, TypeOK, Job, Running
<1> QED BY <1>1, <1>2, <1>3, <1>4, <1>5 DEF JobStep

\* When the caller of `idle` resumes, no advance runs.
LEMMA IdleMeansNoAdvance ==
  ASSUME Chained, NEW s \in DOMAIN seeding, seeding[s].at = "idle", Settled(seeding[s].on)
  PROVE  ~Advancing
<1> SUFFICES ASSUME NEW j \in DOMAIN jobs, Running(j)
             PROVE  FALSE
  BY DEF Advancing
<1> DEFINE on == seeding[s].on
<1>1. on \in Nat /\ on <= Len(jobs) /\ j \in 1..Len(jobs)
  BY DEF Chained, TypeOK, IdleSound, Seeding
<1>2. j <= on
  BY <1>1 DEF Chained, IdleSound, Running
<1>3. on \in DOMAIN jobs /\ jobs[on].status \in {"done", "failed"}
  BY <1>1, <1>2 DEF Settled, Chained, TypeOK
<1>4. j < on
  BY <1>1, <1>2, <1>3 DEF Running
<1>5. Over(j)
  BY <1>3, <1>4 DEF Chained, ChainSound, OneAtATime
<1> QED BY <1>5 DEF Over, Running

\* A new job at the end of the chain, or a new caller of `idle`, keeps it sound.
LEMMA EnqueueChained ==
  ASSUME Chained, NEW job \in Job, job.status = "waiting", job.after = last,
         Enqueue(job), UNCHANGED seeding
  PROVE  ChainSound' /\ IdleSound' /\ ResetsWhenIdle'
<1>1. /\ jobs' = Append(jobs, job) /\ last' = Len(jobs) + 1 /\ jobs \in Seq(Job)
      /\ last = Len(jobs)
  BY DEF Enqueue, NewLast, Chained, TypeOK, ChainSound
<1>2. /\ Len(jobs') = Len(jobs) + 1 /\ Len(jobs) \in Nat
      /\ DOMAIN jobs' = 1..(Len(jobs) + 1) /\ DOMAIN jobs = 1..Len(jobs)
      /\ \A j \in DOMAIN jobs : jobs'[j] = jobs[j]
      /\ jobs'[Len(jobs) + 1] = job
  BY <1>1
<1>3. \A j \in DOMAIN jobs' : jobs'[j].after = j - 1
  BY <1>1, <1>2 DEF Chained, ChainSound
<1>4. OneAtATime'
  <2> SUFFICES ASSUME NEW i \in DOMAIN jobs', NEW j \in DOMAIN jobs', i < j,
                      jobs'[j].status # "waiting"
               PROVE  jobs'[i].status \in {"done", "failed"}
    BY DEF OneAtATime, Over
  <2>1. j \in DOMAIN jobs /\ i \in DOMAIN jobs
    BY <1>2
  <2> QED BY <1>2, <2>1 DEF Chained, ChainSound, OneAtATime, Over
<1>5. IdleSound'
  <2> SUFFICES ASSUME NEW s \in DOMAIN seeding, seeding[s].at = "idle"
               PROVE  /\ seeding[s].on <= Len(jobs')
                      /\ \A j \in DOMAIN jobs' :
                           seeding[s].on < j => jobs'[j].status = "waiting"
    BY DEF IdleSound
  <2>1. seeding[s].on \in Nat /\ seeding[s].on <= Len(jobs)
    BY DEF Chained, TypeOK, IdleSound, Seeding
  <2> QED BY <1>2, <2>1 DEF Chained, IdleSound
<1>6. ResetsWhenIdle'
  BY DEF Chained, ResetsWhenIdle
<1> QED BY <1>1, <1>2, <1>3, <1>4, <1>5, <1>6 DEF ChainSound

\* Every step keeps the chain sound, and finds no advance when it resets.
LEMMA StepChained ==
  ASSUME Chained, [Next]_vars
  PROVE  Chained'
<1>0. TypeOK'
  BY StepTyped DEF Chained
<1>1. ASSUME UNCHANGED <<jobs, last, seeding>>
      PROVE  ChainSound' /\ IdleSound' /\ ResetsWhenIdle'
  BY <1>1 DEF Chained, ChainSound, IdleSound, ResetsWhenIdle, OneAtATime, Over
<1>2. ASSUME NEW ms \in Amounts, Advance(ms)
      PROVE  ChainSound' /\ IdleSound' /\ ResetsWhenIdle'
  <2> DEFINE job == [kind |-> "advance", ms |-> ms, target |-> 0, after |-> last,
                     status |-> "waiting", work |-> NoWork]
  <2>1. job \in Job
    BY ClockAssumption DEF Chained, TypeOK, Job, Status
  <2> QED BY <1>2, <2>1, EnqueueChained DEF Advance
<1>3. ASSUME NEW t \in tasks, Fire(t)
      PROVE  ChainSound' /\ IdleSound' /\ ResetsWhenIdle'
  <2> DEFINE job == [kind |-> "take", task |-> t, after |-> last, status |-> "waiting",
                     work |-> NoWork]
  <2>1. job \in Job
    BY DEF Chained, TypeOK, Job, Status
  <2> QED BY <1>3, <2>1, EnqueueChained DEF Fire
<1>4. ASSUME NEW j \in DOMAIN jobs, JobStep(j)
      PROVE  ChainSound' /\ IdleSound' /\ ResetsWhenIdle'
  <2>1. /\ DOMAIN jobs' = DOMAIN jobs /\ Len(jobs') = Len(jobs)
        /\ UNCHANGED <<last, seeding>>
        /\ \A i \in DOMAIN jobs \ {j} : jobs'[i] = jobs[i]
        /\ jobs'[j].after = jobs[j].after
        /\ jobs'[j].status # "waiting"
        /\ MayStart(j) \/ Running(j)
    BY <1>4, JobMoves DEF Chained
  <2>2. /\ DOMAIN jobs = 1..Len(jobs) /\ Len(jobs) \in Nat /\ jobs[j].after = j - 1
        /\ ~Over(j)
    BY <2>1 DEF Chained, TypeOK, ChainSound, MayStart, Running, Over
  \* A job that starts finds the one before it over.
  <2>3. ASSUME NEW i \in DOMAIN jobs, i < j
        PROVE  Over(i)
    <3>1. CASE Running(j)
      BY <2>3, <3>1 DEF Chained, ChainSound, OneAtATime, Running
    <3>2. CASE MayStart(j)
      <4>1. j - 1 \in DOMAIN jobs /\ Over(j - 1) /\ jobs[j - 1].status # "waiting"
        BY <2>2, <2>3, <3>2 DEF MayStart, Settled, Over
      <4> QED BY <2>2, <2>3, <4>1 DEF Chained, ChainSound, OneAtATime
    <3> QED BY <2>1, <3>1, <3>2
  <2>4. OneAtATime'
    <3> SUFFICES ASSUME NEW i \in DOMAIN jobs, NEW k \in DOMAIN jobs, i < k,
                        jobs'[k].status # "waiting"
                 PROVE  jobs'[i].status \in {"done", "failed"}
      BY <2>1 DEF OneAtATime, Over
    <3>1. CASE k = j
      BY <2>1, <2>2, <2>3, <3>1 DEF Over
    <3>2. CASE k # j
      <4>1. Over(i)
        BY <2>1, <3>2 DEF Chained, ChainSound, OneAtATime
      <4> QED BY <2>1, <2>2, <4>1 DEF Over
    <3> QED BY <3>1, <3>2
  <2>5. IdleSound'
    <3> SUFFICES ASSUME NEW s \in DOMAIN seeding, seeding[s].at = "idle",
                        NEW k \in DOMAIN jobs, seeding[s].on < k
                 PROVE  jobs'[k].status = "waiting"
      BY <2>1 DEF Chained, IdleSound
    <3> DEFINE on == seeding[s].on
    <3>1. on \in Nat
      BY DEF Chained, TypeOK, Seeding
    <3>2. jobs[k].status = "waiting"
      BY DEF Chained, IdleSound
    <3>3. ASSUME k = j
          PROVE  FALSE
      <4>1. MayStart(j) /\ on # j - 1
        BY <2>1, <2>2, <3>2, <3>3 DEF MayStart, Running
      <4>2. j - 1 \in DOMAIN jobs /\ on < j - 1
        BY <2>2, <3>1, <3>3, <4>1
      <4>3. jobs[j - 1].status = "waiting"
        BY <4>2 DEF Chained, IdleSound
      <4> QED BY <2>2, <4>1, <4>2, <4>3 DEF MayStart, Settled
    <3> QED BY <2>1, <3>2, <3>3
  <2>6. \A k \in DOMAIN jobs' : jobs'[k].after = k - 1
    BY <2>1 DEF Chained, ChainSound
  <2> QED BY <2>1, <2>4, <2>5, <2>6 DEF Chained, ChainSound, ResetsWhenIdle
<1>5. ASSUME NEW s \in Seeders, NEW op \in ResetOps, Call(s, op)
      PROVE  ChainSound' /\ IdleSound' /\ ResetsWhenIdle'
  <2>1. /\ UNCHANGED <<jobs, last>>
        /\ Waits(s, [at |-> "idle", op |-> op, on |-> last])
    BY <1>5 DEF Call, Idle
  <2>2. last = Len(jobs) /\ DOMAIN jobs = 1..Len(jobs) /\ Len(jobs) \in Nat
    BY DEF Chained, ChainSound, TypeOK
  <2>3. ChainSound'
    BY <2>1 DEF Chained, ChainSound, OneAtATime, Over
  <2>4. IdleSound'
    BY <2>1, <2>2 DEF Chained, IdleSound, Waits
  <2>5. ResetsWhenIdle'
    BY <2>1 DEF Chained, ResetsWhenIdle, Waits
  <2> QED BY <2>3, <2>4, <2>5
<1>6. ASSUME NEW s \in Seeders, Resume(s)
      PROVE  ChainSound' /\ IdleSound' /\ ResetsWhenIdle'
  <2> DEFINE saved == [offset |-> offset, stands |-> stands, tasks |-> tasks]
             frame == [at |-> "applying", saved |-> saved]
  <2>1. UNCHANGED <<jobs, last>> /\ ~Advancing
    BY <1>6, IdleMeansNoAdvance DEF Resume
  <2>2. Waits(s, frame) \/ Answers(s)
    BY <1>6, <2>1 DEF Resume, Crash
  <2>3. ChainSound'
    BY <2>1 DEF Chained, ChainSound, OneAtATime, Over
  <2> HIDE DEF saved
  <2>4. IdleSound'
    BY <2>1, <2>2 DEF Chained, IdleSound, Waits, Answers, Restrict
  <2>5. ResetsWhenIdle'
    BY <2>2 DEF Chained, ResetsWhenIdle, Waits, Answers, Restrict
  <2> QED BY <2>3, <2>4, <2>5
<1>7. ASSUME NEW s \in Seeders, Applied(s) \/ ApplyFails(s)
      PROVE  ChainSound' /\ IdleSound' /\ ResetsWhenIdle'
  <2>1. UNCHANGED <<jobs, last>>
    BY <1>7 DEF Applied, ApplyFails
  <2>2. Waits(s, [at |-> "crashed", first |-> FALSE]) \/ Answers(s)
    BY <1>7 DEF Applied, ApplyFails, Crash
  <2>3. ChainSound'
    BY <2>1 DEF Chained, ChainSound, OneAtATime, Over
  <2>4. IdleSound'
    BY <2>1, <2>2 DEF Chained, IdleSound, Waits, Answers, Restrict
  <2>5. ResetsWhenIdle'
    BY <2>2 DEF Chained, ResetsWhenIdle, Waits, Answers, Restrict
  <2> QED BY <2>3, <2>4, <2>5
<1>8. \/ UNCHANGED <<jobs, last, seeding>>
      \/ \E ms \in Amounts : Advance(ms)
      \/ \E t \in tasks : Fire(t)
      \/ \E j \in DOMAIN jobs : JobStep(j)
      \/ \E s \in Seeders, op \in ResetOps : Call(s, op)
      \/ \E s \in Seeders : Resume(s) \/ Applied(s) \/ ApplyFails(s)
  BY DEF Next, Schedule, RealTick, SeederStep, vars
<1> QED BY <1>0, <1>1, <1>2, <1>3, <1>4, <1>5, <1>6, <1>7, <1>8 DEF Chained

LEMMA InitChained == Init => Chained
BY DEF Init, Chained, TypeOK, ChainSound, IdleSound, OneAtATime, ResetsWhenIdle

(***************************************************************************)
(* Advances and timers run one at a time, in the order they were enqueued, *)
(* for any number of them and whichever of their tasks throw.              *)
(***************************************************************************)
THEOREM JobsOneAtATime == Spec => []OneAtATime
<1>1. Chained /\ [Next]_vars => Chained'
  BY StepChained
<1>2. Chained => OneAtATime
  BY DEF Chained, ChainSound
<1> QED BY InitChained, <1>1, <1>2, PTL DEF Spec

(***************************************************************************)
(* Whoever resets the clock after `idle` finds no advance that runs, so    *)
(* the reset cannot throw, whatever was enqueued meanwhile.                *)
(***************************************************************************)
THEOREM IdleResetsAreSafe == Spec => []ResetsWhenIdle
<1>1. Chained /\ [Next]_vars => Chained'
  BY StepChained
<1>2. Chained => ResetsWhenIdle
  BY DEF Chained
<1> QED BY InitChained, <1>1, <1>2, PTL DEF Spec

-----------------------------------------------------------------------------
(***************************************************************************)
(* Time.                                                                   *)
(***************************************************************************)

\* A move shows the instant asked for, or leaves a later time as it is.
LEMMA MoveShows ==
  ASSUME TypeOK, NEW instant \in Nat, MoveTo(instant), UNCHANGED mode
  PROVE  Now' = Later(Now, instant) /\ Now <= Now'
<1>1. Now \in Nat
  BY NowTyped
<1>2. CASE mode = "manual"
  BY <1>1, <1>2 DEF MoveTo, MoveTarget, Now, Later, TypeOK
<1>3. CASE mode # "manual"
  BY <1>1, <1>3 DEF MoveTo, MoveTarget, Now, Later, TypeOK
<1> QED BY <1>2, <1>3

(***************************************************************************)
(* Time never moves back but by a reset or a restore: not by an advance    *)
(* whose task was overdue, not by a timer.                                 *)
(***************************************************************************)
THEOREM TimeMovesForward == Spec => TimeNeverBack
<1>1. ASSUME TypeOK, [Next]_vars
      PROVE  Now <= Now' \/ resets # resets'
  <2>1. Now \in Nat /\ resets \in Nat
    BY <1>1, NowTyped DEF TypeOK
  <2>2. ASSUME UNCHANGED <<mode, timeVars>>
        PROVE  Now <= Now'
    BY <2>1, <2>2 DEF timeVars, Now
  <2>3. ASSUME NEW j \in DOMAIN jobs, AdvanceStep(j)
        PROVE  Now <= Now'
    <3>1. jobs[j].target \in Nat
      BY <1>1, <2>3, JobTyped DEF AdvanceStep, Job
    <3>2. \A t \in tasks : t.due \in Nat
      BY <1>1 DEF TypeOK, Task
    <3> QED BY <1>1, <2>3, <3>1, <3>2, MoveShows DEF AdvanceStep
  <2>4. ASSUME RealTick
        PROVE  Now <= Now'
    BY <1>1, <2>1, <2>4 DEF RealTick, Now, TypeOK
  <2>5. ASSUME NEW s \in Seeders, Resume(s)
        PROVE  UNCHANGED <<mode, timeVars>> \/ resets # resets'
    BY <2>1, <2>5 DEF Resume, Reset, ResetTo, Crash, timeVars
  <2>6. ASSUME NEW s \in Seeders, ApplyFails(s)
        PROVE  UNCHANGED <<mode, timeVars>> \/ resets # resets'
    BY <2>1, <2>6 DEF ApplyFails, Restore, ResetTo, Crash, timeVars
  <2>7. \/ UNCHANGED <<mode, timeVars>>
        \/ \E j \in DOMAIN jobs : AdvanceStep(j)
        \/ RealTick
        \/ \E s \in Seeders : Resume(s) \/ ApplyFails(s)
    BY <1>1 DEF Next, vars, Schedule, Advance, Fire, JobStep, StartAdvance, StartTake,
                RunOver, RunThrows, Call, SeederStep, Applied
  <2> QED BY <2>2, <2>3, <2>4, <2>5, <2>6, <2>7
<1> QED BY TypeCorrect, <1>1, PTL DEF Spec, TimeNeverBack

-----------------------------------------------------------------------------
(***************************************************************************)
(* Tasks: no two of them are the same work, so whoever takes one is the    *)
(* only one to run it; and a checkpoint keeps what the clock it was taken  *)
(* from promised.                                                          *)
(***************************************************************************)
Distinct(ts) == \A t, u \in ts : t.work = u.work => t = u

SavedSound(saved) ==
  /\ Distinct(saved.tasks)
  /\ mode = "manual" => \A t \in saved.tasks : saved.stands <= t.due

SeedersSound ==
  \A s \in DOMAIN seeding :
    seeding[s].at = "applying" => SavedSound(seeding[s].saved)

TasksSound ==
  /\ Distinct(tasks)
  /\ RunOnce
  /\ HoldsHaveTasks
  /\ NothingOverdue
  /\ SeedersSound

Sound == TypeOK /\ TasksSound

\* A task that is taken: its work runs for the first time, the others are untouched.
LEMMA BeginRunSound ==
  ASSUME Sound, NEW t \in tasks, BeginRun(t)
  PROVE  Distinct(tasks') /\ RunOnce' /\ HoldsHaveTasks'
<1>1. /\ tasks' = tasks \ {t} /\ runs' = [runs EXCEPT ![t.work] = runs[t.work] + 1]
      /\ holds' = holds \ {t.work}
  BY DEF BeginRun
<1>2. t.work \in Works /\ runs \in [Works -> Nat] /\ runs[t.work] = 0
  <2>1. t.work \in Works /\ runs \in [Works -> Nat]
    BY DEF Sound, TypeOK, Task
  <2>2. runs[t.work] <= 1 /\ runs[t.work] # 1
    BY <2>1 DEF Sound, TasksSound, RunOnce
  <2> QED BY <2>1, <2>2
<1>3. \A u \in tasks' : u \in tasks /\ u.work # t.work
  BY <1>1 DEF Sound, TasksSound, Distinct
<1>4. Distinct(tasks')
  BY <1>3 DEF Sound, TasksSound, Distinct
<1>5. RunOnce'
  <2> SUFFICES ASSUME NEW w \in Works
               PROVE  /\ runs'[w] <= 1
                      /\ runs'[w] = 1 => \A u \in tasks' : u.work # w
    BY DEF RunOnce
  <2>1. CASE w = t.work
    BY <1>1, <1>2, <1>3, <2>1
  <2>2. CASE w # t.work
    BY <1>1, <1>2, <1>3, <2>2 DEF Sound, TasksSound, RunOnce
  <2> QED BY <2>1, <2>2
<1>6. HoldsHaveTasks'
  BY <1>1 DEF Sound, TasksSound, HoldsHaveTasks
<1> QED BY <1>4, <1>5, <1>6

\* A task put on the clock is not overdue and is like no other.
LEMMA ScheduleSound ==
  ASSUME Sound, NEW work \in Works, NEW delay \in Delays, Schedule(work, delay)
  PROVE  Distinct(tasks') /\ RunOnce' /\ HoldsHaveTasks' /\ NothingOverdue'
<1> DEFINE new == NewTask(work, Now + delay, nextSeq, resets, Now)
<1>1. new.work = work /\ new.due = Now + delay
  BY DEF NewTask
<1>2. /\ tasks' = tasks \union {new} /\ runs' = runs /\ runs[work] = 0
      /\ \A t \in tasks : t.work # work
      /\ holds' \subseteq holds \union {work}
      /\ Now' = Now /\ mode' = mode
  BY DEF Schedule, timeVars, Now
<1>3. Now \in Nat /\ delay \in Nat
  BY NowTyped, ClockAssumption DEF Sound
<1> HIDE DEF new
<1>4. Distinct(tasks')
  BY <1>1, <1>2 DEF Sound, TasksSound, Distinct
<1>5. RunOnce'
  BY <1>1, <1>2 DEF Sound, TasksSound, RunOnce
<1>6. HoldsHaveTasks'
  BY <1>1, <1>2 DEF Sound, TasksSound, HoldsHaveTasks
<1>7. NothingOverdue'
  BY <1>1, <1>2, <1>3 DEF Sound, TasksSound, NothingOverdue
<1> QED BY <1>4, <1>5, <1>6, <1>7

\* The tasks after a reset: none.
LEMMA ResetSound ==
  ASSUME Sound, Reset
  PROVE  Distinct(tasks') /\ RunOnce' /\ HoldsHaveTasks' /\ NothingOverdue'
BY DEF Sound, TasksSound, Distinct, RunOnce, HoldsHaveTasks, NothingOverdue, Reset, ResetTo,
       ReleasedHolds

\* The tasks after a restore: those of the checkpoint, to be run again.
LEMMA RestoreSound ==
  ASSUME Sound, NEW saved \in Checkpoint, SavedSound(saved), Restore(saved), UNCHANGED mode
  PROVE  Distinct(tasks') /\ RunOnce' /\ HoldsHaveTasks' /\ NothingOverdue'
<1> DEFINE t0 == IF mode = "manual" THEN saved.stands ELSE real + saved.offset
           New(t) == NewTask(t.work, t.due, t.seq, resets + 1, t0)
<1>1. /\ tasks' = {New(t) : t \in saved.tasks}
      /\ holds' = {} /\ stands' = saved.stands
      /\ runs' = [w \in Works |-> IF w \in {t.work : t \in saved.tasks} THEN 0 ELSE runs[w]]
  BY DEF Restore, ResetTo, ReleasedHolds
<1>2. \A t \in saved.tasks : New(t).work = t.work /\ New(t).due = t.due
  BY DEF NewTask
<1> HIDE DEF New
<1>3. Distinct(tasks')
  BY <1>1, <1>2 DEF SavedSound, Distinct
<1>4. RunOnce'
  <2> SUFFICES ASSUME NEW w \in Works
               PROVE  /\ runs'[w] <= 1
                      /\ runs'[w] = 1 => \A u \in tasks' : u.work # w
    BY DEF RunOnce
  <2>1. CASE w \in {t.work : t \in saved.tasks}
    BY <1>1, <2>1
  <2>2. CASE w \notin {t.work : t \in saved.tasks}
    <3>1. runs'[w] = runs[w] /\ runs[w] <= 1
      BY <1>1, <2>2 DEF Sound, TasksSound, RunOnce
    <3> QED BY <1>1, <1>2, <2>2, <3>1
  <2> QED BY <2>1, <2>2
<1>5. HoldsHaveTasks'
  BY <1>1 DEF HoldsHaveTasks
<1>6. NothingOverdue'
  BY <1>1, <1>2 DEF SavedSound, NothingOverdue, Now
<1> QED BY <1>3, <1>4, <1>5, <1>6

\* A round of an advance takes the task that is due first, and passes none.
LEMMA AdvanceStepSound ==
  ASSUME Sound, NEW j \in DOMAIN jobs, AdvanceStep(j)
  PROVE  Distinct(tasks') /\ RunOnce' /\ HoldsHaveTasks' /\ NothingOverdue'
<1> DEFINE target == jobs[j].target
           dueTasks == {t \in tasks : t.due <= target}
<1>1. target \in Nat /\ Now \in Nat /\ mode' = mode
  BY JobTyped, NowTyped DEF Sound, AdvanceStep, Job
<1>2. \A t \in tasks : t.due \in Nat
  BY DEF Sound, TypeOK, Task
<1>3. CASE dueTasks = {} /\ MoveTo(target) /\ UNCHANGED taskVars
  <2>1. Now' = Later(Now, target)
    BY <1>1, <1>3, MoveShows DEF Sound
  <2>2. NothingOverdue'
    BY <1>1, <1>2, <1>3, <2>1 DEF Sound, TasksSound, NothingOverdue, Later, taskVars
  <2> QED BY <1>3, <2>2
          DEF Sound, TasksSound, Distinct, RunOnce, HoldsHaveTasks, taskVars
<1>4. ASSUME NEW t \in dueTasks, \A u \in dueTasks : ByDue(t, u), MoveTo(t.due), BeginRun(t)
      PROVE  Distinct(tasks') /\ RunOnce' /\ HoldsHaveTasks' /\ NothingOverdue'
  <2>1. Now' = Later(Now, t.due)
    BY <1>1, <1>2, <1>4, MoveShows DEF Sound
  <2>2. \A u \in tasks : t.due <= u.due
    BY <1>1, <1>2, <1>4 DEF ByDue
  <2>3. NothingOverdue'
    BY <1>1, <1>2, <1>4, <2>1, <2>2 DEF Sound, TasksSound, NothingOverdue, Later, BeginRun
  <2> QED BY <1>4, <2>3, BeginRunSound
<1> QED BY <1>3, <1>4 DEF AdvanceStep

\* Every step keeps the tasks sound.
LEMMA StepSound ==
  ASSUME Sound, [Next]_vars
  PROVE  Sound'
<1> DEFINE Kept == Distinct(tasks') /\ RunOnce' /\ HoldsHaveTasks' /\ NothingOverdue'
<1>0. TypeOK'
  BY StepTyped DEF Sound
<1>1. ASSUME UNCHANGED <<mode, tasks, runs, holds>>, Now' = Now
      PROVE  Kept
  BY <1>1 DEF Sound, TasksSound, Distinct, RunOnce, HoldsHaveTasks, NothingOverdue
<1>2. ASSUME UNCHANGED <<mode, seeding>>
      PROVE  SeedersSound'
  BY <1>2 DEF Sound, TasksSound, SeedersSound, SavedSound
<1>3. ASSUME UNCHANGED mode, NEW s, Answers(s)
      PROVE  SeedersSound'
  BY <1>3 DEF Sound, TasksSound, SeedersSound, SavedSound, Answers, Restrict
<1>4. ASSUME UNCHANGED mode, NEW s, NEW frame, Waits(s, frame),
             frame.at = "applying" => SavedSound(frame.saved)
      PROVE  SeedersSound'
  BY <1>4 DEF Sound, TasksSound, SeedersSound, SavedSound, Waits
<1>5. ASSUME NEW work \in Works, NEW delay \in Delays, Schedule(work, delay)
      PROVE  Kept /\ SeedersSound'
  BY <1>2, <1>5, ScheduleSound DEF Schedule
<1>6. ASSUME UNCHANGED <<mode, tasks, runs, holds, timeVars, seeding>>
      PROVE  Kept /\ SeedersSound'
  BY <1>1, <1>2, <1>6 DEF Now, timeVars
<1>7. ASSUME NEW j \in DOMAIN jobs, JobStep(j)
      PROVE  Kept /\ SeedersSound'
  <2>1. UNCHANGED <<mode, seeding>>
    BY <1>7 DEF JobStep, StartAdvance, StartTake, AdvanceStep, RunOver, RunThrows
  <2>2. CASE StartAdvance(j) \/ RunOver(j) \/ RunThrows(j)
    BY <1>6, <2>1, <2>2 DEF StartAdvance, RunOver, RunThrows, taskVars
  <2>3. CASE StartTake(j)
    <3> DEFINE t == jobs[j].task
    <3>1. UNCHANGED timeVars
      BY <2>3 DEF StartTake
    <3>2. CASE Claimed(t)
      <4>1. t \in tasks /\ BeginRun(t)
        BY <2>3, <3>2 DEF StartTake, Claimed
      <4>2. tasks' \subseteq tasks /\ Now' = Now
        BY <2>1, <3>1, <4>1 DEF BeginRun, Now, timeVars
      <4>3. NothingOverdue'
        BY <2>1, <4>2 DEF Sound, TasksSound, NothingOverdue
      <4> QED BY <1>2, <2>1, <4>1, <4>3, BeginRunSound
    <3>3. CASE ~Claimed(t)
      BY <1>6, <2>1, <2>3, <3>1, <3>3 DEF StartTake, taskVars
    <3> QED BY <3>2, <3>3
  <2>4. CASE AdvanceStep(j)
    BY <1>2, <2>1, <2>4, AdvanceStepSound
  <2> QED BY <1>7, <2>2, <2>3, <2>4 DEF JobStep
<1>8. ASSUME RealTick
      PROVE  Kept /\ SeedersSound'
  <2>1. mode = "manual" => Now' = Now
    BY <1>8 DEF RealTick, Now
  <2> QED BY <1>2, <1>8, <2>1 DEF RealTick, taskVars, Sound, TasksSound, Distinct, RunOnce,
             HoldsHaveTasks, NothingOverdue
<1>9. ASSUME NEW s \in Seeders, NEW op \in ResetOps, Call(s, op)
      PROVE  Kept /\ SeedersSound'
  <2>1. Kept
    BY <1>1, <1>9 DEF Call, taskVars, timeVars, Now
  <2>2. SeedersSound'
    BY <1>4, <1>9 DEF Call
  <2> QED BY <2>1, <2>2
<1>10. ASSUME NEW s \in Seeders, Resume(s)
       PROVE  Kept /\ SeedersSound'
  <2> DEFINE saved == [offset |-> offset, stands |-> stands, tasks |-> tasks]
             frame == [at |-> "applying", saved |-> saved]
  <2>0. mode' = mode
    BY <1>10 DEF Resume
  <2>1. SavedSound(saved)
    BY DEF Sound, TasksSound, SavedSound, NothingOverdue, Now
  <2>2. frame.at = "applying" => SavedSound(frame.saved)
    BY <2>1
  <2>3. CASE Waits(s, frame) /\ UNCHANGED <<timeVars, taskVars>>
    BY <1>1, <1>4, <2>0, <2>2, <2>3 DEF timeVars, taskVars, Now
  <2>4. CASE Reset /\ Waits(s, frame)
    BY <1>4, <2>0, <2>2, <2>4, ResetSound
  <2>5. CASE Reset /\ Answers(s)
    BY <1>3, <2>0, <2>5, ResetSound
  <2>6. CASE Crash(s, TRUE)
    BY <1>1, <1>4, <2>0, <2>6 DEF Crash, timeVars, taskVars, Now
  <2> QED BY <1>10, <2>3, <2>4, <2>5, <2>6 DEF Resume
<1>11. ASSUME NEW s \in Seeders, Applied(s)
       PROVE  Kept /\ SeedersSound'
  BY <1>1, <1>3, <1>11 DEF Applied, timeVars, taskVars, Now
<1>12. ASSUME NEW s \in Seeders, ApplyFails(s)
       PROVE  Kept /\ SeedersSound'
  <2>0. mode' = mode
    BY <1>12 DEF ApplyFails
  <2>1. seeding[s].saved \in Checkpoint /\ SavedSound(seeding[s].saved)
    BY <1>12 DEF Sound, TasksSound, SeedersSound, ApplyFails, TypeOK, Seeding
  <2>2. CASE Restore(seeding[s].saved) /\ Answers(s)
    BY <1>3, <2>0, <2>1, <2>2, RestoreSound
  <2>3. CASE Crash(s, FALSE)
    BY <1>1, <1>4, <2>0, <2>3 DEF Crash, timeVars, taskVars, Now
  <2> QED BY <1>12, <2>2, <2>3 DEF ApplyFails
<1>13. \/ UNCHANGED <<mode, tasks, runs, holds, timeVars, seeding>>
       \/ \E work \in Works, delay \in Delays : Schedule(work, delay)
       \/ \E j \in DOMAIN jobs : JobStep(j)
       \/ RealTick
       \/ \E s \in Seeders, op \in ResetOps : Call(s, op)
       \/ \E s \in Seeders : Resume(s) \/ Applied(s) \/ ApplyFails(s)
  BY DEF Next, Advance, Fire, SeederStep, vars, taskVars
<1> QED BY <1>0, <1>5, <1>6, <1>7, <1>8, <1>9, <1>10, <1>11, <1>12, <1>13
        DEF Sound, TasksSound

LEMMA InitSound == Init => Sound
BY DEF Init, Sound, TypeOK, TasksSound, SeedersSound, Distinct, RunOnce, HoldsHaveTasks,
       NothingOverdue

\* The invariant that the theorems about tasks follow from.
LEMMA SoundAlways == Spec => []Sound
<1>1. Sound /\ [Next]_vars => Sound'
  BY StepSound
<1> QED BY InitSound, <1>1, PTL DEF Spec

(***************************************************************************)
(* A scheduled task runs once, whatever timers, advances, resets and       *)
(* restores compete for it.                                                *)
(***************************************************************************)
THEOREM TasksRunOnce == Spec => []RunOnce
<1>1. Sound => RunOnce
  BY DEF Sound, TasksSound
<1> QED BY SoundAlways, <1>1, PTL

(***************************************************************************)
(* A held request that waits always has its task on the clock.             *)
(***************************************************************************)
THEOREM HoldsKeepTasks == Spec => []HoldsHaveTasks
<1>1. Sound => HoldsHaveTasks
  BY DEF Sound, TasksSound
<1> QED BY SoundAlways, <1>1, PTL

(***************************************************************************)
(* A manual clock never passes a task that is pending.                     *)
(***************************************************************************)
THEOREM ManualNeverOverdue == Spec => []NothingOverdue
<1>1. Sound => NothingOverdue
  BY DEF Sound, TasksSound
<1> QED BY SoundAlways, <1>1, PTL

-----------------------------------------------------------------------------
(***************************************************************************)
(* The agenda.  A timer does not fire before the clock shows the instant   *)
(* of its task: the offset only grows while the task is there, and a       *)
(* restore sets the timers anew.                                           *)
(***************************************************************************)
TimersSound ==
  /\ \A t \in tasks : t.armed => mode # "manual" /\ t.due <= t.fires + offset
  /\ \A j \in DOMAIN jobs : jobs[j].kind = "take" =>
       jobs[j].task.armed /\ jobs[j].task.fires <= real

\* The task scheduled last has the highest number, also after a restore.
SeqsSound ==
  /\ \A t \in tasks : t.seq < nextSeq
  /\ \A s \in Applying : \A t \in seeding[s].saved.tasks : t.seq < nextSeq

AgendaSound == Sound /\ TimersSound /\ SeqsSound

Entry(t) == [work |-> t.work, due |-> t.due, seq |-> t.seq]
Ran == {w \in Works : runs[w] > 0}
Kept == {Pending(seeding[s].saved.tasks) : s \in Applying}

\* A timer that is set at an instant that the clock shows as `t`.
LEMMA TimerInTime ==
  ASSUME TypeOK, NEW due \in Nat, NEW t \in Nat, NEW work, NEW seq, NEW made,
         NEW task, task = NewTask(work, due, seq, made, t), task.armed
  PROVE  mode # "manual" /\ due - t <= task.fires - real
<1>1. mode = "real" /\ due - t <= MaxTimer
  BY DEF NewTask, Armed
<1>2. task.fires = real + Later(0, due - t)
  BY <1>1 DEF NewTask, Armed, TimerAt
<1> QED BY <1>1, <1>2, ClockAssumption DEF TypeOK, Later

\* A new task on the clock.
LEMMA ScheduleTimers ==
  ASSUME AgendaSound, NEW work \in Works, NEW delay \in Delays, Schedule(work, delay)
  PROVE  TimersSound' /\ SeqsSound'
<1> DEFINE new == NewTask(work, Now + delay, nextSeq, resets, Now)
<1>1. /\ tasks' = tasks \union {new} /\ nextSeq' = nextSeq + 1
      /\ UNCHANGED <<mode, real, offset, jobs, seeding>>
  BY DEF Schedule, timeVars
<1>2. new.seq = nextSeq /\ new.due = Now + delay
  BY DEF NewTask
<1>3. Now \in Nat /\ delay \in Nat /\ TypeOK
  BY NowTyped, ClockAssumption DEF AgendaSound, Sound
<1>4. new \in Task
  <2>1. Now + delay \in Nat /\ nextSeq \in Nat /\ resets \in Nat
    BY <1>3 DEF TypeOK
  <2> QED BY <1>3, <2>1, NewTaskTyped
<1>5. ASSUME new.armed
      PROVE  mode # "manual" /\ new.due <= new.fires + offset
  <2>1. mode # "manual" /\ Now + delay - Now <= new.fires - real
    BY <1>3, <1>5, TimerInTime
  <2>2. Now = real + offset
    BY <2>1 DEF Now
  <2>3. Now \in Nat /\ delay \in Nat /\ real \in Nat /\ offset \in Nat /\ new.fires \in Nat
    BY <1>3, <1>4 DEF TypeOK, Task
  <2> HIDE DEF new
  <2> QED BY <1>2, <2>1, <2>2, <2>3
<1> HIDE DEF new
<1>6. TimersSound'
  BY <1>1, <1>5 DEF AgendaSound, TimersSound
<1>7. SeqsSound'
  <2>1. /\ nextSeq \in Nat /\ \A t \in tasks : t.seq \in Nat
        /\ \A s \in Applying : \A t \in seeding[s].saved.tasks : t.seq \in Nat
    BY <1>3 DEF TypeOK, Task, Applying, Seeding, Checkpoint
  <2> QED BY <1>1, <1>2, <2>1 DEF AgendaSound, SeqsSound, Applying
<1> QED BY <1>6, <1>7

\* A restore sets the timers by the time that it puts back.
LEMMA RestoreTimers ==
  ASSUME AgendaSound, NEW s \in Applying, Restore(seeding[s].saved), UNCHANGED <<mode, jobs>>
  PROVE  TimersSound' /\ \A t \in tasks' : t.seq < nextSeq'
<1> DEFINE saved == seeding[s].saved
           t0 == IF mode = "manual" THEN saved.stands ELSE real + saved.offset
           New(t) == NewTask(t.work, t.due, t.seq, resets + 1, t0)
<1>0. saved \in Checkpoint /\ TypeOK
  BY DEF AgendaSound, Sound, TypeOK, Applying, Seeding
<1>1. /\ tasks' = {New(t) : t \in saved.tasks}
      /\ offset' = saved.offset /\ UNCHANGED <<real, nextSeq>>
  BY DEF Restore, ResetTo
<1>2. t0 \in Nat /\ saved.offset \in Nat /\ real \in Nat
  <2> HIDE DEF saved
  <2> QED BY <1>0 DEF TypeOK, Checkpoint
<1>3. ASSUME NEW t \in saved.tasks
      PROVE  /\ New(t).armed => mode # "manual" /\ New(t).due <= New(t).fires + saved.offset
             /\ New(t).seq < nextSeq
  <2>1. New(t).due = t.due /\ New(t).seq = t.seq
    BY DEF NewTask
  <2>2. t \in Task /\ t.seq < nextSeq
    BY <1>0 DEF Checkpoint, AgendaSound, SeqsSound
  <2>3. ASSUME New(t).armed
        PROVE  mode # "manual" /\ New(t).due <= New(t).fires + saved.offset
    <3> HIDE DEF saved, t0
    <3>1. mode # "manual" /\ t.due - t0 <= New(t).fires - real
      BY <1>0, <1>2, <2>2, <2>3, TimerInTime DEF Task
    <3>2. t0 = real + saved.offset
      BY <3>1 DEF t0
    <3>3. New(t) \in Task
      <4>1. resets + 1 \in Nat /\ t.work \in Works /\ t.due \in Nat /\ t.seq \in Nat
        BY <1>0, <2>2 DEF TypeOK, Task
      <4> QED BY <1>0, <1>2, <4>1, NewTaskTyped
    <3>4. t.due \in Nat /\ New(t).fires \in Nat
      BY <2>2, <3>3 DEF Task
    <3> QED BY <1>2, <2>1, <3>1, <3>2, <3>4
  <2> QED BY <2>1, <2>2, <2>3
<1> HIDE DEF New, saved
<1>4. TimersSound'
  BY <1>1, <1>3 DEF AgendaSound, TimersSound
<1> QED BY <1>1, <1>3, <1>4

\* A move of the clock lets no timer fire too early.
LEMMA MoveTimers ==
  ASSUME TypeOK, NEW instant \in Nat, MoveTo(instant), UNCHANGED mode
  PROVE  real' = real /\ (mode # "manual" => offset <= offset')
<1>1. Now <= Now' /\ real \in Nat /\ offset \in Nat /\ offset' \in Nat
  BY MoveShows, MoveTyped DEF TypeOK
<1>2. real' = real
  BY DEF MoveTo
<1>3. ASSUME mode # "manual"
      PROVE  offset <= offset'
  <2>1. Now = real + offset
    BY <1>3 DEF Now
  <2>2. Now' = real + offset'
    BY <1>2, <1>3 DEF Now
  <2>3. real + offset <= real + offset'
    BY <1>1, <2>1, <2>2
  <2>4. \A a, b, c \in Nat : a + b <= a + c => b <= c
    OBVIOUS
  <2> QED BY <1>1, <2>3, <2>4
<1> QED BY <1>2, <1>3

\* What a caller of the clock keeps is what it kept, or the tasks of now.
LEMMA CallerKeeps ==
  ASSUME NEW s \in Seeders,
         Applied(s) \/ Resume(s) \/ ApplyFails(s) \/ \E op \in ResetOps : Call(s, op)
  PROVE  \A x \in Applying' : \/ x \in Applying /\ seeding'[x] = seeding[x]
                              \/ seeding'[x].saved.tasks = tasks
<1> DEFINE saved == [offset |-> offset, stands |-> stands, tasks |-> tasks]
           frame == [at |-> "applying", saved |-> saved]
<1>1. \/ \E f : f.at # "applying" /\ Waits(s, f)
      \/ Answers(s)
      \/ Waits(s, frame)
  <2>1. \A op \in ResetOps : [at |-> "idle", op |-> op, on |-> Idle].at # "applying"
    OBVIOUS
  <2>2. \A first : [at |-> "crashed", first |-> first].at # "applying"
    OBVIOUS
  <2>3. CASE \E op \in ResetOps : Call(s, op)
    BY <2>1, <2>3 DEF Call
  <2>4. CASE Applied(s)
    BY <2>4 DEF Applied
  <2>5. CASE Resume(s)
    BY <2>2, <2>5 DEF Resume, Crash
  <2>6. CASE ApplyFails(s)
    BY <2>2, <2>6 DEF ApplyFails, Crash
  <2> QED BY <2>3, <2>4, <2>5, <2>6
<1> SUFFICES ASSUME NEW x \in Applying'
             PROVE  \/ x \in Applying /\ seeding'[x] = seeding[x]
                    \/ seeding'[x].saved.tasks = tasks
  OBVIOUS
<1>2. saved.tasks = tasks
  OBVIOUS
<1> HIDE DEF saved
<1>3. CASE \E f : f.at # "applying" /\ Waits(s, f)
  BY <1>3 DEF Applying, Waits
<1>4. CASE Answers(s)
  BY <1>4 DEF Applying, Answers, Restrict
<1>5. CASE Waits(s, frame)
  BY <1>2, <1>5 DEF Applying, Waits
<1> QED BY <1>1, <1>3, <1>4, <1>5

\* Every step keeps timers and numbers sound.
LEMMA StepTimers ==
  ASSUME AgendaSound, [Next]_vars
  PROVE  TimersSound' /\ SeqsSound'
<1>0. /\ TypeOK /\ nextSeq \in Nat /\ real \in Nat /\ offset \in Nat
      /\ \A t \in tasks : t.fires \in Nat /\ t.due \in Nat
  BY DEF AgendaSound, Sound, TypeOK, Task
\* Tasks may leave, the offset may grow, and a new caller of the clock keeps nothing.
<1>1. ASSUME tasks' \subseteq tasks, jobs' = jobs, real <= real', real' \in Nat,
             mode # "manual" => offset <= offset' /\ offset' \in Nat, UNCHANGED mode
      PROVE  TimersSound'
  <2>1. \A t \in tasks' : t.armed => mode' # "manual" /\ t.due <= t.fires + offset'
    BY <1>0, <1>1 DEF AgendaSound, TimersSound
  <2>2. \A j \in DOMAIN jobs : jobs[j].kind = "take" => jobs[j].task.fires \in Nat
    BY <1>0 DEF TypeOK, Job, Task
  <2>3. \A j \in DOMAIN jobs' : jobs'[j].kind = "take" =>
          jobs'[j].task.armed /\ jobs'[j].task.fires <= real'
    BY <1>0, <1>1, <2>2 DEF AgendaSound, TimersSound
  <2> QED BY <2>1, <2>3 DEF TimersSound
<1>2. ASSUME tasks' \subseteq tasks, UNCHANGED <<nextSeq, seeding>>
      PROVE  SeqsSound'
  BY <1>2 DEF AgendaSound, SeqsSound, Applying
<1>3. ASSUME NEW work \in Works, NEW delay \in Delays, Schedule(work, delay)
      PROVE  TimersSound' /\ SeqsSound'
  BY <1>3, ScheduleTimers
<1>4. ASSUME NEW ms \in Amounts, Advance(ms)
      PROVE  TimersSound' /\ SeqsSound'
  <2>1. \A j \in DOMAIN jobs' : jobs'[j].kind = "take" => j \in DOMAIN jobs /\ jobs'[j] = jobs[j]
    BY <1>0, <1>4 DEF Advance, Enqueue, TypeOK
  <2>2. UNCHANGED <<mode, tasks, offset, real>>
    BY <1>4 DEF Advance, timeVars, taskVars
  <2>3. TimersSound'
    BY <2>1, <2>2 DEF AgendaSound, TimersSound
  <2> QED BY <1>2, <1>4, <2>3 DEF Advance, taskVars
<1>5. ASSUME NEW t \in tasks, Fire(t)
      PROVE  TimersSound' /\ SeqsSound'
  <2> DEFINE job == [kind |-> "take", task |-> t, after |-> last, status |-> "waiting",
                     work |-> NoWork]
  <2>1. t.armed /\ t.fires <= real /\ UNCHANGED <<mode, tasks, offset, real>>
    BY <1>5 DEF Fire, timeVars
  <2>2. jobs' = Append(jobs, job) /\ jobs \in Seq(Job)
    BY <1>0, <1>5 DEF Fire, Enqueue, TypeOK
  <2>3. \A j \in DOMAIN jobs' : (j \in DOMAIN jobs /\ jobs'[j] = jobs[j]) \/ jobs'[j].task = t
    BY <2>2
  <2>4. TimersSound'
    BY <2>1, <2>3 DEF AgendaSound, TimersSound
  <2> QED BY <1>2, <1>5, <2>4 DEF Fire
<1>6. ASSUME NEW j \in DOMAIN jobs, JobStep(j)
      PROVE  TimersSound' /\ SeqsSound'
  <2>1. /\ UNCHANGED <<mode, nextSeq, seeding>>
        /\ tasks' \subseteq tasks
    BY <1>6 DEF JobStep, StartAdvance, StartTake, AdvanceStep, RunOver, RunThrows, taskVars,
                BeginRun
  <2>2. real' = real /\ (mode # "manual" => offset <= offset' /\ offset' \in Nat)
    <3>1. CASE AdvanceStep(j)
      <4>1. jobs[j].target \in Nat
        BY <1>0, <3>1, JobTyped DEF AdvanceStep, Job
      <4> QED BY <1>0, <2>1, <3>1, <4>1, MoveTimers, MoveTyped DEF AdvanceStep
    <3>2. CASE UNCHANGED timeVars
      BY <1>0, <3>2 DEF timeVars
    <3> QED BY <1>6, <3>1, <3>2 DEF JobStep, StartAdvance, StartTake, RunOver, RunThrows
  <2>3. DOMAIN jobs' = DOMAIN jobs /\ \A i \in DOMAIN jobs :
          jobs'[i].kind = jobs[i].kind /\ (jobs[i].kind = "take" => jobs'[i].task = jobs[i].task)
    <3>1. jobs[j] \in Job
      BY <1>0, JobTyped
    <3>2. \A i \in DOMAIN jobs \ {j} : jobs'[i] = jobs[i]
      BY <1>0, <1>6, JobMoves
    <3>3. DOMAIN jobs' = DOMAIN jobs
      BY <1>0, <1>6, JobMoves
    <3>4. jobs'[j].kind = jobs[j].kind /\ (jobs[j].kind = "take" => jobs'[j].task = jobs[j].task)
      <4>1. CASE StartAdvance(j)
        BY <3>1, <4>1 DEF StartAdvance, Job
      <4>2. CASE StartTake(j)
        BY <3>1, <4>2 DEF StartTake, Job
      <4>3. CASE AdvanceStep(j)
        BY <3>1, <4>3 DEF AdvanceStep, Job
      <4>4. CASE RunOver(j) \/ RunThrows(j)
        BY <3>1, <4>4 DEF RunOver, RunThrows, Job
      <4> QED BY <1>6, <4>1, <4>2, <4>3, <4>4 DEF JobStep
    <3> QED BY <3>2, <3>3, <3>4
  <2>4. TimersSound'
    <3>1. \A t \in tasks' : t.armed => mode' # "manual" /\ t.due <= t.fires + offset'
      BY <1>0, <2>1, <2>2 DEF AgendaSound, TimersSound
    <3>2. \A i \in DOMAIN jobs' : jobs'[i].kind = "take" =>
            jobs'[i].task.armed /\ jobs'[i].task.fires <= real'
      BY <2>2, <2>3 DEF AgendaSound, TimersSound
    <3> QED BY <3>1, <3>2 DEF TimersSound
  <2> QED BY <1>2, <2>1, <2>4
<1>7. ASSUME RealTick
      PROVE  TimersSound' /\ SeqsSound'
  <2>1. /\ UNCHANGED <<mode, offset, tasks, jobs, nextSeq, seeding>>
        /\ real <= real' /\ real' \in Nat
    BY <1>0, <1>7 DEF RealTick, taskVars
  <2> QED BY <1>0, <1>1, <1>2, <2>1
<1>8. ASSUME NEW s \in Seeders,
             Applied(s) \/ Resume(s) \/ ApplyFails(s) \/ \E op \in ResetOps : Call(s, op)
      PROVE  TimersSound' /\ SeqsSound'
  <2>1. UNCHANGED <<mode, jobs>>
    BY <1>8 DEF Applied, Resume, ApplyFails, Call
  <2>3. nextSeq' = nextSeq
    BY <1>8 DEF Applied, Resume, ApplyFails, Call, Reset, Restore, ResetTo, Crash, taskVars
  <2>4. \A x \in Applying' : \A t \in seeding'[x].saved.tasks : t.seq < nextSeq'
    BY <1>8, <2>3, CallerKeeps DEF AgendaSound, SeqsSound
  <2>5. CASE UNCHANGED <<timeVars, taskVars>>
    <3>1. TimersSound'
      BY <1>0, <1>1, <2>1, <2>5 DEF timeVars, taskVars
    <3> QED BY <2>4, <2>5, <3>1 DEF AgendaSound, SeqsSound, taskVars
  <2>6. CASE Reset
    <3>1. tasks' = {} /\ real' = real
      BY <2>6 DEF Reset, ResetTo
    <3> QED BY <2>1, <2>4, <3>1 DEF AgendaSound, TimersSound, SeqsSound
  <2>7. CASE s \in Applying /\ Restore(seeding[s].saved)
    BY <2>1, <2>4, <2>7, RestoreTimers DEF SeqsSound
  <2> QED BY <1>8, <2>5, <2>6, <2>7 DEF Applied, Resume, ApplyFails, Call, Crash, Applying
<1>9. CASE UNCHANGED vars
  BY <1>0, <1>1, <1>2, <1>9 DEF vars, timeVars, taskVars
<1> QED BY <1>3, <1>4, <1>5, <1>6, <1>7, <1>8, <1>9 DEF Next, SeederStep

LEMMA AgendaAlways == Spec => []AgendaSound
<1>1. Init => AgendaSound
  BY InitSound DEF Init, AgendaSound, TimersSound, SeqsSound, Applying
<1>2. AgendaSound /\ [Next]_vars => AgendaSound'
  BY StepSound, StepTimers DEF AgendaSound
<1> QED BY <1>1, <1>2, PTL DEF Spec

Shown == <<mode = "manual", Now, Pending(tasks), Ran, Kept, resets>>

\* An advance or a timer takes a task that is due.
LEMMA BeginRunShows ==
  ASSUME AgendaSound, NEW t \in tasks, BeginRun(t), UNCHANGED <<mode, seeding>>,
         Now \in Nat, Now' \in Nat, Now <= Now', t.due <= Now',
         mode = "manual" => \A u \in tasks : Now' <= u.due /\ ByDue(t, u)
  PROVE  Promised!Next
<1>1. /\ tasks' = tasks \ {t} /\ runs' = [runs EXCEPT ![t.work] = @ + 1]
      /\ resets' = resets
  BY DEF BeginRun
<1>2. /\ t.work \in Works /\ runs \in [Works -> Nat] /\ runs[t.work] = 0
      /\ Distinct(tasks)
  <2>1. t.work \in Works /\ runs \in [Works -> Nat]
    BY DEF AgendaSound, Sound, TypeOK, Task
  <2>2. runs[t.work] <= 1 /\ runs[t.work] # 1
    BY <2>1 DEF AgendaSound, Sound, TasksSound, RunOnce
  <2> QED BY <2>1, <2>2 DEF AgendaSound, Sound, TasksSound
<1>3. Entry(t) \in Pending(tasks) /\ Pending(tasks') = Pending(tasks) \ {Entry(t)}
  BY <1>1, <1>2 DEF Pending, Entry, Distinct
<1>4. Ran' = Ran \union {t.work} /\ t.work \notin Ran
  BY <1>1, <1>2 DEF Ran
<1>5. Kept' = Kept
  BY DEF Kept, Applying
<1>6. mode = "manual" => \A e \in Pending(tasks) : Now' <= e.due /\ Promised!Before(Entry(t), e)
  BY DEF Pending, Entry, ByDue, Promised!Before
<1>7. Promised!Run(Entry(t))
  <2>1. Entry(t).work = t.work /\ Entry(t).due = t.due
    BY DEF Entry
  <2> QED BY <1>1, <1>3, <1>4, <1>6, <2>1
      DEF Promised!Run, Promised!Forward, Promised!PassesNone, Ran
<1> QED BY <1>3, <1>5, <1>7 DEF Promised!Next, Kept

\* A step that runs nothing: time moves on at most.
LEMMA PassShows ==
  ASSUME UNCHANGED <<mode, tasks, runs, resets>>, Now' \in Nat, Now <= Now',
         Kept' \subseteq Kept \union {Pending(tasks)},
         mode = "manual" => \A u \in tasks : Now' <= u.due
  PROVE  Promised!Next
<1>1. UNCHANGED <<Pending(tasks), Ran>>
  BY DEF Pending, Ran
<1>2. mode = "manual" => \A e \in Pending(tasks) : Now' <= e.due
  BY DEF Pending
<1>3. Promised!Pass
  BY <1>1, <1>2 DEF Promised!Pass, Promised!Forward, Promised!PassesNone, Ran
<1> QED BY <1>3 DEF Promised!Next, Kept

\* A task is put on the clock.
LEMMA ScheduleShows ==
  ASSUME AgendaSound, NEW work \in Works, NEW delay \in Delays, Schedule(work, delay)
  PROVE  Promised!Next
<1> DEFINE new == NewTask(work, Now + delay, nextSeq, resets, Now)
<1>1. /\ tasks' = tasks \union {new} /\ runs[work] = 0 /\ \A t \in tasks : t.work # work
      /\ UNCHANGED <<mode, resets, runs, seeding>> /\ Now' = Now
  BY DEF Schedule, timeVars, Now
<1>2. new.work = work /\ new.due = Now + delay /\ new.seq = nextSeq
  BY DEF NewTask
<1>3. Now \in Nat /\ delay \in Nat
  BY NowTyped, ClockAssumption DEF AgendaSound, Sound
<1> HIDE DEF new
<1>4. /\ Pending(tasks') = Pending(tasks) \union {Entry(new)}
      /\ Entry(new).work = work /\ Entry(new).due = Now + delay /\ Entry(new).seq = nextSeq
  BY <1>1, <1>2 DEF Pending, Entry
<1>5. \A f \in Pending(tasks) : f.work # work /\ f.seq < nextSeq
  BY <1>1 DEF Pending, AgendaSound, SeqsSound
<1>6. work \notin Ran /\ Ran' = Ran /\ Kept' = Kept
  BY <1>1 DEF Ran, Kept, Applying
<1>7. Promised!Put(Entry(new))
  <2>1. Now <= Entry(new).due
    BY <1>3, <1>4
  <2>2. Entry(new).work \in Works \ Ran
    BY <1>4, <1>6
  <2>3. \A f \in Pending(tasks) : f.work # Entry(new).work /\ f.seq < Entry(new).seq
    BY <1>4, <1>5
  <2> QED BY <1>1, <1>4, <2>1, <2>2, <2>3 DEF Promised!Put, Ran
<1>8. Entry(new) \in Pending(tasks') \ Pending(tasks)
  BY <1>4, <1>5
<1> QED BY <1>1, <1>3, <1>6, <1>7, <1>8 DEF Promised!Next, Kept

\* All tasks are dropped, or those of a checkpoint put back.
LEMMA ResetShows ==
  ASSUME AgendaSound, Reset, UNCHANGED mode, Now' \in Nat,
         Kept' \subseteq Kept \union {Pending(tasks)}
  PROVE  Promised!Next
<1>1. Pending(tasks') = {} /\ Ran' = Ran /\ resets' = resets + 1
  BY DEF Reset, ResetTo, Pending, Ran
<1>2. Promised!Drop
  BY <1>1 DEF Promised!Drop, Ran
<1> QED BY <1>2 DEF Promised!Next, Kept

LEMMA RestoreShows ==
  ASSUME AgendaSound, NEW s \in Applying, Restore(seeding[s].saved), UNCHANGED mode,
         Now' \in Nat, Kept' \subseteq Kept \union {Pending(tasks)}
  PROVE  Promised!Next
<1> DEFINE saved == seeding[s].saved
           t0 == IF mode = "manual" THEN saved.stands ELSE real + saved.offset
           New(t) == NewTask(t.work, t.due, t.seq, resets + 1, t0)
           again == {t.work : t \in saved.tasks}
<1>1. /\ tasks' = {New(t) : t \in saved.tasks}
      /\ stands' = saved.stands /\ resets' = resets + 1
      /\ runs' = [w \in Works |-> IF w \in again THEN 0 ELSE runs[w]]
  BY DEF Restore, ResetTo
<1>2. \A t \in saved.tasks : New(t).work = t.work /\ New(t).due = t.due /\ New(t).seq = t.seq
  BY DEF NewTask
<1>3. /\ SavedSound(saved) /\ saved \in Checkpoint /\ runs \in [Works -> Nat]
      /\ Pending(saved.tasks) \in Kept
  BY DEF AgendaSound, Sound, TasksSound, SeedersSound, TypeOK, Applying, Seeding, Kept
<1> HIDE DEF New, saved
<1>4. Pending(tasks') = Pending(saved.tasks)
  BY <1>1, <1>2 DEF Pending
<1>5. Ran' = Ran \ {e.work : e \in Pending(tasks')}
  <2>1. \A w : w \in again <=> \E e \in Pending(saved.tasks) : e.work = w
    <3>1. \A t \in saved.tasks : Entry(t) \in Pending(saved.tasks)
      BY DEF Pending, Entry
    <3>2. \A e \in Pending(saved.tasks) : \E t \in saved.tasks : e = Entry(t)
      BY DEF Pending, Entry
    <3>3. \A t \in saved.tasks : Entry(t).work = t.work
      BY DEF Entry
    <3> QED BY <3>1, <3>2, <3>3
  <2> HIDE DEF again
  <2>2. \A w \in Works : runs'[w] > 0 <=> runs[w] > 0 /\ w \notin again
    BY <1>1, <1>3
  <2>3. \A w : w \in {e.work : e \in Pending(tasks')} <=> w \in again
    BY <1>4, <2>1
  <2> QED BY <2>2, <2>3 DEF Ran
<1>6. mode = "manual" => \A e \in Pending(tasks') : Now' <= e.due
  <2>1. mode = "manual" => Now' = saved.stands
    BY <1>1 DEF Now
  <2> QED BY <1>3, <1>4, <2>1 DEF Pending, SavedSound
<1>7. Promised!PutBack
  BY <1>1, <1>3, <1>4, <1>5, <1>6 DEF Promised!PutBack, Ran, Kept
<1> QED BY <1>7 DEF Promised!Next, Kept

\* Every step is one that the agenda allows.
LEMMA StepShows ==
  ASSUME AgendaSound, [Next]_vars
  PROVE  [Promised!Next]_Shown
<1>0. /\ TypeOK /\ Now \in Nat /\ Now' \in Nat
      /\ \A t \in tasks : t.due \in Nat
      /\ mode = "manual" => \A t \in tasks : Now <= t.due
  <2>1. TypeOK /\ TypeOK'
    BY StepTyped DEF AgendaSound, Sound
  <2>2. Now' \in Nat
    BY <2>1 DEF Now, TypeOK
  <2> QED BY <2>1, <2>2, NowTyped DEF AgendaSound, Sound, TasksSound, NothingOverdue, TypeOK, Task
\* Most steps change nothing that is promised.
<1>1. ASSUME UNCHANGED <<mode, timeVars, tasks, runs, resets>>,
             Kept' \subseteq Kept \union {Pending(tasks)}
      PROVE  Promised!Next
  <2>1. Now' = Now
    BY <1>1 DEF Now, timeVars
  <2> QED BY <1>0, <1>1, <2>1, PassShows
<1>2. ASSUME NEW work \in Works, NEW delay \in Delays, Schedule(work, delay)
      PROVE  Promised!Next
  BY <1>2, ScheduleShows
<1>3. ASSUME UNCHANGED <<mode, timeVars, tasks, runs, resets, seeding>>
      PROVE  Promised!Next
  BY <1>1, <1>3 DEF Kept, Applying
<1>4. ASSUME NEW j \in DOMAIN jobs, JobStep(j)
      PROVE  Promised!Next
  <2>1. UNCHANGED <<mode, seeding>>
    BY <1>4 DEF JobStep, StartAdvance, StartTake, AdvanceStep, RunOver, RunThrows
  <2>2. CASE StartAdvance(j) \/ RunOver(j) \/ RunThrows(j)
    BY <1>3, <2>1, <2>2 DEF StartAdvance, RunOver, RunThrows, taskVars
  <2>3. CASE StartTake(j)
    <3> DEFINE t == jobs[j].task
    <3>1. UNCHANGED timeVars /\ jobs[j].kind = "take"
      BY <2>3 DEF StartTake
    <3>2. CASE Claimed(t)
      <4>1. t \in tasks /\ BeginRun(t)
        BY <2>3, <3>2 DEF StartTake, Claimed
      <4>2. t.armed /\ t.fires <= real
        BY <3>1 DEF AgendaSound, TimersSound
      <4>3. mode # "manual" /\ t.due <= t.fires + offset
        BY <4>1, <4>2 DEF AgendaSound, TimersSound
      <4>4. t.due <= Now /\ Now' = Now
        <5>1. Now = real + offset /\ Now' = Now
          BY <2>1, <3>1, <4>3 DEF Now, timeVars
        <5>2. t.fires \in Nat /\ t.due \in Nat /\ real \in Nat /\ offset \in Nat
          BY <1>0, <4>1 DEF TypeOK, Task
        <5> HIDE DEF t
        <5> QED BY <4>2, <4>3, <5>1, <5>2
      <4> HIDE DEF t
      <4> QED BY <1>0, <2>1, <4>1, <4>3, <4>4, BeginRunShows
    <3>3. CASE ~Claimed(t)
      BY <1>3, <2>1, <2>3, <3>1, <3>3 DEF StartTake, taskVars
    <3> QED BY <3>2, <3>3
  <2>4. CASE AdvanceStep(j)
    <3> DEFINE target == jobs[j].target
               dueTasks == {t \in tasks : t.due <= target}
    <3>1. target \in Nat
      BY <1>0, <2>4, JobTyped DEF AdvanceStep, Job
    <3>2. CASE dueTasks = {} /\ MoveTo(target) /\ UNCHANGED taskVars
      <4>1. Now' = Later(Now, target) /\ Now <= Now'
        BY <1>0, <2>1, <3>1, <3>2, MoveShows
      <4>2. mode = "manual" => \A u \in tasks : Now' <= u.due
        BY <1>0, <3>1, <3>2, <4>1 DEF Later
      <4>3. Kept' \subseteq Kept \union {Pending(tasks)}
        BY <2>1 DEF Kept, Applying
      <4> QED BY <1>0, <2>1, <3>2, <4>1, <4>2, <4>3, PassShows DEF taskVars
    <3>3. ASSUME NEW t \in dueTasks, \A u \in dueTasks : ByDue(t, u), MoveTo(t.due), BeginRun(t)
          PROVE  Promised!Next
      <4>1. Now' = Later(Now, t.due) /\ Now <= Now'
        BY <1>0, <2>1, <3>3, MoveShows
      <4>2. t.due <= Now'
        BY <1>0, <3>3, <4>1 DEF Later
      <4>3. \A u \in tasks : ByDue(t, u)
        <5>1. \A u \in tasks \ dueTasks : t.due < u.due
          BY <1>0, <3>1, <3>3
        <5> QED BY <3>3, <5>1 DEF ByDue
      <4>4. mode = "manual" => \A u \in tasks : Now' <= u.due
        BY <1>0, <3>3, <4>1, <4>3 DEF Later, ByDue
      <4> QED BY <1>0, <2>1, <3>3, <4>1, <4>2, <4>3, <4>4, BeginRunShows
    <3> QED BY <2>4, <3>2, <3>3 DEF AdvanceStep
  <2> QED BY <1>4, <2>2, <2>3, <2>4 DEF JobStep
<1>5. ASSUME RealTick
      PROVE  Promised!Next
  <2>1. Now <= Now' /\ (mode = "manual" => Now' = Now)
    BY <1>0, <1>5 DEF RealTick, Now, TypeOK
  <2>2. UNCHANGED <<mode, tasks, runs, resets>> /\ Kept' = Kept
    BY <1>5 DEF RealTick, taskVars, Kept, Applying
  <2> QED BY <1>0, <2>1, <2>2, PassShows
<1>6. ASSUME NEW s \in Seeders,
             Applied(s) \/ Resume(s) \/ ApplyFails(s) \/ \E op \in ResetOps : Call(s, op)
      PROVE  Promised!Next
  <2>1. Kept' \subseteq Kept \union {Pending(tasks)}
    BY <1>6, CallerKeeps DEF Kept
  <2>2. mode' = mode
    BY <1>6 DEF Applied, Resume, ApplyFails, Call
  <2>3. CASE UNCHANGED <<timeVars, taskVars>>
    BY <1>1, <2>1, <2>2, <2>3 DEF taskVars
  <2>4. CASE Reset
    BY <1>0, <2>1, <2>2, <2>4, ResetShows
  <2>5. CASE s \in Applying /\ Restore(seeding[s].saved)
    BY <1>0, <2>1, <2>2, <2>5, RestoreShows
  <2> QED BY <1>6, <2>3, <2>4, <2>5 DEF Applied, Resume, ApplyFails, Call, Crash, Applying
<1>7. CASE UNCHANGED vars
  BY <1>3, <1>7 DEF vars, taskVars
<1>8. ASSUME UNCHANGED <<mode, timeVars, taskVars, seeding>>
      PROVE  Promised!Next
  BY <1>3, <1>8 DEF taskVars
<1> QED BY <1>2, <1>4, <1>5, <1>6, <1>7, <1>8, <1>3 DEF Next, SeederStep, Advance, Fire, taskVars

(***************************************************************************)
(* The clock keeps its agenda: for any number of works, jobs, timers,      *)
(* resets and failed seeds, in both modes, no task runs early or twice,    *)
(* time moves forward but for a reset, a manual clock runs all in order.   *)
(***************************************************************************)
THEOREM AgendaRefined == Spec => AgendaSpec
<1>1. Init => Promised!Init
  BY NowTyped, InitSound DEF Init, Promised!Init, Pending, Applying, Now
<1>2. AgendaSound /\ [Next]_vars => [Promised!Next]_Shown
  BY StepShows
<1> QED BY <1>1, <1>2, AgendaAlways, PTL
        DEF Spec, AgendaSpec, Promised!Spec, Promised!vars, Shown, Ran, Kept

=============================================================================
