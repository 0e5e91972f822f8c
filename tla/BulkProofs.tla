------------------------------ MODULE BulkProofs ------------------------------
(***************************************************************************)
(* Proofs about Bulk, for every choice of its constants: its types, that   *)
(* each request goes through the life of BulkLife, that the counters of a  *)
(* request match its messages, and that a paged list misses no request.    *)
(***************************************************************************)
EXTENDS Bulk, FiniteSetTheorems, SequenceTheorems, TLAPS

-----------------------------------------------------------------------------
(***************************************************************************)
(* The place of a request in a table, and what the API shows of it, for    *)
(* any objects and any table.                                              *)
(***************************************************************************)

\* A set of naturals has a least element: the numbers below those of the set that
\* are in it are finite sets, of which one is smallest.
LEMMA LeastNat ==
  ASSUME NEW S \in SUBSET Nat, S # {}
  PROVE  \E m \in S : \A n \in S : m <= n
<1> DEFINE below(n) == {k \in S : k < n}
           R == StrictSubsetOrdering(Nat)
<1>1. {below(n) : n \in S} \subseteq FiniteSubsetsOf(Nat)
  <2> SUFFICES ASSUME NEW n \in S PROVE below(n) \in FiniteSubsetsOf(Nat)
    OBVIOUS
  <2>1. IsFiniteSet(0..n)
    <3>1. 0 \in Int /\ n \in Int
      OBVIOUS
    <3> QED BY <3>1, FS_Interval
  <2>2. below(n) \subseteq 0..n
    <3>1. \A k \in S : k < n => k \in 0..n
      OBVIOUS
    <3> QED BY <3>1
  <2>3. IsFiniteSet(below(n))
    BY <2>1, <2>2, FS_Subset
  <2> QED BY <2>3 DEF FiniteSubsetsOf
<1>2. PICK m \in S : \A n \in S : ~ (<<below(n), below(m)>> \in R)
  <2>1. IsWellFoundedOn(R, FiniteSubsetsOf(Nat))
    BY FS_StrictSubsetOrderingWellFounded
  <2> DEFINE U == {below(n) : n \in S}
  <2>2. U \subseteq FiniteSubsetsOf(Nat) /\ U # {}
    BY <1>1
  <2>3. \E x \in U : \A y \in U : ~ (<<y, x>> \in R)
    <3> HIDE DEF U, R
    <3> QED BY <2>1, <2>2, WFMin
  <2> QED BY <2>3
<1>3. \A n \in S : m <= n
  <2> SUFFICES ASSUME NEW n \in S, n < m PROVE FALSE
    OBVIOUS
  <2>1. below(n) \subseteq below(m)
    <3>1. \A k \in S : k < n => k < m
      OBVIOUS
    <3> QED BY <3>1
  <2>2. n \in below(m) /\ n \notin below(n)
    OBVIOUS
  <2>3. below(n) \in SUBSET Nat /\ below(m) \in SUBSET Nat /\ below(n) # below(m)
    BY <2>2
  <2>4. <<below(n), below(m)>> \in R
    <3> HIDE DEF below
    <3> QED BY <2>1, <2>3 DEF StrictSubsetOrdering
  <2> QED BY <1>2, <2>4
<1> QED BY <1>3

\* `Min` of a set of naturals is its least element.
LEMMA MinIsLeast ==
  ASSUME NEW S \in SUBSET Nat, S # {}
  PROVE  Min(S) \in S /\ \A n \in S : Min(S) <= n
BY LeastNat DEF Min

\* The row of a request in table T of objects O.
RowIn(O, T, id) ==
  LET I == {i \in 1..Len(T) : O[T[i]].id = id}
  IN  IF I # {} THEN Min(I) ELSE 0

\* The row found for a request is one of its objects; when none is found, none is there.
LEMMA FirstRow ==
  ASSUME NEW O, NEW T \in Seq(DOMAIN O), NEW id
  PROVE  \/ RowIn(O, T, id) = 0 /\ \A i \in DOMAIN T : O[T[i]].id # id
         \/ /\ RowIn(O, T, id) # 0 /\ RowIn(O, T, id) \in DOMAIN T
            /\ O[T[RowIn(O, T, id)]].id = id
<1> DEFINE I == {i \in 1..Len(T) : O[T[i]].id = id}
<1>1. I \in SUBSET Nat /\ DOMAIN T = 1..Len(T) /\ 0 \notin I
  OBVIOUS
<1>2. CASE I = {}
  BY <1>1, <1>2 DEF RowIn
<1>3. CASE I # {}
  <2>1. Min(I) \in I
    BY <1>1, <1>3, MinIsLeast
  <2>2. RowIn(O, T, id) = Min(I)
    BY <1>3 DEF RowIn
  <2> QED BY <1>1, <2>1, <2>2
<1> QED BY <1>2, <1>3

\* The object that a client sees under the ID.
LiveIn(O, T, id, o) ==
  /\ o \in DOMAIN O
  /\ \E i \in DOMAIN T : T[i] = o
  /\ O[o].id = id
  /\ \A p \in DOMAIN O : O[p].id = id => p = o

None == [status |-> "none", total |-> 0, released |-> 0, failed |-> 0, stopped |-> FALSE]
Lost == [status |-> "gone", total |-> 0, released |-> 0, failed |-> 0, stopped |-> FALSE]
\* What is shown of a request, by the contents C, the objects O and the table T.
ShownIn(C, O, T, id) ==
  LET live == {o \in ToSet(T) : /\ O[o].id = id
                               /\ \A p \in DOMAIN O : O[p].id = O[o].id => p = o}
  IN  IF id > Len(C) THEN None
      ELSE IF live = {} THEN Lost
      ELSE CHOOSE v \in {View(O[o], Len(C[id])) : o \in live} : TRUE

\* What the API shows, now and after a step, in terms of ShownIn.
LEMMA ShownByIn ==
  /\ Shown = [id \in 1..MaxRequests |-> ShownIn(contents, objs, table, id)]
  /\ Shown' = [id \in 1..MaxRequests |-> ShownIn(contents', objs', table', id)]
BY DEF Shown, ShownIn, Live, Original, Unseen, None, Lost, Total

\* A request is shown as not there yet, as its live object, or as gone.
LEMMA ShownCases ==
  ASSUME NEW C, NEW O, NEW T \in Seq(DOMAIN O), NEW id
  PROVE  /\ id > Len(C) => ShownIn(C, O, T, id) = None
         /\ \A o : ~ (id > Len(C)) /\ LiveIn(O, T, id, o) =>
                     ShownIn(C, O, T, id) = View(O[o], Len(C[id]))
         /\ ~ (id > Len(C)) /\ (\A o : ~ LiveIn(O, T, id, o)) => ShownIn(C, O, T, id) = Lost
<1> DEFINE live == {o \in ToSet(T) : /\ O[o].id = id
                                    /\ \A p \in DOMAIN O : O[p].id = O[o].id => p = o}
<1>1. \A o : o \in live <=> LiveIn(O, T, id, o)
  BY DEF ToSet, LiveIn
<1>2. \A o, p \in live : o = p
  BY <1>1 DEF LiveIn
<1>3. ShownIn(C, O, T, id) =
        IF id > Len(C) THEN None
        ELSE IF live = {} THEN Lost
        ELSE CHOOSE v \in {View(O[o], Len(C[id])) : o \in live} : TRUE
  BY DEF ShownIn
<1> HIDE DEF live
<1>4. ASSUME NEW o \in live
      PROVE  (CHOOSE v \in {View(O[q], Len(C[id])) : q \in live} : TRUE) = View(O[o], Len(C[id]))
  <2>1. {View(O[q], Len(C[id])) : q \in live} = {View(O[o], Len(C[id]))}
    BY <1>2, <1>4
  <2> QED BY <2>1
<1> QED BY <1>1, <1>3, <1>4

-----------------------------------------------------------------------------
(***************************************************************************)
(* Types, and what else the proofs need: every object is of an accepted    *)
(* request, also those that a failed seed would make anew, and every task  *)
(* has its object, also those that a failed seed would put back.           *)
(***************************************************************************)
KnownIds ==
  /\ \A o \in DOMAIN objs : objs[o].id \in Ids
  /\ seeding.on => \A i \in DOMAIN seeding.table :
                     \E o \in DOMAIN objs : objs[o].id = seeding.table[i].id

TasksKnown ==
  /\ \A t \in tasks : t.obj \in DOMAIN objs
  /\ seeding.on => \A t \in seeding.tasks : t.obj \in DOMAIN objs

Sound == TypeOK /\ KnownIds /\ TasksKnown

\* A sequence over a set is one over any larger set.
LEMMA SeqSubset ==
  ASSUME NEW S, NEW R, S \subseteq R, NEW s \in Seq(S)
  PROVE  s \in Seq(R)
BY SeqMonotonic

\* The world of a send is typed after every change of it.
LEMMA ChangedTyped ==
  ASSUME NEW w \in World
  PROVE  Changed(w) \subseteq World
BY DEF Changed, SuppressionChanged, StreamChanged, ApprovalChanged, SenderConfirmed,
       SenderReplaced, World, StreamStates, SenderStates, Approvals

\* The account of a new seed and that of a reset are typed.
LEMMA WorldsTyped == FreshWorld \in World /\ EmptyWorld \in World
BY DEF FreshWorld, EmptyWorld, World, StreamStates, SenderStates, Approvals

\* At the start there is neither an object nor a task.
LEMMA InitSound == Init => Sound
<1> SUFFICES ASSUME Init PROVE Sound
  OBVIOUS
<1>1. TypeOK
  BY WorldsTyped, BulkAssumption DEF Init, TypeOK, NoSeed, Idle
<1>2. KnownIds
  BY DEF Init, KnownIds, NoSeed
<1> QED BY <1>1, <1>2 DEF Sound, Init, TasksKnown, NoSeed

\* An object may change in everything but the request it is of.
LEMMA SetSound ==
  ASSUME Sound, NEW o \in DOMAIN objs, NEW c \in Object, c.id = objs[o].id, Set(o, c)
  PROVE  /\ objs' \in Seq(Object) /\ DOMAIN objs' = DOMAIN objs
         /\ objs'[o] = c
         /\ \A p \in DOMAIN objs : p # o => objs'[p] = objs[p]
         /\ \A p \in DOMAIN objs : objs'[p].id = objs[p].id
<1>1. objs \in Seq(Object)
  BY DEF Sound, TypeOK
<1>2. objs' = [objs EXCEPT ![o] = c]
  BY DEF Set
<1>3. objs' \in Seq(Object) /\ DOMAIN objs' = DOMAIN objs
  BY <1>1, <1>2
<1>4. objs'[o] = c /\ \A p \in DOMAIN objs : p # o => objs'[p] = objs[p]
  BY <1>2
<1> QED BY <1>3, <1>4

\* A new request has one new object, which its tasks name.
LEMMA AcceptSound ==
  ASSUME Sound, NEW jobs \in Submissions, Accept(jobs)
  PROVE  Sound'
<1> DEFINE id == Len(contents) + 1
           o == Len(objs) + 1
           b == [id |-> id, status |-> "Accepted", released |-> 0, failed |-> 0, stopped |-> FALSE]
<1> USE DEF Sound
<1>1. b \in Object /\ objs' = Append(objs, b) /\ contents' = Append(contents, jobs)
      /\ table' = Append(table, o)
  BY DEF Accept, TypeOK, Object
<1>2. objs' \in Seq(Object) /\ DOMAIN objs' = DOMAIN objs \union {o}
      /\ (\A p \in DOMAIN objs : objs'[p] = objs[p]) /\ objs'[o] = b
  <2> HIDE DEF b
  <2> QED BY <1>1 DEF TypeOK
<1>3. contents' \in Seq(Submissions) /\ Ids' = Ids \union {id} /\ id \in Ids'
  BY <1>1 DEF TypeOK, Ids
<1>4. table' \in Seq(DOMAIN objs')
  <2>1. table \in Seq(DOMAIN objs')
    BY <1>2, SeqSubset DEF TypeOK
  <2> QED BY <1>1, <1>2, <2>1
<1>5. tasks' \subseteq Task /\ \A t \in tasks' : t.obj \in DOMAIN objs'
  <2>1. \A i \in 0..Len(jobs) : i \in Nat
    BY BulkAssumption
  <2>2. \A i \in Nat : i * StepDelay \in Nat
    BY BulkAssumption
  <2>3. \A i \in 0..Len(jobs) : DueOf(i) \in Nat
    <3>1. \A k \in Nat : now + StartDelay + k \in Nat
      BY BulkAssumption DEF TypeOK
    <3> QED BY <2>1, <2>2, <3>1 DEF DueOf
  <2>4. \A i \in 0..Len(jobs) : [obj |-> o, step |-> i, due |-> DueOf(i)] \in Task
    <3> o \in Nat
      BY DEF TypeOK
    <3> QED BY <2>1, <2>3 DEF Task
  <2>5. tasks' = tasks \union {[obj |-> o, step |-> i, due |-> DueOf(i)] : i \in 0..Len(jobs)}
    BY DEF Accept
  <2>6. \A t \in tasks' : t \in tasks \/ \E i \in 0..Len(jobs) : t = [obj |-> o, step |-> i, due |-> DueOf(i)]
    BY <2>5
  <2>7. \A t \in tasks' : t \in Task
    BY <2>4, <2>6 DEF TypeOK
  <2>8. \A t \in tasks' : t \in tasks \/ t.obj = o
    BY <2>6
  <2> QED BY <1>2, <2>7, <2>8 DEF TasksKnown
<1>6. TypeOK'
  BY <1>2, <1>3, <1>4, <1>5 DEF TypeOK, Accept, counters
<1>7. KnownIds'
  BY <1>2, <1>3 DEF KnownIds, Accept
<1>8. TasksKnown'
  BY <1>2, <1>5 DEF TasksKnown, Accept
<1> QED BY <1>6, <1>7, <1>8

\* What the clock's steps have in common.
LEMMA RunSound ==
  ASSUME Sound, NEW t \in tasks, Run(t), objs' \in Seq(Object), DOMAIN objs' = DOMAIN objs,
         \A p \in DOMAIN objs : objs'[p].id = objs[p].id,
         outbound' \in Seq(Stored)
  PROVE  Sound'
<1> USE DEF Sound
<1>1. now' \in Nat /\ tasks' \subseteq Task
  BY DEF TypeOK, Run, Task
<1>2. TypeOK'
  BY <1>1 DEF TypeOK, Run, counters
<1>3. KnownIds' /\ TasksKnown'
  BY DEF KnownIds, TasksKnown, Run, Ids
<1> QED BY <1>2, <1>3

\* What a step of the clock makes of the object of its task.
Ran(t, c) ==
  LET b == objs[t.obj]
  IN  \/ c = b
      \/ MayStart(b) /\ c = [b EXCEPT !.status = "Processing"]
      \/ Goes(b) /\ \E bumped \in {[b EXCEPT !.released = @ + 1], [b EXCEPT !.failed = @ + 1]} :
                      c = Counted(bumped)
      \/ Goes(b) /\ c = [b EXCEPT !.stopped = TRUE]

\* A change of one field of an object leaves its request alone.
LEMMA ObjectChanges ==
  ASSUME NEW b \in Object
  PROVE  /\ [b EXCEPT !.released = @ + 1] \in Object
         /\ [b EXCEPT !.failed = @ + 1] \in Object
         /\ [b EXCEPT !.stopped = TRUE] \in Object
         /\ [b EXCEPT !.status = "Processing"] \in Object
         /\ [b EXCEPT !.status = "Cancelled"] \in Object
         /\ [b EXCEPT !.released = @ + 1].id = b.id
         /\ [b EXCEPT !.failed = @ + 1].id = b.id
         /\ [b EXCEPT !.stopped = TRUE].id = b.id
         /\ [b EXCEPT !.status = "Processing"].id = b.id
         /\ [b EXCEPT !.status = "Cancelled"].id = b.id
<1>1. b.released + 1 \in Nat /\ b.failed + 1 \in Nat
  BY DEF Object
<1> QED BY <1>1 DEF Object

\* A task leaves an object of the same request behind.
LEMMA RanTyped ==
  ASSUME NEW t, objs[t.obj] \in Object, NEW c, Ran(t, c)
  PROVE  c \in Object /\ c.id = objs[t.obj].id
<1> DEFINE b == objs[t.obj]
<1>1. /\ [b EXCEPT !.released = @ + 1] \in Object
      /\ [b EXCEPT !.failed = @ + 1] \in Object
      /\ [b EXCEPT !.stopped = TRUE] \in Object
      /\ [b EXCEPT !.status = "Processing"] \in Object
      /\ [b EXCEPT !.released = @ + 1].id = b.id
      /\ [b EXCEPT !.failed = @ + 1].id = b.id
      /\ [b EXCEPT !.stopped = TRUE].id = b.id
      /\ [b EXCEPT !.status = "Processing"].id = b.id
  BY ObjectChanges
<1>2. ASSUME NEW d \in Object PROVE Counted(d) \in Object /\ Counted(d).id = d.id
  BY <1>2 DEF Counted, Object
<1>3. CASE \E d \in {[b EXCEPT !.released = @ + 1], [b EXCEPT !.failed = @ + 1]} : c = Counted(d)
  <2>1. PICK d \in {[b EXCEPT !.released = @ + 1], [b EXCEPT !.failed = @ + 1]} : c = Counted(d)
    BY <1>3
  <2>2. d \in Object /\ d.id = b.id
    BY <1>1
  <2>3. c \in Object /\ c.id = d.id
    <3> HIDE DEF b
    <3> QED BY <1>2, <2>1, <2>2
  <2> QED BY <2>2, <2>3
<1>4. CASE c = b
  BY <1>4
<1>5. CASE c = [b EXCEPT !.status = "Processing"] \/ c = [b EXCEPT !.stopped = TRUE]
  BY <1>1, <1>5
<1> QED BY <1>3, <1>4, <1>5 DEF Ran

\* A step of the clock runs one task, which sets its own object.
LEMMA ClockCases ==
  ASSUME Sound, NEW t \in tasks, Start(t) \/ Skip(t) \/ Release(t)
  PROVE  /\ Run(t) /\ outbound' \in Seq(Stored)
         /\ \E c : Ran(t, c) /\ Set(t.obj, c)
<1> DEFINE b == objs[t.obj]
<1>1. objs \in Seq(Object) /\ t.obj \in DOMAIN objs /\ outbound \in Seq(Stored) /\ t \in Task
  BY DEF Sound, TypeOK, TasksKnown
<1>2. CASE Start(t)
  BY <1>1, <1>2 DEF Start, Ran
<1>3. CASE Skip(t)
  <2>1. objs' = [objs EXCEPT ![t.obj] = b]
    BY <1>1, <1>3 DEF Skip
  <2> QED BY <1>1, <1>3, <2>1 DEF Skip, ReleaseTask, Ran, Set
<1>4. CASE Release(t)
  <2>1. Run(t) /\ Goes(b)
    BY <1>4 DEF Release, ReleaseTask
  <2>2. outbound' = outbound \/ outbound' = Append(outbound, [id |-> b.id, job |-> t.step])
    BY <1>4 DEF Release
  <2>3. [id |-> b.id, job |-> t.step] \in Stored
    <3>1. b \in Object
      BY <1>1
    <3>2. b.id \in Nat /\ t.step \in Nat
      <4> HIDE DEF b
      <4> QED BY <1>1, <3>1 DEF Object, Task
    <3> QED BY <3>2 DEF Stored
  <2>4. outbound' \in Seq(Stored)
    BY <1>1, <2>2, <2>3
  <2>5. \/ Set(t.obj, Counted([b EXCEPT !.released = @ + 1]))
        \/ Set(t.obj, Counted([b EXCEPT !.failed = @ + 1]))
        \/ Set(t.obj, [b EXCEPT !.stopped = TRUE])
    BY <1>4 DEF Release
  <2> QED BY <2>1, <2>4, <2>5 DEF Ran
<1> QED BY <1>2, <1>3, <1>4

\* So the objects stay sound when a task runs.
LEMMA ClockSound ==
  ASSUME Sound, NEW t \in tasks, Start(t) \/ Skip(t) \/ Release(t)
  PROVE  Sound'
<1>1. PICK c : Run(t) /\ outbound' \in Seq(Stored) /\ Ran(t, c) /\ Set(t.obj, c)
  BY ClockCases
<1>2. t.obj \in DOMAIN objs /\ objs[t.obj] \in Object
  BY DEF Sound, TypeOK, TasksKnown
<1>3. c \in Object /\ c.id = objs[t.obj].id
  BY <1>1, <1>2, RanTyped
<1>4. /\ objs' \in Seq(Object) /\ DOMAIN objs' = DOMAIN objs
      /\ \A p \in DOMAIN objs : objs'[p].id = objs[p].id
  BY <1>1, <1>2, <1>3, SetSound
<1> QED BY <1>1, <1>4, RunSound
\* The row that a cancel finds has an object.
LEMMA CancelRow ==
  ASSUME Sound, NEW id, Cancel(id)
  PROVE  table[RowOf(id)] \in DOMAIN objs
<1>1. table \in Seq(DOMAIN objs) /\ RowOf(id) # 0
  BY DEF Cancel, Sound, TypeOK
<1>2. RowOf(id) = RowIn(objs, table, id)
  BY DEF RowOf, RowIn, SelectInSeq
<1> QED BY <1>1, <1>2, FirstRow

\* A cancel changes one object, and that only in its status.
LEMMA CancelSound ==
  ASSUME Sound, NEW id, Cancel(id)
  PROVE  Sound'
<1> DEFINE o == table[RowOf(id)]
           c == [objs[o] EXCEPT !.status = "Cancelled"]
<1>1. o \in DOMAIN objs
  BY CancelRow
<1>2. objs[o] \in Object /\ Set(o, c)
  BY <1>1 DEF Cancel, Sound, TypeOK
<1>3. c \in Object /\ c.id = objs[o].id
  BY <1>2, ObjectChanges
<1>4. /\ objs' \in Seq(Object) /\ DOMAIN objs' = DOMAIN objs
      /\ \A p \in DOMAIN objs : objs'[p].id = objs[p].id
  <2> HIDE DEF o, c
  <2> QED BY <1>1, <1>2, <1>3, SetSound
<1>5. TypeOK'
  BY <1>4 DEF Sound, TypeOK, Cancel, storeVars, counters
<1>6. KnownIds' /\ TasksKnown'
  BY <1>4 DEF Sound, KnownIds, TasksKnown, Cancel, Ids
<1> QED BY <1>5, <1>6 DEF Sound

\* Changes of the account touch no object.
LEMMA OthersSound ==
  ASSUME Sound, ChangeWorld \/ DeleteServer
  PROVE  Sound'
<1>1. world' \in World
  <2>1. CASE ChangeWorld
    BY <2>1, ChangedTyped DEF ChangeWorld, Sound, TypeOK
  <2>2. CASE DeleteServer
    BY <2>2 DEF DeleteServer, Sound, TypeOK, World, StreamStates
  <2> QED BY <2>1, <2>2
<1>2. changes' \in 0..MaxChanges
  <2>1. changes \in 0..MaxChanges /\ MaxChanges \in Nat
    BY BulkAssumption DEF Sound, TypeOK
  <2>2. changes < MaxChanges /\ changes' = changes + 1
    BY DEF ChangeWorld, DeleteServer
  <2> QED BY <2>1, <2>2
<1>3. TypeOK'
  <2>1. CASE ChangeWorld
    BY <1>1, <1>2, <2>1 DEF Sound, TypeOK, ChangeWorld
  <2>2. CASE DeleteServer
    <3>1. table' \in Seq(DOMAIN objs') /\ outbound' \in Seq(Stored)
      BY <2>2 DEF DeleteServer
    <3> QED BY <1>1, <1>2, <2>2, <3>1 DEF Sound, TypeOK, DeleteServer
  <2> QED BY <2>1, <2>2
<1> QED BY <1>3 DEF Sound, KnownIds, TasksKnown, Ids, ChangeWorld, DeleteServer

\* What a seed saves are the objects of the table, as they are.
LEMMA SeedSound ==
  ASSUME Sound, NEW reset \in BOOLEAN, Seed(reset)
  PROVE  Sound'
<1> DEFINE rows == [i \in DOMAIN table |-> objs[table[i]]]
<1>1. rows \in Seq(Object) /\ DOMAIN rows = DOMAIN table
      /\ \A i \in DOMAIN table : table[i] \in DOMAIN objs /\ rows[i] = objs[table[i]]
  <2>1. objs \in Seq(Object) /\ table \in Seq(DOMAIN objs) /\ DOMAIN table = 1..Len(table)
    BY DEF Sound, TypeOK
  <2>2. \A i \in DOMAIN table : table[i] \in DOMAIN objs
    BY <2>1
  <2>3. \A i \in DOMAIN table : objs[table[i]] \in Object
    BY <2>1, <2>2
  <2> QED BY <2>1, <2>2, <2>3
<1> HIDE DEF rows
<1>2. seeding' = [on |-> TRUE, reset |-> reset, now |-> now, tasks |-> tasks, world |-> world,
                  table |-> rows, outbound |-> outbound]
  BY DEF Seed, rows
<1>3. seeding' \in Saved
  BY <1>1, <1>2 DEF Saved, Sound, TypeOK
<1>4. TypeOK'
  <2>1. seeds' \in 0..MaxSeeds
    BY BulkAssumption DEF Sound, TypeOK, Seed
  <2>2. now' \in Nat /\ tasks' \subseteq Task /\ world' \in World
    BY WorldsTyped DEF Sound, TypeOK, Seed, storeVars
  <2>3. objs' = objs /\ contents' = contents /\ reader' = reader /\ changes' = changes
    BY DEF Seed
  <2>4. table' \in Seq(DOMAIN objs) /\ outbound' \in Seq(Stored)
    <3>1. table' = table \/ table' = <<>>
      BY DEF Seed, storeVars
    <3>2. outbound' = outbound \/ outbound' = <<>>
      BY DEF Seed, storeVars
    <3>3. table \in Seq(DOMAIN objs) /\ outbound \in Seq(Stored)
      BY DEF Sound, TypeOK
    <3>4. \A S : <<>> \in Seq(S)
      OBVIOUS
    <3> QED BY <3>1, <3>2, <3>3, <3>4
  <2> HIDE DEF Seed
  <2> QED BY <1>3, <2>1, <2>2, <2>3, <2>4 DEF Sound, TypeOK
<1>5. KnownIds'
  BY <1>1, <1>2 DEF Sound, KnownIds, Ids, Seed
<1>6. TasksKnown'
  BY <1>2 DEF Sound, TasksKnown, Seed
<1> QED BY <1>4, <1>5, <1>6 DEF Sound

\* A seed that ends well forgets what it saved.
LEMMA SeededSound ==
  ASSUME Sound, Seeded
  PROVE  Sound'
<1>1. TypeOK'
  BY WorldsTyped DEF Sound, TypeOK, Seeded, counters
<1> QED BY <1>1 DEF Sound, KnownIds, TasksKnown, Ids, Seeded, NoSeed

\* The objects after a failed seed: those before it, and the clones.
LEMMA Cloned ==
  ASSUME Sound, SeedFails
  PROVE  /\ seeding \in Saved
         /\ objs' \in Seq(Object) /\ DOMAIN objs \subseteq DOMAIN objs'
         /\ \A o \in DOMAIN objs : objs'[o] = objs[o]
         /\ \A o \in DOMAIN objs' \ DOMAIN objs :
              \E i \in DOMAIN seeding.table : objs'[o] = seeding.table[i] /\ o = Len(objs) + i
         /\ table' \in Seq(DOMAIN objs' \ DOMAIN objs)
<1> DEFINE C == seeding.table
<1>1. seeding \in Saved
  BY DEF Sound, TypeOK, SeedFails, NoSeed
<1>2. objs \in Seq(Object) /\ C \in Seq(Object)
  BY <1>1 DEF Saved, Sound, TypeOK
<1>3. objs' = objs \o C /\ table' = [i \in DOMAIN C |-> Len(objs) + i]
  BY DEF SeedFails
<1> HIDE DEF C
<1>4. objs' \in Seq(Object) /\ Len(objs') = Len(objs) + Len(C)
      /\ \A o \in 1..Len(objs) + Len(C) :
           objs'[o] = IF o <= Len(objs) THEN objs[o] ELSE C[o - Len(objs)]
  BY <1>2, <1>3
<1>5. DOMAIN objs = 1..Len(objs) /\ DOMAIN objs' = 1..Len(objs) + Len(C) /\ DOMAIN C = 1..Len(C)
      /\ Len(objs) \in Nat /\ Len(C) \in Nat
  BY <1>2, <1>4
<1>6. DOMAIN objs \subseteq DOMAIN objs' /\ \A o \in DOMAIN objs : objs'[o] = objs[o]
  BY <1>4, <1>5
<1>7. ASSUME NEW o \in DOMAIN objs' \ DOMAIN objs
      PROVE  \E i \in DOMAIN C : objs'[o] = C[i] /\ o = Len(objs) + i
  <2>1. o - Len(objs) \in DOMAIN C /\ objs'[o] = C[o - Len(objs)] /\ o = Len(objs) + (o - Len(objs))
    BY <1>4, <1>5
  <2> QED BY <2>1
<1>8. \A i \in 1..Len(C) : Len(objs) + i \in DOMAIN objs' \ DOMAIN objs
  BY <1>5
<1>9. table' \in Seq(DOMAIN objs' \ DOMAIN objs)
  <2>1. table' = [i \in 1..Len(C) |-> Len(objs) + i]
    BY <1>3, <1>5
  <2> QED BY <1>5, <1>8, <2>1
<1> QED BY <1>1, <1>4, <1>6, <1>7, <1>9 DEF C

\* The clones of a failed seed are of requests that were accepted.
LEMMA SeedFailsSound ==
  ASSUME Sound, SeedFails
  PROVE  Sound'
<1>1. table' \in Seq(DOMAIN objs')
  <2> HIDE DEF SeedFails
  <2>1. DOMAIN objs' \ DOMAIN objs \subseteq DOMAIN objs'
    OBVIOUS
  <2> QED BY <2>1, Cloned, SeqSubset
<1>2. TypeOK'
  BY <1>1, Cloned DEF Sound, TypeOK, SeedFails, Saved, counters
<1>3. KnownIds'
  <2>1. \A i \in DOMAIN seeding.table : seeding.table[i].id \in Ids
    BY DEF Sound, KnownIds, SeedFails
  <2> QED BY <2>1, Cloned DEF Sound, KnownIds, Ids, SeedFails, NoSeed
<1>4. TasksKnown'
  BY Cloned DEF Sound, TasksKnown, SeedFails, NoSeed
<1> QED BY <1>2, <1>3, <1>4 DEF Sound

\* A client that pages the list gets IDs, and a key that is one.
LEMMA ReadSound ==
  ASSUME Sound, NEW count \in PageSizes, ReadPage(count)
  PROVE  Sound'
<1> DEFINE start == IF reader.on THEN PlaceOf(reader.key) ELSE 1
           end == Min({start + count - 1, Len(Listed)})
           page == SubSeq(Listed, start, end)
           next == start + count
<1>1. Listed \in Seq(Nat)
  <2>1. objs \in Seq(Object) /\ table \in Seq(DOMAIN objs) /\ DOMAIN table = 1..Len(table)
    BY DEF Sound, TypeOK
  <2>2. ASSUME NEW i \in 1..Len(table) PROVE objs[table[Len(table) + 1 - i]].id \in Nat
    <3>1. Len(table) + 1 - i \in 1..Len(table)
      BY <2>1
    <3>2. table[Len(table) + 1 - i] \in DOMAIN objs
      BY <2>1, <3>1
    <3>3. objs[table[Len(table) + 1 - i]] \in Object
      BY <2>1, <3>2
    <3> QED BY <3>3 DEF Object
  <2>3. Listed = [i \in 1..Len(table) |-> objs[table[Len(table) + 1 - i]].id]
    BY <2>1 DEF Listed
  <2> QED BY <2>1, <2>2, <2>3
<1> DEFINE L == Listed
<1>2. start \in 0..Len(L) \union {1}
  <2>1. ASSUME NEW key PROVE PlaceOf(key) \in 0..Len(L)
    <3> DEFINE I == {i \in 1..Len(Listed) : Listed[i] = key}
    <3>1. PlaceOf(key) = IF I # {} THEN Min(I) ELSE 0
      BY DEF PlaceOf, SelectInSeq
    <3>2. I \in SUBSET Nat /\ I \subseteq 1..Len(L) /\ Len(L) \in Nat
      BY <1>1
    <3>3. I # {} => Min(I) \in I
      <4> HIDE DEF I
      <4> QED BY <3>2, MinIsLeast
    <3> HIDE DEF I, L
    <3>4. I # {} => Min(I) \in 1..Len(L)
      BY <3>2, <3>3
    <3>5. 0 \in 0..Len(L) /\ 1..Len(L) \subseteq 0..Len(L)
      BY <3>2
    <3> QED BY <3>1, <3>4, <3>5
  <2> QED BY <2>1
<1>3. count \in Nat \ {0}
  BY BulkAssumption
<1>4. start # 0 => page \in Seq(Nat)
  <2> SUFFICES ASSUME start # 0 PROVE page \in Seq(Nat)
    OBVIOUS
  <2>1. start \in Nat \ {0} /\ Len(L) \in Nat
    BY <1>1, <1>2
  <2> DEFINE E == {start + count - 1, Len(Listed)}
  <2>2. E \in SUBSET Nat /\ E # {}
    <3> HIDE DEF start
    <3> QED BY <1>3, <2>1
  <2>3. end \in E /\ \A n \in E : end <= n
    <3> HIDE DEF E
    <3>1. Min(E) \in E /\ \A n \in E : Min(E) <= n
      BY <2>2, MinIsLeast
    <3> QED BY <3>1 DEF E
  <2>4. end \in Nat /\ end <= Len(L)
    <3> HIDE DEF end
    <3> QED BY <2>2, <2>3
  <2> HIDE DEF start, end
  <2> QED BY <1>1, <2>1, <2>4, SubSeqProperties
<1> HIDE DEF page, start
<1>5. reader' \in Reader \union {Idle}
  <2>1. reader' = IF start = 0 \/ next > Len(Listed) THEN Idle
           ELSE [on |-> TRUE, key |-> Listed[next],
                 seen |-> IF reader.on THEN reader.seen \o page ELSE page,
                 first |-> IF reader.on THEN reader.first ELSE ToSet(Listed)]
    BY DEF ReadPage, page, start
  <2>2. CASE start = 0 \/ next > Len(Listed)
    BY <2>1, <2>2
  <2>3. CASE ~ (start = 0 \/ next > Len(Listed))
    <3>1. next \in 1..Len(L)
      BY <1>1, <1>2, <1>3, <2>3
    <3>2. Listed[next] \in Nat
      <4> HIDE DEF next
      <4> QED BY <1>1, <3>1
    <3>3. ToSet(Listed) \subseteq Nat
      BY <1>1 DEF ToSet
    <3>4. reader.on => reader.seen \in Seq(Nat) /\ reader.first \subseteq Nat
      <4>1. reader = Idle \/ reader \in Reader
        BY DEF Sound, TypeOK
      <4>2. CASE reader = Idle
        BY <4>2 DEF Idle
      <4>3. CASE reader \in Reader
        BY <4>3 DEF Reader
      <4> QED BY <4>1, <4>2, <4>3
    <3>5. (IF reader.on THEN reader.seen \o page ELSE page) \in Seq(Nat)
      BY <1>4, <2>3, <3>4
    <3>6. (IF reader.on THEN reader.first ELSE ToSet(Listed)) \in SUBSET Nat
      BY <3>3, <3>4
    <3> QED BY <2>1, <2>3, <3>2, <3>5, <3>6 DEF Reader
  <2> QED BY <2>2, <2>3
<1>6. TypeOK'
  BY <1>5 DEF Sound, TypeOK, ReadPage, storeVars, counters
<1> QED BY <1>6 DEF Sound, KnownIds, TasksKnown, Ids, ReadPage, storeVars

\* A step that changes nothing keeps all this.
LEMMA StutterSound ==
  ASSUME Sound, UNCHANGED vars
  PROVE  Sound'
BY DEF Sound, TypeOK, KnownIds, TasksKnown, Ids, vars, storeVars, counters

\* Every step keeps all this.
LEMMA NextSound ==
  ASSUME Sound, [Next]_vars
  PROVE  Sound'
<1>1. ASSUME NEW jobs \in Submissions, Accept(jobs) PROVE Sound'
  BY <1>1, AcceptSound
<1>2. CASE ClockStep
  BY <1>2, ClockSound DEF ClockStep
<1>3. ASSUME NEW id \in Ids, Cancel(id) PROVE Sound'
  BY <1>3, CancelSound
<1>4. ASSUME NEW reset \in BOOLEAN, Seed(reset) PROVE Sound'
  BY <1>4, SeedSound
<1>5. ASSUME NEW count \in PageSizes, ReadPage(count) PROVE Sound'
  BY <1>5, ReadSound
<1> QED
  BY <1>1, <1>2, <1>3, <1>4, <1>5, OthersSound, SeededSound, SeedFailsSound, StutterSound DEF Next

\* The requests and tasks of src/api/bulk are sound in every state.
THEOREM AlwaysSound == Spec => []Sound
<1> QED BY InitSound, NextSound, PTL DEF Spec

\* The requests, their objects and tasks, a running seed and a client's list keep
\* their types (src/api/bulk), and every row of the table names an object.
THEOREM TypeCorrect == Spec => []TypeOK
<1>1. Sound => TypeOK
  BY DEF Sound
<1> QED BY <1>1, AlwaysSound, PTL

-----------------------------------------------------------------------------
(***************************************************************************)
(* The refinement: what a step makes of each request that a client sees.   *)
(***************************************************************************)
Seen(id) == ShownIn(contents, objs, table, id)

EachMoves ==
  \A id \in 1..MaxRequests :
    ShownIn(contents', objs', table', id) = Seen(id)
      \/ Promise!Move(Seen(id), ShownIn(contents', objs', table', id))

\* When each request moves or stays, so does the abstract state.
LEMMA EachMovesLife ==
  ASSUME EachMoves
  PROVE  Promise!Next
<1>1. \A id \in 1..MaxRequests : Shown[id] = Seen(id) /\ Shown'[id] = ShownIn(contents', objs', table', id)
  BY ShownByIn DEF Seen
<1>2. DOMAIN Shown' = 1..MaxRequests
  BY ShownByIn
<1> QED BY <1>1, <1>2 DEF EachMoves, Promise!Next

\* A step that leaves the requests alone shows the same.
LEMMA SameShown ==
  ASSUME contents' = contents, objs' = objs, table' = table
  PROVE  EachMoves
BY DEF EachMoves, Seen

\* A request that a client no longer finds, or finds as a clone, is gone.
LEMMA AllLost ==
  ASSUME Sound', contents' = contents, \A id, o : ~ LiveIn(objs', table', id, o)
  PROVE  EachMoves
<1> SUFFICES ASSUME NEW id \in 1..MaxRequests
             PROVE  \/ ShownIn(contents', objs', table', id) = Seen(id)
                    \/ Promise!Move(Seen(id), ShownIn(contents', objs', table', id))
  BY DEF EachMoves
<1>1. table' \in Seq(DOMAIN objs')
  BY DEF Sound, TypeOK
<1>2. CASE id > Len(contents)
  BY <1>2 DEF Seen, ShownIn
<1>3. CASE ~ (id > Len(contents))
  <2>1. ShownIn(contents', objs', table', id) = Lost
    BY <1>1, <1>3, ShownCases
  <2>2. Lost = Promise!Gone
    <3>1. \A x : [status |-> "gone", total |-> 0, released |-> 0, failed |-> 0, stopped |-> x]
                 = [[status |-> "none", total |-> 0, released |-> 0, failed |-> 0, stopped |-> x]
                    EXCEPT !.status = "gone"]
      OBVIOUS
    <3> QED BY <3>1, Zenon DEF Lost, Promise!Gone, Promise!Fresh
  <2> QED BY <2>1, <2>2 DEF Promise!Move, Promise!Vanish
<1> QED BY <1>2, <1>3

\* A step that changes one object moves the request it shows, or none.
LEMMA OneMoves ==
  ASSUME Sound, NEW o \in DOMAIN objs, NEW c \in Object, c.id = objs[o].id, Set(o, c),
         contents' = contents, table' = table,
         \/ c = objs[o]
         \/ Promise!Move(View(objs[o], Total(c.id)), View(c, Total(c.id)))
  PROVE  EachMoves
<1> SUFFICES ASSUME NEW id \in 1..MaxRequests
             PROVE  \/ ShownIn(contents', objs', table', id) = Seen(id)
                    \/ Promise!Move(Seen(id), ShownIn(contents', objs', table', id))
  BY DEF EachMoves
<1>1. table \in Seq(DOMAIN objs)
  BY DEF Sound, TypeOK
<1>2. /\ DOMAIN objs' = DOMAIN objs /\ objs'[o] = c
      /\ \A p \in DOMAIN objs : p # o => objs'[p] = objs[p]
      /\ \A p \in DOMAIN objs : objs'[p].id = objs[p].id
  BY SetSound
<1>3. \A p : LiveIn(objs', table', id, p) <=> LiveIn(objs, table, id, p)
  BY <1>2 DEF LiveIn
<1>4. table' \in Seq(DOMAIN objs')
  BY <1>1, <1>2
<1>5. CASE id > Len(contents)
  BY <1>5 DEF Seen, ShownIn
<1>6. CASE ~ (id > Len(contents)) /\ \A p : ~ LiveIn(objs, table, id, p)
  <2>1. Seen(id) = Lost
    BY <1>1, <1>6, ShownCases DEF Seen
  <2>2. ShownIn(contents', objs', table', id) = Lost
    BY <1>3, <1>4, <1>6, ShownCases
  <2> QED BY <2>1, <2>2
<1>7. ASSUME ~ (id > Len(contents)), NEW p, LiveIn(objs, table, id, p)
      PROVE  \/ ShownIn(contents', objs', table', id) = Seen(id)
             \/ Promise!Move(Seen(id), ShownIn(contents', objs', table', id))
  <2>1. Seen(id) = View(objs[p], Len(contents[id]))
    BY <1>1, <1>7, ShownCases DEF Seen
  <2>2. ShownIn(contents', objs', table', id) = View(objs'[p], Len(contents[id]))
    <3>1. LiveIn(objs', table', id, p)
      BY <1>3, <1>7
    <3>2. ShownIn(contents', objs', table', id) = View(objs'[p], Len(contents'[id]))
      BY <1>4, <1>7, <3>1, ShownCases
    <3> QED BY <3>2
  <2>3. p \in DOMAIN objs /\ objs[p].id = id
    BY <1>7 DEF LiveIn
  <2>4. CASE p = o
    BY <1>2, <2>1, <2>2, <2>3, <2>4 DEF Total
  <2>5. CASE p # o
    BY <1>2, <2>1, <2>2, <2>3, <2>5
  <2> QED BY <2>4, <2>5
<1> QED BY <1>5, <1>6, <1>7

\* Equations between what is shown before and after a move.
Shows(status, total, released, failed, stopped) ==
  [status |-> status, total |-> total, released |-> released, failed |-> failed,
   stopped |-> stopped]

\* The moves of BulkLife, field by field: a request is accepted.
LEMMA AcceptMove ==
  ASSUME NEW n, NEW w, w = Shows("Accepted", n, 0, 0, FALSE),
         \E jobs \in Submissions : n = Len(jobs)
  PROVE  Promise!Accept(None, w)
<1>1. None = Promise!Fresh
  BY DEF None, Promise!Fresh
<1>2. \A y : [Shows("none", 0, 0, 0, y) EXCEPT !.status = "Accepted", !.total = n]
             = Shows("Accepted", n, 0, 0, y)
  <2> TAKE y
  <2>1. [Shows("none", 0, 0, 0, y) EXCEPT !.status = "Accepted"] = Shows("Accepted", 0, 0, 0, y)
    BY DEF Shows
  <2>2. [Shows("Accepted", 0, 0, 0, y) EXCEPT !.total = n] = Shows("Accepted", n, 0, 0, y)
    BY DEF Shows
  <2> QED BY <2>1, <2>2 DEF Shows
<1>3. [Shows("none", 0, 0, 0, FALSE) EXCEPT !.status = "Accepted", !.total = n]
        = Shows("Accepted", n, 0, 0, FALSE)
  BY <1>2, Zenon
<1>4. Promise!Fresh = Shows("none", 0, 0, 0, FALSE)
  BY Zenon DEF Promise!Fresh, Shows
<1>5. w = [Promise!Fresh EXCEPT !.status = "Accepted", !.total = n]
  BY <1>3, <1>4, Zenon
<1> QED BY <1>1, <1>5 DEF Promise!Accept

\* A release that is not captured stops it.
LEMMA StopMove ==
  ASSUME NEW n, NEW r, NEW f, NEW x, NEW v, NEW w, v = Shows("Processing", n, r, f, x),
         w = Shows("Processing", n, r, f, TRUE), ~ v.stopped
  PROVE  Promise!Stop(v, w)
<1>1. \A y : [v EXCEPT !.stopped = y] = Shows("Processing", n, r, f, y)
  BY DEF Shows
<1>2. [v EXCEPT !.stopped = TRUE] = w
  BY <1>1, Zenon
<1>3. v.status = "Processing"
  BY DEF Shows
<1> QED BY <1>2, <1>3 DEF Promise!Stop

\* A release counts a message, the last one completes it.
LEMMA MessageMove ==
  ASSUME NEW n, NEW r, NEW f, NEW x, NEW rr, NEW ff, NEW a, NEW v, NEW w,
         v = Shows("Processing", n, r, f, x), w = Shows(a, n, rr, ff, x), ~ v.stopped,
         rr + ff = r + f + 1, rr >= r, ff >= f,
         a = IF rr + ff = n THEN "Completed" ELSE "Processing"
  PROVE  Promise!Message(v, w)
<1>1. [Shows("Processing", n, r, f, x) EXCEPT !.released = rr, !.failed = ff, !.status = a] = w
  <2>1. [Shows("Processing", n, r, f, x) EXCEPT !.released = rr] = Shows("Processing", n, rr, f, x)
    BY DEF Shows
  <2>2. [Shows("Processing", n, rr, f, x) EXCEPT !.failed = ff] = Shows("Processing", n, rr, ff, x)
    BY DEF Shows
  <2>3. [Shows("Processing", n, rr, ff, x) EXCEPT !.status = a] = Shows(a, n, rr, ff, x)
    BY DEF Shows
  <2> QED BY <2>1, <2>2, <2>3 DEF Shows
<1>2. [v EXCEPT !.released = rr, !.failed = ff, !.status = a] = w
  BY <1>1, Zenon
<1>3. v.status = "Processing" /\ v.total = n /\ v.released = r /\ v.failed = f
      /\ w.released = rr /\ w.failed = ff
  BY DEF Shows
<1> QED BY <1>2, <1>3 DEF Promise!Message

\* A task moves the request of its object in the life of BulkLife, or nothing that is shown.
LEMMA ClockMoves ==
  ASSUME Sound, NEW t \in tasks, Start(t) \/ Skip(t) \/ Release(t)
  PROVE  EachMoves
<1> DEFINE b == objs[t.obj]
<1>1. PICK c : Run(t) /\ Ran(t, c) /\ Set(t.obj, c)
  BY ClockCases
<1>2. t.obj \in DOMAIN objs /\ b \in Object
  BY DEF Sound, TypeOK, TasksKnown
<1>3. c \in Object /\ c.id = b.id
  BY <1>1, <1>2, RanTyped
<1>4. contents' = contents /\ table' = table
  BY <1>1 DEF Run
<1> DEFINE total == Total(c.id)
<1>5. c = b \/ Promise!Move(View(b, total), View(c, total))
  <2>1. CASE MayStart(b) /\ c = [b EXCEPT !.status = "Processing"]
    <3>1. Promise!Begin(View(b, total), View(c, total))
      <4> HIDE DEF total, b
      <4> QED BY <1>2, <2>1 DEF Promise!Begin, View, MayStart, Object
    <3> QED BY <3>1 DEF Promise!Move
  <2>2. CASE Goes(b) /\ c = [b EXCEPT !.stopped = TRUE]
    <3>1. Promise!Stop(View(b, total), View(c, total))
      <4> HIDE DEF total, b
      <4>1. b.status = "Processing" /\ ~ b.stopped
        BY <2>2 DEF Goes
      <4>2. /\ c.status = b.status /\ c.released = b.released /\ c.failed = b.failed
            /\ c.stopped = TRUE
        BY <1>2, <2>2 DEF Object
      <4>3. View(c, total) = Shows("Processing", total, b.released, b.failed, TRUE)
        BY <4>1, <4>2, Zenon DEF View, Shows
      <4>4. View(b, total) = Shows("Processing", total, b.released, b.failed, b.stopped)
        BY <4>1, Zenon DEF View, Shows
      <4>5. ~ View(b, total).stopped
        BY <4>1 DEF View
      <4> QED BY <4>3, <4>4, <4>5, StopMove
    <3> QED BY <3>1 DEF Promise!Move
  <2>3. ASSUME Goes(b), NEW d \in {[b EXCEPT !.released = @ + 1], [b EXCEPT !.failed = @ + 1]},
               c = Counted(d)
        PROVE  Promise!Message(View(b, total), View(c, total))
    <3>1. d \in Object /\ d.id = b.id
      BY <1>2, ObjectChanges
    <3>2. Finished(d) <=> d.released + d.failed = total
      BY <1>3, <3>1 DEF Finished
    <3> HIDE DEF total, b
    <3>3. c.released = d.released /\ c.failed = d.failed /\ c.stopped = d.stopped
          /\ c.status = IF d.released + d.failed = total THEN "Completed" ELSE d.status
      BY <2>3, <3>1, <3>2 DEF Counted, Object
    <3>4. /\ d.released \in Nat /\ d.failed \in Nat /\ b.released \in Nat /\ b.failed \in Nat
          /\ d.released + d.failed = b.released + b.failed + 1
          /\ d.released >= b.released /\ d.failed >= b.failed
          /\ d.status = b.status /\ d.stopped = b.stopped
      BY <1>2, <2>3 DEF Object
    <3>5. b.status = "Processing" /\ ~ b.stopped
      BY <2>3 DEF Goes
    <3>6. View(b, total) = Shows("Processing", total, b.released, b.failed, b.stopped)
      BY <3>5, Zenon DEF View, Shows
    <3>7. View(c, total) = Shows(c.status, total, c.released, c.failed, b.stopped)
      BY <3>3, <3>4, Zenon DEF View, Shows
    <3>8. c.status = IF c.released + c.failed = total THEN "Completed" ELSE "Processing"
      BY <3>3, <3>4, <3>5
    <3>9. ~ View(b, total).stopped
      BY <3>5 DEF View
    <3>10. c.released + c.failed = b.released + b.failed + 1
           /\ c.released >= b.released /\ c.failed >= b.failed
      BY <3>3, <3>4
    <3> QED BY <3>6, <3>7, <3>8, <3>9, <3>10, MessageMove
  <2> HIDE DEF total
  <2>4. CASE Goes(b) /\ \E d \in {[b EXCEPT !.released = @ + 1], [b EXCEPT !.failed = @ + 1]} :
               c = Counted(d)
    BY <2>3, <2>4 DEF Promise!Move
  <2> QED BY <1>1, <2>1, <2>2, <2>4 DEF Ran
<1> HIDE DEF b
<1>6. t.obj \in DOMAIN objs /\ c.id = objs[t.obj].id
      /\ (c = objs[t.obj] \/ Promise!Move(View(objs[t.obj], Total(c.id)), View(c, Total(c.id))))
  BY <1>2, <1>3, <1>5 DEF b
<1> QED BY <1>1, <1>3, <1>4, <1>6, OneMoves

\* A cancel moves a request that is Accepted or Processing.
LEMMA CancelMoves ==
  ASSUME Sound, NEW id, Cancel(id)
  PROVE  EachMoves
<1> DEFINE o == table[RowOf(id)]
           c == [objs[o] EXCEPT !.status = "Cancelled"]
<1>1. o \in DOMAIN objs
  BY CancelRow
<1>2. objs[o] \in Object /\ Set(o, c) /\ Cancellable(objs[o]) /\ contents' = contents /\ table' = table
  BY <1>1 DEF Cancel, Sound, TypeOK, storeVars
<1>3. c \in Object /\ c.id = objs[o].id
  BY <1>2, ObjectChanges
<1>4. Promise!Move(View(objs[o], Total(c.id)), View(c, Total(c.id)))
  <2> DEFINE total == Total(c.id)
  <2>1. ASSUME NEW b \in Object, Cancellable(b), NEW n
        PROVE  Promise!Cancel(View(b, n), View([b EXCEPT !.status = "Cancelled"], n))
    BY <2>1 DEF Promise!Cancel, View, Cancellable, Object
  <2>2. Promise!Cancel(View(objs[o], total), View(c, total))
    <3> HIDE DEF o, total
    <3> QED BY <1>2, <2>1
  <2> QED BY <2>2 DEF Promise!Move
<1> HIDE DEF o, c
<1> QED BY <1>1, <1>2, <1>3, <1>4, OneMoves

\* Accept moves the new request from none to Accepted, and no other.
LEMMA AcceptMoves ==
  ASSUME Sound, Sound', NEW jobs \in Submissions, Accept(jobs)
  PROVE  EachMoves
<1> DEFINE new == Len(contents) + 1
           o == Len(objs) + 1
           b == [id |-> new, status |-> "Accepted", released |-> 0, failed |-> 0, stopped |-> FALSE]
<1>1. /\ objs \in Seq(Object) /\ table \in Seq(DOMAIN objs) /\ contents \in Seq(Submissions)
      /\ table' \in Seq(DOMAIN objs')
      /\ \A p \in DOMAIN objs : objs[p].id \in 1..Len(contents)
  BY DEF Sound, TypeOK, KnownIds, Ids
<1>2. objs' = Append(objs, b) /\ table' = Append(table, o) /\ contents' = Append(contents, jobs)
  BY DEF Accept
<1>3. /\ DOMAIN objs' = DOMAIN objs \union {o} /\ o \notin DOMAIN objs /\ objs'[o] = b
      /\ \A p \in DOMAIN objs : objs'[p] = objs[p]
  <2> HIDE DEF b
  <2> QED BY <1>1, <1>2
<1>4. \A p : (\E i \in DOMAIN table' : table'[i] = p) <=> p = o \/ \E i \in DOMAIN table : table[i] = p
  <2>1. DOMAIN table' = DOMAIN table \union {Len(table) + 1} /\ table'[Len(table) + 1] = o
        /\ \A i \in DOMAIN table : table'[i] = table[i]
    <3> HIDE DEF o
    <3> QED BY <1>1, <1>2
  <2> HIDE DEF o
  <2> QED BY <2>1
<1>5. /\ Len(contents') = new /\ contents'[new] = jobs /\ Len(contents) \in Nat
      /\ \A id \in 1..Len(contents) : contents'[id] = contents[id]
  BY <1>1, <1>2
<1>6. b.id = new
  OBVIOUS
<1> SUFFICES ASSUME NEW id \in 1..MaxRequests
             PROVE  \/ ShownIn(contents', objs', table', id) = Seen(id)
                    \/ Promise!Move(Seen(id), ShownIn(contents', objs', table', id))
  BY DEF EachMoves
<1>7. CASE id > new
  <2>1. id > Len(contents) /\ id > Len(contents')
    BY <1>5, <1>7, BulkAssumption
  <2> QED BY <2>1 DEF Seen, ShownIn
<1>8. CASE id = new
  <2>1. Seen(id) = None
    BY <1>5, <1>8 DEF Seen, ShownIn
  <2>2. LiveIn(objs', table', id, o)
    <3>1. \A p \in DOMAIN objs : objs'[p].id # new
      BY <1>1, <1>3, <1>5
    <3> HIDE DEF o, b
    <3> QED BY <1>3, <1>4, <1>6, <1>8, <3>1 DEF LiveIn
  <2>3. ShownIn(contents', objs', table', id) = View(b, Len(jobs))
    <3>1. ~ (id > Len(contents'))
      BY <1>5, <1>8
    <3>2. ShownIn(contents', objs', table', id) = View(objs'[o], Len(contents'[id]))
      <4> HIDE DEF o
      <4> QED BY <1>1, <2>2, <3>1, ShownCases
    <3> HIDE DEF b, o
    <3> QED BY <1>3, <1>5, <1>8, <3>2
  <2>4. Promise!Accept(None, View(b, Len(jobs)))
    <3>1. View(b, Len(jobs)) = Shows("Accepted", Len(jobs), 0, 0, FALSE)
      BY Zenon DEF View, Shows
    <3> QED BY <3>1, AcceptMove
  <2> QED BY <2>1, <2>3, <2>4 DEF Promise!Move
<1>9. CASE id < new
  <2>1. id \in 1..Len(contents) /\ ~ (id > Len(contents)) /\ ~ (id > Len(contents'))
        /\ contents'[id] = contents[id]
    BY <1>5, <1>9, BulkAssumption
  <2>2. \A p : LiveIn(objs', table', id, p) <=> LiveIn(objs, table, id, p)
    <3>1. id # b.id
      BY <1>5, <1>9
    <3>2. \A p : (\E i \in DOMAIN table : table[i] = p) => p # o
      BY <1>1, <1>3
    <3> HIDE DEF o, b
    <3> QED BY <1>3, <1>4, <3>1, <3>2 DEF LiveIn
  <2>3. CASE \A p : ~ LiveIn(objs, table, id, p)
    <3>1. Seen(id) = Lost
      BY <1>1, <2>1, <2>3, ShownCases DEF Seen
    <3>2. ShownIn(contents', objs', table', id) = Lost
      BY <1>1, <2>1, <2>2, <2>3, ShownCases
    <3> QED BY <3>1, <3>2
  <2>4. ASSUME NEW p, LiveIn(objs, table, id, p)
        PROVE  ShownIn(contents', objs', table', id) = Seen(id)
    <3>1. Seen(id) = View(objs[p], Len(contents[id]))
      BY <1>1, <2>1, <2>4, ShownCases DEF Seen
    <3>2. LiveIn(objs', table', id, p)
      BY <2>2, <2>4
    <3>3. ShownIn(contents', objs', table', id) = View(objs'[p], Len(contents'[id]))
      BY <1>1, <2>1, <3>2, ShownCases
    <3>4. objs'[p] = objs[p]
      BY <1>3, <2>4 DEF LiveIn
    <3> QED BY <2>1, <3>1, <3>3, <3>4
  <2> QED BY <2>3, <2>4
<1> QED BY <1>5, <1>7, <1>8, <1>9, BulkAssumption

\* When the table is emptied, all requests are gone.
LEMMA EmptiedMoves ==
  ASSUME Sound', contents' = contents, table' = <<>>
  PROVE  EachMoves
<1>1. \A id, o : ~ LiveIn(objs', table', id, o)
  BY DEF LiveIn
<1> QED BY <1>1, AllLost

\* The clones of a failed seed are of requests that have their objects.
LEMMA NoClonesLive ==
  ASSUME Sound, SeedFails
  PROVE  \A id, o : ~ LiveIn(objs', table', id, o)
<1> SUFFICES ASSUME NEW id, NEW o, LiveIn(objs', table', id, o) PROVE FALSE
  OBVIOUS
<1>1. o \in DOMAIN objs' \ DOMAIN objs
  BY Cloned DEF LiveIn
<1>2. PICK i \in DOMAIN seeding.table : objs'[o] = seeding.table[i]
  BY <1>1, Cloned
<1>3. PICK p \in DOMAIN objs : objs[p].id = objs'[o].id
  BY <1>2 DEF Sound, KnownIds, SeedFails
<1>4. p \in DOMAIN objs' /\ objs'[p].id = id /\ p # o
  BY <1>1, <1>3, Cloned DEF LiveIn
<1> QED BY <1>4 DEF LiveIn

\* So after a failed seed every request is gone.
LEMMA SeedFailsMoves ==
  ASSUME Sound, Sound', SeedFails
  PROVE  EachMoves
BY NoClonesLive, AllLost DEF SeedFails

\* Every step moves requests as BulkLife allows.
LEMMA NextMoves ==
  ASSUME Sound, Sound', [Next]_vars
  PROVE  EachMoves
<1>1. ASSUME NEW jobs \in Submissions, Accept(jobs) PROVE EachMoves
  BY <1>1, AcceptMoves
<1>2. CASE ClockStep
  BY <1>2, ClockMoves DEF ClockStep
<1>3. ASSUME NEW id \in Ids, Cancel(id) PROVE EachMoves
  BY <1>3, CancelMoves
<1>4. CASE ChangeWorld
  BY <1>4, SameShown DEF ChangeWorld
<1>5. CASE DeleteServer
  BY <1>5, EmptiedMoves DEF DeleteServer
<1>6. ASSUME NEW reset \in BOOLEAN, Seed(reset) PROVE EachMoves
  <2>1. CASE reset
    BY <1>6, <2>1, EmptiedMoves DEF Seed
  <2>2. CASE ~ reset
    BY <1>6, <2>2, SameShown DEF Seed, storeVars
  <2> QED BY <2>1, <2>2
<1>7. CASE Seeded
  BY <1>7, SameShown DEF Seeded
<1>8. CASE SeedFails
  BY <1>8, SeedFailsMoves
<1>9. ASSUME NEW count \in PageSizes, ReadPage(count) PROVE EachMoves
  BY <1>9, SameShown DEF ReadPage, storeVars
<1>10. CASE UNCHANGED vars
  BY <1>10, SameShown DEF vars, storeVars
<1> QED
  BY <1>1, <1>2, <1>3, <1>4, <1>5, <1>6, <1>7, <1>8, <1>9, <1>10 DEF Next

\* However the steps of the clock, the client and the seeds interleave, each
\* request goes through the life of BulkLife (src/api/bulk/bulk.ts,
\* src/control/endpoints/bulk.ts): the requests implement its specification.
THEOREM LifeRefined == Spec => LifeSpec
<1>1. Init => Promise!Init
  <2> SUFFICES ASSUME Init PROVE Promise!Init
    OBVIOUS
  <2>1. \A id \in 1..MaxRequests : ShownIn(contents, objs, table, id) = None
    BY BulkAssumption DEF Init, ShownIn
  <2>2. None = Promise!Fresh
    BY DEF None, Promise!Fresh
  <2> QED BY <2>1, <2>2, ShownByIn DEF Promise!Init
<1>2. Sound /\ Sound' /\ [Next]_vars => [Promise!Next]_Shown
  BY NextMoves, EachMovesLife
<1> QED BY <1>1, <1>2, AlwaysSound, PTL DEF Spec, LifeSpec, Promise!Spec

-----------------------------------------------------------------------------
(***************************************************************************)
(* The counters.  What can be said of an object that the API shows, by the *)
(* objects, the tasks, the contents and the messages: its tasks run in the *)
(* order of the jobs, those that wait are those that are not counted, and  *)
(* the messages are of counted jobs.                                       *)
(***************************************************************************)
Steps(T, o) == {t.step : t \in {s \in T : s.obj = o}}
SentIn(out, id) == {m \in DOMAIN out : out[m].id = id}

InOrder(T, o) ==
  \A s, t \in T : s.obj = o /\ t.obj = o =>
    /\ s.step < t.step => s.due < t.due
    /\ s.step = t.step => s = t

SentHolds(out, b) ==
  /\ Cardinality(SentIn(out, b.id)) = b.released
  /\ \A m, n \in SentIn(out, b.id) : m < n => out[m].job < out[n].job
  /\ \A m \in SentIn(out, b.id) : out[m].job <= b.released + b.failed

StatusHolds(T, o, b, total) ==
  /\ b.status = "Accepted" => /\ b.released = 0 /\ b.failed = 0 /\ ~ b.stopped
                              /\ Steps(T, o) = 0..total
  /\ b.status = "Processing" /\ ~ b.stopped => Steps(T, o) = b.released + b.failed + 1 .. total
  /\ b.status = "Completed" => b.released + b.failed = total
  /\ b.status # "Completed" => b.released + b.failed < total

CountsHold ==
  \A id \in Ids, o \in DOMAIN objs : LiveIn(objs, table, id, o) =>
    /\ InOrder(tasks, o)
    /\ StatusHolds(tasks, o, objs[o], Total(id))
    /\ SentHolds(outbound, objs[o])

\* The stored messages are of accepted requests, also those that a failed seed would put back.
MessagesKnown ==
  /\ \A m \in DOMAIN outbound : outbound[m].id \in Ids
  /\ seeding.on => \A m \in DOMAIN seeding.outbound : seeding.outbound[m].id \in Ids

Counts == CountsHold /\ MessagesKnown

\* A later job is due later.
LEMMA DueInOrder ==
  ASSUME NEW i \in Nat, NEW j \in Nat, i < j, NEW d \in Nat \ {0}
  PROVE  i * d < j * d
<1>1. PICK k \in Nat : j = i + 1 + k
  <2>1. j - i - 1 \in Nat /\ j = i + 1 + (j - i - 1)
    OBVIOUS
  <2> QED BY <2>1
<1>2. i * d \in Nat /\ k * d \in Nat
  OBVIOUS
<1>3. (i + 1 + k) * d = i * d + d + k * d
  OBVIOUS
<1> QED BY <1>1, <1>2, <1>3

\* The tasks of an object without one of them.
LEMMA StepsWithout ==
  ASSUME NEW T, NEW t \in T, NEW o, InOrder(T, o)
  PROVE  /\ InOrder(T \ {t}, o)
         /\ t.obj # o => Steps(T \ {t}, o) = Steps(T, o)
         /\ t.obj = o => Steps(T \ {t}, o) = Steps(T, o) \ {t.step} /\ t.step \in Steps(T, o)
BY DEF InOrder, Steps

\* The messages of other requests are no matter.
LEMMA SentKept ==
  ASSUME NEW out \in Seq(Stored), NEW b, SentHolds(out, b), NEW m \in Stored, m.id # b.id
  PROVE  SentHolds(Append(out, m), b)
<1> DEFINE more == Append(out, m)
<1>1. DOMAIN more = DOMAIN out \union {Len(out) + 1} /\ more[Len(out) + 1] = m
      /\ \A n \in DOMAIN out : more[n] = out[n]
  OBVIOUS
<1> HIDE DEF more
<1>2. SentIn(more, b.id) = SentIn(out, b.id) /\ \A n \in SentIn(out, b.id) : more[n] = out[n]
  BY <1>1 DEF SentIn
<1> QED BY <1>2 DEF SentHolds, more

\* The message of the next job is the last of its request.
LEMMA SentMore ==
  ASSUME NEW out \in Seq(Stored), NEW b \in Object, SentHolds(out, b),
         NEW m \in Stored, m.id = b.id, m.job = b.released + b.failed + 1,
         NEW c \in Object, c.id = b.id, c.released = b.released + 1, c.failed = b.failed
  PROVE  SentHolds(Append(out, m), c)
<1> DEFINE more == Append(out, m)
           new == Len(out) + 1
           S == SentIn(out, b.id)
<1>1. DOMAIN more = DOMAIN out \union {new} /\ more[new] = m /\ DOMAIN out = 1..Len(out) /\ Len(out) \in Nat
      /\ \A n \in DOMAIN out : more[n] = out[n]
  OBVIOUS
<1> HIDE DEF more
<1>2. S \subseteq DOMAIN out /\ new \notin DOMAIN out /\ \A n \in S : n \in Nat /\ n < new
  BY <1>1 DEF SentIn
<1>3. SentIn(more, c.id) = S \union {new}
  BY <1>1 DEF SentIn
<1>4. IsFiniteSet(S)
  <2>1. 1 \in Int /\ Len(out) \in Int
    BY <1>1
  <2> HIDE DEF S, new
  <2> QED BY <1>1, <1>2, <2>1, FS_Interval, FS_Subset
<1>5. b.released \in Nat /\ b.failed \in Nat
  BY DEF Object
<1>6. /\ Cardinality(S) = b.released
      /\ \A x, y \in S : x < y => out[x].job < out[y].job
      /\ \A x \in S : out[x].job <= b.released + b.failed
  BY DEF SentHolds
<1>7. \A x \in S : out[x].job \in Nat
  <2>1. \A x \in DOMAIN out : out[x] \in Stored
    OBVIOUS
  <2> QED BY <1>2, <2>1 DEF Stored
<1>8. Cardinality(S \union {new}) = c.released
  <2> HIDE DEF S, new
  <2>1. new \notin S
    BY <1>2
  <2>2. Cardinality(S \union {new}) = Cardinality(S) + 1
    BY <1>4, <2>1, FS_AddElement
  <2> QED BY <1>6, <2>2
<1> HIDE DEF S, new
<1>9. \A x \in S : more[x].job = out[x].job /\ more[x].job < more[new].job
  BY <1>1, <1>2, <1>5, <1>6, <1>7
<1>10. \A x, y \in S \union {new} : x < y => more[x].job < more[y].job
  <2> SUFFICES ASSUME NEW x \in S \union {new}, NEW y \in S \union {new}, x < y
               PROVE  more[x].job < more[y].job
    OBVIOUS
  <2>1. new \in Nat
    BY <1>1 DEF new
  <2>2. x # new
    BY <1>2, <2>1
  <2> QED BY <1>6, <1>9, <2>2
<1>11. \A x \in S \union {new} : more[x].job <= c.released + c.failed
  <2>1. \A x \in S : more[x].job <= c.released + c.failed
    BY <1>5, <1>6, <1>7, <1>9
  <2>2. more[new].job <= c.released + c.failed
    BY <1>1, <1>5
  <2> QED BY <2>1, <2>2
<1> QED BY <1>3, <1>8, <1>10, <1>11 DEF SentHolds, more

\* An object that counts one more without a message keeps them.
LEMMA SentStays ==
  ASSUME NEW out \in Seq(Stored), NEW b \in Object, SentHolds(out, b),
         NEW c \in Object, c.id = b.id, c.released = b.released, c.failed \in {b.failed, b.failed + 1}
  PROVE  SentHolds(out, c)
<1>1. b.released \in Nat /\ b.failed \in Nat
  BY DEF Object
<1>2. \A x \in SentIn(out, b.id) : out[x].job \in Nat
  <2>1. \A x \in DOMAIN out : out[x] \in Stored
    OBVIOUS
  <2> QED BY <2>1 DEF Stored, SentIn
<1>3. \A x \in SentIn(out, b.id) : out[x].job <= c.released + c.failed
  BY <1>1, <1>2 DEF SentHolds
<1> QED BY <1>3 DEF SentHolds


\* The task that the clock runs is of the least step that its object waits for.
LEMMA FirstStep ==
  ASSUME Sound, NEW t \in tasks, DueFirst(t), InOrder(tasks, t.obj)
  PROVE  \A k \in Steps(tasks, t.obj) : t.step <= k
<1> SUFFICES ASSUME NEW s \in tasks, s.obj = t.obj, s.step < t.step PROVE FALSE
  <2>1. \A s \in tasks : s.step \in Nat
    BY DEF Sound, TypeOK, Task
  <2> QED BY <2>1 DEF Steps
<1>1. s.due < t.due
  BY DEF InOrder
<1>2. s.due \in Nat /\ t.due \in Nat /\ s.step \in Nat /\ t.step \in Nat
  BY DEF Sound, TypeOK, Task
<1>3. s # t
  BY <1>2
<1>4. Before(t, s)
  BY <1>3 DEF DueFirst
<1> QED BY <1>1, <1>2, <1>4 DEF Before

\* When a task runs, the other objects keep their counters, tasks and messages.
LEMMA RunCounts ==
  ASSUME Sound, CountsHold, NEW t \in tasks, Run(t),
         NEW c \in Object, c.id = objs[t.obj].id, Set(t.obj, c),
         \/ outbound' = outbound
         \/ \E m \in Stored : m.id = objs[t.obj].id /\ outbound' = Append(outbound, m),
         \A id \in Ids : LiveIn(objs, table, id, t.obj) =>
           StatusHolds(tasks', t.obj, c, Total(id)) /\ SentHolds(outbound', c)
  PROVE  CountsHold'
<1> SUFFICES ASSUME NEW id \in Ids', NEW o \in DOMAIN objs', LiveIn(objs', table', id, o)
             PROVE  /\ InOrder(tasks', o)
                    /\ StatusHolds(tasks', o, objs'[o], Total(id)')
                    /\ SentHolds(outbound', objs'[o])
  BY DEF CountsHold
<1>1. t.obj \in DOMAIN objs /\ outbound \in Seq(Stored)
  BY DEF Sound, TypeOK, TasksKnown
<1>2. /\ DOMAIN objs' = DOMAIN objs /\ objs'[t.obj] = c
      /\ \A p \in DOMAIN objs : p # t.obj => objs'[p] = objs[p]
      /\ \A p \in DOMAIN objs : objs'[p].id = objs[p].id
  BY <1>1, SetSound
<1>3. contents' = contents /\ table' = table /\ tasks' = tasks \ {t}
  BY DEF Run
<1>4. id \in Ids /\ o \in DOMAIN objs /\ LiveIn(objs, table, id, o) /\ Total(id)' = Total(id)
  BY <1>2, <1>3 DEF LiveIn, Ids, Total
<1>5. /\ InOrder(tasks, o) /\ StatusHolds(tasks, o, objs[o], Total(id))
      /\ SentHolds(outbound, objs[o])
  BY <1>4 DEF CountsHold
<1>6. InOrder(tasks', o)
  BY <1>3, <1>5, StepsWithout
<1>7. CASE o = t.obj
  BY <1>2, <1>4, <1>6, <1>7
<1>8. CASE o # t.obj
  <2>1. objs'[o] = objs[o]
    BY <1>2, <1>4, <1>8
  <2>2. Steps(tasks', o) = Steps(tasks, o)
    <3>1. Steps(tasks \ {t}, o) = Steps(tasks, o)
      BY <1>5, <1>8, StepsWithout
    <3> QED BY <1>3, <3>1
  <2>3. StatusHolds(tasks', o, objs[o], Total(id))
    BY <1>5, <2>2 DEF StatusHolds
  <2>4. objs[o].id # objs[t.obj].id
    BY <1>1, <1>4, <1>8 DEF LiveIn
  <2>5. SentHolds(outbound', objs[o])
    BY <1>1, <1>5, <2>4, SentKept
  <2> QED BY <1>4, <1>6, <2>1, <2>3, <2>5
<1> QED BY <1>7, <1>8

\* A start leaves the messages to wait for.
LEMMA StartCounts ==
  ASSUME Sound, CountsHold, NEW t \in tasks, Start(t)
  PROVE  CountsHold'
<1> DEFINE b == objs[t.obj]
           c == IF MayStart(b) THEN [b EXCEPT !.status = "Processing"] ELSE b
<1>1. Run(t) /\ t.step = 0 /\ Set(t.obj, c) /\ outbound' = outbound
  BY DEF Start
<1>2. b \in Object /\ outbound \in Seq(Stored)
  BY DEF Sound, TypeOK, TasksKnown
<1>3. /\ c \in Object /\ c.id = b.id /\ c.released = b.released /\ c.failed = b.failed
      /\ c.stopped = b.stopped
      /\ c.status = IF b.status = "Accepted" THEN "Processing" ELSE b.status
  <2> HIDE DEF b
  <2> QED BY <1>2 DEF MayStart, Object
<1> HIDE DEF c
<1>4. ASSUME NEW id \in Ids, LiveIn(objs, table, id, t.obj)
      PROVE  StatusHolds(tasks', t.obj, c, Total(id)) /\ SentHolds(outbound', c)
  <2>1. /\ InOrder(tasks, t.obj) /\ StatusHolds(tasks, t.obj, b, Total(id))
        /\ SentHolds(outbound, b)
    BY <1>4 DEF CountsHold, LiveIn
  <2>2. /\ Steps(tasks', t.obj) = Steps(tasks, t.obj) \ {0} /\ 0 \in Steps(tasks, t.obj)
    <3>1. tasks' = tasks \ {t} /\ t.step = 0
      BY <1>1 DEF Run
    <3>2. InOrder(tasks, t.obj)
      BY <2>1
    <3>3. /\ Steps(tasks \ {t}, t.obj) = Steps(tasks, t.obj) \ {t.step}
          /\ t.step \in Steps(tasks, t.obj)
      <4> HIDE DEF b
      <4> QED BY <3>2, StepsWithout
    <3> QED BY <3>1, <3>3
  <2>3. SentHolds(outbound', c)
    <3> HIDE DEF b
    <3> QED BY <1>1, <1>2, <1>3, <2>1, SentStays
  <2>4. b.released \in Nat /\ b.failed \in Nat /\ Total(id) \in Nat
    <3>1. b.released \in Nat /\ b.failed \in Nat
      BY <1>2 DEF Object
    <3>2. contents[id] \in Submissions
      BY DEF Sound, TypeOK, Ids
    <3>3. Len(contents[id]) \in Nat
      BY <3>2, BulkAssumption
    <3> QED BY <3>1, <3>3 DEF Total
  <2> HIDE DEF b
  <2>5. StatusHolds(tasks', t.obj, c, Total(id))
    <3>1. CASE b.status = "Accepted"
      <4>1. Steps(tasks', t.obj) = 1..Total(id) /\ b.released = 0 /\ b.failed = 0
        BY <2>1, <2>2, <2>4, <3>1 DEF StatusHolds
      <4> QED BY <1>3, <2>1, <2>4, <3>1, <4>1 DEF StatusHolds
    <3>2. CASE b.status # "Accepted"
      <4>1. ~ (b.status = "Processing" /\ ~ b.stopped)
        <5>1. 0 \notin b.released + b.failed + 1 .. Total(id)
          BY <2>4
        <5> QED BY <2>1, <2>2, <5>1 DEF StatusHolds
      <4> QED BY <1>3, <2>1, <3>2, <4>1 DEF StatusHolds
    <3> QED BY <3>1, <3>2
  <2> QED BY <2>3, <2>5
<1>5. c.id = objs[t.obj].id
  BY <1>3
<1> QED BY <1>1, <1>3, <1>4, <1>5, RunCounts

\* A task that does nothing was not waited for.
LEMMA SkipCounts ==
  ASSUME Sound, CountsHold, NEW t \in tasks, Skip(t)
  PROVE  CountsHold'
<1> DEFINE b == objs[t.obj]
<1>1. Run(t) /\ t.step # 0 /\ DueFirst(t) /\ ~ Goes(b) /\ objs' = objs /\ outbound' = outbound
  BY DEF Skip, ReleaseTask, Run
<1>2. b \in Object /\ Set(t.obj, b)
  <2>1. t.obj \in DOMAIN objs /\ objs \in Seq(Object)
    BY DEF Sound, TypeOK, TasksKnown
  <2> QED BY <1>1, <2>1 DEF Set
<1>3. ASSUME NEW id \in Ids, LiveIn(objs, table, id, t.obj)
      PROVE  StatusHolds(tasks', t.obj, b, Total(id)) /\ SentHolds(outbound', b)
  <2>1. /\ InOrder(tasks, t.obj) /\ StatusHolds(tasks, t.obj, b, Total(id))
        /\ SentHolds(outbound, b)
    BY <1>3 DEF CountsHold, LiveIn
  <2>2. b.status # "Accepted"
    <3> SUFFICES ASSUME b.status = "Accepted" PROVE FALSE
      OBVIOUS
    <3>1. Steps(tasks, t.obj) = 0..Total(id) /\ 0 < Total(id)
      BY <2>1 DEF StatusHolds
    <3>2. t.step \in Nat /\ Total(id) \in Nat
      <4>1. contents[id] \in Submissions
        BY DEF Sound, TypeOK, Ids
      <4>2. Len(contents[id]) \in Nat
        BY <4>1, BulkAssumption
      <4> QED BY <4>2 DEF Sound, TypeOK, Task, Total
    <3>3. 0 \in Steps(tasks, t.obj)
      BY <3>1, <3>2
    <3>4. t.step <= 0
      BY <1>1, <2>1, <3>3, FirstStep
    <3> QED BY <1>1, <3>2, <3>4
  <2>3. ~ (b.status = "Processing" /\ ~ b.stopped)
    BY <1>1 DEF Goes
  <2> HIDE DEF b
  <2> QED BY <1>1, <2>1, <2>2, <2>3 DEF StatusHolds
<1> QED BY <1>1, <1>2, <1>3, RunCounts

\* A release is of the next job.
LEMMA ReleaseCounts ==
  ASSUME Sound, CountsHold, NEW t \in tasks, Release(t)
  PROVE  CountsHold'
<1> DEFINE b == objs[t.obj]
           done == b.released + b.failed
<1>1. Run(t) /\ t.step # 0 /\ DueFirst(t) /\ Goes(b)
  BY DEF Release, ReleaseTask, Run
<1>2. b \in Object /\ outbound \in Seq(Stored) /\ t.step \in Nat /\ b.id \in Nat
  <2>1. t.obj \in DOMAIN objs /\ objs \in Seq(Object)
    BY DEF Sound, TypeOK, TasksKnown
  <2>2. b \in Object
    BY <2>1
  <2> HIDE DEF b
  <2> QED BY <2>2 DEF Sound, TypeOK, Task, Object
<1>3. PICK c \in Object :
        /\ Set(t.obj, c) /\ c.id = b.id
        /\ \/ /\ c.released = b.released /\ c.failed = b.failed /\ c.stopped /\ c.status = b.status
              /\ outbound' = outbound
           \/ /\ c.released + c.failed = done + 1 /\ c.stopped = b.stopped
              /\ c.status = IF done + 1 = Total(b.id) THEN "Completed" ELSE b.status
              /\ \/ c.released = b.released + 1 /\ c.failed = b.failed
                    /\ outbound' = Append(outbound, [id |-> b.id, job |-> t.step])
                 \/ c.released = b.released /\ c.failed = b.failed + 1 /\ outbound' = outbound
  <2> DEFINE r == [b EXCEPT !.released = @ + 1]
             f == [b EXCEPT !.failed = @ + 1]
             x == [b EXCEPT !.stopped = TRUE]
  <2>1. /\ r \in Object /\ r.id = b.id /\ r.released = b.released + 1 /\ r.failed = b.failed
        /\ r.stopped = b.stopped /\ r.status = b.status
        /\ f \in Object /\ f.id = b.id /\ f.released = b.released /\ f.failed = b.failed + 1
        /\ f.stopped = b.stopped /\ f.status = b.status
        /\ x \in Object /\ x.id = b.id /\ x.released = b.released /\ x.failed = b.failed
        /\ x.stopped /\ x.status = b.status
    <3>1. /\ r \in Object /\ r.id = b.id /\ r.released = b.released + 1 /\ r.failed = b.failed
          /\ r.stopped = b.stopped /\ r.status = b.status
      <4>1. r \in Object /\ r.id = b.id
        BY <1>2, ObjectChanges
      <4> HIDE DEF b
      <4> QED BY <1>2, <4>1 DEF Object
    <3>2. /\ f \in Object /\ f.id = b.id /\ f.released = b.released /\ f.failed = b.failed + 1
          /\ f.stopped = b.stopped /\ f.status = b.status
      <4>1. f \in Object /\ f.id = b.id
        BY <1>2, ObjectChanges
      <4> HIDE DEF b
      <4> QED BY <1>2, <4>1 DEF Object
    <3>3. /\ x \in Object /\ x.id = b.id /\ x.released = b.released /\ x.failed = b.failed
          /\ x.stopped = TRUE /\ x.status = b.status
      <4>1. x \in Object /\ x.id = b.id
        BY <1>2, ObjectChanges
      <4> HIDE DEF b
      <4> QED BY <1>2, <4>1 DEF Object
    <3> HIDE DEF r, f, x, b
    <3> QED BY <3>1, <3>2, <3>3
  <2>2. \/ Set(t.obj, Counted(r)) /\ outbound' = Append(outbound, [id |-> b.id, job |-> t.step])
        \/ Set(t.obj, Counted(f)) /\ outbound' = outbound
        \/ Set(t.obj, x) /\ outbound' = outbound
    BY DEF Release
  <2>3. ASSUME NEW d \in Object
        PROVE  /\ Counted(d) \in Object /\ Counted(d).id = d.id
               /\ Counted(d).released = d.released /\ Counted(d).failed = d.failed
               /\ Counted(d).stopped = d.stopped
               /\ Counted(d).status = IF d.released + d.failed = Total(d.id) THEN "Completed" ELSE d.status
    BY DEF Counted, Finished, Object
  <2>4. b.released \in Nat /\ b.failed \in Nat
    BY <1>2 DEF Object
  <2> HIDE DEF r, f, x, b
  <2>5. r.released + r.failed = done + 1 /\ f.released + f.failed = done + 1
    BY <2>1, <2>4
  <2>6. CASE Set(t.obj, Counted(r)) /\ outbound' = Append(outbound, [id |-> b.id, job |-> t.step])
    <3>1. /\ Counted(r) \in Object /\ Counted(r).id = b.id
          /\ Counted(r).released + Counted(r).failed = done + 1 /\ Counted(r).stopped = b.stopped
          /\ Counted(r).status = IF done + 1 = Total(b.id) THEN "Completed" ELSE b.status
          /\ Counted(r).released = b.released + 1 /\ Counted(r).failed = b.failed
      BY <2>1, <2>3, <2>5
    <3> HIDE DEF done
    <3> QED BY <2>6, <3>1
  <2>7. CASE Set(t.obj, Counted(f)) /\ outbound' = outbound
    <3>1. /\ Counted(f) \in Object /\ Counted(f).id = b.id
          /\ Counted(f).released + Counted(f).failed = done + 1 /\ Counted(f).stopped = b.stopped
          /\ Counted(f).status = IF done + 1 = Total(b.id) THEN "Completed" ELSE b.status
          /\ Counted(f).released = b.released /\ Counted(f).failed = b.failed + 1
      BY <2>1, <2>3, <2>5
    <3> HIDE DEF done
    <3> QED BY <2>7, <3>1
  <2>8. CASE Set(t.obj, x) /\ outbound' = outbound
    <3> HIDE DEF done
    <3> QED BY <2>1, <2>8
  <2> QED BY <2>2, <2>6, <2>7, <2>8
<1>4. c.id = objs[t.obj].id
  BY <1>3
<1> DEFINE m == [id |-> b.id, job |-> t.step]
<1>5. m \in Stored /\ m.id = b.id /\ m.job = t.step
  <2> HIDE DEF b
  <2> QED BY <1>2 DEF Stored
<1>6. \/ outbound' = outbound
      \/ \E y \in Stored : y.id = objs[t.obj].id /\ outbound' = Append(outbound, y)
  BY <1>3, <1>5
<1>7. ASSUME NEW id \in Ids, LiveIn(objs, table, id, t.obj)
      PROVE  StatusHolds(tasks', t.obj, c, Total(id)) /\ SentHolds(outbound', c)
  <2>1. /\ InOrder(tasks, t.obj) /\ StatusHolds(tasks, t.obj, b, Total(id))
        /\ SentHolds(outbound, b) /\ b.id = id
    BY <1>7 DEF CountsHold, LiveIn
  <2>2. Steps(tasks', t.obj) = Steps(tasks, t.obj) \ {t.step} /\ t.step \in Steps(tasks, t.obj)
    <3>1. tasks' = tasks \ {t}
      BY <1>1 DEF Run
    <3>2. InOrder(tasks, t.obj)
      BY <2>1
    <3>3. /\ Steps(tasks \ {t}, t.obj) = Steps(tasks, t.obj) \ {t.step}
          /\ t.step \in Steps(tasks, t.obj)
      <4> HIDE DEF b
      <4> QED BY <3>2, StepsWithout
    <3> QED BY <3>1, <3>3
  <2>3. b.released \in Nat /\ b.failed \in Nat /\ Total(id) \in Nat
    <3>1. b.released \in Nat /\ b.failed \in Nat
      BY <1>2 DEF Object
    <3>2. contents[id] \in Submissions
      BY DEF Sound, TypeOK, Ids
    <3>3. Len(contents[id]) \in Nat
      BY <3>2, BulkAssumption
    <3> QED BY <3>1, <3>3 DEF Total
  <2>4. \A k \in Steps(tasks, t.obj) : t.step <= k
    BY <1>1, <2>1, FirstStep
  <2> HIDE DEF b, m
  <2>5. Steps(tasks, t.obj) = done + 1 .. Total(id) /\ done < Total(id)
    BY <1>1, <2>1 DEF StatusHolds, Goes
  <2>6. t.step = done + 1
    <3>1. done + 1 \in Steps(tasks, t.obj) /\ t.step \in done + 1 .. Total(id)
      BY <2>2, <2>3, <2>5
    <3>2. t.step <= done + 1
      BY <2>4, <3>1
    <3> QED BY <1>2, <2>3, <3>1, <3>2
  <2>7. Steps(tasks', t.obj) = done + 1 + 1 .. Total(id)
    BY <2>2, <2>3, <2>5, <2>6
  <2>8. b.status = "Processing" /\ ~ b.stopped
    BY <1>1 DEF Goes
  <2>9. StatusHolds(tasks', t.obj, c, Total(id))
    <3>1. CASE /\ c.released = b.released /\ c.failed = b.failed /\ c.stopped /\ c.status = b.status
      BY <2>5, <2>8, <3>1 DEF StatusHolds
    <3>2. CASE /\ c.released + c.failed = done + 1 /\ c.stopped = b.stopped
               /\ c.status = IF done + 1 = Total(b.id) THEN "Completed" ELSE b.status
      <4>1. done + 1 = Total(id) \/ done + 1 < Total(id)
        BY <2>3, <2>5
      <4> HIDE DEF done
      <4>2. CASE done + 1 = Total(id)
        BY <2>1, <3>2, <4>2 DEF StatusHolds
      <4>3. CASE done + 1 < Total(id) /\ done + 1 # Total(id)
        BY <2>1, <2>7, <2>8, <3>2, <4>3 DEF StatusHolds
      <4>4. done \in Nat
        BY <2>3 DEF done
      <4> QED BY <2>3, <4>1, <4>2, <4>3, <4>4
    <3> QED BY <1>3, <3>1, <3>2
  <2>10. SentHolds(outbound', c)
    <3>1. CASE c.released = b.released + 1 /\ c.failed = b.failed /\ outbound' = Append(outbound, m)
      <4>1. m.job = b.released + b.failed + 1
        BY <1>5, <2>6
      <4> QED BY <1>2, <1>3, <1>5, <2>1, <3>1, <4>1, SentMore
    <3>2. CASE c.released = b.released /\ c.failed \in {b.failed, b.failed + 1} /\ outbound' = outbound
      BY <1>2, <1>3, <2>1, <3>2, SentStays
    <3> QED BY <1>3, <3>1, <3>2 DEF m
  <2> QED BY <2>9, <2>10
<1> QED BY <1>1, <1>3, <1>4, <1>6, <1>7, RunCounts


\* A new object waits for all its jobs, in their order.
LEMMA AcceptedWaits ==
  ASSUME Sound, NEW jobs \in Submissions, NEW o, \A t \in tasks : t.obj # o
  PROVE  LET T == tasks \union {[obj |-> o, step |-> i, due |-> DueOf(i)] : i \in 0..Len(jobs)}
         IN  InOrder(T, o) /\ Steps(T, o) = 0..Len(jobs)
<1> DEFINE N == {[obj |-> o, step |-> i, due |-> DueOf(i)] : i \in 0..Len(jobs)}
           T == tasks \union N
<1>1. \A t \in T : t.obj = o <=> t \in N
  OBVIOUS
<1>2. \A t \in N : t.step \in 0..Len(jobs) /\ t = [obj |-> o, step |-> t.step, due |-> DueOf(t.step)]
  OBVIOUS
<1>3. \A i \in 0..Len(jobs) : \E t \in N : t.step = i
  <2> TAKE i \in 0..Len(jobs)
  <2>1. [obj |-> o, step |-> i, due |-> DueOf(i)] \in N
    OBVIOUS
  <2>2. [obj |-> o, step |-> i, due |-> DueOf(i)].step = i
    OBVIOUS
  <2> HIDE DEF N
  <2> QED BY <2>1, <2>2, Zenon
<1>4. Len(jobs) \in Nat
  BY BulkAssumption
<1>5. \A i, j \in 0..Len(jobs) : i < j => DueOf(i) < DueOf(j)
  <2> SUFFICES ASSUME NEW i \in 0..Len(jobs), NEW j \in 0..Len(jobs), i < j PROVE DueOf(i) < DueOf(j)
    OBVIOUS
  <2>1. i \in Nat /\ j \in Nat
    BY <1>4
  <2>2. StepDelay \in Nat \ {0} /\ now \in Nat /\ StartDelay \in Nat
    BY BulkAssumption DEF Sound, TypeOK
  <2>3. i * StepDelay < j * StepDelay
    BY <2>1, <2>2, DueInOrder
  <2>4. i * StepDelay \in Nat /\ j * StepDelay \in Nat
    BY <2>1, <2>2
  <2> QED BY <2>2, <2>3, <2>4 DEF DueOf
<1> HIDE DEF N
<1>6. InOrder(T, o)
  <2> SUFFICES ASSUME NEW s \in T, NEW t \in T, s.obj = o, t.obj = o
               PROVE  (s.step < t.step => s.due < t.due) /\ (s.step = t.step => s = t)
    BY DEF InOrder
  <2>1. s \in N /\ t \in N
    BY <1>1
  <2>2. s.due = DueOf(s.step) /\ t.due = DueOf(t.step)
    BY <1>2, <2>1
  <2> QED BY <1>2, <1>5, <2>1, <2>2
<1>7. Steps(T, o) = {t.step : t \in N}
  BY <1>1 DEF Steps
<1>8. {t.step : t \in N} = 0..Len(jobs)
  BY <1>2, <1>3
<1> QED BY <1>6, <1>7, <1>8 DEF N

\* A new request has no messages, and its tasks are no matter to the others.
LEMMA AcceptCounts ==
  ASSUME Sound, CountsHold, MessagesKnown, NEW jobs \in Submissions, Accept(jobs)
  PROVE  CountsHold'
<1> DEFINE new == Len(contents) + 1
           no == Len(objs) + 1
           b == [id |-> new, status |-> "Accepted", released |-> 0, failed |-> 0, stopped |-> FALSE]
           N == {[obj |-> no, step |-> i, due |-> DueOf(i)] : i \in 0..Len(jobs)}
<1>1. /\ objs' = Append(objs, b) /\ table' = Append(table, no) /\ contents' = Append(contents, jobs)
      /\ tasks' = tasks \union N /\ outbound' = outbound
  BY DEF Accept
<1>2. objs \in Seq(Object) /\ table \in Seq(DOMAIN objs) /\ contents \in Seq(Submissions)
  BY DEF Sound, TypeOK
<1>3. /\ DOMAIN objs' = DOMAIN objs \union {no} /\ no \notin DOMAIN objs /\ objs'[no] = b
      /\ \A p \in DOMAIN objs : objs'[p] = objs[p]
  <2> HIDE DEF b
  <2> QED BY <1>1, <1>2
<1>4. /\ Len(contents') = new /\ contents'[new] = jobs /\ Len(contents) \in Nat
      /\ \A id \in 1..Len(contents) : contents'[id] = contents[id]
  BY <1>1, <1>2
<1>5. DOMAIN table' = DOMAIN table \union {Len(table) + 1} /\ table'[Len(table) + 1] = no
      /\ \A i \in DOMAIN table : table'[i] = table[i]
  <2> HIDE DEF no
  <2> QED BY <1>1, <1>2
<1>6. b.id = new /\ b.status = "Accepted" /\ b.released = 0 /\ b.failed = 0 /\ b.stopped = FALSE
  OBVIOUS
<1>7. \A t \in tasks : t.obj # no
  BY <1>3 DEF Sound, TasksKnown
<1>8. \A t \in N : t.obj = no
  OBVIOUS
<1>9. InOrder(tasks', no) /\ Steps(tasks', no) = 0..Len(jobs)
  BY <1>1, <1>7, AcceptedWaits
<1> HIDE DEF b, no, N
<1> SUFFICES ASSUME NEW id \in Ids', NEW o \in DOMAIN objs', LiveIn(objs', table', id, o)
             PROVE  /\ InOrder(tasks', o)
                    /\ StatusHolds(tasks', o, objs'[o], Total(id)')
                    /\ SentHolds(outbound', objs'[o])
  BY DEF CountsHold
<1>10. CASE o = no
  <2>1. id = new /\ Total(id)' = Len(jobs)
    BY <1>3, <1>4, <1>6, <1>10 DEF LiveIn, Total
  <2>2. 0 < Len(jobs)
    <3>1. jobs \in Seq([draft: Draft, renders: BOOLEAN]) /\ jobs # <<>>
      BY BulkAssumption
    <3>2. Len(jobs) \in Nat /\ Len(jobs) # 0
      BY <3>1, EmptySeq
    <3> QED BY <3>2
  <2>3. StatusHolds(tasks', o, b, Len(jobs))
    BY <1>6, <1>9, <1>10, <2>2 DEF StatusHolds
  <2>4. SentIn(outbound, new) = {}
    BY <1>4 DEF SentIn, MessagesKnown, Ids
  <2>5. SentHolds(outbound, b)
    BY <1>6, <2>4, FS_EmptySet DEF SentHolds
  <2> QED BY <1>1, <1>3, <1>9, <1>10, <2>1, <2>3, <2>5
<1>11. CASE o # no
  <2>1. o \in DOMAIN objs /\ objs'[o] = objs[o]
    BY <1>3, <1>11
  <2>2. id \in Ids /\ Total(id)' = Total(id)
    <3>1. objs[o].id \in Ids /\ objs'[o].id = id
      BY <2>1 DEF LiveIn, Sound, KnownIds
    <3> QED BY <1>4, <2>1, <3>1 DEF Ids, Total
  <2>3. LiveIn(objs, table, id, o)
    <3>1. \E i \in DOMAIN table : table[i] = o
      BY <1>5, <1>11 DEF LiveIn
    <3>2. \A p \in DOMAIN objs : objs[p].id = id => p = o
      BY <1>3 DEF LiveIn
    <3> QED BY <2>1, <3>1, <3>2 DEF LiveIn
  <2>4. /\ InOrder(tasks, o) /\ StatusHolds(tasks, o, objs[o], Total(id))
        /\ SentHolds(outbound, objs[o])
    BY <2>1, <2>2, <2>3 DEF CountsHold
  <2>5. \A t \in tasks' : t.obj = o => t \in tasks
    BY <1>1, <1>8, <1>11
  <2>6. InOrder(tasks', o) /\ Steps(tasks', o) = Steps(tasks, o)
    BY <1>1, <2>4, <2>5 DEF InOrder, Steps
  <2>7. StatusHolds(tasks', o, objs[o], Total(id))
    BY <2>4, <2>6 DEF StatusHolds
  <2> QED BY <1>1, <2>1, <2>2, <2>4, <2>6, <2>7
<1> QED BY <1>10, <1>11

\* A cancelled request is not done, and its tasks are no matter.
LEMMA CancelCounts ==
  ASSUME Sound, CountsHold, NEW id, Cancel(id)
  PROVE  CountsHold'
<1> DEFINE p == table[RowOf(id)]
           b == objs[p]
           c == [b EXCEPT !.status = "Cancelled"]
<1>1. p \in DOMAIN objs
  BY CancelRow
<1>2. b \in Object /\ Set(p, c) /\ Cancellable(b)
      /\ UNCHANGED <<tasks, contents, table, outbound>>
  BY <1>1 DEF Cancel, Sound, TypeOK, storeVars
<1>3. c \in Object /\ c.id = b.id
  BY <1>2, ObjectChanges
<1>4. c.released = b.released /\ c.failed = b.failed /\ c.status = "Cancelled"
  <2> HIDE DEF b
  <2> QED BY <1>2 DEF Object
<1> HIDE DEF c, p
<1>5. /\ DOMAIN objs' = DOMAIN objs /\ objs'[p] = c
      /\ \A q \in DOMAIN objs : q # p => objs'[q] = objs[q]
      /\ \A q \in DOMAIN objs : objs'[q].id = objs[q].id
  BY <1>1, <1>2, <1>3, SetSound
<1> SUFFICES ASSUME NEW i \in Ids', NEW o \in DOMAIN objs', LiveIn(objs', table', i, o)
             PROVE  /\ InOrder(tasks', o)
                    /\ StatusHolds(tasks', o, objs'[o], Total(i)')
                    /\ SentHolds(outbound', objs'[o])
  BY DEF CountsHold
<1>6. i \in Ids /\ o \in DOMAIN objs /\ LiveIn(objs, table, i, o) /\ Total(i)' = Total(i)
  BY <1>2, <1>5 DEF LiveIn, Ids, Total
<1>7. /\ InOrder(tasks, o) /\ StatusHolds(tasks, o, objs[o], Total(i))
      /\ SentHolds(outbound, objs[o])
  BY <1>6 DEF CountsHold
<1>8. CASE o # p
  BY <1>2, <1>5, <1>6, <1>7, <1>8
<1>9. CASE o = p
  <2>1. b.released + b.failed < Total(i)
    BY <1>2, <1>7, <1>9 DEF StatusHolds, Cancellable
  <2>2. StatusHolds(tasks, o, c, Total(i))
    BY <1>4, <2>1 DEF StatusHolds
  <2>3. SentHolds(outbound, c)
    BY <1>3, <1>4, <1>7, <1>9 DEF SentHolds
  <2> QED BY <1>2, <1>5, <1>6, <1>7, <1>9, <2>2, <2>3
<1> QED BY <1>8, <1>9

\* Nothing is shown of an empty table, nor of one of clones.
LEMMA NoneCounts ==
  ASSUME \A id, o : ~ LiveIn(objs', table', id, o)
  PROVE  CountsHold'
BY DEF CountsHold

\* A step that leaves the requests, the tasks and the messages alone keeps the counters.
LEMMA SameCounts ==
  ASSUME CountsHold, UNCHANGED <<tasks, contents, objs, table, outbound>>
  PROVE  CountsHold'
BY DEF CountsHold, Ids, Total

\* A message is of the request of its task.
LEMMA NextKnown ==
  ASSUME Sound, MessagesKnown, [Next]_vars
  PROVE  MessagesKnown'
<1>1. Ids \subseteq Ids'
  <2>1. contents' = contents \/ \E jobs \in Submissions : contents' = Append(contents, jobs)
    BY DEF Next, Accept, ClockStep, Start, Skip, Release, ReleaseTask, Run, Cancel, ChangeWorld,
           DeleteServer, Seed, Seeded, SeedFails, ReadPage, vars
  <2>2. contents \in Seq(Submissions)
    BY DEF Sound, TypeOK
  <2>3. ASSUME NEW jobs \in Submissions, contents' = Append(contents, jobs)
        PROVE  Len(contents') = Len(contents) + 1 /\ Len(contents) \in Nat
    BY <2>2, <2>3
  <2> QED BY <2>1, <2>3 DEF Ids
<1>2. CASE ClockStep
  <2>1. PICK t \in tasks : Start(t) \/ Skip(t) \/ Release(t)
    BY <1>2 DEF ClockStep
  <2>2. seeding' = seeding
    BY <2>1 DEF Start, Skip, Release, ReleaseTask, Run
  <2>3. outbound' = outbound \/ outbound' = Append(outbound, [id |-> objs[t.obj].id, job |-> t.step])
    BY <2>1 DEF Start, Skip, Release
  <2>4. objs[t.obj].id \in Ids /\ outbound \in Seq(Stored)
    BY DEF Sound, TypeOK, TasksKnown, KnownIds
  <2>5. \A m \in DOMAIN outbound' : outbound'[m].id \in Ids
    <3>1. CASE outbound' = outbound
      BY <3>1 DEF MessagesKnown
    <3>2. CASE outbound' = Append(outbound, [id |-> objs[t.obj].id, job |-> t.step])
      <4> DEFINE x == [id |-> objs[t.obj].id, job |-> t.step]
      <4>1. x.id \in Ids
        BY <2>4
      <4> HIDE DEF x
      <4>2. \A m \in DOMAIN outbound' :
             (m \in DOMAIN outbound /\ outbound'[m] = outbound[m]) \/ outbound'[m] = x
        <5>1. outbound' = Append(outbound, x)
          BY <3>2 DEF x
        <5> QED BY <2>4, <5>1
      <4> QED BY <4>1, <4>2 DEF MessagesKnown
    <3> QED BY <2>3, <3>1, <3>2
  <2> QED BY <1>1, <2>2, <2>5 DEF MessagesKnown
<1>3. CASE outbound' \in {outbound, <<>>, seeding.outbound} /\ seeding' \in {seeding, NoSeed}
           /\ (outbound' = seeding.outbound => seeding.on \/ outbound' = outbound)
  BY <1>1, <1>3 DEF MessagesKnown, NoSeed
<1>4. CASE \E reset \in BOOLEAN : Seed(reset)
  <2>1. /\ outbound' = outbound \/ outbound' = <<>>
        /\ seeding'.outbound = outbound
    BY <1>4 DEF Seed, storeVars
  <2> QED BY <1>1, <2>1 DEF MessagesKnown
<1>5. CASE SeedFails
  BY <1>3, <1>5 DEF SeedFails
<1>6. CASE ~ ClockStep /\ ~ SeedFails /\ ~ \E reset \in BOOLEAN : Seed(reset)
  <2>1. outbound' \in {outbound, <<>>} /\ seeding' \in {seeding, NoSeed}
    BY <1>6 DEF Next, Accept, Cancel, ChangeWorld, DeleteServer, Seeded, ReadPage, vars, storeVars
  <2> QED BY <1>1, <2>1 DEF MessagesKnown, NoSeed
<1> QED BY <1>2, <1>4, <1>5, <1>6

\* Every step keeps the counters right.
LEMMA NextCounts ==
  ASSUME Sound, Counts, [Next]_vars
  PROVE  Counts'
<1>1. CountsHold /\ MessagesKnown
  BY DEF Counts
<1>2. CountsHold'
  <2>2. ASSUME NEW jobs \in Submissions, Accept(jobs) PROVE CountsHold'
    BY <1>1, <2>2, AcceptCounts
  <2>3. CASE ClockStep
    BY <1>1, <2>3, StartCounts, SkipCounts, ReleaseCounts DEF ClockStep
  <2>4. ASSUME NEW id \in Ids, Cancel(id) PROVE CountsHold'
    BY <1>1, <2>4, CancelCounts
  <2>5. CASE ChangeWorld
    BY <1>1, <2>5, SameCounts DEF ChangeWorld
  <2>6. CASE DeleteServer
    BY <2>6, NoneCounts DEF DeleteServer, LiveIn
  <2>7. ASSUME NEW reset \in BOOLEAN, Seed(reset) PROVE CountsHold'
    <3>1. CASE reset
      BY <2>7, <3>1, NoneCounts DEF Seed, LiveIn
    <3>2. CASE ~ reset
      BY <1>1, <2>7, <3>2, SameCounts DEF Seed, storeVars
    <3> QED BY <3>1, <3>2
  <2>8. CASE Seeded
    BY <1>1, <2>8, SameCounts DEF Seeded
  <2>9. CASE SeedFails
    BY <2>9, NoClonesLive, NoneCounts
  <2>10. ASSUME NEW count \in PageSizes, ReadPage(count) PROVE CountsHold'
    BY <1>1, <2>10, SameCounts DEF ReadPage, storeVars
  <2>11. CASE UNCHANGED vars
    BY <1>1, <2>11, SameCounts DEF vars, storeVars
  <2> QED
    BY <2>2, <2>3, <2>4, <2>5, <2>6, <2>7, <2>8, <2>9, <2>10, <2>11 DEF Next
<1> QED BY <1>1, <1>2, NextKnown DEF Counts

\* At the start there is nothing to count.
LEMMA InitCounts == Init => Counts
BY DEF Init, Counts, CountsHold, MessagesKnown, NoSeed

\* As many tasks wait as steps.
LEMMA WaitingAreSteps ==
  ASSUME NEW T, NEW o, InOrder(T, o), NEW i \in Nat, NEW n \in Nat, i <= n,
         Steps(T, o) \ {0} = i + 1 .. n
  PROVE  Cardinality({t \in T : t.obj = o /\ t.step # 0}) = n - i
<1> DEFINE W == {t \in T : t.obj = o /\ t.step # 0}
           R == i + 1 .. n
           f == [k \in R |-> CHOOSE t \in W : t.step = k]
<1>1. W = {t \in T : t.obj = o /\ t.step # 0} /\ \A t \in W : t.step \in R
  BY DEF Steps
<1>2. \A k \in R : \E t \in W : t.step = k
  BY DEF Steps
<1>3. \A s, t \in W : s.step = t.step => s = t
  BY DEF InOrder
<1>4. IsFiniteSet(R) /\ Cardinality(R) = n - i
  <2>1. i + 1 \in Int /\ n \in Int
    OBVIOUS
  <2>2. i + 1 > n => n - i = 0
    OBVIOUS
  <2>3. n - (i + 1) + 1 = n - i
    OBVIOUS
  <2> QED BY <2>1, <2>2, <2>3, FS_Interval
<1> HIDE DEF W, R
<1>5. \A k \in R : f[k] \in W /\ f[k].step = k
  BY <1>2
<1>6. \A t \in W : t.step \in R /\ f[t.step] = t
  BY <1>1, <1>3, <1>5
<1>7. f \in [R -> W]
  <2>1. f = [k \in R |-> f[k]]
    OBVIOUS
  <2> HIDE DEF f
  <2> QED BY <1>5, <2>1
<1> HIDE DEF f
<1>8. f \in Bijection(R, W)
  <2>1. f \in Injection(R, W)
    BY <1>5, <1>7 DEF Injection, IsInjective
  <2>2. f \in Surjection(R, W)
    BY <1>6, <1>7 DEF Surjection
  <2> QED BY <2>1, <2>2 DEF Bijection
<1>9. ExistsBijection(R, W)
  BY <1>8 DEF ExistsBijection
<1>10. Cardinality(W) = Cardinality(R)
  BY <1>4, <1>9, FS_Bijection
<1> QED BY <1>4, <1>10 DEF W


\* What holds of the objects that are shown is what a client sees of them.
LEMMA CountsShow ==
  ASSUME Sound, Counts
  PROVE  CountersMatch
<1> SUFFICES ASSUME NEW i \in DOMAIN table, Original(table[i])
             PROVE  LET o == table[i]
                        b == objs[o]
                        sent == MessagesOf(b.id)
                        waiting == {t \in tasks : t.obj = o /\ t.step # 0}
                    IN  /\ Cardinality(sent) = b.released
                        /\ \A m, n \in sent : m < n => outbound[m].job < outbound[n].job
                        /\ b.status \in {"Accepted", "Processing"} /\ ~ b.stopped =>
                             b.released + b.failed + Cardinality(waiting) = Total(b.id)
                        /\ b.status = "Completed" <=> Ended(b)
  BY Zenon DEF CountersMatch
<1> DEFINE o == table[i]
           b == objs[o]
           done == b.released + b.failed
           waiting == {t \in tasks : t.obj = o /\ t.step # 0}
<1>1. o \in DOMAIN objs /\ b \in Object /\ b.id \in Ids
  BY DEF Sound, TypeOK, KnownIds
<1>2. LiveIn(objs, table, b.id, o)
  BY <1>1 DEF LiveIn, Original
<1>3. /\ InOrder(tasks, o) /\ StatusHolds(tasks, o, b, Total(b.id)) /\ SentHolds(outbound, b)
  BY <1>1, <1>2 DEF Counts, CountsHold
<1>4. b.released \in Nat /\ b.failed \in Nat /\ Total(b.id) \in Nat
  <2>1. b.released \in Nat /\ b.failed \in Nat
    BY <1>1 DEF Object
  <2>2. contents[b.id] \in Submissions
    BY <1>1 DEF Sound, TypeOK, Ids
  <2>3. Len(contents[b.id]) \in Nat
    BY <2>2, BulkAssumption
  <2> QED BY <2>1, <2>3 DEF Total
<1> HIDE DEF o, b
<1>5. MessagesOf(b.id) = SentIn(outbound, b.id)
  BY DEF MessagesOf, SentIn
<1>6. b.status = "Completed" <=> Ended(b)
  BY <1>3, <1>4 DEF StatusHolds, Ended
<1>7. ASSUME b.status \in {"Accepted", "Processing"}, ~ b.stopped
      PROVE  done + Cardinality(waiting) = Total(b.id)
  <2>1. Steps(tasks, o) \ {0} = done + 1 .. Total(b.id) /\ done <= Total(b.id)
    <3>1. CASE b.status = "Accepted"
      <4>1. done = 0 /\ Steps(tasks, o) = 0..Total(b.id)
        BY <1>3, <3>1 DEF StatusHolds
      <4> QED BY <1>4, <4>1
    <3>2. CASE b.status = "Processing"
      <4>1. Steps(tasks, o) = done + 1 .. Total(b.id) /\ done < Total(b.id)
        BY <1>3, <1>7, <3>2 DEF StatusHolds
      <4> QED BY <1>4, <4>1
    <3> QED BY <1>7, <3>1, <3>2
  <2>2. done \in Nat
    BY <1>4
  <2> HIDE DEF done
  <2>3. Cardinality(waiting) = Total(b.id) - done
    BY <1>3, <1>4, <2>1, <2>2, WaitingAreSteps
  <2> QED BY <1>4, <2>2, <2>3
<1>8. Cardinality(MessagesOf(b.id)) = b.released
      /\ \A m, n \in MessagesOf(b.id) : m < n => outbound[m].job < outbound[n].job
  BY <1>3, <1>5 DEF SentHolds
<1> QED BY <1>6, <1>7, <1>8 DEF o, b

\* Whatever happens to the account between accept and release, what a client sees
\* of a request agrees with its stored messages and its tasks (scheduleBulk of
\* src/api/bulk/bulk.ts).
THEOREM CountersAlwaysMatch == Spec => []CountersMatch
<1>1. Sound /\ Counts /\ [Next]_vars => Counts'
  BY NextCounts
<1>2. Sound /\ Counts => CountersMatch
  BY CountsShow
<1> QED BY <1>1, <1>2, InitCounts, AlwaysSound, PTL DEF Spec


-----------------------------------------------------------------------------
(***************************************************************************)
(* The list.  The IDs of the table grow, also those of a table that a      *)
(* failed seed would put back; the requests that the client has yet to see *)
(* are those of the table up to its key.                                   *)
(***************************************************************************)
TableIds == {objs[table[i]].id : i \in DOMAIN table}
SavedIds == {seeding.table[i].id : i \in DOMAIN seeding.table}
UpTo(S, key) == {id \in S : id <= key}

\* A sequence of IDs, the newest first.
Falling(s) == \A i, j \in DOMAIN s : i < j => s[i] > s[j]

Sorted ==
  /\ \A i, j \in DOMAIN table : i < j => objs[table[i]].id < objs[table[j]].id
  /\ seeding.on => \A i, j \in DOMAIN seeding.table :
                     i < j => seeding.table[i].id < seeding.table[j].id

SavedAgrees ==
  seeding.on => \A key \in TableIds \intersect SavedIds : UpTo(TableIds, key) = UpTo(SavedIds, key)

ReaderKnows ==
  reader.on =>
    /\ reader.key \in Ids /\ reader.key \in reader.first
    /\ Falling(reader.seen)
    /\ ToSet(reader.seen) = {id \in reader.first : id > reader.key}
    /\ reader.key \in TableIds => UpTo(TableIds, reader.key) = UpTo(reader.first, reader.key)
    /\ seeding.on /\ reader.key \in SavedIds => UpTo(SavedIds, reader.key) = UpTo(reader.first, reader.key)

ListHolds == Sorted /\ SavedAgrees /\ ReaderKnows
\* The list that the API shows is the table turned round.
LEMMA ListedIs ==
  ASSUME Sound, Sorted
  PROVE  /\ Listed \in Seq(Nat) /\ Len(Listed) = Len(table)
         /\ ToSet(Listed) = TableIds /\ Falling(Listed)
<1> DEFINE n == Len(table)
<1>1. objs \in Seq(Object) /\ table \in Seq(DOMAIN objs) /\ DOMAIN table = 1..n /\ n \in Nat
  BY DEF Sound, TypeOK
<1>2. \A i \in 1..n : objs[table[i]].id \in Nat
  <2> TAKE i \in 1..n
  <2>1. objs[table[i]] \in Object
    BY <1>1
  <2> QED BY <2>1 DEF Object
<1>3. \A i \in 1..n : n + 1 - i \in 1..n
  BY <1>1
<1>4. Listed = [i \in 1..n |-> objs[table[n + 1 - i]].id]
  BY <1>1 DEF Listed
<1>5. /\ Listed \in Seq(Nat) /\ Len(Listed) = n /\ DOMAIN Listed = 1..n
      /\ \A i \in 1..n : Listed[i] = objs[table[n + 1 - i]].id
  BY <1>1, <1>2, <1>3, <1>4
<1>6. \A i, j \in DOMAIN table : i < j => objs[table[i]].id < objs[table[j]].id
  BY DEF Sorted
<1> HIDE DEF n
<1>7. ToSet(Listed) = TableIds
  <2>1. ASSUME NEW i \in 1..n PROVE Listed[i] \in TableIds
    BY <1>1, <1>3, <1>5 DEF TableIds
  <2>2. ASSUME NEW i \in 1..n PROVE objs[table[i]].id \in ToSet(Listed)
    <3>1. n + 1 - i \in 1..n /\ n + 1 - (n + 1 - i) = i
      BY <1>1
    <3>2. Listed[n + 1 - i] = objs[table[i]].id
      BY <1>5, <3>1
    <3> QED BY <1>5, <3>1, <3>2 DEF ToSet
  <2> QED BY <1>1, <1>5, <2>1, <2>2 DEF ToSet, TableIds
<1>8. Falling(Listed)
  <2> SUFFICES ASSUME NEW i \in 1..n, NEW j \in 1..n, i < j PROVE Listed[i] > Listed[j]
    BY <1>5 DEF Falling
  <2>1. n + 1 - i \in 1..n /\ n + 1 - j \in 1..n /\ n + 1 - j < n + 1 - i
    BY <1>1
  <2>2. objs[table[n + 1 - j]].id < objs[table[n + 1 - i]].id
    BY <1>1, <1>6, <2>1
  <2>3. Listed[j] < Listed[i] /\ Listed[i] \in Nat /\ Listed[j] \in Nat
    BY <1>2, <1>5, <2>1, <2>2
  <2> QED BY <2>3
<1> QED BY <1>5, <1>7, <1>8 DEF n

\* A key is in the table, at its place in the list, or has no place.
LEMMA PlaceIs ==
  ASSUME Sound, Sorted, NEW key
  PROVE  \/ PlaceOf(key) = 0 /\ key \notin TableIds
         \/ PlaceOf(key) \in 1..Len(Listed) /\ Listed[PlaceOf(key)] = key
<1> DEFINE I == {i \in 1..Len(Listed) : Listed[i] = key}
<1>1. PlaceOf(key) = IF I # {} THEN Min(I) ELSE 0
  BY DEF PlaceOf, SelectInSeq
<1>2. Listed \in Seq(Nat) /\ ToSet(Listed) = TableIds
  BY ListedIs
<1>3. I \in SUBSET Nat
  OBVIOUS
<1>4. CASE I = {}
  <2>1. key \notin ToSet(Listed)
    <3>1. DOMAIN Listed = 1..Len(Listed)
      BY <1>2
    <3> QED BY <1>4, <3>1 DEF ToSet
  <2> QED BY <1>1, <1>2, <1>4, <2>1
<1>5. CASE I # {}
  <2>1. Min(I) \in I
    <3> HIDE DEF I
    <3> QED BY <1>3, <1>5, MinIsLeast
  <2>2. PlaceOf(key) = Min(I)
    BY <1>1, <1>5
  <2> QED BY <2>1, <2>2
<1> QED BY <1>4, <1>5

\* A part of such a sequence.
LEMMA PartOf ==
  ASSUME NEW L \in Seq(Nat), Falling(L), NEW a \in 1..Len(L), NEW b \in a..Len(L)
  PROVE  /\ SubSeq(L, a, b) \in Seq(Nat) /\ Falling(SubSeq(L, a, b))
         /\ ToSet(SubSeq(L, a, b)) = {x \in ToSet(L) : L[b] <= x /\ x <= L[a]}
<1> DEFINE s == SubSeq(L, a, b)
           n == b - a + 1
<1>1. a \in Int /\ b \in Int /\ a <= b /\ Len(L) \in Nat /\ DOMAIN L = 1..Len(L)
      /\ (\A i \in a..b : L[i] \in Nat /\ i \in 1..Len(L))
      /\ \A i \in 1..Len(L) : L[i] \in Nat
  OBVIOUS
<1>2. s \in Seq(Nat) /\ Len(s) = n /\ \A i \in 1..n : s[i] = L[a + i - 1]
  <2>1. \A i \in a..b : L[i] \in Nat
    BY <1>1
  <2>2. /\ s \in Seq(Nat) /\ Len(s) = IF a <= b THEN b - a + 1 ELSE 0
        /\ \A i \in 1..b - a + 1 : s[i] = L[a + i - 1]
    BY <1>1, <2>1, SubSeqProperties
  <2> QED BY <1>1, <2>2
<1> HIDE DEF s
<1>3. DOMAIN s = 1..n
  BY <1>2, LenProperties
<1>4. \A i \in 1..n : a + i - 1 \in a..b
  BY <1>1
<1>5. Falling(s)
  <2> SUFFICES ASSUME NEW i \in 1..n, NEW j \in 1..n, i < j PROVE s[i] > s[j]
    BY <1>3 DEF Falling
  <2>1. a + i - 1 \in DOMAIN L /\ a + j - 1 \in DOMAIN L /\ a + i - 1 < a + j - 1
    BY <1>1, <1>4
  <2>2. L[a + i - 1] > L[a + j - 1]
    BY <2>1 DEF Falling
  <2> QED BY <1>2, <2>2
<1>6. ToSet(s) = {L[k] : k \in a..b}
  <2>1. ASSUME NEW i \in 1..n PROVE s[i] \in {L[k] : k \in a..b}
    BY <1>2, <1>4
  <2>2. ASSUME NEW k \in a..b PROVE L[k] \in ToSet(s)
    <3>1. k - a + 1 \in 1..n /\ a + (k - a + 1) - 1 = k
      BY <1>1
    <3>2. s[k - a + 1] = L[k]
      BY <1>2, <3>1
    <3> QED BY <1>3, <3>1, <3>2 DEF ToSet
  <2> QED BY <1>3, <2>1, <2>2 DEF ToSet
<1>7. \A k \in 1..Len(L) : k \in a..b <=> L[b] <= L[k] /\ L[k] <= L[a]
  <2> TAKE k \in 1..Len(L)
  <2>1. /\ k < a => L[k] > L[a]
        /\ a < k => L[a] > L[k]
        /\ b < k => L[b] > L[k]
        /\ k < b => L[k] > L[b]
    <3>1. k \in DOMAIN L /\ a \in DOMAIN L /\ b \in DOMAIN L
      BY <1>1
    <3> QED BY <3>1 DEF Falling
  <2>2. L[k] \in Nat /\ L[a] \in Nat /\ L[b] \in Nat
    BY <1>1
  <2>3. k \in a..b <=> a <= k /\ k <= b
    BY <1>1
  <2>4. k = a \/ k < a \/ a < k
    BY <1>1
  <2>5. k = b \/ k < b \/ b < k
    BY <1>1
  <2> QED BY <1>1, <2>1, <2>2, <2>3, <2>4, <2>5
<1>8. ToSet(s) = {x \in ToSet(L) : L[b] <= x /\ x <= L[a]}
  BY <1>1, <1>6, <1>7 DEF ToSet
<1> QED BY <1>2, <1>5, <1>8 DEF s

\* Such a sequence goes on with an older one.
LEMMA JoinedFalls ==
  ASSUME NEW s \in Seq(Nat), NEW t \in Seq(Nat), Falling(s), Falling(t),
         \A x \in ToSet(s), y \in ToSet(t) : x > y
  PROVE  s \o t \in Seq(Nat) /\ Falling(s \o t) /\ ToSet(s \o t) = ToSet(s) \union ToSet(t)
<1> DEFINE u == s \o t
<1>1. /\ u \in Seq(Nat) /\ Len(u) = Len(s) + Len(t)
      /\ \A i \in 1..Len(s) + Len(t) : u[i] = IF i <= Len(s) THEN s[i] ELSE t[i - Len(s)]
  BY ConcatProperties
<1>2. DOMAIN s = 1..Len(s) /\ DOMAIN t = 1..Len(t) /\ Len(s) \in Nat /\ Len(t) \in Nat
  OBVIOUS
<1> HIDE DEF u
<1>3. DOMAIN u = 1..Len(s) + Len(t)
  BY <1>1, LenProperties
<1>4. \A i \in DOMAIN u : \/ i \in DOMAIN s /\ u[i] = s[i]
                          \/ ~ (i <= Len(s)) /\ i - Len(s) \in DOMAIN t /\ u[i] = t[i - Len(s)]
  BY <1>1, <1>2, <1>3
<1>5. Falling(u)
  <2> SUFFICES ASSUME NEW i \in DOMAIN u, NEW j \in DOMAIN u, i < j PROVE u[i] > u[j]
    BY DEF Falling
  <2>1. CASE i \in DOMAIN s /\ u[i] = s[i] /\ j \in DOMAIN s /\ u[j] = s[j]
    BY <2>1 DEF Falling
  <2>2. CASE i \in DOMAIN s /\ u[i] = s[i] /\ ~ (j <= Len(s)) /\ j - Len(s) \in DOMAIN t /\ u[j] = t[j - Len(s)]
    BY <2>2 DEF ToSet
  <2>3. CASE /\ ~ (i <= Len(s)) /\ i - Len(s) \in DOMAIN t /\ u[i] = t[i - Len(s)]
             /\ ~ (j <= Len(s)) /\ j - Len(s) \in DOMAIN t /\ u[j] = t[j - Len(s)]
    <3>1. i - Len(s) < j - Len(s)
      BY <1>2, <1>3
    <3> QED BY <2>3, <3>1 DEF Falling
  <2>4. ~ (~ (i <= Len(s)) /\ j \in DOMAIN s)
    BY <1>2, <1>3
  <2> QED BY <1>4, <2>1, <2>2, <2>3, <2>4
<1>6. \A x \in ToSet(u) : x \in ToSet(s) \/ x \in ToSet(t)
  BY <1>4 DEF ToSet
<1>7. \A x \in ToSet(s) : x \in ToSet(u)
  <2>1. \A i \in DOMAIN s : i \in DOMAIN u /\ u[i] = s[i]
    BY <1>1, <1>2, <1>3
  <2> QED BY <2>1 DEF ToSet
<1>8. \A x \in ToSet(t) : x \in ToSet(u)
  <2>1. \A i \in DOMAIN t : i + Len(s) \in DOMAIN u /\ u[i + Len(s)] = t[i]
    <3> TAKE i \in DOMAIN t
    <3>1. i + Len(s) \in 1..Len(s) + Len(t) /\ ~ (i + Len(s) <= Len(s)) /\ i + Len(s) - Len(s) = i
      BY <1>2
    <3> QED BY <1>1, <1>3, <3>1
  <2> QED BY <2>1 DEF ToSet
<1> QED BY <1>1, <1>5, <1>6, <1>7, <1>8 DEF u
\* A client that pages, and what it holds.
LEMMA PagerTyped ==
  ASSUME Sound, reader.on
  PROVE  reader.key \in Nat /\ reader.seen \in Seq(Nat) /\ reader.first \in SUBSET Nat
<1>1. reader \in Reader
  BY DEF Sound, TypeOK, Idle
<1> QED BY <1>1 DEF Reader

\* What the client has seen and what is listed from its key on is all of it.
LEMMA ListShows ==
  ASSUME Sound, ListHolds
  PROVE  ListingComplete
<1> DEFINE place == PlaceOf(reader.key)
           rest == SubSeq(Listed, place, Len(Listed))
           all == reader.seen \o rest
<1> SUFFICES ASSUME reader.on, place # 0
             PROVE  ToSet(all) = reader.first /\ \A i, j \in DOMAIN all : i < j => all[i] > all[j]
  BY Zenon DEF ListingComplete
<1>1. /\ Listed \in Seq(Nat) /\ ToSet(Listed) = TableIds /\ Falling(Listed)
      /\ Len(Listed) \in Nat /\ DOMAIN Listed = 1..Len(Listed)
  BY ListedIs DEF ListHolds
<1>2. place \in 1..Len(Listed) /\ Listed[place] = reader.key
  BY PlaceIs DEF ListHolds
<1>3. reader.key \in Nat /\ reader.seen \in Seq(Nat) /\ reader.first \in SUBSET Nat
  BY PagerTyped
<1>4. /\ Falling(reader.seen)
      /\ ToSet(reader.seen) = {id \in reader.first : id > reader.key}
      /\ reader.key \in TableIds => UpTo(TableIds, reader.key) = UpTo(reader.first, reader.key)
  BY DEF ListHolds, ReaderKnows
<1>5. reader.key \in TableIds
  BY <1>1, <1>2 DEF ToSet
<1> HIDE DEF place
<1>6. /\ rest \in Seq(Nat) /\ Falling(rest)
      /\ ToSet(rest) = {x \in ToSet(Listed) : Listed[Len(Listed)] <= x /\ x <= Listed[place]}
  <2>1. Len(Listed) \in place..Len(Listed)
    BY <1>1, <1>2
  <2> QED BY <1>1, <1>2, <2>1, PartOf
<1> HIDE DEF rest
<1>7. \A x \in ToSet(Listed) : x \in Nat /\ Listed[Len(Listed)] <= x
  <2> SUFFICES ASSUME NEW k \in DOMAIN Listed PROVE Listed[k] \in Nat /\ Listed[Len(Listed)] <= Listed[k]
    BY DEF ToSet
  <2>1. Len(Listed) \in DOMAIN Listed /\ k <= Len(Listed) /\ Listed[k] \in Nat /\ Listed[Len(Listed)] \in Nat
    BY <1>1, <1>2
  <2>2. k < Len(Listed) => Listed[k] > Listed[Len(Listed)]
    BY <1>1, <2>1 DEF Falling
  <2>3. k = Len(Listed) \/ k < Len(Listed)
    BY <1>1, <2>1
  <2> QED BY <2>1, <2>2, <2>3
<1>8. ToSet(rest) = UpTo(reader.first, reader.key)
  <2>1. ToSet(rest) = UpTo(TableIds, reader.key)
    BY <1>1, <1>2, <1>6, <1>7 DEF UpTo
  <2> QED BY <1>4, <1>5, <2>1
<1>9. \A x \in ToSet(reader.seen), y \in ToSet(rest) : x > y
  BY <1>3, <1>4, <1>8 DEF UpTo
<1>10. Falling(all) /\ ToSet(all) = ToSet(reader.seen) \union ToSet(rest)
  BY <1>3, <1>4, <1>6, <1>9, JoinedFalls
<1>11. ToSet(all) = reader.first
  BY <1>3, <1>4, <1>8, <1>10 DEF UpTo
<1> QED BY <1>10, <1>11 DEF Falling

\* A page takes the list up to the key of the next.
LEMMA ReadKnows ==
  ASSUME Sound, ListHolds, NEW count \in PageSizes, ReadPage(count)
  PROVE  ReaderKnows'
<1> DEFINE start == IF reader.on THEN PlaceOf(reader.key) ELSE 1
           end == Min({start + count - 1, Len(Listed)})
           page == SubSeq(Listed, start, end)
           next == start + count
           L == Listed
<1>1. /\ reader' = IF start = 0 \/ next > Len(Listed) THEN Idle
                   ELSE [on |-> TRUE, key |-> Listed[next],
                         seen |-> IF reader.on THEN reader.seen \o page ELSE page,
                         first |-> IF reader.on THEN reader.first ELSE ToSet(Listed)]
      /\ UNCHANGED <<contents, objs, table, seeding>>
  BY DEF ReadPage, storeVars
<1>2. TableIds' = TableIds /\ SavedIds' = SavedIds /\ Ids' = Ids
  BY <1>1 DEF TableIds, SavedIds, Ids
<1>3. CASE start = 0 \/ next > Len(Listed)
  BY <1>1, <1>3 DEF ReaderKnows, Idle
<1>4. CASE ~ (start = 0 \/ next > Len(Listed))
  <2>1. /\ L \in Seq(Nat) /\ ToSet(L) = TableIds /\ Falling(L)
        /\ Len(L) \in Nat /\ DOMAIN L = 1..Len(L) /\ \A k \in DOMAIN L : L[k] \in Nat
    BY ListedIs DEF ListHolds
  <2>2. count \in Nat \ {0}
    BY BulkAssumption
  <2>3. start \in Nat \ {0} /\ (reader.on => L[start] = reader.key)
    <3>1. CASE reader.on
      BY <1>4, <3>1, PlaceIs DEF ListHolds
    <3>2. CASE ~ reader.on
      BY <3>2
    <3> QED BY <3>1, <3>2
  <2>4. ~ reader.on => start = 1
    OBVIOUS
  <2> HIDE DEF start, L
  <2>5. end = next - 1
    <3> DEFINE E == {start + count - 1, Len(Listed)}
    <3>1. E \in SUBSET Nat /\ E # {} /\ start + count - 1 <= Len(Listed)
      BY <1>4, <2>1, <2>2, <2>3 DEF L
    <3>2. Min(E) \in E /\ \A n \in E : Min(E) <= n
      <4> HIDE DEF E
      <4> QED BY <3>1, MinIsLeast
    <3>3. Min(E) = start + count - 1
      <4>1. Min(E) \in {start + count - 1, Len(Listed)} /\ Min(E) <= start + count - 1
        BY <3>2
      <4>2. start + count - 1 \in Nat /\ Len(Listed) \in Nat
        BY <2>1, <2>2, <2>3 DEF L
      <4> HIDE DEF E
      <4> QED BY <3>1, <4>1, <4>2
    <3>4. start + count - 1 = next - 1
      BY <2>2, <2>3
    <3> QED BY <3>3, <3>4
  <2>6. /\ start \in 1..Len(L) /\ end \in start..Len(L) /\ next \in 1..Len(L) /\ start < next
        /\ end = next - 1
    BY <1>4, <2>1, <2>2, <2>3, <2>5 DEF L
  <2> HIDE DEF end, next
  <2>7. /\ page \in Seq(Nat) /\ Falling(page)
        /\ ToSet(page) = {x \in ToSet(L) : L[end] <= x /\ x <= L[start]}
    BY <2>1, <2>6, PartOf DEF L
  <2> HIDE DEF page
  <2> DEFINE key == L[next]
  <2>8. key \in Nat /\ key \in TableIds /\ key < L[start] /\ L[start] \in TableIds
    BY <2>1, <2>6 DEF ToSet, Falling
  <2>9. \A x \in ToSet(L) : L[end] <= x <=> x > key
    <3> SUFFICES ASSUME NEW k \in DOMAIN L PROVE L[end] <= L[k] <=> L[k] > L[next]
      BY DEF ToSet
    <3>1. next \in DOMAIN L /\ end \in DOMAIN L
      BY <2>1, <2>6
    <3>2. /\ k < next => L[k] > L[next]
          /\ next < k => L[next] > L[k]
          /\ k < end => L[k] > L[end]
          /\ end < k => L[end] > L[k]
      BY <2>1, <3>1 DEF Falling
    <3>3. L[k] \in Nat /\ L[next] \in Nat /\ L[end] \in Nat
      BY <2>1, <3>1
    <3>4. k = next \/ next < k \/ k < next
      BY <2>1, <3>1
    <3>5. k < next => k = end \/ k < end
      BY <2>1, <2>6, <3>1
    <3>6. k = next \/ next < k => end < k
      BY <2>1, <2>6, <3>1
    <3> QED BY <3>2, <3>3, <3>4, <3>5, <3>6
  <2>10. ToSet(page) = {x \in TableIds : x > key /\ x <= L[start]}
    BY <2>1, <2>7, <2>9
  <2>11. TableIds \subseteq Nat
    BY <2>1 DEF ToSet
  <2>12. TableIds \subseteq Ids
    BY DEF Sound, TypeOK, KnownIds, TableIds
  <2>13. /\ reader'.on /\ reader'.key = key
         /\ reader'.seen = IF reader.on THEN reader.seen \o page ELSE page
         /\ reader'.first = IF reader.on THEN reader.first ELSE TableIds
    BY <1>1, <1>4, <2>1 DEF L
  <2> HIDE DEF key
  <2>14. /\ Falling(reader'.seen)
         /\ ToSet(reader'.seen) = {id \in reader'.first : id > key}
         /\ key \in reader'.first
         /\ UpTo(TableIds, key) = UpTo(reader'.first, key)
    <3>1. CASE reader.on
      <4>1. reader.key \in Nat /\ reader.seen \in Seq(Nat) /\ reader.first \in SUBSET Nat
        BY <3>1, PagerTyped
      <4>2. reader.key = L[start] /\ key < reader.key /\ reader.key \in TableIds
        BY <2>3, <2>8, <3>1
      <4>3. /\ Falling(reader.seen)
            /\ ToSet(reader.seen) = {id \in reader.first : id > reader.key}
            /\ UpTo(TableIds, reader.key) = UpTo(reader.first, reader.key)
        BY <3>1, <4>2 DEF ListHolds, ReaderKnows
      <4>4. \A x \in Nat : x <= reader.key => (x \in TableIds <=> x \in reader.first)
        BY <4>3 DEF UpTo
      <4>5. \A x \in ToSet(reader.seen), y \in ToSet(page) : x > y
        <5>1. \A x \in ToSet(reader.seen) : x \in Nat /\ x > reader.key
          BY <4>1, <4>3
        <5>2. \A y \in ToSet(page) : y \in Nat /\ y <= reader.key
          BY <2>10, <2>11, <4>2
        <5> QED BY <4>1, <5>1, <5>2
      <4>6. /\ Falling(reader.seen \o page)
            /\ ToSet(reader.seen \o page) = ToSet(reader.seen) \union ToSet(page)
        BY <2>7, <4>1, <4>3, <4>5, JoinedFalls
      <4>7. ToSet(reader.seen \o page) = {id \in reader.first : id > key}
        BY <2>8, <2>10, <2>11, <4>1, <4>2, <4>3, <4>4, <4>6
      <4>8. UpTo(TableIds, key) = UpTo(reader.first, key)
        <5>1. \A x \in Nat : x <= key => x <= reader.key
          BY <2>8, <4>1, <4>2
        <5>2. \A x \in Nat : x <= key => (x \in TableIds <=> x \in reader.first)
          BY <4>4, <5>1
        <5> QED BY <2>11, <4>1, <5>2 DEF UpTo
      <4>9. key \in reader.first
        <5>1. key <= reader.key
          BY <2>8, <4>1, <4>2
        <5> QED BY <2>8, <4>4, <5>1
      <4> QED BY <2>13, <3>1, <4>6, <4>7, <4>8, <4>9
    <3>2. CASE ~ reader.on
      <4>1. \A x \in TableIds : x <= L[start]
        <5> SUFFICES ASSUME NEW k \in DOMAIN L PROVE L[k] <= L[start]
          BY <2>1 DEF ToSet
        <5>1. start \in DOMAIN L /\ (k = start \/ start < k) /\ L[k] \in Nat /\ L[start] \in Nat
          BY <2>1, <2>4, <2>6, <3>2
        <5>2. start < k => L[start] > L[k]
          BY <2>1, <5>1 DEF Falling
        <5> QED BY <5>1, <5>2
      <4>2. ToSet(page) = {x \in TableIds : x > key}
        BY <2>10, <4>1
      <4> QED BY <2>7, <2>8, <2>13, <3>2, <4>2
    <3> QED BY <3>1, <3>2
  <2>15. seeding.on /\ key \in SavedIds => UpTo(SavedIds, key) = UpTo(TableIds, key)
    BY <2>8 DEF ListHolds, SavedAgrees
  <2>16. key \in Ids
    BY <2>8, <2>12
  <2> QED BY <1>1, <1>2, <2>13, <2>14, <2>15, <2>16 DEF ReaderKnows
<1> QED BY <1>3, <1>4
\* A step that leaves the table, the seed and the client alone keeps the list.
LEMMA SameList ==
  ASSUME Sound, ListHolds, UNCHANGED <<table, seeding, reader>>, Ids \subseteq Ids',
         \A o \in DOMAIN objs : objs'[o].id = objs[o].id
  PROVE  ListHolds'
<1>1. \A i \in DOMAIN table : objs'[table[i]].id = objs[table[i]].id
  <2>1. \A i \in DOMAIN table : table[i] \in DOMAIN objs
    BY DEF Sound, TypeOK
  <2> QED BY <2>1
<1>2. TableIds' = TableIds /\ SavedIds' = SavedIds
  BY <1>1 DEF TableIds, SavedIds
<1>3. Sorted'
  BY <1>1 DEF ListHolds, Sorted
<1>4. SavedAgrees'
  BY <1>2 DEF ListHolds, SavedAgrees
<1>5. ReaderKnows'
  BY <1>2 DEF ListHolds, ReaderKnows
<1> QED BY <1>3, <1>4, <1>5 DEF ListHolds

\* A new request comes after those that the client has yet to see.
LEMMA AcceptList ==
  ASSUME Sound, ListHolds, NEW jobs \in Submissions, Accept(jobs)
  PROVE  ListHolds'
<1> DEFINE new == Len(contents) + 1
           no == Len(objs) + 1
           b == [id |-> new, status |-> "Accepted", released |-> 0, failed |-> 0, stopped |-> FALSE]
<1>1. /\ objs' = Append(objs, b) /\ table' = Append(table, no) /\ contents' = Append(contents, jobs)
      /\ seeding' = seeding /\ reader' = reader
  BY DEF Accept
<1>2. objs \in Seq(Object) /\ table \in Seq(DOMAIN objs) /\ contents \in Seq(Submissions)
  BY DEF Sound, TypeOK
<1>3. objs'[no] = b /\ \A p \in DOMAIN objs : objs'[p] = objs[p]
  <2> HIDE DEF b
  <2> QED BY <1>1, <1>2
<1>4. Len(contents) \in Nat /\ Ids' = Ids \union {new} /\ Ids = 1..Len(contents)
  BY <1>1, <1>2 DEF Ids
<1>5. DOMAIN table' = DOMAIN table \union {Len(table) + 1} /\ table'[Len(table) + 1] = no
      /\ DOMAIN table = 1..Len(table) /\ Len(table) \in Nat
      /\ \A i \in DOMAIN table : table'[i] = table[i] /\ table[i] \in DOMAIN objs
  <2> HIDE DEF no
  <2> QED BY <1>1, <1>2
<1>6. b.id = new
  OBVIOUS
<1> HIDE DEF b, no
<1>7. /\ objs'[table'[Len(table) + 1]].id = new
      /\ \A i \in DOMAIN table : objs'[table'[i]].id = objs[table[i]].id /\ objs[table[i]].id \in Ids
  BY <1>3, <1>5, <1>6 DEF Sound, KnownIds
<1>8. TableIds' = TableIds \union {new} /\ TableIds \subseteq Ids /\ SavedIds' = SavedIds
  <2> DEFINE idOf(i) == objs'[table'[i]].id
  <2>1. TableIds' = {idOf(i) : i \in DOMAIN table'}
    BY DEF TableIds
  <2>2. idOf(Len(table) + 1) = new /\ \A i \in DOMAIN table : idOf(i) = objs[table[i]].id
    BY <1>7
  <2> HIDE DEF idOf
  <2>3. TableIds' = TableIds \union {new}
    <3>1. TableIds = {idOf(i) : i \in DOMAIN table}
      BY <2>2 DEF TableIds
    <3>2. TableIds' = {idOf(i) : i \in DOMAIN table} \union {idOf(Len(table) + 1)}
      BY <1>5, <2>1
    <3> QED BY <2>2, <3>1, <3>2
  <2>4. TableIds \subseteq Ids
    BY <1>7 DEF TableIds
  <2> QED BY <1>1, <2>3, <2>4 DEF SavedIds
<1>9. seeding.on => SavedIds \subseteq Ids
  BY DEF SavedIds, Sound, KnownIds
<1>10. new \notin Ids /\ new \in Nat /\ \A id \in Ids : id < new /\ id \in Nat
  BY <1>4
<1> HIDE DEF new
<1>11. Sorted'
  <2>1. \A i, j \in DOMAIN table' : i < j => objs'[table'[i]].id < objs'[table'[j]].id
    <3> SUFFICES ASSUME NEW i \in DOMAIN table', NEW j \in DOMAIN table', i < j
                 PROVE  objs'[table'[i]].id < objs'[table'[j]].id
      OBVIOUS
    <3>1. i \in DOMAIN table
      BY <1>5
    <3>2. CASE j \in DOMAIN table
      BY <1>7, <3>1, <3>2 DEF ListHolds, Sorted
    <3>3. CASE j = Len(table) + 1
      BY <1>7, <1>10, <3>1, <3>3
    <3> QED BY <1>5, <3>2, <3>3
  <2> QED BY <1>1, <2>1 DEF ListHolds, Sorted
<1>12. \A key \in Ids : UpTo(TableIds', key) = UpTo(TableIds, key)
  <2>1. \A key \in Ids : ~ (new <= key)
    BY <1>10
  <2> QED BY <1>8, <2>1 DEF UpTo
<1>13. SavedAgrees'
  BY <1>1, <1>8, <1>9, <1>10, <1>12 DEF ListHolds, SavedAgrees
<1>14. ReaderKnows'
  BY <1>1, <1>4, <1>8, <1>10, <1>12 DEF ListHolds, ReaderKnows
<1> QED BY <1>11, <1>13, <1>14 DEF ListHolds

\* When the table is emptied, the key of the client is of no request.
LEMMA DeleteList ==
  ASSUME Sound, ListHolds, DeleteServer
  PROVE  ListHolds'
<1>1. table' = <<>> /\ UNCHANGED <<seeding, reader, contents>>
  BY DEF DeleteServer
<1>2. TableIds' = {} /\ SavedIds' = SavedIds /\ Ids' = Ids
  BY <1>1 DEF TableIds, SavedIds, Ids
<1> QED BY <1>1, <1>2 DEF ListHolds, Sorted, SavedAgrees, ReaderKnows

\* A seed saves the table as it is.
LEMMA SeedList ==
  ASSUME Sound, ListHolds, NEW reset \in BOOLEAN, Seed(reset)
  PROVE  ListHolds'
<1>1. /\ UNCHANGED <<objs, reader, contents>> /\ seeding'.on
      /\ seeding'.table = [i \in DOMAIN table |-> objs[table[i]]]
      /\ table' = table \/ table' = <<>>
  BY DEF Seed, storeVars
<1>2. DOMAIN seeding'.table = DOMAIN table
      /\ \A i \in DOMAIN table : seeding'.table[i] = objs[table[i]]
  BY <1>1
<1>3. SavedIds' = TableIds /\ (TableIds' = TableIds \/ TableIds' = {}) /\ Ids' = Ids
  BY <1>1, <1>2 DEF SavedIds, TableIds, Ids
<1>4. Sorted'
  BY <1>1, <1>2 DEF ListHolds, Sorted
<1>5. SavedAgrees'
  BY <1>3 DEF SavedAgrees
<1>6. ReaderKnows'
  BY <1>1, <1>3 DEF ListHolds, ReaderKnows
<1> QED BY <1>4, <1>5, <1>6 DEF ListHolds

\* A seed that ends well leaves the table.
LEMMA SeededList ==
  ASSUME Sound, ListHolds, Seeded
  PROVE  ListHolds'
<1>1. /\ UNCHANGED <<objs, table, reader, contents>> /\ ~ seeding'.on
  BY DEF Seeded, NoSeed
<1>2. TableIds' = TableIds /\ Ids' = Ids
  BY <1>1 DEF TableIds, Ids
<1> QED BY <1>1, <1>2 DEF ListHolds, Sorted, SavedAgrees, ReaderKnows

\* A seed that fails puts back the table that it saved.
LEMMA SeedFailsList ==
  ASSUME Sound, ListHolds, SeedFails
  PROVE  ListHolds'
<1> DEFINE C == seeding.table
<1>1. objs \in Seq(Object) /\ C \in Seq(Object)
  <2>1. seeding \in Saved
    BY Cloned
  <2> QED BY <2>1 DEF Saved, Sound, TypeOK
<1>2. /\ objs' = objs \o C /\ table' = [i \in DOMAIN C |-> Len(objs) + i]
      /\ UNCHANGED <<reader, contents>> /\ ~ seeding'.on /\ seeding.on
  BY DEF SeedFails, NoSeed
<1> HIDE DEF C
<1>3. \A i \in DOMAIN C : objs'[Len(objs) + i] = C[i]
  <2> TAKE i \in DOMAIN C
  <2>1. Len(objs) + i \in 1..Len(objs) + Len(C) /\ ~ (Len(objs) + i <= Len(objs))
        /\ Len(objs) + i - Len(objs) = i
    BY <1>1
  <2> QED BY <1>1, <1>2, <2>1, ConcatProperties
<1>4. DOMAIN table' = DOMAIN C /\ \A i \in DOMAIN C : objs'[table'[i]] = C[i]
  BY <1>2, <1>3
<1>5. TableIds' = SavedIds /\ Ids' = Ids
  <2> DEFINE idOf(i) == objs'[table'[i]].id
  <2>1. TableIds' = {idOf(i) : i \in DOMAIN table'} /\ SavedIds = {C[i].id : i \in DOMAIN C}
    BY DEF TableIds, SavedIds, C
  <2>2. \A i \in DOMAIN C : idOf(i) = C[i].id
    BY <1>4
  <2> HIDE DEF idOf
  <2>3. TableIds' = SavedIds
    BY <1>4, <2>1, <2>2
  <2> QED BY <1>2, <2>3 DEF Ids
<1>6. Sorted'
  <2>1. \A i, j \in DOMAIN C : i < j => C[i].id < C[j].id
    BY <1>2 DEF ListHolds, Sorted, C
  <2>2. \A i, j \in DOMAIN table' : i < j => objs'[table'[i]].id < objs'[table'[j]].id
    BY <1>4, <2>1
  <2> QED BY <1>2, <2>2 DEF Sorted
<1>7. SavedAgrees' /\ ReaderKnows'
  BY <1>2, <1>5 DEF ListHolds, SavedAgrees, ReaderKnows
<1> QED BY <1>6, <1>7 DEF ListHolds

\* A read page moves nothing but the client.
LEMMA ReadList ==
  ASSUME Sound, ListHolds, NEW count \in PageSizes, ReadPage(count)
  PROVE  ListHolds'
<1>1. UNCHANGED <<objs, table, seeding>>
  BY DEF ReadPage, storeVars
<1>2. TableIds' = TableIds /\ SavedIds' = SavedIds
  BY <1>1 DEF TableIds, SavedIds
<1> QED BY <1>1, <1>2, ReadKnows DEF ListHolds, Sorted, SavedAgrees

\* Every step keeps the list.
LEMMA NextList ==
  ASSUME Sound, ListHolds, [Next]_vars
  PROVE  ListHolds'
<1>1. ASSUME NEW jobs \in Submissions, Accept(jobs) PROVE ListHolds'
  BY <1>1, AcceptList
<1>2. CASE ClockStep
  <2>1. PICK t \in tasks : Start(t) \/ Skip(t) \/ Release(t)
    BY <1>2 DEF ClockStep
  <2>2. PICK c : Run(t) /\ Ran(t, c) /\ Set(t.obj, c)
    BY <2>1, ClockCases
  <2>3. t.obj \in DOMAIN objs /\ objs[t.obj] \in Object
    BY DEF Sound, TypeOK, TasksKnown
  <2>4. c \in Object /\ c.id = objs[t.obj].id
    BY <2>2, <2>3, RanTyped
  <2>5. \A o \in DOMAIN objs : objs'[o].id = objs[o].id
    BY <2>2, <2>3, <2>4, SetSound
  <2> QED BY <2>2, <2>5, SameList DEF Run, Ids
<1>3. ASSUME NEW id \in Ids, Cancel(id) PROVE ListHolds'
  <2> DEFINE o == table[RowOf(id)]
             c == [objs[o] EXCEPT !.status = "Cancelled"]
  <2>1. o \in DOMAIN objs
    BY <1>3, CancelRow
  <2>2. objs[o] \in Object /\ Set(o, c) /\ UNCHANGED <<contents, table, seeding, reader>>
    BY <1>3, <2>1 DEF Cancel, Sound, TypeOK, storeVars
  <2>3. c \in Object /\ c.id = objs[o].id
    BY <2>2, ObjectChanges
  <2>4. \A p \in DOMAIN objs : objs'[p].id = objs[p].id
    <3> HIDE DEF o, c
    <3> QED BY <2>1, <2>2, <2>3, SetSound
  <2> QED BY <2>2, <2>4, SameList DEF Ids
<1>4. CASE ChangeWorld
  BY <1>4, SameList DEF ChangeWorld, Ids
<1>5. ASSUME NEW reset \in BOOLEAN, Seed(reset) PROVE ListHolds'
  BY <1>5, SeedList
<1>6. ASSUME NEW count \in PageSizes, ReadPage(count) PROVE ListHolds'
  BY <1>6, ReadList
<1>7. CASE UNCHANGED vars
  BY <1>7, SameList DEF vars, storeVars, Ids
<1> QED
  BY <1>1, <1>2, <1>3, <1>4, <1>5, <1>6, <1>7, DeleteList, SeededList, SeedFailsList DEF Next

\* At the start nothing is listed.
LEMMA InitList == Init => ListHolds
BY DEF Init, ListHolds, Sorted, SavedAgrees, ReaderKnows, NoSeed, Idle

\* A client that follows the keys of GET /email/bulk sees each request that was
\* there at its first page once, the newest first (src/api/bulk/routes.ts).
THEOREM ListingAlwaysComplete == Spec => []ListingComplete
<1>1. Sound /\ ListHolds /\ [Next]_vars => ListHolds'
  BY NextList
<1>2. Sound /\ ListHolds => ListingComplete
  BY ListShows
<1> QED BY <1>1, <1>2, InitList, AlwaysSound, PTL DEF Spec
=============================================================================

