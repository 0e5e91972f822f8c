--------------------------- MODULE RecipientsProofs ---------------------------
(***************************************************************************)
(* Proofs about Recipients, for every choice of its constants: what a      *)
(* message or an address can become, and the suppression rows.             *)
(***************************************************************************)
EXTENDS Recipients, TLAPS

(***************************************************************************)
(* Lemmas about the partial maps of the model.                             *)
(***************************************************************************)

\* A map with one more entry, or with an entry replaced, is such a map.
LEMMA ExtendMap ==
  ASSUME NEW S, NEW T, NEW f, IsMap(f, S, T), NEW x \in S, NEW y \in T
  PROVE  IsMap([z \in DOMAIN f \union {x} |-> IF z = x THEN y ELSE f[z]], S, T)
BY DEF IsMap

\* A map with fewer entries is such a map.
LEMMA RestrictMap ==
  ASSUME NEW S, NEW T, NEW f, IsMap(f, S, T), NEW D \in SUBSET DOMAIN f
  PROVE  IsMap(Restrict(f, D), S, T)
BY DEF IsMap, Restrict

\* The handler tables stay typed: a frame put in place, or taken away.
LEMMA StartTyped ==
  ASSUME IsMap(flight, Handlers, Frame), NEW p \in Handlers, NEW f \in Frame, Start(p, f)
  PROVE  IsMap(flight', Handlers, Frame)
BY ExtendMap DEF Start

LEMMA AnswerTyped ==
  ASSUME IsMap(flight, Handlers, Frame), NEW p \in Handlers, Answer(p)
  PROVE  IsMap(flight', Handlers, Frame)
BY RestrictMap DEF Answer

LEMMA ContinueTyped ==
  ASSUME IsMap(flight, Handlers, Frame), NEW p \in DOMAIN flight, Continue(p)
  PROVE  IsMap(flight', Handlers, Frame)
<1> DEFINE f == flight[p]
<1>1. p \in Handlers /\ f \in Frame
  BY DEF IsMap
<1>2. CASE f.todo = <<>>
  BY <1>1, <1>2, AnswerTyped DEF Continue
<1>3. CASE f.todo # <<>>
  <2>1. Head(f.todo) \in Emails /\ Tail(f.todo) \in Seq(Emails)
    BY <1>1, <1>3 DEF Frame
  <2>2. [f EXCEPT !.at = "item", !.email = Head(f.todo), !.add = "None",
                  !.todo = Tail(f.todo)] \in Frame
    BY <1>1, <2>1 DEF Frame, RowOrNone
  <2> QED BY <1>1, <1>3, <2>2, StartTyped DEF Continue
<1> QED BY <1>2, <1>3

(***************************************************************************)
(* What the proofs need to know beyond the types, about times, about the   *)
(* pending tasks and about the frames.  The stream of a fake bounce is the *)
(* message's own because the queue is ordered: the task is due when the    *)
(* message was sent, and no purge of its stream is due as early.           *)
(***************************************************************************)
TimesSound ==
  /\ \A s \in DOMAIN streams : streams[s].created <= now
  /\ \A m \in DOMAIN outbound : outbound[m].at <= now /\ outbound[m].to # <<>>

TasksSound ==
  \A t \in tasks :
    /\ t.kind = "purge" => 0 < t.due
    /\ t.kind = "fakeBounces" =>
         /\ t.msg \in DOMAIN outbound
         /\ t.due = outbound[t.msg].at
         /\ StreamOf(t.msg)
         /\ LET purge == streams[outbound[t.msg].stream].purge
            IN  purge = 0 \/ t.due < purge

FrameSound(p, f) ==
  /\ f.add # "None" => f.at \in {"bounced", "spamComplaint"}
  /\ f.op = "fakeBounces" => p = Runner /\ f.msg \in DOMAIN outbound /\ StreamOf(f.msg)

FramesSound == \A p \in DOMAIN flight : FrameSound(p, flight[p])

Sound == TypeOK /\ TimesSound /\ TasksSound /\ FramesSound

-----------------------------------------------------------------------------
(***************************************************************************)
(* Types.                                                                  *)
(***************************************************************************)

\* What a request lists: at least one address.
LEMMA ListsTyped ==
  ASSUME NEW to \in Lists
  PROVE  /\ to \in Seq(Emails) /\ to # <<>>
         /\ Head(to) \in Emails /\ Tail(to) \in Seq(Emails)
<1>1. PICK n \in 1..MaxList : to \in [1..n -> Emails]
  BY DEF Lists
<1>2. to \in Seq(Emails) /\ to # <<>>
  BY <1>1, RecipientsAssumption
<1> QED BY <1>2

\* The state after a bounce was recorded is typed.
LEMMA RecordBounceTyped ==
  ASSUME TypeOK, NEW p \in Handlers, NEW op \in Ops, NEW m \in DOMAIN outbound,
         NEW e \in Emails, NEW type \in BounceTypes, NEW todo \in Seq(Emails),
         RecordBounce(p, op, m, e, type, todo)
  PROVE  /\ bounces' \subseteq Bounce
         /\ nextBounce' \in Nat
         /\ IsMap(flight', Handlers, Frame)
<1> DEFINE s == outbound[m].stream
           add == IF Deactivates(type) /\ rows[<<s, e>>] = "None"
                  THEN Reason(type) ELSE "None"
           b == [id |-> nextBounce, msg |-> m, stream |-> s, email |-> e,
                 type |-> type, at |-> now, inactive |-> Deactivates(type)]
           f == [op |-> op, at |-> EventOf(type), stream |-> s, email |-> e,
                 msg |-> m, todo |-> todo, add |-> add]
<1>1. m \in MessageIDs /\ s \in StreamIDs
  BY DEF TypeOK, IsMap, Message
<1>2. b \in Bounce
  BY <1>1 DEF TypeOK, Bounce, Deactivates
<1>3. f \in Frame
  <2>1. add \in RowOrNone
    BY DEF RowOrNone, Rows, Reason
  <2>2. EventOf(type) \in Events \union {"item"}
    BY DEF EventOf, Events
  <2> QED BY <1>1, <2>1, <2>2 DEF Frame
<1>4. bounces' = bounces \union {b} /\ nextBounce' = nextBounce + 1 /\ Start(p, f)
  BY DEF RecordBounce
<1> QED BY <1>2, <1>3, <1>4, StartTyped DEF TypeOK

\* A frame that waits for the change of a row.
LEMMA AwaitChangeTyped ==
  ASSUME TypeOK, NEW p \in Handlers, NEW op \in Ops, NEW s \in StreamIDs,
         NEW e \in Emails, NEW m \in MessageIDs, AwaitChange(p, op, s, e, m)
  PROVE  IsMap(flight', Handlers, Frame)
<1> DEFINE f == [op |-> op, at |-> "subscriptionChange", stream |-> s, email |-> e,
                 msg |-> m, add |-> "None", todo |-> <<>>]
<1>1. f \in Frame
  BY DEF Frame, Events, RowOrNone
<1> QED BY <1>1, StartTyped DEF AwaitChange, TypeOK

\* A row written, and a row removed with its bounces turned active.
LEMMA RowsTyped ==
  ASSUME TypeOK, NEW s \in StreamIDs, NEW e \in Emails, NEW row \in RowOrNone,
         AddRow(s, e, row)
  PROVE  rows' \in [Keys -> RowOrNone]
BY DEF TypeOK, AddRow, Keys

LEMMA ReactivateTyped ==
  ASSUME TypeOK, NEW s \in StreamIDs, NEW e \in Emails, Reactivate(s, e)
  PROVE  rows' \in [Keys -> RowOrNone] /\ bounces' \subseteq Bounce
<1>1. rows' \in [Keys -> RowOrNone]
  BY DEF TypeOK, Reactivate, Keys, RowOrNone
<1>2. bounces' \subseteq Bounce
  <2>1. ASSUME NEW b \in Bounce PROVE [b EXCEPT !.inactive = FALSE] \in Bounce
    BY DEF Bounce
  <2> QED BY <2>1 DEF TypeOK, Reactivate
<1> QED BY <1>1, <1>2

\* Every step preserves the types.
LEMMA TypingStep ==
  ASSUME Sound, [Next]_vars
  PROVE  TypeOK'
<1> USE DEF Sound
<1>0. Runner \in Handlers /\ Requests \subseteq Handlers
  BY DEF Handlers
<1>1. ASSUME NEW m \in MessageIDs, NEW s \in StreamIDs, NEW to \in Lists, Send(m, s, to)
      PROVE  TypeOK'
  <2> DEFINE new == [stream |-> s, at |-> now, to |-> to,
                     suppressed |-> SuppressedAmong(s, to)]
             task == [kind |-> "fakeBounces", msg |-> m, due |-> now]
  <2>1. new \in Message
    <3>1. to \in Seq(Emails) /\ Range(to) \subseteq Emails
      BY ListsTyped DEF Range
    <3> QED BY <3>1 DEF Message, SuppressedAmong, TypeOK
  <2>2. IsMap(outbound', MessageIDs, Message)
    BY <1>1, <2>1, ExtendMap DEF Send, TypeOK
  <2>3. task \in Task
    BY DEF Task, TypeOK
  <2>4. tasks' \subseteq Task
    BY <1>1, <2>3 DEF Send, TypeOK
  <2> QED BY <1>1, <2>2, <2>4 DEF Send, TypeOK
<1>2. ASSUME NEW p \in Requests, NEW m \in MessageIDs, NEW e \in Emails,
             NEW type \in BounceTypes, Report(p, m, e, type)
      PROVE  TypeOK'
  <2>1. p \in Handlers /\ "report" \in Ops /\ <<>> \in Seq(Emails) /\ m \in DOMAIN outbound
    BY <1>0, <1>2 DEF Ops, Report, Delivered
  <2>2. RecordBounce(p, "report", m, e, type, <<>>)
    BY <1>2 DEF Report
  <2>3. /\ bounces' \subseteq Bounce /\ nextBounce' \in Nat
        /\ IsMap(flight', Handlers, Frame)
    BY <2>1, <2>2, RecordBounceTyped
  <2> QED BY <1>2, <2>3 DEF Report, TypeOK
<1>3. ASSUME NEW p \in Requests, NEW m \in MessageIDs, NEW e \in Emails,
             Unsubscribe(p, m, e)
      PROVE  TypeOK'
  <2> DEFINE s == outbound[m].stream
  <2>1. s \in StreamIDs /\ p \in Handlers /\ "other" \in Ops
    BY <1>0, <1>3 DEF Unsubscribe, Delivered, TypeOK, IsMap, Message, Ops
  <2>2. AddRow(s, e, "ManualRecipient") /\ AwaitChange(p, "other", s, e, m)
    BY <1>3 DEF Unsubscribe
  <2>3. rows' \in [Keys -> RowOrNone]
    BY <2>1, <2>2, RowsTyped DEF RowOrNone, Rows
  <2>4. IsMap(flight', Handlers, Frame)
    BY <2>1, <2>2, AwaitChangeTyped
  <2> QED BY <1>3, <2>3, <2>4 DEF Unsubscribe, TypeOK
<1>4. ASSUME NEW p \in Requests, NEW b \in bounces, Activate(p, b)
      PROVE  TypeOK'
  <2>1. /\ b.stream \in StreamIDs /\ b.email \in Emails /\ b.msg \in MessageIDs
        /\ p \in Handlers /\ "other" \in Ops
    BY <1>0 DEF TypeOK, Bounce, Ops
  <2>2. Reactivate(b.stream, b.email) /\ AwaitChange(p, "other", b.stream, b.email, b.msg)
    BY <1>4 DEF Activate
  <2>3. rows' \in [Keys -> RowOrNone] /\ bounces' \subseteq Bounce
    BY <2>1, <2>2, ReactivateTyped
  <2>4. IsMap(flight', Handlers, Frame)
    BY <2>1, <2>2, AwaitChangeTyped
  <2> QED BY <1>4, <2>3, <2>4 DEF Activate, TypeOK
<1>5. ASSUME NEW p \in Requests, NEW op \in {"suppress", "lift"}, NEW s \in StreamIDs,
             NEW items \in Lists, CustomerBatch(p, op, s, items)
      PROVE  TypeOK'
  <2> DEFINE f == [op |-> op, at |-> "item", stream |-> s, email |-> Head(items),
                   msg |-> NoMessage, add |-> "None", todo |-> Tail(items)]
  <2>1. f \in Frame
    BY ListsTyped DEF Frame, Ops, RowOrNone
  <2>2. IsMap(flight', Handlers, Frame)
    BY <1>0, <1>5, <2>1, StartTyped DEF CustomerBatch, TypeOK
  <2> QED BY <1>5, <2>2 DEF CustomerBatch, TypeOK
<1>6. ASSUME NEW p \in Handlers, BounceOver(p)
      PROVE  TypeOK'
  <2> DEFINE f == flight[p]
  <2>1. p \in DOMAIN flight /\ f \in Frame
    BY <1>6 DEF BounceOver, TypeOK, IsMap
  <2>2. CASE f.add = "None"
    <3>1. IsMap(flight', Handlers, Frame)
      BY <1>6, <2>1, <2>2, ContinueTyped DEF BounceOver, TypeOK
    <3> QED BY <1>6, <2>2, <3>1 DEF BounceOver, TypeOK
  <2>3. CASE f.add # "None"
    <3>1. AddRow(f.stream, f.email, f.add)
      BY <1>6, <2>3 DEF BounceOver, AddRow
    <3>2. rows' \in [Keys -> RowOrNone]
      BY <2>1, <3>1, RowsTyped DEF Frame
    <3>3. [f EXCEPT !.at = "subscriptionChange", !.add = "None"] \in Frame
      BY <2>1 DEF Frame, Events, RowOrNone
    <3>4. IsMap(flight', Handlers, Frame)
      BY <1>6, <2>3, <3>3, StartTyped DEF BounceOver, TypeOK
    <3> QED BY <1>6, <3>2, <3>4 DEF BounceOver, TypeOK
  <2> QED BY <2>2, <2>3
<1>7. ASSUME NEW p \in Handlers, ChangeOver(p)
      PROVE  TypeOK'
  BY <1>7, ContinueTyped DEF ChangeOver, TypeOK
<1>8. ASSUME NEW p \in Handlers, SuppressItem(p)
      PROVE  TypeOK'
  <2> DEFINE f == flight[p]
  <2>1. p \in DOMAIN flight /\ f \in Frame
    BY <1>8 DEF SuppressItem, AtItem, TypeOK, IsMap
  <2>2. CASE AddRow(f.stream, f.email, "ManualCustomer") /\ ItemChanged(p)
    <3>1. rows' \in [Keys -> RowOrNone]
      BY <2>1, <2>2, RowsTyped DEF Frame, RowOrNone, Rows
    <3>2. [f EXCEPT !.at = "subscriptionChange"] \in Frame
      BY <2>1 DEF Frame, Events
    <3>3. IsMap(flight', Handlers, Frame)
      BY <2>2, <3>2, StartTyped DEF ItemChanged, TypeOK
    <3> QED BY <1>8, <3>1, <3>3 DEF SuppressItem, TypeOK
  <2>3. CASE (Continue(p) \/ Answer(p)) /\ UNCHANGED rows
    BY <1>8, <2>1, <2>3, ContinueTyped, AnswerTyped DEF SuppressItem, TypeOK
  <2> QED BY <1>8, <2>2, <2>3 DEF SuppressItem
<1>9. ASSUME NEW p \in Handlers, LiftItem(p)
      PROVE  TypeOK'
  <2> DEFINE f == flight[p]
  <2>1. p \in DOMAIN flight /\ f \in Frame
    BY <1>9 DEF LiftItem, AtItem, TypeOK, IsMap
  <2>2. CASE Reactivate(f.stream, f.email) /\ ItemChanged(p)
    <3>1. rows' \in [Keys -> RowOrNone] /\ bounces' \subseteq Bounce
      BY <2>1, <2>2, ReactivateTyped DEF Frame
    <3>2. [f EXCEPT !.at = "subscriptionChange"] \in Frame
      BY <2>1 DEF Frame, Events
    <3>3. IsMap(flight', Handlers, Frame)
      BY <2>2, <3>2, StartTyped DEF ItemChanged, TypeOK
    <3> QED BY <1>9, <3>1, <3>3 DEF LiftItem, TypeOK
  <2>3. CASE (Continue(p) \/ Answer(p)) /\ UNCHANGED <<rows, bounces>>
    BY <1>9, <2>1, <2>3, ContinueTyped, AnswerTyped DEF LiftItem, TypeOK
  <2> QED BY <1>9, <2>2, <2>3 DEF LiftItem
<1>10. ASSUME NEW s \in StreamIDs, CreateStream(s)
       PROVE  TypeOK'
  <2>1. [created |-> now, purge |-> 0] \in Stream
    BY DEF Stream, TypeOK
  <2>2. IsMap(streams', StreamIDs, Stream)
    BY <1>10, <2>1, ExtendMap DEF CreateStream, TypeOK
  <2> QED BY <1>10, <2>2 DEF CreateStream, TypeOK
<1>11. ASSUME NEW s \in StreamIDs, Archive(s)
       PROVE  TypeOK'
  <2>1. now + PurgeDelay \in Nat
    BY RecipientsAssumption DEF TypeOK
  <2>2. IsMap(streams', StreamIDs, Stream)
    BY <1>11, <2>1 DEF Archive, TypeOK, IsMap, Stream
  <2>3. tasks' \subseteq Task
    BY <1>11, <2>1 DEF Archive, TypeOK, Task
  <2> QED BY <1>11, <2>2, <2>3 DEF Archive, TypeOK
<1>12. ASSUME NEW s \in StreamIDs, Unarchive(s)
       PROVE  TypeOK'
  <2>1. IsMap(streams', StreamIDs, Stream)
    BY <1>12 DEF Unarchive, TypeOK, IsMap, Stream
  <2> QED BY <1>12, <2>1 DEF Unarchive, TypeOK
<1>13. ASSUME NEW t \in tasks, Purge(t)
       PROVE  TypeOK'
  <2>1. IsMap(streams', StreamIDs, Stream)
    BY <1>13, RestrictMap DEF Purge, TypeOK
  <2>2. rows' \in [Keys -> RowOrNone]
    BY <1>13 DEF Purge, TypeOK, RowOrNone
  <2> QED BY <1>13, <2>1, <2>2 DEF Purge, TypeOK
<1>14. ASSUME NEW t \in tasks, FakeBounces(t)
       PROVE  TypeOK'
  <2> DEFINE m == outbound[t.msg]
             f == [op |-> "fakeBounces", at |-> "item", stream |-> m.stream,
                   email |-> Head(m.to), msg |-> t.msg, add |-> "None",
                   todo |-> Tail(m.to)]
  <2>1. t.msg \in DOMAIN outbound
    BY <1>14 DEF FakeBounces, TasksSound
  <2>2. /\ t.msg \in MessageIDs /\ m.stream \in StreamIDs
        /\ m.to \in Seq(Emails) /\ m.to # <<>>
    BY <2>1 DEF TypeOK, IsMap, Message, TimesSound
  <2>3. f \in Frame
    BY <2>2 DEF Frame, Ops, RowOrNone
  <2>4. IsMap(flight', Handlers, Frame)
    BY <1>0, <1>14, <2>3, StartTyped DEF FakeBounces, TypeOK
  <2> QED BY <1>14, <2>4 DEF FakeBounces, TypeOK
<1>15. ASSUME FakeItem
       PROVE  TypeOK'
  <2> DEFINE f == flight[Runner]
             type == FakeBounce[f.email]
  <2>1. Runner \in DOMAIN flight /\ f \in Frame /\ f.op = "fakeBounces"
    BY <1>15 DEF FakeItem, AtItem, TypeOK, IsMap
  <2>2. CASE FakeSupported(f.msg, f.email)
             /\ RecordBounce(Runner, "fakeBounces", f.msg, f.email, type, f.todo)
    <3>1. f.msg \in DOMAIN outbound
      BY <2>1 DEF FramesSound, FrameSound
    <3>2. type \in BounceTypes
      BY <2>2, RecipientsAssumption DEF FakeSupported, FakeAmong
    <3>3. /\ bounces' \subseteq Bounce /\ nextBounce' \in Nat
          /\ IsMap(flight', Handlers, Frame)
      BY <1>0, <2>1, <2>2, <3>1, <3>2, RecordBounceTyped DEF Frame, Ops
    <3> QED BY <1>15, <3>3 DEF FakeItem, TypeOK
  <2>3. CASE Continue(Runner) /\ UNCHANGED <<bounces, nextBounce>>
    BY <1>15, <2>1, <2>3, ContinueTyped DEF FakeItem, TypeOK
  <2> QED BY <1>15, <2>2, <2>3 DEF FakeItem
<1>16. ASSUME Tick
       PROVE  TypeOK'
  BY <1>16 DEF Tick, TypeOK
<1>17. ASSUME UNCHANGED vars
       PROVE  TypeOK'
  BY <1>17 DEF vars, TypeOK
<1> QED
  BY <1>1, <1>2, <1>3, <1>4, <1>5, <1>6, <1>7, <1>8, <1>9, <1>10, <1>11, <1>12,
     <1>13, <1>14, <1>15, <1>16, <1>17
  DEF Next, Client, Resume, RunTask

-----------------------------------------------------------------------------
(***************************************************************************)
(* Times, tasks and frames.                                                *)
(***************************************************************************)

\* What the API requests and the waiting handlers leave alone.
HandlerStep ==
  \/ \E p \in Requests : Client(p)
  \/ \E p \in Handlers : Resume(p)
  \/ FakeItem
  \/ UNCHANGED vars

LEMMA HandlersKeep ==
  ASSUME HandlerStep
  PROVE  UNCHANGED <<now, streams, outbound, tasks>>
BY DEF HandlerStep, Client, Resume, Report, Unsubscribe, Activate, CustomerBatch,
       BounceOver, ChangeOver, SuppressItem, LiftItem, FakeItem, vars

\* Streams are created, and messages stored, at the time of the clock.
LEMMA TimesStep ==
  ASSUME Sound, [Next]_vars
  PROVE  TimesSound'
<1> USE DEF Sound
<1>1. CASE HandlerStep
  BY <1>1, HandlersKeep DEF TimesSound
<1>2. ASSUME NEW m \in MessageIDs, NEW s \in StreamIDs, NEW to \in Lists, Send(m, s, to)
      PROVE  TimesSound'
  BY <1>2, ListsTyped DEF Send, TimesSound, TypeOK
<1>3. ASSUME NEW s \in StreamIDs, CreateStream(s)
      PROVE  TimesSound'
  BY <1>3 DEF CreateStream, TimesSound, TypeOK
<1>4. ASSUME NEW s \in StreamIDs, Archive(s) \/ Unarchive(s)
      PROVE  TimesSound'
  BY <1>4 DEF Archive, Unarchive, TimesSound, TypeOK, IsMap, Stream
<1>5. ASSUME NEW t \in tasks, Purge(t)
      PROVE  TimesSound'
  BY <1>5 DEF Purge, TimesSound, Restrict
<1>6. ASSUME NEW t \in tasks, FakeBounces(t)
      PROVE  TimesSound'
  BY <1>6 DEF FakeBounces, TimesSound
<1>7. CASE Tick
  BY <1>7 DEF Tick, TimesSound, TypeOK, IsMap, Stream, Message
<1> QED
  BY <1>1, <1>2, <1>3, <1>4, <1>5, <1>6, <1>7 DEF Next, HandlerStep, RunTask

\* A fake bounce is due before the purge of the stream of its message.
LEMMA TasksStep ==
  ASSUME Sound, [Next]_vars
  PROVE  TasksSound'
<1> USE DEF Sound
<1>1. CASE HandlerStep
  BY <1>1, HandlersKeep DEF TasksSound, StreamOf
<1>2. ASSUME NEW m \in MessageIDs, NEW s \in StreamIDs, NEW to \in Lists, Send(m, s, to)
      PROVE  TasksSound'
  <2> DEFINE task == [kind |-> "fakeBounces", msg |-> m, due |-> now]
  <2>1. \A x \in DOMAIN outbound : x # m /\ outbound'[x] = outbound[x]
    BY <1>2 DEF Send
  <2>2. /\ m \in DOMAIN outbound' /\ outbound'[m].stream = s /\ outbound'[m].at = now
        /\ DOMAIN outbound \subseteq DOMAIN outbound'
    BY <1>2 DEF Send
  <2>3. s \in DOMAIN streams /\ streams[s].purge = 0 /\ streams[s].created <= now
    BY <1>2 DEF Send, Archived, TimesSound
  <2>4. tasks' \subseteq tasks \union {task} /\ UNCHANGED streams
    BY <1>2 DEF Send
  <2> QED BY <2>1, <2>2, <2>3, <2>4 DEF TasksSound, StreamOf
<1>3. ASSUME NEW s \in StreamIDs, CreateStream(s)
      PROVE  TasksSound'
  BY <1>3 DEF CreateStream, TasksSound, StreamOf
<1>4. ASSUME NEW s \in StreamIDs, Archive(s)
      PROVE  TasksSound'
  <2> DEFINE due == now + PurgeDelay
  <2>1. 0 < due /\ now < due
    BY RecipientsAssumption DEF TypeOK
  <2>2. /\ DOMAIN streams' = DOMAIN streams
        /\ \A x \in DOMAIN streams :
             /\ streams'[x].created = streams[x].created
             /\ streams'[x].purge = IF x = s THEN due ELSE streams[x].purge
    BY <1>4 DEF Archive, TypeOK, IsMap, Stream
  <2>3. tasks' = tasks \union {[kind |-> "purge", stream |-> s, due |-> due]}
        /\ UNCHANGED outbound
    BY <1>4 DEF Archive
  <2>4. ASSUME NEW t \in tasks, t.kind = "fakeBounces"
        PROVE  t.due < due
    <3>1. t.due = outbound[t.msg].at /\ outbound[t.msg].at <= now /\ t.msg \in DOMAIN outbound
      BY <2>4 DEF TasksSound, TimesSound
    <3>2. outbound[t.msg].at \in Nat /\ now \in Nat /\ due \in Nat
      BY <3>1, RecipientsAssumption DEF TypeOK, IsMap, Message
    <3> QED BY <2>1, <3>1, <3>2
  <2> QED BY <2>1, <2>2, <2>3, <2>4 DEF TasksSound, StreamOf
<1>5. ASSUME NEW s \in StreamIDs, Unarchive(s)
      PROVE  TasksSound'
  BY <1>5 DEF Unarchive, TasksSound, StreamOf, TypeOK, IsMap, Stream
<1>6. ASSUME NEW t \in tasks, Purge(t)
      PROVE  TasksSound'
  <2>1. CASE ~StillDue(t)
    BY <1>6, <2>1 DEF Purge, TasksSound, StreamOf
  <2>2. CASE StillDue(t)
    <3>1. ASSUME NEW u \in tasks, u.kind = "fakeBounces"
          PROVE  outbound[u.msg].stream # t.stream
      <4>1. t.due <= u.due /\ streams[t.stream].purge = t.due /\ 0 < t.due
        BY <1>6, <2>2 DEF Purge, DueFirst, StillDue, TasksSound
      <4>2. t.due \in Nat /\ u.due \in Nat
        BY DEF TypeOK, Task
      <4> QED BY <3>1, <4>1, <4>2 DEF TasksSound
    <3>2. /\ streams' = Restrict(streams, DOMAIN streams \ {t.stream})
          /\ tasks' \subseteq tasks
          /\ UNCHANGED outbound
      BY <1>6, <2>2 DEF Purge
    <3> QED BY <3>1, <3>2 DEF TasksSound, StreamOf, Restrict
  <2> QED BY <2>1, <2>2
<1>7. ASSUME NEW t \in tasks, FakeBounces(t)
      PROVE  TasksSound'
  BY <1>7 DEF FakeBounces, TasksSound, StreamOf
<1>8. CASE Tick
  BY <1>8 DEF Tick, TasksSound, StreamOf
<1> QED
  BY <1>1, <1>2, <1>3, <1>4, <1>5, <1>6, <1>7, <1>8 DEF Next, HandlerStep, RunTask

\* Frames stay sound when one is put in place, taken away, or goes on.
LEMMA StartSound ==
  ASSUME FramesSound, UNCHANGED <<streams, outbound>>,
         NEW p \in Handlers, NEW f, FrameSound(p, f), Start(p, f)
  PROVE  FramesSound'
BY DEF FramesSound, FrameSound, Start, StreamOf

LEMMA AnswerSound ==
  ASSUME FramesSound, UNCHANGED <<streams, outbound>>, NEW p, Answer(p)
  PROVE  FramesSound'
BY DEF FramesSound, FrameSound, Answer, StreamOf, Restrict

LEMMA ContinueSound ==
  ASSUME Sound, UNCHANGED <<streams, outbound>>, NEW p \in DOMAIN flight, Continue(p)
  PROVE  FramesSound'
<1> DEFINE f == flight[p]
           next == [f EXCEPT !.at = "item", !.email = Head(f.todo), !.add = "None",
                             !.todo = Tail(f.todo)]
<1>1. p \in Handlers /\ f \in Frame /\ FrameSound(p, f)
  BY DEF Sound, TypeOK, IsMap, FramesSound
<1>2. CASE Start(p, next)
  <2>1. FrameSound(p, next)
    BY <1>1 DEF FrameSound, Frame
  <2> QED BY <1>1, <1>2, <2>1, StartSound DEF Sound
<1>3. CASE Answer(p)
  BY <1>3, AnswerSound DEF Sound
<1> QED BY <1>2, <1>3 DEF Continue

LEMMA ItemChangedSound ==
  ASSUME Sound, UNCHANGED <<streams, outbound>>, NEW p \in DOMAIN flight,
         flight[p].at = "item", ItemChanged(p)
  PROVE  FramesSound'
<1> DEFINE f == flight[p]
           next == [f EXCEPT !.at = "subscriptionChange"]
<1>1. p \in Handlers /\ f \in Frame /\ FrameSound(p, f)
  BY DEF Sound, TypeOK, IsMap, FramesSound
<1>2. FrameSound(p, next)
  BY <1>1 DEF FrameSound, Frame
<1> QED BY <1>1, <1>2, StartSound DEF Sound, ItemChanged

\* A row is only ever pending while the bounce event is awaited, and a fake
\* bounce runs on the stream its message was sent on.
LEMMA FramesStep ==
  ASSUME Sound, [Next]_vars
  PROVE  FramesSound'
<1> USE DEF Sound
<1>1. ASSUME NEW m \in MessageIDs, NEW s \in StreamIDs, NEW to \in Lists, Send(m, s, to)
      PROVE  FramesSound'
  BY <1>1 DEF Send, FramesSound, FrameSound, StreamOf
<1>2. ASSUME NEW p \in Requests, NEW m \in MessageIDs, NEW e \in Emails,
             NEW type \in BounceTypes, Report(p, m, e, type)
      PROVE  FramesSound'
  BY <1>2, StartSound
  DEF Report, RecordBounce, FrameSound, EventOf, Handlers
<1>3. ASSUME NEW p \in Requests, NEW m \in MessageIDs, NEW e \in Emails,
             Unsubscribe(p, m, e)
      PROVE  FramesSound'
  BY <1>3, StartSound DEF Unsubscribe, AwaitChange, FrameSound, Handlers
<1>4. ASSUME NEW p \in Requests, NEW b \in bounces, Activate(p, b)
      PROVE  FramesSound'
  BY <1>4, StartSound DEF Activate, AwaitChange, FrameSound, Handlers
<1>5. ASSUME NEW p \in Requests, NEW op \in {"suppress", "lift"}, NEW s \in StreamIDs,
             NEW items \in Lists, CustomerBatch(p, op, s, items)
      PROVE  FramesSound'
  BY <1>5, StartSound DEF CustomerBatch, FrameSound, Handlers
<1>6. ASSUME NEW p \in Handlers, BounceOver(p)
      PROVE  FramesSound'
  <2> DEFINE f == flight[p]
             next == [f EXCEPT !.at = "subscriptionChange", !.add = "None"]
  <2>1. p \in DOMAIN flight /\ f \in Frame /\ FrameSound(p, f)
        /\ UNCHANGED <<streams, outbound>>
    BY <1>6 DEF BounceOver, TypeOK, IsMap, FramesSound
  <2>2. CASE Continue(p)
    BY <2>1, <2>2, ContinueSound
  <2>3. CASE Start(p, next)
    <3>1. FrameSound(p, next)
      BY <2>1 DEF FrameSound, Frame
    <3> QED BY <2>1, <2>3, <3>1, StartSound
  <2> QED BY <1>6, <2>2, <2>3 DEF BounceOver
<1>7. ASSUME NEW p \in Handlers, ChangeOver(p)
      PROVE  FramesSound'
  BY <1>7, ContinueSound DEF ChangeOver
<1>8. ASSUME NEW p \in Handlers, SuppressItem(p)
      PROVE  FramesSound'
  <2>1. p \in DOMAIN flight /\ flight[p].at = "item" /\ UNCHANGED <<streams, outbound>>
    BY <1>8 DEF SuppressItem, AtItem
  <2>2. ItemChanged(p) \/ Continue(p) \/ Answer(p)
    BY <1>8 DEF SuppressItem
  <2> QED BY <2>1, <2>2, ItemChangedSound, ContinueSound, AnswerSound
<1>9. ASSUME NEW p \in Handlers, LiftItem(p)
      PROVE  FramesSound'
  <2>1. p \in DOMAIN flight /\ flight[p].at = "item" /\ UNCHANGED <<streams, outbound>>
    BY <1>9 DEF LiftItem, AtItem
  <2>2. ItemChanged(p) \/ Continue(p) \/ Answer(p)
    BY <1>9 DEF LiftItem
  <2> QED BY <2>1, <2>2, ItemChangedSound, ContinueSound, AnswerSound
<1>10. ASSUME NEW s \in StreamIDs, CreateStream(s)
       PROVE  FramesSound'
  BY <1>10 DEF CreateStream, FramesSound, FrameSound, StreamOf
<1>11. ASSUME NEW s \in StreamIDs, Archive(s) \/ Unarchive(s)
       PROVE  FramesSound'
  BY <1>11 DEF Archive, Unarchive, FramesSound, FrameSound, StreamOf, TypeOK, IsMap, Stream
<1>12. ASSUME NEW t \in tasks, Purge(t)
       PROVE  FramesSound'
  \* No fake bounce runs: the queue runs one task at a time.
  <2>1. UNCHANGED <<flight, outbound>> /\ Runner \notin DOMAIN flight
    BY <1>12 DEF Purge
  <2> QED BY <2>1 DEF FramesSound, FrameSound
<1>13. ASSUME NEW t \in tasks, FakeBounces(t)
       PROVE  FramesSound'
  <2> DEFINE m == outbound[t.msg]
             f == [op |-> "fakeBounces", at |-> "item", stream |-> m.stream,
                   email |-> Head(m.to), msg |-> t.msg, add |-> "None",
                   todo |-> Tail(m.to)]
  <2>1. t.msg \in DOMAIN outbound /\ StreamOf(t.msg)
    BY <1>13 DEF FakeBounces, TasksSound
  <2>2. FrameSound(Runner, f)
    BY <2>1 DEF FrameSound
  <2>3. Start(Runner, f) /\ UNCHANGED <<streams, outbound>> /\ Runner \in Handlers
    BY <1>13 DEF FakeBounces, Handlers
  <2> QED BY <2>2, <2>3, StartSound
<1>14. CASE FakeItem
  <2> DEFINE f == flight[Runner]
  <2>1. /\ Runner \in DOMAIN flight /\ Runner \in Handlers /\ FrameSound(Runner, f)
        /\ f.op = "fakeBounces" /\ UNCHANGED <<streams, outbound>>
    BY <1>14 DEF FakeItem, AtItem, FramesSound, Handlers
  <2>2. CASE RecordBounce(Runner, "fakeBounces", f.msg, f.email, FakeBounce[f.email], f.todo)
    BY <2>1, <2>2, StartSound DEF RecordBounce, FrameSound, EventOf
  <2>3. CASE Continue(Runner)
    BY <2>1, <2>3, ContinueSound
  <2> QED BY <1>14, <2>2, <2>3 DEF FakeItem
<1>15. CASE Tick \/ UNCHANGED vars
  BY <1>15 DEF Tick, vars, FramesSound, FrameSound, StreamOf
<1> QED
  BY <1>1, <1>2, <1>3, <1>4, <1>5, <1>6, <1>7, <1>8, <1>9, <1>10, <1>11, <1>12,
     <1>13, <1>14, <1>15
  DEF Next, Client, Resume, RunTask

LEMMA SoundInit == Init => Sound
<1> SUFFICES ASSUME Init PROVE Sound
  OBVIOUS
<1>1. TypeOK
  BY DEF Init, TypeOK, IsMap, EmptyMap, Stream, Keys, RowOrNone
<1>2. TimesSound /\ TasksSound /\ FramesSound
  BY DEF Init, TimesSound, TasksSound, FramesSound, EmptyMap
<1> QED BY <1>1, <1>2 DEF Sound

LEMMA SoundStep == Sound /\ [Next]_vars => Sound'
BY TypingStep, TimesStep, TasksStep, FramesStep DEF Sound

LEMMA AlwaysSound == Spec => []Sound
BY SoundInit, SoundStep, PTL DEF Spec

(***************************************************************************)
(* The state is always typed, whatever streams, addresses, concurrent      *)
(* requests and slow webhooks there are.                                   *)
(***************************************************************************)
THEOREM TypeCorrect == Spec => []TypeOK
BY AlwaysSound, PTL DEF Sound

-----------------------------------------------------------------------------
(***************************************************************************)
(* Bounces and the messages they are for.                                  *)
(***************************************************************************)
BounceSound(b) ==
  /\ b.msg \in DOMAIN outbound
  /\ b.stream = outbound[b.msg].stream
  /\ StreamOf(b.msg)
  /\ b.email \notin outbound[b.msg].suppressed

BouncesSound == \A b \in bounces : BounceSound(b)

\* A bounce that is recorded for a message of a live stream is sound.
LEMMA RecordBounceSound ==
  ASSUME BouncesSound, UNCHANGED <<streams, outbound>>,
         NEW p, NEW op, NEW m \in DOMAIN outbound, NEW e, NEW type, NEW todo,
         StreamOf(m), e \notin outbound[m].suppressed,
         RecordBounce(p, op, m, e, type, todo)
  PROVE  BouncesSound'
BY DEF BouncesSound, BounceSound, RecordBounce, StreamOf

\* Turning bounces active changes nothing else of them.
Active(b, s, e) == IF b.stream = s /\ b.email = e THEN [b EXCEPT !.inactive = FALSE] ELSE b

LEMMA ReactivatedFrom ==
  ASSUME TypeOK, NEW s, NEW e, Reactivate(s, e), NEW c \in bounces'
  PROVE  \E b \in bounces :
           /\ c = Active(b, s, e)
           /\ c.msg = b.msg /\ c.stream = b.stream /\ c.email = b.email /\ c.type = b.type
           /\ c.inactive => b.inactive /\ <<b.stream, b.email>> # <<s, e>>
<1>1. PICK b \in bounces : c = Active(b, s, e)
  BY DEF Reactivate, Active
<1>2. b \in Bounce
  BY DEF TypeOK
<1>3. CASE b.stream = s /\ b.email = e
  <2>1. c = [b EXCEPT !.inactive = FALSE]
    BY <1>1, <1>3 DEF Active
  <2> QED BY <1>1, <1>2, <2>1 DEF Bounce
<1>4. CASE ~(b.stream = s /\ b.email = e)
  BY <1>1, <1>4 DEF Active
<1> QED BY <1>3, <1>4

LEMMA ReactivateSound ==
  ASSUME TypeOK, BouncesSound, UNCHANGED <<streams, outbound>>, NEW s, NEW e,
         Reactivate(s, e)
  PROVE  BouncesSound'
BY ReactivatedFrom DEF BouncesSound, BounceSound, StreamOf

LEMMA BouncesStep ==
  ASSUME Sound, BouncesSound, [Next]_vars
  PROVE  BouncesSound'
<1> USE DEF Sound
<1>1. ASSUME NEW m \in MessageIDs, NEW s \in StreamIDs, NEW to \in Lists, Send(m, s, to)
      PROVE  BouncesSound'
  BY <1>1 DEF Send, BouncesSound, BounceSound, StreamOf
<1>2. ASSUME NEW p \in Requests, NEW m \in MessageIDs, NEW e \in Emails,
             NEW type \in BounceTypes, Report(p, m, e, type)
      PROVE  BouncesSound'
  BY <1>2, RecordBounceSound DEF Report, Delivered
<1>3. ASSUME NEW p \in Requests, NEW b \in bounces, Activate(p, b)
      PROVE  BouncesSound'
  BY <1>3, ReactivateSound DEF Activate
<1>4. ASSUME NEW p \in Handlers, LiftItem(p)
      PROVE  BouncesSound'
  <2>1. UNCHANGED <<streams, outbound>>
    BY <1>4 DEF LiftItem
  <2>2. Reactivate(flight[p].stream, flight[p].email) \/ UNCHANGED bounces
    BY <1>4 DEF LiftItem
  <2> QED BY <2>1, <2>2, ReactivateSound DEF BouncesSound, BounceSound, StreamOf
<1>5. ASSUME NEW s \in StreamIDs, CreateStream(s) \/ Archive(s) \/ Unarchive(s)
      PROVE  BouncesSound'
  BY <1>5 DEF CreateStream, Archive, Unarchive, BouncesSound, BounceSound, StreamOf,
              TypeOK, IsMap, Stream
<1>6. ASSUME NEW t \in tasks, Purge(t)
      PROVE  BouncesSound'
  BY <1>6 DEF Purge, BouncesSound, BounceSound, StreamOf, Restrict
<1>7. CASE FakeItem
  <2> DEFINE f == flight[Runner]
  <2>1. FrameSound(Runner, f) /\ f.op = "fakeBounces" /\ UNCHANGED <<streams, outbound>>
    BY <1>7 DEF FakeItem, AtItem, FramesSound
  <2>2. CASE FakeSupported(f.msg, f.email)
             /\ RecordBounce(Runner, "fakeBounces", f.msg, f.email, FakeBounce[f.email], f.todo)
    <3>1. f.email \notin outbound[f.msg].suppressed
      BY <2>2 DEF FakeSupported, FakeAmong
    <3> QED BY <2>1, <2>2, <3>1, RecordBounceSound DEF FrameSound
  <2>3. CASE UNCHANGED bounces
    BY <2>1, <2>3 DEF BouncesSound, BounceSound, StreamOf
  <2> QED BY <1>7, <2>2, <2>3 DEF FakeItem
<1>8. ASSUME UNCHANGED <<bounces, streams, outbound>>
      PROVE  BouncesSound'
  BY <1>8 DEF BouncesSound, BounceSound, StreamOf
<1> QED
  BY <1>1, <1>2, <1>3, <1>4, <1>5, <1>6, <1>7, <1>8
  DEF Next, Client, Resume, RunTask, Unsubscribe, CustomerBatch, BounceOver,
      ChangeOver, SuppressItem, FakeBounces, Tick, vars

LEMMA AlwaysBouncesSound == Spec => []BouncesSound
<1>1. Init => BouncesSound
  BY DEF Init, BouncesSound
<1>2. Sound /\ BouncesSound /\ [Next]_vars => BouncesSound'
  BY BouncesStep
<1> QED BY <1>1, <1>2, AlwaysSound, PTL DEF Spec

(***************************************************************************)
(* No bounce is ever on a stream other than the one its message was sent   *)
(* on, although fake bounces run on the clock and streams are purged and   *)
(* created again under the same ID.                                        *)
(***************************************************************************)
THEOREM BouncesStayOnOwnStream == Spec => []BouncesOnOwnStream
<1>1. BouncesSound => BouncesOnOwnStream
  BY DEF BouncesSound, BounceSound, BouncesOnOwnStream, StreamOf
<1> QED BY <1>1, AlwaysBouncesSound, PTL

(***************************************************************************)
(* A recipient that was suppressed when the message was sent never bounces *)
(* or complains for it.                                                    *)
(***************************************************************************)
THEOREM SkippedStaySilent == Spec => []SkippedNeverBounces
<1>1. BouncesSound => SkippedNeverBounces
  BY DEF BouncesSound, BounceSound, SkippedNeverBounces
<1> QED BY <1>1, AlwaysBouncesSound, PTL

(***************************************************************************)
(* A message ends at most once for a recipient outside the bounce-testing  *)
(* domain, whatever reports arrive while others wait for their webhooks.   *)
(***************************************************************************)
THEOREM MessagesEndOnce == Spec => []ReportsEndOnce
<1>1. Init => ReportsEndOnce
  BY DEF Init, ReportsEndOnce
<1>2. ASSUME Sound, ReportsEndOnce, [Next]_vars
      PROVE  ReportsEndOnce'
  <2>1. ASSUME NEW s, NEW e, Reactivate(s, e)
        PROVE  ReportsEndOnce'
    BY <1>2, <2>1, ReactivatedFrom DEF ReportsEndOnce, Sound
  <2>2. ASSUME NEW p \in Requests, NEW m \in MessageIDs, NEW e \in Emails,
               NEW type \in BounceTypes, Report(p, m, e, type)
        PROVE  ReportsEndOnce'
    BY <1>2, <2>2 DEF Report, RecordBounce, AfterFinal, ReportsEndOnce
  <2>3. CASE FakeItem
    BY <1>2, <2>3 DEF FakeItem, FakeSupported, FakeAmong, RecordBounce, ReportsEndOnce
  <2>4. ASSUME bounces' \subseteq bounces
        PROVE  ReportsEndOnce'
    BY <1>2, <2>4 DEF ReportsEndOnce
  <2>5. ASSUME NEW t \in tasks, Purge(t)
        PROVE  bounces' \subseteq bounces
    BY <2>5 DEF Purge
  <2> QED
    BY <1>2, <2>1, <2>2, <2>3, <2>4, <2>5
    DEF Next, Client, Resume, RunTask, Send, Unsubscribe, Activate, CustomerBatch,
        BounceOver, ChangeOver, SuppressItem, LiftItem, CreateStream, Archive,
        Unarchive, FakeBounces, Tick, vars
<1> QED BY <1>1, <1>2, AlwaysSound, PTL DEF Spec

(***************************************************************************)
(* A stream only ever ends at the purge date of the archive in force: the  *)
(* task of an archive that was undone never takes it.                      *)
(***************************************************************************)
THEOREM StreamsPurgedOnlyWhenDue == Spec => PurgedOnlyWhenDue
<1> DEFINE A == \A s \in DOMAIN streams \ DOMAIN streams' :
                  streams[s].purge # 0 /\ streams[s].purge <= now
<1>1. ASSUME Sound, [Next]_vars
      PROVE  [A]_streams
  <2>1. ASSUME NEW t \in tasks, Purge(t)
        PROVE  [A]_streams
    BY <1>1, <2>1 DEF Purge, DueFirst, StillDue, Restrict, Sound, TasksSound
  <2>2. CASE DOMAIN streams \subseteq DOMAIN streams'
    BY <2>2
  <2> QED
    BY <1>1, <2>1, <2>2, HandlersKeep
    DEF Next, HandlerStep, RunTask, Send, CreateStream, Archive, Unarchive,
        FakeBounces, Tick
<1> QED BY <1>1, AlwaysSound, PTL DEF Spec, PurgedOnlyWhenDue
-----------------------------------------------------------------------------
(***************************************************************************)
(* The suppression rows: an inactive bounce is always covered, and, when   *)
(* the webhooks of bounces do not wait, the rows implement the abstract    *)
(* SuppressionList.                                                        *)
(***************************************************************************)

(***************************************************************************)
(* A step of handler q leaves the rows that other handlers are to add.     *)
(***************************************************************************)
KeepsPending(q) ==
  \A p \in Handlers \ {q} : \A s, e : PendingAdd(p, s, e) =>
    PendingAdd(p, s, e)' /\ flight'[p].add = flight[p].add

LEMMA StartKeeps ==
  ASSUME NEW q, NEW f, Start(q, f)
  PROVE  KeepsPending(q)
BY DEF KeepsPending, PendingAdd, Start

LEMMA AnswerKeeps ==
  ASSUME NEW q, Answer(q)
  PROVE  KeepsPending(q)
BY DEF KeepsPending, PendingAdd, Answer, Restrict

LEMMA ContinueKeeps ==
  ASSUME NEW q, Continue(q)
  PROVE  KeepsPending(q)
BY StartKeeps, AnswerKeeps DEF Continue

\* Only a handler that waits for a bounce event has a row to add.
LEMMA OnlyAwaitingAdd ==
  ASSUME Sound, NEW p \in DOMAIN flight, flight[p].at \in {"item", "subscriptionChange"}
  PROVE  flight[p].add = "None"
BY DEF Sound, FramesSound, FrameSound

\* A handler with nothing to add covers no bounce.
LEMMA CoveredByOthers ==
  ASSUME InactiveCovered, NEW q,
         q \in DOMAIN flight => flight[q].add = "None",
         KeepsPending(q), NEW b \in bounces, b.inactive,
         rows[<<b.stream, b.email>>] = "None"
  PROVE  \E p \in Handlers : PendingAdd(p, b.stream, b.email)'
BY DEF InactiveCovered, KeepsPending, PendingAdd

LEMMA RecordBounceCovered ==
  ASSUME Sound, InactiveCovered, NEW p \in Handlers, NEW op, NEW m, NEW e,
         NEW type, NEW todo, RecordBounce(p, op, m, e, type, todo),
         p \in DOMAIN flight => flight[p].add = "None", UNCHANGED rows
  PROVE  InactiveCovered'
<1>0. PICK s : s = outbound[m].stream
  OBVIOUS
<1> DEFINE new == [id |-> nextBounce, msg |-> m, stream |-> s, email |-> e,
                   type |-> type, at |-> now, inactive |-> Deactivates(type)]
<1>1. KeepsPending(p)
  BY StartKeeps DEF RecordBounce
<1>2. ASSUME NEW b \in bounces, b.inactive, rows[<<b.stream, b.email>>] = "None"
      PROVE  \E q \in Handlers : PendingAdd(q, b.stream, b.email)'
  BY <1>1, <1>2, CoveredByOthers
<1>3. ASSUME new.inactive, rows[<<s, e>>] = "None"
      PROVE  PendingAdd(p, s, e)'
  BY <1>0, <1>3 DEF RecordBounce, PendingAdd, Start, Reason
<1>4. bounces' = bounces \union {new}
  BY <1>0 DEF RecordBounce
<1> QED BY <1>2, <1>3, <1>4 DEF InactiveCovered

\* A step of a handler with nothing to add, that adds no bounce and takes no row.
LEMMA OtherCovered ==
  ASSUME InactiveCovered, NEW q, q \in DOMAIN flight => flight[q].add = "None",
         KeepsPending(q), bounces' \subseteq bounces,
         \A b \in bounces' : rows[<<b.stream, b.email>>] # "None" =>
                               rows'[<<b.stream, b.email>>] # "None"
  PROVE  InactiveCovered'
BY CoveredByOthers DEF InactiveCovered

LEMMA ReactivateCovered ==
  ASSUME Sound, InactiveCovered, NEW q, q \in DOMAIN flight => flight[q].add = "None",
         KeepsPending(q), NEW s, NEW e, Reactivate(s, e)
  PROVE  InactiveCovered'
<1>1. ASSUME NEW c \in bounces', c.inactive, rows'[<<c.stream, c.email>>] = "None"
      PROVE  \E p \in Handlers : PendingAdd(p, c.stream, c.email)'
  <2>1. PICK b \in bounces :
          /\ c.stream = b.stream /\ c.email = b.email
          /\ b.inactive /\ <<b.stream, b.email>> # <<s, e>>
    BY <1>1, ReactivatedFrom DEF Sound
  <2>2. <<b.stream, b.email>> \in Keys
    BY DEF Sound, TypeOK, Bounce, Keys
  <2>3. rows[<<b.stream, b.email>>] = "None"
    BY <1>1, <2>1, <2>2 DEF Reactivate, Sound, TypeOK
  <2> QED BY <2>1, <2>3, CoveredByOthers
<1> QED BY <1>1 DEF InactiveCovered

LEMMA CoveredStep ==
  ASSUME Sound, InactiveCovered, [Next]_vars
  PROVE  InactiveCovered'
<1> USE DEF Sound
<1>0. Runner \in Handlers /\ Requests \subseteq Handlers
  BY DEF Handlers
<1>1. ASSUME UNCHANGED <<bounces, rows, flight>>
      PROVE  InactiveCovered'
  BY <1>1 DEF InactiveCovered, PendingAdd
<1>2. ASSUME NEW p \in Requests, NEW m \in MessageIDs, NEW e \in Emails,
             NEW type \in BounceTypes, Report(p, m, e, type)
      PROVE  InactiveCovered'
  BY <1>0, <1>2, RecordBounceCovered DEF Report
<1>3. ASSUME NEW p \in Requests, NEW m \in MessageIDs, NEW e \in Emails,
             Unsubscribe(p, m, e)
      PROVE  InactiveCovered'
  <2>1. p \notin DOMAIN flight /\ UNCHANGED bounces
    BY <1>3 DEF Unsubscribe
  <2>2. KeepsPending(p)
    BY <1>3, StartKeeps DEF Unsubscribe, AwaitChange
  <2>3. \A k \in Keys : rows[k] # "None" => rows'[k] # "None"
    BY <1>3 DEF Unsubscribe, AddRow, TypeOK
  <2>4. \A b \in bounces : <<b.stream, b.email>> \in Keys
    BY DEF TypeOK, Bounce, Keys
  <2> QED BY <2>1, <2>2, <2>3, <2>4, OtherCovered
<1>4. ASSUME NEW p \in Requests, NEW b \in bounces, Activate(p, b)
      PROVE  InactiveCovered'
  <2>1. KeepsPending(p)
    BY <1>4, StartKeeps DEF Activate, AwaitChange
  <2> QED BY <1>4, <2>1, ReactivateCovered DEF Activate
<1>5. ASSUME NEW p \in Requests, NEW op \in {"suppress", "lift"}, NEW s \in StreamIDs,
             NEW items \in Lists, CustomerBatch(p, op, s, items)
      PROVE  InactiveCovered'
  <2>1. p \notin DOMAIN flight /\ UNCHANGED <<bounces, rows>>
    BY <1>5 DEF CustomerBatch
  <2>2. KeepsPending(p)
    BY <1>5, StartKeeps DEF CustomerBatch
  <2> QED BY <2>1, <2>2, OtherCovered
<1>6. ASSUME NEW p \in Handlers, BounceOver(p)
      PROVE  InactiveCovered'
  <2> DEFINE f == flight[p]
  <2>1. p \in DOMAIN flight /\ UNCHANGED bounces
    BY <1>6 DEF BounceOver
  <2>2. CASE f.add = "None"
    <3>1. KeepsPending(p) /\ UNCHANGED rows
      BY <1>6, <2>2, ContinueKeeps DEF BounceOver
    <3> QED BY <2>1, <2>2, <3>1, OtherCovered
  <2>3. CASE f.add # "None"
    \* The row comes in place of the handler that was to add it.
    <3>1. KeepsPending(p) /\ rows' = [rows EXCEPT ![<<f.stream, f.email>>] = f.add]
      BY <1>6, <2>3, StartKeeps DEF BounceOver
    <3>2. ASSUME NEW b \in bounces, b.inactive, rows'[<<b.stream, b.email>>] = "None"
          PROVE  \E q \in Handlers : PendingAdd(q, b.stream, b.email)'
      <4>1. <<b.stream, b.email>> \in Keys /\ <<f.stream, f.email>> \in Keys
        BY <2>1 DEF TypeOK, Bounce, Keys, IsMap, Frame
      <4>2. /\ rows[<<b.stream, b.email>>] = "None"
            /\ ~(b.stream = f.stream /\ b.email = f.email)
        BY <2>3, <3>1, <3>2, <4>1 DEF TypeOK
      <4>3. PICK q \in Handlers : PendingAdd(q, b.stream, b.email)
        BY <3>2, <4>2 DEF InactiveCovered
      <4>4. q # p
        BY <4>2, <4>3 DEF PendingAdd
      <4> QED BY <3>1, <4>3, <4>4 DEF KeepsPending
    <3> QED BY <2>1, <3>2 DEF InactiveCovered
  <2> QED BY <2>2, <2>3
<1>7. ASSUME NEW p \in Handlers, ChangeOver(p)
      PROVE  InactiveCovered'
  <2>1. flight[p].add = "None" /\ KeepsPending(p) /\ UNCHANGED <<rows, bounces>>
    BY <1>7, OnlyAwaitingAdd, ContinueKeeps DEF ChangeOver
  <2> QED BY <2>1, OtherCovered
<1>8. ASSUME NEW p \in Handlers, SuppressItem(p)
      PROVE  InactiveCovered'
  <2> DEFINE f == flight[p]
  <2>1. f.add = "None" /\ UNCHANGED bounces
    BY <1>8, OnlyAwaitingAdd DEF SuppressItem, AtItem
  <2>2. KeepsPending(p)
    BY <1>8, StartKeeps, ContinueKeeps, AnswerKeeps DEF SuppressItem, ItemChanged
  <2>3. \A k \in Keys : rows[k] # "None" => rows'[k] # "None"
    BY <1>8 DEF SuppressItem, AddRow, TypeOK
  <2>4. \A b \in bounces : <<b.stream, b.email>> \in Keys
    BY DEF TypeOK, Bounce, Keys
  <2> QED BY <2>1, <2>2, <2>3, <2>4, OtherCovered
<1>9. ASSUME NEW p \in Handlers, LiftItem(p)
      PROVE  InactiveCovered'
  <2> DEFINE f == flight[p]
  <2>1. f.add = "None"
    BY <1>9, OnlyAwaitingAdd DEF LiftItem, AtItem
  <2>2. KeepsPending(p)
    BY <1>9, StartKeeps, ContinueKeeps, AnswerKeeps DEF LiftItem, ItemChanged
  <2>3. Reactivate(f.stream, f.email) \/ UNCHANGED <<rows, bounces>>
    BY <1>9 DEF LiftItem
  <2> QED BY <2>1, <2>2, <2>3, OtherCovered, ReactivateCovered
<1>10. ASSUME NEW t \in tasks, Purge(t)
       PROVE  InactiveCovered'
  <2>1. UNCHANGED flight
    BY <1>10 DEF Purge
  <2>2. ASSUME NEW b \in bounces'
        PROVE  b \in bounces /\ rows'[<<b.stream, b.email>>] = rows[<<b.stream, b.email>>]
    BY <1>10, <2>2 DEF Purge, TypeOK, Bounce, Keys
  <2> QED BY <2>1, <2>2 DEF InactiveCovered, PendingAdd
<1>11. ASSUME NEW t \in tasks, FakeBounces(t)
       PROVE  InactiveCovered'
  <2>1. Runner \notin DOMAIN flight /\ UNCHANGED <<bounces, rows>>
    BY <1>11 DEF FakeBounces
  <2>2. KeepsPending(Runner)
    BY <1>11, StartKeeps DEF FakeBounces
  <2> QED BY <2>1, <2>2, OtherCovered
<1>12. CASE FakeItem
  <2>1. flight[Runner].add = "None" /\ UNCHANGED rows
    BY <1>12, OnlyAwaitingAdd DEF FakeItem, AtItem
  <2>2. CASE UNCHANGED bounces /\ Continue(Runner)
    BY <2>1, <2>2, ContinueKeeps, OtherCovered
  <2> QED BY <1>0, <1>12, <2>1, <2>2, RecordBounceCovered DEF FakeItem
<1> QED
  BY <1>1, <1>2, <1>3, <1>4, <1>5, <1>6, <1>7, <1>8, <1>9, <1>10, <1>11, <1>12
  DEF Next, Client, Resume, RunTask, Send, CreateStream, Archive, Unarchive, Tick, vars

(***************************************************************************)
(* An inactive bounce has the suppression row of its address, or a handler *)
(* that still waits for the webhooks of a bounce will add it: no order of  *)
(* reports, activations, customer batches, purges and fake bounces leaves  *)
(* a deactivated address that nothing suppresses.                          *)
(***************************************************************************)
THEOREM InactiveStaysCovered == Spec => []InactiveCovered
<1>1. Init => InactiveCovered
  BY DEF Init, InactiveCovered
<1>2. Sound /\ InactiveCovered /\ [Next]_vars => InactiveCovered'
  BY CoveredStep
<1> QED BY <1>1, <1>2, AlwaysSound, PTL DEF Spec

-----------------------------------------------------------------------------
(***************************************************************************)
(* Webhooks of bounces that do not wait: none listens to the bounce events *)
(* or none is configured.  A handler that is to add a row then holds the   *)
(* turn until it has added it.                                             *)
(***************************************************************************)
QuickBounces == Slow \intersect {"bounced", "spamComplaint"} = {}

\* What is read before the bounce event is still true after it.
PendingNew ==
  \A p \in DOMAIN flight : flight[p].add # "None" =>
    rows[<<flight[p].stream, flight[p].email>>] = "None"

\* Row and bounce agree, or the row that is about to be added will.
Agree ==
  \A b \in bounces : b.inactive =>
    \/ rows[<<b.stream, b.email>>] = Reason(b.type)
    \/ \E p \in Handlers :
         PendingAdd(p, b.stream, b.email) /\ flight[p].add = Reason(b.type)

\* Whoever has the turn is the only one that may have a row to add.
LEMMA QuietOthers ==
  ASSUME Sound, QuickBounces, NEW q, Turn(q), NEW p \in DOMAIN flight, p # q
  PROVE  flight[p].add = "None"
BY DEF Sound, FramesSound, FrameSound, TypeOK, IsMap, QuickBounces, Turn, Holds

LEMMA FreeTurn ==
  ASSUME Free, NEW q
  PROVE  Turn(q)
BY DEF Free, Turn

LEMMA FreeQuiet ==
  ASSUME Sound, QuickBounces, Free, NEW p \in DOMAIN flight
  PROVE  flight[p].add = "None"
BY DEF Sound, FramesSound, FrameSound, TypeOK, IsMap, QuickBounces, Free, Holds

\* When nobody has a row to add, the rows alone agree with the bounces.
LEMMA AgreeNow ==
  ASSUME Agree, \A p \in DOMAIN flight : flight[p].add = "None",
         NEW b \in bounces, b.inactive
  PROVE  rows[<<b.stream, b.email>>] = Reason(b.type)
BY DEF Agree, PendingAdd

\* A row taken from an address leaves no inactive bounce of it.
LEMMA ReactivateAgree ==
  ASSUME Sound, \A b \in bounces : b.inactive =>
                  rows[<<b.stream, b.email>>] = Reason(b.type),
         NEW s, NEW e, Reactivate(s, e)
  PROVE  \A c \in bounces' : c.inactive => rows'[<<c.stream, c.email>>] = Reason(c.type)
<1> SUFFICES ASSUME NEW c \in bounces', c.inactive
             PROVE  rows'[<<c.stream, c.email>>] = Reason(c.type)
  OBVIOUS
<1>1. PICK b \in bounces :
        /\ c.stream = b.stream /\ c.email = b.email /\ c.type = b.type
        /\ b.inactive /\ <<b.stream, b.email>> # <<s, e>>
  BY ReactivatedFrom DEF Sound
<1>2. <<b.stream, b.email>> \in Keys
  BY DEF Sound, TypeOK, Bounce, Keys
<1> QED BY <1>1, <1>2 DEF Reactivate, Sound, TypeOK

\* A row given to an address that had none.
LEMMA AddAgree ==
  ASSUME Sound, \A b \in bounces : b.inactive =>
                  rows[<<b.stream, b.email>>] = Reason(b.type),
         NEW s, NEW e, NEW row, rows[<<s, e>>] = "None", AddRow(s, e, row)
  PROVE  \A b \in bounces : b.inactive => rows'[<<b.stream, b.email>>] = Reason(b.type)
<1>1. \A b \in bounces : <<b.stream, b.email>> \in Keys /\ Reason(b.type) # "None"
  BY DEF Sound, TypeOK, Bounce, Keys, Reason
<1> QED BY <1>1 DEF AddRow, Sound, TypeOK

\* The actor's own frame decides, once its step is over.
LEMMA OnlyActorPending ==
  ASSUME Sound, QuickBounces, NEW q, Turn(q),
         NEW f, Start(q, f), f.add # "None" => rows'[<<f.stream, f.email>>] = "None"
  PROVE  PendingNew'
BY QuietOthers DEF PendingNew, Start

LEMMA RecordBounceQuick ==
  ASSUME Sound, QuickBounces, PendingNew, Agree,
         NEW p \in Handlers, NEW op, NEW m, NEW e, NEW type, NEW todo, Turn(p),
         p \in DOMAIN flight => flight[p].add = "None",
         RecordBounce(p, op, m, e, type, todo), UNCHANGED rows
  PROVE  PendingNew' /\ Agree'
<1>0. PICK s : s = outbound[m].stream
  OBVIOUS
<1> DEFINE new == [id |-> nextBounce, msg |-> m, stream |-> s, email |-> e,
                   type |-> type, at |-> now, inactive |-> Deactivates(type)]
<1>1. \A q \in DOMAIN flight : flight[q].add = "None"
  BY QuietOthers
<1>2. \A b \in bounces : b.inactive => rows[<<b.stream, b.email>>] = Reason(b.type)
  BY <1>1, AgreeNow
<1>3. ASSUME new.inactive, rows[<<s, e>>] = "None"
      PROVE  PendingAdd(p, s, e)' /\ flight'[p].add = Reason(type)
  BY <1>0, <1>3 DEF RecordBounce, PendingAdd, Start, Reason
<1>4. new.inactive => rows[<<s, e>>] \in {"None", Reason(type)}
  BY <1>0 DEF RecordBounce, BounceSupported
<1>5. Agree'
  <2>1. bounces' = bounces \union {new}
    BY <1>0 DEF RecordBounce
  <2> QED BY <1>2, <1>3, <1>4, <2>1 DEF Agree
<1>6. PendingNew'
  <2> DEFINE f == [op |-> op, at |-> EventOf(type), stream |-> s, email |-> e,
                   msg |-> m, todo |-> todo,
                   add |-> IF Deactivates(type) /\ rows[<<s, e>>] = "None"
                           THEN Reason(type) ELSE "None"]
  <2>1. Start(p, f)
    BY <1>0 DEF RecordBounce
  <2> QED BY <2>1, OnlyActorPending
<1> QED BY <1>5, <1>6

\* A handler with nothing to add starts, or goes on.
LEMMA QuietStart ==
  ASSUME \A p \in DOMAIN flight : flight[p].add = "None",
         NEW q, NEW f, Start(q, f), f.add = "None"
  PROVE  PendingNew'
BY DEF Start, PendingNew

LEMMA QuietContinue ==
  ASSUME \A p \in DOMAIN flight : flight[p].add = "None",
         NEW q \in DOMAIN flight, flight[q] \in Frame, Continue(q) \/ Answer(q) \/ ItemChanged(q)
  PROVE  PendingNew'
<1> DEFINE f == flight[q]
<1>1. CASE Answer(q)
  BY <1>1 DEF Answer, Restrict, PendingNew
<1>2. CASE ItemChanged(q)
  <2>1. [f EXCEPT !.at = "subscriptionChange"].add = "None"
    BY DEF Frame
  <2> QED BY <1>2, <2>1, QuietStart DEF ItemChanged
<1>3. CASE Continue(q)
  <2>1. [f EXCEPT !.at = "item", !.email = Head(f.todo), !.add = "None",
                  !.todo = Tail(f.todo)].add = "None"
    BY DEF Frame
  <2> QED BY <1>1, <1>3, <2>1, QuietStart DEF Continue
<1> QED BY <1>1, <1>2, <1>3

LEMMA QuickStep ==
  ASSUME QuickBounces, Sound, PendingNew, Agree, [Next]_vars
  PROVE  PendingNew' /\ Agree'
<1> USE DEF Sound
<1>0. Runner \in Handlers /\ Requests \subseteq Handlers
  BY DEF Handlers
<1>1. ASSUME UNCHANGED <<bounces, rows, flight>>
      PROVE  PendingNew' /\ Agree'
  BY <1>1 DEF PendingNew, Agree, PendingAdd
<1>2. ASSUME NEW p \in Requests, NEW m \in MessageIDs, NEW e \in Emails,
             NEW type \in BounceTypes, Report(p, m, e, type)
      PROVE  PendingNew' /\ Agree'
  BY <1>0, <1>2, RecordBounceQuick, FreeTurn DEF Report
<1>3. ASSUME NEW p \in Requests, Client(p), Free,
             \A m \in MessageIDs, e \in Emails, type \in BounceTypes : ~Report(p, m, e, type)
      PROVE  PendingNew' /\ Agree'
  <2>1. \A q \in DOMAIN flight : flight[q].add = "None"
    BY <1>3, FreeQuiet
  <2>2. \A b \in bounces : b.inactive => rows[<<b.stream, b.email>>] = Reason(b.type)
    BY <2>1, AgreeNow
  <2>3. PendingNew'
    <3>1. \E f : Start(p, f) /\ f.add = "None"
      <4>1. ASSUME NEW m \in MessageIDs, NEW e \in Emails, Unsubscribe(p, m, e)
            PROVE  \E f : Start(p, f) /\ f.add = "None"
        BY <4>1 DEF Unsubscribe, AwaitChange
      <4>2. ASSUME NEW b \in bounces, Activate(p, b)
            PROVE  \E f : Start(p, f) /\ f.add = "None"
        BY <4>2 DEF Activate, AwaitChange
      <4>3. ASSUME NEW op, NEW s, NEW items, CustomerBatch(p, op, s, items)
            PROVE  \E f : Start(p, f) /\ f.add = "None"
        BY <4>3 DEF CustomerBatch
      <4> QED BY <1>3, <4>1, <4>2, <4>3 DEF Client
    <3> QED BY <2>1, <3>1, QuietStart
  <2>4. ASSUME NEW m \in MessageIDs, NEW e \in Emails, Unsubscribe(p, m, e)
        PROVE  Agree'
    BY <2>2, <2>4, AddAgree DEF Unsubscribe, Agree
  <2>5. ASSUME NEW b \in bounces, Activate(p, b)
        PROVE  Agree'
    BY <2>2, <2>5, ReactivateAgree DEF Activate, Agree
  <2>6. ASSUME UNCHANGED <<rows, bounces>>
        PROVE  Agree'
    BY <2>2, <2>6 DEF Agree
  <2> QED BY <1>3, <2>3, <2>4, <2>5, <2>6 DEF Client, CustomerBatch
<1>4. ASSUME NEW p \in Handlers, BounceOver(p), flight[p].add # "None"
      PROVE  PendingNew' /\ Agree'
  <2> DEFINE f == flight[p]
             k == <<f.stream, f.email>>
  <2>1. /\ p \in DOMAIN flight /\ f \in Frame /\ k \in Keys
        /\ Turn(p) /\ UNCHANGED bounces
        /\ rows' = [rows EXCEPT ![k] = f.add]
    BY <1>4 DEF BounceOver, TypeOK, IsMap, Frame, Keys
  <2>2. Start(p, [f EXCEPT !.at = "subscriptionChange", !.add = "None"])
    BY <1>4 DEF BounceOver
  <2>3. PendingNew'
    <3>1. [f EXCEPT !.at = "subscriptionChange", !.add = "None"].add = "None"
      BY <2>1 DEF Frame
    <3> QED BY <2>1, <2>2, <3>1, OnlyActorPending
  <2>4. rows[k] = "None"
    BY <1>4, <2>1 DEF PendingNew
  <2>5. ASSUME NEW b \in bounces, b.inactive
        PROVE  rows'[<<b.stream, b.email>>] = Reason(b.type)
    <3>1. <<b.stream, b.email>> \in Keys /\ Reason(b.type) # "None"
      BY DEF TypeOK, Bounce, Keys, Reason
    <3>2. CASE rows[<<b.stream, b.email>>] = Reason(b.type)
      BY <2>1, <2>4, <3>1, <3>2 DEF TypeOK
    <3>3. CASE rows[<<b.stream, b.email>>] # Reason(b.type)
      <4>1. PICK q \in Handlers :
              PendingAdd(q, b.stream, b.email) /\ flight[q].add = Reason(b.type)
        BY <2>5, <3>3 DEF Agree
      <4>2. q = p
        BY <2>1, <4>1, QuietOthers DEF PendingAdd
      <4> QED BY <2>1, <3>1, <4>1, <4>2 DEF PendingAdd, TypeOK
    <3> QED BY <3>2, <3>3
  <2> QED BY <2>1, <2>3, <2>5 DEF Agree
<1>5. ASSUME NEW p \in Handlers, Resume(p), flight[p].add = "None"
      PROVE  PendingNew' /\ Agree'
  <2> DEFINE f == flight[p]
  <2>1. p \in DOMAIN flight /\ Turn(p) /\ f \in Frame
    BY <1>5 DEF Resume, BounceOver, ChangeOver, SuppressItem, LiftItem, AtItem, TypeOK, IsMap
  <2>2. \A q \in DOMAIN flight : flight[q].add = "None"
    BY <1>5, <2>1, QuietOthers
  <2>3. \A b \in bounces : b.inactive => rows[<<b.stream, b.email>>] = Reason(b.type)
    BY <2>2, AgreeNow
  <2>4. Continue(p) \/ Answer(p) \/ ItemChanged(p)
    BY <1>5 DEF Resume, BounceOver, ChangeOver, SuppressItem, LiftItem
  <2>5. PendingNew'
    BY <2>1, <2>2, <2>4, QuietContinue
  <2>6. \/ UNCHANGED <<rows, bounces>>
        \/ /\ rows[<<f.stream, f.email>>] = "None"
           /\ AddRow(f.stream, f.email, "ManualCustomer")
           /\ UNCHANGED bounces
        \/ Reactivate(f.stream, f.email)
    BY <1>5 DEF Resume, BounceOver, ChangeOver, SuppressItem, LiftItem
  <2>7. \A b \in bounces' : b.inactive => rows'[<<b.stream, b.email>>] = Reason(b.type)
    BY <2>3, <2>6, AddAgree, ReactivateAgree
  <2> QED BY <2>5, <2>7 DEF Agree
<1>6. ASSUME NEW t \in tasks, Purge(t)
      PROVE  PendingNew' /\ Agree'
  <2>1. UNCHANGED flight /\ \A q \in DOMAIN flight : flight[q].add = "None"
    BY <1>6, FreeQuiet DEF Purge
  <2>2. \A b \in bounces : b.inactive => rows[<<b.stream, b.email>>] = Reason(b.type)
    BY <2>1, AgreeNow
  <2>3. ASSUME NEW b \in bounces'
        PROVE  b \in bounces /\ rows'[<<b.stream, b.email>>] = rows[<<b.stream, b.email>>]
    BY <1>6, <2>3 DEF Purge, TypeOK, Bounce, Keys
  <2> QED BY <2>1, <2>2, <2>3 DEF PendingNew, Agree
<1>7. ASSUME NEW t \in tasks, FakeBounces(t)
      PROVE  PendingNew' /\ Agree'
  <2>1. \A q \in DOMAIN flight : flight[q].add = "None"
    BY <1>7, FreeQuiet DEF FakeBounces
  <2>2. \A b \in bounces : b.inactive => rows[<<b.stream, b.email>>] = Reason(b.type)
    BY <2>1, AgreeNow
  <2>3. PendingNew'
    BY <1>7, <2>1 DEF FakeBounces, Start, PendingNew
  <2> QED BY <1>7, <2>2, <2>3 DEF FakeBounces, Agree
<1>8. CASE FakeItem
  <2>1. /\ Runner \in DOMAIN flight /\ flight[Runner] \in Frame /\ Turn(Runner)
        /\ flight[Runner].add = "None" /\ UNCHANGED rows
    BY <1>8, OnlyAwaitingAdd DEF FakeItem, AtItem, TypeOK, IsMap
  <2>2. CASE UNCHANGED bounces /\ Continue(Runner)
    <3>1. \A q \in DOMAIN flight : flight[q].add = "None"
      BY <2>1, QuietOthers
    <3>2. PendingNew'
      BY <2>1, <2>2, <3>1, QuietContinue
    <3> QED BY <2>1, <2>2, <3>1, <3>2, AgreeNow DEF Agree
  <2> QED BY <1>0, <1>8, <2>1, <2>2, RecordBounceQuick DEF FakeItem
<1>9. \A p \in Requests : Client(p) => Free
  BY DEF Client, Report, Unsubscribe, Activate, CustomerBatch
<1>10. \A p \in Handlers : Resume(p) /\ flight[p].add # "None" => BounceOver(p)
  BY OnlyAwaitingAdd DEF Resume, ChangeOver, SuppressItem, LiftItem, AtItem
<1> QED
  BY <1>1, <1>2, <1>3, <1>4, <1>5, <1>6, <1>7, <1>8, <1>9, <1>10
  DEF Next, RunTask, Send, CreateStream, Archive, Unarchive, Tick, vars

LEMMA AlwaysQuick ==
  ASSUME QuickBounces
  PROVE  Spec => [](PendingNew /\ Agree)
<1>1. Init => PendingNew /\ Agree
  BY DEF Init, PendingNew, Agree, EmptyMap
<1>2. Sound /\ PendingNew /\ Agree /\ [Next]_vars => (PendingNew /\ Agree)'
  BY QuickStep
<1> QED BY <1>1, <1>2, AlwaysSound, PTL DEF Spec

(***************************************************************************)
(* With bounce webhooks that do not wait, no request ever finds an         *)
(* inactive bounce whose address is suppressed for another reason, or not  *)
(* at all.                                                                 *)
(***************************************************************************)
THEOREM BouncesMatchRows ==
  ASSUME QuickBounces
  PROVE  Spec => []InactiveMatchesRow
<1>1. Sound /\ Agree => InactiveMatchesRow
  BY FreeQuiet, AgreeNow DEF InactiveMatchesRow
<1> QED BY <1>1, AlwaysSound, AlwaysQuick, PTL

-----------------------------------------------------------------------------
(***************************************************************************)
(* Implementation of the abstract list.                                    *)
(***************************************************************************)

\* A row added where there is none is a Suppress, one taken a Lift.
LEMMA AddIsSuppress ==
  ASSUME TypeOK, NEW s \in StreamIDs, NEW e \in Emails, NEW row \in Rows,
         rows[<<s, e>>] = "None", AddRow(s, e, row)
  PROVE  List!Next
<1>1. List!Suppress(<<s, e>>, row)
  BY DEF AddRow, List!Suppress
<1> QED BY <1>1 DEF List!Next, List!Addresses, List!Kinds, Rows

LEMMA ReactivateIsLift ==
  ASSUME NEW s \in StreamIDs, NEW e \in Emails, rows[<<s, e>>] \in Liftable,
         Reactivate(s, e)
  PROVE  List!Next
<1>1. List!Lift(<<s, e>>)
  BY DEF Reactivate, List!Lift, Liftable
<1> QED BY <1>1 DEF List!Next, List!Addresses

LEMMA ListStep ==
  ASSUME Sound, PendingNew, [Next]_vars
  PROVE  [List!Next]_rows
<1> USE DEF Sound
<1>1. ASSUME NEW p \in Requests, NEW m \in MessageIDs, NEW e \in Emails,
             Unsubscribe(p, m, e)
      PROVE  List!Next
  <2>1. outbound[m].stream \in StreamIDs
    BY <1>1 DEF Unsubscribe, Delivered, TypeOK, IsMap, Message
  <2> QED BY <1>1, <2>1, AddIsSuppress DEF Unsubscribe, Rows
<1>2. ASSUME NEW p \in Requests, NEW b \in bounces, Activate(p, b)
      PROVE  List!Next
  BY <1>2, ReactivateIsLift DEF Activate, Liftable, TypeOK, Bounce
<1>3. ASSUME NEW p \in Handlers, BounceOver(p)
      PROVE  [List!Next]_rows
  <2> DEFINE f == flight[p]
  <2>1. p \in DOMAIN flight /\ f \in Frame
    BY <1>3 DEF BounceOver, TypeOK, IsMap
  <2>2. CASE f.add # "None"
    <3>1. AddRow(f.stream, f.email, f.add)
      BY <1>3, <2>2 DEF BounceOver, AddRow
    <3>2. rows[<<f.stream, f.email>>] = "None"
      BY <2>1, <2>2 DEF PendingNew
    <3> QED BY <2>1, <2>2, <3>1, <3>2, AddIsSuppress DEF Frame, RowOrNone
  <2> QED BY <1>3, <2>2 DEF BounceOver
<1>4. ASSUME NEW p \in Handlers, SuppressItem(p)
      PROVE  [List!Next]_rows
  <2> DEFINE f == flight[p]
  <2>1. f.stream \in StreamIDs /\ f.email \in Emails
    BY <1>4 DEF SuppressItem, AtItem, TypeOK, IsMap, Frame
  <2>2. \/ UNCHANGED rows
        \/ rows[<<f.stream, f.email>>] = "None" /\ AddRow(f.stream, f.email, "ManualCustomer")
    BY <1>4 DEF SuppressItem
  <2> QED BY <2>1, <2>2, AddIsSuppress DEF Rows
<1>5. ASSUME NEW p \in Handlers, LiftItem(p)
      PROVE  [List!Next]_rows
  <2> DEFINE f == flight[p]
  <2>1. f.stream \in StreamIDs /\ f.email \in Emails
    BY <1>5 DEF LiftItem, AtItem, TypeOK, IsMap, Frame
  <2>2. \/ UNCHANGED rows
        \/ rows[<<f.stream, f.email>>] \in Liftable /\ Reactivate(f.stream, f.email)
    BY <1>5 DEF LiftItem
  <2> QED BY <2>1, <2>2, ReactivateIsLift
<1>6. ASSUME NEW t \in tasks, Purge(t)
      PROVE  [List!Next]_rows
  <2>1. CASE StillDue(t)
    <3>1. t.stream \in StreamIDs
      BY <2>1 DEF StillDue, TypeOK, IsMap
    <3>2. List!PurgeList(t.stream)
      BY <1>6, <2>1 DEF Purge, List!PurgeList, List!Addresses, Keys
    <3> QED BY <3>1, <3>2 DEF List!Next
  <2>2. CASE ~StillDue(t)
    BY <1>6, <2>2 DEF Purge
  <2> QED BY <2>1, <2>2
<1>7. ASSUME UNCHANGED rows
      PROVE  [List!Next]_rows
  BY <1>7
<1> QED
  BY <1>1, <1>2, <1>3, <1>4, <1>5, <1>6, <1>7
  DEF Next, Client, Resume, RunTask, Send, Report, CustomerBatch, ChangeOver,
      CreateStream, Archive, Unarchive, FakeBounces, FakeItem, Tick, vars

(***************************************************************************)
(* With bounce webhooks that do not wait, the suppression rows implement   *)
(* the abstract list: a row is only added where there is none, only lifted *)
(* when its kind allows it, and otherwise ends with its whole stream.      *)
(***************************************************************************)
THEOREM RowsImplementList ==
  ASSUME QuickBounces
  PROVE  Spec => ListSpec
<1>1. Init => List!Init
  BY DEF Init, List!Init, List!Addresses, Keys
<1>2. Sound /\ PendingNew /\ [Next]_vars => [List!Next]_rows
  BY ListStep
<1> QED BY <1>1, <1>2, AlwaysSound, AlwaysQuick, PTL DEF Spec, ListSpec, List!Spec
=============================================================================
