----------------------------- MODULE TrackingProofs -----------------------------
(***************************************************************************)
(* Proofs about Tracking: its types, that the records of the first opens   *)
(* and clicks agree, that the story of a message can have happened, that   *)
(* all that is counted of it adds up, and that a client which pages        *)
(* through a list misses nothing.                                          *)
(***************************************************************************)
EXTENDS Tracking, SequenceTheorems, FiniteSetTheorems, WellFoundedInduction, TLAPS

-----------------------------------------------------------------------------
(***************************************************************************)
(* Sequences that grow.                                                    *)
(***************************************************************************)
\* What an appended sequence holds.
LEMMA Appended ==
  ASSUME NEW S, NEW s \in Seq(S), NEW e \in S
  PROVE  /\ Append(s, e) \in Seq(S) /\ Len(s) \in Nat
         /\ DOMAIN s = 1..Len(s) /\ DOMAIN Append(s, e) = 1..Len(s) + 1
         /\ \A n \in DOMAIN s : n \in DOMAIN Append(s, e) /\ Append(s, e)[n] = s[n] /\ s[n] \in S
         /\ Append(s, e)[Len(s) + 1] = e
         /\ s \o <<e>> = Append(s, e) /\ s \o <<>> = s
BY AppendProperties, LenProperties, AppendIsConcat, ConcatEmptySeq, ElementOfSeq

\* A longer sequence begins with the shorter one.
LEMMA Longer ==
  ASSUME NEW S, NEW s \in Seq(S), NEW u \in Seq(S)
  PROVE  /\ s \o u \in Seq(S) /\ Len(s) \in Nat
         /\ DOMAIN s = 1..Len(s) /\ DOMAIN s \subseteq DOMAIN (s \o u)
         /\ \A n \in DOMAIN s : (s \o u)[n] = s[n] /\ s[n] \in S
         /\ \A n \in DOMAIN (s \o u) \ DOMAIN s :
              n - Len(s) \in DOMAIN u /\ (s \o u)[n] = u[n - Len(s)] /\ Len(s) < n /\ n \in Nat
         /\ \A n \in DOMAIN (s \o u) : (s \o u)[n] \in S
<1>1. /\ Len(s) \in Nat /\ Len(u) \in Nat /\ DOMAIN s = 1..Len(s) /\ DOMAIN u = 1..Len(u)
      /\ s \o u \in Seq(S) /\ DOMAIN (s \o u) = 1..Len(s) + Len(u)
      /\ \A n \in 1..Len(s) + Len(u) : (s \o u)[n] = IF n <= Len(s) THEN s[n] ELSE u[n - Len(s)]
  BY ConcatProperties, LenProperties
<1>2. /\ \A n \in DOMAIN s : s[n] \in S
      /\ \A n \in DOMAIN (s \o u) : (s \o u)[n] \in S
  BY <1>1, ElementOfSeq
<1>3. \A n \in DOMAIN (s \o u) \ DOMAIN s :
        n - Len(s) \in 1..Len(u) /\ (s \o u)[n] = u[n - Len(s)] /\ Len(s) < n /\ n \in Nat
  BY <1>1
<1>4. \A n \in DOMAIN s : n \in DOMAIN (s \o u) /\ (s \o u)[n] = s[n]
  BY <1>1
<1> QED BY <1>1, <1>2, <1>3, <1>4

\* The places of a sequence that hold one of X.
Where(s, X) == {n \in DOMAIN s : s[n] \in X}

\* They are finitely many, and those of a longer sequence are the same when
\* nothing of X came.
LEMMA WhereKept ==
  ASSUME NEW S, NEW s \in Seq(S), NEW u \in Seq(S), NEW X
  PROVE  /\ IsFiniteSet(Where(s, X)) /\ Cardinality(Where(s, X)) \in Nat
         /\ (\A n \in DOMAIN u : u[n] \notin X) => Where(s \o u, X) = Where(s, X)
<1>1. Where(s, X) \in SUBSET (1..Len(s)) /\ Len(s) \in Nat
  BY LenProperties DEF Where
<1>2. IsFiniteSet(1..Len(s))
  <2>1. 1 \in Int /\ Len(s) \in Int
    BY <1>1
  <2> QED BY <2>1, FS_Interval
<1>3. IsFiniteSet(Where(s, X))
  BY <1>1, <1>2, FS_Subset
<1>4. ASSUME \A n \in DOMAIN u : u[n] \notin X
      PROVE  Where(s \o u, X) = Where(s, X)
  <2>1. \A n \in DOMAIN (s \o u) : (s \o u)[n] \in X => n \in DOMAIN s /\ s[n] \in X
    BY <1>4, Longer
  <2>2. \A n \in DOMAIN s : s[n] \in X => n \in DOMAIN (s \o u) /\ (s \o u)[n] \in X
    BY Longer
  <2> QED BY <2>1, <2>2 DEF Where
<1> QED BY <1>3, <1>4, FS_CardinalityType

\* One more of X is in one more place, after all others.
LEMMA WhereMore ==
  ASSUME NEW S, NEW s \in Seq(S), NEW e \in S, NEW X, e \in X
  PROVE  /\ Where(s \o <<e>>, X) = Where(s, X) \union {Len(s) + 1}
         /\ Len(s) + 1 \notin Where(s, X) /\ Len(s) + 1 \in Nat
         /\ \A n \in Where(s, X) : n \in Nat /\ n < Len(s) + 1
         /\ Cardinality(Where(s \o <<e>>, X)) = Cardinality(Where(s, X)) + 1
         /\ (s \o <<e>>)[Len(s) + 1] = e
<1>1. /\ DOMAIN s = 1..Len(s) /\ DOMAIN (s \o <<e>>) = 1..Len(s) + 1 /\ Len(s) \in Nat
      /\ \A n \in DOMAIN s : (s \o <<e>>)[n] = s[n]
      /\ (s \o <<e>>)[Len(s) + 1] = e
  BY Appended
<1>2. Where(s \o <<e>>, X) = Where(s, X) \union {Len(s) + 1}
  <2>1. \A n \in DOMAIN (s \o <<e>>) : n \in DOMAIN s \/ n = Len(s) + 1
    BY <1>1
  <2>2. \A n \in DOMAIN s : n \in DOMAIN (s \o <<e>>)
    BY <1>1
  <2>3. Len(s) + 1 \in DOMAIN (s \o <<e>>)
    BY <1>1
  <2> QED BY <1>1, <2>1, <2>2, <2>3 DEF Where
<1>3. Len(s) + 1 \notin Where(s, X) /\ \A n \in Where(s, X) : n \in Nat /\ n < Len(s) + 1
  BY <1>1 DEF Where
<1>4. IsFiniteSet(Where(s, X))
  <2>1. <<>> \in Seq(S)
    OBVIOUS
  <2> QED BY <2>1, WhereKept
<1>5. Cardinality(Where(s, X) \union {Len(s) + 1}) = Cardinality(Where(s, X)) + 1
  BY <1>3, <1>4, FS_AddElement
<1>6. Cardinality(Where(s \o <<e>>, X)) = Cardinality(Where(s, X)) + 1
  BY <1>2, <1>5, Zenon
<1>7. Len(s) + 1 \in Nat
  BY <1>1
<1> QED BY <1>1, <1>2, <1>3, <1>6, <1>7, Zenon

\* Two in a row.
LEMMA InARow ==
  ASSUME NEW S, NEW x \in S, NEW y \in S
  PROVE  /\ <<x>> \in Seq(S) /\ <<x>> \o <<y>> \in Seq(S) /\ <<x>> \o <<>> = <<x>>
         /\ DOMAIN (<<x>> \o <<y>>) = {1, 2}
         /\ (<<x>> \o <<y>>)[1] = x /\ (<<x>> \o <<y>>)[2] = y
<1>1. <<x>> \in Seq(S) /\ Len(<<x>>) = 1 /\ <<x>>[1] = x /\ 1 \in DOMAIN <<x>>
  OBVIOUS
<1>2. /\ DOMAIN Append(<<x>>, y) = 1..1 + 1 /\ Append(<<x>>, y)[1] = x /\ Append(<<x>>, y)[1 + 1] = y
      /\ Append(<<x>>, y) \in Seq(S) /\ <<x>> \o <<y>> = Append(<<x>>, y) /\ <<x>> \o <<>> = <<x>>
  BY <1>1, Appended
<1>3. 1 + 1 = 2 /\ 1..2 = {1, 2}
  OBVIOUS
<1> QED BY <1>1, <1>2, <1>3

\* The elements of a sequence.
LEMMA Elements ==
  ASSUME NEW s, NEW x
  PROVE  x \in ToSet(s) <=> \E n \in DOMAIN s : s[n] = x
BY DEF ToSet

\* Each element of a longer sequence comes from one of its parts.
LEMMA OfEither ==
  ASSUME NEW S, NEW s \in Seq(S), NEW u \in Seq(S), NEW n \in DOMAIN (s \o u)
  PROVE  \/ n \in DOMAIN s /\ (s \o u)[n] = s[n]
         \/ \E m \in DOMAIN u : (s \o u)[n] = u[m]
<1>1. n \notin DOMAIN s => n - Len(s) \in DOMAIN u /\ (s \o u)[n] = u[n - Len(s)]
  BY Longer
<1>2. n \in DOMAIN s => (s \o u)[n] = s[n]
  BY Longer
<1> QED BY <1>1, <1>2

-----------------------------------------------------------------------------
(***************************************************************************)
(* Types.                                                                  *)
(***************************************************************************)
Posted == [record: RecordTypes, msg: Nat, to: Recipients]
Row == [msg: Nat, to: Recipients, type: Reported \union {"SMTPApiError"}]

\* The stores begin empty.
LEMMA InitTyped == Init => TypeOK
<1> SUFFICES ASSUME Init PROVE TypeOK
  OBVIOUS
<1>1. now \in Instants /\ stream \in Instants \union {Gone}
  BY TrackingAssumption DEF Init, Instants
<1>2. \E S \in SUBSET Recipients : rows \in [S -> Reasons]
  BY DEF Init, Reasons
<1> QED BY <1>1, <1>2 DEF Init, TypeOK

\* The links of a message that are tracked are finitely many.
LEMMA TrackedTyped ==
  ASSUME NEW draft \in Drafts, NEW location
  PROVE  /\ TrackedLinks(draft, location) \subseteq Links
         /\ Cardinality(TrackedLinks(draft, location)) \in Nat
<1>1. draft.html \subseteq Links /\ draft.text \subseteq Links
  BY TrackingAssumption DEF Draft
<1>2. TrackedLinks(draft, location) \in SUBSET Links
  BY <1>1 DEF TrackedLinks
<1>3. IsFiniteSet(TrackedLinks(draft, location))
  BY <1>2, TrackingAssumption, FS_Subset
<1> QED BY <1>2, <1>3, FS_CardinalityType

EventIs(type, r, at, detail) == [type |-> type, to |-> r, at |-> at, detail |-> detail]
Details == Links \union Reported \union {""}

\* A message with one more event is the same message with one more event.
LEMMA WithEventIs ==
  ASSUME NEW messages \in Seq(Message), NEW i \in DOMAIN messages,
         NEW type \in EventTypes, NEW r \in Recipients, NEW at \in Instants,
         NEW detail \in Details
  PROVE  /\ EventIs(type, r, at, detail) \in Event
         /\ WithEvent(messages, i, type, r, at, detail) \in Seq(Message)
         /\ DOMAIN WithEvent(messages, i, type, r, at, detail) = DOMAIN messages
         /\ \A j \in DOMAIN messages :
              j # i => WithEvent(messages, i, type, r, at, detail)[j] = messages[j]
         /\ WithEvent(messages, i, type, r, at, detail)[i].events =
              Append(messages[i].events, EventIs(type, r, at, detail))
         /\ WithEvent(messages, i, type, r, at, detail)[i].draft = messages[i].draft
         /\ WithEvent(messages, i, type, r, at, detail)[i].at = messages[i].at
         /\ WithEvent(messages, i, type, r, at, detail)[i].skipped = messages[i].skipped
         /\ messages[i].events \in Seq(Event)
<1> DEFINE e == EventIs(type, r, at, detail)
           m == [messages[i] EXCEPT !.events = Append(@, e)]
<1>1. e \in Event
  BY DEF Event, EventIs, Details
<1>2. messages[i] \in Message /\ i \in 1..Len(messages)
  BY LenProperties, ElementOfSeq
<1>3. messages[i].events \in Seq(Event)
  BY <1>2 DEF Message
<1>4. Append(messages[i].events, e) \in Seq(Event)
  <2> HIDE DEF e
  <2> QED BY <1>1, <1>3, Appended
<1>5. m \in Message
  <2> HIDE DEF e
  <2> QED BY <1>2, <1>4 DEF Message
<1>6. WithEvent(messages, i, type, r, at, detail) = [messages EXCEPT ![i] = m]
  BY DEF WithEvent, EventIs
<1>7. [messages EXCEPT ![i] = m] \in Seq(Message)
  <2> HIDE DEF m
  <2> QED BY <1>2, <1>5, ExceptSeq
<1>8. DOMAIN [messages EXCEPT ![i] = m] = DOMAIN messages
      /\ [messages EXCEPT ![i] = m][i] = m
      /\ \A j \in DOMAIN messages : j # i => [messages EXCEPT ![i] = m][j] = messages[j]
  OBVIOUS
<1>9. /\ m.events = Append(messages[i].events, e) /\ m.draft = messages[i].draft
      /\ m.at = messages[i].at /\ m.skipped = messages[i].skipped
  <2> HIDE DEF e
  <2> QED BY <1>2 DEF Message
<1> HIDE DEF m
<1> QED BY <1>1, <1>3, <1>6, <1>7, <1>8, <1>9

OneMore(after, messages, i, e) ==
  /\ DOMAIN after = DOMAIN messages
  /\ \A j \in DOMAIN messages : j # i => after[j] = messages[j]
  /\ after[i].events = Append(messages[i].events, e)
  /\ after[i].draft = messages[i].draft /\ after[i].at = messages[i].at

\* The same in one word, to be cited.
LEMMA WithEventMore ==
  ASSUME NEW messages \in Seq(Message), NEW i \in DOMAIN messages,
         NEW type \in EventTypes, NEW r \in Recipients, NEW at \in Instants,
         NEW detail \in Details
  PROVE  OneMore(WithEvent(messages, i, type, r, at, detail), messages, i,
                 EventIs(type, r, at, detail))
BY WithEventIs DEF OneMore

\* The recipients of a stored message, and the instants of what happens to it.
LEMMA HandledTyped ==
  ASSUME TypeOK, NEW i \in DOMAIN outbound, NEW r \in ToSet(outbound[i].draft.to)
  PROVE  /\ outbound[i] \in Message /\ i \in Nat /\ r \in Recipients
         /\ \A at \in outbound[i].at..now : at \in Instants /\ outbound[i].at <= at /\ at <= now
<1>1. outbound[i] \in Message /\ i \in Nat
  BY LenProperties, ElementOfSeq DEF TypeOK
<1>2. outbound[i].draft.to \in Seq(Recipients)
  BY <1>1, TrackingAssumption DEF Message, Draft
<1>3. r \in Recipients
  <2>1. PICK n \in DOMAIN outbound[i].draft.to : outbound[i].draft.to[n] = r
    BY Elements
  <2> QED BY <1>2, <2>1
<1>4. outbound[i].at \in Instants /\ now \in Instants /\ MaxTime \in Nat
  BY <1>1, TrackingAssumption DEF Message, TypeOK
<1> QED BY <1>1, <1>3, <1>4 DEF Instants

\* A new fact is typed, and so is the post of an event.
LEMMA FactsTyped ==
  ASSUME NEW at \in Instants, NEW i \in Nat, NEW r \in Recipients, NEW first \in BOOLEAN
  PROVE  /\ OpenFact(i, r, at, first) \in Fact
         /\ \A location \in Locations, link \in Links :
              ClickFact(i, r, at, location, link, first) \in Fact
         /\ \A type \in Reported : BounceFacts(type, at) \in Seq(Fact)
         /\ [kind |-> "bounce", at |-> at, type |-> "SMTPApiError"] \in Fact
         /\ \A record \in RecordTypes : Post(record, i, r) \in Seq(Posted)
         /\ <<>> \in Seq(Posted)
         /\ \A type \in Reported : BouncePost(i, r, type) \in Seq(Posted)
<1>1. OpenFact(i, r, at, first) \in Fact
  BY DEF OpenFact, Fact
<1>2. \A location \in Locations, link \in Links : ClickFact(i, r, at, location, link, first) \in Fact
  BY DEF ClickFact, Fact
<1>3. \A type \in Reported \union {"SMTPApiError"} : [kind |-> "bounce", at |-> at, type |-> type] \in Fact
  BY DEF Fact
<1>4. [kind |-> "spamComplaint", at |-> at] \in Fact
  BY DEF Fact
<1>5. \A type \in Reported : BounceFacts(type, at) \in Seq(Fact)
  BY <1>3, <1>4 DEF BounceFacts
<1>6. \A record \in RecordTypes : Post(record, i, r) \in Seq(Posted)
  BY DEF Post, Posted
<1>7. \A type \in Reported : BouncePost(i, r, type) \in Seq(Posted)
  BY <1>6 DEF BouncePost, RecordTypes
<1> QED BY <1>1, <1>2, <1>3, <1>5, <1>6, <1>7

\* A send appends a typed message and a fact per recipient.
LEMMA SendTyped ==
  ASSUME TypeOK, NEW draft \in Drafts, Send(draft)
  PROVE  TypeOK'
<1> DEFINE m == [draft |-> draft, at |-> now, events |-> <<>>,
                 skipped |-> ToSet(draft.to) \intersect DOMAIN rows]
           sent == [n \in DOMAIN draft.to |-> SentFact(draft)]
<1>1. outbound' = Append(outbound, m) /\ facts' = facts \o sent
  BY DEF Send
<1>2. draft.to \in Seq(Recipients) /\ draft.trackOpens \in BOOLEAN
  BY TrackingAssumption DEF Draft
<1>3. m \in Message
  <2>1. DOMAIN rows \subseteq Recipients
    BY DEF TypeOK
  <2>2. ToSet(draft.to) \intersect DOMAIN rows \in SUBSET Recipients
    BY <2>1
  <2>3. <<>> \in Seq(Event) /\ now \in Instants
    BY DEF TypeOK
  <2> QED BY <2>2, <2>3 DEF Message
<1>4. SentFact(draft) \in Fact
  BY <1>2, TrackedTyped DEF SentFact, Fact, TypeOK
<1>5. sent \in Seq(Fact)
  BY <1>2, <1>4, LenProperties, SeqDef
<1>6. outbound' \in Seq(Message) /\ facts' \in Seq(Fact)
  <2> HIDE DEF m, sent
  <2> QED BY <1>1, <1>3, <1>5, Appended, ConcatProperties DEF TypeOK
<1> QED BY <1>6 DEF Send, TypeOK

\* An SMTP API error is a typed bounce, fact and post.
LEMMA SkippedTyped ==
  ASSUME TypeOK, NEW i \in DOMAIN outbound, NEW r \in ToSet(outbound[i].draft.to), SkippedBySmtp(i, r)
  PROVE  TypeOK'
<1>1. i \in Nat /\ r \in Recipients /\ now \in Instants
  BY HandledTyped DEF TypeOK
<1>2. bounces' \in Seq(Row)
  <2>1. [msg |-> i, to |-> r, type |-> "SMTPApiError"] \in Row
    BY <1>1 DEF Row
  <2>2. bounces \in Seq(Row)
    BY DEF TypeOK, Row
  <2> QED BY <2>1, <2>2, Appended DEF SkippedBySmtp
<1>3. facts' \in Seq(Fact)
  BY <1>1, FactsTyped, Appended DEF SkippedBySmtp, TypeOK
<1>4. posts' \in Seq(Posted)
  <2>1. Post("Bounce", i, r) \in Seq(Posted) /\ <<>> \in Seq(Posted) /\ posts \in Seq(Posted)
    <3>1. "Bounce" \in RecordTypes
      BY DEF RecordTypes
    <3>2. TRUE \in BOOLEAN
      OBVIOUS
    <3> QED BY <1>1, <3>1, <3>2, FactsTyped DEF TypeOK, Posted
  <2> QED BY <2>1, ConcatProperties DEF SkippedBySmtp
<1> QED BY <1>2, <1>3, <1>4 DEF SkippedBySmtp, TypeOK, Row, Posted

\* A delivery appends a typed event and post.
LEMMA DeliverTyped ==
  ASSUME TypeOK, NEW i \in DOMAIN outbound, NEW r \in ToSet(outbound[i].draft.to),
         NEW at \in outbound[i].at..now, Deliver(i, r, at)
  PROVE  TypeOK'
<1>1. i \in Nat /\ r \in Recipients /\ at \in Instants /\ TRUE \in BOOLEAN
  BY HandledTyped
<1>2. outbound' \in Seq(Message)
  <2>1. "Delivered" \in EventTypes /\ "" \in Details
    BY DEF EventTypes, Details
  <2> QED BY <1>1, <2>1, WithEventIs DEF Deliver, TypeOK
<1>3. posts' \in Seq(Posted)
  <2>1. "Delivery" \in RecordTypes
    BY DEF RecordTypes
  <2> QED BY <1>1, <2>1, FactsTyped, ConcatProperties DEF Deliver, TypeOK, Posted
<1> QED BY <1>2, <1>3 DEF Deliver, TypeOK, Posted

\* An open appends what is typed, kept or not.
LEMMA OpenTyped ==
  ASSUME TypeOK, NEW i \in DOMAIN outbound, NEW r \in ToSet(outbound[i].draft.to),
         NEW at \in outbound[i].at..now, Open(i, r, at)
  PROVE  TypeOK'
<1> DEFINE Kept == [msg: Nat, to: Recipients, at: Instants]
<1>1. i \in Nat /\ r \in Recipients /\ at \in Instants /\ FirstOpen(i, r) \in BOOLEAN
  BY HandledTyped DEF FirstOpen
<1>2. outbound' \in Seq(Message)
  <2>1. "Opened" \in EventTypes /\ "" \in Details
    BY DEF EventTypes, Details
  <2>2. WithEvent(outbound, i, "Opened", r, at, "") \in Seq(Message)
    BY <1>1, <2>1, WithEventIs DEF TypeOK
  <2> QED BY <2>2 DEF Open, OpenedEvent, TypeOK
<1>3. facts' \in Seq(Fact)
  BY <1>1, FactsTyped, Appended DEF Open, TypeOK
<1>4. posts' \in Seq(Posted)
  <2>1. "Open" \in RecordTypes
    BY DEF RecordTypes
  <2>2. OpenPost(i, r, FirstOpen(i, r)) \in Seq(Posted)
    BY <1>1, <2>1, FactsTyped DEF OpenPost
  <2> QED BY <2>2, ConcatProperties DEF Open, TypeOK, Posted
<1>5. opens' \in Seq(Kept)
  <2>1. [msg |-> i, to |-> r, at |-> at] \in Kept
    BY <1>1
  <2>2. opens \in Seq(Kept)
    BY DEF TypeOK
  <2> HIDE DEF Kept
  <2> QED BY <2>1, <2>2, Appended DEF Open
<1> QED BY <1>2, <1>3, <1>4, <1>5 DEF Open, TypeOK, Posted

\* A click appends what is typed, kept or not.
LEMMA ClickTyped ==
  ASSUME TypeOK, NEW i \in DOMAIN outbound, NEW r \in ToSet(outbound[i].draft.to),
         NEW at \in outbound[i].at..now, NEW location \in Locations, NEW link \in Links,
         Click(i, r, at, location, link)
  PROVE  TypeOK'
<1> DEFINE Kept == [msg: Nat, to: Recipients, at: Instants, link: Links]
<1>1. i \in Nat /\ r \in Recipients /\ at \in Instants /\ FirstClick(i, r, link) \in BOOLEAN
  BY HandledTyped DEF FirstClick
<1>2. outbound' \in Seq(Message)
  <2>1. "LinkClicked" \in EventTypes /\ link \in Details
    BY DEF EventTypes, Details
  <2>2. WithEvent(outbound, i, "LinkClicked", r, at, link) \in Seq(Message)
    BY <1>1, <2>1, WithEventIs DEF TypeOK
  <2> QED BY <2>2 DEF Click, ClickedEvent, TypeOK
<1>3. facts' \in Seq(Fact)
  BY <1>1, FactsTyped, Appended DEF Click, TypeOK
<1>4. posts' \in Seq(Posted)
  <2>1. "Click" \in RecordTypes
    BY DEF RecordTypes
  <2> QED BY <1>1, <2>1, FactsTyped, ConcatProperties DEF Click, TypeOK, Posted
<1>5. clicks' \in Seq(Kept)
  <2>1. [msg |-> i, to |-> r, at |-> at, link |-> link] \in Kept
    BY <1>1
  <2>2. clicks \in Seq(Kept)
    BY DEF TypeOK
  <2> HIDE DEF Kept
  <2> QED BY <2>1, <2>2, Appended DEF Click
<1> QED BY <1>2, <1>3, <1>4, <1>5 DEF Click, TypeOK, Posted

\* What a bounce makes of the messages: one more event, or two.
Shown(type) == IF type = "Transient" THEN type ELSE "Bounced"

\* A bounce shows one event or two.
LEMMA BounceEvents ==
  ASSUME TypeOK, NEW i \in DOMAIN outbound, NEW r \in ToSet(outbound[i].draft.to),
         NEW type \in Reported, NEW at \in outbound[i].at..now, Bounce(i, r, type, at)
  PROVE  /\ BouncedEvent(i, r, type, at) = WithEvent(outbound, i, Shown(type), r, at, type)
         /\ Shown(type) \in EventTypes /\ type \in Details
         /\ BouncedEvent(i, r, type, at) \in Seq(Message)
         /\ DOMAIN BouncedEvent(i, r, type, at) = DOMAIN outbound
         /\ \/ outbound' = BouncedEvent(i, r, type, at)
            \/ outbound' = WithEvent(BouncedEvent(i, r, type, at), i, "SubscriptionChanged", r, at, "")
         /\ outbound' \in Seq(Message)
<1> DEFINE shown == Shown(type)
           event == BouncedEvent(i, r, type, at)
<1>1. r \in Recipients /\ at \in Instants
  BY HandledTyped
<1>2. shown \in EventTypes /\ "SubscriptionChanged" \in EventTypes
  BY DEF EventTypes, Shown
<1>3. type \in Details /\ "" \in Details
  BY DEF Details
<1>4. event = WithEvent(outbound, i, shown, r, at, type)
  BY DEF BouncedEvent, Shown
<1> HIDE DEF shown, event
<1>5. event \in Seq(Message) /\ DOMAIN event = DOMAIN outbound
  <2>1. outbound \in Seq(Message)
    BY DEF TypeOK
  <2>2. ASSUME NEW t \in EventTypes, NEW d \in Details
        PROVE  /\ WithEvent(outbound, i, t, r, at, d) \in Seq(Message)
               /\ DOMAIN WithEvent(outbound, i, t, r, at, d) = DOMAIN outbound
    <3>1. WithEvent(outbound, i, t, r, at, d) \in Seq(Message)
      BY <1>1, <2>1, WithEventIs
    <3>2. DOMAIN WithEvent(outbound, i, t, r, at, d) = DOMAIN outbound
      BY <1>1, <2>1, WithEventIs
    <3> QED BY <3>1, <3>2
  <2> QED BY <1>2, <1>3, <1>4, <2>2
<1>6. \/ outbound' = event
      \/ outbound' = WithEvent(event, i, "SubscriptionChanged", r, at, "")
  BY DEF Bounce, ChangedEvent, event
<1>7. WithEvent(event, i, "SubscriptionChanged", r, at, "") \in Seq(Message)
  BY <1>1, <1>2, <1>3, <1>5, WithEventIs
<1>8. outbound' \in Seq(Message)
  BY <1>5, <1>6, <1>7
<1> QED BY <1>2, <1>3, <1>4, <1>5, <1>6, <1>8 DEF shown, event

\* A bounce appends what is typed, and may add a row.
LEMMA BounceTyped ==
  ASSUME TypeOK, NEW i \in DOMAIN outbound, NEW r \in ToSet(outbound[i].draft.to),
         NEW type \in Reported, NEW at \in outbound[i].at..now, Bounce(i, r, type, at)
  PROVE  TypeOK'
<1>1. i \in Nat /\ r \in Recipients /\ at \in Instants /\ TRUE \in BOOLEAN
  BY HandledTyped
<1>2. outbound' \in Seq(Message)
  BY BounceEvents
<1>3. facts' \in Seq(Fact)
  BY <1>1, FactsTyped, ConcatProperties DEF Bounce, TypeOK
<1>4. posts' \in Seq(Posted)
  <2>1. "SubscriptionChange" \in RecordTypes
    BY DEF RecordTypes
  <2>2. BouncePost(i, r, type) \in Seq(Posted) /\ Post("SubscriptionChange", i, r) \in Seq(Posted)
    BY <1>1, <2>1, FactsTyped
  <2>3. posts \o BouncePost(i, r, type) \in Seq(Posted)
    BY <2>2, ConcatProperties DEF TypeOK, Posted
  <2>4. posts \o BouncePost(i, r, type) \o Post("SubscriptionChange", i, r) \in Seq(Posted)
    BY <2>2, <2>3, ConcatProperties
  <2> QED BY <2>3, <2>4 DEF Bounce
<1>5. bounces' \in Seq(Row)
  <2>1. [msg |-> i, to |-> r, type |-> type] \in Row
    BY <1>1 DEF Row
  <2>2. bounces \in Seq(Row)
    BY DEF TypeOK, Row
  <2> QED BY <2>1, <2>2, Appended DEF Bounce
<1>6. \E S \in SUBSET Recipients : rows' \in [S -> Reasons]
  <2>1. PICK S \in SUBSET Recipients : rows \in [S -> Reasons]
    BY DEF TypeOK
  <2>2. ReasonOf(type) \in Reasons
    BY DEF ReasonOf, Reasons
  <2>3. S \union {r} \in SUBSET Recipients
    BY <1>1
  <2>4. [x \in DOMAIN rows \union {r} |-> IF x = r THEN ReasonOf(type) ELSE rows[x]]
          \in [S \union {r} -> Reasons]
    BY <2>1, <2>2
  <2> QED BY <2>1, <2>3, <2>4 DEF Bounce
<1> QED BY <1>2, <1>3, <1>4, <1>5, <1>6 DEF Bounce, TypeOK, Posted, Row

\* The steps that record nothing of a message keep the types.
LEMMA OthersTyped ==
  ASSUME TypeOK, Purge \/ CreateStream \/ Tick \/ UNCHANGED vars
  PROVE  TypeOK'
<1>1. MaxTime \in Nat
  BY TrackingAssumption
<1>2. CASE Purge
  <2>1. stream' \in Instants \union {Gone} /\ bounces' = <<>> /\ rows' = <<>>
    BY <1>2 DEF Purge
  <2>2. <<>> \in Seq([msg: Nat, to: Recipients, type: Reported \union {"SMTPApiError"}])
    OBVIOUS
  <2>3. <<>> \in [{} -> Reasons] /\ {} \in SUBSET Recipients
    OBVIOUS
  <2> QED BY <1>2, <2>1, <2>2, <2>3 DEF Purge, TypeOK
<1>3. CASE CreateStream
  BY <1>3 DEF CreateStream, TypeOK
<1>4. CASE Tick
  <2>1. now' \in Instants
    BY <1>1, <1>4 DEF Tick, TypeOK, Instants
  <2> QED BY <1>4, <2>1 DEF Tick, TypeOK
<1>5. CASE UNCHANGED vars
  BY <1>5 DEF vars, TypeOK
<1> QED BY <1>2, <1>3, <1>4, <1>5

\* The items of a list are numbered from 1.
LEMMA ListedTyped ==
  ASSUME TypeOK, NEW list \in Lists
  PROVE  /\ Listed(list) \subseteq DOMAIN Items(list) /\ DOMAIN Items(list) = 1..Len(Items(list))
         /\ Len(Items(list)) \in Nat /\ IsFiniteSet(Listed(list))
         /\ \A p \in DOMAIN Items(list) : Items(list)[p].at \in Instants /\ p \in Nat
<1>1. list = "messages" \/ list = "opens" \/ list = "clicks"
  BY TrackingAssumption
<1>2. /\ list = "messages" => Items(list) = outbound
      /\ list = "opens" => Items(list) = opens
      /\ list = "clicks" => Items(list) = clicks
  BY DEF Items
<1>3. Len(Items(list)) \in Nat /\ DOMAIN Items(list) = 1..Len(Items(list))
  BY <1>1, <1>2, LenProperties DEF TypeOK
<1>4. \A p \in DOMAIN Items(list) : Items(list)[p].at \in Instants
  <2>1. CASE list = "messages"
    <3>1. \A p \in DOMAIN outbound : outbound[p] \in Message
      BY LenProperties, ElementOfSeq DEF TypeOK
    <3> QED BY <1>2, <2>1, <3>1 DEF Message
  <2>2. CASE list = "opens"
    <3>1. \A p \in DOMAIN opens : opens[p] \in [msg: Nat, to: Recipients, at: Instants]
      BY LenProperties, ElementOfSeq DEF TypeOK
    <3> QED BY <1>2, <2>2, <3>1
  <2>3. CASE list = "clicks"
    <3>1. \A p \in DOMAIN clicks : clicks[p] \in [msg: Nat, to: Recipients, at: Instants, link: Links]
      BY LenProperties, ElementOfSeq DEF TypeOK
    <3> QED BY <1>2, <2>3, <3>1
  <2> QED BY <1>1, <2>1, <2>2, <2>3
<1>5. Listed(list) \in SUBSET (1..Len(Items(list)))
  BY <1>3 DEF Listed
<1>6. IsFiniteSet(1..Len(Items(list)))
  <2>1. 1 \in Int /\ Len(Items(list)) \in Int
    BY <1>3
  <2> QED BY <2>1, FS_Interval
<1>7. IsFiniteSet(Listed(list))
  BY <1>5, <1>6, FS_Subset
<1> QED BY <1>3, <1>4, <1>5, <1>7

\* A read page leaves a typed reader.
LEMMA ReadPageTyped ==
  ASSUME TypeOK, NEW list \in Lists, NEW count \in PageSizes, ReadPage(list, count)
  PROVE  TypeOK'
<1> DEFINE begun == IF reader.on THEN reader
                    ELSE [on |-> TRUE, list |-> list, offset |-> 0, seen |-> {}, first |-> Listed(list)]
           Reader == [on: {TRUE}, list: Lists, offset: Nat, seen: SUBSET Nat, first: SUBSET Nat]
<1>1. Listed(list) \subseteq Nat
  BY ListedTyped
<1>2. begun \in Reader
  <2>1. CASE reader.on
    <3>1. reader # Idle
      BY <2>1 DEF Idle
    <3> QED BY <2>1, <3>1 DEF TypeOK
  <2>2. CASE ~ reader.on
    <3>1. begun = [on |-> TRUE, list |-> list, offset |-> 0, seen |-> {}, first |-> Listed(list)]
      BY <2>2
    <3>2. Listed(list) \in SUBSET Nat /\ {} \in SUBSET Nat /\ 0 \in Nat
      BY <1>1
    <3>3. [on |-> TRUE, list |-> list, offset |-> 0, seen |-> {}, first |-> Listed(list)] \in Reader
      BY <3>2
    <3> QED BY <3>1, <3>3
  <2> QED BY <2>1, <2>2
<1>3. Page(list, begun.offset, count) \subseteq Nat
  BY <1>1 DEF Page
<1>4. count \in Nat
  BY TrackingAssumption
<1>5. reader' \in Reader \union {Idle}
  <2>1. [begun EXCEPT !.offset = begun.offset + count,
                      !.seen = @ \union Page(list, begun.offset, count)] \in Reader
    <3>1. begun.offset \in Nat /\ begun.seen \in SUBSET Nat
      <4> HIDE DEF begun
      <4> QED BY <1>2
    <3>2. begun.offset + count \in Nat
      BY <1>4, <3>1
    <3>3. begun.seen \union Page(list, begun.offset, count) \in SUBSET Nat
      BY <1>3, <3>1
    <3> HIDE DEF begun
    <3> QED BY <1>2, <3>2, <3>3
  <2> QED BY <2>1 DEF ReadPage
<1> QED BY <1>5 DEF ReadPage, TypeOK

\* Every step keeps the types.
LEMMA NextTyped ==
  ASSUME TypeOK, [Next]_vars
  PROVE  TypeOK'
<1>1. BounceTypes \subseteq Reported
  BY TrackingAssumption
<1>2. ASSUME NEW i \in DOMAIN outbound, Handled(i) PROVE TypeOK'
  BY <1>1, <1>2, SkippedTyped, DeliverTyped, OpenTyped, ClickTyped, BounceTyped DEF Handled
<1> QED BY <1>2, SendTyped, OthersTyped, ReadPageTyped DEF Next
-----------------------------------------------------------------------------
(***************************************************************************)
(* What a step records, and of whom.                                       *)
(***************************************************************************)
KeptOpen == [msg: Nat, to: Recipients, at: Instants]
KeptClick == [msg: Nat, to: Recipients, at: Instants, link: Links]

\* The records of a step: facts, opens, clicks, posts and the events of message i,
\* all of the recipient r of message i.
PostsOf(p, i, r) == p \in Seq(Posted) /\ \A n \in DOMAIN p : p[n].msg = i /\ p[n].to = r
EventsTo(e, r) == e \in Seq(Event) /\ \A n \in DOMAIN e : e[n].to = r
Records(i, r, f, o, c, p, e) ==
  /\ f \in Seq(Fact) /\ o \in Seq(KeptOpen) /\ c \in Seq(KeptClick)
  /\ \A n \in DOMAIN f : f[n].kind \in {"open", "click"} => f[n].msg = i /\ f[n].to = r
  /\ \A n \in DOMAIN o : o[n].msg = i /\ o[n].to = r
  /\ \A n \in DOMAIN c : c[n].msg = i /\ c[n].to = r
  /\ PostsOf(p, i, r) /\ EventsTo(e, r)

\* Each message keeps what it is, and its events but those of message i.
SameMessages(i, e) ==
  /\ DOMAIN outbound \subseteq DOMAIN outbound'
  /\ \A j \in DOMAIN outbound :
       /\ outbound'[j].events = outbound[j].events \o (IF j = i THEN e ELSE <<>>)
       /\ outbound'[j].at = outbound[j].at /\ outbound'[j].draft = outbound[j].draft

Grows(i, r, f, o, c, p, e) ==
  /\ Records(i, r, f, o, c, p, e)
  /\ facts' = facts \o f /\ opens' = opens \o o /\ clicks' = clicks \o c /\ posts' = posts \o p
  /\ SameMessages(i, e)

\* The stored messages, the facts, posts, opens and clicks are sequences.
LEMMA StoresTyped ==
  ASSUME TypeOK
  PROVE  /\ outbound \in Seq(Message) /\ facts \in Seq(Fact) /\ posts \in Seq(Posted)
         /\ opens \in Seq(KeptOpen) /\ clicks \in Seq(KeptClick)
         /\ \A j \in DOMAIN outbound : outbound[j] \in Message /\ outbound[j].events \in Seq(Event)
<1>1. outbound \in Seq(Message) /\ facts \in Seq(Fact)
  BY DEF TypeOK
<1>2. posts \in Seq(Posted) /\ opens \in Seq(KeptOpen) /\ clicks \in Seq(KeptClick)
  BY DEF TypeOK, Posted, KeptOpen, KeptClick
<1>3. \A j \in DOMAIN outbound : outbound[j] \in Message
  BY <1>1, LenProperties, ElementOfSeq
<1>4. \A j \in DOMAIN outbound : outbound[j].events \in Seq(Event)
  BY <1>3 DEF Message
<1> QED BY <1>1, <1>2, <1>3, <1>4

\* A step that leaves the messages alone, and one that adds an event.
LEMMA SameMessagesIs ==
  ASSUME TypeOK, NEW i \in DOMAIN outbound
  PROVE  /\ UNCHANGED outbound => SameMessages(i, <<>>)
         /\ \A type \in EventTypes, r \in Recipients, at \in Instants, detail \in Details :
              /\ EventIs(type, r, at, detail) \in Event
              /\ outbound' = WithEvent(outbound, i, type, r, at, detail)
                   => SameMessages(i, <<EventIs(type, r, at, detail)>>)
<1>1. ASSUME NEW j \in DOMAIN outbound
      PROVE  outbound[j].events \in Seq(Event) /\ outbound[j].events \o <<>> = outbound[j].events
  BY StoresTyped, ConcatEmptySeq
<1>2. UNCHANGED outbound => SameMessages(i, <<>>)
  BY <1>1 DEF SameMessages
<1>3. ASSUME NEW type \in EventTypes, NEW r \in Recipients, NEW at \in Instants, NEW detail \in Details,
             outbound' = WithEvent(outbound, i, type, r, at, detail)
      PROVE  SameMessages(i, <<EventIs(type, r, at, detail)>>)
  <2> DEFINE e == EventIs(type, r, at, detail)
  <2>1. /\ e \in Event /\ DOMAIN outbound' = DOMAIN outbound
        /\ \A j \in DOMAIN outbound : j # i => outbound'[j] = outbound[j]
        /\ outbound'[i].events = Append(outbound[i].events, e)
        /\ outbound'[i].draft = outbound[i].draft /\ outbound'[i].at = outbound[i].at
    BY <1>3, StoresTyped, WithEventIs
  <2> HIDE DEF e
  <2>2. Append(outbound[i].events, e) = outbound[i].events \o <<e>>
    BY <1>1, <2>1, Appended
  <2>3. ASSUME NEW j \in DOMAIN outbound
        PROVE  /\ outbound'[j].events = outbound[j].events \o (IF j = i THEN <<e>> ELSE <<>>)
               /\ outbound'[j].at = outbound[j].at /\ outbound'[j].draft = outbound[j].draft
    <3>1. CASE j = i
      BY <2>1, <2>2, <3>1
    <3>2. CASE j # i
      BY <1>1, <2>1, <3>2
    <3> QED BY <3>1, <3>2
  <2> QED BY <2>1, <2>3 DEF SameMessages, e
<1>4. \A type \in EventTypes, r \in Recipients, at \in Instants, detail \in Details :
        EventIs(type, r, at, detail) \in Event
  BY StoresTyped, WithEventIs
<1> QED BY <1>2, <1>3, <1>4

\* A post and an event concern the recipient they name.
LEMMA RecordsOf ==
  ASSUME NEW i \in Nat, NEW r \in Recipients
  PROVE  /\ \A record \in RecordTypes : PostsOf(Post(record, i, r), i, r)
         /\ PostsOf(<<>>, i, r) /\ EventsTo(<<>>, r)
         /\ \A type, at, detail : EventIs(type, r, at, detail) \in Event
              => EventsTo(<<EventIs(type, r, at, detail)>>, r)
<1>1. \A record \in RecordTypes : Post(record, i, r) \in Seq(Posted)
  BY DEF Post, Posted
<1>2. \A record : /\ DOMAIN Post(record, i, r) = {1}
                   /\ Post(record, i, r)[1].msg = i /\ Post(record, i, r)[1].to = r
  BY DEF Post
<1>3. \A record \in RecordTypes : PostsOf(Post(record, i, r), i, r)
  BY <1>1, <1>2 DEF PostsOf
<1>4. PostsOf(<<>>, i, r) /\ EventsTo(<<>>, r)
  BY DEF PostsOf, EventsTo
<1>5. ASSUME NEW type, NEW at, NEW detail, EventIs(type, r, at, detail) \in Event
      PROVE  EventsTo(<<EventIs(type, r, at, detail)>>, r)
  <2> DEFINE e == EventIs(type, r, at, detail)
  <2>1. e.to = r /\ e \in Event
    BY <1>5 DEF EventIs
  <2> HIDE DEF e
  <2>2. <<e>> \in Seq(Event) /\ \A n \in DOMAIN <<e>> : <<e>>[n].to = r
    BY <2>1
  <2> QED BY <2>2 DEF EventsTo, e
<1> QED BY <1>3, <1>4, <1>5

\* The stored open and the stored click of a recipient.
LEMMA StoredOf ==
  ASSUME NEW i \in Nat, NEW r \in Recipients, NEW at \in Instants
  PROVE  /\ <<[msg |-> i, to |-> r, at |-> at]>> \in Seq(KeptOpen)
         /\ \A link \in Links : <<[msg |-> i, to |-> r, at |-> at, link |-> link]>> \in Seq(KeptClick)
<1>1. [msg |-> i, to |-> r, at |-> at] \in KeptOpen
  BY DEF KeptOpen
<1>2. \A link \in Links : [msg |-> i, to |-> r, at |-> at, link |-> link] \in KeptClick
  BY DEF KeptClick
<1> QED BY <1>1, <1>2

\* Nothing appended is nothing changed.
LEMMA NoneAppended ==
  ASSUME TypeOK
  PROVE  /\ facts \o <<>> = facts /\ posts \o <<>> = posts
         /\ opens \o <<>> = opens /\ clicks \o <<>> = clicks
         /\ \A f \in Fact : Append(facts, f) = facts \o <<f>>
BY StoresTyped, ConcatEmptySeq, Appended

\* What an SMTP API error appends.
LEMMA SkippedGrows ==
  ASSUME TypeOK, NEW i \in DOMAIN outbound, NEW r \in ToSet(outbound[i].draft.to), SkippedBySmtp(i, r)
  PROVE  Grows(i, r, <<[kind |-> "bounce", at |-> now, type |-> "SMTPApiError"]>>, <<>>, <<>>,
               IF SmtpErrors THEN Post("Bounce", i, r) ELSE <<>>, <<>>)
<1> DEFINE f == [kind |-> "bounce", at |-> now, type |-> "SMTPApiError"]
           p == IF SmtpErrors THEN Post("Bounce", i, r) ELSE <<>>
<1>1. i \in Nat /\ r \in Recipients /\ now \in Instants
  BY HandledTyped DEF TypeOK
<1>2. f \in Fact /\ f.kind = "bounce"
  BY <1>1 DEF Fact
<1> HIDE DEF f
<1>3. PostsOf(p, i, r) /\ EventsTo(<<>>, r)
  <2>1. "Bounce" \in RecordTypes
    BY DEF RecordTypes
  <2> QED BY <1>1, <2>1, RecordsOf
<1> HIDE DEF p
<1>4. Records(i, r, <<f>>, <<>>, <<>>, p, <<>>)
  BY <1>2, <1>3 DEF Records
<1>5. facts' = facts \o <<f>> /\ posts' = posts \o p /\ UNCHANGED <<outbound, opens, clicks>>
  BY <1>2, Appended, StoresTyped DEF SkippedBySmtp, f, p
<1>6. opens' = opens \o <<>> /\ clicks' = clicks \o <<>>
  BY <1>5, NoneAppended
<1>7. SameMessages(i, <<>>)
  BY <1>5, SameMessagesIs
<1> QED BY <1>4, <1>5, <1>6, <1>7 DEF Grows, f, p

\* What a delivery appends.
LEMMA DeliverGrows ==
  ASSUME TypeOK, NEW i \in DOMAIN outbound, NEW r \in ToSet(outbound[i].draft.to),
         NEW at \in outbound[i].at..now, Deliver(i, r, at)
  PROVE  Grows(i, r, <<>>, <<>>, <<>>, Post("Delivery", i, r), <<EventIs("Delivered", r, at, "")>>)
<1> DEFINE e == EventIs("Delivered", r, at, "")
           p == Post("Delivery", i, r)
<1>1. i \in Nat /\ r \in Recipients /\ at \in Instants
  BY HandledTyped
<1>2. "Delivered" \in EventTypes /\ "" \in Details /\ "Delivery" \in RecordTypes
  BY DEF EventTypes, Details, RecordTypes
<1>3. e \in Event /\ e.to = r /\ SameMessages(i, <<e>>)
  BY <1>1, <1>2, SameMessagesIs DEF Deliver, EventIs
<1>4. PostsOf(p, i, r) /\ EventsTo(<<e>>, r)
  BY <1>1, <1>2, <1>3, RecordsOf
<1> HIDE DEF e, p
<1>5. Records(i, r, <<>>, <<>>, <<>>, p, <<e>>)
  BY <1>3, <1>4 DEF Records
<1>6. facts' = facts \o <<>> /\ opens' = opens \o <<>> /\ clicks' = clicks \o <<>>
  BY NoneAppended DEF Deliver
<1> QED BY <1>3, <1>5, <1>6 DEF Grows, Deliver, e, p

\* What an open appends.
LEMMA OpenGrows ==
  ASSUME TypeOK, NEW i \in DOMAIN outbound, NEW r \in ToSet(outbound[i].draft.to),
         NEW at \in outbound[i].at..now, Open(i, r, at)
  PROVE  LET first == FirstOpen(i, r)
         IN  /\ OpenFact(i, r, at, first) \in Fact
             /\ Grows(i, r, <<OpenFact(i, r, at, first)>>,
                      IF first THEN <<[msg |-> i, to |-> r, at |-> at]>> ELSE <<>>, <<>>,
                      OpenPost(i, r, first),
                      IF first THEN <<EventIs("Opened", r, at, "")>> ELSE <<>>)
<1> DEFINE first == FirstOpen(i, r)
           f == OpenFact(i, r, at, first)
           o == IF first THEN <<[msg |-> i, to |-> r, at |-> at]>> ELSE <<>>
           p == OpenPost(i, r, first)
           e == IF first THEN <<EventIs("Opened", r, at, "")>> ELSE <<>>
<1>1. i \in Nat /\ r \in Recipients /\ at \in Instants /\ first \in BOOLEAN
  BY HandledTyped DEF FirstOpen
<1>2. "Opened" \in EventTypes /\ "" \in Details /\ "Open" \in RecordTypes
  BY DEF EventTypes, Details, RecordTypes
<1>3. f \in Fact /\ f.msg = i /\ f.to = r
  BY <1>1, FactsTyped DEF OpenFact
<1>4. o \in Seq(KeptOpen) /\ \A n \in DOMAIN o : o[n].msg = i /\ o[n].to = r
  <2>1. CASE first
    BY <1>1, <2>1, StoredOf
  <2>2. CASE ~ first
    BY <2>2
  <2> QED BY <2>1, <2>2
<1>5. PostsOf(p, i, r)
  BY <1>1, <1>2, RecordsOf DEF OpenPost
<1>6. EventsTo(e, r) /\ SameMessages(i, e)
  <2>1. CASE first
    <3>1. EventIs("Opened", r, at, "") \in Event /\ e = <<EventIs("Opened", r, at, "")>>
      BY <1>1, <1>2, <2>1, SameMessagesIs
    <3>2. SameMessages(i, e)
      BY <1>1, <1>2, <2>1, SameMessagesIs DEF Open, OpenedEvent
    <3> HIDE DEF e
    <3> QED BY <1>1, <3>1, <3>2, RecordsOf
  <2>2. CASE ~ first
    <3>1. e = <<>> /\ UNCHANGED outbound
      BY <2>2 DEF Open, OpenedEvent
    <3> HIDE DEF e
    <3> QED BY <1>1, <3>1, SameMessagesIs, RecordsOf
  <2> QED BY <2>1, <2>2
<1>7. opens' = opens \o o /\ posts' = posts \o p /\ facts' = Append(facts, f) /\ UNCHANGED clicks
  BY DEF Open
<1> HIDE DEF f, o, p, e, first
<1>8. Records(i, r, <<f>>, o, <<>>, p, e)
  BY <1>3, <1>4, <1>5, <1>6 DEF Records
<1>9. facts' = facts \o <<f>> /\ clicks' = clicks \o <<>>
  BY <1>3, <1>7, NoneAppended
<1>10. Grows(i, r, <<f>>, o, <<>>, p, e)
  BY <1>6, <1>7, <1>8, <1>9 DEF Grows
<1> QED BY <1>3, <1>10 DEF f, o, p, e, first

\* What a click appends.
LEMMA ClickGrows ==
  ASSUME TypeOK, NEW i \in DOMAIN outbound, NEW r \in ToSet(outbound[i].draft.to),
         NEW at \in outbound[i].at..now, NEW location \in Locations, NEW link \in Links,
         Click(i, r, at, location, link)
  PROVE  LET first == FirstClick(i, r, link)
         IN  /\ ClickFact(i, r, at, location, link, first) \in Fact
             /\ Grows(i, r, <<ClickFact(i, r, at, location, link, first)>>, <<>>,
                      IF first THEN <<[msg |-> i, to |-> r, at |-> at, link |-> link]>> ELSE <<>>,
                      Post("Click", i, r),
                      IF first THEN <<EventIs("LinkClicked", r, at, link)>> ELSE <<>>)
<1> DEFINE first == FirstClick(i, r, link)
           f == ClickFact(i, r, at, location, link, first)
           c == IF first THEN <<[msg |-> i, to |-> r, at |-> at, link |-> link]>> ELSE <<>>
           p == Post("Click", i, r)
           e == IF first THEN <<EventIs("LinkClicked", r, at, link)>> ELSE <<>>
<1>1. i \in Nat /\ r \in Recipients /\ at \in Instants /\ first \in BOOLEAN
  BY HandledTyped DEF FirstClick
<1>2. "LinkClicked" \in EventTypes /\ link \in Details /\ "Click" \in RecordTypes
  BY DEF EventTypes, Details, RecordTypes
<1>3. f \in Fact /\ f.msg = i /\ f.to = r
  BY <1>1, FactsTyped DEF ClickFact
<1>4. c \in Seq(KeptClick) /\ \A n \in DOMAIN c : c[n].msg = i /\ c[n].to = r
  <2>1. CASE first
    <3>1. c = <<[msg |-> i, to |-> r, at |-> at, link |-> link]>>
      BY <2>1
    <3>2. c \in Seq(KeptClick)
      BY <1>1, <3>1, StoredOf
    <3>3. \A n \in DOMAIN c : n = 1
      BY <3>1
    <3>4. c[1].msg = i /\ c[1].to = r
      BY <3>1
    <3> QED BY <3>2, <3>3, <3>4
  <2>2. CASE ~ first
    BY <2>2
  <2> QED BY <2>1, <2>2
<1>5. PostsOf(p, i, r)
  BY <1>1, <1>2, RecordsOf
<1>6. EventsTo(e, r) /\ SameMessages(i, e)
  <2>1. CASE first
    <3>1. EventIs("LinkClicked", r, at, link) \in Event /\ e = <<EventIs("LinkClicked", r, at, link)>>
      BY <1>1, <1>2, <2>1, SameMessagesIs
    <3>2. SameMessages(i, e)
      BY <1>1, <1>2, <2>1, SameMessagesIs DEF Click, ClickedEvent
    <3> HIDE DEF e
    <3> QED BY <1>1, <3>1, <3>2, RecordsOf
  <2>2. CASE ~ first
    <3>1. e = <<>> /\ UNCHANGED outbound
      BY <2>2 DEF Click, ClickedEvent
    <3> HIDE DEF e
    <3> QED BY <1>1, <3>1, SameMessagesIs, RecordsOf
  <2> QED BY <2>1, <2>2
<1>7. clicks' = clicks \o c /\ posts' = posts \o p /\ facts' = Append(facts, f) /\ UNCHANGED opens
  BY DEF Click
<1> HIDE DEF f, c, p, e, first
<1>8. Records(i, r, <<f>>, <<>>, c, p, e)
  BY <1>3, <1>4, <1>5, <1>6 DEF Records
<1>9. facts' = facts \o <<f>> /\ opens' = opens \o <<>>
  BY <1>3, <1>7, NoneAppended
<1>10. Grows(i, r, <<f>>, <<>>, c, p, e)
  BY <1>6, <1>7, <1>8, <1>9 DEF Grows
<1> QED BY <1>3, <1>10 DEF f, c, p, e, first

\* The events of a bounce: that of the bounce and, when it deactivates, of the change.
BounceStory(r, type, at, changed) ==
  <<EventIs(Shown(type), r, at, type)>> \o
    (IF changed THEN <<EventIs("SubscriptionChanged", r, at, "")>> ELSE <<>>)
BouncePosts(i, r, type, changed) ==
  BouncePost(i, r, type) \o (IF changed THEN Post("SubscriptionChange", i, r) ELSE <<>>)

\* The events and the posts of a bounce, one by one.
LEMMA BounceStoryIs ==
  ASSUME NEW r \in Recipients, NEW type \in Reported, NEW at \in Instants, NEW changed \in BOOLEAN
  PROVE  /\ EventsTo(BounceStory(r, type, at, changed), r)
         /\ 1 \in DOMAIN BounceStory(r, type, at, changed)
         /\ BounceStory(r, type, at, changed)[1] = EventIs(Shown(type), r, at, type)
         /\ \A n \in DOMAIN BounceStory(r, type, at, changed) :
              n = 1 \/ BounceStory(r, type, at, changed)[n] = EventIs("SubscriptionChanged", r, at, "")
<1> DEFINE x == EventIs(Shown(type), r, at, type)
           y == EventIs("SubscriptionChanged", r, at, "")
           e == BounceStory(r, type, at, changed)
<1>1. x \in Event /\ y \in Event /\ x.to = r /\ y.to = r
  BY DEF EventIs, Event, Shown, EventTypes
<1>2. changed => e = <<x>> \o <<y>>
  BY DEF BounceStory
<1>3. ~ changed => e = <<x>> \o <<>>
  BY DEF BounceStory
<1> HIDE DEF x, y, e
<1>10. /\ <<x>> \in Seq(Event) /\ <<x>> \o <<y>> \in Seq(Event) /\ <<x>> \o <<>> = <<x>>
       /\ DOMAIN (<<x>> \o <<y>>) = {1, 2}
       /\ (<<x>> \o <<y>>)[1] = x /\ (<<x>> \o <<y>>)[2] = y
  BY <1>1, InARow
<1>4. e \in Seq(Event)
  BY <1>2, <1>3, <1>10
<1>5. /\ e[1] = x /\ 1 \in DOMAIN e
      /\ \A n \in DOMAIN e : n = 1 \/ e[n] = y
  <2>1. CASE changed
    <3>1. e = <<x>> \o <<y>>
      BY <1>2, <2>1
    <3>2. DOMAIN e = {1, 2} /\ e[1] = x /\ e[2] = y
      BY <1>10, <3>1
    <3> QED BY <2>1, <3>2
  <2>2. CASE ~ changed
    <3>1. e = <<x>>
      BY <1>10, <1>3, <2>2
    <3> QED BY <2>2, <3>1
  <2> QED BY <2>1, <2>2
<1>6. \A n \in DOMAIN e : e[n].to = r
  BY <1>1, <1>5
<1> QED BY <1>4, <1>5, <1>6 DEF EventsTo, x, y, e

\* What a bounce posts is of its message and recipient, and no delivery, open or click.
LEMMA BouncePostsIs ==
  ASSUME NEW i \in Nat, NEW r \in Recipients, NEW type \in Reported, NEW changed \in BOOLEAN
  PROVE  /\ PostsOf(BouncePosts(i, r, type, changed), i, r)
         /\ \A n \in DOMAIN BouncePosts(i, r, type, changed) :
              BouncePosts(i, r, type, changed)[n].record \in {"Bounce", "SpamComplaint", "SubscriptionChange"}
<1> DEFINE b == IF type = "SpamComplaint" THEN "SpamComplaint" ELSE "Bounce"
           x == [record |-> b, msg |-> i, to |-> r]
           y == [record |-> "SubscriptionChange", msg |-> i, to |-> r]
           p == BouncePosts(i, r, type, changed)
<1>1. /\ x \in Posted /\ y \in Posted /\ x.msg = i /\ x.to = r /\ y.msg = i /\ y.to = r
      /\ x.record \in {"Bounce", "SpamComplaint"} /\ y.record = "SubscriptionChange"
  BY DEF Posted, RecordTypes
<1>2. changed => p = <<x>> \o <<y>>
  BY DEF BouncePosts, BouncePost, Post
<1>3. ~ changed => p = <<x>> \o <<>>
  BY DEF BouncePosts, BouncePost, Post
<1> HIDE DEF x, y, p
<1>10. /\ <<x>> \in Seq(Posted) /\ <<x>> \o <<y>> \in Seq(Posted) /\ <<x>> \o <<>> = <<x>>
       /\ DOMAIN (<<x>> \o <<y>>) = {1, 2}
       /\ (<<x>> \o <<y>>)[1] = x /\ (<<x>> \o <<y>>)[2] = y
  BY <1>1, InARow
<1>4. p \in Seq(Posted)
  BY <1>2, <1>3, <1>10
<1>5. \A n \in DOMAIN p : p[n] \in {x, y}
  <2>1. CASE changed
    <3>1. p = <<x>> \o <<y>>
      BY <1>2, <2>1
    <3> QED BY <1>10, <3>1
  <2>2. CASE ~ changed
    <3>1. p = <<x>>
      BY <1>10, <1>3, <2>2
    <3> QED BY <3>1
  <2> QED BY <2>1, <2>2
<1> QED BY <1>1, <1>4, <1>5 DEF PostsOf, p

\* What a bounce appends.
LEMMA BounceGrows ==
  ASSUME TypeOK, NEW i \in DOMAIN outbound, NEW r \in ToSet(outbound[i].draft.to),
         NEW type \in Reported, NEW at \in outbound[i].at..now, Bounce(i, r, type, at)
  PROVE  LET changed == Deactivates(type) /\ r \notin DOMAIN rows
         IN  Grows(i, r, BounceFacts(type, at), <<>>, <<>>, BouncePosts(i, r, type, changed),
                   BounceStory(r, type, at, changed))
<1> DEFINE changed == Deactivates(type) /\ r \notin DOMAIN rows
           f == BounceFacts(type, at)
           p == BouncePosts(i, r, type, changed)
           e == BounceStory(r, type, at, changed)
           x == EventIs(Shown(type), r, at, type)
           y == EventIs("SubscriptionChanged", r, at, "")
           event == BouncedEvent(i, r, type, at)
<1>1. i \in Nat /\ r \in Recipients /\ at \in Instants /\ changed \in BOOLEAN
  BY HandledTyped DEF Deactivates
<1>2. f \in Seq(Fact) /\ \A n \in DOMAIN f : f[n].kind \notin {"open", "click"}
  <2>1. f \in Seq(Fact)
    BY <1>1, FactsTyped
  <2>2. f = <<[kind |-> "bounce", at |-> at, type |-> type]>>
        \/ f = <<[kind |-> "spamComplaint", at |-> at]>> \/ f = <<>>
    BY DEF BounceFacts
  <2> HIDE DEF f
  <2> QED BY <2>1, <2>2
<1>3. PostsOf(p, i, r)
  BY <1>1, BouncePostsIs
<1>4. EventsTo(e, r)
  BY <1>1, BounceStoryIs
<1>5. Records(i, r, f, <<>>, <<>>, p, e)
  <2> HIDE DEF f, p, e
  <2> QED BY <1>2, <1>3, <1>4 DEF Records
<1>6. posts' = posts \o p
  <2>1. "SubscriptionChange" \in RecordTypes
    BY DEF RecordTypes
  <2>2. posts \in Seq(Posted) /\ BouncePost(i, r, type) \in Seq(Posted) /\ Post("SubscriptionChange", i, r) \in Seq(Posted)
    BY <1>1, <2>1, FactsTyped, StoresTyped
  <2>3. posts \o BouncePost(i, r, type) \o Post("SubscriptionChange", i, r)
          = posts \o (BouncePost(i, r, type) \o Post("SubscriptionChange", i, r))
    BY <2>2, ConcatAssociative
  <2>4. BouncePost(i, r, type) \o <<>> = BouncePost(i, r, type)
    BY <2>2, ConcatEmptySeq
  <2> QED BY <2>3, <2>4 DEF Bounce, BouncePosts
<1>7. SameMessages(i, e)
  <2>1. /\ event = WithEvent(outbound, i, Shown(type), r, at, type)
        /\ Shown(type) \in EventTypes /\ type \in Details /\ "SubscriptionChanged" \in EventTypes /\ "" \in Details
        /\ event \in Seq(Message) /\ DOMAIN event = DOMAIN outbound
    <3>1. "SubscriptionChanged" \in EventTypes /\ "" \in Details
      BY DEF EventTypes, Details
    <3>2. /\ event = WithEvent(outbound, i, Shown(type), r, at, type)
          /\ Shown(type) \in EventTypes /\ type \in Details
          /\ event \in Seq(Message) /\ DOMAIN event = DOMAIN outbound
      BY BounceEvents, Zenon
    <3> QED BY <3>1, <3>2
  <2>2. outbound' = IF changed THEN WithEvent(event, i, "SubscriptionChanged", r, at, "") ELSE event
    BY DEF Bounce, ChangedEvent
  <2>3. x \in Event /\ y \in Event /\ outbound[i].events \in Seq(Event) /\ outbound \in Seq(Message)
    BY <1>1, <2>1, StoresTyped, SameMessagesIs
  <2>4. /\ \A j \in DOMAIN outbound : j # i => event[j] = outbound[j]
        /\ event[i].events = Append(outbound[i].events, x)
        /\ event[i].draft = outbound[i].draft /\ event[i].at = outbound[i].at
    <3>1. OneMore(WithEvent(outbound, i, Shown(type), r, at, type), outbound, i, x)
      BY <1>1, <2>1, <2>3, WithEventMore
    <3> HIDE DEF event, x
    <3>2. OneMore(event, outbound, i, x)
      BY <2>1, <3>1
    <3> QED BY <3>2 DEF OneMore
  <2>5. event[i].events \in Seq(Event) /\ event[i].events = outbound[i].events \o <<x>>
    <3> HIDE DEF x, event
    <3>1. /\ Append(outbound[i].events, x) \in Seq(Event)
          /\ outbound[i].events \o <<x>> = Append(outbound[i].events, x)
      <4> DEFINE s == outbound[i].events
      <4>1. s \in Seq(Event) /\ x \in Event
        BY <2>3
      <4> HIDE DEF s
      <4>2. Append(s, x) \in Seq(Event) /\ s \o <<x>> = Append(s, x)
        BY <4>1, Appended
      <4> QED BY <4>2 DEF s
    <3> QED BY <2>4, <3>1
  <2>6. CASE ~ changed
    <3>1. e = <<x>>
      <4>1. e = <<x>> \o <<>>
        BY <2>6 DEF BounceStory
      <4> HIDE DEF x, e
      <4> QED BY <4>1
    <3>2. \A j \in DOMAIN outbound : outbound[j].events \o <<>> = outbound[j].events
      BY StoresTyped, ConcatEmptySeq
    <3> HIDE DEF x, e, event
    <3> QED BY <2>1, <2>2, <2>4, <2>5, <2>6, <3>1, <3>2 DEF SameMessages
  <2>7. CASE changed
    <3>1. /\ DOMAIN outbound' = DOMAIN event
          /\ \A j \in DOMAIN event : j # i => outbound'[j] = event[j]
          /\ outbound'[i].events = Append(event[i].events, y)
          /\ outbound'[i].draft = event[i].draft /\ outbound'[i].at = event[i].at
      <4> HIDE DEF event, changed
      <4>1. outbound' = WithEvent(event, i, "SubscriptionChanged", r, at, "")
        BY <2>2, <2>7
      <4>2. i \in DOMAIN event
        BY <2>1
      <4>3. OneMore(WithEvent(event, i, "SubscriptionChanged", r, at, ""), event, i, y)
        BY <1>1, <2>1, <4>2, WithEventMore
      <4>4. OneMore(outbound', event, i, y)
        BY <4>1, <4>3
      <4> HIDE DEF y
      <4> QED BY <4>4 DEF OneMore
    <3>2. e = <<x>> \o <<y>>
      BY <2>7 DEF BounceStory
    <3>3. outbound'[i].events = outbound[i].events \o e
      <4> HIDE DEF x, y, e, event
      <4>1. Append(event[i].events, y) = event[i].events \o <<y>>
        <5>1. event[i].events \in Seq(Event) /\ y \in Event
          BY <2>3, <2>5
        <5> QED BY <5>1, AppendIsConcat
      <4>2. <<x>> \in Seq(Event) /\ <<y>> \in Seq(Event)
        BY <2>3
      <4>3. (outbound[i].events \o <<x>>) \o <<y>> = outbound[i].events \o (<<x>> \o <<y>>)
        BY <2>3, <4>2, ConcatAssociative
      <4> QED BY <2>5, <3>1, <3>2, <4>1, <4>3
    <3>4. \A j \in DOMAIN outbound : outbound[j].events \o <<>> = outbound[j].events
      BY StoresTyped, ConcatEmptySeq
    <3> HIDE DEF x, y, e, event
    <3> QED BY <2>1, <2>4, <3>1, <3>3, <3>4 DEF SameMessages
  <2> QED BY <2>6, <2>7
<1>8. facts' = facts \o f /\ opens' = opens \o <<>> /\ clicks' = clicks \o <<>>
  BY NoneAppended DEF Bounce
<1> HIDE DEF f, p, e
<1>9. Grows(i, r, f, <<>>, <<>>, p, e)
  BY <1>5, <1>6, <1>7, <1>8 DEF Grows
<1> QED BY <1>9 DEF f, p, e

\* What is sent is one more message, and the facts of it are of no open or click.
LEMMA SendGrows ==
  ASSUME TypeOK, NEW draft \in Drafts, Send(draft), NEW r
  PROVE  /\ Grows(0, r, [n \in DOMAIN draft.to |-> SentFact(draft)], <<>>, <<>>, <<>>, <<>>)
         /\ DOMAIN outbound' = DOMAIN outbound \union {Len(outbound) + 1}
         /\ Len(outbound) + 1 \notin DOMAIN outbound
         /\ outbound'[Len(outbound) + 1].events = <<>> /\ outbound'[Len(outbound) + 1].at = now
<1> DEFINE m == [draft |-> draft, at |-> now, events |-> <<>>,
                 skipped |-> ToSet(draft.to) \intersect DOMAIN rows]
           f == [n \in DOMAIN draft.to |-> SentFact(draft)]
<1>1. draft.to \in Seq(Recipients) /\ draft.trackOpens \in BOOLEAN
  BY TrackingAssumption DEF Draft
<1>2. SentFact(draft) \in Fact /\ SentFact(draft).kind = "sent"
  BY <1>1, TrackedTyped DEF SentFact, Fact, TypeOK
<1>3. f \in Seq(Fact) /\ \A n \in DOMAIN f : f[n].kind = "sent"
  BY <1>1, <1>2, LenProperties, SeqDef
<1>4. /\ DOMAIN outbound = 1..Len(outbound) /\ DOMAIN outbound' = 1..Len(outbound) + 1
      /\ Len(outbound) \in Nat
      /\ \A j \in DOMAIN outbound : outbound'[j] = outbound[j]
      /\ outbound'[Len(outbound) + 1] = m
  <2>1. m \in Message /\ outbound' = Append(outbound, m)
    <3>1. DOMAIN rows \subseteq Recipients
      BY DEF TypeOK
    <3>2. ToSet(draft.to) \intersect DOMAIN rows \in SUBSET Recipients
      BY <3>1
    <3>3. <<>> \in Seq(Event) /\ now \in Instants
      BY DEF TypeOK
    <3> QED BY <3>2, <3>3 DEF Message, Send
  <2>2. outbound \in Seq(Message)
    BY StoresTyped
  <2> HIDE DEF m
  <2> QED BY <2>1, <2>2, Appended
<1>5. m.events = <<>> /\ m.at = now
  OBVIOUS
<1> HIDE DEF m, f
<1>6. \A j \in DOMAIN outbound : outbound[j].events \o <<>> = outbound[j].events
  BY StoresTyped, ConcatEmptySeq
<1>7. SameMessages(0, <<>>)
  BY <1>4, <1>6 DEF SameMessages
<1>8. Records(0, r, f, <<>>, <<>>, <<>>, <<>>)
  BY <1>3 DEF Records, PostsOf, EventsTo
<1>9. facts' = facts \o f /\ posts' = posts \o <<>> /\ opens' = opens \o <<>> /\ clicks' = clicks \o <<>>
  BY NoneAppended DEF Send, f
<1>10. Grows(0, r, f, <<>>, <<>>, <<>>, <<>>)
  BY <1>7, <1>8, <1>9 DEF Grows
<1> QED BY <1>4, <1>5, <1>10 DEF f

\* Other steps record nothing.
LEMMA OthersGrow ==
  ASSUME TypeOK, UNCHANGED <<outbound, facts, posts, opens, clicks>>, NEW r
  PROVE  Grows(0, r, <<>>, <<>>, <<>>, <<>>, <<>>)
<1>1. \A j \in DOMAIN outbound : outbound[j].events \o <<>> = outbound[j].events
  BY StoresTyped, ConcatEmptySeq
<1>2. SameMessages(0, <<>>)
  BY <1>1 DEF SameMessages
<1>3. Records(0, r, <<>>, <<>>, <<>>, <<>>, <<>>)
  BY DEF Records, PostsOf, EventsTo
<1> QED BY <1>2, <1>3, NoneAppended DEF Grows

-----------------------------------------------------------------------------
(***************************************************************************)
(* The records of the opens and of the clicks of one recipient.            *)
(***************************************************************************)
OpenFactOf(i, r) == {f \in Fact : f.kind = "open" /\ f.msg = i /\ f.to = r}
KeptOpenOf(i, r) == {o \in KeptOpen : o.msg = i /\ o.to = r}
OpenedOf(r) == {e \in Event : e.type = "Opened" /\ e.to = r}
OpenPostOf(i, r) == {p \in Posted : p.record = "Open" /\ p.msg = i /\ p.to = r}
ClickFactOf(i, r, l) == {f \in Fact : f.kind = "click" /\ f.msg = i /\ f.to = r /\ f.link = l}
KeptClickOf(i, r, l) == {c \in KeptClick : c.msg = i /\ c.to = r /\ c.link = l}
ClickedOf(r, l) == {e \in Event : e.type = "LinkClicked" /\ e.to = r /\ e.detail = l}

\* The elements of a sequence are of its set.
LEMMA InSeq == \A S : \A s \in Seq(S) : \A n \in DOMAIN s : s[n] \in S
BY LenProperties, ElementOfSeq

\* The records of a recipient, as places in the stores.
LEMMA PlacesAre ==
  ASSUME TypeOK, NEW i \in DOMAIN outbound, NEW r
  PROVE  /\ OpenFacts(i, r) = Where(facts, OpenFactOf(i, r))
         /\ KeptOpens(i, r) = Where(opens, KeptOpenOf(i, r))
         /\ ShownOpens(i, r) = Where(outbound[i].events, OpenedOf(r))
         /\ OpenPosts(i, r) = Where(posts, OpenPostOf(i, r))
         /\ \A l : /\ ClickFacts(i, r, l) = Where(facts, ClickFactOf(i, r, l))
                   /\ KeptClicks(i, r, l) = Where(clicks, KeptClickOf(i, r, l))
                   /\ ShownClicks(i, r, l) = Where(outbound[i].events, ClickedOf(r, l))
<1>1. \A n \in DOMAIN facts : facts[n] \in Fact
  BY StoresTyped, InSeq
<1>2. OpenFacts(i, r) = Where(facts, OpenFactOf(i, r))
  BY <1>1 DEF OpenFacts, Where, OpenFactOf
<1>3. \A l : ClickFacts(i, r, l) = Where(facts, ClickFactOf(i, r, l))
  BY <1>1 DEF ClickFacts, Where, ClickFactOf
<1>4. \A n \in DOMAIN opens : opens[n] \in KeptOpen
  BY StoresTyped, InSeq
<1>5. KeptOpens(i, r) = Where(opens, KeptOpenOf(i, r))
  BY <1>4 DEF KeptOpens, Where, KeptOpenOf
<1>6. \A n \in DOMAIN clicks : clicks[n] \in KeptClick
  BY StoresTyped, InSeq
<1>7. \A l : KeptClicks(i, r, l) = Where(clicks, KeptClickOf(i, r, l))
  BY <1>6 DEF KeptClicks, Where, KeptClickOf
<1>8. \A n \in DOMAIN posts : posts[n] \in Posted
  BY StoresTyped, InSeq
<1>9. OpenPosts(i, r) = Where(posts, OpenPostOf(i, r))
  BY <1>8 DEF OpenPosts, Where, OpenPostOf
<1>10. \A n \in DOMAIN outbound[i].events : outbound[i].events[n] \in Event
  BY StoresTyped, InSeq
<1>11. ShownOpens(i, r) = Where(outbound[i].events, OpenedOf(r))
  BY <1>10 DEF ShownOpens, Where, OpenedOf
<1>12. \A l : ShownClicks(i, r, l) = Where(outbound[i].events, ClickedOf(r, l))
  BY <1>10 DEF ShownClicks, Where, ClickedOf
<1> QED BY <1>2, <1>3, <1>5, <1>7, <1>9, <1>11, <1>12

ClicksAt(i, r, l, f, c, events) ==
  /\ ClickFacts(i, r, l)' = Where(facts \o f, ClickFactOf(i, r, l))
  /\ KeptClicks(i, r, l)' = Where(clicks \o c, KeptClickOf(i, r, l))
  /\ ShownClicks(i, r, l)' = Where(events, ClickedOf(r, l))

\* And after a step.
LEMMA PlacesAreNext ==
  ASSUME TypeOK, NEW i \in DOMAIN outbound, NEW r, NEW k, NEW q, NEW f, NEW o, NEW c, NEW p, NEW e, Grows(k, q, f, o, c, p, e)
  PROVE  LET events == outbound[i].events \o (IF i = k THEN e ELSE <<>>)
         IN  /\ OpenFacts(i, r)' = Where(facts \o f, OpenFactOf(i, r))
             /\ KeptOpens(i, r)' = Where(opens \o o, KeptOpenOf(i, r))
             /\ ShownOpens(i, r)' = Where(events, OpenedOf(r))
             /\ OpenPosts(i, r)' = Where(posts \o p, OpenPostOf(i, r))
             /\ \A l : ClicksAt(i, r, l, f, c, events)
<1> DEFINE events == outbound[i].events \o (IF i = k THEN e ELSE <<>>)
<1>1. /\ facts' = facts \o f /\ opens' = opens \o o /\ clicks' = clicks \o c /\ posts' = posts \o p
      /\ outbound'[i].events = events
      /\ f \in Seq(Fact) /\ o \in Seq(KeptOpen) /\ c \in Seq(KeptClick) /\ p \in Seq(Posted) /\ e \in Seq(Event)
  BY DEF Grows, Records, PostsOf, EventsTo, SameMessages
<1>2. /\ facts \o f \in Seq(Fact) /\ opens \o o \in Seq(KeptOpen) /\ clicks \o c \in Seq(KeptClick)
      /\ posts \o p \in Seq(Posted)
  BY <1>1, StoresTyped, ConcatProperties
<1>3. events \in Seq(Event)
  <2>1. outbound[i].events \in Seq(Event) /\ <<>> \in Seq(Event)
    BY StoresTyped
  <2>2. (IF i = k THEN e ELSE <<>>) \in Seq(Event)
    BY <1>1, <2>1
  <2> QED BY <2>1, <2>2, ConcatProperties
<1> HIDE DEF events
<1>4. \A n \in DOMAIN facts' : facts'[n] \in Fact
  BY <1>1, <1>2, InSeq
<1>5. OpenFacts(i, r)' = Where(facts \o f, OpenFactOf(i, r))
  BY <1>1, <1>4 DEF OpenFacts, Where, OpenFactOf
<1>6. \A l : ClickFacts(i, r, l)' = Where(facts \o f, ClickFactOf(i, r, l))
  BY <1>1, <1>4 DEF ClickFacts, Where, ClickFactOf
<1>7. \A n \in DOMAIN opens' : opens'[n] \in KeptOpen
  BY <1>1, <1>2, InSeq
<1>8. KeptOpens(i, r)' = Where(opens \o o, KeptOpenOf(i, r))
  BY <1>1, <1>7 DEF KeptOpens, Where, KeptOpenOf
<1>9. \A n \in DOMAIN clicks' : clicks'[n] \in KeptClick
  BY <1>1, <1>2, InSeq
<1>10. \A l : KeptClicks(i, r, l)' = Where(clicks \o c, KeptClickOf(i, r, l))
  BY <1>1, <1>9 DEF KeptClicks, Where, KeptClickOf
<1>11. \A n \in DOMAIN posts' : posts'[n] \in Posted
  BY <1>1, <1>2, InSeq
<1>12. OpenPosts(i, r)' = Where(posts \o p, OpenPostOf(i, r))
  BY <1>1, <1>11 DEF OpenPosts, Where, OpenPostOf
<1>13. \A n \in DOMAIN events : events[n] \in Event
  BY <1>3, InSeq
<1>14. ShownOpens(i, r)' = Where(events, OpenedOf(r))
  BY <1>1, <1>13 DEF ShownOpens, Where, OpenedOf
<1>15. \A l : ShownClicks(i, r, l)' = Where(events, ClickedOf(r, l))
  BY <1>1, <1>13 DEF ShownClicks, Where, ClickedOf
<1> QED BY <1>5, <1>6, <1>8, <1>10, <1>12, <1>14, <1>15 DEF events, ClicksAt

NoOpens(f, o, p, e) ==
  /\ \A n \in DOMAIN f : f[n].kind # "open"
  /\ \A n \in DOMAIN p : p[n].record # "Open"
  /\ \A n \in DOMAIN e : e[n].type # "Opened"
  /\ o = <<>>
NoClicks(f, c, e) ==
  /\ \A n \in DOMAIN f : f[n].kind # "click"
  /\ \A n \in DOMAIN e : e[n].type # "LinkClicked"
  /\ c = <<>>

\* What a step records of others, or of something else than an open, changes
\* nothing of the opens of a recipient.
LEMMA OpensKept ==
  ASSUME TypeOK, NEW i, NEW r, NEW f, NEW o, NEW c, NEW p, NEW e, Grows(i, r, f, o, c, p, e),
         NEW j \in DOMAIN outbound, NEW q \in Recipients, OpensAgree(j, q),
         j = i /\ q = r => NoOpens(f, o, p, e)
  PROVE  OpensAgree(j, q)'
<1> DEFINE ev == IF j = i THEN e ELSE <<>>
<1>1. /\ facts' = facts \o f /\ opens' = opens \o o /\ outbound'[j].events = outbound[j].events \o ev
      /\ Records(i, r, f, o, c, p, e)
  BY DEF Grows, SameMessages
<1>2. f \in Seq(Fact) /\ o \in Seq(KeptOpen) /\ p \in Seq(Posted) /\ e \in Seq(Event)
  BY <1>1 DEF Records, PostsOf, EventsTo
<1>3. ev \in Seq(Event)
  <2>1. <<>> \in Seq(Event)
    OBVIOUS
  <2> QED BY <1>2, <2>1
<1>4. \A n \in DOMAIN f : f[n] \notin OpenFactOf(j, q)
  BY <1>1 DEF OpenFactOf, Records, NoOpens
<1>5. \A n \in DOMAIN o : o[n] \notin KeptOpenOf(j, q)
  <2>1. CASE j = i /\ q = r
    BY <2>1 DEF NoOpens
  <2>2. CASE ~ (j = i /\ q = r)
    BY <1>1, <2>2 DEF KeptOpenOf, Records
  <2> QED BY <2>1, <2>2
<1>6. \A n \in DOMAIN p : p[n] \notin OpenPostOf(j, q)
  BY <1>1 DEF OpenPostOf, Records, PostsOf, NoOpens
<1>7. \A n \in DOMAIN ev : ev[n] \notin OpenedOf(q)
  <2>1. CASE j = i
    BY <1>1, <2>1 DEF OpenedOf, Records, EventsTo, NoOpens
  <2>2. CASE j # i
    BY <2>2
  <2> QED BY <2>1, <2>2
<1>8. outbound[j].events \in Seq(Event)
  BY StoresTyped
<1>10. /\ OpenFacts(j, q)' = Where(facts \o f, OpenFactOf(j, q))
       /\ KeptOpens(j, q)' = Where(opens \o o, KeptOpenOf(j, q))
       /\ ShownOpens(j, q)' = Where(outbound[j].events \o ev, OpenedOf(q))
       /\ OpenPosts(j, q)' = Where(posts \o p, OpenPostOf(j, q))
  BY PlacesAreNext
<1> HIDE DEF ev
<1>11. /\ OpenFacts(j, q)' = OpenFacts(j, q) /\ KeptOpens(j, q)' = KeptOpens(j, q)
       /\ ShownOpens(j, q)' = ShownOpens(j, q) /\ OpenPosts(j, q)' = OpenPosts(j, q)
  <2>1. Where(facts \o f, OpenFactOf(j, q)) = Where(facts, OpenFactOf(j, q))
    BY <1>2, <1>4, StoresTyped, WhereKept
  <2>2. Where(opens \o o, KeptOpenOf(j, q)) = Where(opens, KeptOpenOf(j, q))
    BY <1>2, <1>5, StoresTyped, WhereKept
  <2>3. Where(outbound[j].events \o ev, OpenedOf(q)) = Where(outbound[j].events, OpenedOf(q))
    BY <1>3, <1>7, <1>8, WhereKept
  <2>4. Where(posts \o p, OpenPostOf(j, q)) = Where(posts, OpenPostOf(j, q))
    BY <1>2, <1>6, StoresTyped, WhereKept
  <2> QED BY <1>10, <2>1, <2>2, <2>3, <2>4, PlacesAre
<1>12. /\ \A n \in OpenFacts(j, q) : facts'[n] = facts[n]
       /\ \A n \in KeptOpens(j, q) : opens'[n] = opens[n]
       /\ \A n \in ShownOpens(j, q) : outbound'[j].events[n] = outbound[j].events[n]
  <2>1. /\ \A n \in DOMAIN facts : (facts \o f)[n] = facts[n]
        /\ \A n \in DOMAIN opens : (opens \o o)[n] = opens[n]
    <3>1. facts \in Seq(Fact) /\ opens \in Seq(KeptOpen)
      BY StoresTyped
    <3>2. \A n \in DOMAIN facts : (facts \o f)[n] = facts[n]
      BY <1>2, <3>1, Longer
    <3>3. \A n \in DOMAIN opens : (opens \o o)[n] = opens[n]
      BY <1>2, <3>1, Longer
    <3> QED BY <3>2, <3>3
  <2>2. \A n \in DOMAIN outbound[j].events : (outbound[j].events \o ev)[n] = outbound[j].events[n]
    BY <1>3, <1>8, Longer
  <2> QED BY <1>1, <2>1, <2>2 DEF OpenFacts, KeptOpens, ShownOpens
<1> QED BY <1>11, <1>12 DEF OpensAgree

\* A step that records no click of the recipient, or none of the link, keeps the agreement.
LEMMA ClicksKept ==
  ASSUME TypeOK, NEW i, NEW r, NEW f, NEW o, NEW c, NEW p, NEW e, Grows(i, r, f, o, c, p, e),
         NEW j \in DOMAIN outbound, NEW q, NEW l, ClicksAgree(j, q, l),
         \/ j = i /\ q = r => NoClicks(f, c, e)
         \/ /\ \A n \in DOMAIN f : f[n].kind = "click" => f[n].link # l
            /\ \A n \in DOMAIN e : e[n].type = "LinkClicked" => e[n].detail # l
            /\ \A n \in DOMAIN c : c[n].link # l
  PROVE  ClicksAgree(j, q, l)'
<1> DEFINE ev == IF j = i THEN e ELSE <<>>
<1>1. /\ facts' = facts \o f /\ clicks' = clicks \o c /\ outbound'[j].events = outbound[j].events \o ev
      /\ Records(i, r, f, o, c, p, e)
  BY DEF Grows, SameMessages
<1>2. f \in Seq(Fact) /\ c \in Seq(KeptClick) /\ e \in Seq(Event)
  BY <1>1 DEF Records, EventsTo
<1>3. ev \in Seq(Event)
  <2>1. <<>> \in Seq(Event)
    OBVIOUS
  <2> QED BY <1>2, <2>1
<1>4. \A n \in DOMAIN f : f[n] \notin ClickFactOf(j, q, l)
  BY <1>1 DEF ClickFactOf, Records, NoClicks
<1>5. \A n \in DOMAIN c : c[n] \notin KeptClickOf(j, q, l)
  <2>1. CASE c = <<>>
    BY <2>1
  <2>2. CASE c # <<>>
    BY <1>1, <2>2 DEF KeptClickOf, Records, NoClicks
  <2> QED BY <2>1, <2>2
<1>6. \A n \in DOMAIN ev : ev[n] \notin ClickedOf(q, l)
  <2>1. CASE j = i
    BY <1>1, <2>1 DEF ClickedOf, Records, EventsTo, NoClicks
  <2>2. CASE j # i
    BY <2>2
  <2> QED BY <2>1, <2>2
<1>7. outbound[j].events \in Seq(Event)
  BY StoresTyped
<1>8. /\ ClickFacts(j, q, l)' = Where(facts \o f, ClickFactOf(j, q, l))
      /\ KeptClicks(j, q, l)' = Where(clicks \o c, KeptClickOf(j, q, l))
      /\ ShownClicks(j, q, l)' = Where(outbound[j].events \o ev, ClickedOf(q, l))
  <2>1. ClicksAt(j, q, l, f, c, outbound[j].events \o ev)
    BY PlacesAreNext
  <2> QED BY <2>1 DEF ClicksAt
<1> HIDE DEF ev
<1>9. /\ ClickFacts(j, q, l)' = ClickFacts(j, q, l) /\ KeptClicks(j, q, l)' = KeptClicks(j, q, l)
      /\ ShownClicks(j, q, l)' = ShownClicks(j, q, l)
  <2>1. Where(facts \o f, ClickFactOf(j, q, l)) = Where(facts, ClickFactOf(j, q, l))
    BY <1>2, <1>4, StoresTyped, WhereKept
  <2>2. Where(clicks \o c, KeptClickOf(j, q, l)) = Where(clicks, KeptClickOf(j, q, l))
    BY <1>2, <1>5, StoresTyped, WhereKept
  <2>3. Where(outbound[j].events \o ev, ClickedOf(q, l)) = Where(outbound[j].events, ClickedOf(q, l))
    BY <1>3, <1>6, <1>7, WhereKept
  <2> QED BY <1>8, <2>1, <2>2, <2>3, PlacesAre
<1>10. \A n \in ClickFacts(j, q, l) : facts'[n] = facts[n]
  <2>1. \A n \in DOMAIN facts : (facts \o f)[n] = facts[n]
    BY <1>2, StoresTyped, Longer
  <2> QED BY <1>1, <2>1 DEF ClickFacts
<1> QED BY <1>9, <1>10 DEF ClicksAgree

\* One more number, greater than all others: the least of them is still the least.
LEMMA LeastStays ==
  ASSUME NEW all \in SUBSET Nat, NEW last \in Nat, \A n \in all : n < last,
         NEW g, NEW h, \A n \in all : h[n] = g[n],
         \A n \in all : g[n].first <=> \A m \in all : n <= m,
         h[last].first <=> all = {}
  PROVE  \A n \in all \union {last} : h[n].first <=> \A m \in all \union {last} : n <= m
<1>1. ASSUME NEW n \in all
      PROVE  h[n].first <=> \A m \in all \union {last} : n <= m
  <2>1. n \in Nat /\ n < last
    OBVIOUS
  <2>2. (\A m \in all : n <= m) <=> (\A m \in all \union {last} : n <= m)
    BY <2>1
  <2> QED BY <2>2, Zenon
<1>2. h[last].first <=> \A m \in all \union {last} : last <= m
  <2>1. all = {} <=> \A m \in all \union {last} : last <= m
    OBVIOUS
  <2> QED BY <2>1, Zenon
<1> QED BY <1>1, <1>2, Zenon

\* The opens of a recipient agree after one more of them.
LEMMA OpensMade ==
  ASSUME TypeOK, NEW i \in DOMAIN outbound, NEW r \in ToSet(outbound[i].draft.to),
         NEW at \in outbound[i].at..now, Open(i, r, at), OpensAgree(i, r)
  PROVE  OpensAgree(i, r)'
<1> DEFINE first == FirstOpen(i, r)
           f == OpenFact(i, r, at, first)
           x == [msg |-> i, to |-> r, at |-> at]
           o == IF first THEN <<x>> ELSE <<>>
           p == OpenPost(i, r, first)
           y == [record |-> "Open", msg |-> i, to |-> r]
           z == EventIs("Opened", r, at, "")
           e == IF first THEN <<z>> ELSE <<>>
           all == OpenFacts(i, r)
           kept == KeptOpens(i, r)
           shown == ShownOpens(i, r)
           told == OpenPosts(i, r)
           s == outbound[i].events
           last == Len(facts) + 1
<1>1. i \in Nat /\ r \in Recipients /\ at \in Instants /\ first \in BOOLEAN
  BY HandledTyped DEF FirstOpen
<1>2. f \in Fact /\ Grows(i, r, <<f>>, o, <<>>, p, e)
  BY OpenGrows
<1>3. x \in KeptOpen /\ y \in Posted /\ z \in Event
  BY <1>1 DEF KeptOpen, Posted, RecordTypes, EventIs, Event, EventTypes
<1>4. f \in OpenFactOf(i, r) /\ x \in KeptOpenOf(i, r) /\ y \in OpenPostOf(i, r) /\ z \in OpenedOf(r)
  BY <1>1, <1>2, <1>3 DEF OpenFactOf, OpenFact, KeptOpenOf, OpenPostOf, OpenedOf, EventIs
<1>5. f.first = first /\ f.at = at /\ x.at = at /\ z.at = at
  BY DEF OpenFact, EventIs
<1>6. first <=> kept = {}
  BY Elements DEF FirstOpen, KeptOpens
<1>7. p = IF FirstOpensOnly /\ ~ first THEN <<>> ELSE <<y>>
  BY DEF OpenPost, Post
<1>8. s \in Seq(Event)
  BY StoresTyped
<1>9. /\ all = Where(facts, OpenFactOf(i, r)) /\ kept = Where(opens, KeptOpenOf(i, r))
      /\ shown = Where(s, OpenedOf(r)) /\ told = Where(posts, OpenPostOf(i, r))
  BY PlacesAre
<1>10. /\ all' = Where(facts \o <<f>>, OpenFactOf(i, r)) /\ kept' = Where(opens \o o, KeptOpenOf(i, r))
       /\ shown' = Where(s \o e, OpenedOf(r)) /\ told' = Where(posts \o p, OpenPostOf(i, r))
  <2> HIDE DEF f, o, p, e
  <2> QED BY <1>2, PlacesAreNext
<1>11. /\ facts' = facts \o <<f>> /\ opens' = opens \o o /\ outbound'[i].events = s \o e
  BY <1>2 DEF Grows, SameMessages
<1>12. /\ \A n \in all : facts[n].first <=> \A m \in all : n <= m
       /\ Cardinality(kept) = (IF all = {} THEN 0 ELSE 1)
       /\ Cardinality(shown) = Cardinality(kept)
       /\ Cardinality(told) = Cardinality(IF FirstOpensOnly THEN kept ELSE all)
       /\ \A n \in all, m \in kept, k \in shown :
            facts[n].first => opens[m].at = facts[n].at /\ s[k].at = facts[n].at
  BY DEF OpensAgree
<1> HIDE DEF f, x, o, p, y, z, e, all, kept, shown, told, s, first
<1>13. /\ all' = all \union {last} /\ last \in Nat /\ all \in SUBSET Nat /\ \A n \in all : n < last
       /\ Cardinality(all') = Cardinality(all) + 1 /\ facts'[last] = f
       /\ \A n \in all : facts'[n] = facts[n]
  <2>1. /\ all' = all \union {last} /\ last \in Nat /\ \A n \in all : n \in Nat /\ n < last
        /\ Cardinality(all') = Cardinality(all) + 1 /\ facts'[last] = f
    BY <1>2, <1>4, <1>9, <1>10, <1>11, StoresTyped, WhereMore
  <2>2. \A n \in DOMAIN facts : (facts \o <<f>>)[n] = facts[n]
    BY <1>2, StoresTyped, Appended
  <2>3. \A n \in all : n \in DOMAIN facts
    BY <1>9 DEF Where
  <2> QED BY <1>11, <2>1, <2>2, <2>3
<1>14. \A n \in all' : facts'[n].first <=> \A m \in all' : n <= m
  <2>1. facts'[last].first <=> all = {}
    <3>1. IsFiniteSet(kept)
      BY <1>9, StoresTyped, WhereKept
    <3>2. kept = {} <=> Cardinality(kept) = 0
      BY <3>1, FS_EmptySet
    <3>3. kept = {} <=> all = {}
      BY <1>12, <3>2
    <3>4. facts'[last].first = first
      BY <1>5, <1>13
    <3> QED BY <1>6, <3>3, <3>4, Zenon
  <2>2. \A n \in all \union {last} : facts'[n].first <=> \A m \in all \union {last} : n <= m
    <3> DEFINE h == facts'
    <3>1. \A n \in all : h[n] = facts[n]
      BY <1>13
    <3>2. \A n \in all : facts[n].first <=> \A m \in all : n <= m
      BY <1>12
    <3>3. h[last].first <=> all = {}
      BY <2>1
    <3>4. last \in Nat /\ all \in SUBSET Nat /\ \A n \in all : n < last
      BY <1>13
    <3> HIDE DEF h, last
    <3>5. \A n \in all \union {last} : h[n].first <=> \A m \in all \union {last} : n <= m
      BY <3>1, <3>2, <3>3, <3>4, LeastStays
    <3> QED BY <3>5 DEF h
  <2> QED BY <1>13, <2>2
<1>15. CASE first
  <2>1. kept = {} /\ o = <<x>> /\ e = <<z>> /\ p = <<y>>
    BY <1>6, <1>7, <1>15 DEF o, e
  <2>2. Cardinality(kept) = 0 /\ all = {} /\ Cardinality(shown) = 0 /\ Cardinality(all) = 0
    BY <1>12, <2>1, FS_EmptySet
  <2>3. shown = {}
    BY <1>8, <1>9, <2>2, WhereKept, FS_EmptySet
  <2>4. kept' = kept \union {Len(opens) + 1} /\ Cardinality(kept') = Cardinality(kept) + 1
        /\ opens'[Len(opens) + 1] = x
    <3>1. /\ Where(opens \o <<x>>, KeptOpenOf(i, r)) = Where(opens, KeptOpenOf(i, r)) \union {Len(opens) + 1}
          /\ Cardinality(Where(opens \o <<x>>, KeptOpenOf(i, r))) = Cardinality(Where(opens, KeptOpenOf(i, r))) + 1
          /\ (opens \o <<x>>)[Len(opens) + 1] = x
      BY <1>3, <1>4, StoresTyped, WhereMore
    <3> QED BY <1>9, <1>10, <1>11, <2>1, <3>1
  <2>5. shown' = shown \union {Len(s) + 1} /\ Cardinality(shown') = Cardinality(shown) + 1
        /\ outbound'[i].events[Len(s) + 1] = z
    BY <1>3, <1>4, <1>8, <1>9, <1>10, <1>11, <2>1, WhereMore
  <2>6. Cardinality(told') = Cardinality(told) + 1
    BY <1>3, <1>4, <1>9, <1>10, <2>1, StoresTyped, WhereMore
  <2>7. Cardinality(told) = 0
    BY <1>12, <2>2
  <2>8. all' = {last} /\ Cardinality(all') = 1 /\ Cardinality(kept') = 1 /\ Cardinality(shown') = 1
        /\ Cardinality(told') = 1
    BY <1>13, <2>2, <2>4, <2>5, <2>6, <2>7
  <2>9. \A n \in all', m \in kept', k \in shown' :
          opens'[m].at = facts'[n].at /\ outbound'[i].events[k].at = facts'[n].at
    BY <1>5, <1>13, <2>1, <2>3, <2>4, <2>5, <2>8
  <2> QED BY <1>14, <2>8, <2>9 DEF OpensAgree, all, kept, shown, told
<1>16. CASE ~ first
  <2>1. kept # {} /\ o = <<>> /\ e = <<>>
    BY <1>6, <1>16 DEF o, e
  <2>2. opens \o o = opens /\ s \o e = s
    BY <1>8, <2>1, StoresTyped, ConcatEmptySeq
  <2>3. kept' = kept /\ shown' = shown /\ opens' = opens /\ outbound'[i].events = s
    BY <1>9, <1>10, <1>11, <2>2
  <2>4. all # {}
    <3>1. IsFiniteSet(kept)
      BY <1>9, StoresTyped, WhereKept
    <3> QED BY <1>12, <2>1, <3>1, FS_EmptySet
  <2>5. Cardinality(told') = Cardinality(IF FirstOpensOnly THEN kept' ELSE all')
    <3>1. CASE FirstOpensOnly
      <4>1. p = <<>>
        BY <1>7, <1>16, <3>1
      <4>2. posts \o p = posts
        BY <4>1, StoresTyped, ConcatEmptySeq
      <4> QED BY <1>9, <1>10, <1>12, <2>3, <3>1, <4>2
    <3>2. CASE ~ FirstOpensOnly
      <4>1. p = <<y>>
        BY <1>7, <3>2
      <4>2. Cardinality(told') = Cardinality(told) + 1
        BY <1>3, <1>4, <1>9, <1>10, <4>1, StoresTyped, WhereMore
      <4> QED BY <1>12, <1>13, <3>2, <4>2
    <3> QED BY <3>1, <3>2
  <2>6. \A n \in all', m \in kept', k \in shown' :
          facts'[n].first => opens'[m].at = facts'[n].at /\ outbound'[i].events[k].at = facts'[n].at
    <3> SUFFICES ASSUME NEW n \in all', NEW m \in kept', NEW k \in shown', facts'[n].first
                 PROVE  opens'[m].at = facts'[n].at /\ outbound'[i].events[k].at = facts'[n].at
      OBVIOUS
    <3>1. n # last
      <4>1. facts'[last].first = first
        BY <1>5, <1>13
      <4> QED BY <1>16, <4>1
    <3> QED BY <1>12, <1>13, <2>3, <3>1
  <2>7. Cardinality(kept') = (IF all' = {} THEN 0 ELSE 1) /\ Cardinality(shown') = Cardinality(kept')
    BY <1>12, <1>13, <2>3, <2>4
  <2> QED BY <1>14, <2>5, <2>6, <2>7 DEF OpensAgree, all, kept, shown, told
<1> QED BY <1>15, <1>16

\* The clicks of a link by a recipient agree after one more of them.
LEMMA ClicksMade ==
  ASSUME TypeOK, NEW i \in DOMAIN outbound, NEW r \in ToSet(outbound[i].draft.to),
         NEW at \in outbound[i].at..now, NEW location \in Locations, NEW link \in Links,
         Click(i, r, at, location, link), ClicksAgree(i, r, link)
  PROVE  ClicksAgree(i, r, link)'
<1> DEFINE first == FirstClick(i, r, link)
           f == ClickFact(i, r, at, location, link, first)
           x == [msg |-> i, to |-> r, at |-> at, link |-> link]
           c == IF first THEN <<x>> ELSE <<>>
           z == EventIs("LinkClicked", r, at, link)
           e == IF first THEN <<z>> ELSE <<>>
           all == ClickFacts(i, r, link)
           kept == KeptClicks(i, r, link)
           shown == ShownClicks(i, r, link)
           s == outbound[i].events
           last == Len(facts) + 1
<1>1. i \in Nat /\ r \in Recipients /\ at \in Instants
  BY HandledTyped
<1>2. f \in Fact /\ Grows(i, r, <<f>>, <<>>, c, Post("Click", i, r), e)
  BY ClickGrows
<1>3. x \in KeptClick /\ z \in Event
  BY <1>1 DEF KeptClick, EventIs, Event, EventTypes
<1>4. f \in ClickFactOf(i, r, link) /\ x \in KeptClickOf(i, r, link) /\ z \in ClickedOf(r, link)
  BY <1>1, <1>2, <1>3 DEF ClickFactOf, ClickFact, KeptClickOf, ClickedOf, EventIs
<1>5. f.first = first
  BY DEF ClickFact
<1>6. first <=> kept = {}
  BY Elements DEF FirstClick, KeptClicks
<1>7. s \in Seq(Event)
  BY StoresTyped
<1>8. /\ all = Where(facts, ClickFactOf(i, r, link)) /\ kept = Where(clicks, KeptClickOf(i, r, link))
      /\ shown = Where(s, ClickedOf(r, link))
  BY PlacesAre
<1>9. /\ all' = Where(facts \o <<f>>, ClickFactOf(i, r, link))
      /\ kept' = Where(clicks \o c, KeptClickOf(i, r, link)) /\ shown' = Where(s \o e, ClickedOf(r, link))
  <2> HIDE DEF f, c, e
  <2>1. ClicksAt(i, r, link, <<f>>, c, s \o e)
    BY <1>2, PlacesAreNext
  <2> QED BY <2>1 DEF ClicksAt
<1>10. facts' = facts \o <<f>>
  BY <1>2 DEF Grows
<1>11. /\ \A n \in all : facts[n].first <=> \A m \in all : n <= m
       /\ Cardinality(kept) = (IF all = {} THEN 0 ELSE 1)
       /\ Cardinality(shown) = Cardinality(kept)
  BY DEF ClicksAgree
<1> HIDE DEF f, x, c, z, e, all, kept, shown, s, first
<1>12. IsFiniteSet(kept) /\ (kept = {} <=> all = {})
  <2>1. IsFiniteSet(kept)
    BY <1>8, StoresTyped, WhereKept
  <2>2. kept = {} <=> Cardinality(kept) = 0
    BY <2>1, FS_EmptySet
  <2> QED BY <1>11, <2>1, <2>2
<1>13. /\ all' = all \union {last} /\ last \in Nat /\ all \in SUBSET Nat /\ \A n \in all : n < last
       /\ facts'[last] = f /\ \A n \in all : facts'[n] = facts[n]
  <2>1. /\ all' = all \union {last} /\ last \in Nat /\ \A n \in all : n \in Nat /\ n < last
        /\ facts'[last] = f
    BY <1>2, <1>4, <1>8, <1>9, <1>10, StoresTyped, WhereMore
  <2>2. \A n \in DOMAIN facts : (facts \o <<f>>)[n] = facts[n]
    BY <1>2, StoresTyped, Appended
  <2>3. \A n \in all : n \in DOMAIN facts
    BY <1>8 DEF Where
  <2> QED BY <1>10, <2>1, <2>2, <2>3
<1>14. \A n \in all' : facts'[n].first <=> \A m \in all' : n <= m
  <2> DEFINE h == facts'
  <2>1. \A n \in all : h[n] = facts[n]
    BY <1>13
  <2>2. h[last].first <=> all = {}
    <3>1. facts'[last].first = first
      BY <1>5, <1>13
    <3> QED BY <1>6, <1>12, <3>1, Zenon
  <2>3. last \in Nat /\ all \in SUBSET Nat /\ \A n \in all : n < last
    BY <1>13
  <2>4. \A n \in all : facts[n].first <=> \A m \in all : n <= m
    BY <1>11
  <2> HIDE DEF h, last
  <2>5. \A n \in all \union {last} : h[n].first <=> \A m \in all \union {last} : n <= m
    BY <2>1, <2>2, <2>3, <2>4, LeastStays
  <2> QED BY <1>13, <2>5 DEF h
<1>15. CASE first
  <2>1. kept = {} /\ c = <<x>> /\ e = <<z>>
    BY <1>6, <1>15 DEF c, e
  <2>2. Cardinality(kept) = 0 /\ Cardinality(shown) = 0
    BY <1>11, <2>1, FS_EmptySet
  <2>3. Cardinality(kept') = Cardinality(kept) + 1
    <3> DEFINE X == KeptClickOf(i, r, link)
    <3>1. x \in X /\ x \in KeptClick /\ clicks \in Seq(KeptClick)
      BY <1>3, <1>4, StoresTyped
    <3> HIDE DEF X
    <3>2. Cardinality(Where(clicks \o <<x>>, X)) = Cardinality(Where(clicks, X)) + 1
      BY <3>1, WhereMore
    <3> QED BY <1>8, <1>9, <2>1, <3>2 DEF X
  <2>4. Cardinality(shown') = Cardinality(shown) + 1
    BY <1>3, <1>4, <1>7, <1>8, <1>9, <2>1, WhereMore
  <2>5. Cardinality(kept') = 1 /\ Cardinality(shown') = 1 /\ all' # {}
    BY <1>13, <2>2, <2>3, <2>4
  <2> QED BY <1>14, <2>5 DEF ClicksAgree, all, kept, shown
<1>16. CASE ~ first
  <2>1. kept # {} /\ c = <<>> /\ e = <<>>
    BY <1>6, <1>16 DEF c, e
  <2>2. clicks \o c = clicks /\ s \o e = s
    BY <1>7, <2>1, StoresTyped, ConcatEmptySeq
  <2>3. kept' = kept /\ shown' = shown
    BY <1>8, <1>9, <2>2
  <2>4. Cardinality(kept') = (IF all' = {} THEN 0 ELSE 1) /\ Cardinality(shown') = Cardinality(kept')
    BY <1>11, <1>12, <1>13, <2>1, <2>3
  <2> QED BY <1>14, <2>4 DEF ClicksAgree, all, kept, shown
<1> QED BY <1>15, <1>16

-----------------------------------------------------------------------------
(***************************************************************************)
(* That the first opens and clicks agree is kept by every step.            *)
(***************************************************************************)
\* Records are of messages that are stored.
KnownMessages ==
  /\ \A n \in DOMAIN opens : opens[n].msg \in DOMAIN outbound
  /\ \A n \in DOMAIN clicks : clicks[n].msg \in DOMAIN outbound
  /\ \A n \in DOMAIN posts : posts[n].msg \in DOMAIN outbound
  /\ \A n \in DOMAIN facts : facts[n].kind \in {"open", "click"} => facts[n].msg \in DOMAIN outbound

\* A step that records of a known message keeps the messages of records known.
LEMMA KnownKept ==
  ASSUME TypeOK, KnownMessages, NEW i, NEW r, NEW f, NEW o, NEW c, NEW p, NEW e,
         Grows(i, r, f, o, c, p, e),
         i \in DOMAIN outbound \/ (o = <<>> /\ c = <<>> /\ p = <<>>
                                   /\ \A n \in DOMAIN f : f[n].kind \notin {"open", "click"})
  PROVE  KnownMessages'
<1>1. /\ facts' = facts \o f /\ opens' = opens \o o /\ clicks' = clicks \o c /\ posts' = posts \o p
      /\ Records(i, r, f, o, c, p, e) /\ DOMAIN outbound \subseteq DOMAIN outbound'
      /\ f \in Seq(Fact) /\ o \in Seq(KeptOpen) /\ c \in Seq(KeptClick) /\ p \in Seq(Posted)
  <2>1. /\ facts' = facts \o f /\ opens' = opens \o o /\ clicks' = clicks \o c /\ posts' = posts \o p
        /\ Records(i, r, f, o, c, p, e) /\ DOMAIN outbound \subseteq DOMAIN outbound'
    BY DEF Grows, SameMessages
  <2>2. f \in Seq(Fact) /\ o \in Seq(KeptOpen) /\ c \in Seq(KeptClick) /\ p \in Seq(Posted)
    BY <2>1 DEF Records, PostsOf
  <2> QED BY <2>1, <2>2
<1>2. \A n \in DOMAIN opens' : opens'[n].msg \in DOMAIN outbound'
  <2>1. \A n \in DOMAIN (opens \o o) : \/ n \in DOMAIN opens /\ (opens \o o)[n] = opens[n]
                                       \/ \E m \in DOMAIN o : (opens \o o)[n] = o[m]
    <3>1. opens \in Seq(KeptOpen)
      BY StoresTyped
    <3> QED BY <1>1, <3>1, OfEither
  <2>2. \A m \in DOMAIN o : o[m].msg = i /\ i \in DOMAIN outbound
    BY <1>1 DEF Records
  <2> QED BY <1>1, <2>1, <2>2 DEF KnownMessages
<1>3. \A n \in DOMAIN clicks' : clicks'[n].msg \in DOMAIN outbound'
  <2>1. \A n \in DOMAIN (clicks \o c) : \/ n \in DOMAIN clicks /\ (clicks \o c)[n] = clicks[n]
                                        \/ \E m \in DOMAIN c : (clicks \o c)[n] = c[m]
    <3>1. clicks \in Seq(KeptClick)
      BY StoresTyped
    <3> QED BY <1>1, <3>1, OfEither
  <2>2. \A m \in DOMAIN c : c[m].msg = i /\ i \in DOMAIN outbound
    BY <1>1 DEF Records
  <2> QED BY <1>1, <2>1, <2>2 DEF KnownMessages
<1>4. \A n \in DOMAIN posts' : posts'[n].msg \in DOMAIN outbound'
  <2>1. \A n \in DOMAIN (posts \o p) : \/ n \in DOMAIN posts /\ (posts \o p)[n] = posts[n]
                                       \/ \E m \in DOMAIN p : (posts \o p)[n] = p[m]
    <3>1. posts \in Seq(Posted)
      BY StoresTyped
    <3> QED BY <1>1, <3>1, OfEither
  <2>2. \A m \in DOMAIN p : p[m].msg = i /\ i \in DOMAIN outbound
    BY <1>1 DEF Records, PostsOf
  <2> QED BY <1>1, <2>1, <2>2 DEF KnownMessages
<1>5. \A n \in DOMAIN facts' : facts'[n].kind \in {"open", "click"} => facts'[n].msg \in DOMAIN outbound'
  <2>1. \A n \in DOMAIN (facts \o f) : \/ n \in DOMAIN facts /\ (facts \o f)[n] = facts[n]
                                       \/ \E m \in DOMAIN f : (facts \o f)[n] = f[m]
    <3>1. facts \in Seq(Fact)
      BY StoresTyped
    <3> QED BY <1>1, <3>1, OfEither
  <2>2. \A m \in DOMAIN f : f[m].kind \in {"open", "click"} => f[m].msg = i /\ i \in DOMAIN outbound
    BY <1>1 DEF Records
  <2> QED BY <1>1, <2>1, <2>2 DEF KnownMessages
<1> QED BY <1>2, <1>3, <1>4, <1>5 DEF KnownMessages

\* Of a message that is not yet stored nothing is recorded.
LEMMA NewAgrees ==
  ASSUME TypeOK, KnownMessages, NEW draft \in Drafts, Send(draft),
         NEW q \in Recipients, NEW j, j = Len(outbound) + 1
  PROVE  OpensAgree(j, q)' /\ \A l \in Links : ClicksAgree(j, q, l)'
<1> DEFINE f == [n \in DOMAIN draft.to |-> SentFact(draft)]
<1>1. /\ Grows(0, q, f, <<>>, <<>>, <<>>, <<>>) /\ j \notin DOMAIN outbound
      /\ outbound'[j].events = <<>> /\ \A n \in DOMAIN f : f[n].kind = "sent"
  BY SendGrows DEF SentFact
<1>2. facts' = facts \o f /\ opens' = opens /\ clicks' = clicks /\ posts' = posts /\ f \in Seq(Fact)
  BY <1>1, NoneAppended DEF Grows, Records
<1> HIDE DEF f
<1>3. \A n \in DOMAIN facts' : facts'[n].kind \in {"open", "click"} => facts'[n].msg # j
  <2>1. \A n \in DOMAIN (facts \o f) : \/ n \in DOMAIN facts /\ (facts \o f)[n] = facts[n]
                                       \/ \E m \in DOMAIN f : (facts \o f)[n] = f[m]
    BY <1>2, StoresTyped, Longer
  <2> QED BY <1>1, <1>2, <2>1 DEF KnownMessages
<1>4. OpenFacts(j, q)' = {} /\ \A l : ClickFacts(j, q, l)' = {}
  BY <1>3 DEF OpenFacts, ClickFacts
<1>5. KeptOpens(j, q)' = {} /\ OpenPosts(j, q)' = {} /\ \A l : KeptClicks(j, q, l)' = {}
  BY <1>1, <1>2 DEF KeptOpens, OpenPosts, KeptClicks, KnownMessages
<1>6. ShownOpens(j, q)' = {} /\ \A l : ShownClicks(j, q, l)' = {}
  BY <1>1 DEF ShownOpens, ShownClicks
<1>7. Cardinality({}) = 0
  BY FS_EmptySet
<1> QED BY <1>4, <1>5, <1>6, <1>7 DEF OpensAgree, ClicksAgree

\* What happens to a message leaves their number alone.
LEMMA HandledSame ==
  ASSUME TypeOK, NEW i \in DOMAIN outbound, NEW r \in ToSet(outbound[i].draft.to),
         NEW at \in outbound[i].at..now
  PROVE  /\ SkippedBySmtp(i, r) \/ Deliver(i, r, at) \/ Open(i, r, at)
              => DOMAIN outbound' = DOMAIN outbound
         /\ \A location \in Locations, link \in Links :
              Click(i, r, at, location, link) => DOMAIN outbound' = DOMAIN outbound
         /\ \A type \in Reported : Bounce(i, r, type, at) => DOMAIN outbound' = DOMAIN outbound
<1>1. SkippedBySmtp(i, r) => DOMAIN outbound' = DOMAIN outbound
  BY DEF SkippedBySmtp
<1>2. Deliver(i, r, at) => DOMAIN outbound' = DOMAIN outbound
  BY DEF Deliver, WithEvent
<1>3. Open(i, r, at) => DOMAIN outbound' = DOMAIN outbound
  BY DEF Open, OpenedEvent, WithEvent
<1>4. ASSUME NEW location \in Locations, NEW link \in Links, Click(i, r, at, location, link)
      PROVE  DOMAIN outbound' = DOMAIN outbound
  BY <1>4 DEF Click, ClickedEvent, WithEvent
<1>5. ASSUME NEW type \in Reported, Bounce(i, r, type, at)
      PROVE  DOMAIN outbound' = DOMAIN outbound
  BY <1>5 DEF Bounce, ChangedEvent, BouncedEvent, WithEvent
<1> QED BY <1>1, <1>2, <1>3, <1>4, <1>5

\* The records of all others agree when those of r of message i do.
LEMMA AgreeKept ==
  ASSUME TypeOK, FirstsAgree, NEW i, NEW r, NEW f, NEW o, NEW c, NEW p, NEW e,
         Grows(i, r, f, o, c, p, e), DOMAIN outbound' = DOMAIN outbound,
         NoOpens(f, o, p, e) \/ OpensAgree(i, r)',
         NoClicks(f, c, e) \/ \A l \in Links : ClicksAgree(i, r, l)'
  PROVE  FirstsAgree'
<1> SUFFICES ASSUME NEW j \in DOMAIN outbound, NEW q \in Recipients
             PROVE  OpensAgree(j, q)' /\ \A l \in Links : ClicksAgree(j, q, l)'
  BY DEF FirstsAgree
<1>1. OpensAgree(j, q) /\ \A l \in Links : ClicksAgree(j, q, l)
  BY DEF FirstsAgree
<1>2. OpensAgree(j, q)'
  <2>1. CASE j = i /\ q = r /\ OpensAgree(i, r)'
    BY <2>1
  <2>2. CASE ~ (j = i /\ q = r) \/ NoOpens(f, o, p, e)
    BY <1>1, <2>2, OpensKept
  <2> QED BY <2>1, <2>2
<1>3. ASSUME NEW l \in Links
      PROVE  ClicksAgree(j, q, l)'
  <2>1. CASE j = i /\ q = r /\ ClicksAgree(i, r, l)'
    BY <2>1
  <2>2. CASE ~ (j = i /\ q = r) \/ NoClicks(f, c, e)
    BY <1>1, <2>2, ClicksKept
  <2> QED BY <2>1, <2>2
<1> QED BY <1>2, <1>3

\* What an event tells.
LEMMA EventFields ==
  ASSUME NEW type, NEW r, NEW at, NEW detail
  PROVE  /\ EventIs(type, r, at, detail).type = type /\ EventIs(type, r, at, detail).to = r
         /\ EventIs(type, r, at, detail).at = at /\ EventIs(type, r, at, detail).detail = detail
BY DEF EventIs

\* One event in a row.
LEMMA OneEvent ==
  ASSUME NEW type, NEW r, NEW at, NEW detail
  PROVE  /\ DOMAIN <<EventIs(type, r, at, detail)>> = {1}
         /\ \A n \in DOMAIN <<EventIs(type, r, at, detail)>> :
              <<EventIs(type, r, at, detail)>>[n] = EventIs(type, r, at, detail)
         /\ EventIs(type, r, at, detail).type = type /\ EventIs(type, r, at, detail).to = r
         /\ EventIs(type, r, at, detail).at = at /\ EventIs(type, r, at, detail).detail = detail
<1> DEFINE x == EventIs(type, r, at, detail)
<1>1. x.type = type /\ x.to = r /\ x.at = at /\ x.detail = detail
  BY DEF EventIs
<1> HIDE DEF x
<1>2. DOMAIN <<x>> = {1} /\ <<x>>[1] = x
  OBVIOUS
<1> QED BY <1>1, <1>2 DEF x

\* An SMTP API error is no open and no click.
LEMMA SkippedAgrees ==
  ASSUME TypeOK, KnownMessages, FirstsAgree, NEW i \in DOMAIN outbound,
         NEW r \in ToSet(outbound[i].draft.to), SkippedBySmtp(i, r)
  PROVE  FirstsAgree' /\ KnownMessages'
<1> DEFINE f == <<[kind |-> "bounce", at |-> now, type |-> "SMTPApiError"]>>
           p == IF SmtpErrors THEN Post("Bounce", i, r) ELSE <<>>
<1>1. Grows(i, r, f, <<>>, <<>>, p, <<>>) /\ DOMAIN outbound' = DOMAIN outbound
  BY SkippedGrows DEF SkippedBySmtp
<1>2. NoOpens(f, <<>>, p, <<>>) /\ NoClicks(f, <<>>, <<>>)
  BY DEF NoOpens, NoClicks, Post
<1> HIDE DEF f, p
<1> QED BY <1>1, <1>2, AgreeKept, KnownKept

\* A delivery is no open and no click.
LEMMA DeliverAgrees ==
  ASSUME TypeOK, KnownMessages, FirstsAgree, NEW i \in DOMAIN outbound,
         NEW r \in ToSet(outbound[i].draft.to), NEW at \in outbound[i].at..now, Deliver(i, r, at)
  PROVE  FirstsAgree' /\ KnownMessages'
<1> DEFINE p == Post("Delivery", i, r)
           e == <<EventIs("Delivered", r, at, "")>>
<1>1. Grows(i, r, <<>>, <<>>, <<>>, p, e) /\ DOMAIN outbound' = DOMAIN outbound
  BY DeliverGrows, HandledSame
<1>2. NoOpens(<<>>, <<>>, p, e) /\ NoClicks(<<>>, <<>>, e)
  <2>1. DOMAIN p = {1} /\ p[1].record = "Delivery"
    BY DEF Post
  <2>2. PICK d : e = <<EventIs("Delivered", r, at, d)>>
    BY Zenon
  <2> HIDE DEF p, e
  <2>3. \A n \in DOMAIN e : e[n].type = "Delivered"
    BY <2>2, OneEvent
  <2> QED BY <2>1, <2>3 DEF NoOpens, NoClicks
<1> HIDE DEF p, e
<1> QED BY <1>1, <1>2, AgreeKept, KnownKept

\* An open is a first one in every record or in none.
LEMMA OpenAgrees ==
  ASSUME TypeOK, KnownMessages, FirstsAgree, NEW i \in DOMAIN outbound,
         NEW r \in ToSet(outbound[i].draft.to), NEW at \in outbound[i].at..now, Open(i, r, at)
  PROVE  FirstsAgree' /\ KnownMessages'
<1> DEFINE first == FirstOpen(i, r)
           f == <<OpenFact(i, r, at, first)>>
           o == IF first THEN <<[msg |-> i, to |-> r, at |-> at]>> ELSE <<>>
           p == OpenPost(i, r, first)
           e == IF first THEN <<EventIs("Opened", r, at, "")>> ELSE <<>>
<1>1. Grows(i, r, f, o, <<>>, p, e) /\ DOMAIN outbound' = DOMAIN outbound /\ r \in Recipients
  BY OpenGrows, HandledSame, HandledTyped
<1>2. OpensAgree(i, r)'
  BY <1>1, OpensMade DEF FirstsAgree
<1>3. NoClicks(f, <<>>, e)
  <2>1. \A n \in DOMAIN f : f[n].kind = "open"
    BY DEF OpenFact
  <2>2. \A n \in DOMAIN e : e[n].type = "Opened"
    <3>1. CASE first
      <4>1. PICK d : e = <<EventIs("Opened", r, at, d)>>
        BY <3>1, Zenon
      <4> HIDE DEF e
      <4> QED BY <4>1, OneEvent
    <3>2. CASE ~ first
      BY <3>2
    <3> QED BY <3>1, <3>2
  <2> HIDE DEF f, e
  <2> QED BY <2>1, <2>2 DEF NoClicks
<1> HIDE DEF f, o, p, e
<1> QED BY <1>1, <1>2, <1>3, AgreeKept, KnownKept

\* A click is a first one in every record or in none.
LEMMA ClickAgrees ==
  ASSUME TypeOK, KnownMessages, FirstsAgree, NEW i \in DOMAIN outbound,
         NEW r \in ToSet(outbound[i].draft.to), NEW at \in outbound[i].at..now,
         NEW location \in Locations, NEW link \in Links, Click(i, r, at, location, link)
  PROVE  FirstsAgree' /\ KnownMessages'
<1> DEFINE first == FirstClick(i, r, link)
           f == <<ClickFact(i, r, at, location, link, first)>>
           c == IF first THEN <<[msg |-> i, to |-> r, at |-> at, link |-> link]>> ELSE <<>>
           p == Post("Click", i, r)
           e == IF first THEN <<EventIs("LinkClicked", r, at, link)>> ELSE <<>>
<1>1. Grows(i, r, f, <<>>, c, p, e) /\ DOMAIN outbound' = DOMAIN outbound /\ r \in Recipients
  BY ClickGrows, HandledSame, HandledTyped
<1>2. NoOpens(f, <<>>, p, e)
  <2>1. \A n \in DOMAIN p : p[n].record = "Click"
    BY DEF Post
  <2>2. CASE first
    BY <2>1, <2>2 DEF NoOpens, ClickFact, EventIs
  <2>3. CASE ~ first
    BY <2>1, <2>3 DEF NoOpens, ClickFact, EventIs
  <2> QED BY <2>2, <2>3
<1>3. ASSUME NEW l \in Links
      PROVE  ClicksAgree(i, r, l)'
  <2>1. ClicksAgree(i, r, l)
    BY <1>1 DEF FirstsAgree
  <2>2. CASE l = link
    BY <2>1, <2>2, ClicksMade
  <2>3. CASE l # link
    <3>1. /\ \A n \in DOMAIN f : f[n].link # l
          /\ \A n \in DOMAIN e : e[n].detail # l
          /\ \A n \in DOMAIN c : c[n].link # l
      <4>1. \A n \in DOMAIN f : f[n].link # l
        BY <2>3 DEF ClickFact
      <4>2. CASE first
        <5>1. e = <<EventIs("LinkClicked", r, at, link)>> /\ c = <<[msg |-> i, to |-> r, at |-> at, link |-> link]>>
          BY <4>2
        <5>2. e[1].detail = link /\ c[1].link = link /\ DOMAIN e = {1} /\ DOMAIN c = {1}
          BY <5>1 DEF EventIs
        <5> HIDE DEF f, e, c
        <5> QED BY <2>3, <4>1, <5>2
      <4>3. CASE ~ first
        <5>1. e = <<>> /\ c = <<>>
          BY <4>3
        <5> HIDE DEF f, e, c
        <5> QED BY <4>1, <5>1
      <4> QED BY <4>2, <4>3
    <3> HIDE DEF f, c, p, e
    <3> QED BY <1>1, <2>1, <3>1, ClicksKept
  <2> QED BY <2>2, <2>3
<1> HIDE DEF f, c, p, e
<1> QED BY <1>1, <1>2, <1>3, AgreeKept, KnownKept

\* A bounce is no open and no click.
LEMMA BounceAgrees ==
  ASSUME TypeOK, KnownMessages, FirstsAgree, NEW i \in DOMAIN outbound,
         NEW r \in ToSet(outbound[i].draft.to), NEW type \in Reported,
         NEW at \in outbound[i].at..now, Bounce(i, r, type, at)
  PROVE  FirstsAgree' /\ KnownMessages'
<1> DEFINE changed == Deactivates(type) /\ r \notin DOMAIN rows
           f == BounceFacts(type, at)
           p == BouncePosts(i, r, type, changed)
           e == BounceStory(r, type, at, changed)
<1>1. Grows(i, r, f, <<>>, <<>>, p, e) /\ DOMAIN outbound' = DOMAIN outbound
  BY BounceGrows, HandledSame
<1>2. i \in Nat /\ r \in Recipients /\ at \in Instants /\ changed \in BOOLEAN
  BY HandledTyped DEF Deactivates
<1>3. \A n \in DOMAIN f : f[n].kind \notin {"open", "click"}
  BY DEF BounceFacts
<1>4. \A n \in DOMAIN p : p[n].record # "Open"
  BY <1>2, BouncePostsIs
<1>5. \A n \in DOMAIN e : e[n].type \notin {"Opened", "LinkClicked"}
  <2> HIDE DEF changed
  <2>1. /\ e[1] = EventIs(Shown(type), r, at, type)
        /\ \A n \in DOMAIN e : n = 1 \/ e[n] = EventIs("SubscriptionChanged", r, at, "")
    BY <1>2, BounceStoryIs
  <2> HIDE DEF e
  <2>2. /\ EventIs(Shown(type), r, at, type).type \notin {"Opened", "LinkClicked"}
        /\ EventIs("SubscriptionChanged", r, at, "").type \notin {"Opened", "LinkClicked"}
    BY DEF EventIs, Shown
  <2> QED BY <2>1, <2>2
<1> HIDE DEF f, p, e
<1>6. NoOpens(f, <<>>, p, e) /\ NoClicks(f, <<>>, e)
  BY <1>3, <1>4, <1>5 DEF NoOpens, NoClicks
<1> QED BY <1>1, <1>6, AgreeKept, KnownKept

\* A new message has no opens and no clicks.
LEMMA SendAgrees ==
  ASSUME TypeOK, KnownMessages, FirstsAgree, NEW draft \in Drafts, Send(draft)
  PROVE  FirstsAgree' /\ KnownMessages'
<1> DEFINE f == [n \in DOMAIN draft.to |-> SentFact(draft)]
<1>1. \A r : Grows(0, r, f, <<>>, <<>>, <<>>, <<>>)
  BY SendGrows
<1>2. DOMAIN outbound' = DOMAIN outbound \union {Len(outbound) + 1}
  BY SendGrows, Zenon
<1>3. \A n \in DOMAIN f : f[n].kind = "sent"
  BY DEF SentFact
<1> HIDE DEF f
<1>4. KnownMessages'
  <2>1. Grows(0, 0, f, <<>>, <<>>, <<>>, <<>>)
    BY <1>1
  <2> QED BY <1>3, <2>1, KnownKept
<1>5. ASSUME NEW j \in DOMAIN outbound', NEW q \in Recipients
      PROVE  OpensAgree(j, q)' /\ \A l \in Links : ClicksAgree(j, q, l)'
  <2>1. CASE j \in DOMAIN outbound
    <3>1. OpensAgree(j, q) /\ \A l \in Links : ClicksAgree(j, q, l)
      BY <2>1 DEF FirstsAgree
    <3>2. NoOpens(f, <<>>, <<>>, <<>>) /\ NoClicks(f, <<>>, <<>>)
      BY <1>3 DEF NoOpens, NoClicks
    <3>3. OpensAgree(j, q)'
      BY <1>1, <2>1, <3>1, <3>2, OpensKept
    <3>4. \A l \in Links : ClicksAgree(j, q, l)'
      BY <1>1, <2>1, <3>1, <3>2, ClicksKept
    <3> QED BY <3>3, <3>4
  <2>2. CASE j = Len(outbound) + 1
    BY <2>2, NewAgrees
  <2> QED BY <1>2, <2>1, <2>2
<1> QED BY <1>4, <1>5 DEF FirstsAgree

\* The other steps record nothing.
LEMMA OthersAgree ==
  ASSUME TypeOK, KnownMessages, FirstsAgree, UNCHANGED <<outbound, facts, posts, opens, clicks>>
  PROVE  FirstsAgree' /\ KnownMessages'
<1>1. Grows(0, 0, <<>>, <<>>, <<>>, <<>>, <<>>) /\ DOMAIN outbound' = DOMAIN outbound
  BY OthersGrow
<1>2. NoOpens(<<>>, <<>>, <<>>, <<>>) /\ NoClicks(<<>>, <<>>, <<>>)
  BY DEF NoOpens, NoClicks
<1> QED BY <1>1, <1>2, AgreeKept, KnownKept

\* Nothing was opened at first.
LEMMA InitAgrees == Init => FirstsAgree /\ KnownMessages
BY DEF Init, FirstsAgree, KnownMessages

\* Every step keeps the records of opens and clicks in agreement.
LEMMA NextAgrees ==
  ASSUME TypeOK, KnownMessages, FirstsAgree, [Next]_vars
  PROVE  FirstsAgree' /\ KnownMessages'
<1>1. BounceTypes \subseteq Reported
  BY TrackingAssumption
<1>2. ASSUME NEW i \in DOMAIN outbound, Handled(i) PROVE FirstsAgree' /\ KnownMessages'
  BY <1>1, <1>2, SkippedAgrees, DeliverAgrees, OpenAgrees, ClickAgrees, BounceAgrees DEF Handled
<1>3. ASSUME Purge \/ CreateStream \/ Tick \/ UNCHANGED vars
      PROVE  UNCHANGED <<outbound, facts, posts, opens, clicks>>
  BY <1>3 DEF Purge, CreateStream, Tick, vars
<1>4. ASSUME NEW list \in Lists, NEW count \in PageSizes, ReadPage(list, count)
      PROVE  UNCHANGED <<outbound, facts, posts, opens, clicks>>
  BY <1>4 DEF ReadPage
<1> QED BY <1>2, <1>3, <1>4, SendAgrees, OthersAgree DEF Next

-----------------------------------------------------------------------------
(***************************************************************************)
(* The story of a message.                                                 *)
(***************************************************************************)
\* A hook was told of each delivery.
DeliveryTold ==
  \A i \in DOMAIN outbound : \A n \in DOMAIN outbound[i].events :
    outbound[i].events[n].type = "Delivered" =>
      \E m \in DOMAIN posts :
        posts[m] = [record |-> "Delivery", msg |-> i, to |-> outbound[i].events[n].to]

\* While a stream has its bounces, it has those that the events tell of.
BouncesKept ==
  \A i \in DOMAIN outbound : stream <= outbound[i].at =>
    \A n \in DOMAIN outbound[i].events :
      LET e == outbound[i].events[n]
      IN  e.type = "Bounced" /\ e.detail \in Undelivered => Bounced(i, e.to)

\* Nothing is sent on a stream that is gone.
StreamSound == stream = Gone => \A i \in DOMAIN outbound : outbound[i].at < now

\* Events that are no deliveries, opens or clicks go on with any story.
LEMMA StoryGoesOn ==
  ASSUME NEW s \in Seq(Event), NEW v \in Seq(Event), NEW n \in DOMAIN (s \o v),
         \A k \in DOMAIN v : v[k].type \notin {"Delivered", "Opened", "LinkClicked"}
  PROVE  /\ (n \in DOMAIN s => EventHolds(s, n)) => EventHolds(s \o v, n)
         /\ (n \in DOMAIN s => NotAfterBounce(s, n)) => NotAfterBounce(s \o v, n)
<1> DEFINE t == s \o v
<1>1. /\ DOMAIN s = 1..Len(s) /\ Len(s) \in Nat /\ \A m \in DOMAIN s : m \in DOMAIN t /\ t[m] = s[m]
      /\ \A m \in DOMAIN t \ DOMAIN s : m - Len(s) \in DOMAIN v /\ t[m] = v[m - Len(s)]
  BY Longer
<1>2. \A m \in DOMAIN t \ DOMAIN s : t[m].type \notin {"Delivered", "Opened", "LinkClicked"}
  BY <1>1
<1>3. \A m \in DOMAIN s : \A k \in 1..m-1 : k \in DOMAIN s
  BY <1>1
<1> HIDE DEF t
<1>4. CASE n \in DOMAIN s
  <2>1. \A k \in 1..n-1 : k \in DOMAIN s /\ t[k] = s[k]
    BY <1>1, <1>3, <1>4
  <2>2. EventHolds(s, n) => EventHolds(t, n)
    <3> SUFFICES ASSUME EventHolds(s, n) PROVE EventHolds(t, n)
      OBVIOUS
    <3>1. t[n].type = "Delivered" =>
            \A m \in DOMAIN t \ {n} : t[m].type = "Delivered" => t[m].to # t[n].to
      BY <1>1, <1>2, <1>4 DEF EventHolds
    <3>2. t[n].type \in {"Opened", "LinkClicked"} =>
            \E m \in 1..n-1 : t[m].type = "Delivered" /\ t[m].to = t[n].to /\ t[m].at <= t[n].at
      BY <1>1, <1>4, <2>1 DEF EventHolds
    <3> QED BY <3>1, <3>2 DEF EventHolds
  <2>3. NotAfterBounce(s, n) => NotAfterBounce(t, n)
    BY <1>1, <1>4, <2>1 DEF NotAfterBounce
  <2> QED BY <1>4, <2>2, <2>3 DEF t
<1>5. CASE n \notin DOMAIN s
  <2>1. n \in DOMAIN t \ DOMAIN s
    BY <1>5 DEF t
  <2>2. EventHolds(t, n) /\ NotAfterBounce(t, n)
    BY <1>2, <2>1 DEF EventHolds, NotAfterBounce
  <2> QED BY <2>2 DEF t
<1> QED BY <1>4, <1>5

\* A delivery, an open or a click goes on with a story in which it can happen.
LEMMA StoryTold ==
  ASSUME NEW s \in Seq(Event), NEW e \in Event,
         e.type = "Delivered" => \A m \in DOMAIN s : s[m].type = "Delivered" => s[m].to # e.to,
         e.type \in {"Opened", "LinkClicked"} =>
           \E m \in DOMAIN s : s[m].type = "Delivered" /\ s[m].to = e.to /\ s[m].at <= e.at,
         NEW n \in DOMAIN (s \o <<e>>)
  PROVE  /\ (n \in DOMAIN s => EventHolds(s, n)) => EventHolds(s \o <<e>>, n)
         /\ (\A m \in DOMAIN s : s[m].type = "Bounced" /\ s[m].to = e.to => s[m].detail \notin Undelivered)
              => ((n \in DOMAIN s => NotAfterBounce(s, n)) => NotAfterBounce(s \o <<e>>, n))
<1> DEFINE t == s \o <<e>>
           last == Len(s) + 1
<1>1. /\ DOMAIN s = 1..Len(s) /\ Len(s) \in Nat /\ DOMAIN t = 1..last
      /\ \A m \in DOMAIN s : m \in DOMAIN t /\ t[m] = s[m]
      /\ t[last] = e
  BY Appended
<1>2. \A m \in DOMAIN t : m \in DOMAIN s \/ m = last
  BY <1>1
<1>3. last \notin DOMAIN s /\ 1..last - 1 = DOMAIN s
  BY <1>1
<1>4. \A m \in DOMAIN s : \A k \in 1..m-1 : k \in DOMAIN s
  BY <1>1
<1> HIDE DEF t
<1>5. CASE n \in DOMAIN s
  <2>1. \A k \in 1..n-1 : k \in DOMAIN s /\ t[k] = s[k]
    BY <1>1, <1>4, <1>5
  <2>2. EventHolds(s, n) => EventHolds(t, n)
    <3> SUFFICES ASSUME EventHolds(s, n) PROVE EventHolds(t, n)
      OBVIOUS
    <3>1. ASSUME t[n].type = "Delivered", NEW m \in DOMAIN t \ {n}, t[m].type = "Delivered"
          PROVE  t[m].to # t[n].to
      <4>1. CASE m \in DOMAIN s
        BY <1>1, <1>5, <3>1, <4>1 DEF EventHolds
      <4>2. CASE m = last
        BY <1>1, <1>5, <3>1, <4>2
      <4> QED BY <1>2, <4>1, <4>2
    <3>2. t[n].type \in {"Opened", "LinkClicked"} =>
            \E m \in 1..n-1 : t[m].type = "Delivered" /\ t[m].to = t[n].to /\ t[m].at <= t[n].at
      BY <1>1, <1>5, <2>1 DEF EventHolds
    <3> QED BY <3>1, <3>2 DEF EventHolds
  <2>3. NotAfterBounce(s, n) => NotAfterBounce(t, n)
    BY <1>1, <1>5, <2>1 DEF NotAfterBounce
  <2> QED BY <1>5, <2>2, <2>3 DEF t
<1>6. CASE n = last
  <2>1. EventHolds(t, n)
    <3>1. ASSUME t[n].type = "Delivered", NEW m \in DOMAIN t \ {n}, t[m].type = "Delivered"
          PROVE  t[m].to # t[n].to
      BY <1>1, <1>2, <1>6, <3>1
    <3>2. ASSUME t[n].type \in {"Opened", "LinkClicked"}
          PROVE  \E m \in 1..n-1 : t[m].type = "Delivered" /\ t[m].to = t[n].to /\ t[m].at <= t[n].at
      BY <1>1, <1>3, <1>6, <3>2
    <3> QED BY <3>1, <3>2 DEF EventHolds
  <2>2. (\A m \in DOMAIN s : s[m].type = "Bounced" /\ s[m].to = e.to => s[m].detail \notin Undelivered)
          => NotAfterBounce(t, n)
    BY <1>1, <1>3, <1>6 DEF NotAfterBounce
  <2> QED BY <1>3, <1>6, <2>1, <2>2 DEF t
<1> QED BY <1>2, <1>5, <1>6 DEF t

\* An event that can happen to a recipient of a message.
Fits(i, x) ==
  /\ x.type = "Delivered" =>
       \A m \in DOMAIN outbound[i].events :
         outbound[i].events[m].type = "Delivered" => outbound[i].events[m].to # x.to
  /\ x.type \in {"Opened", "LinkClicked"} =>
       \E m \in DOMAIN outbound[i].events :
         /\ outbound[i].events[m].type = "Delivered" /\ outbound[i].events[m].to = x.to
         /\ outbound[i].events[m].at <= x.at
  /\ ~ Bounced(i, x.to)

Quiet(e) == \A k \in DOMAIN e : e[k].type \notin {"Delivered", "Opened", "LinkClicked"}

\* No message that had lost its bounces has them again.
StreamEnds ==
  \A j \in DOMAIN outbound : stream' <= outbound[j].at => stream <= outbound[j].at

\* Events that go on with the story keep it possible.
LEMMA EventsHoldKept ==
  ASSUME TypeOK, EventsHold, BouncesKept, NEW i, NEW r, NEW f, NEW o, NEW c, NEW p, NEW e,
         Grows(i, r, f, o, c, p, e), DOMAIN outbound' = DOMAIN outbound, StreamEnds,
         Quiet(e) \/ \E x \in Event : e = <<x>> /\ Fits(i, x)
  PROVE  EventsHold'
<1> SUFFICES ASSUME NEW j \in DOMAIN outbound, NEW n \in DOMAIN outbound'[j].events
             PROVE  /\ EventHolds(outbound'[j].events, n)
                    /\ stream' <= outbound'[j].at => NotAfterBounce(outbound'[j].events, n)
  BY DEF EventsHold
<1> DEFINE s == outbound[j].events
           v == IF j = i THEN e ELSE <<>>
<1>1. outbound'[j].events = s \o v /\ outbound'[j].at = outbound[j].at /\ s \in Seq(Event)
  BY StoresTyped DEF Grows, SameMessages
<1>2. v \in Seq(Event)
  <2>1. e \in Seq(Event) /\ <<>> \in Seq(Event)
    BY DEF Grows, Records, EventsTo
  <2> QED BY <2>1
<1>3. \A k \in DOMAIN s : /\ EventHolds(s, k)
                          /\ stream <= outbound[j].at => NotAfterBounce(s, k)
  BY DEF EventsHold
<1>4. stream' <= outbound[j].at => stream <= outbound[j].at
  BY DEF StreamEnds
<1>5. CASE j # i \/ Quiet(e)
  <2>1. \A k \in DOMAIN v : v[k].type \notin {"Delivered", "Opened", "LinkClicked"}
    BY <1>5 DEF Quiet
  <2> HIDE DEF s, v
  <2>2. /\ (n \in DOMAIN s => EventHolds(s, n)) => EventHolds(s \o v, n)
        /\ (n \in DOMAIN s => NotAfterBounce(s, n)) => NotAfterBounce(s \o v, n)
    <3>1. n \in DOMAIN (s \o v)
      BY <1>1
    <3> QED BY <1>1, <1>2, <2>1, <3>1, StoryGoesOn
  <2> QED BY <1>1, <1>3, <1>4, <2>2
<1>6. CASE j = i /\ \E x \in Event : e = <<x>> /\ Fits(i, x)
  <2>1. PICK x \in Event : v = <<x>> /\ Fits(j, x)
    BY <1>6
  <2>2. /\ x.type = "Delivered" => \A m \in DOMAIN s : s[m].type = "Delivered" => s[m].to # x.to
        /\ x.type \in {"Opened", "LinkClicked"} =>
             \E m \in DOMAIN s : s[m].type = "Delivered" /\ s[m].to = x.to /\ s[m].at <= x.at
    BY <2>1 DEF Fits
  <2>3. stream <= outbound[j].at =>
          \A m \in DOMAIN s : s[m].type = "Bounced" /\ s[m].to = x.to => s[m].detail \notin Undelivered
    BY <2>1 DEF Fits, BouncesKept
  <2> HIDE DEF s, v
  <2>4. /\ (n \in DOMAIN s => EventHolds(s, n)) => EventHolds(s \o <<x>>, n)
        /\ (\A m \in DOMAIN s : s[m].type = "Bounced" /\ s[m].to = x.to => s[m].detail \notin Undelivered)
              => ((n \in DOMAIN s => NotAfterBounce(s, n)) => NotAfterBounce(s \o <<x>>, n))
    <3>1. n \in DOMAIN (s \o <<x>>)
      BY <1>1, <2>1
    <3> QED BY <1>1, <2>2, <3>1, StoryTold
  <2> QED BY <1>1, <1>3, <1>4, <2>1, <2>3, <2>4
<1> QED BY <1>5, <1>6

\* Posts that go on with the story keep it possible.
LEMMA PostsHoldKept ==
  ASSUME TypeOK, PostsHold, NEW i, NEW r, NEW f, NEW o, NEW c, NEW p, NEW e,
         Grows(i, r, f, o, c, p, e),
         (\E n \in DOMAIN p : p[n].record \in {"Open", "Click"}) =>
           \E m \in DOMAIN posts : posts[m] = [record |-> "Delivery", msg |-> i, to |-> r]
  PROVE  PostsHold'
<1>1. posts' = posts \o p /\ p \in Seq(Posted) /\ \A n \in DOMAIN p : p[n].msg = i /\ p[n].to = r
  BY DEF Grows, Records, PostsOf
<1>2. /\ DOMAIN posts = 1..Len(posts) /\ Len(posts) \in Nat
      /\ \A n \in DOMAIN posts : posts'[n] = posts[n]
      /\ \A n \in DOMAIN posts' \ DOMAIN posts :
           n - Len(posts) \in DOMAIN p /\ posts'[n] = p[n - Len(posts)] /\ Len(posts) < n /\ n \in Nat
  BY <1>1, StoresTyped, Longer
<1>3. ASSUME NEW n \in DOMAIN posts', posts'[n].record \in {"Open", "Click"}
      PROVE  \E m \in 1..n-1 : posts'[m] = [posts'[n] EXCEPT !.record = "Delivery"]
  <2>1. CASE n \in DOMAIN posts
    <3>1. PICK m \in 1..n-1 : posts[m] = [posts[n] EXCEPT !.record = "Delivery"]
      BY <1>2, <1>3, <2>1 DEF PostsHold
    <3>2. m \in DOMAIN posts
      BY <1>2, <2>1
    <3> QED BY <1>2, <2>1, <3>1, <3>2
  <2>2. CASE n \notin DOMAIN posts
    <3>1. n - Len(posts) \in DOMAIN p /\ posts'[n] = p[n - Len(posts)] /\ Len(posts) < n /\ n \in Nat
      BY <1>2, <2>2
    <3>2. PICK m \in DOMAIN posts : posts[m] = [record |-> "Delivery", msg |-> i, to |-> r]
      BY <1>3, <3>1
    <3>3. posts'[n] \in Posted /\ posts'[n].msg = i /\ posts'[n].to = r
      BY <1>1, <3>1, InSeq
    <3>4. [posts'[n] EXCEPT !.record = "Delivery"] = [record |-> "Delivery", msg |-> i, to |-> r]
      BY <3>3 DEF Posted
    <3>5. m \in 1..n-1 /\ posts'[m] = posts[m]
      BY <1>2, <3>1
    <3> QED BY <3>2, <3>4, <3>5
  <2> QED BY <2>1, <2>2
<1> QED BY <1>3 DEF PostsHold

\* A delivery that is shown is still one that the hook was told of.
LEMMA ToldKept ==
  ASSUME TypeOK, DeliveryTold, NEW i, NEW r, NEW f, NEW o, NEW c, NEW p, NEW e,
         Grows(i, r, f, o, c, p, e), DOMAIN outbound' = DOMAIN outbound,
         (\E k \in DOMAIN e : e[k].type = "Delivered") =>
           \E m \in DOMAIN p : p[m] = [record |-> "Delivery", msg |-> i, to |-> r]
  PROVE  DeliveryTold'
<1>1. posts' = posts \o p /\ p \in Seq(Posted) /\ e \in Seq(Event) /\ \A k \in DOMAIN e : e[k].to = r
  BY DEF Grows, Records, PostsOf, EventsTo
<1>2. \A m \in DOMAIN posts : m \in DOMAIN posts' /\ posts'[m] = posts[m]
  BY <1>1, StoresTyped, Longer
<1>3. ASSUME NEW m \in DOMAIN p
      PROVE  \E k \in DOMAIN posts' : posts'[k] = p[m]
  <2>1. /\ Len(posts) \in Nat /\ Len(p) \in Nat /\ DOMAIN p = 1..Len(p)
        /\ DOMAIN posts' = 1..Len(posts) + Len(p)
        /\ \A n \in 1..Len(posts) + Len(p) : posts'[n] = IF n <= Len(posts) THEN posts[n] ELSE p[n - Len(posts)]
    BY <1>1, StoresTyped, ConcatProperties, LenProperties
  <2>2. Len(posts) + m \in DOMAIN posts' /\ posts'[Len(posts) + m] = p[m]
    BY <2>1
  <2> QED BY <2>2
<1>4. ASSUME NEW j \in DOMAIN outbound, NEW n \in DOMAIN outbound'[j].events,
             outbound'[j].events[n].type = "Delivered"
      PROVE  \E m \in DOMAIN posts' :
               posts'[m] = [record |-> "Delivery", msg |-> j, to |-> outbound'[j].events[n].to]
  <2> DEFINE s == outbound[j].events
             v == IF j = i THEN e ELSE <<>>
  <2>1. outbound'[j].events = s \o v /\ s \in Seq(Event)
    BY StoresTyped DEF Grows, SameMessages
  <2>2. v \in Seq(Event)
    <3>1. <<>> \in Seq(Event)
      OBVIOUS
    <3> QED BY <1>1, <3>1
  <2>3. CASE n \in DOMAIN s
    <3>1. outbound'[j].events[n] = s[n]
      <4> HIDE DEF s, v
      <4> QED BY <2>1, <2>2, <2>3, Longer
    <3>2. PICK m \in DOMAIN posts : posts[m] = [record |-> "Delivery", msg |-> j, to |-> s[n].to]
      BY <1>4, <2>3, <3>1 DEF DeliveryTold
    <3> QED BY <1>2, <3>1, <3>2
  <2>4. CASE n \notin DOMAIN s
    <3>1. n - Len(s) \in DOMAIN v /\ outbound'[j].events[n] = v[n - Len(s)]
      <4> HIDE DEF s, v
      <4> QED BY <1>4, <2>1, <2>2, <2>4, Longer
    <3>2. j = i
      BY <3>1
    <3>3. n - Len(s) \in DOMAIN e /\ outbound'[j].events[n] = e[n - Len(s)]
      BY <3>1, <3>2
    <3>4. PICK m \in DOMAIN p : p[m] = [record |-> "Delivery", msg |-> i, to |-> r]
      BY <1>4, <3>3
    <3>5. outbound'[j].events[n].to = r
      BY <1>1, <3>3
    <3> QED BY <1>3, <3>2, <3>4, <3>5
  <2> QED BY <2>3, <2>4
<1> QED BY <1>4 DEF DeliveryTold

BouncedIn(list, i, r) ==
  \E b \in ToSet(list) : b.msg = i /\ b.to = r /\ b.type \in Undelivered

\* A bounce that is shown is still a stored one.
LEMMA BouncesKeptOn ==
  ASSUME TypeOK, BouncesKept, NEW i, NEW r, NEW f, NEW o, NEW c, NEW p, NEW e,
         Grows(i, r, f, o, c, p, e), DOMAIN outbound' = DOMAIN outbound, StreamEnds,
         \A j \in DOMAIN outbound : \A q : Bounced(j, q) /\ stream' <= outbound[j].at => BouncedIn(bounces', j, q),
         (\E k \in DOMAIN e : e[k].type = "Bounced" /\ e[k].detail \in Undelivered) => BouncedIn(bounces', i, r)
  PROVE  BouncesKept'
<1>1. e \in Seq(Event) /\ \A k \in DOMAIN e : e[k].to = r
  BY DEF Grows, Records, EventsTo
<1>2. ASSUME NEW j \in DOMAIN outbound, stream' <= outbound'[j].at, NEW n \in DOMAIN outbound'[j].events,
             outbound'[j].events[n].type = "Bounced", outbound'[j].events[n].detail \in Undelivered
      PROVE  BouncedIn(bounces', j, outbound'[j].events[n].to)
  <2> DEFINE s == outbound[j].events
             v == IF j = i THEN e ELSE <<>>
  <2>1. outbound'[j].events = s \o v /\ s \in Seq(Event) /\ outbound'[j].at = outbound[j].at
    BY StoresTyped DEF Grows, SameMessages
  <2>2. v \in Seq(Event)
    <3>1. <<>> \in Seq(Event)
      OBVIOUS
    <3> QED BY <1>1, <3>1
  <2>3. CASE n \in DOMAIN s
    <3>1. outbound'[j].events[n] = s[n]
      <4> HIDE DEF s, v
      <4> QED BY <2>1, <2>2, <2>3, Longer
    <3>2. stream <= outbound[j].at
      BY <1>2, <2>1 DEF StreamEnds
    <3>3. Bounced(j, s[n].to)
      BY <1>2, <2>3, <3>1, <3>2 DEF BouncesKept
    <3>4. BouncedIn(bounces', j, s[n].to)
      BY <1>2, <2>1, <3>3
    <3> QED BY <3>1, <3>4
  <2>4. CASE n \notin DOMAIN s
    <3>1. n - Len(s) \in DOMAIN v /\ outbound'[j].events[n] = v[n - Len(s)]
      <4> HIDE DEF s, v
      <4> QED BY <1>2, <2>1, <2>2, <2>4, Longer
    <3>2. j = i
      BY <3>1
    <3>3. n - Len(s) \in DOMAIN e /\ outbound'[j].events[n] = e[n - Len(s)]
      BY <3>1, <3>2
    <3>4. BouncedIn(bounces', i, r)
      BY <1>2, <3>3
    <3>5. outbound'[j].events[n].to = r
      BY <1>1, <3>3
    <3> QED BY <3>2, <3>4, <3>5
  <2> QED BY <2>3, <2>4
<1> QED BY <1>2 DEF BouncesKept, Bounced, BouncedIn

Story == StoryHolds /\ DeliveryTold /\ BouncesKept /\ StreamSound

\* A step that happens to a message goes on with the story.
LEMMA StoryKept ==
  ASSUME TypeOK, Story, NEW i, NEW r, NEW f, NEW o, NEW c, NEW p, NEW e,
         Grows(i, r, f, o, c, p, e), DOMAIN outbound' = DOMAIN outbound, UNCHANGED <<stream, now>>,
         Quiet(e) \/ \E x \in Event : e = <<x>> /\ Fits(i, x),
         (\E n \in DOMAIN p : p[n].record \in {"Open", "Click"}) =>
           \E m \in DOMAIN posts : posts[m] = [record |-> "Delivery", msg |-> i, to |-> r],
         (\E k \in DOMAIN e : e[k].type = "Delivered") =>
           \E m \in DOMAIN p : p[m] = [record |-> "Delivery", msg |-> i, to |-> r],
         \A j \in DOMAIN outbound : \A q : Bounced(j, q) => BouncedIn(bounces', j, q),
         (\E k \in DOMAIN e : e[k].type = "Bounced" /\ e[k].detail \in Undelivered)
           => BouncedIn(bounces', i, r)
  PROVE  Story'
<1>1. StreamEnds
  BY DEF StreamEnds
<1>2. EventsHold'
  BY <1>1, EventsHoldKept DEF Story, StoryHolds
<1>3. PostsHold'
  BY PostsHoldKept DEF Story, StoryHolds
<1>4. DeliveryTold'
  BY ToldKept DEF Story
<1>5. BouncesKept'
  BY <1>1, BouncesKeptOn DEF Story
<1>6. StreamSound'
  <2>1. \A j \in DOMAIN outbound : outbound'[j].at = outbound[j].at
    BY DEF Grows, SameMessages
  <2> QED BY <2>1 DEF Story, StreamSound, Gone
<1> QED BY <1>2, <1>3, <1>4, <1>5, <1>6 DEF Story, StoryHolds

\* A recipient that was reached was told of as delivered.
LEMMA DeliveredIs ==
  ASSUME TypeOK, Story, NEW i \in DOMAIN outbound, NEW r, NEW at, DeliveredBy(i, r, at)
  PROVE  /\ \E m \in DOMAIN outbound[i].events :
              /\ outbound[i].events[m].type = "Delivered" /\ outbound[i].events[m].to = r
              /\ outbound[i].events[m].at <= at
         /\ \E m \in DOMAIN posts : posts[m] = [record |-> "Delivery", msg |-> i, to |-> r]
<1>1. PICK m \in DOMAIN outbound[i].events :
        /\ outbound[i].events[m].type = "Delivered" /\ outbound[i].events[m].to = r
        /\ outbound[i].events[m].at <= at
  BY Elements DEF DeliveredBy
<1> QED BY <1>1 DEF Story, DeliveryTold

\* An SMTP API error goes on with the story.
LEMMA SkippedStory ==
  ASSUME TypeOK, Story, NEW i \in DOMAIN outbound,
         NEW r \in ToSet(outbound[i].draft.to), SkippedBySmtp(i, r)
  PROVE  Story'
<1> DEFINE f == <<[kind |-> "bounce", at |-> now, type |-> "SMTPApiError"]>>
           p == IF SmtpErrors THEN Post("Bounce", i, r) ELSE <<>>
           b == [msg |-> i, to |-> r, type |-> "SMTPApiError"]
<1>1. Grows(i, r, f, <<>>, <<>>, p, <<>>) /\ DOMAIN outbound' = DOMAIN outbound /\ UNCHANGED <<stream, now>>
  BY SkippedGrows DEF SkippedBySmtp
<1>2. \A n \in DOMAIN p : p[n].record = "Bounce"
  BY DEF Post
<1>3. Quiet(<<>>) /\ DOMAIN <<>> = {}
  BY DEF Quiet
<1>4. ASSUME NEW j \in DOMAIN outbound, NEW q, Bounced(j, q)
      PROVE  BouncedIn(bounces', j, q)
  <2>1. i \in Nat /\ r \in Recipients
    BY HandledTyped
  <2>2. b \in Row /\ bounces \in Seq(Row) /\ bounces' = Append(bounces, b)
    BY <2>1 DEF Row, TypeOK, SkippedBySmtp
  <2> HIDE DEF b
  <2>3. \A n \in DOMAIN bounces : n \in DOMAIN bounces' /\ bounces'[n] = bounces[n]
    BY <2>2, Appended
  <2> QED BY <1>4, <2>3, Elements DEF Bounced, BouncedIn
<1> HIDE DEF f, p
<1> QED BY <1>1, <1>2, <1>3, <1>4, StoryKept

\* A delivery is the first of its recipient, before a bounce.
LEMMA DeliverStory ==
  ASSUME TypeOK, Story, NEW i \in DOMAIN outbound,
         NEW r \in ToSet(outbound[i].draft.to), NEW at \in outbound[i].at..now, Deliver(i, r, at)
  PROVE  Story'
<1> DEFINE p == Post("Delivery", i, r)
           x == EventIs("Delivered", r, at, "")
<1>1. Grows(i, r, <<>>, <<>>, <<>>, p, <<x>>) /\ DOMAIN outbound' = DOMAIN outbound
      /\ UNCHANGED <<stream, now, bounces>>
  BY DeliverGrows, HandledSame DEF Deliver
<1>2. DOMAIN p = {1} /\ p[1] = [record |-> "Delivery", msg |-> i, to |-> r] /\ p[1].record = "Delivery"
  BY DEF Post
<1>3. x \in Event
  <2>1. r \in Recipients /\ at \in Instants /\ "Delivered" \in EventTypes /\ "" \in Details
    BY HandledTyped DEF EventTypes, Details
  <2> QED BY <2>1, SameMessagesIs
<1>4. PICK d : x = EventIs("Delivered", r, at, d)
  BY Zenon
<1> HIDE DEF p, x
<1>5. x.type = "Delivered" /\ x.to = r /\ x.at = at
  BY <1>4, EventFields
<1>6. Fits(i, x)
  <2>1. ~ Bounced(i, r)
    BY DEF Deliver, Reachable
  <2>2. ~ \E m \in DOMAIN outbound[i].events :
          /\ outbound[i].events[m].type = "Delivered" /\ outbound[i].events[m].to = r
          /\ outbound[i].events[m].at <= MaxTime
    BY Elements DEF Deliver, DeliveredBy
  <2>3. \A m \in DOMAIN outbound[i].events : outbound[i].events[m].at <= MaxTime
    <3>1. \A m \in DOMAIN outbound[i].events : outbound[i].events[m] \in Event
      BY StoresTyped, InSeq
    <3>2. \A m \in DOMAIN outbound[i].events : outbound[i].events[m].at \in Instants
      BY <3>1 DEF Event
    <3>3. MaxTime \in Nat
      BY TrackingAssumption
    <3> QED BY <3>2, <3>3 DEF Instants
  <2> QED BY <1>5, <2>1, <2>2, <2>3 DEF Fits
<1>7. DOMAIN <<x>> = {1} /\ <<x>>[1] = x
  OBVIOUS
<1>8. \A j \in DOMAIN outbound : \A q : Bounced(j, q) => BouncedIn(bounces', j, q)
  BY <1>1 DEF Bounced, BouncedIn
<1> QED BY <1>1, <1>2, <1>3, <1>5, <1>6, <1>7, <1>8, StoryKept

\* An open and a click: the recipient was reached, and the event is shown or not.
LEMMA ReachedStory ==
  ASSUME TypeOK, Story, NEW i \in DOMAIN outbound, NEW r, NEW at,
         Reachable(i, r), DeliveredBy(i, r, at),
         NEW f, NEW o, NEW c, NEW p, NEW e, Grows(i, r, f, o, c, p, e),
         DOMAIN outbound' = DOMAIN outbound, UNCHANGED <<stream, now, bounces>>,
         e = <<>> \/ \E x \in Event : e = <<x>> /\ x.type \in {"Opened", "LinkClicked"} /\ x.to = r /\ x.at = at
  PROVE  Story'
<1>1. \E m \in DOMAIN posts : posts[m] = [record |-> "Delivery", msg |-> i, to |-> r]
  BY DeliveredIs
<1>2. \A j \in DOMAIN outbound : \A q : Bounced(j, q) => BouncedIn(bounces', j, q)
  BY DEF Bounced, BouncedIn
<1>3. CASE e = <<>>
  <2>1. Quiet(e) /\ DOMAIN e = {}
    BY <1>3 DEF Quiet
  <2> QED BY <1>1, <1>2, <2>1, StoryKept
<1>4. CASE e # <<>>
  <2>1. PICK x \in Event : e = <<x>> /\ x.type \in {"Opened", "LinkClicked"} /\ x.to = r /\ x.at = at
    BY <1>4
  <2>2. Fits(i, x)
    BY <2>1, DeliveredIs DEF Fits, Reachable
  <2>3. DOMAIN e = {1} /\ e[1] = x
    BY <2>1
  <2>4. \A k \in DOMAIN e : e[k].type # "Delivered" /\ e[k].type # "Bounced"
    BY <2>1, <2>3
  <2> QED BY <1>1, <1>2, <2>1, <2>2, <2>4, StoryKept
<1> QED BY <1>3, <1>4

\* An open comes after its delivery.
LEMMA OpenStory ==
  ASSUME TypeOK, Story, NEW i \in DOMAIN outbound,
         NEW r \in ToSet(outbound[i].draft.to), NEW at \in outbound[i].at..now, Open(i, r, at)
  PROVE  Story'
<1> DEFINE first == FirstOpen(i, r)
           f == <<OpenFact(i, r, at, first)>>
           o == IF first THEN <<[msg |-> i, to |-> r, at |-> at]>> ELSE <<>>
           p == OpenPost(i, r, first)
           e == IF first THEN <<EventIs("Opened", r, at, "")>> ELSE <<>>
<1>1. Grows(i, r, f, o, <<>>, p, e) /\ DOMAIN outbound' = DOMAIN outbound
  BY OpenGrows, HandledSame
<1>2. Reachable(i, r) /\ DeliveredBy(i, r, at) /\ UNCHANGED <<stream, now, bounces>>
  BY DEF Open
<1>3. r \in Recipients /\ at \in Instants /\ "Opened" \in EventTypes /\ "" \in Details
  BY HandledTyped DEF EventTypes, Details
<1>4. EventIs("Opened", r, at, "") \in Event
  BY <1>3, SameMessagesIs
<1>5. e = <<>> \/ \E x \in Event : e = <<x>> /\ x.type = "Opened" /\ x.to = r /\ x.at = at
  <2>1. PICK x \in Event : x = EventIs("Opened", r, at, "")
    BY <1>4, Zenon
  <2>2. PICK d : x = EventIs("Opened", r, at, d)
    BY <2>1, Zenon
  <2>3. x.type = "Opened" /\ x.to = r /\ x.at = at
    BY <2>2, EventFields
  <2>4. e = <<>> \/ e = <<x>>
    BY <2>1, Zenon
  <2> HIDE DEF e
  <2> QED BY <2>3, <2>4
<1> HIDE DEF f, o, p, e
<1> QED BY <1>1, <1>2, <1>5, ReachedStory

\* A click comes after its delivery.
LEMMA ClickStory ==
  ASSUME TypeOK, Story, NEW i \in DOMAIN outbound,
         NEW r \in ToSet(outbound[i].draft.to), NEW at \in outbound[i].at..now,
         NEW location \in Locations, NEW link \in Links, Click(i, r, at, location, link)
  PROVE  Story'
<1> DEFINE first == FirstClick(i, r, link)
           f == <<ClickFact(i, r, at, location, link, first)>>
           c == IF first THEN <<[msg |-> i, to |-> r, at |-> at, link |-> link]>> ELSE <<>>
           p == Post("Click", i, r)
           e == IF first THEN <<EventIs("LinkClicked", r, at, link)>> ELSE <<>>
<1>1. Grows(i, r, f, <<>>, c, p, e) /\ DOMAIN outbound' = DOMAIN outbound
  BY ClickGrows, HandledSame
<1>2. Reachable(i, r) /\ DeliveredBy(i, r, at) /\ UNCHANGED <<stream, now, bounces>>
  BY DEF Click
<1>3. r \in Recipients /\ at \in Instants /\ "LinkClicked" \in EventTypes /\ link \in Details
  BY HandledTyped DEF EventTypes, Details
<1>4. EventIs("LinkClicked", r, at, link) \in Event
  BY <1>3, SameMessagesIs
<1>5. e = <<>> \/ \E x \in Event : e = <<x>> /\ x.type = "LinkClicked" /\ x.to = r /\ x.at = at
  BY <1>4, OneEvent
<1> HIDE DEF f, c, p, e
<1> QED BY <1>1, <1>2, <1>5, ReachedStory

\* A bounce is stored as it is shown.
LEMMA BounceStoryGoesOn ==
  ASSUME TypeOK, Story, NEW i \in DOMAIN outbound, NEW r \in ToSet(outbound[i].draft.to),
         NEW type \in Reported, NEW at \in outbound[i].at..now, Bounce(i, r, type, at)
  PROVE  Story'
<1> DEFINE changed == Deactivates(type) /\ r \notin DOMAIN rows
           f == BounceFacts(type, at)
           p == BouncePosts(i, r, type, changed)
           e == BounceStory(r, type, at, changed)
           b == [msg |-> i, to |-> r, type |-> type]
<1>1. Grows(i, r, f, <<>>, <<>>, p, e) /\ DOMAIN outbound' = DOMAIN outbound /\ UNCHANGED <<stream, now>>
  BY BounceGrows, HandledSame DEF Bounce
<1>2. i \in Nat /\ r \in Recipients /\ at \in Instants /\ changed \in BOOLEAN
  BY HandledTyped DEF Deactivates
<1>3. b \in Row /\ bounces \in Seq(Row) /\ bounces' = Append(bounces, b)
  BY <1>2 DEF Row, TypeOK, Bounce
<1>4. b.msg = i /\ b.to = r /\ b.type = type
  OBVIOUS
<1> HIDE DEF b, changed
<1>5. /\ \A n \in DOMAIN bounces : n \in DOMAIN bounces' /\ bounces'[n] = bounces[n]
      /\ Len(bounces) + 1 \in DOMAIN bounces' /\ bounces'[Len(bounces) + 1] = b
  BY <1>3, Appended
<1>6. \A j \in DOMAIN outbound : \A q : Bounced(j, q) => BouncedIn(bounces', j, q)
  BY <1>5, Elements DEF Bounced, BouncedIn
<1>7. type \in Undelivered => BouncedIn(bounces', i, r)
  <2>1. b \in ToSet(bounces')
    BY <1>5, Elements
  <2> QED BY <1>4, <2>1 DEF BouncedIn
<1>8. \A n \in DOMAIN p : p[n].record \notin {"Open", "Click"}
  BY <1>2, BouncePostsIs
<1>9. \A n \in DOMAIN e : /\ e[n].type \notin {"Delivered", "Opened", "LinkClicked"}
                          /\ e[n].type = "Bounced" => e[n].detail = type
  <2>1. /\ e[1] = EventIs(Shown(type), r, at, type)
        /\ \A n \in DOMAIN e : n = 1 \/ e[n] = EventIs("SubscriptionChanged", r, at, "")
    BY <1>2, BounceStoryIs
  <2> HIDE DEF e
  <2>2. PICK d : \A n \in DOMAIN e : n = 1 \/ e[n] = EventIs("SubscriptionChanged", r, at, d)
    BY <2>1, Zenon
  <2>3. /\ EventIs(Shown(type), r, at, type).type \in {"Transient", "Bounced"}
        /\ EventIs(Shown(type), r, at, type).detail = type
    BY EventFields DEF Shown, Reported
  <2>4. EventIs("SubscriptionChanged", r, at, d).type = "SubscriptionChanged"
    BY EventFields
  <2>5. e[1] = EventIs(Shown(type), r, at, type)
    BY <2>1, Zenon
  <2> QED BY <2>2, <2>3, <2>4, <2>5
<1> HIDE DEF f, p, e
<1>10. Quiet(e)
  BY <1>9 DEF Quiet
<1> QED BY <1>1, <1>6, <1>7, <1>8, <1>9, <1>10, StoryKept

\* A new message has no story.
LEMMA SendStory ==
  ASSUME TypeOK, Story, NEW draft \in Drafts, Send(draft)
  PROVE  Story'
<1> DEFINE f == [n \in DOMAIN draft.to |-> SentFact(draft)]
           new == Len(outbound) + 1
<1>1. /\ Grows(0, 0, f, <<>>, <<>>, <<>>, <<>>)
      /\ DOMAIN outbound' = DOMAIN outbound \union {new}
      /\ outbound'[new].events = <<>>
  BY SendGrows, Zenon
<1> HIDE DEF f, new
<1>2. UNCHANGED <<now, stream, bounces, posts>> /\ stream # Gone
  BY DEF Send
<1>3. \A j \in DOMAIN outbound : outbound'[j].events = outbound[j].events /\ outbound'[j].at = outbound[j].at
  <2>1. \A j \in DOMAIN outbound : outbound[j].events \o <<>> = outbound[j].events
    BY StoresTyped, ConcatEmptySeq
  <2> QED BY <1>1, <2>1 DEF Grows, SameMessages
<1>4. \A j \in DOMAIN outbound' : j \notin DOMAIN outbound => outbound'[j].events = <<>>
  BY <1>1
<1>5. PostsHold'
  BY <1>2 DEF Story, StoryHolds, PostsHold
<1>6. EventsHold'
  BY <1>2, <1>3, <1>4 DEF Story, StoryHolds, EventsHold
<1>7. DeliveryTold'
  BY <1>2, <1>3, <1>4 DEF Story, DeliveryTold
<1>8. BouncesKept'
  BY <1>2, <1>3, <1>4 DEF Story, BouncesKept, Bounced
<1>9. StreamSound'
  BY <1>2 DEF StreamSound, Gone
<1> QED BY <1>5, <1>6, <1>7, <1>8, <1>9 DEF Story, StoryHolds

\* What takes the bounces takes the stream, too.
LEMMA OthersStory ==
  ASSUME TypeOK, Story,
         \/ Purge \/ CreateStream \/ Tick \/ UNCHANGED vars
         \/ \E list \in Lists, count \in PageSizes : ReadPage(list, count)
  PROVE  Story'
<1>1. UNCHANGED <<outbound, facts, posts, opens, clicks>>
  BY DEF Purge, CreateStream, Tick, ReadPage, vars
<1>2. \A j \in DOMAIN outbound : outbound[j].at \in Nat /\ outbound[j].at <= MaxTime
  <2>1. \A j \in DOMAIN outbound : outbound[j].at \in Instants
    BY StoresTyped DEF Message
  <2>2. MaxTime \in Nat
    BY TrackingAssumption
  <2> QED BY <2>1, <2>2 DEF Instants
<1>3. now \in Nat /\ MaxTime \in Nat /\ now <= MaxTime
  BY TrackingAssumption DEF TypeOK, Instants
<1>4. PostsHold' /\ DeliveryTold'
  BY <1>1 DEF Story, StoryHolds, PostsHold, DeliveryTold
<1>5. CASE UNCHANGED <<now, stream, bounces>>
  BY <1>1, <1>4, <1>5
     DEF Story, StoryHolds, EventsHold, BouncesKept, Bounced, StreamSound, Gone
<1>6. CASE Purge
  <2>1. stream' = MaxTime + 1 /\ now' = now /\ \A j \in DOMAIN outbound : outbound[j].at < now
    BY <1>6 DEF Purge, Gone
  <2>2. \A j \in DOMAIN outbound : ~ (stream' <= outbound[j].at)
    BY <1>2, <1>3, <2>1
  <2>3. EventsHold' /\ BouncesKept'
    BY <1>1, <2>2 DEF Story, StoryHolds, EventsHold, BouncesKept
  <2>4. StreamSound'
    BY <1>1, <2>1 DEF StreamSound
  <2> QED BY <1>4, <2>3, <2>4 DEF Story, StoryHolds
<1>7. CASE CreateStream
  <2>1. stream' = now /\ now' = now /\ \A j \in DOMAIN outbound : outbound[j].at < now
    BY <1>7 DEF CreateStream, Story, StreamSound
  <2>2. \A j \in DOMAIN outbound : ~ (stream' <= outbound[j].at)
    BY <1>2, <1>3, <2>1
  <2>3. EventsHold' /\ BouncesKept'
    BY <1>1, <2>2 DEF Story, StoryHolds, EventsHold, BouncesKept
  <2>4. StreamSound'
    BY <1>1, <2>1 DEF StreamSound
  <2> QED BY <1>4, <2>3, <2>4 DEF Story, StoryHolds
<1>8. CASE Tick
  <2>1. UNCHANGED <<stream, bounces>> /\ now' = now + 1
    BY <1>8 DEF Tick
  <2>2. EventsHold' /\ BouncesKept'
    BY <1>1, <2>1 DEF Story, StoryHolds, EventsHold, BouncesKept, Bounced
  <2>3. StreamSound'
    BY <1>1, <1>2, <1>3, <2>1 DEF Story, StreamSound, Gone
  <2> QED BY <1>4, <2>2, <2>3 DEF Story, StoryHolds
<1> QED BY <1>5, <1>6, <1>7, <1>8 DEF ReadPage, vars

\* There is no story at first.
LEMMA InitStory == Init => Story
<1> SUFFICES ASSUME Init PROVE Story
  OBVIOUS
<1>1. stream # Gone
  BY TrackingAssumption DEF Init, Gone
<1> QED BY <1>1 DEF Init, Story, StoryHolds, PostsHold, EventsHold, DeliveryTold, BouncesKept, StreamSound

\* Every step goes on with the story.
LEMMA NextStory ==
  ASSUME TypeOK, Story, [Next]_vars
  PROVE  Story'
<1>1. BounceTypes \subseteq Reported
  BY TrackingAssumption
<1>2. ASSUME NEW i \in DOMAIN outbound, Handled(i) PROVE Story'
  BY <1>1, <1>2, SkippedStory, DeliverStory, OpenStory, ClickStory, BounceStoryGoesOn DEF Handled
<1> QED BY <1>2, SendStory, OthersStory DEF Next

-----------------------------------------------------------------------------
(***************************************************************************)
(* Paging.                                                                 *)
(***************************************************************************)
\* The items of a list stay where they are, with their instants.
ItemsKept(list, items) ==
  /\ DOMAIN Items(list) \subseteq DOMAIN items
  /\ \A p \in DOMAIN Items(list) : items[p].at = Items(list)[p].at

\* What a client saw first is still in its list.
FirstKnown == reader.on => reader.first \subseteq DOMAIN Items(reader.list)

\* The same set after a step is finite, too.
LEMMA ListedFinite ==
  ASSUME TypeOK', NEW list \in Lists
  PROVE  IsFiniteSet(Listed(list)')
<1>1. list = "messages" \/ list = "opens" \/ list = "clicks"
  BY TrackingAssumption
<1>2. /\ list = "messages" => Items(list)' = outbound'
      /\ list = "opens" => Items(list)' = opens'
      /\ list = "clicks" => Items(list)' = clicks'
  BY DEF Items
<1>3. Len(Items(list)') \in Nat /\ DOMAIN (Items(list)') = 1..Len(Items(list)')
  BY <1>1, <1>2, LenProperties DEF TypeOK
<1> DEFINE length == Len(Items(list)')
<1>4. Listed(list)' \in SUBSET (1..length)
  BY <1>3 DEF Listed
<1>5. 1 \in Int /\ length \in Int
  BY <1>3
<1> HIDE DEF length
<1> QED BY <1>4, <1>5, FS_Interval, FS_Subset

\* The stores of a list only grow.
LEMMA StoresGrow ==
  ASSUME TypeOK, [Next]_vars, NEW list \in Lists
  PROVE  ItemsKept(list, Items(list)')
<1> DEFINE Grown == \E i, r, f, o, c, p, e : Grows(i, r, f, o, c, p, e)
<1>1. BounceTypes \subseteq Reported
  BY TrackingAssumption
<1>2. ASSUME NEW i \in DOMAIN outbound, NEW r \in ToSet(outbound[i].draft.to)
      PROVE  /\ SkippedBySmtp(i, r) => Grown
             /\ \A at \in outbound[i].at..now :
                  /\ Deliver(i, r, at) => Grown
                  /\ Open(i, r, at) => Grown
                  /\ \A location \in Locations, link \in Links : Click(i, r, at, location, link) => Grown
                  /\ \A type \in BounceTypes : Bounce(i, r, type, at) => Grown
  <2>1. SkippedBySmtp(i, r) => Grown
    BY SkippedGrows
  <2>2. ASSUME NEW at \in outbound[i].at..now, Deliver(i, r, at) PROVE Grown
    BY <2>2, DeliverGrows
  <2>3. ASSUME NEW at \in outbound[i].at..now, Open(i, r, at) PROVE Grown
    BY <2>3, OpenGrows
  <2>4. ASSUME NEW at \in outbound[i].at..now, NEW location \in Locations, NEW link \in Links,
               Click(i, r, at, location, link)
        PROVE  Grown
    BY <2>4, ClickGrows
  <2>5. ASSUME NEW at \in outbound[i].at..now, NEW type \in BounceTypes, Bounce(i, r, type, at) PROVE Grown
    <3> DEFINE changed == Deactivates(type) /\ r \notin DOMAIN rows
    <3>1. type \in Reported
      BY <1>1
    <3>2. Grows(i, r, BounceFacts(type, at), <<>>, <<>>, BouncePosts(i, r, type, changed),
                BounceStory(r, type, at, changed))
      BY <2>5, <3>1, BounceGrows
    <3> QED BY <3>2
  <2> HIDE DEF Grown
  <2> QED BY <2>1, <2>2, <2>3, <2>4, <2>5
<1>3. ASSUME NEW draft \in Drafts, Send(draft) PROVE Grown
  <2>1. Grows(0, 0, [n \in DOMAIN draft.to |-> SentFact(draft)], <<>>, <<>>, <<>>, <<>>)
    BY <1>3, SendGrows
  <2> QED BY <2>1
<1>4. ASSUME UNCHANGED <<outbound, facts, posts, opens, clicks>> PROVE Grown
  <2>1. Grows(0, 0, <<>>, <<>>, <<>>, <<>>, <<>>)
    BY <1>4, OthersGrow
  <2> QED BY <2>1
<1>5. Grown
  <2> HIDE DEF Grown
  <2>1. ASSUME NEW i \in DOMAIN outbound, Handled(i) PROVE Grown
    BY <1>2, <2>1 DEF Handled
  <2>2. Purge \/ CreateStream \/ Tick \/ UNCHANGED vars
          \/ (\E l \in Lists, count \in PageSizes : ReadPage(l, count))
          => UNCHANGED <<outbound, facts, posts, opens, clicks>>
    BY DEF Purge, CreateStream, Tick, ReadPage, vars
  <2> QED BY <1>3, <1>4, <2>1, <2>2 DEF Next
<1>6. PICK i, r, f, o, c, p, e : Grows(i, r, f, o, c, p, e)
  BY <1>5
<1> HIDE DEF Grown
<1>7. /\ opens' = opens \o o /\ clicks' = clicks \o c /\ o \in Seq(KeptOpen) /\ c \in Seq(KeptClick)
      /\ DOMAIN outbound \subseteq DOMAIN outbound'
      /\ \A j \in DOMAIN outbound : outbound'[j].at = outbound[j].at
  BY <1>6 DEF Grows, Records, SameMessages
<1>8. /\ DOMAIN opens \subseteq DOMAIN opens' /\ \A n \in DOMAIN opens : opens'[n] = opens[n]
      /\ DOMAIN clicks \subseteq DOMAIN clicks' /\ \A n \in DOMAIN clicks : clicks'[n] = clicks[n]
  <2>1. opens \in Seq(KeptOpen) /\ clicks \in Seq(KeptClick)
    BY StoresTyped
  <2>2. DOMAIN opens \subseteq DOMAIN opens' /\ \A n \in DOMAIN opens : opens'[n] = opens[n]
    BY <1>7, <2>1, Longer
  <2>3. DOMAIN clicks \subseteq DOMAIN clicks' /\ \A n \in DOMAIN clicks : clicks'[n] = clicks[n]
    BY <1>7, <2>1, Longer
  <2> QED BY <2>2, <2>3
<1>9. list = "messages" \/ list = "opens" \/ list = "clicks"
  BY TrackingAssumption
<1>10. CASE list = "messages"
  <2>1. Items(list) = outbound /\ Items(list)' = outbound'
    BY <1>10 DEF Items
  <2> QED BY <1>7, <2>1 DEF ItemsKept
<1>11. CASE list = "opens"
  <2>1. Items(list) = opens /\ Items(list)' = opens'
    BY <1>11 DEF Items
  <2> QED BY <1>8, <2>1 DEF ItemsKept
<1>12. CASE list = "clicks"
  <2>1. Items(list) = clicks /\ Items(list)' = clicks'
    BY <1>12 DEF Items
  <2> QED BY <1>8, <2>1 DEF ItemsKept
<1> QED BY <1>9, <1>10, <1>11, <1>12

\* The retained items at or before one that stays retained stay there.
LEMMA PlaceStays ==
  ASSUME TypeOK, TypeOK', NEW list \in Lists, ItemsKept(list, Items(list)'), now <= now',
         NEW p \in DOMAIN Items(list), now' - Items(list)[p].at <= Retention
  PROVE  Place(list, p) <= Place(list, p)' /\ Place(list, p) \in Nat /\ Place(list, p)' \in Nat
<1> DEFINE items == Items(list)
           after == Items(list)'
           Q == {q \in Listed(list) : q = p \/ NewestFirst(items, q, p)}
           R == {q \in Listed(list)' : q = p \/ NewestFirst(after, q, p)}
<1>1. /\ Listed(list) = {q \in DOMAIN items : now - items[q].at <= Retention}
      /\ Listed(list)' = {q \in DOMAIN after : now' - after[q].at <= Retention}
  BY DEF Listed, Retained
<1>2. /\ \A q \in DOMAIN items : items[q].at \in Nat
      /\ now \in Nat /\ now' \in Nat /\ Retention \in Nat
  <2>1. \A q \in DOMAIN items : items[q].at \in Instants
    BY ListedTyped
  <2>2. now \in Instants /\ now' \in Instants /\ Instants \subseteq Nat
    BY DEF TypeOK, Instants
  <2> QED BY <2>1, <2>2, TrackingAssumption
<1>3. DOMAIN items \subseteq DOMAIN after /\ \A q \in DOMAIN items : after[q].at = items[q].at
  BY DEF ItemsKept
<1>4. IsFiniteSet(Listed(list)) /\ IsFiniteSet(Listed(list)')
  BY ListedTyped, ListedFinite
<1>5. Place(list, p) = Cardinality(Q) /\ Place(list, p)' = Cardinality(R)
  BY DEF Place
<1> HIDE DEF items, after
<1>6. Q \subseteq R
  <2> SUFFICES ASSUME NEW q \in Q PROVE q \in R
    OBVIOUS
  <2>1. q \in DOMAIN items /\ (q = p \/ NewestFirst(items, q, p))
    BY <1>1
  <2>2. items[p].at <= items[q].at
    BY <1>2, <2>1 DEF NewestFirst, items
  <2>3. now' - items[p].at <= Retention
    BY DEF items
  <2>4. now' - items[q].at <= Retention
    BY <1>2, <2>1, <2>2, <2>3 DEF items
  <2>5. q \in Listed(list)'
    BY <1>1, <1>3, <2>1, <2>4
  <2>6. p \in DOMAIN items
    BY DEF items
  <2>7. q = p \/ NewestFirst(after, q, p)
    BY <1>3, <2>1, <2>6 DEF NewestFirst
  <2> QED BY <2>5, <2>7
<1>7. IsFiniteSet(Q) /\ IsFiniteSet(R)
  <2>1. Q \in SUBSET Listed(list) /\ R \in SUBSET (Listed(list)')
    OBVIOUS
  <2> HIDE DEF Q, R
  <2> QED BY <1>4, <2>1, FS_Subset
<1> HIDE DEF Q, R
<1>8. Cardinality(Q) \in Nat /\ Cardinality(R) \in Nat /\ Cardinality(Q) <= Cardinality(R)
  BY <1>6, <1>7, FS_CardinalityType, FS_Subset
<1> QED BY <1>5, <1>8

\* A reader that is on pages through one of the lists.
LEMMA ReaderTyped ==
  ASSUME TypeOK, reader.on
  PROVE  /\ reader.list \in Lists /\ reader.offset \in Nat
         /\ reader.seen \in SUBSET Nat /\ reader.first \in SUBSET Nat
<1>1. reader # Idle
  BY DEF Idle
<1>2. reader \in [on: {TRUE}, list: Lists, offset: Nat, seen: SUBSET Nat, first: SUBSET Nat]
  BY <1>1 DEF TypeOK
<1> QED BY <1>2

\* What is retained later is retained now.
LEMMA StillRetained ==
  ASSUME NEW today \in Nat, NEW later \in Nat, NEW at \in Nat, NEW span \in Nat,
         today <= later, later - at <= span
  PROVE  today - at <= span
OBVIOUS

\* Where the reader waits, the items it has yet to see do not move before its offset.
LEMMA OthersPage ==
  ASSUME TypeOK, TypeOK', [Next]_vars, PagingMissesNone, FirstKnown, reader' = reader, now <= now'
  PROVE  PagingMissesNone' /\ FirstKnown'
<1>1. CASE ~ reader.on
  BY <1>1 DEF PagingMissesNone, FirstKnown
<1>2. CASE reader.on
  <2>1. PICK list \in Lists : list = reader.list
    BY <1>2, ReaderTyped
  <2>2. reader.offset \in Nat
    BY <1>2, ReaderTyped
  <2>3. ItemsKept(list, Items(list)')
    BY <2>1, StoresGrow
  <2>4. reader.first \subseteq DOMAIN Items(list)
    BY <1>2, <2>1 DEF FirstKnown
  <2>5. ASSUME NEW p \in reader.first, p \notin reader.seen, now' - Items(list)'[p].at <= Retention
        PROVE  reader.offset < Place(list, p)'
    <3>1. p \in DOMAIN Items(list) /\ Items(list)'[p].at = Items(list)[p].at
      BY <2>3, <2>4 DEF ItemsKept
    <3>2. now' - Items(list)[p].at <= Retention
      BY <2>5, <3>1
    <3>3. now - Items(list)[p].at <= Retention
      <4>1. Items(list)[p].at \in Instants
        BY <3>1, ListedTyped
      <4>2. Instants \subseteq Nat /\ now \in Instants /\ now' \in Instants /\ Retention \in Nat
        BY TrackingAssumption DEF TypeOK, Instants
      <4>3. now \in Nat /\ now' \in Nat /\ Items(list)[p].at \in Nat
        BY <4>1, <4>2, Zenon
      <4> QED BY <3>2, <4>2, <4>3, StillRetained
    <3>4. reader.offset < Place(list, p)
      BY <1>2, <2>1, <2>5, <3>3 DEF PagingMissesNone, Retained
    <3>5. Place(list, p) <= Place(list, p)' /\ Place(list, p) \in Nat /\ Place(list, p)' \in Nat
      BY <2>3, <3>1, <3>2, PlaceStays
    <3> QED BY <2>2, <3>4, <3>5
  <2>6. reader.first \subseteq DOMAIN (Items(list)')
    BY <2>3, <2>4 DEF ItemsKept
  <2>7. reader'.list = list /\ reader'.first = reader.first /\ reader'.seen = reader.seen
        /\ reader'.offset = reader.offset
    BY <2>1
  <2>8. FirstKnown'
    BY <2>6, <2>7 DEF FirstKnown
  <2>9. PagingMissesNone'
    BY <2>5, <2>7 DEF PagingMissesNone, Retained
  <2> QED BY <2>8, <2>9
<1> QED BY <1>1, <1>2

\* The place of an item counts it, so it is from 1 on.
LEMMA PlaceIs ==
  ASSUME TypeOK, NEW list \in Lists
  PROVE  \A p \in Listed(list) : Place(list, p) \in Nat /\ 0 < Place(list, p)
<1> TAKE p \in Listed(list)
<1> DEFINE Q == {q \in Listed(list) : q = p \/ NewestFirst(Items(list), q, p)}
<1>1. Q \in SUBSET Listed(list) /\ p \in Q
  OBVIOUS
<1>2. Place(list, p) = Cardinality(Q)
  BY DEF Place
<1> HIDE DEF Q
<1>3. IsFiniteSet(Q)
  BY <1>1, ListedTyped, FS_Subset
<1>4. Cardinality(Q) \in Nat /\ Cardinality(Q) # 0
  BY <1>1, <1>3, FS_CardinalityType, FS_EmptySet
<1> QED BY <1>2, <1>4

\* A page takes the items from the offset to its end.
LEMMA ReadPageMisses ==
  ASSUME TypeOK, PagingMissesNone, FirstKnown, NEW list \in Lists, NEW count \in PageSizes,
         ReadPage(list, count)
  PROVE  PagingMissesNone' /\ FirstKnown'
<1> DEFINE begun == IF reader.on THEN reader
                    ELSE [on |-> TRUE, list |-> list, offset |-> 0, seen |-> {},
                          first |-> Listed(list)]
           end == begun.offset + count
           page == Page(list, begun.offset, count)
<1>1. /\ begun.list = list
      /\ reader' = IF end > MaxWindow \/ page = {} THEN Idle
                   ELSE [begun EXCEPT !.offset = end, !.seen = @ \union page]
      /\ UNCHANGED <<now, outbound, opens, clicks>>
  BY DEF ReadPage
<1>2. Items(list)' = Items(list) /\ now' = now
  BY <1>1 DEF Items
<1>3. \A p : Place(list, p)' = Place(list, p)
  BY <1>2 DEF Place, Listed, Retained
<1>4. begun \in [on: {TRUE}, list: Lists, offset: Nat, seen: SUBSET Nat, first: SUBSET Nat]
  <2>1. CASE reader.on
    <3>1. reader # Idle
      BY <2>1 DEF Idle
    <3> QED BY <2>1, <3>1 DEF TypeOK
  <2>2. CASE ~ reader.on
    <3>1. Listed(list) \subseteq Nat
      BY ListedTyped DEF Listed
    <3> QED BY <2>2, <3>1
  <2> QED BY <2>1, <2>2
<1>5. begun.first \subseteq DOMAIN Items(list)
  <2>1. CASE reader.on
    BY <1>1, <2>1 DEF FirstKnown
  <2>2. CASE ~ reader.on
    BY <2>2 DEF Listed
  <2> QED BY <2>1, <2>2
<1>6. \A p \in begun.first : \/ p \in begun.seen
                             \/ ~ (now - Items(list)[p].at <= Retention)
                             \/ begun.offset < Place(list, p)
  <2>1. CASE reader.on
    BY <1>1, <2>1 DEF PagingMissesNone, Retained
  <2>2. CASE ~ reader.on
    <3>1. begun.first = Listed(list) /\ begun.offset = 0
      BY <2>2
    <3> QED BY <3>1, PlaceIs
  <2> QED BY <2>1, <2>2
<1> HIDE DEF begun
<1>7. CASE reader' = Idle
  BY <1>7 DEF PagingMissesNone, FirstKnown, Idle
<1>8. CASE reader' # Idle
  <2>1. /\ reader'.on /\ reader'.list = list /\ reader'.first = begun.first
        /\ reader'.offset = end /\ reader'.seen = begun.seen \union page
    BY <1>1, <1>4, <1>8
  <2>2. ASSUME NEW p \in begun.first, p \notin begun.seen, p \notin page,
               now - Items(list)[p].at <= Retention
        PROVE  end < Place(list, p)
    <3>1. p \in Listed(list)
      BY <1>5, <2>2 DEF Listed, Retained
    <3>2. begun.offset < Place(list, p)
      BY <1>6, <2>2
    <3>3. ~ (Place(list, p) <= begun.offset + count)
      BY <2>2, <3>1, <3>2 DEF Page
    <3>4. Place(list, p) \in Nat /\ begun.offset \in Nat /\ count \in Nat
      BY <1>4, <3>1, PlaceIs, TrackingAssumption
    <3> QED BY <3>3, <3>4
  <2> HIDE DEF page, end
  <2>3. FirstKnown'
    BY <1>2, <1>5, <2>1 DEF FirstKnown
  <2>4. PagingMissesNone'
    BY <1>2, <1>3, <2>1, <2>2 DEF PagingMissesNone, Retained
  <2> QED BY <2>3, <2>4
<1> QED BY <1>7, <1>8

\* A reader that has not begun has missed nothing.
LEMMA InitPage == Init => PagingMissesNone /\ FirstKnown
BY DEF Init, PagingMissesNone, FirstKnown, Idle

\* Only a read page moves the reader, and no step turns the time back.
LEMMA NextPage ==
  ASSUME TypeOK, TypeOK', [Next]_vars, PagingMissesNone, FirstKnown
  PROVE  PagingMissesNone' /\ FirstKnown'
<1>1. CASE \E list \in Lists, count \in PageSizes : ReadPage(list, count)
  BY <1>1, ReadPageMisses
<1>2. CASE ~ \E list \in Lists, count \in PageSizes : ReadPage(list, count)
  <2>1. ASSUME NEW i \in DOMAIN outbound, Handled(i) PROVE UNCHANGED <<now, reader>>
    <3>1. \A r : SkippedBySmtp(i, r) => UNCHANGED <<now, reader>>
      BY DEF SkippedBySmtp
    <3>2. \A r, at : Deliver(i, r, at) => UNCHANGED <<now, reader>>
      BY DEF Deliver
    <3>3. \A r, at : Open(i, r, at) => UNCHANGED <<now, reader>>
      BY DEF Open
    <3>4. \A r, at, l, location : Click(i, r, at, location, l) => UNCHANGED <<now, reader>>
      BY DEF Click
    <3>5. \A r, at, type : Bounce(i, r, type, at) => UNCHANGED <<now, reader>>
      BY DEF Bounce
    <3> QED BY <2>1, <3>1, <3>2, <3>3, <3>4, <3>5 DEF Handled
  <2>2. reader' = reader /\ (now' = now \/ now' = now + 1)
    BY <1>2, <2>1 DEF Next, Send, Purge, CreateStream, Tick, vars
  <2>3. now \in Nat
    BY DEF TypeOK, Instants
  <2>4. now <= now'
    BY <2>2, <2>3
  <2> QED BY <2>2, <2>4, OthersPage
<1> QED BY <1>1, <1>2

-----------------------------------------------------------------------------
(***************************************************************************)
(* Counting.                                                               *)
(***************************************************************************)
\* Sets whose elements a function pairs have one size.
LEMMA SameSize ==
  ASSUME NEW S, IsFiniteSet(S), NEW T, NEW f \in [S -> T],
         \A x, y \in S : f[x] = f[y] => x = y, \A z \in T : \E x \in S : f[x] = z
  PROVE  IsFiniteSet(T) /\ Cardinality(T) = Cardinality(S)
<1>1. f \in Bijection(S, T)
  BY DEF Bijection, Injection, Surjection, IsInjective
<1> QED BY <1>1, FS_Bijection DEF ExistsBijection

\* A set that is mapped one to one into another is no larger.
LEMMA NotLarger ==
  ASSUME NEW S, NEW T, IsFiniteSet(T), NEW f \in [S -> T], \A x, y \in S : f[x] = f[y] => x = y
  PROVE  IsFiniteSet(S) /\ Cardinality(S) <= Cardinality(T)
<1>1. f \in Injection(S, T)
  BY DEF Injection, IsInjective
<1> QED BY <1>1, FS_Injection

\* A sum over a finite set counts the elements of a set in the parts that a
\* function makes of it.
LEMMA SumCounts ==
  ASSUME NEW S, IsFiniteSet(S), NEW C, IsFiniteSet(C), NEW g \in [C -> S], NEW f \in [S -> Nat],
         \A x \in S : f[x] = Cardinality({c \in C : g[c] = x})
  PROVE  SumFunction(f) = Cardinality(C)
<1> DEFINE part(s) == {c \in C : g[c] \in s}
           pick(s) == CHOOSE x \in s : TRUE
           h == [s \in SUBSET S |-> Cardinality(part(s))]
           sums(k) == k = [s \in SUBSET S |-> IF s = {} THEN 0 ELSE f[pick(s)] + k[s \ {pick(s)}]]
           F == CHOOSE k : sums(k)
<1>1. SumFunction(f) = F[S]
  BY DEF SumFunction, SumFunctionOnSet, FoldFunctionOnSet, MapThenFoldSet
<1>2. ASSUME NEW s \in SUBSET S
      PROVE  IsFiniteSet(part(s)) /\ h[s] \in Nat /\ h[s] = Cardinality(part(s))
  <2>1. IsFiniteSet(part(s))
    BY FS_Subset
  <2> QED BY <2>1, FS_CardinalityType
<1>3. \A s \in SUBSET S : s # {} => pick(s) \in s /\ s \ {pick(s)} \in SUBSET S
  OBVIOUS
<1> HIDE DEF pick
<1>4. ASSUME NEW s \in SUBSET S, s # {}
      PROVE  h[s] = f[pick(s)] + h[s \ {pick(s)}]
  <2> DEFINE x == pick(s)
             one == {c \in C : g[c] = x}
             rest == part(s \ {x})
  <2>1. x \in s /\ x \in S /\ s \ {x} \in SUBSET S
    BY <1>3, <1>4
  <2>2. part(s) = one \union rest /\ one \intersect rest = {}
    BY <2>1
  <2>3. IsFiniteSet(one) /\ Cardinality(one) \in Nat /\ f[x] = Cardinality(one)
    <3>1. IsFiniteSet(one)
      BY FS_Subset
    <3> QED BY <2>1, <3>1, FS_CardinalityType
  <2>4. IsFiniteSet(rest) /\ h[s \ {x}] \in Nat /\ h[s \ {x}] = Cardinality(rest)
    BY <1>2, <2>1
  <2>5. h[s] = Cardinality(part(s))
    BY <1>2
  <2> HIDE DEF x, one, rest, h, part
  <2>6. Cardinality(one \union rest) = Cardinality(one) + Cardinality(rest) - Cardinality({})
    BY <2>2, <2>3, <2>4, FS_Union
  <2>7. h[s] = f[x] + h[s \ {x}]
    BY <2>2, <2>3, <2>4, <2>5, <2>6, FS_EmptySet
  <2> QED BY <2>7 DEF x
<1>5. h[{}] = 0
  <2>1. part({}) = {}
    OBVIOUS
  <2>2. h[{}] = Cardinality(part({}))
    BY <1>2
  <2> HIDE DEF h, part
  <2> QED BY <2>1, <2>2, FS_EmptySet
<1>6. sums(h)
  <2>1. h = [s \in SUBSET S |-> h[s]]
    OBVIOUS
  <2> HIDE DEF h
  <2>2. \A s \in SUBSET S : h[s] = IF s = {} THEN 0 ELSE f[pick(s)] + h[s \ {pick(s)}]
    BY <1>4, <1>5
  <2> QED BY <2>1, <2>2
<1> HIDE DEF h, part
<1>7. sums(F)
  <2>1. \E k : sums(k)
    BY <1>6
  <2> HIDE DEF sums
  <2> QED BY <2>1
<1>8. \A s \in SUBSET S : F[s] = IF s = {} THEN 0 ELSE f[pick(s)] + F[s \ {pick(s)}]
  <2> HIDE DEF F
  <2> QED BY <1>7
<1> HIDE DEF F
\* They agree: a set of least cardinality for which they do not has one to remove.
<1>9. \A s \in SUBSET S : F[s] = h[s]
  <2> DEFINE bad == {s \in SUBSET S : F[s] # h[s]}
  <2> SUFFICES ASSUME bad # {} PROVE FALSE
    OBVIOUS
  <2>1. \A s \in SUBSET S : IsFiniteSet(s) /\ Cardinality(s) \in Nat
    BY FS_Subset, FS_CardinalityType
  <2>2. PICK s \in bad : \A t \in bad : t \in SUBSET s => t = s
    <3>1. bad \subseteq FiniteSubsetsOf(S)
      BY <2>1 DEF FiniteSubsetsOf
    <3>2. IsWellFoundedOn(StrictSubsetOrdering(S), FiniteSubsetsOf(S))
      BY FS_StrictSubsetOrderingWellFounded
    <3>3. PICK s \in bad : \A t \in bad : ~ (<<t, s>> \in StrictSubsetOrdering(S))
      BY <3>1, <3>2, WFMin
    <3>4. ASSUME NEW t \in bad, t \in SUBSET s
          PROVE  t = s
      BY <3>3, <3>4 DEF StrictSubsetOrdering
    <3> QED BY <3>4
  <2>3. s \in SUBSET S /\ F[s] # h[s]
    OBVIOUS
  <2>4. CASE s = {}
    BY <1>5, <1>8, <2>3, <2>4
  <2>5. CASE s # {}
    <3>1. pick(s) \in s /\ s \ {pick(s)} \in SUBSET S
      BY <1>3, <2>3, <2>5
    <3>2. s \ {pick(s)} \notin bad
      BY <2>2, <3>1
    <3>3. F[s \ {pick(s)}] = h[s \ {pick(s)}]
      BY <3>1, <3>2
    <3> QED BY <1>4, <1>8, <2>3, <2>5, <3>3
  <2> QED BY <2>4, <2>5
<1>10. F[S] = Cardinality(C)
  <2>1. part(S) = C
    BY DEF part
  <2> QED BY <1>2, <1>9, <2>1
<1> QED BY <1>1, <1>10

\* The elements of two sets that share none.
LEMMA TwoSizes ==
  ASSUME NEW A, IsFiniteSet(A), NEW B, IsFiniteSet(B), A \intersect B = {}
  PROVE  /\ IsFiniteSet(A \union B) /\ Cardinality(A \union B) = Cardinality(A) + Cardinality(B)
         /\ Cardinality(A) \in Nat /\ Cardinality(B) \in Nat
<1>1. Cardinality(A) \in Nat /\ Cardinality(B) \in Nat
  BY FS_CardinalityType
<1>2. Cardinality(A \union B) = Cardinality(A) + Cardinality(B) - Cardinality({})
  BY FS_Union
<1> QED BY <1>1, <1>2, FS_Union, FS_EmptySet

\* How many places of a sequence hold one of X.
Count(s, X) == Cardinality(Where(s, X))

\* It is a number, of finitely many places.
LEMMA Counts ==
  ASSUME NEW S, NEW s \in Seq(S)
  PROVE  \A X : IsFiniteSet(Where(s, X)) /\ Count(s, X) \in Nat
<1>1. <<>> \in Seq(S)
  OBVIOUS
<1> QED BY <1>1, WhereKept DEF Count

\* The places of a sequence are places of a longer one.
LEMMA WhereBegins ==
  ASSUME NEW S, NEW s \in Seq(S), NEW u \in Seq(S), NEW X
  PROVE  Where(s, X) \subseteq Where(s \o u, X)
<1>1. \A n \in DOMAIN s : n \in DOMAIN (s \o u) /\ (s \o u)[n] = s[n]
  BY Longer
<1> QED BY <1>1 DEF Where

\* A longer sequence has as many places more as what was appended has.
LEMMA WhereAdds ==
  ASSUME NEW S, NEW s \in Seq(S), NEW u \in Seq(S), NEW X
  PROVE  Cardinality(Where(s \o u, X) \ Where(s, X)) = Count(u, X)
<1> DEFINE old == Where(s, X)
           all == Where(s \o u, X)
           new == all \ old
           shift == [n \in Where(u, X) |-> Len(s) + n]
<1>1. /\ Len(s) \in Nat /\ Len(u) \in Nat /\ DOMAIN s = 1..Len(s) /\ DOMAIN u = 1..Len(u)
      /\ s \o u \in Seq(S) /\ DOMAIN (s \o u) = 1..Len(s) + Len(u)
      /\ \A n \in 1..Len(s) + Len(u) : (s \o u)[n] = IF n <= Len(s) THEN s[n] ELSE u[n - Len(s)]
  BY ConcatProperties, LenProperties
<1>2. <<>> \in Seq(S)
  OBVIOUS
<1>3. IsFiniteSet(old) /\ IsFiniteSet(all) /\ IsFiniteSet(Where(u, X))
  BY <1>1, <1>2, WhereKept
<1>5. /\ shift \in [Where(u, X) -> new]
      /\ \A m, n \in Where(u, X) : shift[m] = shift[n] => m = n
      /\ \A n \in new : \E m \in Where(u, X) : shift[m] = n
  <2>1. \A n \in Where(u, X) : n \in Nat /\ shift[n] \in new
    BY <1>1 DEF Where
  <2>2. \A m, n \in Where(u, X) : shift[m] = shift[n] => m = n
    BY <1>1, <2>1 DEF Where
  <2>3. ASSUME NEW n \in new PROVE \E m \in Where(u, X) : shift[m] = n
    <3>1. n - Len(s) \in Where(u, X) /\ Len(s) + (n - Len(s)) = n
      BY <1>1 DEF Where
    <3> QED BY <3>1
  <2> QED BY <2>1, <2>2, <2>3
<1> HIDE DEF shift
<1>6. Cardinality(new) = Count(u, X) /\ IsFiniteSet(new)
  <2> HIDE DEF new
  <2> QED BY <1>3, <1>5, SameSize DEF Count
<1> QED BY <1>6

\* The count of two sequences in a row is the sum of theirs.
LEMMA CountAdds ==
  ASSUME NEW S, NEW s \in Seq(S), NEW u \in Seq(S), NEW X
  PROVE  Count(s \o u, X) = Count(s, X) + Count(u, X)
<1> DEFINE old == Where(s, X)
           all == Where(s \o u, X)
           new == all \ old
<1>1. /\ old \subseteq all /\ IsFiniteSet(old) /\ IsFiniteSet(all)
      /\ Cardinality(new) = Count(u, X) /\ Count(s, X) \in Nat /\ Count(u, X) \in Nat
  <2>1. s \o u \in Seq(S)
    BY ConcatProperties
  <2> QED BY <2>1, Counts, WhereBegins, WhereAdds
<1>2. all = old \union new /\ old \intersect new = {} /\ IsFiniteSet(new)
  BY <1>1, FS_Difference
<1> HIDE DEF old, new, all
<1>3. Cardinality(old \union new) = Cardinality(old) + Cardinality(new) - Cardinality({})
  BY <1>1, <1>2, FS_Union
<1>4. Cardinality(old) = Count(s, X) /\ Cardinality(all) = Count(s \o u, X)
  BY DEF old, all, Count
<1> QED BY <1>1, <1>2, <1>3, <1>4, FS_EmptySet

\* The counts of the shortest sequences.
LEMMA CountFew ==
  /\ \A X : Count(<<>>, X) = 0
  /\ \A x, X : Count(<<x>>, X) = IF x \in X THEN 1 ELSE 0
<1>1. ASSUME NEW X PROVE Count(<<>>, X) = 0
  BY FS_EmptySet DEF Count, Where
<1>2. ASSUME NEW x, NEW X PROVE Count(<<x>>, X) = IF x \in X THEN 1 ELSE 0
  <2>1. DOMAIN <<x>> = {1} /\ <<x>>[1] = x
    OBVIOUS
  <2>2. CASE x \in X
    <3>1. Where(<<x>>, X) = {1}
      BY <2>1, <2>2 DEF Where
    <3> QED BY <2>2, <3>1, FS_Singleton DEF Count
  <2>3. CASE x \notin X
    <3>1. Where(<<x>>, X) = {}
      BY <2>1, <2>3 DEF Where
    <3> QED BY <2>3, <3>1, FS_EmptySet DEF Count
  <2> QED BY <2>2, <2>3
<1> QED BY <1>1, <1>2

-----------------------------------------------------------------------------
(***************************************************************************)
(* The events of all messages, counted.                                    *)
(***************************************************************************)
\* The events of E, as message and place in it.
EventsIn(E) ==
  {p \in UNION {{i} \X DOMAIN outbound[i].events : i \in DOMAIN outbound} :
     outbound[p[1]].events[p[2]] \in E}

\* Those of message i in a list of messages.
EventsAt(messages, i, E) == {i} \X Where(messages[i].events, E)

\* The events of E are those of each message, now and after a step.
LEMMA EventsInAre ==
  /\ \A E : EventsIn(E) = UNION {EventsAt(outbound, i, E) : i \in DOMAIN outbound}
  /\ \A E : EventsIn(E)' = UNION {EventsAt(outbound', i, E) : i \in DOMAIN outbound'}
<1>1. ASSUME NEW E PROVE EventsIn(E) = UNION {EventsAt(outbound, i, E) : i \in DOMAIN outbound}
  <2>1. \A p \in EventsIn(E) : p[1] \in DOMAIN outbound /\ p \in EventsAt(outbound, p[1], E)
    BY DEF EventsIn, EventsAt, Where
  <2>2. \A i \in DOMAIN outbound : \A p \in EventsAt(outbound, i, E) : p \in EventsIn(E)
    BY DEF EventsIn, EventsAt, Where
  <2> QED BY <2>1, <2>2
<1>2. ASSUME NEW E PROVE EventsIn(E)' = UNION {EventsAt(outbound', i, E) : i \in DOMAIN outbound'}
  <2>1. \A p \in EventsIn(E)' : p[1] \in DOMAIN outbound' /\ p \in EventsAt(outbound', p[1], E)
    BY DEF EventsIn, EventsAt, Where
  <2>2. \A i \in DOMAIN outbound' : \A p \in EventsAt(outbound', i, E) : p \in EventsIn(E)'
    BY DEF EventsIn, EventsAt, Where
  <2> QED BY <2>1, <2>2
<1> QED BY <1>1, <1>2

\* They are finitely many.
LEMMA EventsFinite ==
  ASSUME TypeOK, NEW E
  PROVE  IsFiniteSet(EventsIn(E)) /\ Cardinality(EventsIn(E)) \in Nat
<1> DEFINE at(i) == EventsAt(outbound, i, E)
           f == [i \in DOMAIN outbound |-> at(i)]
           all == {at(i) : i \in DOMAIN outbound}
<1>1. IsFiniteSet(DOMAIN outbound)
  <2>1. DOMAIN outbound = 1..Len(outbound) /\ 1 \in Int /\ Len(outbound) \in Int
    BY StoresTyped, LenProperties
  <2> QED BY <2>1, FS_Interval
<1>2. \A T \in all : IsFiniteSet(T)
  <2> SUFFICES ASSUME NEW i \in DOMAIN outbound PROVE IsFiniteSet(at(i))
    OBVIOUS
  <2>1. outbound[i].events \in Seq(Event) /\ <<>> \in Seq(Event)
    BY StoresTyped
  <2>2. IsFiniteSet(Where(outbound[i].events, E))
    BY <2>1, WhereKept
  <2>3. IsFiniteSet({i})
    BY FS_Singleton
  <2> QED BY <2>2, <2>3, FS_Product DEF EventsAt
<1>3. IsFiniteSet(all)
  <2>1. f \in Surjection(DOMAIN outbound, all)
    <3>1. f \in [DOMAIN outbound -> all] /\ \A T \in all : \E i \in DOMAIN outbound : f[i] = T
      OBVIOUS
    <3> HIDE DEF f, all
    <3> QED BY <3>1 DEF Surjection
  <2> QED BY <1>1, <2>1, FS_Surjection
<1>4. IsFiniteSet(UNION all)
  <2> HIDE DEF all
  <2> QED BY <1>2, <1>3, FS_UNION
<1>5. EventsIn(E) = UNION all
  BY EventsInAre
<1> QED BY <1>4, <1>5, FS_CardinalityType

\* A step that appends e to one of the messages makes them as many more as e has.
LEMMA EventsInMore ==
  ASSUME TypeOK, NEW i \in DOMAIN outbound, NEW e \in Seq(Event), SameMessages(i, e),
         DOMAIN outbound' = DOMAIN outbound, NEW E
  PROVE  Cardinality(EventsIn(E)') = Cardinality(EventsIn(E)) + Count(e, E)
<1> DEFINE s == outbound[i].events
           new == Where(s \o e, E) \ Where(s, E)
           more == {i} \X new
<1>1. s \in Seq(Event) /\ <<>> \in Seq(Event)
  BY StoresTyped
<1>2. /\ Where(s, E) \subseteq Where(s \o e, E)
      /\ IsFiniteSet(Where(s \o e, E)) /\ Cardinality(new) = Count(e, E) /\ Count(e, E) \in Nat
  <2> HIDE DEF s
  <2>1. s \o e \in Seq(Event)
    BY <1>1, ConcatProperties
  <2>2. Where(s, E) \subseteq Where(s \o e, E)
    BY <1>1, WhereBegins
  <2>3. Cardinality(new) = Count(e, E)
    BY <1>1, WhereAdds
  <2>4. IsFiniteSet(Where(s \o e, E)) /\ Count(e, E) \in Nat
    BY <2>1, Counts
  <2> QED BY <2>2, <2>3, <2>4
<1>3. outbound'[i].events = s \o e /\ \A j \in DOMAIN outbound : j # i => outbound'[j].events = outbound[j].events
  <2>1. \A j \in DOMAIN outbound : outbound[j].events \o <<>> = outbound[j].events
    BY StoresTyped, ConcatEmptySeq
  <2> QED BY <2>1 DEF SameMessages
<1>4. EventsAt(outbound', i, E) = EventsAt(outbound, i, E) \union more
  BY <1>2, <1>3 DEF EventsAt
<1>5. \A j \in DOMAIN outbound : j # i => EventsAt(outbound', j, E) = EventsAt(outbound, j, E)
  BY <1>3 DEF EventsAt
<1>6. EventsIn(E)' = EventsIn(E) \union more
  <2>1. EventsIn(E) = UNION {EventsAt(outbound, j, E) : j \in DOMAIN outbound}
    BY EventsInAre
  <2>2. EventsIn(E)' = UNION {EventsAt(outbound', j, E) : j \in DOMAIN outbound}
    BY EventsInAre
  <2> HIDE DEF more
  <2> QED BY <1>4, <1>5, <2>1, <2>2
<1>7. EventsIn(E) \intersect more = {}
  BY DEF EventsIn, Where
<1>8. IsFiniteSet(more) /\ Cardinality(more) = Count(e, E)
  <2>1. IsFiniteSet(new)
    BY <1>2, FS_Difference
  <2>2. IsFiniteSet({i}) /\ Cardinality({i}) = 1
    BY FS_Singleton
  <2> HIDE DEF new
  <2>3. IsFiniteSet({i} \X new) /\ Cardinality({i} \X new) = Cardinality({i}) * Cardinality(new)
    BY <2>1, <2>2, FS_Product
  <2> QED BY <1>2, <2>2, <2>3
<1> HIDE DEF more
<1>9. IsFiniteSet(EventsIn(E)) /\ Cardinality(EventsIn(E)) \in Nat
  BY EventsFinite
<1>10. Cardinality(EventsIn(E) \union more) = Cardinality(EventsIn(E)) + Cardinality(more) - Cardinality({})
  BY <1>7, <1>8, <1>9, FS_Union
<1> QED BY <1>2, <1>6, <1>8, <1>9, <1>10, FS_EmptySet

\* A step that appends no event leaves them alone.
LEMMA EventsInSame ==
  ASSUME TypeOK, NEW i, SameMessages(i, <<>>),
         \A j \in DOMAIN outbound' \ DOMAIN outbound : outbound'[j].events = <<>>, NEW E
  PROVE  EventsIn(E)' = EventsIn(E)
<1>1. ASSUME NEW j \in DOMAIN outbound PROVE EventsAt(outbound', j, E) = EventsAt(outbound, j, E)
  <2>1. outbound[j].events \o <<>> = outbound[j].events
    BY StoresTyped, ConcatEmptySeq
  <2>2. outbound'[j].events = outbound[j].events
    BY <2>1 DEF SameMessages
  <2> QED BY <2>2 DEF EventsAt
<1>2. \A j \in DOMAIN outbound' \ DOMAIN outbound : EventsAt(outbound', j, E) = {}
  BY DEF EventsAt, Where
<1>3. DOMAIN outbound \subseteq DOMAIN outbound'
  BY DEF SameMessages
<1>4. EventsIn(E) = UNION {EventsAt(outbound, j, E) : j \in DOMAIN outbound}
  BY EventsInAre
<1>5. EventsIn(E)' = UNION {EventsAt(outbound', j, E) : j \in DOMAIN outbound'}
  BY EventsInAre
<1> QED BY <1>1, <1>2, <1>3, <1>4, <1>5

-----------------------------------------------------------------------------
(***************************************************************************)
(* What the facts and the posts count, the events show.                    *)
(***************************************************************************)
TrueBounces == {f \in Fact : f.kind = "bounce" /\ f.type # "SMTPApiError"}
SmtpBounces == {f \in Fact : f.kind = "bounce" /\ f.type = "SMTPApiError"}
FirstFacts(kind) == {f \in Fact : f.kind = kind /\ f.first}
Typed(types) == {e \in Event : e.type \in types}
BouncesShown == {e \in Event : /\ e.type \in {"Transient", "Bounced"}
                               /\ e.detail \in {"HardBounce", "SoftBounce", "Transient"}}
Recorded(records) == {p \in Posted : p.record \in records}

\* The counts of facts f, posts p and of events, of which E has N.
Balance(f, p, N(_)) ==
  /\ Count(f, TrueBounces) = N(BouncesShown)
  /\ Count(f, FirstFacts("open")) = N(Typed({"Opened"}))
  /\ Count(f, FirstFacts("click")) = N(Typed({"LinkClicked"}))
  /\ Count(p, Recorded({"Bounce", "SpamComplaint"})) =
       N(Typed({"Transient", "Bounced"})) + (IF SmtpErrors THEN Count(f, SmtpBounces) ELSE 0)
  /\ Count(p, Recorded({"SubscriptionChange"})) = N(Typed({"SubscriptionChanged"}))

CountsAgree == Balance(facts, posts, LAMBDA E : Cardinality(EventsIn(E)))
Balanced(f, p, e) == Balance(f, p, LAMBDA E : Count(e, E))

\* What a step appends, when it is balanced, keeps the counts in agreement.
LEMMA CountsKept ==
  ASSUME TypeOK, CountsAgree, NEW i, NEW f \in Seq(Fact), NEW p \in Seq(Posted), NEW e \in Seq(Event),
         facts' = facts \o f, posts' = posts \o p, SameMessages(i, e), Balanced(f, p, e),
         \/ i \in DOMAIN outbound /\ DOMAIN outbound' = DOMAIN outbound
         \/ e = <<>> /\ \A j \in DOMAIN outbound' \ DOMAIN outbound : outbound'[j].events = <<>>
  PROVE  CountsAgree'
<1>1. \A E : /\ Cardinality(EventsIn(E)') = Cardinality(EventsIn(E)) + Count(e, E)
             /\ Cardinality(EventsIn(E)) \in Nat /\ Count(e, E) \in Nat
  <2> TAKE E
  <2>1. Cardinality(EventsIn(E)) \in Nat /\ Count(e, E) \in Nat
    BY EventsFinite, Counts
  <2>2. CASE i \in DOMAIN outbound /\ DOMAIN outbound' = DOMAIN outbound
    BY <2>1, <2>2, EventsInMore
  <2>3. CASE e = <<>> /\ \A j \in DOMAIN outbound' \ DOMAIN outbound : outbound'[j].events = <<>>
    <3>1. EventsIn(E)' = EventsIn(E)
      BY <2>3, EventsInSame
    <3> QED BY <2>1, <2>3, <3>1, CountFew
  <2> QED BY <2>1, <2>2, <2>3
<1>2. \A X : Count(facts', X) = Count(facts, X) + Count(f, X) /\ Count(facts, X) \in Nat /\ Count(f, X) \in Nat
  <2>1. facts \in Seq(Fact)
    BY StoresTyped
  <2>2. \A X : Count(facts \o f, X) = Count(facts, X) + Count(f, X)
    BY <2>1, CountAdds
  <2>3. \A X : Count(facts, X) \in Nat /\ Count(f, X) \in Nat
    BY <2>1, Counts
  <2> QED BY <2>2, <2>3
<1>3. \A X : Count(posts', X) = Count(posts, X) + Count(p, X) /\ Count(posts, X) \in Nat /\ Count(p, X) \in Nat
  <2>1. posts \in Seq(Posted)
    BY StoresTyped
  <2>2. \A X : Count(posts \o p, X) = Count(posts, X) + Count(p, X)
    BY <2>1, CountAdds
  <2>3. \A X : Count(posts, X) \in Nat /\ Count(p, X) \in Nat
    BY <2>1, Counts
  <2> QED BY <2>2, <2>3
<1>4. /\ Balance(facts, posts, LAMBDA E : Cardinality(EventsIn(E)))
      /\ Balance(f, p, LAMBDA E : Count(e, E))
  BY DEF CountsAgree, Balanced
<1>5. /\ Count(facts', TrueBounces) = Cardinality(EventsIn(BouncesShown)')
      /\ Count(facts', FirstFacts("open")) = Cardinality(EventsIn(Typed({"Opened"}))')
      /\ Count(facts', FirstFacts("click")) = Cardinality(EventsIn(Typed({"LinkClicked"}))')
      /\ Count(posts', Recorded({"SubscriptionChange"})) =
           Cardinality(EventsIn(Typed({"SubscriptionChanged"}))')
  BY <1>1, <1>2, <1>3, <1>4 DEF Balance
<1>6. Count(posts', Recorded({"Bounce", "SpamComplaint"})) =
        Cardinality(EventsIn(Typed({"Transient", "Bounced"}))')
          + (IF SmtpErrors THEN Count(facts', SmtpBounces) ELSE 0)
  <2>1. /\ Count(posts, Recorded({"Bounce", "SpamComplaint"})) =
             Cardinality(EventsIn(Typed({"Transient", "Bounced"})))
               + (IF SmtpErrors THEN Count(facts, SmtpBounces) ELSE 0)
        /\ Count(p, Recorded({"Bounce", "SpamComplaint"})) =
             Count(e, Typed({"Transient", "Bounced"}))
               + (IF SmtpErrors THEN Count(f, SmtpBounces) ELSE 0)
    BY <1>4 DEF Balance
  <2>2. Cardinality(EventsIn(Typed({"Transient", "Bounced"}))') =
          Cardinality(EventsIn(Typed({"Transient", "Bounced"}))) + Count(e, Typed({"Transient", "Bounced"}))
    BY <1>1
  <2>3. Count(posts', Recorded({"Bounce", "SpamComplaint"})) =
          Count(posts, Recorded({"Bounce", "SpamComplaint"})) + Count(p, Recorded({"Bounce", "SpamComplaint"}))
    BY <1>3
  <2>4. Count(facts', SmtpBounces) = Count(facts, SmtpBounces) + Count(f, SmtpBounces)
    BY <1>2
  <2>5. /\ Cardinality(EventsIn(Typed({"Transient", "Bounced"}))) \in Nat
        /\ Count(e, Typed({"Transient", "Bounced"})) \in Nat
        /\ Count(facts, SmtpBounces) \in Nat /\ Count(f, SmtpBounces) \in Nat
    BY <1>1, <1>2
  <2> QED BY <2>1, <2>2, <2>3, <2>4, <2>5
<1> QED BY <1>5, <1>6 DEF CountsAgree, Balance

\* A sequence that has none of X counts none.
LEMMA CountNone ==
  ASSUME NEW s, NEW X, \A n \in DOMAIN s : s[n] \notin X
  PROVE  Count(s, X) = 0
<1>1. Where(s, X) = {}
  BY DEF Where
<1> QED BY <1>1, FS_EmptySet DEF Count

\* What a fact alone counts for.
LEMMA FactCounts ==
  ASSUME NEW f \in Fact
  PROVE  /\ Count(<<f>>, TrueBounces) = IF f.kind = "bounce" /\ f.type # "SMTPApiError" THEN 1 ELSE 0
         /\ Count(<<f>>, SmtpBounces) = IF f.kind = "bounce" /\ f.type = "SMTPApiError" THEN 1 ELSE 0
         /\ \A kind : Count(<<f>>, FirstFacts(kind)) = IF f.kind = kind /\ f.first THEN 1 ELSE 0
BY CountFew DEF TrueBounces, SmtpBounces, FirstFacts

\* What an event alone counts for.
LEMMA EventCounts ==
  ASSUME NEW e \in Event
  PROVE  /\ \A types : Count(<<e>>, Typed(types)) = IF e.type \in types THEN 1 ELSE 0
         /\ Count(<<e>>, BouncesShown) =
              IF /\ e.type \in {"Transient", "Bounced"}
                 /\ e.detail \in {"HardBounce", "SoftBounce", "Transient"} THEN 1 ELSE 0
BY CountFew DEF Typed, BouncesShown

\* What a post alone counts for.
LEMMA PostCounts ==
  ASSUME NEW i \in Nat, NEW r \in Recipients, NEW record \in RecordTypes
  PROVE  \A records : Count(Post(record, i, r), Recorded(records)) = IF record \in records THEN 1 ELSE 0
<1> DEFINE p == [record |-> record, msg |-> i, to |-> r]
<1>1. p \in Posted /\ p.record = record /\ Post(record, i, r) = <<p>>
  BY DEF Posted, Post
<1> HIDE DEF p
<1> QED BY <1>1, CountFew DEF Recorded

\* What each handler appends is balanced: an answer of SMTP that skips a recipient.
LEMMA SkippedBalanced ==
  ASSUME TypeOK, NEW i \in Nat, NEW r \in Recipients
  PROVE  Balanced(<<[kind |-> "bounce", at |-> now, type |-> "SMTPApiError"]>>,
                  IF SmtpErrors THEN Post("Bounce", i, r) ELSE <<>>, <<>>)
<1> DEFINE f == [kind |-> "bounce", at |-> now, type |-> "SMTPApiError"]
           p == IF SmtpErrors THEN Post("Bounce", i, r) ELSE <<>>
<1>1. f \in Fact /\ f.kind = "bounce" /\ f.type = "SMTPApiError"
  BY DEF Fact, TypeOK
<1> HIDE DEF f
<1>2. /\ Count(<<f>>, TrueBounces) = 0 /\ Count(<<f>>, SmtpBounces) = 1
      /\ Count(<<f>>, FirstFacts("open")) = 0 /\ Count(<<f>>, FirstFacts("click")) = 0
  BY <1>1, FactCounts
<1>3. /\ Count(p, Recorded({"Bounce", "SpamComplaint"})) = IF SmtpErrors THEN 1 ELSE 0
      /\ Count(p, Recorded({"SubscriptionChange"})) = 0
  <2>1. "Bounce" \in RecordTypes
    BY DEF RecordTypes
  <2>2. /\ Count(Post("Bounce", i, r), Recorded({"Bounce", "SpamComplaint"})) = 1
        /\ Count(Post("Bounce", i, r), Recorded({"SubscriptionChange"})) = 0
    BY <2>1, PostCounts
  <2> QED BY <2>2, CountFew
<1> HIDE DEF p
<1>4. \A E : Count(<<>>, E) = 0
  BY CountFew
<1>5. Balanced(<<f>>, p, <<>>)
  BY <1>2, <1>3, <1>4 DEF Balanced, Balance
<1> QED BY <1>5 DEF f, p

\* A delivery is told and shown, and counts for nothing.
LEMMA DeliverBalanced ==
  ASSUME NEW i \in Nat, NEW r \in Recipients, NEW at \in Instants
  PROVE  Balanced(<<>>, Post("Delivery", i, r), <<EventIs("Delivered", r, at, "")>>)
<1> DEFINE p == Post("Delivery", i, r)
           e == EventIs("Delivered", r, at, "")
<1>1. /\ Count(p, Recorded({"Bounce", "SpamComplaint"})) = 0
      /\ Count(p, Recorded({"SubscriptionChange"})) = 0
  <2>1. "Delivery" \in RecordTypes
    BY DEF RecordTypes
  <2> QED BY <2>1, PostCounts
<1>2. e \in Event /\ e.type = "Delivered"
  BY DEF EventIs, Event, EventTypes
<1> HIDE DEF p, e
<1>3. /\ Count(<<e>>, Typed({"Opened"})) = 0 /\ Count(<<e>>, Typed({"LinkClicked"})) = 0
      /\ Count(<<e>>, Typed({"Transient", "Bounced"})) = 0
      /\ Count(<<e>>, Typed({"SubscriptionChanged"})) = 0
      /\ Count(<<e>>, BouncesShown) = 0
  BY <1>2, EventCounts
<1>4. \A X : Count(<<>>, X) = 0
  BY CountFew
<1>5. Balanced(<<>>, p, <<e>>)
  BY <1>1, <1>3, <1>4 DEF Balanced, Balance
<1> QED BY <1>5 DEF p, e

\* An open is a fact of a first one when it is shown.
LEMMA OpenBalanced ==
  ASSUME NEW i \in Nat, NEW r \in Recipients, NEW at \in Instants, NEW first \in BOOLEAN,
         OpenFact(i, r, at, first) \in Fact
  PROVE  Balanced(<<OpenFact(i, r, at, first)>>, OpenPost(i, r, first),
                  IF first THEN <<EventIs("Opened", r, at, "")>> ELSE <<>>)
<1> DEFINE f == OpenFact(i, r, at, first)
           p == OpenPost(i, r, first)
           x == EventIs("Opened", r, at, "")
           e == IF first THEN <<x>> ELSE <<>>
<1>1. f \in Fact /\ f.kind = "open" /\ f.first = first
  BY DEF OpenFact
<1> HIDE DEF f
<1>2. /\ Count(<<f>>, TrueBounces) = 0 /\ Count(<<f>>, SmtpBounces) = 0
      /\ Count(<<f>>, FirstFacts("open")) = (IF first THEN 1 ELSE 0)
      /\ Count(<<f>>, FirstFacts("click")) = 0
  BY <1>1, FactCounts
<1>3. /\ Count(p, Recorded({"Bounce", "SpamComplaint"})) = 0
      /\ Count(p, Recorded({"SubscriptionChange"})) = 0
  <2>1. "Open" \in RecordTypes
    BY DEF RecordTypes
  <2>2. /\ Count(Post("Open", i, r), Recorded({"Bounce", "SpamComplaint"})) = 0
        /\ Count(Post("Open", i, r), Recorded({"SubscriptionChange"})) = 0
    BY <2>1, PostCounts
  <2>3. p = <<>> \/ p = Post("Open", i, r)
    BY DEF OpenPost
  <2> QED BY <2>2, <2>3, CountFew
<1>4. /\ Count(e, Typed({"Opened"})) = (IF first THEN 1 ELSE 0) /\ Count(e, Typed({"LinkClicked"})) = 0
      /\ Count(e, Typed({"Transient", "Bounced"})) = 0 /\ Count(e, Typed({"SubscriptionChanged"})) = 0
      /\ Count(e, BouncesShown) = 0
  <2>1. x \in Event /\ x.type = "Opened"
    BY DEF EventIs, Event, EventTypes
  <2> HIDE DEF x
  <2>2. /\ Count(<<x>>, Typed({"Opened"})) = 1 /\ Count(<<x>>, Typed({"LinkClicked"})) = 0
        /\ Count(<<x>>, Typed({"Transient", "Bounced"})) = 0
        /\ Count(<<x>>, Typed({"SubscriptionChanged"})) = 0 /\ Count(<<x>>, BouncesShown) = 0
    BY <2>1, EventCounts
  <2>3. CASE first
    BY <2>2, <2>3
  <2>4. CASE ~ first
    BY <2>4, CountFew
  <2> QED BY <2>3, <2>4
<1> HIDE DEF p, e
<1>5. Balanced(<<f>>, p, e)
  BY <1>2, <1>3, <1>4 DEF Balanced, Balance
<1> QED BY <1>5 DEF f, p, e, x

\* A click is a fact of a first one when it is shown.
LEMMA ClickBalanced ==
  ASSUME NEW i \in Nat, NEW r \in Recipients, NEW at \in Instants, NEW location, NEW link \in Links,
         NEW first \in BOOLEAN, ClickFact(i, r, at, location, link, first) \in Fact
  PROVE  Balanced(<<ClickFact(i, r, at, location, link, first)>>, Post("Click", i, r),
                  IF first THEN <<EventIs("LinkClicked", r, at, link)>> ELSE <<>>)
<1> DEFINE f == ClickFact(i, r, at, location, link, first)
           p == Post("Click", i, r)
           x == EventIs("LinkClicked", r, at, link)
           e == IF first THEN <<x>> ELSE <<>>
<1>1. f \in Fact /\ f.kind = "click" /\ f.first = first
  BY DEF ClickFact
<1> HIDE DEF f
<1>2. /\ Count(<<f>>, TrueBounces) = 0 /\ Count(<<f>>, SmtpBounces) = 0
      /\ Count(<<f>>, FirstFacts("click")) = (IF first THEN 1 ELSE 0)
      /\ Count(<<f>>, FirstFacts("open")) = 0
  BY <1>1, FactCounts
<1>3. /\ Count(p, Recorded({"Bounce", "SpamComplaint"})) = 0
      /\ Count(p, Recorded({"SubscriptionChange"})) = 0
  <2>1. "Click" \in RecordTypes
    BY DEF RecordTypes
  <2> QED BY <2>1, PostCounts
<1>4. /\ Count(e, Typed({"LinkClicked"})) = (IF first THEN 1 ELSE 0) /\ Count(e, Typed({"Opened"})) = 0
      /\ Count(e, Typed({"Transient", "Bounced"})) = 0 /\ Count(e, Typed({"SubscriptionChanged"})) = 0
      /\ Count(e, BouncesShown) = 0
  <2>1. x \in Event /\ x.type = "LinkClicked"
    BY DEF EventIs, Event, EventTypes
  <2> HIDE DEF x
  <2>2. /\ Count(<<x>>, Typed({"LinkClicked"})) = 1 /\ Count(<<x>>, Typed({"Opened"})) = 0
        /\ Count(<<x>>, Typed({"Transient", "Bounced"})) = 0
        /\ Count(<<x>>, Typed({"SubscriptionChanged"})) = 0 /\ Count(<<x>>, BouncesShown) = 0
    BY <2>1, EventCounts
  <2>3. CASE first
    BY <2>2, <2>3
  <2>4. CASE ~ first
    BY <2>4, CountFew
  <2> QED BY <2>3, <2>4
<1> HIDE DEF p, e
<1>5. Balanced(<<f>>, p, e)
  BY <1>2, <1>3, <1>4 DEF Balanced, Balance
<1> QED BY <1>5 DEF f, p, e, x

\* A bounce: of the four records that it may make, those that count each other come together.
LEMMA BounceBalanced ==
  ASSUME NEW i \in Nat, NEW r \in Recipients, NEW at \in Instants, NEW type \in Reported,
         NEW changed \in BOOLEAN, BounceFacts(type, at) \in Seq(Fact)
  PROVE  Balanced(BounceFacts(type, at), BouncePosts(i, r, type, changed),
                  BounceStory(r, type, at, changed))
<1> DEFINE f == BounceFacts(type, at)
           b == BouncePost(i, r, type)
           c == IF changed THEN Post("SubscriptionChange", i, r) ELSE <<>>
           x == EventIs(Shown(type), r, at, type)
           y == EventIs("SubscriptionChanged", r, at, "")
           z == IF changed THEN <<y>> ELSE <<>>
           true == type \in {"HardBounce", "SoftBounce", "Transient"}
<1>1. /\ Count(f, TrueBounces) = (IF true THEN 1 ELSE 0) /\ Count(f, SmtpBounces) = 0
      /\ Count(f, FirstFacts("open")) = 0 /\ Count(f, FirstFacts("click")) = 0
  <2>1. CASE true
    <3> DEFINE g == [kind |-> "bounce", at |-> at, type |-> type]
    <3>1. g \in Fact /\ g.kind = "bounce" /\ g.type # "SMTPApiError" /\ f = <<g>>
      BY <2>1 DEF Fact, BounceFacts, Reported
    <3> HIDE DEF g, f
    <3> QED BY <2>1, <3>1, FactCounts
  <2>2. CASE type = "SpamComplaint"
    <3> DEFINE g == [kind |-> "spamComplaint", at |-> at]
    <3>1. g \in Fact /\ g.kind = "spamComplaint" /\ f = <<g>>
      BY <2>2 DEF Fact, BounceFacts
    <3> HIDE DEF g, f
    <3> QED BY <2>2, <3>1, FactCounts
  <2>3. CASE ~ true /\ type # "SpamComplaint"
    <3>1. f = <<>>
      BY <2>3 DEF BounceFacts
    <3> QED BY <2>3, <3>1, CountFew
  <2> QED BY <2>1, <2>2, <2>3
<1>2. /\ b \in Seq(Posted) /\ Count(b, Recorded({"Bounce", "SpamComplaint"})) = 1
      /\ Count(b, Recorded({"SubscriptionChange"})) = 0
  <2>1. PICK record \in {"Bounce", "SpamComplaint"} : b = Post(record, i, r)
    BY DEF BouncePost
  <2>2. record \in RecordTypes
    BY DEF RecordTypes
  <2>3. b \in Seq(Posted)
    BY <2>1, <2>2, RecordsOf DEF PostsOf
  <2> HIDE DEF b
  <2> QED BY <2>1, <2>2, <2>3, PostCounts
<1>3. /\ c \in Seq(Posted) /\ Count(c, Recorded({"Bounce", "SpamComplaint"})) = 0
      /\ Count(c, Recorded({"SubscriptionChange"})) = IF changed THEN 1 ELSE 0
  <2>1. "SubscriptionChange" \in RecordTypes
    BY DEF RecordTypes
  <2>2. CASE changed
    <3>1. c = Post("SubscriptionChange", i, r) /\ c \in Seq(Posted)
      BY <2>1, <2>2, RecordsOf DEF PostsOf
    <3> HIDE DEF c
    <3> QED BY <2>1, <2>2, <3>1, PostCounts
  <2>3. CASE ~ changed
    BY <2>3, CountFew
  <2> QED BY <2>2, <2>3
<1>4. /\ <<x>> \in Seq(Event)
      /\ Count(<<x>>, Typed({"Opened"})) = 0 /\ Count(<<x>>, Typed({"LinkClicked"})) = 0
      /\ Count(<<x>>, Typed({"Transient", "Bounced"})) = 1
      /\ Count(<<x>>, Typed({"SubscriptionChanged"})) = 0
      /\ Count(<<x>>, BouncesShown) = IF true THEN 1 ELSE 0
  <2>1. x \in Event /\ x.type \in {"Transient", "Bounced"} /\ x.detail = type
    BY DEF EventIs, Event, EventTypes, Shown
  <2> HIDE DEF x
  <2> QED BY <2>1, EventCounts
<1>5. /\ z \in Seq(Event)
      /\ Count(z, Typed({"Opened"})) = 0 /\ Count(z, Typed({"LinkClicked"})) = 0
      /\ Count(z, Typed({"Transient", "Bounced"})) = 0 /\ Count(z, BouncesShown) = 0
      /\ Count(z, Typed({"SubscriptionChanged"})) = IF changed THEN 1 ELSE 0
  <2>1. y \in Event /\ y.type = "SubscriptionChanged"
    BY DEF EventIs, Event, EventTypes
  <2> HIDE DEF y
  <2>2. /\ <<y>> \in Seq(Event) /\ Count(<<y>>, Typed({"SubscriptionChanged"})) = 1
        /\ Count(<<y>>, Typed({"Opened"})) = 0 /\ Count(<<y>>, Typed({"LinkClicked"})) = 0
        /\ Count(<<y>>, Typed({"Transient", "Bounced"})) = 0 /\ Count(<<y>>, BouncesShown) = 0
    BY <2>1, EventCounts
  <2>3. CASE changed
    BY <2>2, <2>3
  <2>4. CASE ~ changed
    BY <2>4, CountFew
  <2> QED BY <2>3, <2>4
<1>6. BouncePosts(i, r, type, changed) = b \o c /\ BounceStory(r, type, at, changed) = <<x>> \o z
  BY DEF BouncePosts, BounceStory
<1> HIDE DEF f, b, c, x, z
<1>7. \A X : Count(b \o c, X) = Count(b, X) + Count(c, X)
  BY <1>2, <1>3, CountAdds
<1>8. \A X : Count(<<x>> \o z, X) = Count(<<x>>, X) + Count(z, X)
  <2> DEFINE w == <<x>>
  <2>1. w \in Seq(Event)
    BY <1>4
  <2> HIDE DEF w
  <2>2. \A X : Count(w \o z, X) = Count(w, X) + Count(z, X)
    BY <1>5, <2>1, CountAdds
  <2> QED BY <2>2 DEF w
<1> HIDE DEF true
<1>9. Balanced(f, b \o c, <<x>> \o z)
  <2> DEFINE p == b \o c
             e == <<x>> \o z
  <2>1. Count(p, Recorded({"Bounce", "SpamComplaint"})) = 1
    BY <1>2, <1>3, <1>7
  <2>2. Count(p, Recorded({"SubscriptionChange"})) = IF changed THEN 1 ELSE 0
    BY <1>2, <1>3, <1>7
  <2>3. Count(e, Typed({"Opened"})) = 0 /\ Count(e, Typed({"LinkClicked"})) = 0
    BY <1>4, <1>5, <1>8
  <2>4. Count(e, Typed({"Transient", "Bounced"})) = 1
    BY <1>4, <1>5, <1>8
  <2>5. Count(e, Typed({"SubscriptionChanged"})) = IF changed THEN 1 ELSE 0
    BY <1>4, <1>5, <1>8
  <2>6. Count(e, BouncesShown) = IF true THEN 1 ELSE 0
    BY <1>4, <1>5, <1>8
  <2> HIDE DEF p, e
  <2>7. Balanced(f, p, e)
    BY <1>1, <2>1, <2>2, <2>3, <2>4, <2>5, <2>6 DEF Balanced, Balance
  <2> QED BY <2>7 DEF p, e
<1> QED BY <1>6, <1>9 DEF f

\* Nothing of what is counted.
LEMMA NothingBalanced ==
  ASSUME NEW f, \A n \in DOMAIN f : f[n].kind = "sent"
  PROVE  Balanced(f, <<>>, <<>>)
<1>1. /\ Count(f, TrueBounces) = 0 /\ Count(f, SmtpBounces) = 0
      /\ Count(f, FirstFacts("open")) = 0 /\ Count(f, FirstFacts("click")) = 0
  <2>1. \A n \in DOMAIN f : /\ f[n] \notin TrueBounces /\ f[n] \notin SmtpBounces
                            /\ f[n] \notin FirstFacts("open") /\ f[n] \notin FirstFacts("click")
    BY DEF TrueBounces, SmtpBounces, FirstFacts
  <2> QED BY <2>1, CountNone
<1>2. \A X : Count(<<>>, X) = 0
  BY CountFew
<1> QED BY <1>1, <1>2 DEF Balanced, Balance

-----------------------------------------------------------------------------
(***************************************************************************)
(* What the facts of opens and clicks are about, and those of sends.       *)
(***************************************************************************)
\* A bounce has a documented type, and what is opened or clicked was sent with
\* its tracking to the recipient.
SoundIn(messages, f) ==
  /\ f.kind = "bounce" => f.type \in DocumentedKeys.bounces
  /\ f.kind \in {"open", "click"} =>
       f.msg \in DOMAIN messages /\ f.to \in ToSet(messages[f.msg].draft.to)
  /\ f.kind = "open" => messages[f.msg].draft.trackOpens
  /\ f.kind = "click" => f.link \in TrackedLinks(messages[f.msg].draft, "")
FactsSound == \A n \in DOMAIN facts : SoundIn(outbound, facts[n])

\* New facts that are sound keep all of them sound.
LEMMA FactsSoundKept ==
  ASSUME TypeOK, FactsSound, NEW i, NEW e, NEW f \in Seq(Fact), facts' = facts \o f,
         SameMessages(i, e), \A n \in DOMAIN f : SoundIn(outbound, f[n])
  PROVE  FactsSound'
<1>1. ASSUME NEW g, SoundIn(outbound, g) PROVE SoundIn(outbound', g)
  BY <1>1 DEF SoundIn, SameMessages
<1>2. facts \in Seq(Fact)
  BY StoresTyped
<1>3. ASSUME NEW n \in DOMAIN (facts \o f) PROVE SoundIn(outbound, (facts \o f)[n])
  <2>1. \/ n \in DOMAIN facts /\ (facts \o f)[n] = facts[n]
        \/ \E m \in DOMAIN f : (facts \o f)[n] = f[m]
    BY <1>2, OfEither
  <2> QED BY <2>1 DEF FactsSound
<1> QED BY <1>1, <1>3 DEF FactsSound

\* The places of recipients, as message and place in it.
Slots(messages) == UNION {{i} \X DOMAIN messages[i].draft.to : i \in DOMAIN messages}
FactFor(f, draft) ==
  /\ f.kind = "sent"
  /\ f.openTracking = draft.trackOpens
  /\ f.trackedLinks = Cardinality(TrackedLinks(draft, ""))
OneForEach(at) ==
  /\ at \in [Slots(outbound) -> DOMAIN facts]
  /\ \A s, t \in Slots(outbound) : at[s] = at[t] => s = t
  /\ \A s \in Slots(outbound) : FactFor(facts[at[s]], outbound[s[1]].draft)
  /\ \A n \in DOMAIN facts : facts[n].kind = "sent" => \E s \in Slots(outbound) : at[s] = n
\* Each recipient of each message is counted by a fact of its own, and nothing else is.
SentFor == \E at : OneForEach(at)

\* A step that sends nothing keeps the facts of what was sent.
LEMMA SentForKept ==
  ASSUME TypeOK, SentFor, NEW i, NEW e, NEW f \in Seq(Fact), facts' = facts \o f,
         SameMessages(i, e), DOMAIN outbound' = DOMAIN outbound,
         \A n \in DOMAIN f : f[n].kind # "sent"
  PROVE  SentFor'
<1>1. PICK at : OneForEach(at)
  BY DEF SentFor
<1>2. \A j \in DOMAIN outbound : outbound'[j].draft = outbound[j].draft
  BY DEF SameMessages
<1>3. Slots(outbound') = Slots(outbound)
  BY <1>2 DEF Slots
<1>4. \A s \in Slots(outbound) : s[1] \in DOMAIN outbound
  BY DEF Slots
<1>5. /\ DOMAIN facts \subseteq DOMAIN facts'
      /\ \A n \in DOMAIN facts : facts'[n] = facts[n]
  BY StoresTyped, Longer
<1>6. at \in [Slots(outbound) -> DOMAIN facts']
  BY <1>1, <1>5 DEF OneForEach
<1>7. \A s \in Slots(outbound) : FactFor(facts'[at[s]], outbound'[s[1]].draft)
  BY <1>1, <1>2, <1>4, <1>5 DEF OneForEach
<1>8. ASSUME NEW n \in DOMAIN facts', facts'[n].kind = "sent"
      PROVE  \E s \in Slots(outbound) : at[s] = n
  <2>1. n \in DOMAIN facts /\ facts'[n] = facts[n]
    <3>1. facts \in Seq(Fact)
      BY StoresTyped
    <3> QED BY <1>8, <3>1, OfEither
  <2> QED BY <1>1, <1>8, <2>1 DEF OneForEach
<1>9. OneForEach(at)'
  BY <1>1, <1>3, <1>6, <1>7, <1>8 DEF OneForEach
<1> QED BY <1>9 DEF SentFor

\* A send counts its recipients, each by a fact.
LEMMA SentForMade ==
  ASSUME TypeOK, SentFor, NEW draft \in Drafts, Send(draft)
  PROVE  SentFor'
<1> DEFINE f == [n \in DOMAIN draft.to |-> SentFact(draft)]
           new == Len(outbound) + 1
<1>1. PICK at : OneForEach(at)
  BY DEF SentFor
<1>2. /\ Grows(0, 0, f, <<>>, <<>>, <<>>, <<>>)
      /\ DOMAIN outbound' = DOMAIN outbound \union {new} /\ new \notin DOMAIN outbound
  BY SendGrows
<1>3. outbound'[new].draft = draft
  BY StoresTyped, LenProperties, AppendProperties DEF Send
<1>4. FactFor(SentFact(draft), draft) /\ DOMAIN f = DOMAIN draft.to
      /\ \A k \in DOMAIN draft.to : f[k] = SentFact(draft)
  BY DEF FactFor, SentFact
<1> HIDE DEF f, new
<1>5. facts' = facts \o f /\ SameMessages(0, <<>>) /\ f \in Seq(Fact)
  BY <1>2 DEF Grows, Records
<1>6. \A j \in DOMAIN outbound : outbound'[j].draft = outbound[j].draft
  BY <1>5 DEF SameMessages
<1>7. Slots(outbound') = Slots(outbound) \union ({new} \X DOMAIN draft.to)
  BY <1>2, <1>3, <1>6 DEF Slots
<1>8. \A s \in Slots(outbound) : s[1] \in DOMAIN outbound
  BY DEF Slots
<1>9. /\ Len(facts) \in Nat /\ DOMAIN facts = 1..Len(facts) /\ Len(f) \in Nat /\ DOMAIN f = 1..Len(f)
      /\ DOMAIN (facts \o f) = 1..Len(facts) + Len(f)
      /\ \A n \in 1..Len(facts) + Len(f) : (facts \o f)[n] = IF n <= Len(facts) THEN facts[n] ELSE f[n - Len(facts)]
  BY <1>5, StoresTyped, ConcatProperties, LenProperties
<1> DEFINE to(s) == IF s[1] = new THEN Len(facts) + s[2] ELSE at[s]
           next == [s \in Slots(outbound') |-> to(s)]
<1>10. ASSUME NEW s \in Slots(outbound)
       PROVE  /\ to(s) = at[s] /\ to(s) \in DOMAIN facts /\ to(s) \in DOMAIN facts'
              /\ to(s) \in 1..Len(facts)
              /\ FactFor(facts'[to(s)], outbound'[s[1]].draft)
  <2>1. s[1] \in DOMAIN outbound /\ to(s) = at[s] /\ at[s] \in DOMAIN facts
    BY <1>1, <1>2, <1>8 DEF OneForEach
  <2>2. at[s] \in 1..Len(facts) /\ at[s] \in DOMAIN facts' /\ facts'[at[s]] = facts[at[s]]
    BY <1>5, <1>9, <2>1
  <2> QED BY <1>1, <1>6, <2>1, <2>2 DEF OneForEach
<1>11. ASSUME NEW s \in {new} \X DOMAIN draft.to
       PROVE  /\ s[1] = new /\ s[2] \in Nat /\ to(s) = Len(facts) + s[2]
              /\ to(s) \in DOMAIN facts' /\ to(s) \notin 1..Len(facts)
              /\ FactFor(facts'[to(s)], outbound'[s[1]].draft) /\ s = <<new, s[2]>>
  <2>1. s[1] = new /\ s[2] \in 1..Len(f) /\ s = <<new, s[2]>> /\ to(s) = Len(facts) + s[2]
    BY <1>4, <1>9
  <2>2. /\ to(s) \in 1..Len(facts) + Len(f) /\ ~ (to(s) <= Len(facts)) /\ to(s) - Len(facts) = s[2]
    BY <1>9, <2>1
  <2>3. facts'[to(s)] = f[s[2]]
    BY <1>5, <1>9, <2>2
  <2> QED BY <1>3, <1>4, <1>5, <1>9, <2>1, <2>2, <2>3
<1> HIDE DEF to
<1>12. next \in [Slots(outbound') -> DOMAIN facts'] /\ \A s \in Slots(outbound') : next[s] = to(s)
  BY <1>7, <1>10, <1>11
<1> HIDE DEF next
<1>13. ASSUME NEW s \in Slots(outbound'), NEW t \in Slots(outbound'), to(s) = to(t)
       PROVE  s = t
  <2>1. CASE s \in Slots(outbound) /\ t \in Slots(outbound)
    BY <1>1, <1>10, <1>13, <2>1 DEF OneForEach
  <2>2. CASE s \in {new} \X DOMAIN draft.to /\ t \in {new} \X DOMAIN draft.to
    <3>1. s[2] = t[2]
      BY <1>9, <1>11, <1>13, <2>2
    <3> QED BY <1>11, <2>2, <3>1
  <2>3. CASE ~ (s \in Slots(outbound) <=> t \in Slots(outbound))
    BY <1>7, <1>10, <1>11, <1>13, <2>3
  <2> QED BY <1>7, <2>1, <2>2, <2>3
<1>14. \A s \in Slots(outbound') : FactFor(facts'[next[s]], outbound'[s[1]].draft)
  BY <1>7, <1>10, <1>11, <1>12
<1>15. ASSUME NEW n \in DOMAIN facts', facts'[n].kind = "sent"
       PROVE  \E s \in Slots(outbound') : next[s] = n
  <2>1. CASE n \in DOMAIN facts
    <3>1. facts[n].kind = "sent"
      BY <1>5, <1>9, <1>15, <2>1
    <3>2. PICK s \in Slots(outbound) : at[s] = n
      BY <1>1, <2>1, <3>1 DEF OneForEach
    <3> QED BY <1>7, <1>10, <1>12, <3>2
  <2>2. CASE n \notin DOMAIN facts
    <3> DEFINE s == <<new, n - Len(facts)>>
    <3>1. n - Len(facts) \in DOMAIN draft.to /\ n \in Nat
      BY <1>4, <1>5, <1>9, <2>2
    <3>2. s \in {new} \X DOMAIN draft.to /\ s[2] = n - Len(facts)
      BY <3>1
    <3>3. to(s) = Len(facts) + (n - Len(facts))
      BY <1>11, <3>2
    <3>4. to(s) = n
      BY <1>9, <3>1, <3>3
    <3>5. s \in Slots(outbound')
      BY <1>7, <3>2
    <3> QED BY <1>12, <3>4, <3>5
  <2> QED BY <2>1, <2>2
<1>16. \E m : /\ m \in [Slots(outbound') -> DOMAIN facts']
              /\ \A s, t \in Slots(outbound') : m[s] = m[t] => s = t
              /\ \A s \in Slots(outbound') : FactFor(facts'[m[s]], outbound'[s[1]].draft)
              /\ \A n \in DOMAIN facts' :
                   facts'[n].kind = "sent" => \E s \in Slots(outbound') : m[s] = n
  <2>1. \A s, t \in Slots(outbound') : next[s] = next[t] => s = t
    BY <1>12, <1>13
  <2> QED BY <1>12, <1>14, <1>15, <2>1
<1> QED BY <1>16 DEF SentFor, OneForEach

SoundRecord(f) == f.kind # "sent" /\ SoundIn(outbound, f)

\* What the handlers record of a recipient is sound.
LEMMA RecordedSound ==
  ASSUME NEW i \in DOMAIN outbound, NEW r \in ToSet(outbound[i].draft.to)
  PROVE  /\ SoundRecord([kind |-> "bounce", at |-> now, type |-> "SMTPApiError"])
         /\ \A at : Open(i, r, at) => \A first : SoundRecord(OpenFact(i, r, at, first))
         /\ \A at, location, link :
              Click(i, r, at, location, link)
                => \A first : SoundRecord(ClickFact(i, r, at, location, link, first))
         /\ \A type, at : \A n \in DOMAIN BounceFacts(type, at) : SoundRecord(BounceFacts(type, at)[n])
<1>1. SoundRecord([kind |-> "bounce", at |-> now, type |-> "SMTPApiError"])
  BY DEF SoundRecord, SoundIn, DocumentedKeys
<1>2. ASSUME NEW at, Open(i, r, at), NEW first PROVE SoundRecord(OpenFact(i, r, at, first))
  BY <1>2 DEF SoundRecord, SoundIn, OpenFact, Open
<1>3. ASSUME NEW at, NEW location, NEW link, Click(i, r, at, location, link), NEW first
      PROVE  SoundRecord(ClickFact(i, r, at, location, link, first))
  <2>1. link \in TrackedLinks(outbound[i].draft, location)
    BY <1>3 DEF Click
  <2>2. link \in TrackedLinks(outbound[i].draft, "")
    BY <2>1 DEF TrackedLinks
  <2> QED BY <2>2 DEF SoundRecord, SoundIn, ClickFact
<1>4. ASSUME NEW type, NEW at, NEW n \in DOMAIN BounceFacts(type, at)
      PROVE  SoundRecord(BounceFacts(type, at)[n])
  <2> DEFINE f == [kind |-> "bounce", at |-> at, type |-> type]
             g == [kind |-> "spamComplaint", at |-> at]
  <2>1. \/ BounceFacts(type, at) = <<f>> /\ type \in {"HardBounce", "SoftBounce", "Transient"}
        \/ BounceFacts(type, at) = <<g>> \/ BounceFacts(type, at) = <<>>
    BY DEF BounceFacts
  <2>2. type \in {"HardBounce", "SoftBounce", "Transient"} => SoundRecord(f)
    BY DEF SoundRecord, SoundIn, DocumentedKeys
  <2>3. SoundRecord(g)
    BY DEF SoundRecord, SoundIn
  <2> HIDE DEF f, g
  <2> QED BY <2>1, <2>2, <2>3
<1> QED BY <1>1, <1>2, <1>3, <1>4

\* The part of the inductive invariant that the counts rest on.
Tallied == CountsAgree /\ FactsSound /\ SentFor

\* Nothing is counted at first.
LEMMA InitTallied == Init => Tallied
<1> SUFFICES ASSUME Init PROVE Tallied
  OBVIOUS
<1>1. \A E : EventsIn(E) = {}
  BY DEF Init, EventsIn
<1>2. \A E : Cardinality(EventsIn(E)) = 0
  BY <1>1, FS_EmptySet
<1>3. \A X : Count(facts, X) = 0 /\ Count(posts, X) = 0
  BY CountFew DEF Init
<1>4. CountsAgree
  BY <1>2, <1>3 DEF CountsAgree, Balance
<1>5. FactsSound
  BY DEF Init, FactsSound
<1>6. SentFor
  <2>1. Slots(outbound) = {}
    BY DEF Init, Slots
  <2>2. OneForEach([s \in {} |-> 1])
    BY <2>1 DEF Init, OneForEach
  <2> QED BY <2>2 DEF SentFor
<1> QED BY <1>4, <1>5, <1>6 DEF Tallied

\* Every step keeps it.
LEMMA NextTallied ==
  ASSUME TypeOK, Tallied, [Next]_vars
  PROVE  Tallied'
<1>1. ASSUME NEW i \in DOMAIN outbound, NEW r, NEW f, NEW o, NEW c, NEW p, NEW e,
             Grows(i, r, f, o, c, p, e), DOMAIN outbound' = DOMAIN outbound, Balanced(f, p, e),
             \A n \in DOMAIN f : SoundRecord(f[n])
      PROVE  Tallied'
  <2>1. /\ f \in Seq(Fact) /\ p \in Seq(Posted) /\ e \in Seq(Event)
        /\ facts' = facts \o f /\ posts' = posts \o p /\ SameMessages(i, e)
    BY <1>1 DEF Grows, Records, PostsOf, EventsTo
  <2> QED BY <1>1, <2>1, CountsKept, FactsSoundKept, SentForKept DEF Tallied, SoundRecord
<1>2. ASSUME NEW f, NEW r, Grows(0, r, f, <<>>, <<>>, <<>>, <<>>),
             \A j \in DOMAIN outbound' \ DOMAIN outbound : outbound'[j].events = <<>>,
             \A n \in DOMAIN f : f[n].kind = "sent"
      PROVE  CountsAgree' /\ FactsSound'
  <2>1. /\ f \in Seq(Fact) /\ <<>> \in Seq(Posted) /\ <<>> \in Seq(Event)
        /\ facts' = facts \o f /\ posts' = posts \o <<>> /\ SameMessages(0, <<>>)
    BY <1>2 DEF Grows, Records
  <2>2. Balanced(f, <<>>, <<>>)
    BY <1>2, NothingBalanced
  <2>3. \A n \in DOMAIN f : SoundIn(outbound, f[n])
    BY <1>2 DEF SoundIn
  <2> QED BY <1>2, <2>1, <2>2, <2>3, CountsKept, FactsSoundKept DEF Tallied
<1>3. ASSUME NEW i \in DOMAIN outbound, Handled(i) PROVE Tallied'
  <2>1. PICK r \in ToSet(outbound[i].draft.to) :
          \/ SkippedBySmtp(i, r)
          \/ \E at \in outbound[i].at..now :
               \/ Deliver(i, r, at)
               \/ Open(i, r, at)
               \/ \E location \in Locations, link \in Links : Click(i, r, at, location, link)
               \/ \E type \in BounceTypes : Bounce(i, r, type, at)
    BY <1>3 DEF Handled
  <2>2. i \in Nat /\ r \in Recipients
    BY HandledTyped
  <2>3. CASE SkippedBySmtp(i, r)
    <3>1. DOMAIN outbound' = DOMAIN outbound
      BY <2>3 DEF SkippedBySmtp
    <3> DEFINE f == [kind |-> "bounce", at |-> now, type |-> "SMTPApiError"]
               p == IF SmtpErrors THEN Post("Bounce", i, r) ELSE <<>>
    <3>2. Grows(i, r, <<f>>, <<>>, <<>>, p, <<>>)
      BY <2>3, SkippedGrows
    <3>3. Balanced(<<f>>, p, <<>>)
      BY <2>2, SkippedBalanced
    <3>4. SoundRecord(f)
      BY RecordedSound
    <3> HIDE DEF f, p
    <3>5. \A n \in DOMAIN <<f>> : SoundRecord(<<f>>[n])
      BY <3>4
    <3> QED BY <1>1, <3>1, <3>2, <3>3, <3>5
  <2>4. ASSUME NEW at \in outbound[i].at..now, Deliver(i, r, at) PROVE Tallied'
    <3>1. at \in Instants
      BY HandledTyped
    <3>2. /\ Grows(i, r, <<>>, <<>>, <<>>, Post("Delivery", i, r), <<EventIs("Delivered", r, at, "")>>)
          /\ Balanced(<<>>, Post("Delivery", i, r), <<EventIs("Delivered", r, at, "")>>)
          /\ DOMAIN outbound' = DOMAIN outbound
      BY <2>2, <2>4, <3>1, HandledSame, DeliverGrows, DeliverBalanced
    <3>3. \A n \in DOMAIN <<>> : SoundRecord(<<>>[n])
      OBVIOUS
    <3> QED BY <1>1, <3>2, <3>3
  <2>5. ASSUME NEW at \in outbound[i].at..now, Open(i, r, at) PROVE Tallied'
    <3>1. at \in Instants /\ FirstOpen(i, r) \in BOOLEAN
      BY HandledTyped DEF FirstOpen
    <3> DEFINE first == FirstOpen(i, r)
               f == OpenFact(i, r, at, first)
               o == IF first THEN <<[msg |-> i, to |-> r, at |-> at]>> ELSE <<>>
               e == IF first THEN <<EventIs("Opened", r, at, "")>> ELSE <<>>
    <3>2. f \in Fact /\ Grows(i, r, <<f>>, o, <<>>, OpenPost(i, r, first), e)
      BY <2>5, OpenGrows
    <3>3. Balanced(<<f>>, OpenPost(i, r, first), e)
      BY <2>2, <3>1, <3>2, OpenBalanced
    <3>4. DOMAIN outbound' = DOMAIN outbound
      BY <2>5, HandledSame
    <3>5. SoundRecord(f)
      BY <2>5, RecordedSound
    <3> HIDE DEF f, o, e
    <3>6. \A n \in DOMAIN <<f>> : SoundRecord(<<f>>[n])
      BY <3>5
    <3> QED BY <1>1, <3>2, <3>3, <3>4, <3>6
  <2>6. ASSUME NEW at \in outbound[i].at..now, NEW location \in Locations, NEW link \in Links,
               Click(i, r, at, location, link)
        PROVE  Tallied'
    <3>1. at \in Instants /\ FirstClick(i, r, link) \in BOOLEAN
      BY HandledTyped DEF FirstClick
    <3> DEFINE first == FirstClick(i, r, link)
               f == ClickFact(i, r, at, location, link, first)
               c == IF first THEN <<[msg |-> i, to |-> r, at |-> at, link |-> link]>> ELSE <<>>
               e == IF first THEN <<EventIs("LinkClicked", r, at, link)>> ELSE <<>>
    <3>2. f \in Fact /\ Grows(i, r, <<f>>, <<>>, c, Post("Click", i, r), e)
      BY <2>6, ClickGrows
    <3>3. Balanced(<<f>>, Post("Click", i, r), e)
      BY <2>2, <3>1, <3>2, ClickBalanced
    <3>4. DOMAIN outbound' = DOMAIN outbound
      BY <2>6, HandledSame
    <3>5. SoundRecord(f)
      BY <2>6, RecordedSound
    <3> HIDE DEF f, c, e
    <3>6. \A n \in DOMAIN <<f>> : SoundRecord(<<f>>[n])
      BY <3>5
    <3> QED BY <1>1, <3>2, <3>3, <3>4, <3>6
  <2>7. ASSUME NEW at \in outbound[i].at..now, NEW type \in BounceTypes, Bounce(i, r, type, at)
        PROVE  Tallied'
    <3> DEFINE changed == Deactivates(type) /\ r \notin DOMAIN rows
    <3>1. at \in Instants /\ type \in Reported /\ changed \in BOOLEAN
      BY HandledTyped, TrackingAssumption DEF Deactivates
    <3>2. Grows(i, r, BounceFacts(type, at), <<>>, <<>>, BouncePosts(i, r, type, changed),
                BounceStory(r, type, at, changed))
      BY <2>7, <3>1, BounceGrows
    <3>3. BounceFacts(type, at) \in Seq(Fact)
      BY <3>2 DEF Grows, Records
    <3> HIDE DEF changed
    <3>4. Balanced(BounceFacts(type, at), BouncePosts(i, r, type, changed), BounceStory(r, type, at, changed))
      BY <2>2, <3>1, <3>3, BounceBalanced
    <3>5. DOMAIN outbound' = DOMAIN outbound
      BY <2>7, <3>1, HandledSame
    <3>6. \A n \in DOMAIN BounceFacts(type, at) : SoundRecord(BounceFacts(type, at)[n])
      BY RecordedSound
    <3> QED BY <1>1, <3>2, <3>4, <3>5, <3>6
  <2> QED BY <2>1, <2>3, <2>4, <2>5, <2>6, <2>7
<1>4. ASSUME NEW draft \in Drafts, Send(draft) PROVE Tallied'
  <2> DEFINE f == [n \in DOMAIN draft.to |-> SentFact(draft)]
  <2>1. /\ Grows(0, 0, f, <<>>, <<>>, <<>>, <<>>)
        /\ DOMAIN outbound' = DOMAIN outbound \union {Len(outbound) + 1}
        /\ outbound'[Len(outbound) + 1].events = <<>>
    BY <1>4, SendGrows
  <2>2. \A n \in DOMAIN f : f[n].kind = "sent"
    BY DEF SentFact
  <2> HIDE DEF f
  <2>3. \A j \in DOMAIN outbound' \ DOMAIN outbound : outbound'[j].events = <<>>
    BY <2>1
  <2>4. CountsAgree' /\ FactsSound'
    BY <1>2, <2>1, <2>2, <2>3
  <2>5. SentFor'
    BY <1>4, SentForMade DEF Tallied
  <2> QED BY <2>4, <2>5 DEF Tallied
<1>5. ASSUME UNCHANGED <<outbound, facts, posts, opens, clicks>> PROVE Tallied'
  <2>1. Grows(0, 0, <<>>, <<>>, <<>>, <<>>, <<>>)
    BY <1>5, OthersGrow
  <2>2. /\ \A n \in DOMAIN <<>> : <<>>[n].kind = "sent"
        /\ \A j \in DOMAIN outbound' \ DOMAIN outbound : outbound'[j].events = <<>>
    BY <1>5
  <2>3. CountsAgree' /\ FactsSound'
    BY <1>2, <2>1, <2>2
  <2>4. SentFor'
    <3>1. facts' = facts \o <<>> /\ SameMessages(0, <<>>) /\ <<>> \in Seq(Fact)
      BY <2>1 DEF Grows
    <3>2. \A n \in DOMAIN <<>> : <<>>[n].kind # "sent"
      OBVIOUS
    <3> QED BY <1>5, <3>1, <3>2, SentForKept DEF Tallied
  <2> QED BY <2>3, <2>4 DEF Tallied
<1>6. Purge \/ CreateStream \/ Tick \/ UNCHANGED vars => UNCHANGED <<outbound, facts, posts, opens, clicks>>
  BY DEF Purge, CreateStream, Tick, vars
<1>7. \A list \in Lists, count \in PageSizes :
        ReadPage(list, count) => UNCHANGED <<outbound, facts, posts, opens, clicks>>
  BY DEF ReadPage
<1> QED BY <1>3, <1>4, <1>5, <1>6, <1>7 DEF Next

-----------------------------------------------------------------------------
(***************************************************************************)
(* The answers about all days.                                             *)
(***************************************************************************)
Of(kind) == {n \in DOMAIN facts : facts[n].kind = kind}
FirstsOf(kind) == {n \in Of(kind) : facts[n].first}

\* All facts are within all days.
LEMMA AllDays ==
  ASSUME TypeOK
  PROVE  /\ Within(0, MaxTime) = DOMAIN facts
         /\ \A n \in DOMAIN facts : facts[n] \in Fact /\ facts[n].at \in Instants
<1>1. \A f \in Fact : f.at \in Instants
  BY DEF Fact
<1>2. \A n \in DOMAIN facts : facts[n] \in Fact /\ facts[n].at \in Instants
  BY <1>1, StoresTyped, InSeq
<1>3. \A at \in Instants : 0 <= at /\ at <= MaxTime
  BY TrackingAssumption DEF Instants
<1> QED BY <1>2, <1>3 DEF Within

\* The facts are finitely many, and so are those of a kind.
LEMMA FactsFinite ==
  ASSUME TypeOK, NEW A, A \subseteq DOMAIN facts
  PROVE  IsFiniteSet(A) /\ Cardinality(A) \in Nat
<1>1. DOMAIN facts = 1..Len(facts) /\ 1 \in Int /\ Len(facts) \in Int
  BY StoresTyped, LenProperties
<1>2. IsFiniteSet(DOMAIN facts)
  BY <1>1, FS_Interval
<1> QED BY <1>2, FS_Subset, FS_CardinalityType

\* What the overview of all days counts.
LEMMA OverviewIs ==
  ASSUME TypeOK
  PROVE  LET all == Overview(0, MaxTime)
         IN  /\ all.Sent = Cardinality(Of("sent"))
             /\ all.Bounced = Count(facts, TrueBounces)
             /\ all.SMTPApiErrors = Count(facts, SmtpBounces)
             /\ all.SpamComplaints = Cardinality(Of("spamComplaint"))
             /\ all.Opens = Cardinality(Of("open"))
             /\ all.UniqueOpens = Cardinality(FirstsOf("open"))
             /\ all.Tracked = Cardinality({n \in Of("sent") : facts[n].openTracking \/ facts[n].linkTracking})
             /\ all.WithOpenTracking = Cardinality({n \in Of("sent") : facts[n].openTracking})
             /\ all.TotalTrackedLinksSent = SumFunction([n \in Of("sent") |-> facts[n].trackedLinks])
             /\ all.TotalClicks = Cardinality(Of("click"))
             /\ all.UniqueLinksClicked = Cardinality(FirstsOf("click"))
<1>1. Within(0, MaxTime) = DOMAIN facts /\ \A n \in DOMAIN facts : facts[n] \in Fact
  BY AllDays
<1>2. {n \in Of("bounce") : IsBounce(facts[n])} = Where(facts, TrueBounces)
  BY <1>1 DEF Of, IsBounce, Where, TrueBounces
<1>3. Of("bounce") \ Where(facts, TrueBounces) = Where(facts, SmtpBounces)
  BY <1>1 DEF Of, Where, TrueBounces, SmtpBounces
<1>4. \A kind : {n \in Within(0, MaxTime) : facts[n].kind = kind} = Of(kind)
  BY <1>1 DEF Of
<1> QED BY <1>2, <1>3, <1>4 DEF Overview, Count, FirstsOf

\* The first opens and clicks are the places of the facts that say so.
LEMMA FirstsAre ==
  ASSUME TypeOK, NEW kind
  PROVE  Cardinality(FirstsOf(kind)) = Count(facts, FirstFacts(kind))
<1>1. \A n \in DOMAIN facts : facts[n] \in Fact
  BY AllDays
<1>2. FirstsOf(kind) = Where(facts, FirstFacts(kind))
  BY <1>1 DEF FirstsOf, Of, Where, FirstFacts
<1> QED BY <1>2 DEF Count

\* The events of a type, and those that show a bounce.
LEMMA EventsAre ==
  ASSUME TypeOK
  PROVE  /\ \A type : EventsOf(type) = EventsIn(Typed({type}))
         /\ {p \in EventsOf("Transient") \union EventsOf("Bounced") :
               outbound[p[1]].events[p[2]].detail \in {"HardBounce", "SoftBounce", "Transient"}}
              = EventsIn(BouncesShown)
         /\ EventsIn(Typed({"Transient", "Bounced"})) =
              EventsIn(Typed({"Transient"})) \union EventsIn(Typed({"Bounced"}))
         /\ EventsIn(Typed({"Transient"})) \intersect EventsIn(Typed({"Bounced"})) = {}
<1> DEFINE all == UNION {{i} \X DOMAIN outbound[i].events : i \in DOMAIN outbound}
<1>1. \A p \in all : outbound[p[1]].events[p[2]] \in Event
  <2> SUFFICES ASSUME NEW i \in DOMAIN outbound, NEW n \in DOMAIN outbound[i].events
               PROVE  outbound[i].events[n] \in Event
    OBVIOUS
  <2> QED BY StoresTyped, InSeq
<1>2. \A E : EventsIn(E) = {p \in all : outbound[p[1]].events[p[2]] \in E}
  BY DEF EventsIn
<1>3. \A type : EventsOf(type) = {p \in all : outbound[p[1]].events[p[2]].type = type}
  BY DEF EventsOf
<1> HIDE DEF all
<1>4. \A type : EventsOf(type) = EventsIn(Typed({type}))
  BY <1>1, <1>2, <1>3 DEF Typed
<1>5. {p \in EventsOf("Transient") \union EventsOf("Bounced") :
         outbound[p[1]].events[p[2]].detail \in {"HardBounce", "SoftBounce", "Transient"}}
        = EventsIn(BouncesShown)
  BY <1>1, <1>2, <1>3 DEF BouncesShown
<1>6. EventsIn(Typed({"Transient", "Bounced"})) =
        EventsIn(Typed({"Transient"})) \union EventsIn(Typed({"Bounced"}))
  BY <1>2 DEF Typed
<1>7. EventsIn(Typed({"Transient"})) \intersect EventsIn(Typed({"Bounced"})) = {}
  BY <1>2 DEF Typed
<1> QED BY <1>4, <1>5, <1>6, <1>7

\* The facts and the posts agree with the events, in the words of OverviewAdds.
LEMMA CountsTold ==
  ASSUME TypeOK, CountsAgree
  PROVE  LET all == Overview(0, MaxTime)
             Told(record) == Cardinality({n \in DOMAIN posts : posts[n].record = record})
             bounced == {p \in EventsOf("Transient") \union EventsOf("Bounced") :
                           outbound[p[1]].events[p[2]].detail \in {"HardBounce", "SoftBounce", "Transient"}}
         IN  /\ all.Bounced = Cardinality(bounced)
             /\ all.UniqueOpens = Cardinality(EventsOf("Opened"))
             /\ all.UniqueLinksClicked = Cardinality(EventsOf("LinkClicked"))
             /\ Told("Bounce") + Told("SpamComplaint") =
                  Cardinality(EventsOf("Transient")) + Cardinality(EventsOf("Bounced"))
                    + (IF SmtpErrors THEN all.SMTPApiErrors ELSE 0)
             /\ Told("SubscriptionChange") = Cardinality(EventsOf("SubscriptionChanged"))
<1> DEFINE all == Overview(0, MaxTime)
           Told(record) == Cardinality({n \in DOMAIN posts : posts[n].record = record})
           bounced == {p \in EventsOf("Transient") \union EventsOf("Bounced") :
                         outbound[p[1]].events[p[2]].detail \in {"HardBounce", "SoftBounce", "Transient"}}
<1>1. /\ Count(facts, TrueBounces) = Cardinality(EventsIn(BouncesShown))
      /\ Count(facts, FirstFacts("open")) = Cardinality(EventsIn(Typed({"Opened"})))
      /\ Count(facts, FirstFacts("click")) = Cardinality(EventsIn(Typed({"LinkClicked"})))
      /\ Count(posts, Recorded({"Bounce", "SpamComplaint"})) =
           Cardinality(EventsIn(Typed({"Transient", "Bounced"})))
             + (IF SmtpErrors THEN Count(facts, SmtpBounces) ELSE 0)
      /\ Count(posts, Recorded({"SubscriptionChange"})) =
           Cardinality(EventsIn(Typed({"SubscriptionChanged"})))
  BY DEF CountsAgree, Balance
<1>2. /\ all.Bounced = Count(facts, TrueBounces) /\ all.SMTPApiErrors = Count(facts, SmtpBounces)
      /\ all.UniqueOpens = Count(facts, FirstFacts("open"))
      /\ all.UniqueLinksClicked = Count(facts, FirstFacts("click"))
  BY OverviewIs, FirstsAre
<1> HIDE DEF all
<1>3. /\ \A type : EventsOf(type) = EventsIn(Typed({type}))
      /\ bounced = EventsIn(BouncesShown)
  BY EventsAre
<1> HIDE DEF bounced
<1>4. \A record : {n \in DOMAIN posts : posts[n].record = record} = Where(posts, Recorded({record}))
  <2>1. \A n \in DOMAIN posts : posts[n] \in Posted
    BY StoresTyped, InSeq
  <2> QED BY <2>1 DEF Where, Recorded
<1>5. \A record : Told(record) = Count(posts, Recorded({record}))
  BY <1>4 DEF Count
<1>6. Told("Bounce") + Told("SpamComplaint") = Count(posts, Recorded({"Bounce", "SpamComplaint"}))
  <2> DEFINE b == Where(posts, Recorded({"Bounce"}))
             c == Where(posts, Recorded({"SpamComplaint"}))
  <2>1. Where(posts, Recorded({"Bounce", "SpamComplaint"})) = b \union c /\ b \intersect c = {}
    BY DEF Where, Recorded
  <2>2. IsFiniteSet(b) /\ IsFiniteSet(c) /\ Cardinality(b) \in Nat /\ Cardinality(c) \in Nat
    BY StoresTyped, Counts, FS_CardinalityType
  <2>3. Told("Bounce") = Cardinality(b) /\ Told("SpamComplaint") = Cardinality(c)
    BY <1>4
  <2> HIDE DEF b, c, Told
  <2>4. Cardinality(b \union c) = Cardinality(b) + Cardinality(c)
    BY <2>1, <2>2, TwoSizes
  <2> QED BY <2>1, <2>3, <2>4, Zenon DEF Count
<1> HIDE DEF Told
<1>7. Cardinality(EventsIn(Typed({"Transient", "Bounced"}))) =
        Cardinality(EventsOf("Transient")) + Cardinality(EventsOf("Bounced"))
  <2> DEFINE b == EventsIn(Typed({"Transient"}))
             c == EventsIn(Typed({"Bounced"}))
  <2>1. /\ EventsIn(Typed({"Transient", "Bounced"})) = b \union c /\ b \intersect c = {}
        /\ EventsOf("Transient") = b /\ EventsOf("Bounced") = c
    BY EventsAre
  <2>2. IsFiniteSet(b) /\ IsFiniteSet(c) /\ Cardinality(b) \in Nat /\ Cardinality(c) \in Nat
    BY EventsFinite
  <2> HIDE DEF b, c
  <2>3. Cardinality(b \union c) = Cardinality(b) + Cardinality(c)
    BY <2>1, <2>2, TwoSizes
  <2> QED BY <2>1, <2>3, Zenon
<1>8. Told("Bounce") + Told("SpamComplaint") =
        Cardinality(EventsOf("Transient")) + Cardinality(EventsOf("Bounced"))
          + (IF SmtpErrors THEN all.SMTPApiErrors ELSE 0)
  BY <1>1, <1>2, <1>6, <1>7
<1>9. /\ all.Bounced = Cardinality(bounced)
      /\ all.UniqueOpens = Cardinality(EventsOf("Opened"))
      /\ all.UniqueLinksClicked = Cardinality(EventsOf("LinkClicked"))
      /\ Told("SubscriptionChange") = Cardinality(EventsOf("SubscriptionChanged"))
  BY <1>1, <1>2, <1>3, <1>5
<1> QED BY <1>8, <1>9 DEF all, Told, bounced

\* A set beside one more element has the size of the set.
LEMMA BesideOne ==
  ASSUME NEW x, NEW T, IsFiniteSet(T)
  PROVE  /\ IsFiniteSet({x} \X T) /\ Cardinality({x} \X T) = Cardinality(T)
         /\ IsFiniteSet(T \X {x}) /\ Cardinality(T \X {x}) = Cardinality(T)
<1>1. IsFiniteSet({x}) /\ Cardinality({x}) = 1 /\ Cardinality(T) \in Nat
  BY FS_Singleton, FS_CardinalityType
<1>2. /\ IsFiniteSet({x} \X T) /\ Cardinality({x} \X T) = Cardinality({x}) * Cardinality(T)
      /\ IsFiniteSet(T \X {x}) /\ Cardinality(T \X {x}) = Cardinality(T) * Cardinality({x})
  BY <1>1, FS_Product
<1> QED BY <1>1, <1>2

\* The place of the recipient of an open or a click in the message.
SlotOf(f) == <<f.msg, CHOOSE k \in DOMAIN outbound[f.msg].draft.to : outbound[f.msg].draft.to[k] = f.to>>

\* It is a place of the message, and the recipient is there.
LEMMA SlotIs ==
  ASSUME TypeOK, FactsSound, NEW n \in DOMAIN facts, facts[n].kind \in {"open", "click"}
  PROVE  LET f == facts[n]
         IN  /\ SlotOf(f) \in Slots(outbound) /\ SlotOf(f)[1] = f.msg /\ f.msg \in DOMAIN outbound
             /\ outbound[f.msg].draft.to[SlotOf(f)[2]] = f.to
             /\ n \in Nat /\ f.to \in Recipients
<1> DEFINE f == facts[n]
           to == outbound[f.msg].draft.to
<1>1. f.msg \in DOMAIN outbound /\ f.to \in ToSet(to)
  BY DEF FactsSound, SoundIn
<1>2. \E k \in DOMAIN to : to[k] = f.to
  BY <1>1, Elements
<1>3. DOMAIN facts = 1..Len(facts) /\ f \in Fact
  BY StoresTyped, LenProperties, AllDays
<1>4. \A g \in Fact : g.kind \in {"open", "click"} => g.to \in Recipients
  BY DEF Fact
<1>5. SlotOf(f)[1] = f.msg /\ SlotOf(f)[2] \in DOMAIN to /\ to[SlotOf(f)[2]] = f.to
  BY <1>2 DEF SlotOf
<1>6. SlotOf(f) = <<f.msg, SlotOf(f)[2]>>
  BY DEF SlotOf
<1>7. <<f.msg, SlotOf(f)[2]>> \in Slots(outbound)
  BY <1>1, <1>5 DEF Slots
<1>8. SlotOf(f) \in Slots(outbound)
  BY <1>6, <1>7, Zenon
<1>9. n \in Nat /\ f.to \in Recipients
  BY <1>3, <1>4
<1> QED BY <1>1, <1>5, <1>8, <1>9

\* No recipient has two first opens.
LEMMA OpensBounded ==
  ASSUME TypeOK, FactsSound, SentFor, FirstsAgree
  PROVE  Cardinality(FirstsOf("open")) <= Cardinality({n \in Of("sent") : facts[n].openTracking})
<1> DEFINE firsts == FirstsOf("open")
           sent == {n \in Of("sent") : facts[n].openTracking}
<1>1. PICK at : OneForEach(at)
  BY DEF SentFor
<1> DEFINE to == [n \in firsts |-> at[SlotOf(facts[n])]]
<1>2. \A n \in firsts : n \in DOMAIN facts /\ facts[n].kind = "open" /\ facts[n].first
  BY DEF FirstsOf, Of
<1>3. ASSUME NEW n \in firsts PROVE to[n] \in sent
  <2>1. /\ SlotOf(facts[n]) \in Slots(outbound) /\ SlotOf(facts[n])[1] = facts[n].msg
        /\ outbound[facts[n].msg].draft.trackOpens
    BY <1>2, SlotIs DEF FactsSound, SoundIn
  <2>2. /\ at[SlotOf(facts[n])] \in DOMAIN facts
        /\ FactFor(facts[at[SlotOf(facts[n])]], outbound[facts[n].msg].draft)
    BY <1>1, <2>1 DEF OneForEach
  <2> QED BY <2>1, <2>2 DEF FactFor, Of
<1>4. ASSUME NEW n \in firsts, NEW m \in firsts, to[n] = to[m]
      PROVE  n = m
  <2>1. SlotOf(facts[n]) = SlotOf(facts[m])
    <3>1. SlotOf(facts[n]) \in Slots(outbound) /\ SlotOf(facts[m]) \in Slots(outbound)
      BY <1>2, SlotIs
    <3> QED BY <1>1, <1>4, <3>1 DEF OneForEach
  <2>2. facts[n].msg = facts[m].msg /\ facts[n].to = facts[m].to
    BY <1>2, <2>1, SlotIs
  <2>3. facts[n].msg \in DOMAIN outbound /\ facts[n].to \in Recipients /\ n \in Nat /\ m \in Nat
    BY <1>2, SlotIs
  <2>4. n \in OpenFacts(facts[n].msg, facts[n].to) /\ m \in OpenFacts(facts[n].msg, facts[n].to)
    BY <1>2, <2>2 DEF OpenFacts
  <2>5. OpensAgree(facts[n].msg, facts[n].to)
    BY <2>3 DEF FirstsAgree
  <2>6. n <= m /\ m <= n
    BY <1>2, <2>4, <2>5 DEF OpensAgree
  <2> QED BY <2>3, <2>6
<1>5. IsFiniteSet(sent)
  <2>1. sent \subseteq DOMAIN facts
    BY DEF Of
  <2> QED BY <2>1, FactsFinite
<1>6. to \in [firsts -> sent]
  BY <1>3
<1> HIDE DEF firsts, sent, to
<1>7. Cardinality(firsts) <= Cardinality(sent)
  BY <1>4, <1>5, <1>6, NotLarger
<1> QED BY <1>7 DEF firsts, sent

\* No recipient has two first clicks of a link, and each is of a link that was
\* counted as tracked when its message was sent to the recipient.
LEMMA ClicksBounded ==
  ASSUME TypeOK, FactsSound, SentFor, FirstsAgree
  PROVE  Cardinality(FirstsOf("click")) <= SumFunction([n \in Of("sent") |-> facts[n].trackedLinks])
<1> DEFINE firsts == FirstsOf("click")
           sent == Of("sent")
           links(s) == TrackedLinks(outbound[s[1]].draft, "")
           tracked == [n \in sent |-> facts[n].trackedLinks]
<1>1. PICK at : OneForEach(at)
  BY DEF SentFor
<1> DEFINE units == {u \in sent \X Links : \E s \in Slots(outbound) : at[s] = u[1] /\ u[2] \in links(s)}
           to == [n \in firsts |-> <<at[SlotOf(facts[n])], facts[n].link>>]
           of == [u \in units |-> u[1]]
<1>2. \A n \in firsts : n \in DOMAIN facts /\ facts[n].kind = "click" /\ facts[n].first
  BY DEF FirstsOf, Of
<1>3. IsFiniteSet(sent) /\ IsFiniteSet(Links)
  <2>1. sent \subseteq DOMAIN facts
    BY DEF Of
  <2> QED BY <2>1, FactsFinite, TrackingAssumption
<1>4. IsFiniteSet(units)
  <2>1. IsFiniteSet(sent \X Links)
    BY <1>3, FS_Product
  <2> QED BY <2>1, FS_Subset
<1>5. ASSUME NEW s \in Slots(outbound)
      PROVE  /\ at[s] \in sent /\ facts[at[s]].trackedLinks = Cardinality(links(s))
             /\ links(s) \subseteq Links /\ IsFiniteSet(links(s)) /\ Cardinality(links(s)) \in Nat
  <2>1. s[1] \in DOMAIN outbound
    BY DEF Slots
  <2>2. outbound[s[1]].draft \in Drafts
    BY <2>1, StoresTyped DEF Message
  <2>3. links(s) \subseteq Links /\ Cardinality(links(s)) \in Nat
    BY <2>2, TrackedTyped
  <2>4. at[s] \in DOMAIN facts /\ FactFor(facts[at[s]], outbound[s[1]].draft)
    BY <1>1 DEF OneForEach
  <2>5. at[s] \in sent /\ facts[at[s]].trackedLinks = Cardinality(links(s))
    BY <2>4 DEF FactFor, Of
  <2>6. IsFiniteSet(links(s))
    BY <1>3, <2>3, FS_Subset
  <2> QED BY <2>3, <2>5, <2>6
<1>6. ASSUME NEW n \in sent
      PROVE  \E s \in Slots(outbound) : at[s] = n
  BY <1>1 DEF OneForEach, Of
<1> HIDE DEF links
<1>7. ASSUME NEW n \in firsts PROVE to[n] \in units
  <2> DEFINE s == SlotOf(facts[n])
  <2>1. s \in Slots(outbound) /\ s[1] = facts[n].msg
    BY <1>2, SlotIs
  <2>2. facts[n].link \in links(s)
    BY <1>2, <2>1 DEF FactsSound, SoundIn, links
  <2> HIDE DEF s
  <2>3. at[s] \in sent /\ facts[n].link \in Links
    BY <1>5, <2>1, <2>2
  <2>4. <<at[s], facts[n].link>> \in units
    BY <2>1, <2>2, <2>3
  <2> QED BY <2>4 DEF s
<1>8. ASSUME NEW n \in firsts, NEW m \in firsts, to[n] = to[m]
      PROVE  n = m
  <2>1. SlotOf(facts[n]) = SlotOf(facts[m]) /\ facts[n].link = facts[m].link
    <3>1. SlotOf(facts[n]) \in Slots(outbound) /\ SlotOf(facts[m]) \in Slots(outbound)
      BY <1>2, SlotIs
    <3> QED BY <1>1, <1>8, <3>1 DEF OneForEach
  <2>2. facts[n].msg = facts[m].msg /\ facts[n].to = facts[m].to
    BY <1>2, <2>1, SlotIs
  <2>3. facts[n].msg \in DOMAIN outbound /\ facts[n].to \in Recipients /\ n \in Nat /\ m \in Nat
    BY <1>2, SlotIs
  <2>4. /\ n \in ClickFacts(facts[n].msg, facts[n].to, facts[n].link)
        /\ m \in ClickFacts(facts[n].msg, facts[n].to, facts[n].link)
    BY <1>2, <2>1, <2>2 DEF ClickFacts
  <2>5. ClicksAgree(facts[n].msg, facts[n].to, facts[n].link)
    <3>1. facts[n].link \in Links
      BY <1>7
    <3> QED BY <2>3, <3>1 DEF FirstsAgree
  <2>6. n <= m /\ m <= n
    BY <1>2, <2>4, <2>5 DEF ClicksAgree
  <2> QED BY <2>3, <2>6
<1>9. ASSUME NEW n \in sent
      PROVE  tracked[n] \in Nat /\ tracked[n] = Cardinality({u \in units : of[u] = n})
  <2>1. PICK s \in Slots(outbound) : at[s] = n
    BY <1>6
  <2>2. {u \in units : of[u] = n} = {n} \X links(s)
    <3>1. \A t \in Slots(outbound) : at[t] = n => t = s
      BY <1>1, <2>1 DEF OneForEach
    <3>2. \A u \in units : u[1] = n => u \in {n} \X links(s)
      BY <3>1
    <3>3. \A l \in links(s) : <<n, l>> \in units
      BY <1>5, <2>1
    <3> HIDE DEF units
    <3> QED BY <3>2, <3>3
  <2>3. Cardinality({n} \X links(s)) = Cardinality(links(s))
    BY <1>5, BesideOne
  <2>4. tracked[n] = Cardinality(links(s)) /\ Cardinality(links(s)) \in Nat
    BY <1>5, <2>1
  <2> HIDE DEF units, of, tracked
  <2> QED BY <2>2, <2>3, <2>4
<1>10. of \in [units -> sent] /\ tracked \in [sent -> Nat] /\ to \in [firsts -> units]
  BY <1>7, <1>9
<1> HIDE DEF firsts, sent, units, of, tracked, to
<1>11. SumFunction(tracked) = Cardinality(units)
  BY <1>3, <1>4, <1>9, <1>10, SumCounts
<1>12. Cardinality(firsts) <= Cardinality(units)
  BY <1>4, <1>8, <1>10, NotLarger
<1>13. Cardinality(firsts) <= SumFunction(tracked)
  BY <1>11, <1>12
<1> QED BY <1>13 DEF firsts, tracked, sent

\* What a path counts of all days, as fact and key.
CountsOf(path) ==
  {c \in Of(CountedKind[path]) \X DocumentedKeys[path] : Counted(path, facts[c[1]], c[2])}

\* They are finitely many, and the answer counts them.
LEMMA SeriesIs ==
  ASSUME TypeOK, NEW path \in DOMAIN DocumentedKeys
  PROVE  LET answer == Series(path, 0, MaxTime)
             counts == CountsOf(path)
             those(d) == {c \in counts : facts[c[1]].at = d}
         IN  /\ IsFiniteSet(counts) /\ IsFiniteSet(DocumentedKeys[path])
             /\ answer.Totals = [key \in DocumentedKeys[path] |-> Cardinality({c \in counts : c[2] = key})]
             /\ answer.Days = [d \in {facts[c[1]].at : c \in counts} |->
                                 [key \in {c[2] : c \in those(d)} |->
                                    Cardinality({c \in those(d) : c[2] = key})]]
<1>1. IsFiniteSet(DocumentedKeys[path])
  <2>1. ASSUME NEW a, NEW b PROVE IsFiniteSet({a}) /\ IsFiniteSet({a, b})
    <3>1. IsFiniteSet({a}) /\ IsFiniteSet({b})
      BY FS_Singleton
    <3>2. IsFiniteSet({a} \union {b})
      BY <3>1, FS_Union
    <3>3. {a, b} = {a} \union {b}
      OBVIOUS
    <3> QED BY <3>1, <3>2, <3>3
  <2>2. IsFiniteSet({"HardBounce", "SMTPApiError", "SoftBounce", "Transient"})
    <3>1. {"HardBounce", "SMTPApiError", "SoftBounce", "Transient"} =
            {"HardBounce", "SMTPApiError"} \union {"SoftBounce", "Transient"}
      OBVIOUS
    <3>2. IsFiniteSet({"HardBounce", "SMTPApiError"} \union {"SoftBounce", "Transient"})
      BY <2>1, FS_Union
    <3> QED BY <3>1, <3>2, Zenon
  <2>3. path \in {"sends", "bounces", "spam", "tracked", "opens", "clicks", "locations"}
    BY DEF DocumentedKeys
  <2>4. CASE path = "bounces"
    BY <2>2, <2>4 DEF DocumentedKeys
  <2>5. CASE path \in {"sends", "spam", "tracked"}
    <3>1. DocumentedKeys[path] \in {{"Sent"}, {"SpamComplaint"}, {"Tracked"}}
      BY <2>5 DEF DocumentedKeys
    <3> QED BY <2>1, <3>1
  <2>6. CASE path \in {"opens", "clicks", "locations"}
    <3>1. DocumentedKeys[path] \in {{"Opens", "Unique"}, {"Clicks", "Unique"}, {"HTML", "Text"}}
      BY <2>6 DEF DocumentedKeys
    <3> QED BY <2>1, <3>1
  <2> QED BY <2>3, <2>4, <2>5, <2>6
<1>2. IsFiniteSet(CountsOf(path))
  <2>1. Of(CountedKind[path]) \subseteq DOMAIN facts
    BY DEF Of
  <2>2. IsFiniteSet(Of(CountedKind[path]))
    BY <2>1, FactsFinite
  <2>3. IsFiniteSet(Of(CountedKind[path]) \X DocumentedKeys[path])
    BY <1>1, <2>2, FS_Product
  <2> QED BY <2>3, FS_Subset DEF CountsOf
<1>3. {n \in Within(0, MaxTime) : facts[n].kind = CountedKind[path]} = Of(CountedKind[path])
  BY AllDays DEF Of
<1> QED BY <1>1, <1>2, <1>3 DEF Series, CountsOf

\* The totals of a path sum up to what it counts, and the days to each total.
LEMMA SeriesAdds ==
  ASSUME TypeOK, NEW path \in DOMAIN DocumentedKeys
  PROVE  LET answer == Series(path, 0, MaxTime)
             OfDays(key) == {d \in DOMAIN answer.Days : key \in DOMAIN answer.Days[d]}
         IN  /\ SumFunction(answer.Totals) = Cardinality(CountsOf(path))
             /\ \A key \in DocumentedKeys[path] :
                  answer.Totals[key] = SumFunction([d \in OfDays(key) |-> answer.Days[d][key]])
<1> DEFINE answer == Series(path, 0, MaxTime)
           counts == CountsOf(path)
           keys == DocumentedKeys[path]
           those(d) == {c \in counts : facts[c[1]].at = d}
           totals == [key \in keys |-> Cardinality({c \in counts : c[2] = key})]
           days == {facts[c[1]].at : c \in counts}
           day(d) == [key \in {c[2] : c \in those(d)} |-> Cardinality({c \in those(d) : c[2] = key})]
           OfDays(key) == {d \in DOMAIN answer.Days : key \in DOMAIN answer.Days[d]}
<1>1. /\ IsFiniteSet(counts) /\ IsFiniteSet(keys)
      /\ answer.Totals = totals /\ answer.Days = [d \in days |-> day(d)]
  BY SeriesIs
<1>2. \A c \in counts : c[1] \in DOMAIN facts /\ c[2] \in keys /\ facts[c[1]].at \in Instants
  BY AllDays DEF CountsOf, Of
<1> HIDE DEF answer, counts, keys
<1>3. \A D : D \subseteq counts => IsFiniteSet(D) /\ Cardinality(D) \in Nat
  BY <1>1, FS_Subset, FS_CardinalityType
<1>4. SumFunction(totals) = Cardinality(counts)
  <2> DEFINE g == [c \in counts |-> c[2]]
  <2>1. g \in [counts -> keys]
    BY <1>2
  <2>2. \A key \in keys : /\ totals[key] = Cardinality({c \in counts : g[c] = key})
                          /\ totals[key] \in Nat
    <3> TAKE key \in keys
    <3>1. {c \in counts : g[c] = key} = {c \in counts : c[2] = key}
      OBVIOUS
    <3>2. totals[key] = Cardinality({c \in counts : c[2] = key})
      OBVIOUS
    <3>3. Cardinality({c \in counts : c[2] = key}) \in Nat
      BY <1>3
    <3> HIDE DEF totals, g
    <3> QED BY <3>1, <3>2, <3>3
  <2>3. totals \in [keys -> Nat]
    BY <2>2
  <2> HIDE DEF totals, g
  <2> QED BY <1>1, <2>1, <2>2, <2>3, SumCounts
<1>5. ASSUME NEW key \in keys
      PROVE  answer.Totals[key] = SumFunction([d \in OfDays(key) |-> answer.Days[d][key]])
  <2> DEFINE those2 == {c \in counts : c[2] = key}
             of == OfDays(key)
             g == [c \in those2 |-> facts[c[1]].at]
             f == [d \in of |-> answer.Days[d][key]]
  <2>1. of = {d \in days : key \in {c[2] : c \in those(d)}}
    BY <1>1
  <2>2. \A c \in those2 : g[c] \in of
    BY <2>1
  <2>3. IsFiniteSet(those2) /\ Cardinality(those2) \in Nat
    BY <1>3
  <2>4. IsFiniteSet(of)
    <3>1. of \subseteq Instants
      BY <1>2, <2>1
    <3>2. 0 \in Int /\ MaxTime \in Int
      BY TrackingAssumption
    <3>3. IsFiniteSet(0..MaxTime)
      BY <3>2, FS_Interval
    <3> HIDE DEF of
    <3> QED BY <3>1, <3>3, FS_Subset DEF Instants
  <2>5. ASSUME NEW d \in of
        PROVE  f[d] \in Nat /\ f[d] = Cardinality({c \in those2 : g[c] = d})
    <3>1. f[d] = day(d)[key] /\ key \in {c[2] : c \in those(d)}
      BY <1>1, <2>1
    <3>2. f[d] = Cardinality({c \in those(d) : c[2] = key})
      BY <3>1
    <3>3. {c \in those(d) : c[2] = key} = {c \in those2 : g[c] = d}
      OBVIOUS
    <3>4. Cardinality({c \in those(d) : c[2] = key}) \in Nat
      BY <1>3
    <3> HIDE DEF f, those, those2, g
    <3> QED BY <3>2, <3>3, <3>4
  <2>6. g \in [those2 -> of] /\ f \in [of -> Nat]
    BY <2>2, <2>5
  <2>7. answer.Totals[key] = Cardinality(those2)
    BY <1>1
  <2> HIDE DEF g, f, those2, of
  <2>8. SumFunction(f) = Cardinality(those2)
    BY <2>3, <2>4, <2>5, <2>6, SumCounts
  <2> QED BY <2>7, <2>8 DEF f, of
<1>6. SumFunction(answer.Totals) = Cardinality(counts)
  <2> HIDE DEF totals
  <2> QED BY <1>1, <1>4
<1> QED BY <1>5, <1>6 DEF answer, counts, keys

\* The counts of the paths with one key, or with a second one for the first ones.
LEMMA KeyedCounts ==
  ASSUME TypeOK
  PROVE  /\ Cardinality(CountsOf("sends")) = Cardinality(Of("sent"))
         /\ Cardinality(CountsOf("spam")) = Cardinality(Of("spamComplaint"))
         /\ Cardinality(CountsOf("tracked")) =
              Cardinality({n \in Of("sent") : facts[n].openTracking \/ facts[n].linkTracking})
         /\ Cardinality(CountsOf("opens")) = Cardinality(Of("open")) + Cardinality(FirstsOf("open"))
         /\ Cardinality(CountsOf("clicks")) = Cardinality(Of("click")) + Cardinality(FirstsOf("click"))
<1> DEFINE tracked == {n \in Of("sent") : facts[n].openTracking \/ facts[n].linkTracking}
<1>1. /\ CountsOf("sends") = Of("sent") \X {"Sent"}
      /\ CountsOf("spam") = Of("spamComplaint") \X {"SpamComplaint"}
  BY DEF CountsOf, CountedKind, DocumentedKeys, Counted
<1>2. CountsOf("tracked") = tracked \X {"Tracked"}
  BY DEF CountsOf, CountedKind, DocumentedKeys, Counted
<1>3. CountsOf("opens") = (Of("open") \X {"Opens"}) \union (FirstsOf("open") \X {"Unique"})
  BY DEF CountsOf, CountedKind, DocumentedKeys, Counted, FirstsOf
<1>4. CountsOf("clicks") = (Of("click") \X {"Clicks"}) \union (FirstsOf("click") \X {"Unique"})
  BY DEF CountsOf, CountedKind, DocumentedKeys, Counted, FirstsOf
<1>5. \A kind : IsFiniteSet(Of(kind)) /\ IsFiniteSet(FirstsOf(kind))
  <2> TAKE kind
  <2>1. Of(kind) \subseteq DOMAIN facts /\ FirstsOf(kind) \subseteq DOMAIN facts
    BY DEF Of, FirstsOf
  <2> QED BY <2>1, FactsFinite
<1>6. IsFiniteSet(tracked)
  BY <1>5, FS_Subset
<1> HIDE DEF tracked
<1>7. \A T, k : IsFiniteSet(T) => IsFiniteSet(T \X {k}) /\ Cardinality(T \X {k}) = Cardinality(T)
  BY BesideOne
<1>8. /\ Cardinality(CountsOf("sends")) = Cardinality(Of("sent"))
      /\ Cardinality(CountsOf("spam")) = Cardinality(Of("spamComplaint"))
      /\ Cardinality(CountsOf("tracked")) = Cardinality(tracked)
  BY <1>1, <1>2, <1>5, <1>6, <1>7
<1>9. ASSUME NEW kind, NEW k, k # "Unique"
      PROVE  Cardinality((Of(kind) \X {k}) \union (FirstsOf(kind) \X {"Unique"})) =
               Cardinality(Of(kind)) + Cardinality(FirstsOf(kind))
  <2> DEFINE a == Of(kind) \X {k}
             b == FirstsOf(kind) \X {"Unique"}
  <2>1. a \intersect b = {}
    BY <1>9
  <2>2. /\ IsFiniteSet(a) /\ Cardinality(a) = Cardinality(Of(kind))
        /\ IsFiniteSet(b) /\ Cardinality(b) = Cardinality(FirstsOf(kind))
    BY <1>5, <1>7
  <2> HIDE DEF a, b
  <2>3. Cardinality(a \union b) = Cardinality(a) + Cardinality(b)
    BY <2>1, <2>2, TwoSizes
  <2> QED BY <2>2, <2>3 DEF a, b
<1>10. /\ Cardinality(CountsOf("opens")) = Cardinality(Of("open")) + Cardinality(FirstsOf("open"))
       /\ Cardinality(CountsOf("clicks")) = Cardinality(Of("click")) + Cardinality(FirstsOf("click"))
  <2>1. "Opens" # "Unique" /\ "Clicks" # "Unique"
    OBVIOUS
  <2>2. Cardinality((Of("open") \X {"Opens"}) \union (FirstsOf("open") \X {"Unique"})) =
          Cardinality(Of("open")) + Cardinality(FirstsOf("open"))
    BY <1>9, <2>1
  <2>3. Cardinality((Of("click") \X {"Clicks"}) \union (FirstsOf("click") \X {"Unique"})) =
          Cardinality(Of("click")) + Cardinality(FirstsOf("click"))
    BY <1>9, <2>1
  <2> QED BY <1>3, <1>4, <2>2, <2>3, Zenon
<1> QED BY <1>8, <1>10 DEF tracked

\* The counts of the paths whose key the fact tells.
LEMMA ToldCounts ==
  ASSUME TypeOK, FactsSound
  PROVE  /\ Cardinality(CountsOf("bounces")) = Cardinality(Of("bounce"))
         /\ Cardinality(CountsOf("locations")) = Cardinality(Of("click"))
<1>1. \A n \in DOMAIN facts : facts[n] \in Fact
  BY AllDays
<1>2. \A n \in Of("bounce") : facts[n].type \in DocumentedKeys["bounces"]
  BY DEF Of, FactsSound, SoundIn
<1>3. \A n \in Of("click") : facts[n].location \in DocumentedKeys["locations"]
  <2>1. \A f \in Fact : f.kind = "click" => f.location \in {"HTML", "Text"}
    BY DEF Fact, Locations
  <2> QED BY <1>1, <2>1 DEF Of, DocumentedKeys
<1>4. \A kind : IsFiniteSet(Of(kind))
  <2> TAKE kind
  <2>1. Of(kind) \subseteq DOMAIN facts
    BY DEF Of
  <2> QED BY <2>1, FactsFinite
<1>5. Cardinality(CountsOf("bounces")) = Cardinality(Of("bounce"))
  <2> DEFINE f == [n \in Of("bounce") |-> <<n, facts[n].type>>]
  <2>1. CountsOf("bounces") = {c \in Of("bounce") \X DocumentedKeys["bounces"] : c[2] = facts[c[1]].type}
    BY DEF CountsOf, CountedKind, Counted
  <2>2. f \in [Of("bounce") -> CountsOf("bounces")]
    BY <1>2, <2>1
  <2>3. \A x, y \in Of("bounce") : f[x] = f[y] => x = y
    OBVIOUS
  <2>4. \A c \in CountsOf("bounces") : \E n \in Of("bounce") : f[n] = c
    BY <2>1
  <2> HIDE DEF f
  <2> QED BY <1>4, <2>2, <2>3, <2>4, SameSize
<1>6. Cardinality(CountsOf("locations")) = Cardinality(Of("click"))
  <2> DEFINE f == [n \in Of("click") |-> <<n, facts[n].location>>]
  <2>1. CountsOf("locations") = {c \in Of("click") \X DocumentedKeys["locations"] : c[2] = facts[c[1]].location}
    BY DEF CountsOf, CountedKind, Counted
  <2>2. f \in [Of("click") -> CountsOf("locations")]
    BY <1>3, <2>1
  <2>3. \A x, y \in Of("click") : f[x] = f[y] => x = y
    OBVIOUS
  <2>4. \A c \in CountsOf("locations") : \E n \in Of("click") : f[n] = c
    BY <2>1
  <2> HIDE DEF f
  <2> QED BY <1>4, <2>2, <2>3, <2>4, SameSize
<1> QED BY <1>5, <1>6

\* The bounces of facts are true ones and answers of SMTP.
LEMMA BouncesSplit ==
  ASSUME TypeOK
  PROVE  Cardinality(Of("bounce")) = Count(facts, TrueBounces) + Count(facts, SmtpBounces)
<1> DEFINE a == Where(facts, TrueBounces)
           b == Where(facts, SmtpBounces)
<1>1. \A n \in DOMAIN facts : facts[n] \in Fact
  BY AllDays
<1>2. Of("bounce") = a \union b /\ a \intersect b = {}
  BY <1>1 DEF Of, Where, TrueBounces, SmtpBounces
<1>3. IsFiniteSet(a) /\ IsFiniteSet(b)
  BY StoresTyped, Counts
<1> HIDE DEF a, b
<1>4. Cardinality(a \union b) = Cardinality(a) + Cardinality(b)
  BY <1>2, <1>3, TwoSizes
<1> QED BY <1>2, <1>4 DEF Count, a, b

\* What the overview and the other queries say of all days agrees.
LEMMA Adds ==
  ASSUME TypeOK, Tallied, FirstsAgree
  PROVE  OverviewAdds
<1> DEFINE all == Overview(0, MaxTime)
           sums == [sends |-> all.Sent, bounces |-> all.Bounced + all.SMTPApiErrors,
                    spam |-> all.SpamComplaints, tracked |-> all.Tracked,
                    opens |-> all.Opens + all.UniqueOpens,
                    clicks |-> all.TotalClicks + all.UniqueLinksClicked, locations |-> all.TotalClicks]
<1>1. CountsAgree /\ FactsSound /\ SentFor
  BY DEF Tallied
<1>2. /\ all.Sent = Cardinality(Of("sent"))
      /\ all.Bounced = Count(facts, TrueBounces)
      /\ all.SMTPApiErrors = Count(facts, SmtpBounces)
      /\ all.SpamComplaints = Cardinality(Of("spamComplaint"))
      /\ all.Opens = Cardinality(Of("open"))
      /\ all.UniqueOpens = Cardinality(FirstsOf("open"))
      /\ all.Tracked = Cardinality({n \in Of("sent") : facts[n].openTracking \/ facts[n].linkTracking})
      /\ all.WithOpenTracking = Cardinality({n \in Of("sent") : facts[n].openTracking})
      /\ all.TotalTrackedLinksSent = SumFunction([n \in Of("sent") |-> facts[n].trackedLinks])
      /\ all.TotalClicks = Cardinality(Of("click"))
      /\ all.UniqueLinksClicked = Cardinality(FirstsOf("click"))
  BY OverviewIs
<1> HIDE DEF all
<1>3. /\ all.UniqueOpens <= all.WithOpenTracking
      /\ all.UniqueLinksClicked <= all.TotalTrackedLinksSent
  BY <1>1, <1>2, OpensBounded, ClicksBounded
<1>4. ASSUME NEW A, NEW B, A \subseteq B, B \subseteq DOMAIN facts
      PROVE  Cardinality(A) <= Cardinality(B)
  <2>1. IsFiniteSet(B)
    BY <1>4, FactsFinite
  <2> QED BY <1>4, <2>1, FS_Subset
<1>5. all.UniqueOpens <= all.Opens /\ all.Tracked <= all.Sent
  <2>1. \A kind : FirstsOf(kind) \subseteq Of(kind) /\ Of(kind) \subseteq DOMAIN facts
    BY DEF FirstsOf, Of
  <2>2. {n \in Of("sent") : facts[n].openTracking \/ facts[n].linkTracking} \subseteq Of("sent")
    OBVIOUS
  <2> QED BY <1>2, <1>4, <2>1, <2>2
<1>6. ASSUME NEW path \in DOMAIN DocumentedKeys
      PROVE  Cardinality(CountsOf(path)) = sums[path]
  <2>1. path \in {"sends", "bounces", "spam", "tracked", "opens", "clicks", "locations"}
    BY DEF DocumentedKeys
  <2>2. /\ sums["sends"] = all.Sent /\ sums["bounces"] = all.Bounced + all.SMTPApiErrors
        /\ sums["spam"] = all.SpamComplaints /\ sums["tracked"] = all.Tracked
        /\ sums["opens"] = all.Opens + all.UniqueOpens
        /\ sums["clicks"] = all.TotalClicks + all.UniqueLinksClicked
        /\ sums["locations"] = all.TotalClicks
    OBVIOUS
  <2> HIDE DEF sums
  <2>3. CASE path \in {"sends", "spam", "tracked", "opens", "clicks"}
    BY <1>2, <2>2, <2>3, KeyedCounts
  <2>4. CASE path \in {"bounces", "locations"}
    BY <1>1, <1>2, <2>2, <2>4, ToldCounts, BouncesSplit
  <2> QED BY <2>1, <2>3, <2>4
<1> HIDE DEF sums
<1>7. \A path \in DOMAIN DocumentedKeys :
        LET answer == Series(path, 0, MaxTime)
            OfDays(key) == {d \in DOMAIN answer.Days : key \in DOMAIN answer.Days[d]}
        IN  /\ SumFunction(answer.Totals) = sums[path]
            /\ \A key \in DocumentedKeys[path] :
                 answer.Totals[key] = SumFunction([d \in OfDays(key) |-> answer.Days[d][key]])
  BY <1>6, SeriesAdds
<1> QED BY <1>1, <1>3, <1>5, <1>7, CountsTold DEF OverviewAdds, all, sums

-----------------------------------------------------------------------------
(***************************************************************************)
(* The theorems.                                                           *)
(***************************************************************************)
\* The inductive invariant of the module.
Sound ==
  /\ TypeOK
  /\ KnownMessages /\ FirstsAgree
  /\ Story
  /\ Tallied
  /\ PagingMissesNone /\ FirstKnown

\* Sound holds in every state.
THEOREM Soundness == Spec => []Sound
<1>1. Init => Sound
  BY InitTyped, InitAgrees, InitStory, InitTallied, InitPage DEF Sound
<1>2. Sound /\ [Next]_vars => Sound'
  <2> SUFFICES ASSUME Sound, [Next]_vars PROVE Sound'
    OBVIOUS
  <2>1. TypeOK /\ KnownMessages /\ FirstsAgree /\ Story /\ Tallied /\ PagingMissesNone /\ FirstKnown
    BY DEF Sound
  <2>2. TypeOK'
    BY <2>1, NextTyped
  <2>3. KnownMessages' /\ FirstsAgree'
    BY <2>1, NextAgrees
  <2>4. Story'
    BY <2>1, NextStory
  <2>5. PagingMissesNone' /\ FirstKnown'
    BY <2>1, <2>2, NextPage
  <2>6. Tallied'
    BY <2>1, NextTallied
  <2> QED BY <2>2, <2>3, <2>4, <2>5, <2>6 DEF Sound
<1> QED BY <1>1, <1>2, PTL DEF Spec

\* The stores, the facts, what the hook is told and the reader have their types.
THEOREM TypeCorrect == Spec => []TypeOK
BY Soundness, PTL DEF Sound

\* Opens and clicks, the facts of first ones, the events and, for opens, the
\* webhook agree on what was the first.
THEOREM FirstsAlwaysAgree == Spec => []FirstsAgree
BY Soundness, PTL DEF Sound

\* What a hook and the details of a message tell of a recipient is a possible story.
THEOREM StoryAlwaysHolds == Spec => []StoryHolds
BY Soundness, PTL DEF Sound, Story

\* The overview, the other queries, the events and the posts count the same, and
\* no number of firsts exceeds what was tracked.
THEOREM OverviewAlwaysAdds == Spec => []OverviewAdds
<1>1. Sound => OverviewAdds
  BY Adds DEF Sound
<1> QED BY <1>1, Soundness, PTL

\* A client that reads page after page misses nothing that it could have read.
THEOREM PagingNeverMisses == Spec => []PagingMissesNone
BY Soundness, PTL DEF Sound
=============================================================================
