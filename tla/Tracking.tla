------------------------------- MODULE Tracking -------------------------------
(***************************************************************************)
(* What becomes of a sent message: delivery, opens, clicks and bounces     *)
(* (src/tracking.ts), the events that its details show                     *)
(* (src/plugins/message-events.ts), the facts that the Stats API counts    *)
(* (src/plugins/stats.ts, src/api/stats), what a webhook of its stream is  *)
(* told (src/plugins/webhooks.ts) and the lists that the Messages API      *)
(* pages (src/api/messages).                                               *)
(*                                                                         *)
(* The same story is told five times: in the stored opens and clicks, in   *)
(* the events of the message, in the facts, in the bounces and to the      *)
(* webhook.  Only the listeners of webhooks wait, and they come last, so   *)
(* each record is one step.  A seed records with an instant of the past.   *)
(* One stream of one server; an instant stands for a day.                  *)
(***************************************************************************)
EXTENDS Naturals, SequencesExt

CONSTANTS
  Recipients, Links,
  Drafts,      \* messages that may be sent
  BounceTypes, \* those that the control API reports
  Retention,   \* RETENTION_MS
  FirstOpensOnly, \* PostFirstOpenOnly of the hook
  SmtpErrors,  \* EnableSmtpApiErrorHooks of the server
  Lists,       \* the lists that a client pages
  PageSizes,   \* counts that a client of a list asks for
  MaxWindow,   \* the 10 000 of count + offset
  MaxTime,     \* bound: the last instant
  MaxSends,    \* bound: messages
  MaxReports   \* bound: what happens to them

Modes == {"None", "HtmlAndText", "HtmlOnly", "TextOnly"}
Locations == {"HTML", "Text"}
Draft == [to: Seq(Recipients), sandboxed: BOOLEAN, trackOpens: BOOLEAN,
          trackLinks: Modes, html: SUBSET Links, text: SUBSET Links]
Reported == {"HardBounce", "SoftBounce", "Transient", "AutoResponder", "SpamComplaint"}

ASSUME TrackingAssumption ==
  /\ Drafts \subseteq Draft /\ IsFiniteSet(Links)
  /\ BounceTypes \subseteq Reported
  /\ FirstOpensOnly \in BOOLEAN /\ SmtpErrors \in BOOLEAN
  /\ Lists \subseteq {"messages", "opens", "clicks"}
  /\ PageSizes \subseteq Nat \ {0}
  /\ {Retention, MaxWindow, MaxTime, MaxSends, MaxReports} \subseteq Nat

VARIABLES
  now,
  stream,    \* the instant its stream was created, or Gone
  outbound,  \* the stored messages, oldest first
  bounces,   \* oldest first
  rows,      \* suppressed recipient -> the reason
  opens, clicks,  \* those that are kept, oldest first
  facts,     \* the statistics, oldest first
  posts,     \* what the hook is told, in the order of the first attempts
  reader     \* a client that pages through a list

vars == <<now, stream, outbound, bounces, rows, opens, clicks, facts, posts, reader>>

Gone == MaxTime + 1
Idle == [on |-> FALSE]
Instants == 0..MaxTime
EventTypes == {"Delivered", "Transient", "Bounced", "Opened", "LinkClicked", "SubscriptionChanged"}
Event == [type: EventTypes, to: Recipients, at: Instants, detail: Links \union Reported \union {""}]
Message == [draft: Drafts, at: Instants, skipped: SUBSET Recipients, events: Seq(Event)]
\* A fact has a kind; what is counted of it depends on the kind.
Fact ==
  [kind: {"sent"}, at: Instants, openTracking: BOOLEAN, linkTracking: BOOLEAN, trackedLinks: Nat]
    \union [kind: {"bounce"}, at: Instants, type: Reported \union {"SMTPApiError"}]
    \union [kind: {"spamComplaint"}, at: Instants]
    \union [kind: {"open"}, at: Instants, msg: Nat, to: Recipients, first: BOOLEAN]
    \union [kind: {"click"}, at: Instants, msg: Nat, to: Recipients, first: BOOLEAN,
            link: Links, location: Locations]

RecordTypes == {"Delivery", "Bounce", "SpamComplaint", "Open", "Click", "SubscriptionChange"}
Reasons == {"HardBounce", "SpamComplaint", "ManualSuppression"}

TypeOK ==
  /\ now \in Instants
  /\ stream \in Instants \union {Gone}
  /\ outbound \in Seq(Message)
  /\ bounces \in Seq([msg: Nat, to: Recipients, type: Reported \union {"SMTPApiError"}])
  /\ \E S \in SUBSET Recipients : rows \in [S -> Reasons]
  /\ opens \in Seq([msg: Nat, to: Recipients, at: Instants])
  /\ clicks \in Seq([msg: Nat, to: Recipients, at: Instants, link: Links])
  /\ facts \in Seq(Fact)
  /\ posts \in Seq([record: RecordTypes, msg: Nat, to: Recipients])
  /\ reader \in [on: {TRUE}, list: Lists, offset: Nat, seen: SUBSET Nat, first: SUBSET Nat] \union {Idle}

-----------------------------------------------------------------------------
(***************************************************************************)
(* Sending.  The recipients of a message are its To, Cc and Bcc in a row,  *)
(* and the plugin counts each of them, the skipped ones too.               *)
(***************************************************************************)
TrackedLinks(draft, location) ==
  (IF draft.trackLinks \in {"HtmlAndText", "HtmlOnly"} /\ location # "Text" THEN draft.html ELSE {})
    \union
  (IF draft.trackLinks \in {"HtmlAndText", "TextOnly"} /\ location # "HTML" THEN draft.text ELSE {})

Deliveries(events) == Len(SelectSeq(events, LAMBDA e : e.type = "Delivered"))
Reports ==
  FoldSeq(LAMBDA m, sum : sum + Deliveries(m.events),
          Len(SelectSeq(facts, LAMBDA f : f.kind # "sent")), outbound)

\* The hook is a verified webhook of the stream with every trigger on.
Post(record, i, r) == <<[record |-> record, msg |-> i, to |-> r]>>

SentFact(draft) ==
  [kind |-> "sent", at |-> now, openTracking |-> draft.trackOpens,
   linkTracking |-> draft.trackLinks # "None",
   trackedLinks |-> Cardinality(TrackedLinks(draft, ""))]

Send(draft) ==
  /\ Len(outbound) < MaxSends
  /\ stream # Gone
  /\ ~ ToSet(draft.to) \subseteq DOMAIN rows
  /\ outbound' = Append(outbound, [draft |-> draft, at |-> now, events |-> <<>>,
                                   skipped |-> ToSet(draft.to) \intersect DOMAIN rows])
  /\ facts' = facts \o [n \in DOMAIN draft.to |-> SentFact(draft)]
  /\ UNCHANGED <<now, stream, bounces, rows, opens, clicks, posts, reader>>

\* The listeners on `smtpApiError`: a message of SMTP skipped a recipient.
SkippedBySmtp(i, r) ==
  /\ Reports < MaxReports
  /\ r \in outbound[i].skipped
  /\ [msg |-> i, to |-> r, type |-> "SMTPApiError"] \notin ToSet(bounces)
  /\ bounces' = Append(bounces, [msg |-> i, to |-> r, type |-> "SMTPApiError"])
  /\ facts' = Append(facts, [kind |-> "bounce", at |-> now, type |-> "SMTPApiError"])
  /\ posts' = posts \o (IF SmtpErrors THEN Post("Bounce", i, r) ELSE <<>>)
  /\ UNCHANGED <<now, stream, outbound, rows, opens, clicks, reader>>

-----------------------------------------------------------------------------
(***************************************************************************)
(* What a recipient does with a message.                                   *)
(***************************************************************************)
Undelivered == {"HardBounce", "SoftBounce", "SMTPApiError"}

\* A slip: only a hard bounce counts as not delivered.
BouncedHard(i, r) == \E b \in ToSet(bounces) : b.msg = i /\ b.to = r /\ b.type = "HardBounce"
Bounced(i, r) == \E b \in ToSet(bounces) : b.msg = i /\ b.to = r /\ b.type \in Undelivered

Reachable(i, r) ==
  /\ ~ outbound[i].draft.sandboxed
  /\ r \in ToSet(outbound[i].draft.to) \ outbound[i].skipped
  /\ ~ Bounced(i, r)

DeliveredBy(i, r, at) ==
  \E e \in ToSet(outbound[i].events) : e.type = "Delivered" /\ e.to = r /\ e.at <= at

WithEvent(messages, i, type, r, at, detail) ==
  [messages EXCEPT ![i].events =
     Append(@, [type |-> type, to |-> r, at |-> at, detail |-> detail])]

Deliver(i, r, at) ==
  /\ Reports < MaxReports
  /\ Reachable(i, r)
  /\ ~ DeliveredBy(i, r, MaxTime)
  /\ outbound' = WithEvent(outbound, i, "Delivered", r, at, "")
  /\ posts' = posts \o Post("Delivery", i, r)
  /\ UNCHANGED <<now, stream, bounces, rows, opens, clicks, facts, reader>>

\* A slip: an open of another recipient of the message makes it no first.
FirstOfMessage(i, r) == \A o \in ToSet(opens) : o.msg # i
FirstOpen(i, r) == \A o \in ToSet(opens) : o.msg # i \/ o.to # r

OpenFact(i, r, at, first) ==
  [kind |-> "open", at |-> at, msg |-> i, to |-> r, first |-> first]

\* Of the opens that are events, a hook may want the first ones only.
OpenPost(i, r, first) == IF FirstOpensOnly /\ ~first THEN <<>> ELSE Post("Open", i, r)

OpenedEvent(i, r, at, first) ==
  IF first THEN WithEvent(outbound, i, "Opened", r, at, "") ELSE outbound

\* Every open is a fact; the first one of a recipient is kept and is an event.
Open(i, r, at) ==
  LET first == FirstOpen(i, r)
  IN  /\ Reports < MaxReports
      /\ Reachable(i, r) /\ DeliveredBy(i, r, at)
      /\ outbound[i].draft.trackOpens
      /\ opens' = opens \o (IF first THEN <<[msg |-> i, to |-> r, at |-> at]>> ELSE <<>>)
      /\ outbound' = OpenedEvent(i, r, at, first)
      /\ facts' = Append(facts, OpenFact(i, r, at, first))
      /\ posts' = posts \o OpenPost(i, r, first)
      /\ UNCHANGED <<now, stream, bounces, rows, clicks, reader>>

FirstClick(i, r, link) == \A c \in ToSet(clicks) : c.msg # i \/ c.to # r \/ c.link # link

ClickFact(i, r, at, location, link, first) ==
  [kind |-> "click", at |-> at, msg |-> i, to |-> r, first |-> first, link |-> link,
   location |-> location]

ClickedEvent(i, r, at, link, first) ==
  IF first THEN WithEvent(outbound, i, "LinkClicked", r, at, link) ELSE outbound

Click(i, r, at, location, link) ==
  LET first == FirstClick(i, r, link)
  IN  /\ Reports < MaxReports
      /\ Reachable(i, r) /\ DeliveredBy(i, r, at)
      /\ link \in TrackedLinks(outbound[i].draft, location)
      /\ clicks' = clicks \o (IF first THEN <<[msg |-> i, to |-> r, at |-> at, link |-> link]>> ELSE <<>>)
      /\ outbound' = ClickedEvent(i, r, at, link, first)
      /\ facts' = Append(facts, ClickFact(i, r, at, location, link, first))
      /\ posts' = posts \o Post("Click", i, r)
      /\ UNCHANGED <<now, stream, bounces, rows, opens, reader>>

-----------------------------------------------------------------------------
(***************************************************************************)
(* Bounces (module Recipients has their waits) with their listeners.       *)
(***************************************************************************)
Final(i, r) == \E b \in ToSet(bounces) : b.msg = i /\ b.to = r /\ b.type # "Transient"

ReasonOf(type) == IF type = "SpamComplaint" THEN type ELSE "HardBounce"
Deactivates(type) == type \in {"HardBounce", "SpamComplaint"}

\* A slip: the fact is of the kind that the bounce names.
BounceFactsByType(type, at) == <<[kind |-> type, at |-> at, type |-> type]>>
BounceFacts(type, at) ==
  IF type \in {"HardBounce", "SoftBounce", "Transient"}
  THEN <<[kind |-> "bounce", at |-> at, type |-> type]>>
  ELSE IF type = "SpamComplaint" THEN <<[kind |-> "spamComplaint", at |-> at]>> ELSE <<>>

\* A complaint is shown as a bounce, too.
BouncedEvent(i, r, type, at) ==
  WithEvent(outbound, i, IF type = "Transient" THEN type ELSE "Bounced", r, at, type)
ChangedEvent(messages, i, r, at) == WithEvent(messages, i, "SubscriptionChanged", r, at, "")

BouncePost(i, r, type) ==
  Post(IF type = "SpamComplaint" THEN "SpamComplaint" ELSE "Bounce", i, r)

Bounce(i, r, type, at) ==
  LET event == BouncedEvent(i, r, type, at)
      new == Deactivates(type) /\ r \notin DOMAIN rows
  IN  /\ Reports < MaxReports
      /\ ~ outbound[i].draft.sandboxed
      /\ r \in ToSet(outbound[i].draft.to) \ outbound[i].skipped
      /\ stream <= outbound[i].at
      /\ ~ Final(i, r)
      /\ Deactivates(type) /\ r \in DOMAIN rows => rows[r] = ReasonOf(type)
      /\ bounces' = Append(bounces, [msg |-> i, to |-> r, type |-> type])
      /\ facts' = facts \o BounceFacts(type, at)
      /\ IF new
         THEN /\ rows' = [x \in DOMAIN rows \union {r} |-> IF x = r THEN ReasonOf(type) ELSE rows[x]]
              /\ outbound' = ChangedEvent(event, i, r, at)
              /\ posts' = posts \o BouncePost(i, r, type) \o Post("SubscriptionChange", i, r)
         ELSE rows' = rows /\ outbound' = event /\ posts' = posts \o BouncePost(i, r, type)
      /\ UNCHANGED <<now, stream, opens, clicks, reader>>

\* The purge of an archived stream takes its bounces and rows, not its messages.
\* It comes a delay after the archival, from which on no message was accepted.
Purge ==
  /\ stream # Gone
  /\ \A i \in DOMAIN outbound : outbound[i].at < now
  /\ stream' = Gone /\ bounces' = <<>> /\ rows' = <<>>
  /\ UNCHANGED <<now, outbound, opens, clicks, facts, posts, reader>>

CreateStream ==
  /\ stream = Gone
  /\ stream' = now
  /\ UNCHANGED <<now, outbound, bounces, rows, opens, clicks, facts, posts, reader>>

Tick ==
  /\ now < MaxTime
  /\ now' = now + 1
  /\ UNCHANGED <<stream, outbound, bounces, rows, opens, clicks, facts, posts, reader>>

-----------------------------------------------------------------------------
(***************************************************************************)
(* GET /messages/outbound, its /opens and its /clicks: what is within the  *)
(* retention, the newest first, in the order of recording when of one      *)
(* instant, by count and offset.                                           *)
(***************************************************************************)
Retained(at) == now - at <= Retention

Items(list) == [messages |-> outbound, opens |-> opens, clicks |-> clicks][list]

\* A slip: the oldest first.
OldestFirst(items, p, q) == items[p].at < items[q].at \/ (items[p].at = items[q].at /\ p < q)
NewestFirst(items, p, q) == items[p].at > items[q].at \/ (items[p].at = items[q].at /\ p < q)
Listed(list) == {p \in DOMAIN Items(list) : Retained(Items(list)[p].at)}
\* The place of an item in the list, from 1.
Place(list, p) == Cardinality({q \in Listed(list) : q = p \/ NewestFirst(Items(list), q, p)})
Page(list, offset, count) ==
  {p \in Listed(list) : offset < Place(list, p) /\ Place(list, p) <= offset + count}

ReadPage(list, count) ==
  LET begun == IF reader.on THEN reader
               ELSE [on |-> TRUE, list |-> list, offset |-> 0, seen |-> {}, first |-> Listed(list)]
      end == begun.offset + count
      page == Page(list, begun.offset, count)
  IN  /\ begun.list = list
      /\ reader' = IF end > MaxWindow \/ page = {} THEN Idle
                   ELSE [begun EXCEPT !.offset = end, !.seen = @ \union page]
      /\ UNCHANGED <<now, stream, outbound, bounces, rows, opens, clicks, facts, posts>>

-----------------------------------------------------------------------------
\* The customer may have suppressed some of the recipients.
Init ==
  /\ now = 0 /\ stream = 0
  /\ outbound = <<>> /\ bounces = <<>>
  /\ \E S \in SUBSET Recipients : rows = [r \in S |-> "ManualSuppression"]
  /\ opens = <<>> /\ clicks = <<>> /\ facts = <<>> /\ posts = <<>>
  /\ reader = Idle

Handled(i) ==
  \E r \in ToSet(outbound[i].draft.to) :
    \/ SkippedBySmtp(i, r)
    \/ \E at \in outbound[i].at..now :
         \/ Deliver(i, r, at)
         \/ Open(i, r, at)
         \/ \E location \in Locations, link \in Links : Click(i, r, at, location, link)
         \/ \E type \in BounceTypes : Bounce(i, r, type, at)

Next ==
  \/ \E draft \in Drafts : Send(draft)
  \/ \E i \in DOMAIN outbound : Handled(i)
  \/ Purge
  \/ CreateStream
  \/ Tick
  \/ \E list \in Lists, count \in PageSizes : ReadPage(list, count)

Spec == Init /\ [][Next]_vars

-----------------------------------------------------------------------------
(***************************************************************************)
(* The Stats API: counts of the facts from one day to another.             *)
(***************************************************************************)
Within(from, to) == {n \in DOMAIN facts : from <= facts[n].at /\ facts[n].at <= to}

\* A slip: the answer of SMTP counts as a bounce.
IsBounceOfAny(f) == f.kind = "bounce"
IsBounce(f) == f.kind = "bounce" /\ f.type # "SMTPApiError"

Overview(from, to) ==
  LET days == Within(from, to)
      OfKind(kind) == {n \in days : facts[n].kind = kind}
      bounced == {n \in OfKind("bounce") : IsBounce(facts[n])}
      firsts(kind) == {n \in OfKind(kind) : facts[n].first}
  IN  [Sent |-> Cardinality(OfKind("sent")),
       Bounced |-> Cardinality(bounced),
       SMTPApiErrors |-> Cardinality(OfKind("bounce") \ bounced),
       SpamComplaints |-> Cardinality(OfKind("spamComplaint")),
       Opens |-> Cardinality(OfKind("open")),
       UniqueOpens |-> Cardinality(firsts("open")),
       Tracked |-> Cardinality({n \in OfKind("sent") :
                                  facts[n].openTracking \/ facts[n].linkTracking}),
       WithOpenTracking |-> Cardinality({n \in OfKind("sent") : facts[n].openTracking}),
       TotalTrackedLinksSent |-> SumFunction([n \in OfKind("sent") |-> facts[n].trackedLinks]),
       TotalClicks |-> Cardinality(OfKind("click")),
       UniqueLinksClicked |-> Cardinality(firsts("click"))]

\* What a path counts, by what key (/clicks/location is `locations`); the devices
\* of opens and clicks are left out.
CountedKind ==
  [sends |-> "sent", bounces |-> "bounce", spam |-> "spamComplaint", tracked |-> "sent",
   opens |-> "open", clicks |-> "click", locations |-> "click"]

Counted(path, f, key) ==
  \/ path \in {"sends", "spam"}
  \/ path = "bounces" /\ key = f.type
  \/ path = "tracked" /\ (f.openTracking \/ f.linkTracking)
  \/ path \in {"opens", "clicks"} /\ (key = "Unique" => f.first)
  \/ path = "locations" /\ key = f.location

DocumentedKeys ==
  [sends |-> {"Sent"},
   bounces |-> {"HardBounce", "SMTPApiError", "SoftBounce", "Transient"},
   spam |-> {"SpamComplaint"},
   tracked |-> {"Tracked"},
   opens |-> {"Opens", "Unique"},
   clicks |-> {"Clicks", "Unique"},
   locations |-> {"HTML", "Text"}]

\* The counts of each day that has some, and the totals, with their zeros.
Series(path, from, to) ==
  LET some == {n \in Within(from, to) : facts[n].kind = CountedKind[path]}
      counts == {c \in some \X DocumentedKeys[path] : Counted(path, facts[c[1]], c[2])}
      Count(those, key) == Cardinality({c \in those : c[2] = key})
      Day(those) == [key \in {c[2] : c \in those} |-> Count(those, key)]
  IN  [Days |-> [d \in {facts[c[1]].at : c \in counts} |->
                   Day({c \in counts : facts[c[1]].at = d})],
       Totals |-> [key \in DocumentedKeys[path] |-> Count(counts, key)]]

-----------------------------------------------------------------------------
(***************************************************************************)
(* Properties.                                                             *)
(***************************************************************************)
EventsOf(type) ==
  {p \in UNION {{i} \X DOMAIN outbound[i].events : i \in DOMAIN outbound} :
     outbound[p[1]].events[p[2]].type = type}

\* The records of the opens of a message by a recipient, and of the clicks of a link.
OpenFacts(i, r) ==
  {n \in DOMAIN facts : facts[n].kind = "open" /\ facts[n].msg = i /\ facts[n].to = r}
KeptOpens(i, r) == {n \in DOMAIN opens : opens[n].msg = i /\ opens[n].to = r}
ShownOpens(i, r) ==
  {n \in DOMAIN outbound[i].events :
     outbound[i].events[n].type = "Opened" /\ outbound[i].events[n].to = r}
OpenPosts(i, r) ==
  {n \in DOMAIN posts : posts[n].record = "Open" /\ posts[n].msg = i /\ posts[n].to = r}

ClickFacts(i, r, l) ==
  {n \in DOMAIN facts :
     facts[n].kind = "click" /\ facts[n].msg = i /\ facts[n].to = r /\ facts[n].link = l}
KeptClicks(i, r, l) ==
  {n \in DOMAIN clicks : clicks[n].msg = i /\ clicks[n].to = r /\ clicks[n].link = l}
ShownClicks(i, r, l) ==
  {n \in DOMAIN outbound[i].events :
     LET e == outbound[i].events[n]
     IN  e.type = "LinkClicked" /\ e.to = r /\ e.detail = l}

OpensAgree(i, r) ==
  LET all == OpenFacts(i, r)
      kept == KeptOpens(i, r)
  IN  /\ \A n \in all : facts[n].first <=> \A m \in all : n <= m
      /\ Cardinality(kept) = (IF all = {} THEN 0 ELSE 1)
      /\ Cardinality(ShownOpens(i, r)) = Cardinality(kept)
      /\ Cardinality(OpenPosts(i, r)) = Cardinality(IF FirstOpensOnly THEN kept ELSE all)
      /\ \A n \in all, m \in kept, k \in ShownOpens(i, r) :
           facts[n].first => opens[m].at = facts[n].at /\ outbound[i].events[k].at = facts[n].at

ClicksAgree(i, r, l) ==
  LET all == ClickFacts(i, r, l)
      kept == KeptClicks(i, r, l)
  IN  /\ \A n \in all : facts[n].first <=> \A m \in all : n <= m
      /\ Cardinality(kept) = (IF all = {} THEN 0 ELSE 1)
      /\ Cardinality(ShownClicks(i, r, l)) = Cardinality(kept)

\* The copies of a first open or click agree (tracking.ts and the three
\* plugins): of the opens of a recipient exactly the one recorded first is
\* stored, flagged in its fact, shown as an event and told to a hook that wants
\* first opens only, and so for the clicks of a link, whatever came between and
\* in whatever order of instants.
FirstsAgree ==
  \A i \in DOMAIN outbound, r \in Recipients :
    OpensAgree(i, r) /\ \A l \in Links : ClicksAgree(i, r, l)

\* A post of an open or a click comes after the one of the delivery.
PostsHold ==
  \A n \in DOMAIN posts : posts[n].record \in {"Open", "Click"} =>
    \E m \in 1..n-1 : posts[m] = [posts[n] EXCEPT !.record = "Delivery"]

\* The nth event of a message comes once, if a delivery, or after the delivery.
EventHolds(events, n) ==
  LET e == events[n]
  IN  /\ e.type = "Delivered" =>
           \A m \in DOMAIN events \ {n} : events[m].type = "Delivered" => events[m].to # e.to
      /\ e.type \in {"Opened", "LinkClicked"} =>
           \E m \in 1..n-1 : /\ events[m].type = "Delivered" /\ events[m].to = e.to
                             /\ events[m].at <= e.at

NotAfterBounce(events, n) ==
  events[n].type \in {"Delivered", "Opened", "LinkClicked"} =>
    \A m \in 1..n-1 : events[m].type = "Bounced" /\ events[m].to = events[n].to =>
                        events[m].detail \notin Undelivered

EventsHold ==
  \A i \in DOMAIN outbound : \A n \in DOMAIN outbound[i].events :
    /\ EventHolds(outbound[i].events, n)
    /\ stream <= outbound[i].at => NotAfterBounce(outbound[i].events, n)

\* What the details of a message tell of a recipient is a story that can have
\* happened: it is delivered at most once, opened and clicked only after that,
\* in the list and by the instants, and while the stream has its bounces,
\* nothing reaches a recipient after a bounce that says it never got it
\* (tracking.ts, the comment of UNDELIVERED).  The hook is told the same story:
\* of opens and clicks only when it was told of the delivery.
StoryHolds == PostsHold /\ EventsHold

\* The overview of all days agrees with what the messages show, with what the
\* hook was told and with the totals of the other queries, whose days add up, and
\* no number of firsts exceeds what was tracked.
OverviewAdds ==
  LET all == Overview(0, MaxTime)
      sums == [sends |-> all.Sent, bounces |-> all.Bounced + all.SMTPApiErrors,
               spam |-> all.SpamComplaints, tracked |-> all.Tracked,
               opens |-> all.Opens + all.UniqueOpens,
               clicks |-> all.TotalClicks + all.UniqueLinksClicked, locations |-> all.TotalClicks]
      Told(record) == Cardinality({n \in DOMAIN posts : posts[n].record = record})
      bounced == {p \in EventsOf("Transient") \union EventsOf("Bounced") :
                    outbound[p[1]].events[p[2]].detail \in {"HardBounce", "SoftBounce", "Transient"}}
  IN  /\ all.Bounced = Cardinality(bounced)
      /\ all.UniqueOpens = Cardinality(EventsOf("Opened"))
      /\ all.UniqueLinksClicked = Cardinality(EventsOf("LinkClicked"))
      /\ all.UniqueOpens <= all.WithOpenTracking /\ all.UniqueOpens <= all.Opens
      /\ all.UniqueLinksClicked <= all.TotalTrackedLinksSent
      /\ all.Tracked <= all.Sent
      /\ \A path \in DOMAIN DocumentedKeys :
           LET answer == Series(path, 0, MaxTime)
               OfDays(key) == {d \in DOMAIN answer.Days : key \in DOMAIN answer.Days[d]}
           IN  /\ SumFunction(answer.Totals) = sums[path]
               /\ \A key \in DocumentedKeys[path] :
                    answer.Totals[key] = SumFunction([d \in OfDays(key) |-> answer.Days[d][key]])
      /\ Told("Bounce") + Told("SpamComplaint") =
           Cardinality(EventsOf("Transient")) + Cardinality(EventsOf("Bounced"))
             + (IF SmtpErrors THEN all.SMTPApiErrors ELSE 0)
      /\ Told("SubscriptionChange") = Cardinality(EventsOf("SubscriptionChanged"))

\* A client that pages through a list by offset misses nothing that was there at
\* its first page and is still retained: what is recorded meanwhile, in the past
\* too, and the end of retention only ever repeat an item.
PagingMissesNone ==
  reader.on =>
    LET list == reader.list
    IN  \A p \in reader.first :
          \/ p \in reader.seen
          \/ ~ Retained(Items(list)[p].at)
          \/ reader.offset < Place(list, p)
=============================================================================
