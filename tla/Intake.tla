-------------------------------- MODULE Intake --------------------------------
(***************************************************************************)
(* What comes in and is awaited on the way: sends over HTTP, held by       *)
(* latency rules and answered by fault rules (src/http), sends over SMTP,  *)
(* whose errors become bounces after DATA (src/smtp), and inbound mail     *)
(* (src/inbound); with the resets and seeds that replace the state between *)
(* two steps of a call (src/control/seeding.ts).                           *)
(*                                                                         *)
(* The state is one record, `store`.  A reset or a failed seed puts another*)
(* object in its place: `epoch` numbers the objects.                       *)
(***************************************************************************)
EXTENDS Pipeline, Sequences, FiniteSets, SequencesExt

CONSTANTS
  Requests,     \* bodies of sends over HTTP
  Rules,        \* the requests that a latency or a fault rule matches, and how often
  MailFaults,   \* what may be wrong with a mail sent over SMTP
  SmtpRules,    \* fault rules of a stage, how often they reply, and with what
  Writers,      \* senders of inbound mail
  MaxCalls,     \* bound: sends and mails
  MaxControls,  \* bound: control calls and changes by others
  MaxSeeds,     \* bound: resets and seeds
  MaxEvents     \* bound: all of these together

ASSUME IntakeAssumption ==
  /\ Requests \subseteq [drafts: Seq(Draft) \ {<<>>}, batch: BOOLEAN, test: BOOLEAN]
  /\ Rules \subseteq [match: SUBSET Requests, times: Nat \ {0}]
  /\ SmtpRules \subseteq [stage: {"connect", "mail", "rcpt", "data"}, times: Nat \ {0},
                          code: 400..599]
  /\ MailFaults \subseteq BadContents \union {"nothing"}
  /\ MaxCalls \in Nat /\ MaxControls \in Nat /\ MaxSeeds \in Nat
  /\ MaxEvents \in Nat

VARIABLES
  store,     \* the state
  epoch,     \* the number of its object
  calls,     \* the sends and mails, in the order of their arrival
  session,   \* an SMTP connection
  seeding,   \* what a running seed saved
  controls, seeds

vars == <<store, epoch, calls, session, seeding, controls, seeds>>
counters == <<controls, seeds>>

\* A reply of "reset" ends a call like an error.
Replies == {"error", "timeout"}
\* HTTP 200 or the error of the one item, 401, and 501.
Statuses == {"pending", "served", "unauthorized", "unsupported"}
Stages == {"connect", "mail", "rcpt", "data"}

\* `times` is what the rule was armed with, or had left when a seed failed.
Latency == [match: SUBSET Requests, times: Nat, remaining: Nat]
Fault == [match: SUBSET Requests, times: Nat, remaining: Nat, reply: Replies]
\* A rule that is used up is taken out.
SmtpFault == [stage: Stages, remaining: Nat \ {0}, code: 400..599]

CallIds == 1..MaxCalls
Message == [call: CallIds, item: Nat, inactive: SUBSET Addresses]

Store == [up: BOOLEAN, world: World, smtpOn: BOOLEAN, smtpToken: BOOLEAN,
          latencies: Seq(Latency), faults: Seq(Fault), smtpFaults: Seq(SmtpFault),
          rules: SUBSET Writers, log: Seq(CallIds), outbound: SUBSET Message,
          bounces: SUBSET (CallIds \X Addresses), inbound: SUBSET CallIds]

Empty == [up |-> FALSE, world |-> EmptyWorld, smtpOn |-> FALSE, smtpToken |-> FALSE,
          latencies |-> <<>>, faults |-> <<>>, smtpFaults |-> <<>>, rules |-> {},
          log |-> <<>>, outbound |-> {}, bounces |-> {}, inbound |-> {}]
Fill(s) == [s EXCEPT !.up = TRUE, !.world = FreshWorld, !.smtpOn = TRUE]

NoCall == [kind |-> "none", at |-> "none"]
\* heldIn and servedIn are the epochs whose rule `hold` and `fault` are.
Http == [kind: {"http"}, at: {"held", "released", "waiting", "answered"}, request: Requests,
         timer: BOOLEAN, hold: Nat, heldIn: Nat, fault: Nat, servedIn: Nat, status: Statuses \union Replies,
         items: Seq(Nat)]
\* `since` is the epoch when the mail was submitted.
Mail == [kind: {"mail"}, at: {"parsing", "bouncing", "answered"}, bad: MailFaults,
         to: SUBSET Addresses, left: SUBSET Addresses, since: Nat, code: Nat]
\* `state` is the epoch of the object that the handler took, `up` its server.
Inbound == [kind: {"inbound"}, at: {"parsing", "answered"}, from: Writers, state: Nat,
            up: BOOLEAN, status: {"pending", "Queued", "Blocked", "refused"}]

NoSeed == [on |-> FALSE]
Saved == [on: {TRUE}, reset: BOOLEAN, store: Store]
Session == [at: {"closed", "open", "ready", "mail", "data"}, as: {"server", "smtp"},
            to: SUBSET Addresses]

TypeOK ==
  /\ store \in Store
  /\ epoch \in 1..2 * MaxSeeds + 1
  /\ calls \in [CallIds -> Http \union Mail \union Inbound \union {NoCall}]
  /\ session \in Session
  /\ seeding \in Saved \union {NoSeed}
  /\ controls \in 0..MaxControls
  /\ seeds \in 0..MaxSeeds

Came == {n \in CallIds : calls[n].at # "none"}
MoreEvents == Cardinality(Came) + controls + seeds < MaxEvents
\* The next call to come, if one may.
Coming(n) == MoreEvents /\ n \notin Came /\ 1..n - 1 \subseteq Came
Put(n, call) == calls' = [calls EXCEPT ![n] = call]

-----------------------------------------------------------------------------
(***************************************************************************)
(* Sends over HTTP (createApiApp).  A request takes the first latency rule *)
(* that matches it; what follows the hold reads the state of its end: the  *)
(* first fault rule that matches, the token, the account.                  *)
(***************************************************************************)
\* A slip: a rule answers once more than its times.
ArmedOnceMore(rule) == rule.remaining >= 0
Armed(rule) == rule.remaining > 0

\* The first of some places, if there is one.
First(places) == {i \in places : \A j \in places : i <= j}
Matching(rules, request) ==
  {i \in DOMAIN rules : Armed(rules[i]) /\ request \in rules[i].match}
\* A slip: the first match uses up the rule.
UsedUp(rules, i) ==
  [j \in DOMAIN rules |-> IF j = i THEN [rules[j] EXCEPT !.remaining = 0] ELSE rules[j]]
Used(rules, i) ==
  [j \in DOMAIN rules |-> IF j = i THEN [rules[j] EXCEPT !.remaining = @ - 1] ELSE rules[j]]

\* The test token has an account of its own, with no sender check.
Validated(s, request, draft) ==
  IF request.test THEN DataAnswer(FreshWorld, draft) ELSE Validate(s.world, draft)

\* A batch that names an unknown stream is not captured as a whole.
NotCaptured(s, request) ==
  \E i \in DOMAIN request.drafts :
    Validated(s, request, request.drafts[i]) \in
      {Uncaptured} \union (IF request.batch THEN {1235} ELSE {})

ValidItems(s, request) ==
  {i \in DOMAIN request.drafts : Validated(s, request, request.drafts[i]) = Ok}

\* What is stored of the valid drafts, each by itself.
Messages(s, n, request) ==
  IF request.test THEN {}
  ELSE {[call |-> n, item |-> i, inactive |-> Inactive(s.world, request.drafts[i])] :
          i \in {j \in ValidItems(s, request) :
                   StoreAnswer(s.world, request.drafts[j]) = Ok}}

\* A message that some recipients are left out of is stored and answers 406.
ResultOf(s, request, draft) ==
  IF request.test THEN Ok
  ELSE IF StoreAnswer(s.world, draft) = Ok /\ Inactive(s.world, draft) # {} THEN 406
  ELSE StoreAnswer(s.world, draft)

\* The results, one for each valid draft, in their order.
Rank(places, i) == Cardinality({j \in places : j <= i})
Results(s, request, valid) ==
  [k \in 1..Cardinality(valid) |->
     ResultOf(s, request, request.drafts[CHOOSE i \in valid : Rank(valid, i) = k])]

\* A slip: the results of a batch are not walked through.
NextResultStands(valid, i) == 1
NextResult(valid, i) == Rank(valid, i)

Items(s, request, valid) ==
  [i \in DOMAIN request.drafts |->
     IF i \in valid THEN Results(s, request, valid)[NextResult(valid, i)]
     ELSE Validated(s, request, request.drafts[i])]

Answered(call, status, items) ==
  [call EXCEPT !.at = "answered", !.status = status, !.items = items, !.servedIn = epoch]

\* The rest of the handling of `call`, from state `s` on.
Serve(n, call, s) ==
  LET request == call.request
      faults == Matching(s.faults, request)
      known == request.test \/ s.up
  IN  \/ \E i \in First(faults) :
         /\ store' = [s EXCEPT !.faults = Used(@, i)]
         /\ Put(n, [call EXCEPT !.at = IF s.faults[i].reply = "timeout" THEN "waiting"
                                       ELSE "answered",
                                !.fault = i, !.servedIn = epoch, !.status = s.faults[i].reply])
      \/ /\ faults = {} /\ ~ known
         /\ store' = s
         /\ Put(n, Answered(call, "unauthorized", <<>>))
      \/ /\ faults = {} /\ known /\ NotCaptured(s, request)
         /\ store' = s
         /\ Put(n, Answered(call, "unsupported", <<>>))
      \/ /\ faults = {} /\ known /\ ~ NotCaptured(s, request)
         /\ store' = [s EXCEPT !.outbound = @ \union Messages(s, n, request)]
         /\ \E valid \in {ValidItems(s, request)} :
              Put(n, Answered(call, "served", Items(s, request, valid)))

NewCall(request) ==
  [kind |-> "http", at |-> "released", request |-> request, timer |-> FALSE, hold |-> 0,
   heldIn |-> 0, fault |-> 0, servedIn |-> 0, status |-> "pending", items |-> <<>>]

Arrive(n, request) ==
  LET latencies == Matching(store.latencies, request)
      logged == [store EXCEPT !.log = Append(@, n)]
  IN  /\ Coming(n)
      /\ \/ \E i \in First(latencies) :
            /\ store' = [logged EXCEPT !.latencies = Used(@, i)]
            /\ Put(n, [NewCall(request) EXCEPT !.at = "held", !.timer = TRUE, !.hold = i, !.heldIn = epoch])
         \/ /\ latencies = {}
            /\ Serve(n, NewCall(request), logged)
      /\ UNCHANGED <<epoch, session, seeding, counters>>

\* The clock reaches the end of the hold.
HoldEnds(n) ==
  /\ calls[n].at = "held" /\ calls[n].timer
  /\ Serve(n, [calls[n] EXCEPT !.timer = FALSE], store)
  /\ UNCHANGED <<epoch, session, seeding, counters>>

\* A reset of the clock has ended it.
Resume(n) ==
  /\ calls[n].at = "released"
  /\ Serve(n, calls[n], store)
  /\ UNCHANGED <<epoch, session, seeding, counters>>

\* The client of a fault that never answers gives up.
GiveUp(n) ==
  /\ calls[n].at = "waiting"
  /\ Put(n, [calls[n] EXCEPT !.at = "answered"])
  /\ UNCHANGED <<store, epoch, session, seeding, counters>>

-----------------------------------------------------------------------------
(***************************************************************************)
(* Sends over SMTP.  A session keeps its credential, not the server: each  *)
(* MAIL and DATA looks it up again (resolveSender).  The first fault rule  *)
(* of a stage replies for it and goes when it is used up.                  *)
(***************************************************************************)
Known(s, as) == s.up /\ s.smtpOn /\ (as = "smtp" => s.smtpToken)

FaultsAt(s, stage) == {i \in DOMAIN s.smtpFaults : s.smtpFaults[i].stage = stage}
WithoutFault(s, i) ==
  LET rules == s.smtpFaults
      fewer == [rules EXCEPT ![i].remaining = @ - 1]
  IN  [s EXCEPT !.smtpFaults = IF rules[i].remaining = 1 THEN RemoveAt(rules, i) ELSE fewer]

To(at) == session' = [session EXCEPT !.at = at]
\* Code 421 closes the connection, a refused MAIL or DATA ends the transaction.
TakeFault(stage, back) ==
  \E i \in First(FaultsAt(store, stage)) :
    /\ store' = WithoutFault(store, i)
    /\ session' = [session EXCEPT !.at = IF store.smtpFaults[i].code = 421 THEN "closed"
                                         ELSE back,
                                  !.to = IF back = "mail" THEN @ ELSE {}]
NoFault(stage) == FaultsAt(store, stage) = {} /\ UNCHANGED store

Connect ==
  /\ session.at = "closed"
  /\ \/ TakeFault("connect", "closed")
     \/ NoFault("connect") /\ session' = [session EXCEPT !.at = "open", !.to = {}]
  /\ UNCHANGED <<epoch, calls, seeding, counters>>

Auth(as) ==
  /\ session.at = "open"
  /\ Known(store, as)
  /\ session' = [session EXCEPT !.at = "ready", !.as = as]
  /\ UNCHANGED <<store, epoch, calls, seeding, counters>>

MailFrom ==
  /\ session.at = "ready"
  /\ Known(store, session.as)
  /\ TakeFault("mail", "ready") \/ (NoFault("mail") /\ To("mail"))
  /\ UNCHANGED <<epoch, calls, seeding, counters>>

RcptTo(a) ==
  /\ session.at = "mail"
  /\ a \notin session.to
  /\ \/ TakeFault("rcpt", "mail")
     \/ NoFault("rcpt") /\ session' = [session EXCEPT !.to = @ \union {a}]
  /\ UNCHANGED <<epoch, calls, seeding, counters>>

EndOfMail == [session EXCEPT !.at = "ready", !.to = {}]

\* The whole mail has come; its parsing is awaited.
Data(n, bad) ==
  /\ session.at = "mail" /\ session.to # {}
  /\ Coming(n)
  /\ \/ /\ ~ Known(store, session.as)
        /\ session' = EndOfMail
        /\ UNCHANGED <<store, calls>>
     \/ /\ Known(store, session.as)
        /\ TakeFault("data", "ready")
        /\ UNCHANGED calls
     \/ /\ Known(store, session.as)
        /\ NoFault("data")
        /\ To("data")
        /\ Put(n, [kind |-> "mail", at |-> "parsing", bad |-> bad, to |-> session.to,
                   left |-> {}, since |-> 0, code |-> 0])
  /\ UNCHANGED <<epoch, seeding, counters>>

Reply(n, mail, code) ==
  /\ Put(n, [mail EXCEPT !.at = "answered", !.code = code])
  /\ session' = EndOfMail
Bouncing(n, mail, to) ==
  /\ Put(n, [mail EXCEPT !.at = "bouncing", !.left = to])
  /\ UNCHANGED session

\* A slip: each recipient of a message that is sent to some gets a bounce.
LeftOutAll(draft) == draft.to
LeftOut(draft) == Inactive(store.world, draft)

\* Who gets a bounce besides a stored message, or instead of one.  The listeners
\* of `sent` do not wait, so the suppressions that are read for the bounces after
\* the message was stored are those that it was checked against.
MailParsed(n) ==
  LET draft == [bad |-> calls[n].bad, to |-> calls[n].to]
      mail == [calls[n] EXCEPT !.since = epoch]
      answer == Submit(store.world, draft)
      stored == [store EXCEPT !.outbound = @ \union
                   {[call |-> n, item |-> 1, inactive |-> Inactive(store.world, draft)]}]
  IN  /\ calls[n].kind = "mail" /\ calls[n].at = "parsing"
      /\ \/ /\ answer = Uncaptured
            /\ Reply(n, mail, 502)
            /\ UNCHANGED store
         \/ /\ answer = Ok /\ Inactive(store.world, draft) = {}
            /\ store' = stored
            /\ Reply(n, mail, 250)
         \/ /\ answer = Ok /\ Inactive(store.world, draft) # {}
            /\ store' = stored
            /\ Bouncing(n, mail, LeftOut(draft))
         \/ /\ answer \notin {Ok, Uncaptured}
            /\ UNCHANGED store
            /\ Bouncing(n, mail, draft.to)
      /\ UNCHANGED <<epoch, seeding, counters>>

\* One bounce, and the webhooks of it, which are awaited.  A bounce needs an
\* ID, which a seed that is being applied refuses: the reply is 554.
Bounce(n, a) ==
  LET left == calls[n].left \ {a}
  IN  /\ calls[n].at = "bouncing" /\ a \in calls[n].left
      /\ \/ /\ seeding.on
            /\ Reply(n, calls[n], 554)
            /\ UNCHANGED store
         \/ /\ ~ seeding.on
            /\ store' = [store EXCEPT !.bounces = @ \union {<<n, a>>}]
            /\ IF left = {} THEN Reply(n, [calls[n] EXCEPT !.left = left], 250)
               ELSE Bouncing(n, calls[n], left)
      /\ UNCHANGED <<epoch, seeding, counters>>

\* The client drops a connection between two mails.
Quit ==
  /\ session.at \in {"open", "ready", "mail"}
  /\ session' = [session EXCEPT !.at = "closed", !.to = {}]
  /\ UNCHANGED <<store, epoch, calls, seeding, counters>>

-----------------------------------------------------------------------------
(***************************************************************************)
(* Inbound mail (receiveInbound).  The handler takes the object of the     *)
(* state before the mail is parsed and stores in it; whether a rule blocks *)
(* the sender is read from the state after.                                *)
(***************************************************************************)
ReceiveInbound(n, from) ==
  /\ Coming(n)
  /\ Put(n, [kind |-> "inbound", at |-> "parsing", from |-> from, state |-> epoch,
             up |-> store.up, status |-> "pending"])
  /\ UNCHANGED <<store, epoch, session, seeding, counters>>

InboundParsed(n) ==
  LET mail == calls[n]
      current == mail.state = epoch
      up == IF current THEN store.up ELSE mail.up
      verdict == IF mail.from \in store.rules THEN "Blocked" ELSE "Queued"
  IN  /\ mail.kind = "inbound" /\ mail.at = "parsing"
      /\ Put(n, [mail EXCEPT !.at = "answered", !.status = IF up THEN verdict ELSE "refused"])
      /\ store' = IF current /\ up THEN [store EXCEPT !.inbound = @ \union {n}] ELSE store
      /\ UNCHANGED <<epoch, session, seeding, counters>>

-----------------------------------------------------------------------------
(***************************************************************************)
(* Control calls, and the changes that others make.                        *)
(***************************************************************************)
Control ==
  /\ controls < MaxControls /\ MoreEvents
  /\ controls' = controls + 1
  /\ UNCHANGED <<epoch, calls, session, seeding, seeds>>

AddLatency(rule) ==
  /\ Control
  /\ store' = [store EXCEPT !.latencies =
                 Append(@, [match |-> rule.match, times |-> rule.times, remaining |-> rule.times])]

AddFault(rule, reply) ==
  /\ Control
  /\ store' = [store EXCEPT !.faults =
                 Append(@, [match |-> rule.match, times |-> rule.times, remaining |-> rule.times,
                            reply |-> reply])]

AddSmtpFault(rule) ==
  /\ Control
  /\ store' = [store EXCEPT !.smtpFaults =
                 Append(@, [stage |-> rule.stage, remaining |-> rule.times, code |-> rule.code])]

AddSmtpToken ==
  /\ Control
  /\ store.up /\ store.smtpOn /\ store.world.stream = "live"
  /\ store' = [store EXCEPT !.smtpToken = TRUE]
RevokeSmtpToken ==
  /\ Control
  /\ store.smtpToken
  /\ store' = [store EXCEPT !.smtpToken = FALSE]

\* The inbound rules of the API; a new one needs an ID.
CreateRule(from) ==
  /\ Control
  /\ store.up /\ ~ seeding.on
  /\ from \notin store.rules
  /\ store' = [store EXCEPT !.rules = @ \union {from}]
DeleteRule(from) ==
  /\ Control
  /\ store.up
  /\ from \in store.rules
  /\ store' = [store EXCEPT !.rules = @ \ {from}]

ChangeAccount ==
  /\ Control
  /\ store.up
  /\ \/ \E world \in Changed(store.world) : store' = [store EXCEPT !.world = world]
     \/ store' = [store EXCEPT !.smtpOn = ~ @]

-----------------------------------------------------------------------------
(***************************************************************************)
(* Resets and seeds.  A reset of the clock, which a failed seed does too,  *)
(* ends every hold.                                                        *)
(***************************************************************************)
\* A slip: a hold goes with its task on the clock.
LetGoNever(call) == [call EXCEPT !.timer = FALSE]
LetGo(call) == [call EXCEPT !.timer = FALSE, !.at = "released"]
ClockReset == calls' = [n \in CallIds |-> IF calls[n].at = "held" THEN LetGo(calls[n]) ELSE calls[n]]

SeedStart(reset) ==
  /\ ~ seeding.on
  /\ seeds < MaxSeeds /\ MoreEvents
  /\ seeds' = seeds + 1
  /\ seeding' = [on |-> TRUE, reset |-> reset, store |-> store]
  /\ IF reset
     THEN store' = Empty /\ epoch' = epoch + 1 /\ ClockReset
     ELSE UNCHANGED <<store, epoch, calls>>
  /\ UNCHANGED <<session, controls>>

SeedDone ==
  /\ seeding.on
  /\ seeding' = NoSeed
  /\ store' = IF seeding.reset THEN Fill(store) ELSE store
  /\ UNCHANGED <<epoch, calls, session, counters>>

\* The rules come back with what they had left.
Rearmed(rules) == [i \in DOMAIN rules |-> [rules[i] EXCEPT !.times = rules[i].remaining]]
SeedFails ==
  /\ seeding.on
  /\ seeding' = NoSeed
  /\ epoch' = epoch + 1
  /\ store' = [seeding.store EXCEPT !.latencies = Rearmed(@), !.faults = Rearmed(@)]
  /\ ClockReset
  /\ UNCHANGED <<session, counters>>

-----------------------------------------------------------------------------
Init ==
  /\ store = Fill(Empty)
  /\ epoch = 1
  /\ calls = [n \in CallIds |-> NoCall]
  /\ session = [at |-> "closed", as |-> "server", to |-> {}]
  /\ seeding = NoSeed
  /\ controls = 0 /\ seeds = 0

\* What the server does by itself once a call has come, and what the client of
\* a fault that never answers does.
Proceed(n) ==
  \/ HoldEnds(n) \/ Resume(n) \/ GiveUp(n)
  \/ MailParsed(n) \/ (\E a \in Addresses : Bounce(n, a))
  \/ InboundParsed(n)
SeedEnds == SeedDone \/ SeedFails

\* The SMTP client goes on while a mail may still come.
Smtp ==
  /\ \E n \in CallIds : Coming(n)
  /\ \/ Connect \/ (\E as \in {"server", "smtp"} : Auth(as)) \/ MailFrom \/ Quit
     \/ \E a \in Addresses : RcptTo(a)
     \/ \E n \in CallIds, bad \in MailFaults : Data(n, bad)

Controls ==
  \/ \E rule \in Rules : AddLatency(rule) \/ \E reply \in Replies : AddFault(rule, reply)
  \/ \E rule \in SmtpRules : AddSmtpFault(rule)
  \/ AddSmtpToken \/ RevokeSmtpToken
  \/ \E from \in Writers : CreateRule(from) \/ DeleteRule(from)
  \/ ChangeAccount

Next ==
  \/ \E n \in CallIds :
       \/ \E request \in Requests : Arrive(n, request)
       \/ \E from \in Writers : ReceiveInbound(n, from)
       \/ Proceed(n)
  \/ Smtp
  \/ Controls
  \/ \E reset \in BOOLEAN : SeedStart(reset)
  \/ SeedEnds

\* Timers fire, mails are parsed, webhooks of a bounce are answered or time out,
\* and a client gives up.  A seed may hang.
Spec == Init /\ [][Next]_vars /\ WF_vars(\E n \in CallIds : Proceed(n))

-----------------------------------------------------------------------------
(***************************************************************************)
(* Properties.                                                             *)
(***************************************************************************)
TookOf(i) == {n \in CallIds : calls[n].kind = "http" /\ calls[n].hold = i
                              /\ calls[n].heldIn = epoch}
HitBy(i) == {n \in CallIds : calls[n].kind = "http" /\ calls[n].fault = i
                             /\ calls[n].servedIn = epoch}
InTurn(rules) ==
  \A i, j \in DOMAIN rules :
    i < j /\ rules[j].match \subseteq rules[i].match /\ rules[j].remaining < rules[j].times
      => rules[i].remaining = 0

\* "Each match uses one of the rule's times" (applyFault): a latency holds and a
\* fault answers just as many requests as it has lost of its times, though a
\* request takes its fault only after its hold, from a state that may have been
\* replaced; and a rule is left alone while an earlier one for the same
\* requests is armed.
RulesCounted ==
  /\ TypeOK
  /\ \A i \in DOMAIN store.latencies :
       store.latencies[i].times - store.latencies[i].remaining = Cardinality(TookOf(i))
  /\ \A i \in DOMAIN store.faults :
       store.faults[i].times - store.faults[i].remaining = Cardinality(HitBy(i))
  /\ InTurn(store.latencies) /\ InTurn(store.faults)

MessagesOf(n) == {m \in store.outbound : m.call = n}
BouncesOf(n) == {a \in Addresses : <<n, a>> \in store.bounces}

HttpAnswerHolds(n) ==
  LET call == calls[n]
      ItemIs(i, code) == i \in DOMAIN call.items /\ call.items[i] = code
  IN  IF call.status = "served" /\ ~ call.request.test
      THEN \A i \in DOMAIN call.items :
             /\ ItemIs(i, 0) <=> \E m \in MessagesOf(n) : m.item = i /\ m.inactive = {}
             /\ (\E m \in MessagesOf(n) : m.item = i) => call.items[i] \in {0, 406}
      ELSE MessagesOf(n) = {}

MailAnswerHolds(n) ==
  LET mail == calls[n]
      sentTo == {a \in mail.to : \E m \in MessagesOf(n) : a \notin m.inactive}
  IN  /\ sentTo \intersect BouncesOf(n) = {}
      /\ mail.code = 250 => sentTo \union BouncesOf(n) = mail.to
      /\ mail.code \notin {250, 554} => MessagesOf(n) = {} /\ BouncesOf(n) = {}

\* What a client was told is what the state holds.  An item of a batch answers
\* 0 when its own message was stored for all its recipients, and a request
\* that is refused as a whole stores nothing (email/routes.ts).  A mail that
\* SMTP accepted is stored or bounced for each recipient, and never both; only
\* the crash that a seed causes leaves it half done.  Inbound mail that is not
\* refused is there.  All that as long as the state has not been replaced.
AnswersHold ==
  \A n \in CallIds :
    calls[n].at = "answered" =>
      \/ calls[n].kind = "http" /\ (calls[n].servedIn = epoch => HttpAnswerHolds(n))
      \/ calls[n].kind = "mail" /\ (calls[n].since = epoch => MailAnswerHolds(n))
      \/ calls[n].kind = "inbound" /\
           (calls[n].state = epoch => (n \in store.inbound <=> calls[n].status # "refused"))

\* "So a held request always answers" (Clock.hold), and so does every mail,
\* whatever resets and seeds come in between.
AllAnswered == \A n \in CallIds : calls[n].at # "none" ~> calls[n].at = "answered"
=============================================================================
