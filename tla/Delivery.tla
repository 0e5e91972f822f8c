------------------------------- MODULE Delivery -------------------------------
(***************************************************************************)
(* Webhook deliveries: the events sent to the hooks that ask for them, the *)
(* retries of failed attempts on the clock, the log of attempts, and the   *)
(* inbound messages whose status follows their delivery (src/webhooks/,    *)
(* src/plugins/webhooks.ts, src/inbound/, src/api/inbound,                 *)
(* src/api/webhooks, the servers' hook URLs and their deletion).           *)
(*                                                                         *)
(* As in Recipients, one thread runs a handler up to an await that really  *)
(* waits: here a POST to a receiver, answered or timed out later.  The     *)
(* handler is a frame in `flight`, and the event in delivery a chain.      *)
(***************************************************************************)
EXTENDS Integers, Sequences, FiniteSets, Functions

CONSTANTS
  Servers,        \* servers; each has an InboundHookUrl
  EventHooks,     \* hooks of outbound events: /webhooks rows, URL fields
  Events,         \* kinds of outbound events, one per stream and trigger
  HooksFor,       \* event -> its hooks, in the order they are called
  Owner,          \* event hook or mail -> its server
  Urls,           \* URLs of receivers on hosts that egress was set up to allow
  Remote,         \* those of them that are not loopback
  Off,            \* a hook that has no URL or does not ask for the event
  Unmade, Gone,   \* a hook before it is made, and after it was deleted
  Mails,          \* inbound messages, one per mail and server it reaches
  NoMail,         \* the message of an outbound event
  Requests,       \* concurrent API and control requests
  Runner,         \* the clock's queue, which runs one task at a time
  Answers,        \* what POSTs end with, of AllAnswers
  OutboundDelays, \* time before each retry of an outbound event
  InboundDelays,  \* the same for an inbound message
  MaxTime,        \* bound: no time passes beyond this instant
  MaxChains,      \* bound: nothing new is delivered after this many events
  MaxMail         \* bound: servers that one mail reaches

Hooks == Servers \union EventHooks
Config == Urls \union {Off, Unmade, Gone}

(***************************************************************************)
(* What a POST ends with: a status by its class ("busy" is 408, 429 and    *)
(* 5xx), a network error or timeout, a redirect that is not followed, or a *)
(* host that egress refuses.                                               *)
(***************************************************************************)
AllAnswers == {"200", "2xx", "403", "4xx", "busy", "error", "badRedirect"}

ASSUME DeliveryAssumption ==
  /\ Servers \intersect EventHooks = {}
  /\ HooksFor \in [Events -> Seq(EventHooks) \ {<<>>}]
  /\ Owner \in [EventHooks \union Mails -> Servers]
  /\ Remote \subseteq Urls
  /\ {Off, Unmade, Gone} \intersect Urls = {}
  /\ NoMail \notin Mails
  /\ Runner \notin Requests
  /\ Answers \subseteq AllAnswers
  /\ OutboundDelays \in Seq(Nat \ {0})
  /\ InboundDelays \in Seq(Nat \ {0})
  /\ MaxTime \in Nat
  /\ MaxChains \in Nat
  /\ MaxMail \in Nat

Handlers == Requests \union {Runner}

VARIABLES
  now,        \* the clock
  config,     \* hook -> the URL it has now
  stored,     \* the messages in state.inbound
  status,     \* mail -> Status of its message object; "None" before it came
  chains,     \* trace ID -> an event whose delivery is not over
  attempts,   \* the log: a row per attempt that ended
  flight,     \* handler -> the frame it waits in
  nextTrace   \* the trace ID of the next event

vars == <<now, config, stored, status, chains, attempts, flight, nextTrace>>

Outcomes == Answers \union {"refused"}
Results == {"success", "retry", "stop", "exhausted"}
Statuses == {"None", "Queued", "Blocked", "Processed", "Scheduled", "Failed"}

Target == [hook: EventHooks, url: Config]
Chain == [hook: Hooks, url: Urls, mail: Mails \union {NoMail},
          plugin: BOOLEAN,                \* egress is the one that was set up
          n: Nat \ {0}, at: Nat,          \* the attempt and when it started
          phase: {"posting", "waiting"}, due: Nat]
Row == [trace: Nat, server: Servers, n: Nat \ {0}, at: Nat,
        outcome: Outcomes, result: Results, next: Nat]

(***************************************************************************)
(* A frame: at the head of its loop or awaiting the POST of a chain; todo  *)
(* are the targets or messages left.                                       *)
(***************************************************************************)
At == {"item", "post"}
Frame == [op: {"emit"}, at: At, trace: Nat, todo: Seq(Target)]
           \union [op: {"receive", "call"}, at: At, trace: Nat, todo: Seq(Mails)]
           \union [op: {"task"}, at: {"post"}, trace: Nat, todo: {<<>>}]

EmptyMap == [x \in {} |-> x]
IsMap(f, S, T) == DOMAIN f \subseteq S /\ f \in [DOMAIN f -> T]

TypeOK ==
  /\ now \in Nat
  /\ config \in [Hooks -> Config]
  /\ stored \subseteq Mails
  /\ status \in [Mails -> Statuses]
  /\ IsMap(chains, Nat, Chain)
  /\ attempts \subseteq Row
  /\ IsMap(flight, Handlers, Frame)
  /\ nextTrace \in Nat

-----------------------------------------------------------------------------
\* The larger of two instants.
Later(a, b) == IF a < b THEN b ELSE a

Posting(t) == chains[t].phase = "posting"

\* The egress of the runtime, or loopback only for a runtime that has none.
Refused(t) == ~chains[t].plugin /\ chains[t].url \in Remote

\* A refused POST opens no socket, so its handler keeps the thread.
Holds(p) ==
  /\ p \in DOMAIN flight
  /\ flight[p].at = "item" \/ Refused(flight[p].trace)
Turn(p) == \A q \in Handlers : Holds(q) => q = p
Free == \A q \in Handlers : ~Holds(q)

Start(p, frame) ==
  flight' = [q \in DOMAIN flight \union {p} |-> IF q = p THEN frame ELSE flight[q]]
End(p) == flight' = Restrict(flight, DOMAIN flight \ {p})

\* The next item of the handler's loop, or its end.
Continue(p, todo) ==
  IF todo = <<>> THEN End(p)
  ELSE Start(p, [op |-> flight[p].op, at |-> "item", trace |-> 0, todo |-> todo])

Exists(server) == config[server] \notin {Unmade, Gone}

-----------------------------------------------------------------------------
(***************************************************************************)
(* Attempts.                                                               *)
(***************************************************************************)

\* `deliver`: the first attempt of a new chain, whatever its hook is by now.
Deliver(p, hook, url, mail, plugin, todo) ==
  /\ chains' = [t \in DOMAIN chains \union {nextTrace} |->
                  IF t = nextTrace
                  THEN [hook |-> hook, url |-> url, mail |-> mail, plugin |-> plugin,
                        n |-> 1, at |-> now, phase |-> "posting", due |-> 0]
                  ELSE chains[t]]
  /\ nextTrace' = nextTrace + 1
  /\ Start(p, [op |-> flight[p].op, at |-> "post", trace |-> nextTrace, todo |-> todo])

Delays(c) == IF c.mail = NoMail THEN OutboundDelays ELSE InboundDelays
ServerOf(c) == IF c.hook \in Servers THEN c.hook ELSE Owner[c.hook]

Retried(c) ==
  IF c.mail = NoMail THEN {"busy", "error"}
  ELSE {"2xx", "4xx", "busy", "error"}
Succeeds(c) == IF c.mail = NoMail THEN {"200", "2xx"} ELSE {"200"}

Result(c, outcome) ==
  CASE outcome \in Succeeds(c) -> "success"
    [] outcome \in Retried(c) -> IF c.n > Len(Delays(c)) THEN "exhausted" ELSE "retry"
    [] OTHER -> "stop"

\* NextAttemptAt.
NextAt(c) == c.at + Delays(c)[c.n]
\* A slip: the retry is due when the attempt has ended.
DueNow(c) == now
\* When the clock runs the retry: delays count from the attempt's start.
DueAt(c) == Later(now, NextAt(c))

\* A slip: the result of the attempt is the status.
StatusOfResult(result) == result
\* onResult of an inbound message.
StatusAfter(result) ==
  CASE result = "success" -> "Processed"
    [] result = "retry" -> "Scheduled"
    [] OTHER -> "Failed"

\* The attempt that the handler awaits has ended.
Answered(p, outcome) ==
  /\ p \in DOMAIN flight
  /\ Turn(p)
  /\ flight[p].at = "post"
  /\ LET t == flight[p].trace
         c == chains[t]
         result == Result(c, outcome)
     IN  /\ outcome = "refused" <=> Refused(t)
         /\ attempts' = attempts \union
              {[trace |-> t, server |-> ServerOf(c), n |-> c.n, at |-> c.at,
                outcome |-> outcome, result |-> result,
                next |-> IF result = "retry" THEN NextAt(c) ELSE 0]}
         /\ chains' = IF result = "retry"
                      THEN [chains EXCEPT ![t].phase = "waiting", ![t].due = DueAt(c)]
                      ELSE Restrict(chains, DOMAIN chains \ {t})
         /\ status' = IF c.mail = NoMail THEN status
                      ELSE [status EXCEPT ![c.mail] = StatusAfter(result)]
  /\ Continue(p, flight[p].todo)
  /\ UNCHANGED <<now, config, stored, nextTrace>>

\* A slip: a retry that its instant has passed is not run any more.
DueExactly(t) == chains[t].due = now
Due(t) == chains[t].due <= now

StillConfigured(c) == config[c.hook] = c.url

\* The clock runs the retry of a chain, if its hook still asks for it.
RunRetry(t) ==
  /\ Free
  /\ Runner \notin DOMAIN flight
  /\ chains[t].phase = "waiting"
  /\ Due(t)
  /\ \/ /\ StillConfigured(chains[t])
        /\ chains' = [chains EXCEPT ![t].phase = "posting", ![t].n = @ + 1, ![t].at = now]
        /\ Start(Runner, [op |-> "task", at |-> "post", trace |-> t, todo |-> <<>>])
     \/ /\ ~StillConfigured(chains[t])
        /\ chains' = Restrict(chains, DOMAIN chains \ {t})
        /\ UNCHANGED flight
  /\ UNCHANGED <<now, config, stored, status, attempts, nextTrace>>

-----------------------------------------------------------------------------
(***************************************************************************)
(* emitOutbound: the hooks that ask for the event are taken with their     *)
(* URLs when it starts, then called one after the other.                   *)
(***************************************************************************)
Emit(p, event) ==
  LET hooks == HooksFor[event]
  IN  /\ Free
      /\ p \notin DOMAIN flight
      /\ nextTrace < MaxChains
      /\ Exists(Owner[hooks[1]])
      /\ Start(p, [op |-> "emit", at |-> "item", trace |-> 0,
                   todo |-> [i \in DOMAIN hooks |->
                               [hook |-> hooks[i], url |-> config[hooks[i]]]]])
      /\ UNCHANGED <<now, config, stored, status, chains, attempts, nextTrace>>

AtItem(p, ops) ==
  /\ p \in DOMAIN flight
  /\ Turn(p)
  /\ flight[p].at = "item"
  /\ flight[p].op \in ops

\* One hook: it is called, or it asked for nothing, or it filters this event.
EmitItem(p) ==
  /\ AtItem(p, {"emit"})
  /\ LET target == Head(flight[p].todo)
         rest == Tail(flight[p].todo)
     IN  \/ /\ target.url \in Urls
            /\ Deliver(p, target.hook, target.url, NoMail, TRUE, rest)
         \/ Continue(p, rest) /\ UNCHANGED <<chains, nextTrace>>
  /\ UNCHANGED <<now, config, stored, status, attempts>>

-----------------------------------------------------------------------------
(***************************************************************************)
(* Inbound messages.                                                       *)
(***************************************************************************)

\* receiveInbound: a message for each server that the mail reaches.
Receive(p, mails, blocked) ==
  /\ Free
  /\ p \notin DOMAIN flight
  /\ nextTrace < MaxChains
  /\ \A m \in Range(mails) : status[m] = "None" /\ Exists(Owner[m])
  /\ \A i, j \in DOMAIN mails : Owner[mails[i]] = Owner[mails[j]] => i = j
  /\ stored' = stored \union Range(mails)
  /\ status' = [m \in Mails |->
                  IF m \notin Range(mails) THEN status[m]
                  ELSE IF m \in blocked THEN "Blocked" ELSE "Queued"]
  /\ Start(p, [op |-> "receive", at |-> "item", trace |-> 0, todo |-> mails])
  /\ UNCHANGED <<now, config, chains, attempts, nextTrace>>

\* A slip: the listener posts every message it hears of.
PostsAlways(op, m) == TRUE
\* A blocked message waits for a bypass.
Posts(op, m) == op = "receive" => status[m] # "Blocked"

\* A slip: a server without a hook leaves the message as it is.
NoHookStatus(m) == status[m]
WithoutHook(m) == "Processed"

\* deliverInbound for the next message, with the runtime of its caller.
InboundItem(p) ==
  /\ AtItem(p, {"receive", "call"})
  /\ LET op == flight[p].op
         m == Head(flight[p].todo)
         rest == Tail(flight[p].todo)
         url == config[Owner[m]]
     IN  \/ /\ Posts(op, m)
            /\ url \in Urls
            /\ Deliver(p, Owner[m], url, m, op = "receive", rest)
            /\ UNCHANGED status
         \/ /\ Posts(op, m)
            /\ url = Off
            /\ status' = [status EXCEPT ![m] = WithoutHook(m)]
            /\ Continue(p, rest)
            /\ UNCHANGED <<chains, nextTrace>>
         \/ /\ ~Posts(op, m) \/ ~Exists(Owner[m])
            /\ Continue(p, rest)
            /\ UNCHANGED <<status, chains, nextTrace>>
  /\ UNCHANGED <<now, config, stored, attempts>>

\* A slip: a message whose retry still waits may be retried.
FromAnyFailure(action) ==
  IF action = "bypass" THEN {"Blocked"} ELSE {"Failed", "Scheduled"}
\* The status that bypass and retry ask for.
From(action) == IF action = "bypass" THEN {"Blocked"} ELSE {"Failed"}

\* PUT /messages/inbound/{id}/bypass and .../retry.
Redeliver(p, action, m) ==
  /\ Free
  /\ p \notin DOMAIN flight
  /\ nextTrace < MaxChains
  /\ m \in stored
  /\ status[m] \in From(action)
  /\ status' = [status EXCEPT ![m] = "Queued"]
  /\ Start(p, [op |-> "call", at |-> "item", trace |-> 0, todo |-> <<m>>])
  /\ UNCHANGED <<now, config, stored, chains, attempts, nextTrace>>

-----------------------------------------------------------------------------
(***************************************************************************)
(* Configuration.                                                          *)
(***************************************************************************)
SetHook(h, url) ==
  /\ Free
  /\ config' = [config EXCEPT ![h] = url]
  /\ UNCHANGED <<now, stored, status, chains, attempts, flight, nextTrace>>

\* POST /servers and POST /webhooks.
Create(h, url) ==
  /\ config[h] = Unmade
  /\ h \in EventHooks => Exists(Owner[h])
  /\ SetHook(h, url)

\* PUT /servers/{id}, PUT /server and PUT /webhooks/{id}.
Edit(h, url) == config[h] \notin {Unmade, Gone, url} /\ SetHook(h, url)

\* DELETE /webhooks/{id}.
DeleteHook(h) == config[h] \notin {Unmade, Gone} /\ SetHook(h, Gone)

\* DELETE /servers/{id}: everything the server owns, but not what is in flight.
DeleteServer(s) ==
  /\ Free
  /\ Exists(s)
  /\ config' = [h \in Hooks |-> IF h = s \/ (h \in EventHooks /\ Owner[h] = s)
                                THEN Gone ELSE config[h]]
  /\ stored' = {m \in stored : Owner[m] # s}
  /\ attempts' = {a \in attempts : a.server # s}
  /\ UNCHANGED <<now, status, chains, flight, nextTrace>>

(***************************************************************************)
(* POST /control/reset, at its reset of store and clock: no task runs and  *)
(* none stays, but what a request delivers goes on.                        *)
(***************************************************************************)
Reset ==
  /\ Free
  /\ Runner \notin DOMAIN flight
  /\ now' \in 0..now
  /\ config' = [h \in Hooks |-> Unmade]
  /\ stored' = {}
  /\ attempts' = {}
  /\ chains' = Restrict(chains, {t \in DOMAIN chains : Posting(t)})
  /\ UNCHANGED <<status, flight, nextTrace>>

\* Time may pass a pending retry: a timer fires late.
Tick ==
  /\ Free
  /\ now < MaxTime
  /\ now' = now + 1
  /\ UNCHANGED <<config, stored, status, chains, attempts, flight, nextTrace>>

-----------------------------------------------------------------------------
Init ==
  /\ now = 0
  /\ config = [h \in Hooks |-> Unmade]
  /\ stored = {}
  /\ status = [m \in Mails |-> "None"]
  /\ chains = EmptyMap
  /\ attempts = {}
  /\ flight = EmptyMap
  /\ nextTrace = 0

MailLists == UNION {[1..k -> Mails] : k \in 1..MaxMail}

Client(p) ==
  \/ \E mails \in MailLists : \E blocked \in SUBSET Range(mails) : Receive(p, mails, blocked)
  \/ \E action \in {"bypass", "retry"}, m \in Mails : Redeliver(p, action, m)

Configure ==
  \/ \E h \in Hooks, url \in Urls \union {Off} : Create(h, url) \/ Edit(h, url)
  \/ \E h \in EventHooks : DeleteHook(h)
  \/ \E s \in Servers : DeleteServer(s)

Resume(p) ==
  EmitItem(p) \/ InboundItem(p) \/ \E outcome \in Outcomes : Answered(p, outcome)

RunTask == \E t \in DOMAIN chains : RunRetry(t)

Next ==
  \/ \E p \in Requests : Client(p)
  \/ \E p \in Handlers, event \in Events : Emit(p, event)
  \/ \E p \in Handlers : Resume(p)
  \/ RunTask
  \/ Configure
  \/ Reset
  \/ Tick

Spec == Init /\ [][Next]_vars

(***************************************************************************)
(* What the server does by itself happens: the event loop starves no       *)
(* continuation and no timer, real time passes, and a POST ends by an      *)
(* answer or by its timeout.  Nobody makes a client call.                  *)
(***************************************************************************)
Fairness ==
  /\ \A p \in Handlers : SF_vars(Resume(p))
  /\ SF_vars(RunTask)
  /\ SF_vars(Tick)

FairSpec == Spec /\ Fairness
-----------------------------------------------------------------------------
(***************************************************************************)
(* Properties.                                                             *)
(***************************************************************************)
Live(m) == {t \in DOMAIN chains : chains[t].mail = m}

(***************************************************************************)
(* "Processed on success, Scheduled while a retry waits, Failed after a    *)
(* 403 or the last retry" (inbound/deliver.ts): a message is delivered by  *)
(* one chain at a time, Queued during its first attempt and Scheduled      *)
(* after it, and in no delivery in any other status.  For mails of one     *)
(* server, whatever bypasses, retries, edits and resets come between.      *)
(***************************************************************************)
StatusFollowsChain ==
  \A m \in Mails : \A t \in Live(m) :
    /\ Live(m) = {t}
    /\ status[m] = IF chains[t].n = 1 /\ Posting(t) THEN "Queued" ELSE "Scheduled"

(***************************************************************************)
(* "One row per POST attempt": the attempts logged for an event are        *)
(* distinct, and each comes after rows that announced a retry, not before  *)
(* their NextAttemptAt, though timers fire late, receivers answer late and *)
(* other events are retried meanwhile.                                     *)
(***************************************************************************)
RetriesKeepSchedule ==
  \A a, b \in attempts : a.trace = b.trace =>
    /\ a.n = b.n => a = b
    /\ a.n < b.n => a.result = "retry" /\ a.next <= b.at

\* The statuses of inbound messages move as the abstract machine allows.
Inbound == INSTANCE InboundStatus
InboundSpec == Inbound!Spec

(***************************************************************************)
(* A retry that waits is run or dropped: the queue of the clock gets to    *)
(* it, though other handlers and retries wait for receivers.               *)
(***************************************************************************)
Waiting(t, n) ==
  /\ t \in DOMAIN chains
  /\ ~Posting(t)
  /\ chains[t].n = n
  /\ chains[t].due <= MaxTime
\* Each handler may go on after the bound with the rest of its loop.
LastTrace == MaxChains + Cardinality(Handlers) * (MaxMail + Cardinality(EventHooks))
LastRetry == Later(Len(OutboundDelays), Len(InboundDelays))
RetriesRun ==
  \A t \in 0..LastTrace, n \in 1..LastRetry : Waiting(t, n) ~> ~Waiting(t, n)

(***************************************************************************)
(* A message does not stay Queued: it gets its first answer or is deleted  *)
(* (with its server, or by a reset), though the receivers of the mail's    *)
(* messages to other servers are waited for before.                        *)
(***************************************************************************)
QueuedIsDelivered ==
  \A m \in Mails : status[m] = "Queued" ~> status[m] # "Queued" \/ m \notin stored

-----------------------------------------------------------------------------
(***************************************************************************)
(* Statements of the repository that the code breaks.                      *)
(***************************************************************************)

(***************************************************************************)
(* "Scheduled while a retry waits" (inbound/deliver.ts): a message with a  *)
(* retry that waits is Scheduled.  Broken when a mail of two servers is    *)
(* bypassed at the second while the first is being posted.                 *)
(***************************************************************************)
WaitingIsScheduled ==
  \A t \in DOMAIN chains :
    chains[t].mail # NoMail /\ ~Posting(t) => status[chains[t].mail] = "Scheduled"

=============================================================================
