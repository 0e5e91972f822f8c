---------------------------- MODULE DeliveryProofs ----------------------------
(***************************************************************************)
(* Proofs about Delivery, for every choice of its constants.               *)
(***************************************************************************)
EXTENDS Delivery, SequenceTheorems, TLAPS

\* A partial map with one more entry, or with an entry replaced.
LEMMA ExtendMap ==
  ASSUME NEW S, NEW T, NEW f, IsMap(f, S, T), NEW x \in S, NEW y \in T
  PROVE  IsMap([z \in DOMAIN f \union {x} |-> IF z = x THEN y ELSE f[z]], S, T)
BY DEF IsMap

\* A partial map with fewer entries.
LEMMA RestrictMap ==
  ASSUME NEW S, NEW T, NEW f, IsMap(f, S, T), NEW D \in SUBSET DOMAIN f
  PROVE  IsMap(Restrict(f, D), S, T)
BY DEF IsMap, Restrict

(***************************************************************************)
(* What the proofs need beyond the types: trace IDs are new when they are  *)
(* taken, every handler that awaits a POST awaits one of its own, and one  *)
(* at the head of its loop has an item.                                    *)
(***************************************************************************)
Awaits(p, t) == p \in DOMAIN flight /\ flight[p].at = "post" /\ flight[p].trace = t

FramesSound ==
  /\ \A t \in DOMAIN chains : t < nextTrace
  /\ \A p \in DOMAIN flight : flight[p].at = "post" =>
       flight[p].trace \in DOMAIN chains /\ Posting(flight[p].trace)
  /\ \A p, q \in DOMAIN flight :
       flight[p].at = "post" /\ Awaits(q, flight[p].trace) => p = q
  /\ \A p \in DOMAIN flight : flight[p].at = "item" => flight[p].todo # <<>>

Sound == TypeOK /\ FramesSound

-----------------------------------------------------------------------------
(***************************************************************************)
(* The steps that handlers are made of.                                    *)
(***************************************************************************)

LEMMA StartTyped ==
  ASSUME IsMap(flight, Handlers, Frame), NEW p \in Handlers, NEW f \in Frame, Start(p, f)
  PROVE  IsMap(flight', Handlers, Frame)
BY ExtendMap DEF Start

\* A handler comes to the head of its loop.
LEMMA StartItem ==
  ASSUME Sound, NEW p \in Handlers, NEW f \in Frame, f.at = "item", f.todo # <<>>,
         Start(p, f), UNCHANGED <<chains, nextTrace>>
  PROVE  IsMap(flight', Handlers, Frame) /\ FramesSound'
<1>1. IsMap(flight', Handlers, Frame)
  BY ExtendMap DEF Sound, TypeOK, Start
<1>2. FramesSound'
  BY DEF Sound, FramesSound, Awaits, Start, Posting
<1> QED BY <1>1, <1>2

\* A handler's frame further on in its loop, and not at its end.
LEMMA FurtherFrame ==
  ASSUME TypeOK, NEW p \in DOMAIN flight, NEW todo, NEW at \in At, NEW t \in Nat,
         \/ todo = flight[p].todo /\ todo # <<>>
         \/ flight[p].todo # <<>> /\ todo = Tail(flight[p].todo)
  PROVE  [op |-> flight[p].op, at |-> at, trace |-> t, todo |-> todo] \in Frame
<1>1. flight[p] \in Frame
  BY DEF TypeOK, IsMap
<1>2. \/ flight[p].op = "emit" /\ todo \in Seq(Target)
      \/ flight[p].op \in {"receive", "call"} /\ todo \in Seq(Mails)
  BY <1>1 DEF Frame
<1> QED BY <1>2 DEF Frame

\* A handler goes on after an item, or after the POST that it alone awaits.
LEMMA ContinueSound ==
  ASSUME Sound, NEW p \in DOMAIN flight, NEW todo, Continue(p, todo),
         todo = flight[p].todo \/ (flight[p].todo # <<>> /\ todo = Tail(flight[p].todo)),
         nextTrace' = nextTrace, DOMAIN chains' \subseteq DOMAIN chains,
         \/ chains' = chains
         \/ /\ flight[p].at = "post"
            /\ \A t \in DOMAIN chains \ {flight[p].trace} :
                 t \in DOMAIN chains' /\ chains'[t] = chains[t]
  PROVE  IsMap(flight', Handlers, Frame) /\ FramesSound'
<1>1. p \in Handlers /\ flight[p] \in Frame
  BY DEF Sound, TypeOK, IsMap
<1>2. CASE todo = <<>>
  <2>1. flight' = Restrict(flight, DOMAIN flight \ {p})
    BY <1>2 DEF Continue, End
  <2>2. IsMap(flight', Handlers, Frame)
    BY <2>1, RestrictMap DEF Sound, TypeOK
  <2>3. FramesSound'
    BY <2>1 DEF Sound, FramesSound, Awaits, Posting, Restrict
  <2> QED BY <2>2, <2>3
<1>3. CASE todo # <<>>
  <2> DEFINE f == [op |-> flight[p].op, at |-> "item", trace |-> 0, todo |-> todo]
  <2>0. Start(p, f)
    BY <1>3 DEF Continue
  <2>1. f \in Frame /\ f.at = "item" /\ f.todo # <<>>
    BY <1>3, FurtherFrame DEF Sound, At
  <2>2. IsMap(flight', Handlers, Frame)
    <3> HIDE DEF f
    <3> QED BY <1>1, <2>0, <2>1, StartTyped DEF Sound, TypeOK
  <2>3. FramesSound'
    BY <2>0, <2>1 DEF Sound, FramesSound, Awaits, Start, Posting
  <2> QED BY <2>2, <2>3
<1> QED BY <1>2, <1>3

\* The first attempt of a new chain.
LEMMA DeliverSound ==
  ASSUME Sound, NEW p \in DOMAIN flight, flight[p].todo # <<>>, NEW hook \in Hooks,
         NEW url \in Urls, NEW mail \in Mails \union {NoMail}, NEW plugin \in BOOLEAN,
         Deliver(p, hook, url, mail, plugin, Tail(flight[p].todo))
  PROVE  /\ IsMap(chains', Nat, Chain) /\ IsMap(flight', Handlers, Frame)
         /\ nextTrace' \in Nat /\ FramesSound'
<1> DEFINE c == [hook |-> hook, url |-> url, mail |-> mail, plugin |-> plugin,
                 n |-> 1, at |-> now, phase |-> "posting", due |-> 0]
           f == [op |-> flight[p].op, at |-> "post", trace |-> nextTrace,
                 todo |-> Tail(flight[p].todo)]
<1>1. c \in Chain /\ nextTrace \in Nat
  BY DEF Sound, TypeOK, Chain
<1>2. p \in Handlers /\ f \in Frame
  BY <1>1, FurtherFrame DEF Sound, TypeOK, IsMap, At
<1>3. /\ chains' = [t \in DOMAIN chains \union {nextTrace} |->
                    IF t = nextTrace THEN c ELSE chains[t]]
      /\ Start(p, f)
      /\ nextTrace' = nextTrace + 1
  BY DEF Deliver
<1>4. IsMap(chains', Nat, Chain) /\ IsMap(flight', Handlers, Frame) /\ nextTrace' \in Nat
  <2> HIDE DEF c, f
  <2>1. IsMap(chains, Nat, Chain) /\ IsMap(flight, Handlers, Frame)
    BY DEF Sound, TypeOK
  <2>2. IsMap(chains', Nat, Chain)
    BY <1>1, <1>3, <2>1 DEF IsMap
  <2> QED BY <1>1, <1>2, <1>3, <2>1, <2>2, StartTyped
<1>5. \A t \in DOMAIN chains : t \in Nat /\ t < nextTrace
  BY DEF Sound, TypeOK, IsMap, FramesSound
<1>6. FramesSound'
  BY <1>1, <1>2, <1>5 DEF Sound, FramesSound, Awaits, Deliver, Start, Posting
<1> QED BY <1>4, <1>6

\* What the end of an attempt makes of the chain, and the row it logs.
LEMMA AnswerTyped ==
  ASSUME TypeOK, NEW c \in Chain, NEW outcome \in Outcomes
  PROVE  /\ Result(c, outcome) \in Results
         /\ Result(c, outcome) = "retry" => NextAt(c) \in Nat /\ DueAt(c) \in Nat
         /\ ServerOf(c) \in Servers
         /\ StatusAfter(Result(c, outcome)) \in Statuses
<1>1. Result(c, outcome) \in Results
  BY DEF Result, Results
<1>2. c.n \in Nat \ {0} /\ c.at \in Nat /\ c.hook \in Hooks
  BY DEF Chain
<1>3. ASSUME Result(c, outcome) = "retry" PROVE NextAt(c) \in Nat /\ DueAt(c) \in Nat
  <2>1. Delays(c) \in Seq(Nat \ {0})
    BY DeliveryAssumption DEF Delays
  <2>2. ~(c.n > Len(Delays(c)))
    BY <1>3 DEF Result
  <2>3. NextAt(c) \in Nat
    BY <1>2, <2>1, <2>2 DEF NextAt
  <2> QED BY <2>3 DEF DueAt, Later, TypeOK
<1>4. ServerOf(c) \in Servers
  BY <1>2, DeliveryAssumption DEF ServerOf, Hooks
<1>5. StatusAfter(Result(c, outcome)) \in Statuses
  BY DEF StatusAfter, Statuses
<1> QED BY <1>1, <1>3, <1>4, <1>5

\* The chains after the attempt of chain t: it waits or is over.
LEMMA AnsweredChains ==
  ASSUME TypeOK, NEW t \in DOMAIN chains, NEW due \in Nat,
         \/ chains' = [chains EXCEPT ![t].phase = "waiting", ![t].due = due]
         \/ chains' = Restrict(chains, DOMAIN chains \ {t})
  PROVE  /\ IsMap(chains', Nat, Chain)
         /\ DOMAIN chains' \subseteq DOMAIN chains
         /\ \A u \in DOMAIN chains \ {t} : u \in DOMAIN chains' /\ chains'[u] = chains[u]
         /\ t \in DOMAIN chains' =>
              /\ chains'[t].phase = "waiting" /\ chains'[t].due = due
              /\ chains'[t].n = chains[t].n /\ chains'[t].mail = chains[t].mail
<1>1. CASE chains' = [chains EXCEPT ![t].phase = "waiting", ![t].due = due]
  <2> DEFINE d == [chains[t] EXCEPT !.phase = "waiting", !.due = due]
  <2>1. chains[t] \in Chain
    BY DEF TypeOK, IsMap
  <2>2. /\ d \in Chain /\ d.phase = "waiting" /\ d.due = due
        /\ d.n = chains[t].n /\ d.mail = chains[t].mail
    BY <2>1 DEF Chain
  <2>3. chains' = [chains EXCEPT ![t] = d]
    BY <1>1
  <2>4. IsMap(chains, Nat, Chain)
    BY DEF TypeOK
  <2> HIDE DEF d
  <2> QED BY <2>2, <2>3, <2>4 DEF IsMap
<1>2. CASE chains' = Restrict(chains, DOMAIN chains \ {t})
  BY <1>2, RestrictMap DEF TypeOK, Restrict
<1> QED BY <1>1, <1>2

LEMMA AnsweredSound ==
  ASSUME Sound, NEW p \in Handlers, NEW outcome \in Outcomes, Answered(p, outcome)
  PROVE  Sound'
<1> DEFINE t == flight[p].trace
           c == chains[t]
           r == Result(c, outcome)
<1>1. p \in DOMAIN flight /\ flight[p].at = "post" /\ t \in DOMAIN chains /\ t \in Nat
  BY DEF Sound, TypeOK, IsMap, FramesSound, Answered
<1>2. c \in Chain
  BY <1>1 DEF Sound, TypeOK, IsMap
<1>3. /\ r \in Results /\ ServerOf(c) \in Servers /\ StatusAfter(r) \in Statuses
      /\ r = "retry" => NextAt(c) \in Nat /\ DueAt(c) \in Nat
  BY <1>2, AnswerTyped DEF Sound
<1>4. attempts' \subseteq Row
  <2>1. c.n \in Nat \ {0} /\ c.at \in Nat
    BY <1>2 DEF Chain
  <2>2. attempts' = attempts \union
          {[trace |-> t, server |-> ServerOf(c), n |-> c.n, at |-> c.at,
            outcome |-> outcome, result |-> r,
            next |-> IF r = "retry" THEN NextAt(c) ELSE 0]}
    BY DEF Answered
  <2>3. [trace |-> t, server |-> ServerOf(c), n |-> c.n, at |-> c.at,
         outcome |-> outcome, result |-> r,
         next |-> IF r = "retry" THEN NextAt(c) ELSE 0] \in Row
    <3> HIDE DEF t, c, r
    <3> QED BY <1>1, <1>3, <2>1 DEF Row
  <2> QED BY <2>2, <2>3 DEF Sound, TypeOK
<1>5. /\ IsMap(chains', Nat, Chain)
      /\ DOMAIN chains' \subseteq DOMAIN chains
      /\ \A u \in DOMAIN chains \ {t} : u \in DOMAIN chains' /\ chains'[u] = chains[u]
  <2>1. CASE r = "retry"
    <3>1. chains' = [chains EXCEPT ![t].phase = "waiting", ![t].due = DueAt(c)]
      BY <2>1 DEF Answered
    <3> QED BY <1>1, <1>3, <2>1, <3>1, AnsweredChains DEF Sound
  <2>2. CASE r # "retry"
    <3>1. chains' = Restrict(chains, DOMAIN chains \ {t})
      BY <2>2 DEF Answered
    <3> QED BY <1>1, <3>1, AnsweredChains DEF Sound
  <2> QED BY <2>1, <2>2
<1>6. status' \in [Mails -> Statuses]
  <2>1. status' = IF c.mail = NoMail THEN status
                  ELSE [status EXCEPT ![c.mail] = StatusAfter(r)]
    BY DEF Answered
  <2>2. status \in [Mails -> Statuses]
    BY DEF Sound, TypeOK
  <2> HIDE DEF c, r
  <2> QED BY <1>3, <2>1, <2>2
<1>7. /\ Continue(p, flight[p].todo)
      /\ UNCHANGED <<now, config, stored, nextTrace>>
  BY DEF Answered
<1>8. IsMap(flight', Handlers, Frame) /\ FramesSound'
  BY <1>1, <1>5, <1>7, ContinueSound
<1> QED BY <1>4, <1>5, <1>6, <1>7, <1>8 DEF Sound, TypeOK

LEMMA RunRetrySound ==
  ASSUME Sound, NEW t \in DOMAIN chains, RunRetry(t)
  PROVE  Sound'
<1>1. IsMap(chains, Nat, Chain) /\ IsMap(flight, Handlers, Frame) /\ t \in Nat
  BY DEF Sound, TypeOK, IsMap
<1>2. /\ Runner \in Handlers /\ Runner \notin DOMAIN flight /\ ~Posting(t)
      /\ UNCHANGED <<now, config, stored, status, attempts, nextTrace>>
  BY DEF RunRetry, Handlers, Posting
<1>3. CASE chains' = Restrict(chains, DOMAIN chains \ {t}) /\ UNCHANGED flight
  <2>1. IsMap(chains', Nat, Chain)
    BY <1>1, <1>3, RestrictMap
  <2>2. FramesSound'
    BY <1>2, <1>3 DEF Sound, FramesSound, Awaits, Posting, Restrict
  <2> QED BY <1>2, <1>3, <2>1, <2>2 DEF Sound, TypeOK
<1>4. ASSUME chains' = [chains EXCEPT ![t].phase = "posting", ![t].n = @ + 1, ![t].at = now],
             Start(Runner, [op |-> "task", at |-> "post", trace |-> t, todo |-> <<>>])
      PROVE  Sound'
  <2> DEFINE c == chains[t]
             d == [c EXCEPT !.phase = "posting", !.n = c.n + 1, !.at = now]
             f == [op |-> "task", at |-> "post", trace |-> t, todo |-> <<>>]
  <2>1. chains[t] \in Chain /\ now \in Nat
    BY <1>1 DEF Sound, TypeOK, IsMap
  <2>2. d \in Chain /\ d.phase = "posting"
    <3>1. c \in Chain /\ c.n \in Nat \ {0} /\ c.n + 1 \in Nat \ {0}
      BY <2>1 DEF Chain
    <3> HIDE DEF c
    <3> QED BY <2>1, <3>1 DEF Chain
  <2>3. f \in Frame /\ f.at = "post" /\ f.trace = t
    BY <1>1 DEF Frame
  <2>4. chains' = [chains EXCEPT ![t] = d] /\ Start(Runner, f)
    BY <1>4
  <2> HIDE DEF c, d, f
  <2>5. IsMap(chains', Nat, Chain) /\ IsMap(flight', Handlers, Frame)
    <3>1. IsMap(chains', Nat, Chain)
      BY <1>1, <2>2, <2>4 DEF IsMap
    <3> QED BY <1>1, <1>2, <2>3, <2>4, <3>1, StartTyped
  <2>6. FramesSound'
    BY <1>2, <2>2, <2>3, <2>4 DEF Sound, FramesSound, Awaits, Posting, Start
  <2> QED BY <1>2, <2>5, <2>6 DEF Sound, TypeOK
<1>5. \/ chains' = [chains EXCEPT ![t].phase = "posting", ![t].n = @ + 1, ![t].at = now]
         /\ Start(Runner, [op |-> "task", at |-> "post", trace |-> t, todo |-> <<>>])
      \/ chains' = Restrict(chains, DOMAIN chains \ {t}) /\ UNCHANGED flight
  BY DEF RunRetry
<1> QED BY <1>3, <1>4, <1>5

\* The handlers of events and of inbound messages.
LEMMA EmitSound ==
  ASSUME Sound, NEW p \in Handlers, NEW event \in Events, Emit(p, event)
  PROVE  Sound'
<1> DEFINE hooks == HooksFor[event]
           todo == [i \in DOMAIN hooks |-> [hook |-> hooks[i], url |-> config[hooks[i]]]]
           f == [op |-> "emit", at |-> "item", trace |-> 0, todo |-> todo]
<1>1. hooks \in Seq(EventHooks) /\ hooks # <<>>
  BY DeliveryAssumption
<1>2. todo \in Seq(Target) /\ todo # <<>>
  <2>1. \A i \in DOMAIN hooks : [hook |-> hooks[i], url |-> config[hooks[i]]] \in Target
    BY <1>1 DEF Sound, TypeOK, Target, Hooks
  <2> HIDE DEF hooks
  <2>2. DOMAIN hooks = 1..Len(hooks) /\ Len(hooks) \in Nat /\ Len(hooks) > 0
    BY <1>1
  <2>3. DOMAIN todo = 1..Len(hooks)
    BY <2>2
  <2>4. todo \in Seq(Target)
    BY <2>1, <2>2
  <2> QED BY <2>2, <2>3, <2>4
<1>3. f \in Frame /\ f.at = "item" /\ f.todo # <<>>
  <2> HIDE DEF todo
  <2> QED BY <1>2 DEF Frame, At
<1>4. /\ Start(p, f)
      /\ UNCHANGED <<now, config, stored, status, chains, attempts, nextTrace>>
  BY DEF Emit
<1> HIDE DEF f
<1> QED BY <1>3, <1>4, StartItem DEF Sound, TypeOK

LEMMA EmitItemSound ==
  ASSUME Sound, NEW p \in Handlers, EmitItem(p)
  PROVE  Sound'
<1> DEFINE target == Head(flight[p].todo)
           rest == Tail(flight[p].todo)
<1>1. p \in DOMAIN flight /\ flight[p].at = "item" /\ flight[p].op = "emit"
  BY DEF EmitItem, AtItem
<1>2. flight[p].todo # <<>> /\ flight[p].todo \in Seq(Target)
  <2>1. flight[p] \in Frame
    BY <1>1 DEF Sound, TypeOK, IsMap
  <2> QED BY <1>1, <2>1 DEF Sound, FramesSound, Frame
<1>3. target.hook \in Hooks /\ NoMail \in Mails \union {NoMail} /\ TRUE \in BOOLEAN
  <2>1. target \in Target
    BY <1>2
  <2> HIDE DEF target
  <2> QED BY <2>1 DEF Target, Hooks
<1>4. UNCHANGED <<now, config, stored, status, attempts>>
  BY DEF EmitItem
<1>5. CASE target.url \in Urls /\ Deliver(p, target.hook, target.url, NoMail, TRUE, rest)
  BY <1>1, <1>2, <1>3, <1>4, <1>5, DeliverSound DEF Sound, TypeOK
<1>6. CASE Continue(p, rest) /\ UNCHANGED <<chains, nextTrace>>
  BY <1>1, <1>2, <1>4, <1>6, ContinueSound DEF Sound, TypeOK
<1> QED BY <1>5, <1>6 DEF EmitItem

LEMMA ReceiveSound ==
  ASSUME Sound, NEW p \in Handlers, NEW mails \in MailLists,
         NEW blocked \in SUBSET Mails, Receive(p, mails, blocked)
  PROVE  Sound'
<1> DEFINE f == [op |-> "receive", at |-> "item", trace |-> 0, todo |-> mails]
<1>1. mails \in Seq(Mails) /\ mails # <<>> /\ Range(mails) \subseteq Mails
  <2>1. PICK k \in 1..MaxMail : mails \in [1..k -> Mails]
    BY DEF MailLists
  <2>2. k \in Nat /\ k > 0
    BY <2>1, DeliveryAssumption
  <2> QED BY <2>1, <2>2 DEF Range
<1>2. f \in Frame /\ f.at = "item" /\ f.todo # <<>>
  BY <1>1 DEF Frame, At
<1>3. status' \in [Mails -> Statuses] /\ stored' \subseteq Mails
  BY <1>1 DEF Receive, Sound, TypeOK, Statuses
<1>4. Start(p, f) /\ UNCHANGED <<now, config, chains, attempts, nextTrace>>
  BY DEF Receive
<1> HIDE DEF f
<1> QED BY <1>2, <1>3, <1>4, StartItem DEF Sound, TypeOK

LEMMA RedeliverSound ==
  ASSUME Sound, NEW p \in Handlers, NEW action, NEW m \in Mails, Redeliver(p, action, m)
  PROVE  Sound'
<1> DEFINE f == [op |-> "call", at |-> "item", trace |-> 0, todo |-> <<m>>]
<1>1. f \in Frame /\ f.at = "item" /\ f.todo # <<>>
  BY DEF Frame, At
<1>2. status' \in [Mails -> Statuses]
  BY DEF Redeliver, Sound, TypeOK, Statuses
<1>3. Start(p, f) /\ UNCHANGED <<now, config, stored, chains, attempts, nextTrace>>
  BY DEF Redeliver
<1> HIDE DEF f
<1> QED BY <1>1, <1>2, <1>3, StartItem DEF Sound, TypeOK

LEMMA InboundItemSound ==
  ASSUME Sound, NEW p \in Handlers, InboundItem(p)
  PROVE  Sound'
<1> DEFINE m == Head(flight[p].todo)
           rest == Tail(flight[p].todo)
           url == config[Owner[m]]
           plugin == flight[p].op = "receive"
<1>1. /\ p \in DOMAIN flight /\ flight[p].at = "item"
      /\ flight[p].op \in {"receive", "call"}
  BY DEF InboundItem, AtItem
<1>2. flight[p].todo # <<>> /\ flight[p].todo \in Seq(Mails)
  <2>1. flight[p] \in Frame
    BY <1>1 DEF Sound, TypeOK, IsMap
  <2> QED BY <1>1, <2>1 DEF Sound, FramesSound, Frame
<1>3. m \in Mails /\ Owner[m] \in Hooks /\ plugin \in BOOLEAN
  BY <1>2, DeliveryAssumption DEF Hooks
<1>4. UNCHANGED <<now, config, stored, attempts>>
  BY DEF InboundItem
<1>5. CASE url \in Urls /\ Deliver(p, Owner[m], url, m, plugin, rest) /\ UNCHANGED status
  <2> HIDE DEF plugin
  <2> QED BY <1>1, <1>2, <1>3, <1>4, <1>5, DeliverSound DEF Sound, TypeOK
<1>6. CASE /\ status' = [status EXCEPT ![m] = WithoutHook(m)] \/ UNCHANGED status
           /\ Continue(p, rest)
           /\ UNCHANGED <<chains, nextTrace>>
  <2>1. status' \in [Mails -> Statuses]
    BY <1>3, <1>6 DEF Sound, TypeOK, WithoutHook, Statuses
  <2> QED BY <1>1, <1>2, <1>4, <1>6, <2>1, ContinueSound DEF Sound, TypeOK
<1> QED BY <1>5, <1>6 DEF InboundItem

-----------------------------------------------------------------------------
(***************************************************************************)
(* The invariant.                                                          *)
(***************************************************************************)
LEMMA SameFrames ==
  ASSUME FramesSound, UNCHANGED <<chains, flight, nextTrace>>
  PROVE  FramesSound'
BY DEF FramesSound, Awaits, Posting

LEMMA ConfigureSound ==
  ASSUME Sound, Configure
  PROVE  Sound'
<1>1. ASSUME NEW h \in Hooks, NEW url \in Config, SetHook(h, url) PROVE Sound'
  BY <1>1, SameFrames DEF SetHook, Sound, TypeOK
<1>2. ASSUME NEW h \in Hooks, NEW url \in Urls \union {Off}, Create(h, url) \/ Edit(h, url)
      PROVE  Sound'
  BY <1>1, <1>2 DEF Create, Edit, Config
<1>3. ASSUME NEW h \in EventHooks, DeleteHook(h) PROVE Sound'
  BY <1>1, <1>3 DEF DeleteHook, Config, Hooks
<1>4. ASSUME NEW s \in Servers, DeleteServer(s) PROVE Sound'
  BY <1>4, SameFrames DEF DeleteServer, Sound, TypeOK, Config
<1> QED BY <1>2, <1>3, <1>4 DEF Configure

LEMMA ResetSound ==
  ASSUME Sound, Reset
  PROVE  Sound'
<1>1. IsMap(chains', Nat, Chain)
  BY RestrictMap DEF Reset, Sound, TypeOK
<1>2. FramesSound'
  BY DEF Reset, Sound, FramesSound, Awaits, Posting, Restrict
<1>3. now' \in Nat /\ config' \in [Hooks -> Config]
  BY DEF Reset, Sound, TypeOK, Config
<1> QED BY <1>1, <1>2, <1>3 DEF Reset, Sound, TypeOK

LEMMA SoundInit == Init => Sound
BY DEF Init, Sound, TypeOK, FramesSound, IsMap, EmptyMap, Config, Statuses

LEMMA SoundStep == Sound /\ [Next]_vars => Sound'
<1> SUFFICES ASSUME Sound, [Next]_vars PROVE Sound'
  OBVIOUS
<1>1. ASSUME NEW p \in Requests, Client(p) PROVE Sound'
  <2>1. p \in Handlers
    BY DEF Handlers
  <2>2. ASSUME NEW mails \in MailLists, NEW blocked \in SUBSET Range(mails),
               Receive(p, mails, blocked)
        PROVE  Sound'
    <3>1. Range(mails) \subseteq Mails
      BY DEF MailLists, Range
    <3> QED BY <2>1, <2>2, <3>1, ReceiveSound
  <2>3. ASSUME NEW action, NEW m \in Mails, Redeliver(p, action, m) PROVE Sound'
    BY <2>1, <2>3, RedeliverSound
  <2> QED BY <1>1, <2>2, <2>3 DEF Client
<1>2. ASSUME NEW p \in Handlers, NEW event \in Events, Emit(p, event) PROVE Sound'
  BY <1>2, EmitSound
<1>3. ASSUME NEW p \in Handlers, Resume(p) PROVE Sound'
  BY <1>3, EmitItemSound, InboundItemSound, AnsweredSound DEF Resume
<1>4. CASE RunTask
  BY <1>4, RunRetrySound DEF RunTask
<1>5. CASE Configure
  BY <1>5, ConfigureSound
<1>6. CASE Reset
  BY <1>6, ResetSound
<1>7. CASE Tick
  BY <1>7, SameFrames DEF Tick, Sound, TypeOK
<1>8. CASE UNCHANGED vars
  BY <1>8, SameFrames DEF vars, Sound, TypeOK
<1> QED BY <1>1, <1>2, <1>3, <1>4, <1>5, <1>6, <1>7, <1>8 DEF Next

LEMMA AlwaysSound == Spec => []Sound
<1> QED BY SoundInit, SoundStep, PTL DEF Spec

(***************************************************************************)
(* Every variable of Delivery keeps its type: each row of the log has its  *)
(* server, each pending retry an instant, each frame its targets.          *)
(***************************************************************************)
THEOREM TypeCorrect == Spec => []TypeOK
BY AlwaysSound, PTL DEF Sound

-----------------------------------------------------------------------------
(***************************************************************************)
(* The log keeps the schedule of the retries.  RetriesKeepSchedule alone   *)
(* is not inductive: it needs that the rows of an event that is not over   *)
(* announced a retry, at or before the instant at which its next attempt   *)
(* is due, or started.                                                     *)
(***************************************************************************)
Announced(a) ==
  /\ a.result = "retry"
  /\ Posting(a.trace) => a.n < chains[a.trace].n /\ a.next <= chains[a.trace].at
  /\ ~Posting(a.trace) => a.n <= chains[a.trace].n /\ a.next <= chains[a.trace].due

LogSound ==
  /\ \A a \in attempts : a.trace < nextTrace
  /\ \A a \in attempts : a.trace \in DOMAIN chains => Announced(a)
  /\ RetriesKeepSchedule

\* Rows and waiting chains may go, and what is left stays as it is.
LEMMA LogShrinks ==
  ASSUME Sound, LogSound, attempts' \subseteq attempts, nextTrace' = nextTrace,
         \A t \in DOMAIN chains' : t \in DOMAIN chains /\ chains'[t] = chains[t]
  PROVE  LogSound'
BY DEF LogSound, Announced, RetriesKeepSchedule, Posting

\* A new chain has no row.
LEMMA DeliverKeepsLog ==
  ASSUME Sound, LogSound, NEW p, NEW hook, NEW url, NEW mail, NEW plugin, NEW todo,
         Deliver(p, hook, url, mail, plugin, todo), UNCHANGED attempts
  PROVE  LogSound'
<1>1. nextTrace \in Nat /\ \A a \in attempts : a.trace \in Nat /\ a.trace < nextTrace
  BY DEF Sound, TypeOK, Row, LogSound
<1>2. /\ nextTrace' = nextTrace + 1
      /\ DOMAIN chains' = DOMAIN chains \union {nextTrace}
      /\ \A t \in DOMAIN chains : t # nextTrace => chains'[t] = chains[t]
  BY DEF Deliver
<1> QED BY <1>1, <1>2 DEF LogSound, Announced, RetriesKeepSchedule, Posting

LEMMA AnsweredKeepsLog ==
  ASSUME Sound, LogSound, NEW p \in Handlers, NEW outcome \in Outcomes, Answered(p, outcome)
  PROVE  LogSound'
<1> DEFINE t == flight[p].trace
           c == chains[t]
           r == Result(c, outcome)
           row == [trace |-> t, server |-> ServerOf(c), n |-> c.n, at |-> c.at,
                   outcome |-> outcome, result |-> r,
                   next |-> IF r = "retry" THEN NextAt(c) ELSE 0]
<1>1. t \in DOMAIN chains /\ t \in Nat /\ t < nextTrace /\ Posting(t)
  BY DEF Sound, TypeOK, IsMap, FramesSound, Answered
<1>2. c \in Chain /\ c.n \in Nat /\ c.at \in Nat /\ c.phase = "posting"
  BY <1>1 DEF Sound, TypeOK, IsMap, Chain, Posting
<1>3. r = "retry" => NextAt(c) \in Nat /\ DueAt(c) \in Nat /\ NextAt(c) <= DueAt(c)
  <2>1. r = "retry" => NextAt(c) \in Nat /\ DueAt(c) \in Nat
    BY <1>2, AnswerTyped DEF Sound
  <2> QED BY <2>1 DEF DueAt, Later, Sound, TypeOK
<1>4. attempts' = attempts \union {row} /\ nextTrace' = nextTrace
  BY DEF Answered
<1>5. /\ row.trace = t /\ row.n = c.n /\ row.at = c.at /\ row.result = r
      /\ r = "retry" => row.next = NextAt(c)
  OBVIOUS
<1>6. /\ \A u \in DOMAIN chains' : u \in DOMAIN chains /\ (u # t => chains'[u] = chains[u])
      /\ t \in DOMAIN chains' =>
           /\ r = "retry"
           /\ chains'[t].phase = "waiting" /\ chains'[t].n = c.n /\ chains'[t].due = DueAt(c)
  <2>1. CASE r = "retry"
    <3>1. chains' = [chains EXCEPT ![t].phase = "waiting", ![t].due = DueAt(c)]
      BY <2>1 DEF Answered
    <3>2. DueAt(c) \in Nat
      BY <1>3, <2>1
    <3>3. /\ DOMAIN chains' \subseteq DOMAIN chains
          /\ \A u \in DOMAIN chains \ {t} : chains'[u] = chains[u]
          /\ t \in DOMAIN chains' =>
               /\ chains'[t].phase = "waiting" /\ chains'[t].due = DueAt(c)
               /\ chains'[t].n = c.n
      <4> HIDE DEF t
      <4> QED BY <1>1, <3>1, <3>2, AnsweredChains DEF Sound
    <3> HIDE DEF t, c, r
    <3> QED BY <2>1, <3>3
  <2>2. CASE r # "retry"
    <3>1. chains' = Restrict(chains, DOMAIN chains \ {t})
      BY <2>2 DEF Answered
    <3> QED BY <3>1 DEF Restrict
  <2> QED BY <2>1, <2>2
<1>7. \A a \in attempts : /\ a.trace < nextTrace /\ a.n \in Nat /\ a.next \in Nat
                          /\ a.trace \in DOMAIN chains => Announced(a)
  BY DEF LogSound, Sound, TypeOK, Row
<1>8. \A a \in attempts : a.trace = t =>
        a.result = "retry" /\ a.n < c.n /\ a.next <= c.at
  BY <1>1, <1>7 DEF Announced
<1> HIDE DEF row, r
<1>9. \A a \in attempts' : a.trace \in DOMAIN chains' => Announced(a)'
  <2> SUFFICES ASSUME NEW a \in attempts', a.trace \in DOMAIN chains' PROVE Announced(a)'
    OBVIOUS
  <2>1. CASE a = row
    BY <1>2, <1>3, <1>5, <1>6, <2>1 DEF Announced, Posting
  <2>2. CASE a \in attempts /\ a.trace # t
    BY <1>6, <1>7, <2>2 DEF Announced, Posting
  <2>3. CASE a \in attempts /\ a.trace = t
    <3>1. c.at <= DueAt(c)
      <4>1. Delays(c) \in Seq(Nat \ {0})
        BY DeliveryAssumption DEF Delays
      <4>2. r = "retry"
        BY <1>6, <2>3
      <4>3. ~(c.n > Len(Delays(c))) /\ c.n # 0
        BY <1>2, <4>2 DEF r, Result, Chain
      <4>4. Delays(c)[c.n] \in Nat
        BY <1>2, <4>1, <4>3
      <4>5. c.at <= NextAt(c)
        BY <1>2, <4>4 DEF NextAt
      <4> QED BY <1>2, <1>3, <4>2, <4>5
    <3>2. a.n < c.n /\ a.next <= c.at /\ a.result = "retry" /\ a.n \in Nat /\ a.next \in Nat
      BY <1>7, <1>8, <2>3
    <3>3. chains'[t].phase = "waiting" /\ chains'[t].n = c.n /\ chains'[t].due = DueAt(c)
          /\ DueAt(c) \in Nat
      BY <1>3, <1>6, <2>3
    <3> HIDE DEF c
    <3> QED BY <1>2, <2>3, <3>1, <3>2, <3>3 DEF Announced, Posting
  <2> QED BY <1>4, <2>1, <2>2, <2>3
<1>10. RetriesKeepSchedule'
  <2>1. RetriesKeepSchedule
    BY DEF LogSound
  <2> HIDE DEF c, t
  <2> QED BY <1>2, <1>4, <1>5, <1>7, <1>8, <2>1 DEF RetriesKeepSchedule
<1> QED BY <1>1, <1>4, <1>5, <1>7, <1>9, <1>10 DEF LogSound

LEMMA RunRetryKeepsLog ==
  ASSUME Sound, LogSound, NEW t \in DOMAIN chains, RunRetry(t)
  PROVE  LogSound'
<1>1. ~Posting(t) /\ chains[t].due <= now /\ UNCHANGED <<attempts, nextTrace>>
  BY DEF RunRetry, Due, Posting
<1>2. CASE chains' = Restrict(chains, DOMAIN chains \ {t})
  BY <1>1, <1>2, LogShrinks DEF Restrict
<1>3. CASE chains' = [chains EXCEPT ![t].phase = "posting", ![t].n = @ + 1, ![t].at = now]
  <2>1. /\ now \in Nat /\ chains[t] \in Chain
        /\ chains[t].n \in Nat /\ chains[t].due \in Nat
    BY DEF Sound, TypeOK, IsMap, Chain
  <2>2. /\ DOMAIN chains' = DOMAIN chains
        /\ \A u \in DOMAIN chains \ {t} : chains'[u] = chains[u]
        /\ chains'[t].phase = "posting" /\ chains'[t].n = chains[t].n + 1
        /\ chains'[t].at = now
    <3>1. chains' = [chains EXCEPT ![t] =
                       [chains[t] EXCEPT !.phase = "posting", !.n = @ + 1, !.at = now]]
      BY <1>3
    <3> QED BY <2>1, <3>1 DEF Chain
  <2>3. \A a \in attempts : a.n \in Nat /\ a.next \in Nat
    BY DEF Sound, TypeOK, Row
  <2>4. \A a \in attempts : a.trace \in DOMAIN chains => Announced(a)'
    <3> SUFFICES ASSUME NEW a \in attempts, a.trace \in DOMAIN chains PROVE Announced(a)'
      OBVIOUS
    <3>1. Announced(a)
      BY DEF LogSound
    <3>2. CASE a.trace = t
      BY <1>1, <2>1, <2>2, <2>3, <3>1, <3>2 DEF Announced, Posting
    <3>3. CASE a.trace # t
      BY <2>2, <3>1, <3>3 DEF Announced, Posting
    <3> QED BY <3>2, <3>3
  <2> QED BY <1>1, <2>2, <2>4 DEF LogSound, RetriesKeepSchedule
<1> QED BY <1>2, <1>3 DEF RunRetry

LEMMA LogInit == Init => LogSound
BY DEF Init, LogSound, RetriesKeepSchedule

LEMMA LogStep == Sound /\ LogSound /\ [Next]_vars => LogSound'
<1> SUFFICES ASSUME Sound, LogSound, [Next]_vars PROVE LogSound'
  OBVIOUS
<1>1. ASSUME UNCHANGED <<chains, attempts, nextTrace>> PROVE LogSound'
  BY <1>1, LogShrinks
<1>2. ASSUME NEW p \in Requests, Client(p) PROVE LogSound'
  BY <1>1, <1>2 DEF Client, Receive, Redeliver
<1>3. ASSUME NEW p \in Handlers, NEW event \in Events, Emit(p, event) PROVE LogSound'
  BY <1>1, <1>3 DEF Emit
<1>4. ASSUME NEW p \in Handlers, Resume(p) PROVE LogSound'
  <2>1. CASE EmitItem(p)
    BY <1>1, <2>1, DeliverKeepsLog DEF EmitItem
  <2>2. CASE InboundItem(p)
    BY <1>1, <2>2, DeliverKeepsLog DEF InboundItem
  <2>3. ASSUME NEW outcome \in Outcomes, Answered(p, outcome) PROVE LogSound'
    BY <2>3, AnsweredKeepsLog
  <2> QED BY <1>4, <2>1, <2>2, <2>3 DEF Resume
<1>5. CASE RunTask
  BY <1>5, RunRetryKeepsLog DEF RunTask
<1>6. CASE Configure
  <2>1. attempts' \subseteq attempts /\ UNCHANGED <<chains, nextTrace>>
    BY <1>6 DEF Configure, Create, Edit, DeleteHook, SetHook, DeleteServer
  <2> QED BY <2>1, LogShrinks
<1>7. CASE Reset
  BY <1>7, LogShrinks DEF Reset, Restrict
<1>8. CASE Tick
  BY <1>1, <1>8 DEF Tick
<1>9. CASE UNCHANGED vars
  BY <1>1, <1>9 DEF vars
<1> QED BY <1>2, <1>3, <1>4, <1>5, <1>6, <1>7, <1>8, <1>9 DEF Next

(***************************************************************************)
(* "One row per POST attempt", each not before the NextAttemptAt of the    *)
(* rows before it, whatever the delays, the answers and how late timers    *)
(* fire, and however many events and inbound messages are retried at once  *)
(* (src/webhooks/deliver.ts).                                              *)
(***************************************************************************)
THEOREM AttemptsKeepSchedule == Spec => []RetriesKeepSchedule
<1>1. Spec => []LogSound
  BY AlwaysSound, LogInit, LogStep, PTL DEF Spec
<1> QED BY <1>1, PTL DEF LogSound

-----------------------------------------------------------------------------
(***************************************************************************)
(* The status of an inbound message follows its delivery, when each mail   *)
(* reaches one server: a handler that is about to post the message then    *)
(* has nothing else to do before, so nobody bypasses or retries it behind  *)
(* the handler's back.  Without the assumption it fails, as the run        *)
(* DeliveryDouble shows.                                                   *)
(***************************************************************************)
OneServerMail == MaxMail = 1

\* The same as StatusFollowsChain, chain by chain.
ChainsAgree ==
  /\ \A t, u \in DOMAIN chains :
       chains[t].mail = chains[u].mail /\ chains[t].mail # NoMail => t = u
  /\ \A t \in DOMAIN chains : chains[t].mail # NoMail =>
       status[chains[t].mail] = IF chains[t].n = 1 /\ Posting(t) THEN "Queued" ELSE "Scheduled"

LEMMA AgreeIsFollows ==
  ASSUME TypeOK
  PROVE  ChainsAgree <=> StatusFollowsChain
<1>1. NoMail \notin Mails /\ \A t \in DOMAIN chains : chains[t].mail \in Mails \union {NoMail}
  BY DeliveryAssumption DEF TypeOK, IsMap, Chain
<1> QED BY <1>1 DEF ChainsAgree, StatusFollowsChain, Live

IsInbound(p) == flight[p].op \in {"receive", "call"}

StatusSound ==
  /\ ChainsAgree
  /\ \A p \in DOMAIN flight : IsInbound(p) /\ flight[p].at = "post" => flight[p].todo = <<>>
  /\ \A p \in DOMAIN flight : IsInbound(p) /\ flight[p].at = "item" =>
       /\ Tail(flight[p].todo) = <<>>
       /\ \A t \in DOMAIN chains : chains[t].mail # Head(flight[p].todo)
       /\ \/ status[Head(flight[p].todo)] = "Queued"
          \/ status[Head(flight[p].todo)] = "Blocked" /\ flight[p].op = "receive"

\* The part of it that is about frames, for a step of handler p.
LEMMA OthersHold ==
  ASSUME StatusSound, NEW p, Turn(p),
         \A q \in DOMAIN flight : q \in Handlers,
         \A q \in DOMAIN flight' : q # p => q \in DOMAIN flight /\ flight'[q] = flight[q]
  PROVE  \A q \in DOMAIN flight' : q # p /\ IsInbound(q)' =>
           flight'[q].at # "item" /\ (flight'[q].at = "post" => flight'[q].todo = <<>>)
BY DEF StatusSound, IsInbound, Turn, Holds

\* A handler of events, or one without more to do, goes on.
LEMMA ContinueOthers ==
  ASSUME Sound, StatusSound, NEW p \in DOMAIN flight, Turn(p), NEW todo, Continue(p, todo),
         ~IsInbound(p) \/ todo = <<>>, ChainsAgree'
  PROVE  StatusSound'
<1>1. \A q \in DOMAIN flight : q \in Handlers
  BY DEF Sound, TypeOK, IsMap
<1>2. CASE todo = <<>>
  <2>1. DOMAIN flight' = DOMAIN flight \ {p} /\ \A q \in DOMAIN flight' : flight'[q] = flight[q]
    BY <1>2 DEF Continue, End, Restrict
  <2>2. \A q \in DOMAIN flight' : q # p /\ IsInbound(q)' =>
           flight'[q].at # "item" /\ (flight'[q].at = "post" => flight'[q].todo = <<>>)
    BY <1>1, <2>1, OthersHold
  <2> QED BY <2>1, <2>2 DEF StatusSound
<1>3. CASE todo # <<>>
  <2>1. /\ DOMAIN flight' = DOMAIN flight
        /\ \A q \in DOMAIN flight' : q # p => flight'[q] = flight[q]
        /\ flight'[p].op = flight[p].op
    <3> DEFINE f == [op |-> flight[p].op, at |-> "item", trace |-> 0, todo |-> todo]
    <3>1. Start(p, f) /\ f.op = flight[p].op
      BY <1>3 DEF Continue
    <3> HIDE DEF f
    <3> QED BY <3>1 DEF Start
  <2>2. \A q \in DOMAIN flight' : q # p /\ IsInbound(q)' =>
           flight'[q].at # "item" /\ (flight'[q].at = "post" => flight'[q].todo = <<>>)
    BY <1>1, <2>1, OthersHold
  <2>3. ~IsInbound(p)'
    BY <1>3, <2>1 DEF IsInbound
  <2> QED BY <2>1, <2>2, <2>3 DEF StatusSound
<1> QED BY <1>2, <1>3

\* The chains may only lose members: what is left agrees.
LEMMA FewerAgree ==
  ASSUME ChainsAgree,
         \A t \in DOMAIN chains' : t \in DOMAIN chains /\ chains'[t] = chains[t],
         \A t \in DOMAIN chains' : chains[t].mail # NoMail =>
           status'[chains[t].mail] = status[chains[t].mail]
  PROVE  ChainsAgree'
BY DEF ChainsAgree, Posting

LEMMA AnsweredStatus ==
  ASSUME Sound, StatusSound, NEW p \in Handlers, NEW outcome \in Outcomes, Answered(p, outcome)
  PROVE  /\ StatusSound'
         /\ \/ UNCHANGED status
            \/ \E m \in Mails :
                 /\ status[m] \in {"Queued", "Scheduled"}
                 /\ \E to \in {"Processed", "Scheduled", "Failed"} :
                      status' = [status EXCEPT ![m] = to]
<1> DEFINE t == flight[p].trace
           c == chains[t]
           r == Result(c, outcome)
           m == c.mail
<1>1. p \in DOMAIN flight /\ flight[p].at = "post" /\ t \in DOMAIN chains /\ Posting(t)
  BY DEF Sound, TypeOK, IsMap, FramesSound, Answered
<1>2. c \in Chain /\ m \in Mails \union {NoMail} /\ NoMail \notin Mails
  BY <1>1, DeliveryAssumption DEF Sound, TypeOK, IsMap, Chain
<1>3. r = "retry" => DueAt(c) \in Nat
  BY <1>2, AnswerTyped DEF Sound
<1>4. status' = IF m = NoMail THEN status ELSE [status EXCEPT ![m] = StatusAfter(r)]
  BY DEF Answered
<1>5. /\ StatusAfter(r) \in {"Processed", "Scheduled", "Failed"}
      /\ r = "retry" => StatusAfter(r) = "Scheduled"
  BY DEF StatusAfter
<1>6. /\ \A u \in DOMAIN chains' : u \in DOMAIN chains /\ (u # t => chains'[u] = chains[u])
      /\ t \in DOMAIN chains' =>
           r = "retry" /\ chains'[t].phase = "waiting" /\ chains'[t].mail = m
  <2>1. CASE r = "retry"
    <3>1. chains' = [chains EXCEPT ![t].phase = "waiting", ![t].due = DueAt(c)]
      BY <2>1 DEF Answered
    <3>2. DueAt(c) \in Nat
      BY <1>3, <2>1
    <3>3. /\ DOMAIN chains' \subseteq DOMAIN chains
          /\ \A u \in DOMAIN chains \ {t} : chains'[u] = chains[u]
          /\ t \in DOMAIN chains' => chains'[t].phase = "waiting" /\ chains'[t].mail = m
      <4> HIDE DEF t
      <4> QED BY <1>1, <3>1, <3>2, AnsweredChains DEF Sound
    <3> HIDE DEF t, c, r, m
    <3> QED BY <2>1, <3>3
  <2>2. CASE r # "retry"
    <3>1. chains' = Restrict(chains, DOMAIN chains \ {t})
      BY <2>2 DEF Answered
    <3> QED BY <3>1 DEF Restrict
  <2> QED BY <2>1, <2>2
<1>7. status \in [Mails -> Statuses] /\ ChainsAgree
  BY DEF Sound, TypeOK, StatusSound
<1>8. \A u \in DOMAIN chains : u # t /\ chains[u].mail # NoMail =>
        chains[u].mail # m /\ chains[u].mail \in Mails
  BY <1>1, <1>7 DEF ChainsAgree, Sound, TypeOK, IsMap, Chain
<1>9. ChainsAgree'
  <2>1. \A u \in DOMAIN chains' : chains'[u].mail # NoMail =>
          status'[chains'[u].mail] =
            IF chains'[u].n = 1 /\ Posting(u)' THEN "Queued" ELSE "Scheduled"
    <3> SUFFICES ASSUME NEW u \in DOMAIN chains', chains'[u].mail # NoMail
                 PROVE  status'[chains'[u].mail] =
                          IF chains'[u].n = 1 /\ Posting(u)' THEN "Queued" ELSE "Scheduled"
      OBVIOUS
    <3> HIDE DEF t, c, r, m
    <3>1. CASE u = t
      BY <1>2, <1>4, <1>5, <1>6, <1>7, <3>1 DEF Posting
    <3>2. CASE u # t
      <4>1. chains'[u] = chains[u] /\ u \in DOMAIN chains
        BY <1>6, <3>2
      <4>2. status'[chains[u].mail] = status[chains[u].mail]
        BY <1>2, <1>4, <1>7, <1>8, <3>2, <4>1
      <4> QED BY <1>7, <4>1, <4>2 DEF ChainsAgree, Posting
    <3> QED BY <3>1, <3>2
  <2>2. \A u \in DOMAIN chains' : chains'[u].mail = chains[u].mail
    BY <1>6
  <2> QED BY <1>6, <1>7, <2>1, <2>2 DEF ChainsAgree
<1>10. StatusSound'
  BY <1>1, <1>9, ContinueOthers DEF Answered, StatusSound, Turn
<1>11. status[m] \in {"Queued", "Scheduled"} \/ m = NoMail
  BY <1>1, <1>7 DEF ChainsAgree
<1>12. \/ UNCHANGED status
       \/ m \in Mails /\ status' = [status EXCEPT ![m] = StatusAfter(r)]
  BY <1>2, <1>4
<1> HIDE DEF m, r
<1> QED BY <1>2, <1>5, <1>10, <1>11, <1>12

LEMMA RunRetryStatus ==
  ASSUME Sound, StatusSound, NEW t \in DOMAIN chains, RunRetry(t)
  PROVE  StatusSound' /\ UNCHANGED status
<1>1. /\ Free /\ Runner \notin DOMAIN flight /\ ~Posting(t) /\ UNCHANGED status
      /\ \A q \in DOMAIN flight : q \in Handlers
  BY DEF RunRetry, Posting, Sound, TypeOK, IsMap
<1>2. \A q \in DOMAIN flight : flight[q].at # "item"
  BY <1>1 DEF Free, Holds
<1>3. CASE chains' = Restrict(chains, DOMAIN chains \ {t}) /\ UNCHANGED flight
  <2>1. ChainsAgree'
    BY <1>1, <1>3, FewerAgree DEF StatusSound, Restrict
  <2> QED BY <1>1, <1>2, <1>3, <2>1 DEF StatusSound, IsInbound
<1>4. CASE /\ chains' = [chains EXCEPT ![t].phase = "posting", ![t].n = @ + 1, ![t].at = now]
           /\ Start(Runner, [op |-> "task", at |-> "post", trace |-> t, todo |-> <<>>])
  <2>1. chains[t] \in Chain /\ chains[t].n \in Nat \ {0}
    BY DEF Sound, TypeOK, IsMap, Chain
  <2>2. /\ DOMAIN chains' = DOMAIN chains
        /\ \A u \in DOMAIN chains \ {t} : chains'[u] = chains[u]
        /\ chains'[t].n = chains[t].n + 1 /\ chains'[t].mail = chains[t].mail
    <3>1. chains' = [chains EXCEPT ![t] =
                       [chains[t] EXCEPT !.phase = "posting", !.n = @ + 1, !.at = now]]
      BY <1>4
    <3> QED BY <2>1, <3>1 DEF Chain
  <2>3. ChainsAgree
    BY DEF StatusSound
  <2>4. ChainsAgree'
    <3>1. \A u \in DOMAIN chains' : chains'[u].mail = chains[u].mail
      BY <2>2
    <3>2. \A u \in DOMAIN chains' : chains'[u].mail # NoMail =>
            status[chains[u].mail] =
              IF chains'[u].n = 1 /\ Posting(u)' THEN "Queued" ELSE "Scheduled"
      <4> SUFFICES ASSUME NEW u \in DOMAIN chains', chains'[u].mail # NoMail
                   PROVE  status[chains[u].mail] =
                            IF chains'[u].n = 1 /\ Posting(u)' THEN "Queued" ELSE "Scheduled"
        OBVIOUS
      <4>1. CASE u = t
        BY <1>1, <2>1, <2>2, <2>3, <3>1, <4>1 DEF ChainsAgree
      <4>2. CASE u # t
        BY <2>2, <2>3, <4>2 DEF ChainsAgree, Posting
      <4> QED BY <4>1, <4>2
    <3> QED BY <1>1, <2>2, <2>3, <3>1, <3>2 DEF ChainsAgree
  <2>5. /\ DOMAIN flight' = DOMAIN flight \union {Runner}
        /\ \A q \in DOMAIN flight : flight'[q] = flight[q]
        /\ flight'[Runner].op = "task"
    BY <1>1, <1>4 DEF Start
  <2> QED BY <1>1, <1>2, <2>4, <2>5 DEF StatusSound, IsInbound
<1> QED BY <1>1, <1>3, <1>4 DEF RunRetry

\* The first attempt of an event, or of a message that is in no delivery.
LEMMA DeliverStatus ==
  ASSUME Sound, StatusSound, NEW p \in DOMAIN flight, Turn(p), NEW hook, NEW url,
         NEW mail \in Mails \union {NoMail}, NEW plugin, NEW todo,
         Deliver(p, hook, url, mail, plugin, todo), UNCHANGED status,
         mail # NoMail => /\ status[mail] = "Queued"
                          /\ \A t \in DOMAIN chains : chains[t].mail # mail,
         ~IsInbound(p) \/ todo = <<>>
  PROVE  StatusSound'
<1> DEFINE f == [op |-> flight[p].op, at |-> "post", trace |-> nextTrace, todo |-> todo]
           c == [hook |-> hook, url |-> url, mail |-> mail, plugin |-> plugin,
                 n |-> 1, at |-> now, phase |-> "posting", due |-> 0]
<1>1. \A t \in DOMAIN chains : t # nextTrace
  BY DEF Sound, TypeOK, IsMap, FramesSound
<1>2. c.mail = mail /\ c.n = 1 /\ c.phase = "posting"
  OBVIOUS
<1>3. f.op = flight[p].op /\ f.at = "post" /\ f.todo = todo
  OBVIOUS
<1>4. /\ chains' = [t \in DOMAIN chains \union {nextTrace} |->
                      IF t = nextTrace THEN c ELSE chains[t]]
      /\ Start(p, f)
  BY DEF Deliver
<1> HIDE DEF c, f
<1>5. ChainsAgree'
  <2>1. /\ DOMAIN chains' = DOMAIN chains \union {nextTrace}
        /\ \A t \in DOMAIN chains : chains'[t] = chains[t]
        /\ chains'[nextTrace] = c
    BY <1>1, <1>4
  <2> QED BY <1>1, <1>2, <2>1 DEF StatusSound, ChainsAgree, Posting
<1>6. /\ DOMAIN flight' = DOMAIN flight
      /\ \A q \in DOMAIN flight' : q # p => flight'[q] = flight[q]
      /\ flight'[p] = f
  BY <1>4 DEF Start
<1>7. \A q \in DOMAIN flight' : q # p /\ IsInbound(q)' =>
        flight'[q].at # "item" /\ (flight'[q].at = "post" => flight'[q].todo = <<>>)
  <2>1. \A q \in DOMAIN flight : q \in Handlers
    BY DEF Sound, TypeOK, IsMap
  <2> QED BY <1>6, <2>1, OthersHold
<1> QED BY <1>3, <1>5, <1>6, <1>7 DEF StatusSound, IsInbound

\* A new handler comes to the head of its loop, when nobody holds the thread.
LEMMA StartStatus ==
  ASSUME Sound, StatusSound, NEW p, NEW f, f.at = "item", Free, Start(p, f), ChainsAgree',
         f.op = "emit" \/ /\ Tail(f.todo) = <<>>
                          /\ \A t \in DOMAIN chains' : chains'[t].mail # Head(f.todo)
                          /\ \/ status'[Head(f.todo)] = "Queued"
                             \/ status'[Head(f.todo)] = "Blocked" /\ f.op = "receive"
  PROVE  StatusSound'
<1>1. \A q \in DOMAIN flight : q \in Handlers /\ flight[q].at # "item"
  BY DEF Free, Holds, Sound, TypeOK, IsMap
<1>2. /\ DOMAIN flight' = DOMAIN flight \union {p} /\ flight'[p] = f
      /\ \A q \in DOMAIN flight : q # p => flight'[q] = flight[q]
  BY DEF Start
<1> QED BY <1>1, <1>2 DEF StatusSound, IsInbound

LEMMA ReceiveStatus ==
  ASSUME OneServerMail, Sound, StatusSound, NEW p \in Handlers, NEW mails \in MailLists,
         NEW blocked, Receive(p, mails, blocked)
  PROVE  /\ StatusSound'
         /\ \E m \in Mails : /\ status[m] = "None"
                             /\ \E to \in {"Queued", "Blocked"} :
                                  status' = [status EXCEPT ![m] = to]
<1> DEFINE m == mails[1]
           f == [op |-> "receive", at |-> "item", trace |-> 0, todo |-> mails]
<1>1. m \in Mails /\ Range(mails) = {m} /\ Head(mails) = m /\ Tail(mails) = <<>>
  <2>1. PICK k \in 1..MaxMail : mails \in [1..k -> Mails]
    BY DEF MailLists
  <2>2. k = 1 /\ DOMAIN mails = {1}
    BY <2>1 DEF OneServerMail
  <2>3. mails \in Seq(Mails) /\ k \in Nat
    BY <2>1, DeliveryAssumption
  <2>4. Len(mails) = 1
    BY <2>1, <2>2, <2>3
  <2>5. Range(mails) = {m} /\ m \in Mails
    BY <2>1, <2>2 DEF Range
  <2>6. Head(mails) = m
    BY <2>3, <2>4
  <2>7. Tail(mails) \in Seq(Mails) /\ Len(Tail(mails)) = 0
    <3>1. mails # <<>>
      BY <2>4
    <3> QED BY <2>3, <2>4, <3>1, HeadTailProperties
  <2>8. Tail(mails) = <<>>
    BY <2>7, EmptySeq
  <2> QED BY <2>5, <2>6, <2>8
<1>2. status[m] = "None" /\ NoMail \notin Mails /\ status \in [Mails -> Statuses]
  BY <1>1, DeliveryAssumption DEF Receive, Sound, TypeOK
<1>3. PICK to \in {"Queued", "Blocked"} : status' = [status EXCEPT ![m] = to]
  <2> DEFINE to == IF m \in blocked THEN "Blocked" ELSE "Queued"
  <2>1. status' = [x \in Mails |-> IF x \notin {m} THEN status[x] ELSE
                                   IF x \in blocked THEN "Blocked" ELSE "Queued"]
    BY <1>1 DEF Receive
  <2>2. status' = [status EXCEPT ![m] = to]
    BY <1>1, <1>2, <2>1
  <2> QED BY <2>2
<1>4. \A t \in DOMAIN chains : chains[t].mail # m
  <2>1. m # NoMail
    BY <1>1, <1>2
  <2> QED BY <1>2, <2>1 DEF StatusSound, ChainsAgree
<1>5. chains' = chains /\ Start(p, f) /\ Free
  BY DEF Receive
<1>6. ChainsAgree'
  <2>1. \A t \in DOMAIN chains : chains[t].mail # NoMail =>
          status'[chains[t].mail] = status[chains[t].mail]
    <3>1. \A t \in DOMAIN chains : chains[t].mail \in Mails \union {NoMail}
      BY DEF Sound, TypeOK, IsMap, Chain
    <3> HIDE DEF m
    <3> QED BY <1>2, <1>3, <1>4, <3>1
  <2> QED BY <1>5, <2>1, FewerAgree DEF StatusSound
<1>7. /\ f.at = "item" /\ f.op = "receive" /\ Tail(f.todo) = <<>> /\ Head(f.todo) = m
      /\ status'[m] \in {"Queued", "Blocked"}
  BY <1>1, <1>2, <1>3
<1>8. StatusSound'
  <2> HIDE DEF f, m
  <2> QED BY <1>4, <1>5, <1>6, <1>7, StartStatus
<1> QED BY <1>1, <1>2, <1>3, <1>8

LEMMA RedeliverStatus ==
  ASSUME Sound, StatusSound, NEW p \in Handlers, NEW action, NEW m \in Mails,
         Redeliver(p, action, m)
  PROVE  /\ StatusSound'
         /\ status[m] \in {"Blocked", "Failed"}
         /\ status' = [status EXCEPT ![m] = "Queued"]
<1> DEFINE f == [op |-> "call", at |-> "item", trace |-> 0, todo |-> <<m>>]
<1>1. /\ status[m] \in {"Blocked", "Failed"} /\ status' = [status EXCEPT ![m] = "Queued"]
      /\ chains' = chains /\ Start(p, f) /\ Free
  BY DEF Redeliver, From
<1>2. NoMail \notin Mails /\ status \in [Mails -> Statuses]
  BY DeliveryAssumption DEF Sound, TypeOK
<1>3. \A t \in DOMAIN chains : chains[t].mail # m
  BY <1>1, <1>2 DEF StatusSound, ChainsAgree
<1>4. ChainsAgree'
  <2>1. \A t \in DOMAIN chains : chains[t].mail # NoMail =>
          status'[chains[t].mail] = status[chains[t].mail]
    <3>1. \A t \in DOMAIN chains : chains[t].mail \in Mails \union {NoMail}
      BY DEF Sound, TypeOK, IsMap, Chain
    <3> QED BY <1>1, <1>2, <1>3, <3>1
  <2> QED BY <1>1, <2>1, FewerAgree DEF StatusSound
<1>5. /\ f.at = "item" /\ f.op = "call" /\ Tail(f.todo) = <<>> /\ Head(f.todo) = m
      /\ status'[m] = "Queued"
  BY <1>1, <1>2
<1>6. StatusSound'
  <2> HIDE DEF f
  <2> QED BY <1>1, <1>3, <1>4, <1>5, StartStatus
<1> QED BY <1>1, <1>6

LEMMA EmitItemStatus ==
  ASSUME Sound, StatusSound, NEW p \in Handlers, EmitItem(p)
  PROVE  StatusSound' /\ UNCHANGED status
<1> DEFINE target == Head(flight[p].todo)
           rest == Tail(flight[p].todo)
<1>1. p \in DOMAIN flight /\ Turn(p) /\ ~IsInbound(p) /\ UNCHANGED status
  BY DEF EmitItem, AtItem, IsInbound
<1>2. CASE Deliver(p, target.hook, target.url, NoMail, TRUE, rest)
  <2>1. NoMail \in Mails \union {NoMail}
    OBVIOUS
  <2> HIDE DEF target, rest
  <2> QED BY <1>1, <1>2, <2>1, DeliverStatus
<1>3. CASE Continue(p, rest) /\ UNCHANGED <<chains, nextTrace>>
  <2>1. ChainsAgree'
    BY <1>1, <1>3, FewerAgree DEF StatusSound
  <2> QED BY <1>1, <1>3, <2>1, ContinueOthers
<1> QED BY <1>1, <1>2, <1>3 DEF EmitItem

LEMMA InboundItemStatus ==
  ASSUME Sound, StatusSound, NEW p \in Handlers, InboundItem(p)
  PROVE  /\ StatusSound'
         /\ \/ UNCHANGED status
            \/ \E m \in Mails : /\ status[m] = "Queued"
                                /\ status' = [status EXCEPT ![m] = "Processed"]
<1> DEFINE m == Head(flight[p].todo)
           rest == Tail(flight[p].todo)
           url == config[Owner[m]]
           plugin == flight[p].op = "receive"
<1>1. p \in DOMAIN flight /\ Turn(p) /\ IsInbound(p) /\ flight[p].at = "item"
  BY DEF InboundItem, AtItem, IsInbound
<1>2. /\ rest = <<>> /\ \A t \in DOMAIN chains : chains[t].mail # m
      /\ status[m] = "Queued" \/ (status[m] = "Blocked" /\ flight[p].op = "receive")
  BY <1>1 DEF StatusSound
<1>3. m \in Mails
  <2>1. flight[p].todo # <<>> /\ flight[p] \in Frame
    BY <1>1 DEF Sound, TypeOK, IsMap, FramesSound
  <2>2. flight[p].todo \in Seq(Mails)
    BY <1>1, <2>1 DEF Frame, IsInbound
  <2> QED BY <2>1, <2>2
<1>4. NoMail \notin Mails /\ status \in [Mails -> Statuses]
  BY DeliveryAssumption DEF Sound, TypeOK
<1>5. CASE Posts(flight[p].op, m) /\ Deliver(p, Owner[m], url, m, plugin, rest) /\ UNCHANGED status
  <2>1. status[m] = "Queued"
    BY <1>2, <1>5 DEF Posts
  <2> HIDE DEF m, rest, url, plugin
  <2> QED BY <1>1, <1>2, <1>3, <1>5, <2>1, DeliverStatus
<1>6. CASE /\ Posts(flight[p].op, m) /\ status' = [status EXCEPT ![m] = WithoutHook(m)]
           /\ Continue(p, rest) /\ UNCHANGED <<chains, nextTrace>>
  <2>1. status[m] = "Queued" /\ status' = [status EXCEPT ![m] = "Processed"]
    BY <1>2, <1>6 DEF Posts, WithoutHook
  <2>2. \A t \in DOMAIN chains : status'[chains[t].mail] = status[chains[t].mail]
                                 \/ chains[t].mail = NoMail
    <3>1. \A t \in DOMAIN chains : chains[t].mail \in Mails \union {NoMail}
      BY DEF Sound, TypeOK, IsMap, Chain
    <3> HIDE DEF m
    <3> QED BY <1>2, <1>4, <2>1, <3>1
  <2>3. ChainsAgree'
    BY <1>6, <2>2, FewerAgree DEF StatusSound
  <2>4. StatusSound'
    BY <1>1, <1>2, <1>6, <2>3, ContinueOthers
  <2> QED BY <1>3, <2>1, <2>4
<1>7. CASE Continue(p, rest) /\ UNCHANGED <<status, chains, nextTrace>>
  <2>1. ChainsAgree'
    BY <1>7, FewerAgree DEF StatusSound
  <2> QED BY <1>1, <1>2, <1>7, <2>1, ContinueOthers
<1> QED BY <1>5, <1>6, <1>7 DEF InboundItem

(***************************************************************************)
(* A step keeps StatusSound, and moves the status of at most one message,  *)
(* as the abstract machine does.                                           *)
(***************************************************************************)
LEMMA SameStatus ==
  ASSUME StatusSound, UNCHANGED <<status, flight>>,
         \A t \in DOMAIN chains' : t \in DOMAIN chains /\ chains'[t] = chains[t]
  PROVE  StatusSound'
<1>1. ChainsAgree'
  BY FewerAgree DEF StatusSound
<1> QED BY <1>1 DEF StatusSound, IsInbound

LEMMA InboundMove ==
  ASSUME NEW m \in Mails, NEW from, NEW to, status[m] = from,
         status' = [status EXCEPT ![m] = to],
         from # "None", to \in Inbound!Moves(from)
  PROVE  Inbound!Next
BY DEF Inbound!Next, Inbound!Move

LEMMA InboundArrival ==
  ASSUME TypeOK, NEW m \in Mails, status[m] = "None", NEW to \in {"Queued", "Blocked"},
         status' = [status EXCEPT ![m] = to]
  PROVE  Inbound!Next
<1>1. Inbound!Arrive({m})
  <2> DEFINE came == [x \in {m} |-> to]
  <2>1. came \in [{m} -> Inbound!Moves("None")]
    BY DEF Inbound!Moves
  <2>2. status' = [x \in Mails |-> IF x \in {m} THEN came[x] ELSE status[x]]
    BY DEF TypeOK
  <2> HIDE DEF came
  <2> QED BY <2>1, <2>2 DEF Inbound!Arrive
<1> QED BY <1>1 DEF Inbound!Next

LEMMA StatusInit == Init => StatusSound /\ Inbound!Init
BY DEF Init, StatusSound, ChainsAgree, EmptyMap, Inbound!Init

LEMMA StatusStep ==
  ASSUME OneServerMail
  PROVE  Sound /\ StatusSound /\ [Next]_vars => StatusSound' /\ [Inbound!Next]_status
<1> SUFFICES ASSUME Sound, StatusSound, [Next]_vars
             PROVE  StatusSound' /\ [Inbound!Next]_status
  OBVIOUS
<1>1. ASSUME NEW p \in Requests, Client(p) PROVE StatusSound' /\ Inbound!Next
  <2>1. p \in Handlers
    BY DEF Handlers
  <2>2. ASSUME NEW mails \in MailLists, NEW blocked, Receive(p, mails, blocked)
        PROVE  StatusSound' /\ Inbound!Next
    BY <2>1, <2>2, ReceiveStatus, InboundArrival DEF Sound
  <2>3. ASSUME NEW action, NEW m \in Mails, Redeliver(p, action, m)
        PROVE  StatusSound' /\ Inbound!Next
    <3>1. /\ StatusSound' /\ status[m] \in {"Blocked", "Failed"}
          /\ status' = [status EXCEPT ![m] = "Queued"]
      BY <2>1, <2>3, RedeliverStatus
    <3>2. /\ "Queued" \in Inbound!Moves("Blocked")
          /\ "Queued" \in Inbound!Moves("Failed")
      BY DEF Inbound!Moves
    <3> QED BY <3>1, <3>2, InboundMove
  <2> QED BY <1>1, <2>2, <2>3 DEF Client
<1>2. ASSUME NEW p \in Handlers, NEW event \in Events, Emit(p, event)
      PROVE  StatusSound' /\ UNCHANGED status
  <2> DEFINE hooks == HooksFor[event]
             f == [op |-> "emit", at |-> "item", trace |-> 0,
                   todo |-> [i \in DOMAIN hooks |->
                               [hook |-> hooks[i], url |-> config[hooks[i]]]]]
  <2>1. Start(p, f) /\ Free /\ UNCHANGED <<status, chains>> /\ f.op = "emit" /\ f.at = "item"
    BY <1>2 DEF Emit
  <2>2. ChainsAgree'
    BY <2>1, FewerAgree DEF StatusSound
  <2> HIDE DEF f
  <2> QED BY <2>1, <2>2, StartStatus
<1>3. ASSUME NEW p \in Handlers, Resume(p) PROVE StatusSound' /\ [Inbound!Next]_status
  <2>1. CASE EmitItem(p)
    BY <2>1, EmitItemStatus
  <2>2. CASE InboundItem(p)
    <3>1. "Processed" \in Inbound!Moves("Queued")
      BY DEF Inbound!Moves
    <3> QED BY <2>2, <3>1, InboundItemStatus, InboundMove
  <2>3. ASSUME NEW outcome \in Outcomes, Answered(p, outcome)
        PROVE  StatusSound' /\ [Inbound!Next]_status
    <3>1. \A to \in {"Processed", "Scheduled", "Failed"} :
            to \in Inbound!Moves("Queued") /\ to \in Inbound!Moves("Scheduled")
      BY DEF Inbound!Moves
    <3> QED BY <2>3, <3>1, AnsweredStatus, InboundMove
  <2> QED BY <1>3, <2>1, <2>2, <2>3 DEF Resume
<1>4. CASE RunTask
  BY <1>4, RunRetryStatus DEF RunTask
<1>5. CASE Configure
  <2>1. UNCHANGED <<status, chains, flight>>
    BY <1>5 DEF Configure, Create, Edit, DeleteHook, SetHook, DeleteServer
  <2> QED BY <2>1, SameStatus
<1>6. CASE Reset
  BY <1>6, SameStatus DEF Reset, Restrict
<1>7. CASE Tick
  BY <1>7, SameStatus DEF Tick
<1>8. CASE UNCHANGED vars
  BY <1>8, SameStatus DEF vars
<1> QED BY <1>1, <1>2, <1>3, <1>4, <1>5, <1>6, <1>7, <1>8 DEF Next

(***************************************************************************)
(* "Processed on success, Scheduled while a retry waits, Failed after a    *)
(* 403 or the last retry" (src/inbound/deliver.ts): when each mail reaches *)
(* one server, a message is delivered by one chain at a time, Queued in    *)
(* its first attempt and Scheduled after it.                               *)
(***************************************************************************)
THEOREM StatusFollows ==
  ASSUME OneServerMail
  PROVE  Spec => []StatusFollowsChain
<1>1. Spec => [](Sound /\ StatusSound)
  BY AlwaysSound, StatusInit, StatusStep, PTL DEF Spec
<1>2. Sound /\ StatusSound => StatusFollowsChain
  BY AgreeIsFollows DEF Sound, StatusSound
<1> QED BY <1>1, <1>2, PTL

(***************************************************************************)
(* Under the same assumption the statuses of inbound messages implement    *)
(* the abstract machine: no delivery, bypass, retry, reset or edit moves a *)
(* message as the API of inbound messages does not promise.                *)
(***************************************************************************)
THEOREM StatusesImplement ==
  ASSUME OneServerMail
  PROVE  Spec => InboundSpec
<1>1. Spec => [](Sound /\ StatusSound)
  BY AlwaysSound, StatusInit, StatusStep, PTL DEF Spec
<1>2. Init => Inbound!Init
  BY StatusInit
<1>3. Sound /\ StatusSound /\ [Next]_vars => [Inbound!Next]_status
  BY StatusStep
<1> QED BY <1>1, <1>2, <1>3, PTL DEF Spec, InboundSpec, Inbound!Spec
=============================================================================
