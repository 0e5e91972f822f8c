----------------------------- MODULE IntakeProofs -----------------------------
(***************************************************************************)
(* Proofs about Intake, for every choice of its constants: its types, that *)
(* each rule is used as often as it was set, and that what a client was    *)
(* told is what the state holds.                                           *)
(***************************************************************************)
EXTENDS Intake, SequenceTheorems, FiniteSetTheorems, TLAPS

-----------------------------------------------------------------------------
(***************************************************************************)
(* The pipeline and the answers of a request.                              *)
(***************************************************************************)

\* The account is typed after a seed and after a reset.
LEMMA WorldsTyped ==
  FreshWorld \in World /\ EmptyWorld \in World
BY DEF FreshWorld, EmptyWorld, World, StreamStates, SenderStates, Approvals

\* It stays typed when it is changed.
LEMMA ChangedTyped ==
  ASSUME NEW w \in World
  PROVE  Changed(w) \subseteq World
BY DEF Changed, SuppressionChanged, StreamChanged, ApprovalChanged, SenderConfirmed,
       SenderReplaced, World, StreamStates, SenderStates, Approvals

\* The checks of a draft answer with a code.
LEMMA AnswersTyped ==
  ASSUME NEW w \in World, NEW d \in Draft
  PROVE  /\ DataAnswer(w, d) \in Nat /\ Validate(w, d) \in Nat
         /\ StoreAnswer(w, d) \in Nat /\ Submit(w, d) \in Nat
<1>1. /\ d.bad \in BadContents \union {"nothing"}
      /\ w.stream \in StreamStates /\ w.sender \in SenderStates /\ w.approval \in Approvals
  BY DEF World, Draft
<1>2. DataAnswer(w, d) \in Nat
  BY <1>1 DEF DataAnswer, Early, Malformed, BadContents, StreamStates, Uncaptured, Ok
<1>3. SenderAnswer(w) \in Nat
  BY <1>1 DEF SenderAnswer, SenderStates, Uncaptured, Ok
<1>4. Validate(w, d) \in Nat
  BY <1>2, <1>3 DEF Validate, Uncaptured, Ok
<1>5. StoreAnswer(w, d) \in Nat
  BY DEF StoreAnswer, Ok
<1> QED BY <1>2, <1>4, <1>5 DEF Submit, Ok

\* What a request is made of.
LEMMA RequestTyped ==
  ASSUME NEW request \in Requests
  PROVE  /\ request.drafts \in Seq(Draft) /\ request.batch \in BOOLEAN /\ request.test \in BOOLEAN
         /\ Len(request.drafts) \in Nat /\ DOMAIN request.drafts = 1..Len(request.drafts)
         /\ \A i \in DOMAIN request.drafts : request.drafts[i] \in Draft
<1>1. request.drafts \in Seq(Draft) /\ request.batch \in BOOLEAN /\ request.test \in BOOLEAN
  BY IntakeAssumption
<1> QED BY <1>1, LenProperties, ElementOfSeq

\* The answer to one draft.
LEMMA AnswerTyped ==
  ASSUME NEW s \in Store, NEW request \in Requests, NEW d \in Draft
  PROVE  Validated(s, request, d) \in Nat /\ ResultOf(s, request, d) \in Nat
<1>1. s.world \in World
  BY DEF Store
<1>2. Validated(s, request, d) \in Nat
  BY <1>1, AnswersTyped, WorldsTyped DEF Validated
<1>3. ResultOf(s, request, d) \in Nat
  BY <1>1, AnswersTyped DEF ResultOf, Ok
<1> QED BY <1>2, <1>3

\* The rank of an element of a finite set of naturals.
LEMMA RankTyped ==
  ASSUME NEW S \in SUBSET Nat, IsFiniteSet(S), NEW u \in S
  PROVE  Rank(S, u) \in 1..Cardinality(S)
<1> DEFINE upTo == {v \in S : v <= u}
<1>1. upTo \in SUBSET S /\ upTo # {}
  OBVIOUS
<1> HIDE DEF upTo
<1>2. IsFiniteSet(upTo) /\ Cardinality(upTo) <= Cardinality(S)
  BY <1>1, FS_Subset
<1>3. Cardinality(upTo) \in Nat /\ Cardinality(S) \in Nat /\ Cardinality(upTo) # 0
  BY <1>1, <1>2, FS_CardinalityType, FS_EmptySet
<1> QED BY <1>2, <1>3 DEF Rank, upTo

\* A later element has a higher rank, so that each has its own.
LEMMA RankGrows ==
  ASSUME NEW S \in SUBSET Nat, IsFiniteSet(S), NEW u \in S, NEW v \in S, u < v
  PROVE  Rank(S, u) # Rank(S, v)
<1> DEFINE upTo(x) == {w \in S : w <= x}
<1>1. upTo(u) \in SUBSET upTo(v) /\ upTo(v) \in SUBSET S /\ upTo(u) # upTo(v)
  <2>1. \A w \in S : w <= u => w <= v
    OBVIOUS
  <2>2. v \in upTo(v) /\ v \notin upTo(u)
    OBVIOUS
  <2> QED BY <2>1, <2>2
<1> HIDE DEF upTo
<1>2. IsFiniteSet(upTo(v))
  BY <1>1, FS_Subset
<1>3. Cardinality(upTo(u)) # Cardinality(upTo(v))
  BY <1>1, <1>2, FS_Subset
<1> QED BY <1>3 DEF Rank, upTo

LEMMA RankTells ==
  ASSUME NEW S \in SUBSET Nat, IsFiniteSet(S), NEW u \in S, NEW v \in S, Rank(S, u) = Rank(S, v)
  PROVE  u = v
<1>1. u \in Nat /\ v \in Nat
  OBVIOUS
<1>2. ~ (u < v) /\ ~ (v < u)
  BY RankGrows
<1> QED BY <1>1, <1>2

\* Each valid draft of a request gets the result of its own, and each other one
\* the error of its checks.
LEMMA ItemsAre ==
  ASSUME NEW s \in Store, NEW request \in Requests
  PROVE  LET valid == ValidItems(s, request)
             items == Items(s, request, valid)
         IN  /\ items \in Seq(Nat) /\ DOMAIN items = DOMAIN request.drafts
             /\ \A i \in DOMAIN items :
                  items[i] = IF i \in valid THEN ResultOf(s, request, request.drafts[i])
                             ELSE Validated(s, request, request.drafts[i])
<1> DEFINE valid == ValidItems(s, request)
           items == Items(s, request, valid)
           drafts == request.drafts
           length == Len(drafts)
           kth(k) == CHOOSE i \in valid : Rank(valid, i) = k
<1>1. /\ length \in Nat /\ DOMAIN drafts = 1..length
      /\ \A i \in DOMAIN drafts : drafts[i] \in Draft
  BY RequestTyped
<1>2. valid \in SUBSET Nat /\ IsFiniteSet(valid) /\ valid \subseteq 1..length
  <2>1. valid \subseteq 1..length
    BY <1>1 DEF ValidItems
  <2>2. IsFiniteSet(1..length)
    <3>1. 1 \in Int /\ length \in Int
      BY <1>1
    <3> QED BY <3>1, FS_Interval
  <2>3. 1..length \subseteq Nat
    OBVIOUS
  <2> QED BY <2>1, <2>2, <2>3, FS_Subset
<1> HIDE DEF valid, length
<1>3. ASSUME NEW i \in valid
      PROVE  Results(s, request, valid)[NextResult(valid, i)] = ResultOf(s, request, drafts[i])
  <2>1. Rank(valid, i) \in 1..Cardinality(valid)
    BY <1>2, RankTyped
  <2>2. kth(Rank(valid, i)) = i
    <3>1. \A j \in valid : Rank(valid, j) = Rank(valid, i) => j = i
      BY <1>2, RankTells
    <3> QED BY <3>1
  <2> HIDE DEF kth
  <2>3. Results(s, request, valid) =
          [k \in 1..Cardinality(valid) |-> ResultOf(s, request, drafts[kth(k)])]
    BY DEF Results, kth
  <2> QED BY <2>1, <2>2, <2>3 DEF NextResult
<1>4. items = [i \in 1..length |-> IF i \in valid THEN Results(s, request, valid)[NextResult(valid, i)]
                                   ELSE Validated(s, request, drafts[i])]
  BY <1>1 DEF Items
<1>5. /\ DOMAIN items = 1..length
      /\ \A i \in 1..length : items[i] = IF i \in valid THEN ResultOf(s, request, drafts[i])
                                         ELSE Validated(s, request, drafts[i])
  <2> HIDE DEF drafts, items
  <2> QED BY <1>3, <1>4
<1>6. \A i \in 1..length : items[i] \in Nat
  <2> HIDE DEF items
  <2> QED BY <1>1, <1>5, AnswerTyped
<1>7. items \in Seq(Nat)
  <2>1. items = [i \in 1..length |-> items[i]]
    BY <1>4
  <2> HIDE DEF items
  <2> QED BY <1>1, <1>6, <2>1, SeqDef
<1> QED BY <1>1, <1>5, <1>7 DEF valid

-----------------------------------------------------------------------------
(***************************************************************************)
(* Types.                                                                  *)
(***************************************************************************)
Call == Http \union Mail \union Inbound \union {NoCall}

\* The kind of a call and where it stands tell its type.
LEMMA KindTells ==
  ASSUME NEW c \in Call
  PROVE  /\ c.kind = "http" \/ c.at \in {"held", "released", "waiting"} => c \in Http
         /\ c.kind = "mail" \/ c.at = "bouncing" => c \in Mail
         /\ c.kind = "inbound" => c \in Inbound
         /\ c \notin Http \union Mail \union Inbound => c = NoCall
<1>1. CASE c \in Http
  BY <1>1 DEF Http
<1>2. CASE c \in Mail
  BY <1>2 DEF Mail
<1>3. CASE c \in Inbound
  BY <1>3 DEF Inbound
<1>4. CASE c = NoCall
  BY <1>4 DEF NoCall
<1> QED BY <1>1, <1>2, <1>3, <1>4 DEF Call

\* A call that is put in its place, the others standing still.
LEMMA PutTyped ==
  ASSUME calls \in [CallIds -> Call], NEW n \in CallIds, NEW c \in Call, Put(n, c)
  PROVE  /\ calls' \in [CallIds -> Call] /\ calls'[n] = c
         /\ \A m \in CallIds \ {n} : calls'[m] = calls[m]
BY DEF Put

\* The rules after one was used: it has one time less, and the others stay.
LEMMA UsedLatency ==
  ASSUME NEW rules \in Seq(Latency), NEW request, NEW i \in Matching(rules, request)
  PROVE  /\ Used(rules, i) \in Seq(Latency) /\ DOMAIN Used(rules, i) = DOMAIN rules
         /\ \A j \in DOMAIN rules :
              /\ Used(rules, i)[j].match = rules[j].match
              /\ Used(rules, i)[j].times = rules[j].times
              /\ Used(rules, i)[j].remaining = rules[j].remaining - (IF j = i THEN 1 ELSE 0)
<1>1. DOMAIN rules = 1..Len(rules) /\ Len(rules) \in Nat
  BY LenProperties
<1>2. i \in DOMAIN rules /\ rules[i].remaining > 0
  BY DEF Matching, Armed
<1>3. \A j \in DOMAIN rules : rules[j] \in Latency
  BY <1>1, ElementOfSeq
<1>4. ASSUME NEW j \in DOMAIN rules
      PROVE  Used(rules, i)[j] \in Latency
  <2>1. CASE j = i
    <3>1. Used(rules, i)[j] = [rules[j] EXCEPT !.remaining = @ - 1]
      BY <2>1 DEF Used
    <3>2. rules[j].remaining - 1 \in Nat
      BY <1>2, <1>3, <2>1 DEF Latency
    <3> QED BY <1>3, <3>1, <3>2 DEF Latency
  <2>2. CASE j # i
    BY <1>3, <2>2 DEF Used
  <2> QED BY <2>1, <2>2
<1>5. Used(rules, i) \in Seq(Latency)
  <2>1. Used(rules, i) = [j \in 1..Len(rules) |-> Used(rules, i)[j]]
    BY <1>1 DEF Used
  <2> QED BY <1>1, <1>4, <2>1, SeqDef
<1>6. DOMAIN Used(rules, i) = DOMAIN rules
  BY DEF Used
<1>7. ASSUME NEW j \in DOMAIN rules
      PROVE  /\ Used(rules, i)[j].match = rules[j].match
             /\ Used(rules, i)[j].times = rules[j].times
             /\ Used(rules, i)[j].remaining = rules[j].remaining - (IF j = i THEN 1 ELSE 0)
  BY <1>3 DEF Used, Latency
<1> QED BY <1>5, <1>6, <1>7

\* The same for faults.
LEMMA UsedFault ==
  ASSUME NEW rules \in Seq(Fault), NEW request, NEW i \in Matching(rules, request)
  PROVE  /\ Used(rules, i) \in Seq(Fault) /\ DOMAIN Used(rules, i) = DOMAIN rules
         /\ \A j \in DOMAIN rules :
              /\ Used(rules, i)[j].match = rules[j].match
              /\ Used(rules, i)[j].times = rules[j].times
              /\ Used(rules, i)[j].remaining = rules[j].remaining - (IF j = i THEN 1 ELSE 0)
<1>1. DOMAIN rules = 1..Len(rules) /\ Len(rules) \in Nat
  BY LenProperties
<1>2. i \in DOMAIN rules /\ rules[i].remaining > 0
  BY DEF Matching, Armed
<1>3. \A j \in DOMAIN rules : rules[j] \in Fault
  BY <1>1, ElementOfSeq
<1>4. ASSUME NEW j \in DOMAIN rules
      PROVE  Used(rules, i)[j] \in Fault
  <2>1. CASE j = i
    <3>1. Used(rules, i)[j] = [rules[j] EXCEPT !.remaining = @ - 1]
      BY <2>1 DEF Used
    <3>2. rules[j].remaining - 1 \in Nat
      BY <1>2, <1>3, <2>1 DEF Fault
    <3> QED BY <1>3, <3>1, <3>2 DEF Fault
  <2>2. CASE j # i
    BY <1>3, <2>2 DEF Used
  <2> QED BY <2>1, <2>2
<1>5. Used(rules, i) \in Seq(Fault)
  <2>1. Used(rules, i) = [j \in 1..Len(rules) |-> Used(rules, i)[j]]
    BY <1>1 DEF Used
  <2> QED BY <1>1, <1>4, <2>1, SeqDef
<1>6. DOMAIN Used(rules, i) = DOMAIN rules
  BY DEF Used
<1>7. ASSUME NEW j \in DOMAIN rules
      PROVE  /\ Used(rules, i)[j].match = rules[j].match
             /\ Used(rules, i)[j].times = rules[j].times
             /\ Used(rules, i)[j].remaining = rules[j].remaining - (IF j = i THEN 1 ELSE 0)
  BY <1>3 DEF Used, Fault
<1> QED BY <1>5, <1>6, <1>7

\* A rule for SMTP that is used up is taken out.
LEMMA WithoutFaultTyped ==
  ASSUME NEW s \in Store, NEW i \in DOMAIN s.smtpFaults
  PROVE  WithoutFault(s, i) \in Store
<1> DEFINE rules == s.smtpFaults
           after == IF rules[i].remaining = 1 THEN RemoveAt(rules, i)
                    ELSE [rules EXCEPT ![i].remaining = @ - 1]
<1>1. rules \in Seq(SmtpFault)
  BY DEF Store
<1>2. WithoutFault(s, i) = [s EXCEPT !.smtpFaults = after]
  BY DEF WithoutFault
<1> HIDE DEF rules
<1>3. DOMAIN rules = 1..Len(rules) /\ Len(rules) \in Nat /\ i \in 1..Len(rules)
  BY <1>1, LenProperties DEF rules
<1>4. rules[i] \in SmtpFault
  BY <1>1, <1>3, ElementOfSeq
<1>5. RemoveAt(rules, i) \in Seq(SmtpFault)
  <2>1. SubSeq(rules, 1, i - 1) \in Seq(SmtpFault)
    BY <1>1, <1>3, SubSeqProperties
  <2>2. SubSeq(rules, i + 1, Len(rules)) \in Seq(SmtpFault)
    BY <1>1, <1>3, SubSeqProperties
  <2> QED BY <2>1, <2>2, ConcatProperties DEF RemoveAt
<1>6. ASSUME rules[i].remaining # 1
      PROVE  [rules EXCEPT ![i].remaining = @ - 1] \in Seq(SmtpFault)
  <2>1. [rules[i] EXCEPT !.remaining = @ - 1] \in SmtpFault
    BY <1>4, <1>6 DEF SmtpFault
  <2>2. [rules EXCEPT ![i] = [rules[i] EXCEPT !.remaining = @ - 1]] \in Seq(SmtpFault)
    BY <1>1, <1>3, <2>1, ExceptSeq
  <2> QED BY <2>2
<1>7. after \in Seq(SmtpFault)
  BY <1>5, <1>6
<1> HIDE DEF after
<1> QED BY <1>2, <1>7 DEF Store

-----------------------------------------------------------------------------
(***************************************************************************)
(* Counting.  A request that took a latency rule of this state, or was     *)
(* answered by a fault rule of it, names the rule by its place.            *)
(***************************************************************************)
TookIn(call, e) == call.kind = "http" /\ call.heldIn = e
HitIn(call, e) == call.kind = "http" /\ call.servedIn = e /\ call.fault # 0

LatenciesSound ==
  /\ \A n \in CallIds : TookIn(calls[n], epoch) => calls[n].hold \in DOMAIN store.latencies
  /\ \A i \in DOMAIN store.latencies :
       store.latencies[i].times - store.latencies[i].remaining = Cardinality(TookOf(i))
  /\ InTurn(store.latencies)

FaultsSound ==
  /\ \A n \in CallIds : HitIn(calls[n], epoch) => calls[n].fault \in DOMAIN store.faults
  /\ \A i \in DOMAIN store.faults :
       store.faults[i].times - store.faults[i].remaining = Cardinality(HitBy(i))
  /\ InTurn(store.faults)

\* A set of calls is finite, and one more makes it one larger.
LEMMA OneMore ==
  ASSUME NEW S \in SUBSET CallIds, NEW n \in CallIds, n \notin S
  PROVE  /\ Cardinality(S) \in Nat
         /\ Cardinality(S \union {n}) = Cardinality(S) + 1
<1>1. IsFiniteSet(CallIds)
  BY IntakeAssumption, FS_Interval DEF CallIds
<1>2. IsFiniteSet(S)
  BY <1>1, FS_Subset
<1> QED BY <1>2, FS_CardinalityType, FS_AddElement

\* The places of a sequence of rules count from one.
LEMMA RulesTyped ==
  ASSUME NEW s \in Store
  PROVE  /\ s.latencies \in Seq(Latency) /\ s.faults \in Seq(Fault)
         /\ DOMAIN s.latencies \subseteq Nat \ {0} /\ DOMAIN s.faults \subseteq Nat \ {0}
         /\ \A i \in DOMAIN s.latencies : s.latencies[i] \in Latency
         /\ \A i \in DOMAIN s.faults : s.faults[i] \in Fault
<1>1. s.latencies \in Seq(Latency) /\ s.faults \in Seq(Fault)
  BY DEF Store
<1>2. DOMAIN s.latencies = 1..Len(s.latencies) /\ DOMAIN s.faults = 1..Len(s.faults)
  BY <1>1, LenProperties
<1>3. \A i \in DOMAIN s.latencies : s.latencies[i] \in Latency
  BY <1>1, <1>2, ElementOfSeq
<1>4. \A i \in DOMAIN s.faults : s.faults[i] \in Fault
  BY <1>1, <1>2, ElementOfSeq
<1> QED BY <1>1, <1>2, <1>3, <1>4

\* The first rule that matches a request is used after every earlier one that
\* matches all that it does.
LEMMA UsedInTurn ==
  ASSUME NEW rules, NEW after, NEW request, NEW i \in First(Matching(rules, request)),
         DOMAIN rules \subseteq Nat, DOMAIN after = DOMAIN rules, InTurn(rules),
         \A j \in DOMAIN rules :
           /\ rules[j].remaining \in Nat
           /\ after[j].match = rules[j].match /\ after[j].times = rules[j].times
           /\ after[j].remaining = rules[j].remaining - (IF j = i THEN 1 ELSE 0)
  PROVE  InTurn(after)
<1> SUFFICES ASSUME NEW k \in DOMAIN rules, NEW j \in DOMAIN rules, k < j,
                    after[j].match \subseteq after[k].match, after[j].remaining < after[j].times
             PROVE  after[k].remaining = 0
  BY DEF InTurn
<1>1. /\ i \in DOMAIN rules /\ rules[i].remaining > 0 /\ request \in rules[i].match
      /\ \A h \in DOMAIN rules : rules[h].remaining > 0 /\ request \in rules[h].match => i <= h
  BY DEF First, Matching, Armed
<1>2. rules[j].match \subseteq rules[k].match
  OBVIOUS
<1>3. CASE j = i
  <2>1. k \in Nat /\ i \in Nat /\ ~ (i <= k)
    BY <1>3
  <2>2. rules[k].remaining = 0
    BY <1>1, <1>2, <1>3, <2>1
  <2> QED BY <1>3, <2>1, <2>2
<1>4. CASE j # i
  <2>1. rules[k].remaining = 0
    BY <1>2, <1>4 DEF InTurn
  <2>2. k # i
    BY <1>1, <2>1
  <2> QED BY <2>1, <2>2
<1> QED BY <1>3, <1>4

\* Latency rules that stand still, for requests that do.
LEMMA LatenciesStand ==
  ASSUME LatenciesSound, epoch' = epoch, store'.latencies = store.latencies,
         \A n \in CallIds : /\ TookIn(calls'[n], epoch) <=> TookIn(calls[n], epoch)
                            /\ TookIn(calls[n], epoch) => calls'[n].hold = calls[n].hold
  PROVE  LatenciesSound'
<1>1. \A i : TookOf(i)' = TookOf(i)
  BY DEF TookOf, TookIn
<1>2. \A n \in CallIds : TookIn(calls[n], epoch)' => calls'[n].hold \in DOMAIN store.latencies
  BY DEF LatenciesSound, TookIn
<1> QED BY <1>1, <1>2 DEF LatenciesSound, InTurn

\* The same for fault rules.
LEMMA FaultsStand ==
  ASSUME FaultsSound, store \in Store, epoch' = epoch, store'.faults = store.faults,
         \A n \in CallIds : /\ HitIn(calls'[n], epoch) <=> HitIn(calls[n], epoch)
                            /\ HitIn(calls[n], epoch) => calls'[n].fault = calls[n].fault
  PROVE  FaultsSound'
<1>1. \A i \in DOMAIN store.faults : HitBy(i)' = HitBy(i)
  <2>1. \A i \in DOMAIN store.faults : i # 0
    BY RulesTyped
  <2> QED BY <2>1 DEF HitBy, HitIn
<1>2. \A n \in CallIds : HitIn(calls[n], epoch)' => calls'[n].fault \in DOMAIN store.faults
  BY DEF FaultsSound, HitIn
<1> QED BY <1>1, <1>2 DEF FaultsSound, InTurn

\* A request takes the first latency rule that matches it.
LEMMA LatencyTaken ==
  ASSUME LatenciesSound, store \in Store, epoch' = epoch,
         NEW request, NEW i \in First(Matching(store.latencies, request)),
         store'.latencies = Used(store.latencies, i),
         NEW n \in CallIds, ~ TookIn(calls[n], epoch), TookIn(calls'[n], epoch), calls'[n].hold = i,
         \A m \in CallIds \ {n} : calls'[m] = calls[m]
  PROVE  LatenciesSound'
<1> DEFINE rules == store.latencies
           after == Used(rules, i)
<1>1. /\ rules \in Seq(Latency) /\ DOMAIN rules \subseteq Nat \ {0}
      /\ \A j \in DOMAIN rules : rules[j] \in Latency
  BY RulesTyped
<1>2. i \in Matching(rules, request) /\ i \in DOMAIN rules
  BY DEF First, Matching
<1>3. /\ DOMAIN after = DOMAIN rules
      /\ \A j \in DOMAIN rules :
           /\ after[j].match = rules[j].match /\ after[j].times = rules[j].times
           /\ after[j].remaining = rules[j].remaining - (IF j = i THEN 1 ELSE 0)
  BY <1>1, <1>2, UsedLatency
<1>4. \A j \in DOMAIN rules : rules[j].remaining \in Nat /\ rules[j].times \in Nat
  BY <1>1 DEF Latency
<1> HIDE DEF after
<1>5. InTurn(after)
  <2>1. InTurn(rules)
    BY DEF LatenciesSound
  <2> QED BY <1>1, <1>3, <1>4, <2>1, UsedInTurn
<1>6. \A m \in CallIds : TookIn(calls'[m], epoch) => calls'[m].hold \in DOMAIN after
  BY <1>2, <1>3 DEF LatenciesSound
<1>7. ASSUME NEW j \in DOMAIN rules
      PROVE  after[j].times - after[j].remaining = Cardinality(TookOf(j)')
  <2>1. TookOf(j) \in SUBSET CallIds /\ n \notin TookOf(j)
    BY DEF TookOf, TookIn
  <2>2. rules[j].times - rules[j].remaining = Cardinality(TookOf(j))
    BY DEF LatenciesSound
  <2>3. CASE j = i
    <3>1. TookOf(j)' = TookOf(j) \union {n}
      BY <2>3 DEF TookOf, TookIn
    <3> QED BY <1>3, <1>4, <2>1, <2>2, <2>3, <3>1, OneMore
  <2>4. CASE j # i
    <3>1. TookOf(j)' = TookOf(j)
      BY <2>4 DEF TookOf, TookIn
    <3> QED BY <1>3, <1>4, <2>2, <2>4, <3>1
  <2> QED BY <2>3, <2>4
<1>8. store'.latencies = after
  BY DEF after
<1> QED BY <1>3, <1>5, <1>6, <1>7, <1>8 DEF LatenciesSound, TookIn, InTurn

\* A fault answers the request, which no other has answered.
LEMMA FaultTaken ==
  ASSUME FaultsSound, store \in Store, epoch' = epoch,
         NEW request, NEW i \in First(Matching(store.faults, request)),
         store'.faults = Used(store.faults, i),
         NEW n \in CallIds, ~ HitIn(calls[n], epoch), HitIn(calls'[n], epoch), calls'[n].fault = i,
         \A m \in CallIds \ {n} : calls'[m] = calls[m]
  PROVE  FaultsSound'
<1> DEFINE rules == store.faults
           after == Used(rules, i)
<1>1. /\ rules \in Seq(Fault) /\ DOMAIN rules \subseteq Nat \ {0}
      /\ \A j \in DOMAIN rules : rules[j] \in Fault
  BY RulesTyped
<1>2. i \in Matching(rules, request) /\ i \in DOMAIN rules
  BY DEF First, Matching
<1>3. /\ DOMAIN after = DOMAIN rules
      /\ \A j \in DOMAIN rules :
           /\ after[j].match = rules[j].match /\ after[j].times = rules[j].times
           /\ after[j].remaining = rules[j].remaining - (IF j = i THEN 1 ELSE 0)
  BY <1>1, <1>2, UsedFault
<1>4. \A j \in DOMAIN rules : j # 0 /\ rules[j].remaining \in Nat /\ rules[j].times \in Nat
  BY <1>1 DEF Fault
<1> HIDE DEF after
<1>5. InTurn(after)
  <2>1. InTurn(rules)
    BY DEF FaultsSound
  <2> QED BY <1>1, <1>3, <1>4, <2>1, UsedInTurn
<1>6. \A m \in CallIds : HitIn(calls'[m], epoch) => calls'[m].fault \in DOMAIN after
  BY <1>2, <1>3 DEF FaultsSound
<1>7. ASSUME NEW j \in DOMAIN rules
      PROVE  after[j].times - after[j].remaining = Cardinality(HitBy(j)')
  <2>1. HitBy(j) \in SUBSET CallIds /\ n \notin HitBy(j)
    BY <1>4 DEF HitBy, HitIn
  <2>2. rules[j].times - rules[j].remaining = Cardinality(HitBy(j))
    BY DEF FaultsSound
  <2>3. CASE j = i
    <3>1. HitBy(j)' = HitBy(j) \union {n}
      BY <2>3 DEF HitBy, HitIn
    <3> QED BY <1>3, <1>4, <2>1, <2>2, <2>3, <3>1, OneMore
  <2>4. CASE j # i
    <3>1. HitBy(j)' = HitBy(j)
      <4>1. calls'[n].fault # j
        BY <2>4
      <4>2. \A m \in CallIds : m \in HitBy(j)' <=> m \in HitBy(j)
        BY <2>1, <4>1 DEF HitBy
      <4> QED BY <4>2 DEF HitBy
    <3> QED BY <1>3, <1>4, <2>2, <2>4, <3>1
  <2> QED BY <2>3, <2>4
<1>8. store'.faults = after
  BY DEF after
<1> QED BY <1>3, <1>5, <1>6, <1>7, <1>8 DEF FaultsSound, HitIn, InTurn

\* A new rule comes last, and no request has taken it.
LEMMA LatencyAdded ==
  ASSUME LatenciesSound, store \in Store, epoch' = epoch, calls' = calls,
         NEW rule \in Latency, rule.remaining = rule.times,
         store'.latencies = Append(store.latencies, rule)
  PROVE  LatenciesSound'
<1> DEFINE rules == store.latencies
           after == Append(rules, rule)
           last == Len(rules) + 1
<1>1. /\ rules \in Seq(Latency) /\ DOMAIN rules = 1..Len(rules) /\ Len(rules) \in Nat
  <2>1. rules \in Seq(Latency)
    BY RulesTyped
  <2> QED BY <2>1, LenProperties
<1>2. /\ DOMAIN after = DOMAIN rules \union {last} /\ last \notin DOMAIN rules
      /\ \A i \in DOMAIN rules : after[i] = rules[i] /\ i < last
      /\ after[last] = rule /\ last \in Nat \ {0}
  <2>1. Len(after) = last /\ DOMAIN after = 1..last
    BY <1>1, AppendProperties, LenProperties
  <2>2. \A i \in 1..Len(rules) : after[i] = rules[i]
    BY <1>1, AppendProperties
  <2>3. after[last] = rule
    BY <1>1, AppendProperties
  <2> QED BY <1>1, <2>1, <2>2, <2>3
<1>3. \A i : TookOf(i)' = TookOf(i)
  BY DEF TookOf
<1>4. TookOf(last) = {}
  BY <1>2 DEF LatenciesSound, TookOf, TookIn
<1> HIDE DEF after, last
<1>5. \A i \in DOMAIN after : after[i].times - after[i].remaining = Cardinality(TookOf(i))
  <2>1. rule.times - rule.remaining = 0
    BY DEF Latency
  <2> QED BY <1>2, <1>4, <2>1, FS_EmptySet DEF LatenciesSound
<1>6. InTurn(after)
  <2> SUFFICES ASSUME NEW k \in DOMAIN after, NEW j \in DOMAIN after, k < j,
                      after[j].match \subseteq after[k].match, after[j].remaining < after[j].times
               PROVE  after[k].remaining = 0
    BY DEF InTurn
  <2>1. j # last
    BY <1>2 DEF Latency
  <2>2. j \in DOMAIN rules /\ k \in DOMAIN rules
    <3>1. j \in DOMAIN rules /\ j < last
      BY <1>2, <2>1
    <3>2. k # last /\ j \in Nat
      BY <1>1, <1>2, <3>1
    <3> QED BY <1>2, <3>1, <3>2
  <2> QED BY <1>2, <2>2 DEF LatenciesSound, InTurn
<1>7. \A n \in CallIds : TookIn(calls[n], epoch) => calls[n].hold \in DOMAIN after
  BY <1>2 DEF LatenciesSound
<1>8. store'.latencies = after
  BY DEF after
<1> QED BY <1>3, <1>5, <1>6, <1>7, <1>8 DEF LatenciesSound, TookIn, InTurn

\* The same for fault rules.
LEMMA FaultAdded ==
  ASSUME FaultsSound, store \in Store, epoch' = epoch, calls' = calls,
         NEW rule \in Fault, rule.remaining = rule.times,
         store'.faults = Append(store.faults, rule)
  PROVE  FaultsSound'
<1> DEFINE rules == store.faults
           after == Append(rules, rule)
           last == Len(rules) + 1
<1>1. /\ rules \in Seq(Fault) /\ DOMAIN rules = 1..Len(rules) /\ Len(rules) \in Nat
  <2>1. rules \in Seq(Fault)
    BY RulesTyped
  <2> QED BY <2>1, LenProperties
<1>2. /\ DOMAIN after = DOMAIN rules \union {last} /\ last \notin DOMAIN rules
      /\ \A i \in DOMAIN rules : after[i] = rules[i] /\ i < last
      /\ after[last] = rule /\ last \in Nat \ {0}
  <2>1. Len(after) = last /\ DOMAIN after = 1..last
    BY <1>1, AppendProperties, LenProperties
  <2>2. \A i \in 1..Len(rules) : after[i] = rules[i]
    BY <1>1, AppendProperties
  <2>3. after[last] = rule
    BY <1>1, AppendProperties
  <2> QED BY <1>1, <2>1, <2>2, <2>3
<1>3. \A i : HitBy(i)' = HitBy(i)
  BY DEF HitBy
<1>4. HitBy(last) = {}
  BY <1>2 DEF FaultsSound, HitBy, HitIn
<1> HIDE DEF after, last
<1>5. \A i \in DOMAIN after : after[i].times - after[i].remaining = Cardinality(HitBy(i))
  <2>1. rule.times - rule.remaining = 0
    BY DEF Fault
  <2> QED BY <1>2, <1>4, <2>1, FS_EmptySet DEF FaultsSound
<1>6. InTurn(after)
  <2> SUFFICES ASSUME NEW k \in DOMAIN after, NEW j \in DOMAIN after, k < j,
                      after[j].match \subseteq after[k].match, after[j].remaining < after[j].times
               PROVE  after[k].remaining = 0
    BY DEF InTurn
  <2>1. j # last
    BY <1>2 DEF Fault
  <2>2. j \in DOMAIN rules /\ k \in DOMAIN rules
    <3>1. j \in DOMAIN rules /\ j < last
      BY <1>2, <2>1
    <3>2. k # last /\ j \in Nat
      BY <1>1, <1>2, <3>1
    <3> QED BY <1>2, <3>1, <3>2
  <2> QED BY <1>2, <2>2 DEF FaultsSound, InTurn
<1>7. \A n \in CallIds : HitIn(calls[n], epoch) => calls[n].fault \in DOMAIN after
  BY <1>2 DEF FaultsSound
<1>8. store'.faults = after
  BY DEF after
<1> QED BY <1>3, <1>5, <1>6, <1>7, <1>8 DEF FaultsSound, HitIn, InTurn

\* Another state whose rules are as they were armed, which no request has met.
LEMMA RulesAfresh ==
  ASSUME epoch' \in Nat \ {0},
         \A n \in CallIds : ~ TookIn(calls'[n], epoch') /\ ~ HitIn(calls'[n], epoch'),
         \A i \in DOMAIN store'.latencies :
           store'.latencies[i].remaining = store'.latencies[i].times /\ store'.latencies[i].times \in Nat,
         \A i \in DOMAIN store'.faults :
           i # 0 /\ store'.faults[i].remaining = store'.faults[i].times /\ store'.faults[i].times \in Nat
  PROVE  LatenciesSound' /\ FaultsSound'
<1>1. \A i \in DOMAIN store'.latencies : TookOf(i)' = {}
  BY DEF TookOf, TookIn
<1>2. \A i \in DOMAIN store'.faults : HitBy(i)' = {}
  BY DEF HitBy, HitIn
<1>3. InTurn(store'.latencies) /\ InTurn(store'.faults)
  BY DEF InTurn
<1>4. ASSUME NEW i \in DOMAIN store'.latencies
      PROVE  store'.latencies[i].times - store'.latencies[i].remaining = Cardinality(TookOf(i)')
  <2>1. Cardinality(TookOf(i)') = 0
    BY <1>1, FS_EmptySet
  <2> QED BY <2>1
<1>5. ASSUME NEW i \in DOMAIN store'.faults
      PROVE  store'.faults[i].times - store'.faults[i].remaining = Cardinality(HitBy(i)')
  <2>1. Cardinality(HitBy(i)') = 0
    BY <1>2, FS_EmptySet
  <2> QED BY <2>1
<1>6. LatenciesSound'
  BY <1>3, <1>4 DEF LatenciesSound, TookIn, InTurn
<1>7. FaultsSound'
  BY <1>3, <1>5 DEF FaultsSound, HitIn, InTurn
<1> QED BY <1>6, <1>7

-----------------------------------------------------------------------------
(***************************************************************************)
(* The inductive invariant: besides types and counts, what each call has   *)
(* stored, wherever it stands.  A call that has not been served has stored *)
(* nothing, neither in the state nor in what a seed saved of it; a mail    *)
(* whose bounces are under way will have a bounce for each recipient that  *)
(* its message is not sent to; and no call knows a later state.            *)
(***************************************************************************)
\* Where a call stands that has stored nothing yet.
Unserved == {"none", "held", "released", "parsing"}
Untouched(s, n) ==
  /\ \A m \in s.outbound : m.call # n
  /\ \A a \in Addresses : <<n, a>> \notin s.bounces
  /\ n \notin s.inbound

\* The recipients of a mail that its message goes to.
SentTo(n) == {a \in calls[n].to : \E m \in MessagesOf(n) : a \notin m.inactive}

HttpSound(n) ==
  LET call == calls[n]
  IN  /\ call.heldIn <= epoch /\ call.servedIn <= epoch
      /\ call.at \in {"held", "released"} => call.fault = 0 /\ call.servedIn = 0
      /\ call.servedIn = epoch => HttpAnswerHolds(n)

MailSound(n) ==
  LET mail == calls[n]
  IN  /\ mail.since <= epoch
      /\ mail.at = "parsing" => mail.since = 0
      /\ mail.since = epoch =>
           /\ mail.at = "bouncing" =>
                /\ SentTo(n) \intersect (BouncesOf(n) \union mail.left) = {}
                /\ SentTo(n) \union BouncesOf(n) \union mail.left = mail.to
           /\ mail.at = "answered" => MailAnswerHolds(n)

InboundSound(n) ==
  LET mail == calls[n]
  IN  /\ mail.state <= epoch
      /\ mail.at = "answered" /\ mail.state = epoch =>
           (n \in store.inbound <=> mail.status # "refused")

CallSound(n) ==
  /\ calls[n].at \in Unserved =>
       Untouched(store, n) /\ (seeding.on => Untouched(seeding.store, n))
  /\ calls[n].kind = "http" => HttpSound(n)
  /\ calls[n].kind = "mail" => MailSound(n)
  /\ calls[n].kind = "inbound" => InboundSound(n)

CallsSound == \A n \in CallIds : CallSound(n)

\* Each seed replaces the state twice at most.
EpochSound == epoch + (IF seeding.on THEN 1 ELSE 0) <= 2 * seeds + 1

Sound == TypeOK /\ EpochSound /\ LatenciesSound /\ FaultsSound /\ CallsSound

\* The state keeps what belongs to a call.
KeptFor(n) ==
  /\ MessagesOf(n)' = MessagesOf(n) /\ BouncesOf(n)' = BouncesOf(n)
  /\ n \in store'.inbound <=> n \in store.inbound

\* What the state holds of a call that has stored nothing.
LEMMA UntouchedIs ==
  ASSUME NEW n \in CallIds
  PROVE  Untouched(store, n) <=>
           MessagesOf(n) = {} /\ BouncesOf(n) = {} /\ n \notin store.inbound
BY DEF Untouched, MessagesOf, BouncesOf

\* A call stays sound when neither it nor what it stored changes.
LEMMA OthersSound ==
  ASSUME NEW m \in CallIds, CallSound(m), epoch' = epoch, calls'[m] = calls[m],
         seeding' = seeding, KeptFor(m)
  PROVE  CallSound(m)'
<1>1. MessagesOf(m)' = MessagesOf(m) /\ BouncesOf(m)' = BouncesOf(m)
  BY DEF KeptFor
<1>2. Untouched(store, m) => Untouched(store, m)'
  <2>1. Untouched(store, m)' <=>
          MessagesOf(m)' = {} /\ BouncesOf(m)' = {} /\ m \notin store'.inbound
    BY DEF Untouched, MessagesOf, BouncesOf
  <2> QED BY <1>1, <2>1, UntouchedIs DEF KeptFor
<1>3. HttpSound(m) => HttpSound(m)'
  <2>1. HttpAnswerHolds(m)' <=> HttpAnswerHolds(m)
    BY <1>1 DEF HttpAnswerHolds
  <2> QED BY <2>1 DEF HttpSound
<1>4. MailSound(m) => MailSound(m)'
  <2>1. SentTo(m)' = SentTo(m)
    BY <1>1 DEF SentTo
  <2>2. MailAnswerHolds(m)' <=> MailAnswerHolds(m)
    BY <1>1 DEF MailAnswerHolds
  <2> QED BY <1>1, <2>1, <2>2 DEF MailSound
<1>5. InboundSound(m) => InboundSound(m)'
  BY DEF InboundSound, KeptFor
<1> QED BY <1>2, <1>3, <1>4, <1>5 DEF CallSound, Untouched

\* A step of one call.
LEMMA OneCall ==
  ASSUME Sound, NEW n \in CallIds, NEW c \in Call, Put(n, c), store' \in Store,
         UNCHANGED <<epoch, seeding, counters>>, session' \in Session,
         LatenciesSound', FaultsSound', CallSound(n)',
         \A m \in CallIds \ {n} : KeptFor(m)
  PROVE  Sound'
<1>1. calls' \in [CallIds -> Call] /\ \A m \in CallIds \ {n} : calls'[m] = calls[m]
  <2>1. calls \in [CallIds -> Call]
    BY DEF Sound, TypeOK, Call
  <2> QED BY <2>1, PutTyped
<1>2. TypeOK'
  BY <1>1 DEF Sound, TypeOK, Call, counters
<1>3. EpochSound'
  BY DEF Sound, EpochSound, counters
<1>4. CallsSound'
  <2>1. \A m \in CallIds \ {n} : CallSound(m)'
    <3>1. \A m \in CallIds : CallSound(m)
      BY DEF Sound, CallsSound
    <3>2. epoch' = epoch /\ seeding' = seeding
      OBVIOUS
    <3> QED BY <1>1, <3>1, <3>2, OthersSound
  <2>2. CallIds' = CallIds
    BY DEF CallIds
  <2>3. \A m \in CallIds : CallSound(m)'
    BY <2>1
  <2> QED BY <2>2, <2>3 DEF CallsSound
<1> QED BY <1>2, <1>3, <1>4 DEF Sound

\* A step beside the calls, which keeps what they stored.
LEMMA AsideSound ==
  ASSUME Sound, UNCHANGED <<calls, epoch, seeding, seeds>>, store' \in Store,
         store'.outbound = store.outbound, store'.bounces = store.bounces,
         store'.inbound = store.inbound,
         session' \in Session, controls' \in 0..MaxControls,
         store'.latencies = store.latencies \/ LatenciesSound',
         store'.faults = store.faults \/ FaultsSound'
  PROVE  Sound'
<1>1. TypeOK'
  BY DEF Sound, TypeOK
<1>2. EpochSound'
  BY DEF Sound, EpochSound
<1>3. LatenciesSound'
  BY LatenciesStand DEF Sound
<1>4. FaultsSound'
  BY FaultsStand DEF Sound, TypeOK
<1>5. CallsSound'
  <2>1. \A m \in CallIds : KeptFor(m)
    BY DEF KeptFor, MessagesOf, BouncesOf
  <2>2. \A m \in CallIds : CallSound(m)
    BY DEF Sound, CallsSound
  <2>3. \A m \in CallIds : CallSound(m)'
    BY <2>1, <2>2, OthersSound
  <2> QED BY <2>3 DEF CallsSound, CallIds
<1> QED BY <1>1, <1>2, <1>3, <1>4, <1>5 DEF Sound

-----------------------------------------------------------------------------
(***************************************************************************)
(* Requests over HTTP.                                                     *)
(***************************************************************************)
\* A served request holds what its answer says: the items tell of the messages.
LEMMA ServedHolds ==
  ASSUME TypeOK, NEW n \in CallIds, NEW s \in Store, NEW request \in Requests,
         MessagesOf(n)' = Messages(s, n, request),
         calls'[n].request = request, calls'[n].status = "served",
         calls'[n].items = Items(s, request, ValidItems(s, request))
  PROVE  HttpAnswerHolds(n)'
<1> DEFINE valid == ValidItems(s, request)
           items == Items(s, request, valid)
           draft(i) == request.drafts[i]
<1>1. CASE request.test
  <2>1. MessagesOf(n)' = {}
    BY <1>1 DEF Messages
  <2> QED BY <1>1, <2>1 DEF HttpAnswerHolds
<1>2. CASE ~ request.test
  <2>1. /\ DOMAIN items = DOMAIN request.drafts
        /\ \A i \in DOMAIN items : items[i] = IF i \in valid THEN ResultOf(s, request, draft(i))
                                              ELSE Validated(s, request, draft(i))
    BY ItemsAre
  <2>2. \A i \in DOMAIN items \ valid : items[i] # 0
    BY <2>1 DEF ValidItems, Ok
  <2>3. valid \subseteq DOMAIN items
    BY <2>1 DEF ValidItems
  <2> HIDE DEF items, valid
  <2>4. \A m : m \in MessagesOf(n)' <=>
          \E i \in valid : /\ StoreAnswer(s.world, draft(i)) = Ok
                           /\ m = [call |-> n, item |-> i, inactive |-> Inactive(s.world, draft(i))]
    BY <1>2 DEF Messages, valid
  <2>5. ASSUME NEW i \in DOMAIN items
        PROVE  /\ items[i] = 0 <=> \E m \in MessagesOf(n)' : m.item = i /\ m.inactive = {}
               /\ (\E m \in MessagesOf(n)' : m.item = i) => items[i] \in {0, 406}
    <3>1. CASE i \notin valid
      <4>1. ~ \E m \in MessagesOf(n)' : m.item = i
        BY <2>4, <3>1
      <4> QED BY <2>2, <3>1, <4>1
    <3>2. CASE i \in valid /\ StoreAnswer(s.world, draft(i)) # Ok
      <4>1. items[i] # 0
        BY <1>2, <2>1, <3>2 DEF ResultOf, Ok
      <4>2. ~ \E m \in MessagesOf(n)' : m.item = i
        BY <2>4, <3>2
      <4> QED BY <4>1, <4>2
    <3>3. CASE i \in valid /\ StoreAnswer(s.world, draft(i)) = Ok
      <4> DEFINE message == [call |-> n, item |-> i, inactive |-> Inactive(s.world, draft(i))]
      <4>1. items[i] = IF Inactive(s.world, draft(i)) # {} THEN 406 ELSE 0
        BY <1>2, <2>1, <3>3 DEF ResultOf, Ok
      <4>2. message \in MessagesOf(n)' /\ message.item = i
        BY <2>4, <3>3
      <4>3. \A m \in MessagesOf(n)' : m.item = i => m.inactive = Inactive(s.world, draft(i))
        BY <2>4
      <4> QED BY <4>1, <4>2, <4>3
    <3> QED BY <3>1, <3>2, <3>3
  <2>6. calls'[n].items = items
    BY DEF items, valid
  <2> HIDE DEF draft
  <2>7. \A i \in DOMAIN calls'[n].items :
          /\ i \in DOMAIN calls'[n].items /\ calls'[n].items[i] = 0 <=>
               \E m \in MessagesOf(n)' : m.item = i /\ m.inactive = {}
          /\ (\E m \in MessagesOf(n)' : m.item = i) => calls'[n].items[i] \in {0, 406}
    BY <2>5, <2>6
  <2> QED BY <1>2, <2>7 DEF HttpAnswerHolds
<1> QED BY <1>1, <1>2

\* The messages that a request stores are its own.
LEMMA MessagesTyped ==
  ASSUME NEW n \in CallIds, NEW s \in Store, NEW request \in Requests
  PROVE  /\ Messages(s, n, request) \subseteq Message
         /\ \A m \in Messages(s, n, request) : m.call = n
<1>1. DOMAIN request.drafts \subseteq Nat
  BY RequestTyped
<1>2. \A i \in DOMAIN request.drafts : Inactive(s.world, request.drafts[i]) \subseteq Addresses
  <2>1. s.world.suppressed \subseteq Addresses
    BY DEF Store, World
  <2> QED BY <2>1 DEF Inactive
<1> QED BY <1>1, <1>2 DEF Messages, Message, ValidItems

\* The end of the handling of a request, from the state that it finds.
LEMMA ServeSound ==
  ASSUME Sound, NEW n \in CallIds, NEW s \in Store, NEW call \in Http,
         s = [store EXCEPT !.log = s.log],
         call.at \in {"held", "released"}, call.fault = 0, call.servedIn = 0, call.heldIn <= epoch,
         TookIn(call, epoch) <=> TookIn(calls[n], epoch),
         TookIn(calls[n], epoch) => call.hold = calls[n].hold,
         ~ HitIn(calls[n], epoch), calls[n].at \in Unserved,
         Serve(n, call, s), UNCHANGED <<epoch, session, seeding, counters>>
  PROVE  Sound'
<1> DEFINE request == call.request
           faults == Matching(s.faults, request)
<1>1. /\ s.latencies = store.latencies /\ s.faults = store.faults /\ s.outbound = store.outbound
      /\ s.bounces = store.bounces /\ s.inbound = store.inbound
  BY DEF Sound, TypeOK, Store
<1>2. /\ store \in Store /\ session \in Session /\ epoch \in Nat \ {0}
      /\ calls \in [CallIds -> Call] /\ LatenciesSound /\ FaultsSound /\ request \in Requests
  <2>1. epoch \in Nat \ {0}
    BY IntakeAssumption DEF Sound, TypeOK
  <2> QED BY <2>1 DEF Sound, TypeOK, Call, Http
<1>3. Untouched(store, n) /\ MessagesOf(n) = {} /\ BouncesOf(n) = {} /\ n \notin store.inbound
  BY UntouchedIs DEF Sound, CallsSound, CallSound
<1>4. ASSUME NEW c \in Http, Put(n, c), c.heldIn = call.heldIn, c.hold = call.hold
      PROVE  /\ calls'[n] = c /\ c.kind = "http"
             /\ \A m \in CallIds \ {n} : calls'[m] = calls[m]
             /\ \A m \in CallIds : /\ TookIn(calls'[m], epoch) <=> TookIn(calls[m], epoch)
                                   /\ TookIn(calls[m], epoch) => calls'[m].hold = calls[m].hold
  <2>1. calls'[n] = c /\ \A m \in CallIds \ {n} : calls'[m] = calls[m]
    BY <1>2, <1>4, PutTyped DEF Call
  <2>2. c.kind = "http" /\ call.kind = "http"
    BY DEF Http
  <2>3. /\ TookIn(calls'[n], epoch) <=> TookIn(calls[n], epoch)
        /\ TookIn(calls[n], epoch) => calls'[n].hold = calls[n].hold
    BY <1>4, <2>1, <2>2 DEF TookIn
  <2> QED BY <2>1, <2>2, <2>3
<1>5. ASSUME NEW c \in Http, Put(n, c), calls'[n] = c,
             c.kind = "http", c.heldIn = call.heldIn, c.servedIn = epoch,
             c.at \in {"answered", "waiting"}, HttpAnswerHolds(n)'
      PROVE  CallSound(n)'
  <2>1. HttpSound(n)'
    BY <1>2, <1>5 DEF HttpSound
  <2> QED BY <1>5, <2>1 DEF CallSound, Unserved
<1>6. ASSUME NEW i \in First(faults), store' = [s EXCEPT !.faults = Used(@, i)],
             Put(n, [call EXCEPT !.at = IF s.faults[i].reply = "timeout" THEN "waiting"
                                        ELSE "answered",
                                 !.fault = i, !.servedIn = epoch, !.status = s.faults[i].reply])
      PROVE  Sound'
  <2> DEFINE c == [call EXCEPT !.at = IF s.faults[i].reply = "timeout" THEN "waiting"
                                      ELSE "answered",
                               !.fault = i, !.servedIn = epoch, !.status = s.faults[i].reply]
  <2>1. i \in faults /\ i \in DOMAIN s.faults
    BY <1>6 DEF First, Matching
  <2>2. i \in Nat \ {0} /\ s.faults[i] \in Fault /\ s.faults \in Seq(Fault)
    BY <2>1, RulesTyped
  <2>3. s.faults[i].reply \in Replies
    BY <2>2 DEF Fault
  <2>4. /\ c \in Http /\ c.fault = i /\ c.at \in {"answered", "waiting"} /\ c.status \in Replies
        /\ c.heldIn = call.heldIn /\ c.hold = call.hold /\ c.servedIn = epoch
    <3> DEFINE reply == s.faults[i].reply
               at == IF reply = "timeout" THEN "waiting" ELSE "answered"
    <3>1. reply \in Statuses \union Replies /\ at \in {"answered", "waiting"}
      BY <2>3
    <3>2. c = [call EXCEPT !.at = at, !.fault = i, !.servedIn = epoch, !.status = reply]
      OBVIOUS
    <3> HIDE DEF c, reply, at
    <3>3. c \in Http /\ c.fault = i /\ c.at = at /\ c.status = reply
      BY <1>2, <2>2, <3>1, <3>2 DEF Http
    <3>4. c.heldIn = call.heldIn /\ c.hold = call.hold /\ c.servedIn = epoch
      BY <3>2 DEF Http
    <3> QED BY <2>3, <3>1, <3>3, <3>4 DEF reply
  <2>5. Put(n, c)
    BY <1>6
  <2> HIDE DEF c
  <2>6. store' \in Store /\ store'.faults = Used(store.faults, i) /\ store'.latencies = store.latencies
        /\ store'.outbound = store.outbound /\ store'.bounces = store.bounces
        /\ store'.inbound = store.inbound
    <3>1. Used(s.faults, i) \in Seq(Fault)
      BY <2>1, <2>2, UsedFault
    <3> QED BY <1>1, <1>6, <3>1 DEF Store
  <2>7. /\ calls'[n] = c /\ \A m \in CallIds \ {n} : calls'[m] = calls[m]
        /\ c.kind = "http" /\ c.heldIn = call.heldIn /\ c.servedIn = epoch
    BY <1>4, <2>4, <2>5
  <2>8. LatenciesSound'
    <3>1. \A m \in CallIds : /\ TookIn(calls'[m], epoch) <=> TookIn(calls[m], epoch)
                             /\ TookIn(calls[m], epoch) => calls'[m].hold = calls[m].hold
      BY <1>4, <2>4, <2>5
    <3> QED BY <1>2, <2>6, <3>1, LatenciesStand
  <2>9. FaultsSound'
    <3>1. HitIn(calls'[n], epoch) /\ calls'[n].fault = i
      BY <2>2, <2>4, <2>7 DEF HitIn
    <3>2. i \in First(Matching(store.faults, request))
      BY <1>1
    <3> QED BY <1>2, <2>6, <2>7, <3>1, <3>2, FaultTaken
  <2>10. \A m \in CallIds : KeptFor(m)
    BY <2>6 DEF KeptFor, MessagesOf, BouncesOf
  <2>11. CallSound(n)'
    <3>1. MessagesOf(n)' = {}
      BY <1>3, <2>10 DEF KeptFor
    <3>2. HttpAnswerHolds(n)'
      BY <2>4, <2>7, <3>1 DEF HttpAnswerHolds, Replies
    <3> QED BY <1>5, <2>4, <2>5, <2>7, <3>2
  <2> QED BY <1>2, <2>4, <2>5, <2>6, <2>8, <2>9, <2>10, <2>11, OneCall DEF Call
<1>7. ASSUME NEW status \in {"unauthorized", "unsupported", "served"}, NEW items \in Seq(Nat),
             Put(n, Answered(call, status, items)), NEW more \in SUBSET Message,
             store' = [s EXCEPT !.outbound = @ \union more], \A m \in more : m.call = n,
             (MessagesOf(n)' = more /\ calls'[n].request = request /\ calls'[n].status = status
                /\ calls'[n].items = items) => HttpAnswerHolds(n)'
      PROVE  Sound'
  <2> DEFINE c == Answered(call, status, items)
  <2>1. /\ c \in Http /\ c.fault = 0 /\ c.at = "answered" /\ c.status = status /\ c.items = items
        /\ c.heldIn = call.heldIn /\ c.hold = call.hold /\ c.servedIn = epoch /\ c.request = request
    BY <1>2 DEF Http, Answered, Statuses
  <2>2. Put(n, c)
    BY <1>7
  <2> HIDE DEF c
  <2>3. store' \in Store /\ store'.faults = store.faults /\ store'.latencies = store.latencies
        /\ store'.outbound = store.outbound \union more /\ store'.bounces = store.bounces
        /\ store'.inbound = store.inbound
    BY <1>1, <1>7 DEF Store
  <2>4. /\ calls'[n] = c /\ \A m \in CallIds \ {n} : calls'[m] = calls[m]
        /\ c.kind = "http" /\ c.heldIn = call.heldIn /\ c.servedIn = epoch /\ c.request = request
    BY <1>4, <2>1, <2>2
  <2>5. LatenciesSound'
    <3>1. \A m \in CallIds : /\ TookIn(calls'[m], epoch) <=> TookIn(calls[m], epoch)
                             /\ TookIn(calls[m], epoch) => calls'[m].hold = calls[m].hold
      BY <1>4, <2>1, <2>2
    <3> QED BY <1>2, <2>3, <3>1, LatenciesStand
  <2>6. FaultsSound'
    <3>1. ~ HitIn(calls'[n], epoch)
      BY <2>1, <2>4 DEF HitIn
    <3> QED BY <1>2, <2>3, <2>4, <3>1, FaultsStand
  <2>7. \A m \in CallIds \ {n} : KeptFor(m)
    <3>1. \A m \in CallIds \ {n} : MessagesOf(m)' = MessagesOf(m)
      BY <1>7, <2>3 DEF MessagesOf
    <3>2. \A m \in CallIds : BouncesOf(m)' = BouncesOf(m)
      BY <2>3 DEF BouncesOf
    <3> QED BY <2>3, <3>1, <3>2 DEF KeptFor
  <2>8. CallSound(n)'
    <3>1. MessagesOf(n)' = more
      BY <1>3, <1>7, <2>3 DEF MessagesOf
    <3>2. HttpAnswerHolds(n)'
      BY <1>7, <2>1, <2>4, <3>1
    <3> QED BY <1>5, <2>1, <2>2, <2>4, <3>2
  <2> QED BY <1>2, <2>1, <2>2, <2>3, <2>5, <2>6, <2>7, <2>8, OneCall DEF Call
<1>8. ASSUME NEW status \in {"unauthorized", "unsupported"}, store' = s,
             Put(n, Answered(call, status, <<>>))
      PROVE  Sound'
  <2> DEFINE more == {}
             items == <<>>
  <2>1. (MessagesOf(n)' = more /\ calls'[n].request = request /\ calls'[n].status = status
           /\ calls'[n].items = items) => HttpAnswerHolds(n)'
    BY <1>8 DEF HttpAnswerHolds
  <2>2. /\ items \in Seq(Nat) /\ Put(n, Answered(call, status, items))
        /\ more \in SUBSET Message /\ \A m \in more : m.call = n
    BY <1>8, EmptySeq
  <2>3. store' = [s EXCEPT !.outbound = @ \union more]
    BY <1>8 DEF Store
  <2>4. status \in {"unauthorized", "unsupported", "served"}
    OBVIOUS
  <2> HIDE DEF more, items
  <2> QED BY <1>7, <2>1, <2>2, <2>3, <2>4
<1>9. ASSUME NEW valid \in {ValidItems(s, request)},
             store' = [s EXCEPT !.outbound = @ \union Messages(s, n, request)],
             Put(n, Answered(call, "served", Items(s, request, valid)))
      PROVE  Sound'
  <2>1. Items(s, request, valid) \in Seq(Nat)
    BY <1>2, ItemsAre
  <2>2. Messages(s, n, request) \in SUBSET Message /\ \A m \in Messages(s, n, request) : m.call = n
    BY <1>2, MessagesTyped
  <2>3. (MessagesOf(n)' = Messages(s, n, request) /\ calls'[n].request = request
           /\ calls'[n].status = "served" /\ calls'[n].items = Items(s, request, valid))
          => HttpAnswerHolds(n)'
    BY <1>2, <1>9, ServedHolds DEF Sound
  <2> DEFINE more == Messages(s, n, request)
             items == Items(s, request, valid)
  <2> HIDE DEF more, items
  <2>4. items \in Seq(Nat) /\ Put(n, Answered(call, "served", items)) /\ more \in SUBSET Message
        /\ store' = [s EXCEPT !.outbound = @ \union more] /\ (\A m \in more : m.call = n)
    BY <1>9, <2>1, <2>2 DEF more, items
  <2>5. (MessagesOf(n)' = more /\ calls'[n].request = request /\ calls'[n].status = "served"
           /\ calls'[n].items = items) => HttpAnswerHolds(n)'
    BY <2>3 DEF more, items
  <2> QED BY <1>7, <2>4, <2>5
<1> QED BY <1>6, <1>8, <1>9 DEF Serve

\* A call that has not come yet.
LEMMA ComingIs ==
  ASSUME Sound, NEW n \in CallIds, Coming(n)
  PROVE  /\ calls[n] = NoCall /\ calls[n].at \in Unserved
         /\ ~ TookIn(calls[n], epoch) /\ ~ HitIn(calls[n], epoch)
         /\ Untouched(store, n) /\ (seeding.on => Untouched(seeding.store, n))
         /\ MessagesOf(n) = {} /\ BouncesOf(n) = {} /\ n \notin store.inbound
<1>1. calls[n] \in Call /\ calls[n].at = "none"
  BY DEF Sound, TypeOK, Call, Coming, Came
<1>2. calls[n] = NoCall
  <2>1. calls[n] \notin Http \union Mail \union Inbound
    BY <1>1 DEF Http, Mail, Inbound
  <2> QED BY <1>1, <2>1, KindTells
<1>3. calls[n].at \in Unserved /\ ~ TookIn(calls[n], epoch) /\ ~ HitIn(calls[n], epoch)
  BY <1>2 DEF NoCall, Unserved, TookIn, HitIn
<1> QED BY <1>2, <1>3, UntouchedIs DEF Sound, CallsSound, CallSound

\* A request that comes takes a latency rule or is served at once.
LEMMA ArriveSound ==
  ASSUME Sound, NEW n \in CallIds, NEW request \in Requests, Arrive(n, request)
  PROVE  Sound'
<1> DEFINE latencies == Matching(store.latencies, request)
           logged == [store EXCEPT !.log = Append(@, n)]
<1>1. /\ Coming(n) /\ UNCHANGED <<epoch, session, seeding, counters>>
      /\ \/ \E i \in First(latencies) :
            /\ store' = [logged EXCEPT !.latencies = Used(@, i)]
            /\ Put(n, [NewCall(request) EXCEPT !.at = "held", !.timer = TRUE, !.hold = i, !.heldIn = epoch])
         \/ /\ latencies = {}
            /\ Serve(n, NewCall(request), logged)
  BY DEF Arrive
<1>2. /\ store \in Store /\ session \in Session /\ epoch \in Nat \ {0}
      /\ calls \in [CallIds -> Call] /\ LatenciesSound /\ FaultsSound
  <2>1. epoch \in Nat \ {0}
    BY IntakeAssumption DEF Sound, TypeOK
  <2> QED BY <2>1 DEF Sound, TypeOK, Call
<1>3. logged \in Store /\ logged = [store EXCEPT !.log = logged.log]
  <2>1. store.log \in Seq(CallIds)
    BY <1>2 DEF Store
  <2>2. Append(store.log, n) \in Seq(CallIds)
    BY <2>1, AppendProperties
  <2> QED BY <1>2, <2>2 DEF Store
<1>4. /\ NewCall(request) \in Http /\ NewCall(request).at = "released"
      /\ NewCall(request).fault = 0 /\ NewCall(request).servedIn = 0 /\ NewCall(request).heldIn = 0
      /\ NewCall(request).kind = "http"
  BY DEF NewCall, Http, Statuses
<1>5. ASSUME NEW i \in First(latencies), store' = [logged EXCEPT !.latencies = Used(@, i)],
             Put(n, [NewCall(request) EXCEPT !.at = "held", !.timer = TRUE, !.hold = i, !.heldIn = epoch])
      PROVE  Sound'
  <2> DEFINE c == [NewCall(request) EXCEPT !.at = "held", !.timer = TRUE, !.hold = i, !.heldIn = epoch]
  <2>1. i \in latencies /\ i \in DOMAIN store.latencies
    BY DEF First, Matching
  <2>2. i \in Nat /\ store.latencies \in Seq(Latency)
    BY <1>2, <2>1, RulesTyped
  <2>3. /\ c \in Http /\ c.kind = "http" /\ c.at = "held" /\ c.hold = i /\ c.heldIn = epoch
        /\ c.fault = 0 /\ c.servedIn = 0
    BY <1>2, <1>4, <2>2 DEF Http
  <2>4. Put(n, c)
    BY <1>5
  <2> HIDE DEF c
  <2>5. store' \in Store /\ store'.latencies = Used(store.latencies, i) /\ store'.faults = store.faults
        /\ store'.outbound = store.outbound /\ store'.bounces = store.bounces
        /\ store'.inbound = store.inbound
    <3>1. Used(store.latencies, i) \in Seq(Latency)
      BY <2>1, <2>2, UsedLatency
    <3>2. store' = [logged EXCEPT !.latencies = Used(store.latencies, i)]
      BY <1>2, <1>5 DEF Store
    <3> QED BY <1>2, <1>3, <3>1, <3>2 DEF Store
  <2>6. calls'[n] = c /\ \A m \in CallIds \ {n} : calls'[m] = calls[m]
    BY <1>2, <2>3, <2>4, PutTyped DEF Call
  <2>7. LatenciesSound'
    <3>1. ~ TookIn(calls[n], epoch) /\ TookIn(calls'[n], epoch) /\ calls'[n].hold = i
      BY <1>1, <2>3, <2>6, ComingIs DEF TookIn
    <3> QED BY <1>1, <1>2, <2>5, <2>6, <3>1, LatencyTaken
  <2>8. FaultsSound'
    <3>1. ~ HitIn(calls[n], epoch) /\ ~ HitIn(calls'[n], epoch)
      BY <1>1, <2>3, <2>6, ComingIs DEF HitIn
    <3> QED BY <1>1, <1>2, <2>5, <2>6, <3>1, FaultsStand
  <2>9. \A m \in CallIds : KeptFor(m)
    BY <2>5 DEF KeptFor, MessagesOf, BouncesOf
  <2>10. CallSound(n)'
    <3>1. Untouched(store, n)' /\ (seeding.on => Untouched(seeding.store, n))'
      BY <1>1, <2>5, ComingIs DEF Untouched
    <3>2. epoch' = epoch
      BY <1>1
    <3>3. HttpSound(n)'
      BY <1>2, <2>3, <2>6, <3>2 DEF HttpSound
    <3> QED BY <2>3, <2>6, <3>1, <3>3 DEF CallSound
  <2> QED BY <1>1, <1>2, <2>3, <2>4, <2>5, <2>7, <2>8, <2>9, <2>10, OneCall DEF Call
<1>6. ASSUME Serve(n, NewCall(request), logged)
      PROVE  Sound'
  <2>1. ~ TookIn(NewCall(request), epoch) /\ NewCall(request).heldIn <= epoch
    BY <1>2, <1>4 DEF TookIn
  <2>2. calls[n].at \in Unserved /\ ~ TookIn(calls[n], epoch) /\ ~ HitIn(calls[n], epoch)
    BY <1>1, ComingIs
  <2> HIDE DEF logged
  <2> QED BY <1>1, <1>3, <1>4, <1>6, <2>1, <2>2, ServeSound
<1> QED BY <1>1, <1>5, <1>6

\* A request that is held, or was let go, has not been answered by a fault.
LEMMA HeldIs ==
  ASSUME Sound, NEW n \in CallIds, calls[n].at \in {"held", "released"}
  PROVE  /\ calls[n] \in Http /\ calls[n].kind = "http" /\ calls[n].at \in Unserved
         /\ calls[n].fault = 0 /\ calls[n].servedIn = 0 /\ calls[n].heldIn <= epoch
         /\ ~ HitIn(calls[n], epoch)
<1>1. calls[n] \in Http /\ calls[n].kind = "http"
  <2>1. calls[n] \in Call
    BY DEF Sound, TypeOK, Call
  <2> QED BY <2>1, KindTells DEF Http
<1>2. HttpSound(n)
  BY <1>1 DEF Sound, CallsSound, CallSound
<1> QED BY <1>1, <1>2 DEF HttpSound, HitIn, Unserved

\* The hold of a request ends, by its timer or by a reset of the clock.
LEMMA HoldEndsSound ==
  ASSUME Sound, NEW n \in CallIds, HoldEnds(n) \/ Resume(n)
  PROVE  Sound'
<1>1. store \in Store /\ store = [store EXCEPT !.log = store.log]
  BY DEF Sound, TypeOK, Store
<1>2. CASE HoldEnds(n)
  <2> DEFINE call == [calls[n] EXCEPT !.timer = FALSE]
  <2>1. /\ Serve(n, call, store) /\ UNCHANGED <<epoch, session, seeding, counters>>
        /\ calls[n].at \in {"held", "released"}
    BY <1>2 DEF HoldEnds
  <2>2. /\ call \in Http /\ call.at = calls[n].at /\ call.fault = calls[n].fault
        /\ call.servedIn = calls[n].servedIn /\ call.heldIn = calls[n].heldIn
        /\ call.kind = calls[n].kind /\ call.hold = calls[n].hold
    BY <2>1, HeldIs DEF Http
  <2> HIDE DEF call
  <2>3. TookIn(call, epoch) <=> TookIn(calls[n], epoch)
    BY <2>2 DEF TookIn
  <2> QED BY <1>1, <2>1, <2>2, <2>3, HeldIs, ServeSound
<1>3. CASE Resume(n)
  <2>1. /\ Serve(n, calls[n], store) /\ UNCHANGED <<epoch, session, seeding, counters>>
        /\ calls[n].at \in {"held", "released"}
    BY <1>3 DEF Resume
  <2> QED BY <1>1, <2>1, HeldIs, ServeSound
<1> QED BY <1>2, <1>3

\* The client of a fault that never answers gives up.
LEMMA GiveUpSound ==
  ASSUME Sound, NEW n \in CallIds, GiveUp(n)
  PROVE  Sound'
<1> DEFINE c == [calls[n] EXCEPT !.at = "answered"]
<1>1. /\ calls[n].at = "waiting" /\ Put(n, c)
      /\ UNCHANGED <<store, epoch, session, seeding, counters>>
  BY DEF GiveUp
<1>2. /\ store \in Store /\ session \in Session /\ calls \in [CallIds -> Call]
      /\ LatenciesSound /\ FaultsSound /\ CallSound(n)
  BY DEF Sound, TypeOK, Call, CallsSound
<1>3. calls[n] \in Http /\ calls[n].kind = "http"
  BY <1>1, <1>2, KindTells DEF Http
<1>4. /\ c \in Http /\ c.kind = "http" /\ c.at = "answered"
      /\ c.request = calls[n].request /\ c.hold = calls[n].hold /\ c.heldIn = calls[n].heldIn
      /\ c.fault = calls[n].fault /\ c.servedIn = calls[n].servedIn
      /\ c.status = calls[n].status /\ c.items = calls[n].items
  BY <1>3 DEF Http
<1> HIDE DEF c
<1>5. calls'[n] = c /\ \A m \in CallIds \ {n} : calls'[m] = calls[m]
  BY <1>1, <1>2, <1>4, PutTyped DEF Call
<1>6. LatenciesSound'
  <2>1. \A m \in CallIds : /\ TookIn(calls'[m], epoch) <=> TookIn(calls[m], epoch)
                           /\ TookIn(calls[m], epoch) => calls'[m].hold = calls[m].hold
    BY <1>3, <1>4, <1>5 DEF TookIn
  <2> QED BY <1>1, <1>2, <2>1, LatenciesStand
<1>7. FaultsSound'
  <2>1. \A m \in CallIds : /\ HitIn(calls'[m], epoch) <=> HitIn(calls[m], epoch)
                           /\ HitIn(calls[m], epoch) => calls'[m].fault = calls[m].fault
    BY <1>3, <1>4, <1>5 DEF HitIn
  <2> QED BY <1>1, <1>2, <2>1, FaultsStand
<1>8. \A m \in CallIds : KeptFor(m)
  BY <1>1 DEF KeptFor, MessagesOf, BouncesOf
<1>9. CallSound(n)'
  <2>1. HttpAnswerHolds(n)' <=> HttpAnswerHolds(n)
    <3>1. MessagesOf(n)' = MessagesOf(n)
      BY <1>8 DEF KeptFor
    <3>2. /\ calls'[n].request = calls[n].request /\ calls'[n].status = calls[n].status
          /\ calls'[n].items = calls[n].items
      BY <1>4, <1>5
    <3> QED BY <3>1, <3>2 DEF HttpAnswerHolds
  <2>2. HttpSound(n)'
    BY <1>1, <1>2, <1>3, <1>4, <1>5, <2>1 DEF HttpSound, CallSound
  <2> QED BY <1>4, <1>5, <2>2 DEF CallSound, Unserved
<1> QED BY <1>1, <1>2, <1>4, <1>6, <1>7, <1>8, <1>9, OneCall DEF Call

-----------------------------------------------------------------------------
(***************************************************************************)
(* Mails.                                                                  *)
(***************************************************************************)
\* A step of a mail, which takes no rule.
LEMMA MailStep ==
  ASSUME Sound, NEW n \in CallIds, NEW c \in Mail \union Inbound, calls[n].kind # "http", Put(n, c),
         store' \in Store, store'.latencies = store.latencies, store'.faults = store.faults,
         UNCHANGED <<epoch, seeding, counters>>, session' \in Session,
         CallSound(n)', \A m \in CallIds \ {n} : KeptFor(m)
  PROVE  Sound'
<1>1. /\ store \in Store /\ calls \in [CallIds -> Call] /\ LatenciesSound /\ FaultsSound
      /\ epoch' = epoch /\ c \in Call /\ c.kind # "http"
  BY DEF Sound, TypeOK, Call, Mail, Inbound
<1>2. calls'[n] = c /\ \A m \in CallIds \ {n} : calls'[m] = calls[m]
  BY <1>1, PutTyped
<1>3. LatenciesSound'
  <2>1. \A m \in CallIds : /\ TookIn(calls'[m], epoch) <=> TookIn(calls[m], epoch)
                           /\ TookIn(calls[m], epoch) => calls'[m].hold = calls[m].hold
    BY <1>1, <1>2 DEF TookIn
  <2> QED BY <1>1, <2>1, LatenciesStand
<1>4. FaultsSound'
  <2>1. \A m \in CallIds : /\ HitIn(calls'[m], epoch) <=> HitIn(calls[m], epoch)
                           /\ HitIn(calls[m], epoch) => calls'[m].fault = calls[m].fault
    BY <1>1, <1>2 DEF HitIn
  <2> QED BY <1>1, <2>1, FaultsStand
<1> QED BY <1>1, <1>3, <1>4, OneCall

\* What a fault rule of a stage does.
LEMMA TakeFaultIs ==
  ASSUME Sound, NEW stage, NEW back \in {"closed", "ready", "mail"}, TakeFault(stage, back)
  PROVE  /\ store' \in Store /\ session' \in Session
         /\ store'.latencies = store.latencies /\ store'.faults = store.faults
         /\ store'.outbound = store.outbound /\ store'.bounces = store.bounces
         /\ store'.inbound = store.inbound
<1>1. store \in Store /\ session \in Session
  BY DEF Sound, TypeOK
<1>2. PICK i \in First(FaultsAt(store, stage)) :
        /\ store' = WithoutFault(store, i)
        /\ session' = [session EXCEPT !.at = IF store.smtpFaults[i].code = 421 THEN "closed"
                                             ELSE back,
                                      !.to = IF back = "mail" THEN @ ELSE {}]
  BY DEF TakeFault
<1>3. i \in DOMAIN store.smtpFaults
  BY DEF First, FaultsAt
<1>4. store' \in Store
  BY <1>1, <1>2, <1>3, WithoutFaultTyped
<1>5. session' \in Session
  <2> DEFINE at == IF store.smtpFaults[i].code = 421 THEN "closed" ELSE back
             to == IF back = "mail" THEN session.to ELSE {}
  <2>1. session' = [session EXCEPT !.at = at, !.to = to]
    BY <1>2
  <2>2. at \in {"closed", "ready", "mail"} /\ to \in SUBSET Addresses
    BY <1>1 DEF Session
  <2> HIDE DEF at, to
  <2> QED BY <1>1, <2>1, <2>2 DEF Session
<1>6. /\ store'.latencies = store.latencies /\ store'.faults = store.faults
      /\ store'.outbound = store.outbound /\ store'.bounces = store.bounces
      /\ store'.inbound = store.inbound
  BY <1>1, <1>2 DEF WithoutFault, Store
<1> QED BY <1>4, <1>5, <1>6

\* The steps of a session up to the mail.
LEMMA SessionSound ==
  ASSUME Sound,
         \/ Connect \/ MailFrom \/ Quit
         \/ \E as \in {"server", "smtp"} : Auth(as)
         \/ \E a \in Addresses : RcptTo(a)
  PROVE  Sound'
<1>1. store \in Store /\ session \in Session /\ controls \in 0..MaxControls
  BY DEF Sound, TypeOK
<1>2. CASE Connect
  <2>1. /\ \/ TakeFault("connect", "closed")
           \/ NoFault("connect") /\ session' = [session EXCEPT !.at = "open", !.to = {}]
        /\ UNCHANGED <<epoch, calls, seeding, counters>>
    BY <1>2 DEF Connect
  <2>2. /\ store' \in Store /\ session' \in Session
        /\ store'.latencies = store.latencies /\ store'.faults = store.faults
        /\ store'.outbound = store.outbound /\ store'.bounces = store.bounces
        /\ store'.inbound = store.inbound
    <3>1. CASE TakeFault("connect", "closed")
      BY <3>1, TakeFaultIs
    <3>2. CASE NoFault("connect") /\ session' = [session EXCEPT !.at = "open", !.to = {}]
      BY <1>1, <3>2 DEF NoFault, Session
    <3> QED BY <2>1, <3>1, <3>2
  <2> QED BY <1>1, <2>1, <2>2, AsideSound DEF counters
<1>3. CASE MailFrom
  <2>1. /\ TakeFault("mail", "ready") \/ (NoFault("mail") /\ To("mail"))
        /\ UNCHANGED <<epoch, calls, seeding, counters>>
    BY <1>3 DEF MailFrom
  <2>2. /\ store' \in Store /\ session' \in Session
        /\ store'.latencies = store.latencies /\ store'.faults = store.faults
        /\ store'.outbound = store.outbound /\ store'.bounces = store.bounces
        /\ store'.inbound = store.inbound
    <3>1. CASE TakeFault("mail", "ready")
      BY <3>1, TakeFaultIs
    <3>2. CASE NoFault("mail") /\ To("mail")
      BY <1>1, <3>2 DEF NoFault, To, Session
    <3> QED BY <2>1, <3>1, <3>2
  <2> QED BY <1>1, <2>1, <2>2, AsideSound DEF counters
<1>4. CASE Quit
  <2>1. session' \in Session /\ UNCHANGED <<store, epoch, calls, seeding, counters>>
    BY <1>1, <1>4 DEF Quit, Session
  <2> QED BY <1>1, <2>1, AsideSound DEF counters
<1>5. ASSUME NEW as \in {"server", "smtp"}, Auth(as)
      PROVE  Sound'
  <2>1. session' \in Session /\ UNCHANGED <<store, epoch, calls, seeding, counters>>
    BY <1>1, <1>5 DEF Auth, Session
  <2> QED BY <1>1, <2>1, AsideSound DEF counters
<1>6. ASSUME NEW a \in Addresses, RcptTo(a)
      PROVE  Sound'
  <2>1. /\ \/ TakeFault("rcpt", "mail")
           \/ NoFault("rcpt") /\ session' = [session EXCEPT !.to = @ \union {a}]
        /\ UNCHANGED <<epoch, calls, seeding, counters>>
    BY <1>6 DEF RcptTo
  <2>2. /\ store' \in Store /\ session' \in Session
        /\ store'.latencies = store.latencies /\ store'.faults = store.faults
        /\ store'.outbound = store.outbound /\ store'.bounces = store.bounces
        /\ store'.inbound = store.inbound
    <3>1. CASE TakeFault("rcpt", "mail")
      BY <3>1, TakeFaultIs
    <3>2. CASE NoFault("rcpt") /\ session' = [session EXCEPT !.to = @ \union {a}]
      BY <1>1, <3>2 DEF NoFault, Session
    <3> QED BY <2>1, <3>1, <3>2
  <2> QED BY <1>1, <2>1, <2>2, AsideSound DEF counters
<1> QED BY <1>2, <1>3, <1>4, <1>5, <1>6

\* The whole mail has come.
LEMMA DataSound ==
  ASSUME Sound, NEW n \in CallIds, NEW bad \in MailFaults, Data(n, bad)
  PROVE  Sound'
<1>1. /\ store \in Store /\ session \in Session /\ controls \in 0..MaxControls
      /\ epoch \in Nat \ {0} /\ calls \in [CallIds -> Call]
  <2>1. epoch \in Nat \ {0}
    BY IntakeAssumption DEF Sound, TypeOK
  <2> QED BY <2>1 DEF Sound, TypeOK, Call
<1>2. Coming(n) /\ UNCHANGED <<epoch, seeding, counters>>
  BY DEF Data
<1>3. CASE session' = EndOfMail /\ UNCHANGED <<store, calls>>
  <2>1. session' \in Session
    BY <1>1, <1>3 DEF EndOfMail, Session
  <2> QED BY <1>1, <1>2, <1>3, <2>1, AsideSound DEF counters
<1>4. CASE TakeFault("data", "ready") /\ UNCHANGED calls
  BY <1>1, <1>2, <1>4, TakeFaultIs, AsideSound DEF counters
<1>5. CASE NoFault("data") /\ To("data") /\
           Put(n, [kind |-> "mail", at |-> "parsing", bad |-> bad, to |-> session.to,
                   left |-> {}, since |-> 0, code |-> 0])
  <2> DEFINE c == [kind |-> "mail", at |-> "parsing", bad |-> bad, to |-> session.to,
                   left |-> {}, since |-> 0, code |-> 0]
  <2>1. c \in Mail /\ c.kind = "mail" /\ c.at = "parsing" /\ c.since = 0 /\ Put(n, c)
    BY <1>1, <1>5 DEF Mail, Session
  <2> HIDE DEF c
  <2>2. store' = store /\ session' \in Session
    BY <1>1, <1>5 DEF NoFault, To, Session
  <2>3. calls'[n] = c
    BY <1>1, <2>1, PutTyped DEF Call
  <2>4. CallSound(n)'
    <3>1. Untouched(store, n)' /\ (seeding.on => Untouched(seeding.store, n))'
      BY <1>2, <2>2, ComingIs DEF Untouched
    <3>2. epoch' = epoch
      BY <1>2
    <3>3. MailSound(n)'
      BY <1>1, <2>1, <2>3, <3>2 DEF MailSound
    <3> QED BY <2>1, <2>3, <3>1, <3>3 DEF CallSound
  <2>5. \A m \in CallIds : KeptFor(m)
    BY <2>2 DEF KeptFor, MessagesOf, BouncesOf
  <2>6. calls[n].kind # "http"
    BY <1>2, ComingIs DEF NoCall
  <2> QED BY <1>1, <1>2, <2>1, <2>2, <2>4, <2>5, <2>6, MailStep
<1> QED BY <1>3, <1>4, <1>5 DEF Data

\* A mail that is parsed, or whose bounces are under way.
LEMMA MailIs ==
  ASSUME Sound, NEW n \in CallIds, calls[n].kind = "mail" \/ calls[n].at = "bouncing"
  PROVE  /\ calls[n] \in Mail /\ calls[n].kind = "mail" /\ MailSound(n)
         /\ calls[n].bad \in MailFaults /\ calls[n].to \subseteq Addresses
         /\ calls[n].left \subseteq Addresses /\ calls[n].since \in Nat /\ calls[n].code \in Nat
<1>1. calls[n] \in Call
  BY DEF Sound, TypeOK, Call
<1>2. calls[n] \in Mail
  BY <1>1, KindTells
<1>3. calls[n].kind = "mail"
  BY <1>2 DEF Mail
<1> QED BY <1>2, <1>3 DEF Mail, Sound, CallsSound, CallSound

\* A mail is rejected, stored, or both stored and about to be bounced, or
\* bounced as a whole.
LEMMA MailParsedSound ==
  ASSUME Sound, NEW n \in CallIds, MailParsed(n)
  PROVE  Sound'
<1> DEFINE draft == [bad |-> calls[n].bad, to |-> calls[n].to]
           mail == [calls[n] EXCEPT !.since = epoch]
           answer == Submit(store.world, draft)
           inactive == Inactive(store.world, draft)
           message == [call |-> n, item |-> 1, inactive |-> inactive]
           stored == [store EXCEPT !.outbound = @ \union {message}]
           done(code) == [mail EXCEPT !.at = "answered", !.code = code]
           bounced(to) == [mail EXCEPT !.at = "bouncing", !.left = to]
<1>1. /\ store \in Store /\ session \in Session /\ calls \in [CallIds -> Call]
      /\ epoch \in Nat \ {0}
  <2>1. epoch \in Nat \ {0}
    BY IntakeAssumption DEF Sound, TypeOK
  <2> QED BY <2>1 DEF Sound, TypeOK, Call
<1>2. /\ calls[n].kind = "mail" /\ calls[n].at = "parsing"
      /\ UNCHANGED <<epoch, seeding, counters>>
      /\ \/ Reply(n, mail, 502) /\ UNCHANGED store
         \/ inactive = {} /\ store' = stored /\ Reply(n, mail, 250)
         \/ store' = stored /\ Bouncing(n, mail, inactive)
         \/ UNCHANGED store /\ Bouncing(n, mail, draft.to)
  BY DEF MailParsed, LeftOut
<1>3. /\ calls[n] \in Mail /\ calls[n].bad \in MailFaults /\ calls[n].to \subseteq Addresses
  BY <1>2, MailIs
<1>4. inactive \subseteq calls[n].to
  BY DEF Inactive
<1> HIDE DEF inactive
<1>5. /\ \A code \in Nat : /\ done(code) \in Mail /\ done(code).at = "answered"
                           /\ done(code).code = code /\ done(code).since = epoch
                           /\ done(code).to = calls[n].to /\ done(code).kind = "mail"
                           /\ done(code).left \subseteq Addresses
      /\ \A to \in SUBSET Addresses :
           /\ bounced(to) \in Mail /\ bounced(to).at = "bouncing" /\ bounced(to).left = to
           /\ bounced(to).since = epoch /\ bounced(to).to = calls[n].to /\ bounced(to).kind = "mail"
  BY <1>1, <1>3 DEF Mail
<1>6. MessagesOf(n) = {} /\ BouncesOf(n) = {} /\ n \notin store.inbound
  BY <1>2, UntouchedIs DEF Sound, CallsSound, CallSound, Unserved
<1>7. stored \in Store /\ stored.latencies = store.latencies /\ stored.faults = store.faults
      /\ stored.outbound = store.outbound \union {message} /\ stored.bounces = store.bounces
      /\ stored.inbound = store.inbound
  <2>1. message \in Message
    BY <1>3, <1>4 DEF Message
  <2> QED BY <1>1, <2>1 DEF Store
<1> HIDE DEF done, bounced, mail, stored
<1>8. ASSUME store' = store
      PROVE  /\ MessagesOf(n)' = {} /\ BouncesOf(n)' = {} /\ \A m \in CallIds : KeptFor(m)
             /\ store' \in Store /\ store'.latencies = store.latencies /\ store'.faults = store.faults
  BY <1>1, <1>6, <1>8 DEF MessagesOf, BouncesOf, KeptFor
<1>9. ASSUME store' = stored
      PROVE  /\ MessagesOf(n)' = {message} /\ BouncesOf(n)' = {} /\ \A m \in CallIds \ {n} : KeptFor(m)
             /\ store' \in Store /\ store'.latencies = store.latencies /\ store'.faults = store.faults
  <2>1. MessagesOf(n)' = {message}
    BY <1>6, <1>7, <1>9 DEF MessagesOf
  <2>2. \A m \in CallIds \ {n} : MessagesOf(m)' = MessagesOf(m)
    BY <1>7, <1>9 DEF MessagesOf
  <2>3. \A m \in CallIds : BouncesOf(m)' = BouncesOf(m)
    BY <1>7, <1>9 DEF BouncesOf
  <2> QED BY <1>6, <1>7, <1>9, <2>1, <2>2, <2>3 DEF KeptFor
<1>10. ASSUME NEW c \in Mail, Put(n, c), c.kind = "mail", c.at \in {"answered", "bouncing"},
              session' \in Session, store' = store \/ store' = stored, MailSound(n)'
       PROVE  Sound'
  <2>1. calls'[n] = c
    BY <1>1, <1>10, PutTyped DEF Call
  <2>2. CallSound(n)'
    BY <1>10, <2>1 DEF CallSound, Unserved
  <2>3. /\ \A m \in CallIds \ {n} : KeptFor(m)
        /\ store' \in Store /\ store'.latencies = store.latencies /\ store'.faults = store.faults
    BY <1>8, <1>9, <1>10
  <2> QED BY <1>2, <1>10, <2>2, <2>3, MailStep
<1>11. ASSUME NEW c \in Mail, Put(n, c)
       PROVE  calls'[n] = c
  BY <1>1, <1>11, PutTyped DEF Call
<1>12. EndOfMail \in Session /\ epoch' = epoch
  BY <1>1, <1>2 DEF EndOfMail, Session
<1>13. CASE Reply(n, mail, 502) /\ UNCHANGED store
  <2>1. Put(n, done(502)) /\ session' \in Session
    BY <1>12, <1>13 DEF Reply, done
  <2>2. MessagesOf(n)' = {} /\ BouncesOf(n)' = {} /\ calls'[n] = done(502)
    BY <1>5, <1>8, <1>11, <1>13, <2>1
  <2>3. SentTo(n)' = {}
    BY <2>2 DEF SentTo
  <2>4. MailAnswerHolds(n)'
    BY <1>5, <2>2 DEF MailAnswerHolds
  <2>5. MailSound(n)'
    BY <1>1, <1>5, <1>12, <2>2, <2>3, <2>4 DEF MailSound
  <2> QED BY <1>5, <1>10, <1>13, <2>1, <2>5
<1>14. CASE inactive = {} /\ store' = stored /\ Reply(n, mail, 250)
  <2>1. Put(n, done(250)) /\ session' \in Session
    BY <1>12, <1>14 DEF Reply, done
  <2>2. MessagesOf(n)' = {message} /\ BouncesOf(n)' = {} /\ calls'[n] = done(250)
    BY <1>5, <1>9, <1>11, <1>14, <2>1
  <2>3. message.inactive = {} /\ calls'[n].to = calls[n].to /\ calls'[n].at = "answered"
        /\ calls'[n].code = 250 /\ calls'[n].since = epoch
    BY <1>5, <1>14, <2>2
  <2>4. SentTo(n)' = calls[n].to
    BY <2>2, <2>3 DEF SentTo
  <2>5. MailAnswerHolds(n)'
    BY <2>2, <2>3 DEF MailAnswerHolds
  <2>6. MailSound(n)'
    BY <1>1, <1>12, <2>3, <2>5 DEF MailSound
  <2> QED BY <1>5, <1>10, <1>14, <2>1, <2>6
<1>15. CASE store' = stored /\ Bouncing(n, mail, inactive)
  <2>1. Put(n, bounced(inactive)) /\ session' \in Session /\ inactive \in SUBSET Addresses
    BY <1>1, <1>3, <1>4, <1>15 DEF Bouncing, bounced
  <2>2. MessagesOf(n)' = {message} /\ BouncesOf(n)' = {} /\ calls'[n] = bounced(inactive)
    BY <1>5, <1>9, <1>11, <1>15, <2>1
  <2>3. /\ message.inactive = inactive /\ calls'[n].to = calls[n].to /\ calls'[n].at = "bouncing"
        /\ calls'[n].left = inactive /\ calls'[n].since = epoch
    BY <1>5, <2>1, <2>2
  <2>4. SentTo(n)' = calls[n].to \ inactive
    BY <2>2, <2>3 DEF SentTo
  <2>5. MailSound(n)'
    BY <1>1, <1>4, <1>12, <2>2, <2>3, <2>4 DEF MailSound
  <2> QED BY <1>5, <1>10, <1>15, <2>1, <2>5
<1>16. CASE UNCHANGED store /\ Bouncing(n, mail, draft.to)
  <2>1. Put(n, bounced(calls[n].to)) /\ session' \in Session /\ calls[n].to \in SUBSET Addresses
    BY <1>1, <1>3, <1>16 DEF Bouncing, bounced
  <2>2. MessagesOf(n)' = {} /\ BouncesOf(n)' = {} /\ calls'[n] = bounced(calls[n].to)
    BY <1>5, <1>8, <1>11, <1>16, <2>1
  <2>3. /\ calls'[n].to = calls[n].to /\ calls'[n].at = "bouncing"
        /\ calls'[n].left = calls[n].to /\ calls'[n].since = epoch
    BY <1>5, <2>1, <2>2
  <2>4. SentTo(n)' = {}
    BY <2>2 DEF SentTo
  <2>5. MailSound(n)'
    BY <1>1, <1>12, <2>2, <2>3, <2>4 DEF MailSound
  <2> QED BY <1>5, <1>10, <1>16, <2>1, <2>5
<1> QED BY <1>2, <1>13, <1>14, <1>15, <1>16

\* One bounce of a mail, or the crash of a bounce that a seed refuses an ID.
LEMMA BounceSound ==
  ASSUME Sound, NEW n \in CallIds, NEW a \in Addresses, Bounce(n, a)
  PROVE  Sound'
<1> DEFINE left == calls[n].left \ {a}
           done(code) == [[calls[n] EXCEPT !.left = left] EXCEPT !.at = "answered", !.code = code]
           failed(code) == [calls[n] EXCEPT !.at = "answered", !.code = code]
           bounced == [calls[n] EXCEPT !.at = "bouncing", !.left = left]
           now == calls[n].since = epoch
<1>1. /\ store \in Store /\ session \in Session /\ calls \in [CallIds -> Call] /\ epoch \in Nat \ {0}
  <2>1. epoch \in Nat \ {0}
    BY IntakeAssumption DEF Sound, TypeOK
  <2> QED BY <2>1 DEF Sound, TypeOK, Call
<1>2. /\ calls[n].at = "bouncing" /\ a \in calls[n].left /\ UNCHANGED <<epoch, seeding, counters>>
      /\ \/ Reply(n, calls[n], 554) /\ UNCHANGED store
         \/ /\ store' = [store EXCEPT !.bounces = @ \union {<<n, a>>}]
            /\ IF left = {} THEN Reply(n, [calls[n] EXCEPT !.left = left], 250)
               ELSE Bouncing(n, calls[n], left)
  BY DEF Bounce
<1>3. /\ calls[n] \in Mail /\ calls[n].kind = "mail" /\ MailSound(n)
      /\ calls[n].to \subseteq Addresses /\ calls[n].left \subseteq Addresses
      /\ calls[n].since \in Nat
  BY <1>2, MailIs
<1>4. EndOfMail \in Session /\ epoch' = epoch
  BY <1>1, <1>2 DEF EndOfMail, Session
<1>5. \A code \in Nat :
        /\ done(code) \in Mail /\ done(code).at = "answered" /\ done(code).code = code
        /\ done(code).since = calls[n].since /\ done(code).to = calls[n].to /\ done(code).kind = "mail"
  BY <1>3 DEF Mail
<1>6. /\ bounced \in Mail /\ bounced.at = "bouncing" /\ bounced.left = left
      /\ bounced.since = calls[n].since /\ bounced.to = calls[n].to /\ bounced.kind = "mail"
  BY <1>3 DEF Mail
<1>7. \A code \in Nat :
        /\ failed(code) \in Mail /\ failed(code).at = "answered" /\ failed(code).code = code
        /\ failed(code).since = calls[n].since /\ failed(code).to = calls[n].to /\ failed(code).kind = "mail"
  BY <1>3 DEF Mail
<1>8. /\ calls[n].since <= epoch
      /\ now => /\ SentTo(n) \intersect (BouncesOf(n) \union calls[n].left) = {}
                /\ SentTo(n) \union BouncesOf(n) \union calls[n].left = calls[n].to
  BY <1>2, <1>3 DEF MailSound
<1>9. ASSUME NEW c \in Mail, Put(n, c), c.kind = "mail", c.to = calls[n].to
      PROVE  /\ calls'[n] = c /\ calls'[n].to = calls[n].to
             /\ MessagesOf(n)' = MessagesOf(n) => SentTo(n)' = SentTo(n)
  <2>1. calls'[n] = c
    BY <1>1, <1>9, PutTyped DEF Call
  <2> QED BY <1>9, <2>1 DEF SentTo
<1>10. ASSUME NEW c \in Mail, Put(n, c), c.kind = "mail", c.at \in {"answered", "bouncing"},
              session' \in Session, store' \in Store, store'.latencies = store.latencies,
              store'.faults = store.faults, MailSound(n)', \A m \in CallIds \ {n} : KeptFor(m)
       PROVE  Sound'
  <2>1. calls'[n] = c
    BY <1>1, <1>10, PutTyped DEF Call
  <2>2. CallSound(n)'
    BY <1>10, <2>1 DEF CallSound, Unserved
  <2>3. calls[n].kind # "http"
    BY <1>3
  <2> QED BY <1>2, <1>10, <2>2, <2>3, MailStep
<1> HIDE DEF done, failed, bounced
<1>11. CASE Reply(n, calls[n], 554) /\ UNCHANGED store
  <2>1. Put(n, failed(554)) /\ session' \in Session
    BY <1>4, <1>11 DEF Reply, failed
  <2>2. /\ MessagesOf(n)' = MessagesOf(n) /\ BouncesOf(n)' = BouncesOf(n)
        /\ \A m \in CallIds : KeptFor(m)
    BY <1>11 DEF MessagesOf, BouncesOf, KeptFor
  <2>3. calls'[n] = failed(554) /\ SentTo(n)' = SentTo(n)
    BY <1>7, <1>9, <2>1, <2>2
  <2>4. now => MailAnswerHolds(n)'
    <3>1. now => SentTo(n)' \intersect BouncesOf(n)' = {}
      BY <1>8, <2>2, <2>3
    <3> QED BY <1>7, <2>3, <3>1 DEF MailAnswerHolds, SentTo
  <2>5. MailSound(n)'
    BY <1>1, <1>4, <1>7, <1>8, <2>3, <2>4 DEF MailSound
  <2> QED BY <1>1, <1>7, <1>10, <1>11, <2>1, <2>2, <2>5
<1>12. CASE /\ store' = [store EXCEPT !.bounces = @ \union {<<n, a>>}]
            /\ IF left = {} THEN Reply(n, [calls[n] EXCEPT !.left = left], 250)
               ELSE Bouncing(n, calls[n], left)
  <2>1. /\ store' \in Store /\ store'.bounces = store.bounces \union {<<n, a>>}
        /\ store'.outbound = store.outbound /\ store'.inbound = store.inbound
        /\ store'.latencies = store.latencies /\ store'.faults = store.faults
    <3>1. store' = [store EXCEPT !.bounces = @ \union {<<n, a>>}]
      BY <1>12
    <3>2. store.bounces \union {<<n, a>>} \in SUBSET (CallIds \X Addresses)
      BY <1>1 DEF Store
    <3> QED BY <1>1, <3>1, <3>2 DEF Store
  <2>2. MessagesOf(n)' = MessagesOf(n) /\ BouncesOf(n)' = BouncesOf(n) \union {a}
    BY <2>1 DEF MessagesOf, BouncesOf
  <2>3. \A m \in CallIds \ {n} : KeptFor(m)
    BY <2>1 DEF MessagesOf, BouncesOf, KeptFor
  <2>4. now => /\ SentTo(n) \intersect (BouncesOf(n)' \union left) = {}
               /\ SentTo(n) \union BouncesOf(n)' \union left = calls[n].to
    BY <1>2, <1>8, <2>2
  <2>5. CASE left = {} /\ Reply(n, [calls[n] EXCEPT !.left = left], 250)
    <3>1. Put(n, done(250)) /\ session' \in Session
      BY <1>4, <2>5 DEF Reply, done
    <3>2. calls'[n] = done(250) /\ SentTo(n)' = SentTo(n)
      BY <1>5, <1>9, <2>2, <3>1
    <3>3. now => MailAnswerHolds(n)'
      <4>1. now => /\ SentTo(n)' \intersect BouncesOf(n)' = {}
                   /\ SentTo(n)' \union BouncesOf(n)' = calls'[n].to
        BY <1>5, <2>4, <2>5, <3>2
      <4> QED BY <1>5, <3>2, <4>1 DEF MailAnswerHolds, SentTo
    <3>4. MailSound(n)'
      BY <1>1, <1>4, <1>5, <1>8, <3>2, <3>3 DEF MailSound
    <3> QED BY <1>5, <1>10, <2>1, <2>3, <3>1, <3>4
  <2>6. CASE Bouncing(n, calls[n], left)
    <3>1. Put(n, bounced) /\ session' \in Session
      BY <1>1, <2>6 DEF Bouncing, bounced
    <3>2. calls'[n] = bounced /\ SentTo(n)' = SentTo(n)
      BY <1>6, <1>9, <2>2, <3>1
    <3>3. MailSound(n)'
      BY <1>1, <1>4, <1>6, <1>8, <2>4, <3>2 DEF MailSound
    <3> QED BY <1>6, <1>10, <2>1, <2>3, <3>1, <3>3
  <2> QED BY <1>12, <2>5, <2>6
<1> QED BY <1>2, <1>11, <1>12

\* Inbound mail comes, and the handler takes the object of the state.
LEMMA ReceiveInboundSound ==
  ASSUME Sound, NEW n \in CallIds, NEW from \in Writers, ReceiveInbound(n, from)
  PROVE  Sound'
<1> DEFINE c == [kind |-> "inbound", at |-> "parsing", from |-> from, state |-> epoch,
                 up |-> store.up, status |-> "pending"]
<1>1. /\ store \in Store /\ session \in Session /\ epoch \in Nat
      /\ calls \in [CallIds -> Call]
  <2>1. epoch \in Nat
    BY IntakeAssumption DEF Sound, TypeOK
  <2> QED BY <2>1 DEF Sound, TypeOK, Call
<1>2. Coming(n) /\ Put(n, c) /\ UNCHANGED <<store, epoch, session, seeding, counters>>
  BY DEF ReceiveInbound
<1>3. c \in Inbound /\ c.kind = "inbound" /\ c.at = "parsing" /\ c.state = epoch
  BY <1>1 DEF Inbound, Store
<1> HIDE DEF c
<1>4. calls'[n] = c /\ epoch' = epoch
  BY <1>1, <1>2, <1>3, PutTyped DEF Call
<1>5. CallSound(n)'
  <2>1. Untouched(store, n)' /\ (seeding.on => Untouched(seeding.store, n))'
    BY <1>2, ComingIs DEF Untouched
  <2>2. InboundSound(n)'
    BY <1>1, <1>3, <1>4 DEF InboundSound
  <2> QED BY <1>3, <1>4, <2>1, <2>2 DEF CallSound
<1>6. \A m \in CallIds : KeptFor(m)
  BY <1>2 DEF KeptFor, MessagesOf, BouncesOf
<1>7. calls[n].kind # "http"
  BY <1>2, ComingIs DEF NoCall
<1> QED BY <1>1, <1>2, <1>3, <1>5, <1>6, <1>7, MailStep

\* It is stored in the object that was taken, which may not be the state.
LEMMA InboundParsedSound ==
  ASSUME Sound, NEW n \in CallIds, InboundParsed(n)
  PROVE  Sound'
<1> DEFINE mail == calls[n]
           current == mail.state = epoch
           up == IF current THEN store.up ELSE mail.up
           verdict == IF mail.from \in store.rules THEN "Blocked" ELSE "Queued"
           status == IF up THEN verdict ELSE "refused"
           c == [mail EXCEPT !.at = "answered", !.status = status]
<1>1. /\ store \in Store /\ session \in Session /\ epoch \in Nat
      /\ calls \in [CallIds -> Call]
  <2>1. epoch \in Nat
    BY IntakeAssumption DEF Sound, TypeOK
  <2> QED BY <2>1 DEF Sound, TypeOK, Call
<1>2. /\ mail.kind = "inbound" /\ mail.at = "parsing" /\ Put(n, c)
      /\ store' = IF current /\ up THEN [store EXCEPT !.inbound = @ \union {n}] ELSE store
      /\ UNCHANGED <<epoch, session, seeding, counters>>
  BY DEF InboundParsed
<1>3. mail \in Inbound /\ InboundSound(n) /\ n \notin store.inbound
  <2>1. mail \in Call
    BY <1>1
  <2> QED BY <1>2, <2>1, KindTells DEF Sound, CallsSound, CallSound, Untouched, Unserved
<1>4. status \in {"Queued", "Blocked", "refused"} /\ (status # "refused" <=> up)
  BY <1>1, <1>3 DEF Store, Inbound
<1> HIDE DEF up, status
<1>5. /\ c \in Inbound /\ c.kind = "inbound" /\ c.at = "answered" /\ c.state = mail.state
      /\ c.status = status
  BY <1>3, <1>4 DEF Inbound
<1> HIDE DEF c
<1>6. calls'[n] = c /\ epoch' = epoch
  BY <1>1, <1>2, <1>5, PutTyped DEF Call
<1>7. /\ store' \in Store /\ store'.latencies = store.latencies /\ store'.faults = store.faults
      /\ store'.outbound = store.outbound /\ store'.bounces = store.bounces
      /\ store'.inbound = IF current /\ up THEN store.inbound \union {n} ELSE store.inbound
  BY <1>1, <1>2 DEF Store
<1>8. CallSound(n)'
  <2>1. mail.state <= epoch
    BY <1>3 DEF InboundSound
  <2>2. InboundSound(n)'
    BY <1>3, <1>4, <1>5, <1>6, <1>7, <2>1 DEF InboundSound
  <2> QED BY <1>5, <1>6, <2>2 DEF CallSound, Unserved
<1>9. \A m \in CallIds \ {n} : KeptFor(m)
  BY <1>7 DEF KeptFor, MessagesOf, BouncesOf
<1>10. calls[n].kind # "http"
  BY <1>2
<1> QED BY <1>1, <1>2, <1>5, <1>7, <1>8, <1>9, <1>10, MailStep

-----------------------------------------------------------------------------
(***************************************************************************)
(* Control calls.                                                          *)
(***************************************************************************)
\* A control call leaves what the calls stored.
LEMMA ControlSound ==
  ASSUME Sound, Control, store' \in Store,
         store'.outbound = store.outbound, store'.bounces = store.bounces,
         store'.inbound = store.inbound,
         store'.latencies = store.latencies \/ LatenciesSound',
         store'.faults = store.faults \/ FaultsSound'
  PROVE  Sound'
<1>1. UNCHANGED <<calls, epoch, seeding, seeds>> /\ session' = session
  BY DEF Control
<1>2. session' \in Session /\ controls' \in 0..MaxControls
  BY IntakeAssumption DEF Sound, TypeOK, Control
<1> QED BY <1>1, <1>2, AsideSound

\* Rules are set for the server to hold requests and to answer them.
LEMMA RulesAddedSound ==
  ASSUME Sound, NEW asked \in Rules,
         AddLatency(asked) \/ \E reply \in Replies : AddFault(asked, reply)
  PROVE  Sound'
<1>1. store \in Store /\ LatenciesSound /\ FaultsSound
  BY DEF Sound, TypeOK
<1>2. CASE AddLatency(asked)
  <2> DEFINE rule == [match |-> asked.match, times |-> asked.times, remaining |-> asked.times]
             after == Append(store.latencies, rule)
  <2>1. Control /\ store' = [store EXCEPT !.latencies = after]
    BY <1>2 DEF AddLatency
  <2>2. rule \in Latency /\ rule.remaining = rule.times
    BY IntakeAssumption DEF Latency
  <2> HIDE DEF rule
  <2>3. after \in Seq(Latency)
    BY <1>1, <2>2, RulesTyped, AppendProperties
  <2> HIDE DEF after
  <2>4. /\ store' \in Store /\ store'.latencies = after /\ store'.faults = store.faults
        /\ store'.outbound = store.outbound /\ store'.bounces = store.bounces
        /\ store'.inbound = store.inbound
    BY <1>1, <2>1, <2>3 DEF Store
  <2>5. LatenciesSound'
    BY <1>1, <2>1, <2>2, <2>4, LatencyAdded DEF Control, after
  <2> QED BY <2>1, <2>4, <2>5, ControlSound
<1>3. ASSUME NEW reply \in Replies, AddFault(asked, reply)
      PROVE  Sound'
  <2> DEFINE rule == [match |-> asked.match, times |-> asked.times, remaining |-> asked.times,
                      reply |-> reply]
             after == Append(store.faults, rule)
  <2>1. Control /\ store' = [store EXCEPT !.faults = after]
    BY <1>3 DEF AddFault
  <2>2. rule \in Fault /\ rule.remaining = rule.times
    BY IntakeAssumption DEF Fault
  <2> HIDE DEF rule
  <2>3. after \in Seq(Fault)
    BY <1>1, <2>2, RulesTyped, AppendProperties
  <2> HIDE DEF after
  <2>4. /\ store' \in Store /\ store'.latencies = store.latencies /\ store'.faults = after
        /\ store'.outbound = store.outbound /\ store'.bounces = store.bounces
        /\ store'.inbound = store.inbound
    BY <1>1, <2>1, <2>3 DEF Store
  <2>5. FaultsSound'
    BY <1>1, <2>1, <2>2, <2>4, FaultAdded DEF Control, after
  <2> QED BY <2>1, <2>4, <2>5, ControlSound
<1> QED BY <1>2, <1>3

\* The other changes are beside requests and mails.
LEMMA ControlsSound ==
  ASSUME Sound, Controls
  PROVE  Sound'
<1>1. store \in Store
  BY DEF Sound, TypeOK
<1>2. ASSUME NEW rule \in SmtpRules, AddSmtpFault(rule)
      PROVE  Sound'
  <2> DEFINE new == [stage |-> rule.stage, remaining |-> rule.times, code |-> rule.code]
             after == Append(store.smtpFaults, new)
  <2>1. Control /\ store' = [store EXCEPT !.smtpFaults = after]
    BY <1>2 DEF AddSmtpFault
  <2>2. new \in SmtpFault
    BY IntakeAssumption DEF SmtpFault, Stages
  <2> HIDE DEF new
  <2>3. after \in Seq(SmtpFault)
    <3>1. store.smtpFaults \in Seq(SmtpFault)
      BY <1>1 DEF Store
    <3> QED BY <2>2, <3>1, AppendProperties
  <2> HIDE DEF after
  <2>4. /\ store' \in Store /\ store'.latencies = store.latencies /\ store'.faults = store.faults
        /\ store'.outbound = store.outbound /\ store'.bounces = store.bounces
        /\ store'.inbound = store.inbound
    BY <1>1, <2>1, <2>3 DEF Store
  <2> QED BY <2>1, <2>4, ControlSound
<1>3. ASSUME AddSmtpToken \/ RevokeSmtpToken
      PROVE  Sound'
  <2>1. Control /\ \E token \in BOOLEAN : store' = [store EXCEPT !.smtpToken = token]
    BY <1>3 DEF AddSmtpToken, RevokeSmtpToken
  <2>2. /\ store' \in Store /\ store'.latencies = store.latencies /\ store'.faults = store.faults
        /\ store'.outbound = store.outbound /\ store'.bounces = store.bounces
        /\ store'.inbound = store.inbound
    BY <1>1, <2>1 DEF Store
  <2> QED BY <2>1, <2>2, ControlSound
<1>4. ASSUME NEW from \in Writers, CreateRule(from) \/ DeleteRule(from)
      PROVE  Sound'
  <2>1. Control /\ \E rules \in SUBSET Writers : store' = [store EXCEPT !.rules = rules]
    <3>1. store.rules \union {from} \in SUBSET Writers /\ store.rules \ {from} \in SUBSET Writers
      BY <1>1 DEF Store
    <3> QED BY <1>4, <3>1 DEF CreateRule, DeleteRule
  <2>2. /\ store' \in Store /\ store'.latencies = store.latencies /\ store'.faults = store.faults
        /\ store'.outbound = store.outbound /\ store'.bounces = store.bounces
        /\ store'.inbound = store.inbound
    BY <1>1, <2>1 DEF Store
  <2> QED BY <2>1, <2>2, ControlSound
<1>5. ASSUME ChangeAccount
      PROVE  Sound'
  <2>1. Control
    BY <1>5 DEF ChangeAccount
  <2>2. \/ \E world \in World : store' = [store EXCEPT !.world = world]
        \/ \E on \in BOOLEAN : store' = [store EXCEPT !.smtpOn = on]
    <3>1. Changed(store.world) \subseteq World
      BY <1>1, ChangedTyped DEF Store
    <3>2. \/ \E world \in Changed(store.world) : store' = [store EXCEPT !.world = world]
          \/ store' = [store EXCEPT !.smtpOn = ~ store.smtpOn]
      BY <1>5 DEF ChangeAccount
    <3>3. (~ store.smtpOn) \in BOOLEAN
      OBVIOUS
    <3> QED BY <3>1, <3>2, <3>3
  <2>3. /\ store' \in Store /\ store'.latencies = store.latencies /\ store'.faults = store.faults
        /\ store'.outbound = store.outbound /\ store'.bounces = store.bounces
        /\ store'.inbound = store.inbound
    BY <1>1, <2>2 DEF Store
  <2> QED BY <2>1, <2>3, ControlSound
<1> QED BY <1>2, <1>3, <1>4, <1>5, RulesAddedSound DEF Controls

-----------------------------------------------------------------------------
(***************************************************************************)
(* Resets and seeds.                                                       *)
(***************************************************************************)
\* A reset of the clock ends the holds and leaves the other calls.
LEMMA ClockResetIs ==
  ASSUME Sound, ClockReset
  PROVE  /\ calls' \in [CallIds -> Call]
         /\ \A n \in CallIds :
              \/ calls'[n] = calls[n]
              \/ /\ calls[n].at = "held" /\ calls'[n].at = "released"
                 /\ calls[n].kind = "http" /\ calls'[n].kind = "http"
                 /\ calls'[n].heldIn = calls[n].heldIn /\ calls'[n].servedIn = calls[n].servedIn
                 /\ calls'[n].fault = calls[n].fault
<1>1. calls \in [CallIds -> Call]
  BY DEF Sound, TypeOK, Call
<1>2. /\ DOMAIN calls' = CallIds
      /\ calls' = [n \in CallIds |-> calls'[n]]
      /\ \A n \in CallIds : calls'[n] = IF calls[n].at = "held" THEN LetGo(calls[n]) ELSE calls[n]
  BY DEF ClockReset
<1>3. ASSUME NEW n \in CallIds, calls[n].at = "held"
      PROVE  /\ calls'[n] \in Http /\ calls'[n].at = "released"
             /\ calls[n].kind = "http" /\ calls'[n].kind = "http"
             /\ calls'[n].heldIn = calls[n].heldIn /\ calls'[n].servedIn = calls[n].servedIn
             /\ calls'[n].fault = calls[n].fault
  <2>1. calls[n] \in Http
    BY <1>3, HeldIs
  <2>2. calls'[n] = [calls[n] EXCEPT !.timer = FALSE, !.at = "released"]
    BY <1>2, <1>3 DEF LetGo
  <2> QED BY <2>1, <2>2 DEF Http
<1>4. \A n \in CallIds : calls'[n] \in Call
  BY <1>1, <1>2, <1>3 DEF Call
<1> QED BY <1>2, <1>3, <1>4

\* In a new state no call has left a trace, but what the state says of it.
LEMMA NewEpoch ==
  ASSUME Sound, ClockReset, epoch' = epoch + 1
  PROVE  /\ \A n \in CallIds : ~ TookIn(calls'[n], epoch') /\ ~ HitIn(calls'[n], epoch')
         /\ \A n \in CallIds :
              /\ calls'[n].at \in Unserved => calls[n].at \in Unserved
              /\ (calls[n].at \in Unserved =>
                    Untouched(store, n)' /\ (seeding.on => Untouched(seeding.store, n))')
                   => CallSound(n)'
<1>1. epoch \in Nat
  BY IntakeAssumption DEF Sound, TypeOK
<1>2. ASSUME NEW n \in CallIds
      PROVE  /\ ~ TookIn(calls'[n], epoch') /\ ~ HitIn(calls'[n], epoch')
             /\ calls'[n].at \in Unserved => calls[n].at \in Unserved
             /\ (calls[n].at \in Unserved =>
                    Untouched(store, n)' /\ (seeding.on => Untouched(seeding.store, n))')
                   => CallSound(n)'
  <2>1. calls[n] \in Call /\ CallSound(n)
    BY DEF Sound, TypeOK, Call, CallsSound
  <2>2. CASE calls'[n] = calls[n]
    <3>1. calls[n].kind = "http" => /\ calls[n] \in Http /\ HttpSound(n)
                                    /\ calls[n].heldIn \in Nat /\ calls[n].servedIn \in Nat
      BY <2>1, KindTells DEF Http, CallSound
    <3>2. calls[n].kind = "mail" => calls[n].since \in Nat /\ MailSound(n)
      BY <2>1, KindTells DEF Mail, CallSound
    <3>3. calls[n].kind = "inbound" => calls[n].state \in Nat /\ InboundSound(n)
      BY <2>1, KindTells DEF Inbound, CallSound
    <3>4. ~ TookIn(calls'[n], epoch') /\ ~ HitIn(calls'[n], epoch')
      BY <1>1, <2>2, <3>1 DEF TookIn, HitIn, HttpSound
    <3>5. calls[n].kind = "http" => HttpSound(n)'
      BY <1>1, <2>2, <3>1 DEF HttpSound
    <3>6. calls[n].kind = "mail" => MailSound(n)'
      BY <1>1, <2>2, <3>2 DEF MailSound
    <3>7. calls[n].kind = "inbound" => InboundSound(n)'
      BY <1>1, <2>2, <3>3 DEF InboundSound
    <3> QED BY <2>2, <3>4, <3>5, <3>6, <3>7 DEF CallSound
  <2>3. CASE /\ calls[n].at = "held" /\ calls'[n].at = "released"
             /\ calls[n].kind = "http" /\ calls'[n].kind = "http"
             /\ calls'[n].heldIn = calls[n].heldIn /\ calls'[n].servedIn = calls[n].servedIn
             /\ calls'[n].fault = calls[n].fault
    <3>1. calls[n].fault = 0 /\ calls[n].servedIn = 0 /\ calls[n].heldIn <= epoch
          /\ calls[n].heldIn \in Nat
      BY <2>3, HeldIs DEF Http
    <3>2. ~ TookIn(calls'[n], epoch') /\ ~ HitIn(calls'[n], epoch')
      BY <1>1, <2>3, <3>1 DEF TookIn, HitIn
    <3>3. HttpSound(n)'
      BY <1>1, <2>3, <3>1 DEF HttpSound
    <3> QED BY <2>3, <3>2, <3>3 DEF CallSound, Unserved
  <2> QED BY <2>2, <2>3, ClockResetIs
<1> QED BY <1>2

\* A seed starts, with a reset or without.
LEMMA SeedStartSound ==
  ASSUME Sound, NEW reset \in BOOLEAN, SeedStart(reset)
  PROVE  Sound'
<1>1. /\ store \in Store /\ session \in Session /\ epoch \in Nat \ {0} /\ seeds \in 0..MaxSeeds
      /\ calls \in [CallIds -> Call] /\ MaxSeeds \in Nat /\ epoch <= 2 * MaxSeeds + 1
      /\ LatenciesSound /\ FaultsSound
  <2>1. epoch \in Nat \ {0} /\ MaxSeeds \in Nat /\ epoch <= 2 * MaxSeeds + 1
    BY IntakeAssumption DEF Sound, TypeOK
  <2> QED BY <2>1 DEF Sound, TypeOK, Call
<1>2. /\ seeding.on = FALSE /\ seeds < MaxSeeds /\ seeds' = seeds + 1
      /\ seeding' = [on |-> TRUE, reset |-> reset, store |-> store]
      /\ UNCHANGED <<session, controls>>
  <2>1. ~ seeding.on
    BY DEF SeedStart
  <2>2. seeding.on = FALSE
    BY <2>1 DEF Sound, TypeOK, Saved, NoSeed
  <2> QED BY <2>2 DEF SeedStart
<1>3. seeding' \in Saved /\ seeding'.on /\ seeding'.store = store /\ seeds' \in 0..MaxSeeds
  BY <1>1, <1>2 DEF Saved
<1>4. epoch <= 2 * seeds + 1
  BY <1>1, <1>2 DEF Sound, EpochSound
<1>5. \A n \in CallIds : calls[n].at \in Unserved => Untouched(store, n)
  BY DEF Sound, CallsSound, CallSound
<1>6. CASE reset
  <2>1. store' = Empty /\ epoch' = epoch + 1 /\ ClockReset
    BY <1>6 DEF SeedStart
  <2>2. Empty \in Store
    <3>1. <<>> \in Seq(Latency) /\ <<>> \in Seq(Fault) /\ <<>> \in Seq(SmtpFault) /\ <<>> \in Seq(CallIds)
      BY EmptySeq
    <3> QED BY <3>1, WorldsTyped DEF Empty, Store
  <2>3. TypeOK'
    <3>1. calls' \in [CallIds -> Call]
      BY <2>1, ClockResetIs
    <3>2. epoch' \in 1..2 * MaxSeeds + 1
      BY <1>1, <1>2, <1>4, <2>1
    <3> QED BY <1>2, <1>3, <2>1, <2>2, <3>1, <3>2 DEF Sound, TypeOK, Call
  <2>4. EpochSound'
    BY <1>1, <1>2, <1>3, <1>4, <2>1 DEF EpochSound
  <2>5. LatenciesSound' /\ FaultsSound'
    <3>1. store'.latencies = <<>> /\ store'.faults = <<>>
      BY <2>1 DEF Empty
    <3>2. DOMAIN store'.latencies = {} /\ DOMAIN store'.faults = {}
      <4>1. Len(<<>>) = 0 /\ <<>> \in Seq(Nat)
        BY EmptySeq
      <4>2. DOMAIN <<>> = 1..0
        BY <4>1, LenProperties
      <4> QED BY <3>1, <4>2
    <3>3. epoch' \in Nat \ {0}
      BY <1>1, <2>1
    <3>4. \A n \in CallIds : ~ TookIn(calls'[n], epoch') /\ ~ HitIn(calls'[n], epoch')
      BY <2>1, NewEpoch
    <3> QED BY <3>2, <3>3, <3>4, RulesAfresh
  <2>6. CallsSound'
    <3>1. \A n \in CallIds : Untouched(store, n)'
      BY <2>1 DEF Untouched, Empty
    <3>2. \A n \in CallIds : calls[n].at \in Unserved => Untouched(seeding.store, n)'
      BY <1>3, <1>5 DEF Untouched
    <3>3. \A n \in CallIds : CallSound(n)'
      BY <2>1, <3>1, <3>2, NewEpoch
    <3> QED BY <3>3 DEF CallsSound, CallIds
  <2> QED BY <2>3, <2>4, <2>5, <2>6 DEF Sound
<1>7. CASE ~ reset
  <2>1. UNCHANGED <<store, epoch, calls>>
    BY <1>7 DEF SeedStart
  <2>2. TypeOK'
    BY <1>2, <1>3, <2>1 DEF Sound, TypeOK
  <2>3. EpochSound'
    BY <1>1, <1>2, <1>3, <1>4, <2>1 DEF EpochSound
  <2>4. LatenciesSound'
    BY <1>1, <2>1, LatenciesStand
  <2>5. FaultsSound'
    BY <1>1, <2>1, FaultsStand
  <2>6. CallsSound'
    <3>1. ASSUME NEW n \in CallIds
          PROVE  CallSound(n)'
      <4>1. CallSound(n) /\ calls'[n] = calls[n] /\ epoch' = epoch
        BY <2>1 DEF Sound, CallsSound
      <4>2. MessagesOf(n)' = MessagesOf(n) /\ BouncesOf(n)' = BouncesOf(n)
        BY <2>1 DEF MessagesOf, BouncesOf
      <4>3. calls[n].at \in Unserved => Untouched(store, n)' /\ Untouched(seeding.store, n)'
        BY <1>3, <1>5, <2>1 DEF Untouched
      <4>4. HttpSound(n) => HttpSound(n)'
        <5>1. HttpAnswerHolds(n)' <=> HttpAnswerHolds(n)
          BY <4>1, <4>2 DEF HttpAnswerHolds
        <5> QED BY <4>1, <5>1 DEF HttpSound
      <4>5. MailSound(n) => MailSound(n)'
        <5>1. SentTo(n)' = SentTo(n)
          BY <4>1, <4>2 DEF SentTo
        <5>2. MailAnswerHolds(n)' <=> MailAnswerHolds(n)
          BY <4>1, <4>2 DEF MailAnswerHolds
        <5> QED BY <4>1, <4>2, <5>1, <5>2 DEF MailSound
      <4>6. InboundSound(n) => InboundSound(n)'
        BY <2>1, <4>1 DEF InboundSound
      <4> QED BY <4>1, <4>3, <4>4, <4>5, <4>6 DEF CallSound
    <3> QED BY <3>1 DEF CallsSound, CallIds
  <2> QED BY <2>2, <2>3, <2>4, <2>5, <2>6 DEF Sound
<1> QED BY <1>6, <1>7

\* It is done, and fills the state that it emptied.
LEMMA SeedDoneSound ==
  ASSUME Sound, SeedDone
  PROVE  Sound'
<1>1. /\ store \in Store /\ session \in Session /\ LatenciesSound /\ FaultsSound
      /\ epoch \in Nat /\ seeds \in Nat
  <2>1. epoch \in Nat /\ seeds \in Nat
    BY IntakeAssumption DEF Sound, TypeOK
  <2> QED BY <2>1 DEF Sound, TypeOK
<1>2. /\ seeding.on /\ seeding' = NoSeed /\ UNCHANGED <<epoch, calls, session, counters>>
      /\ store' = store \/ store' = Fill(store)
  BY DEF SeedDone
<1>3. /\ store' \in Store /\ store'.latencies = store.latencies /\ store'.faults = store.faults
      /\ store'.outbound = store.outbound /\ store'.bounces = store.bounces
      /\ store'.inbound = store.inbound
  BY <1>1, <1>2, WorldsTyped DEF Fill, Store
<1>4. TypeOK'
  BY <1>2, <1>3 DEF Sound, TypeOK, counters
<1>5. EpochSound'
  <2>1. epoch + 1 <= 2 * seeds + 1 /\ ~ seeding'.on /\ epoch' = epoch /\ seeds' = seeds
    BY <1>2 DEF Sound, EpochSound, NoSeed, counters
  <2> QED BY <1>1, <2>1 DEF EpochSound
<1>6. LatenciesSound'
  BY <1>1, <1>2, <1>3, LatenciesStand
<1>7. FaultsSound'
  BY <1>1, <1>2, <1>3, FaultsStand
<1>8. CallsSound'
  <2>1. ASSUME NEW n \in CallIds
        PROVE  CallSound(n)'
    <3>1. CallSound(n) /\ calls'[n] = calls[n] /\ epoch' = epoch /\ ~ seeding'.on
      BY <1>2 DEF Sound, CallsSound, NoSeed
    <3>2. MessagesOf(n)' = MessagesOf(n) /\ BouncesOf(n)' = BouncesOf(n)
      BY <1>3 DEF MessagesOf, BouncesOf
    <3>3. Untouched(store, n) => Untouched(store, n)'
      BY <1>3 DEF Untouched
    <3>4. HttpSound(n) => HttpSound(n)'
      <4>1. HttpAnswerHolds(n)' <=> HttpAnswerHolds(n)
        BY <3>1, <3>2 DEF HttpAnswerHolds
      <4> QED BY <3>1, <4>1 DEF HttpSound
    <3>5. MailSound(n) => MailSound(n)'
      <4>1. SentTo(n)' = SentTo(n)
        BY <3>1, <3>2 DEF SentTo
      <4>2. MailAnswerHolds(n)' <=> MailAnswerHolds(n)
        BY <3>1, <3>2 DEF MailAnswerHolds
      <4> QED BY <3>1, <3>2, <4>1, <4>2 DEF MailSound
    <3>6. InboundSound(n) => InboundSound(n)'
      BY <1>3, <3>1 DEF InboundSound
    <3> QED BY <3>1, <3>3, <3>4, <3>5, <3>6 DEF CallSound
  <2> QED BY <2>1 DEF CallsSound, CallIds
<1> QED BY <1>4, <1>5, <1>6, <1>7, <1>8 DEF Sound

\* Rules that come back have all that they had left.
LEMMA RearmedIs ==
  ASSUME NEW s \in Store
  PROVE  /\ Rearmed(s.latencies) \in Seq(Latency) /\ Rearmed(s.faults) \in Seq(Fault)
         /\ \A i \in DOMAIN Rearmed(s.latencies) :
              /\ Rearmed(s.latencies)[i].remaining = Rearmed(s.latencies)[i].times
              /\ Rearmed(s.latencies)[i].times \in Nat
         /\ \A i \in DOMAIN Rearmed(s.faults) :
              /\ i # 0
              /\ Rearmed(s.faults)[i].remaining = Rearmed(s.faults)[i].times
              /\ Rearmed(s.faults)[i].times \in Nat
<1>1. /\ DOMAIN s.latencies = 1..Len(s.latencies) /\ Len(s.latencies) \in Nat
      /\ \A i \in DOMAIN s.latencies : s.latencies[i] \in Latency
  BY RulesTyped, LenProperties
<1>2. /\ DOMAIN s.faults = 1..Len(s.faults) /\ Len(s.faults) \in Nat
      /\ \A i \in DOMAIN s.faults : s.faults[i] \in Fault
  BY RulesTyped, LenProperties
<1>3. DOMAIN Rearmed(s.latencies) = DOMAIN s.latencies /\ DOMAIN Rearmed(s.faults) = DOMAIN s.faults
  BY DEF Rearmed
<1>4. \A i \in DOMAIN s.latencies :
        /\ Rearmed(s.latencies)[i] \in Latency
        /\ Rearmed(s.latencies)[i].remaining = Rearmed(s.latencies)[i].times
        /\ Rearmed(s.latencies)[i].times \in Nat
  BY <1>1 DEF Rearmed, Latency
<1>5. \A i \in DOMAIN s.faults :
        /\ Rearmed(s.faults)[i] \in Fault
        /\ Rearmed(s.faults)[i].remaining = Rearmed(s.faults)[i].times
        /\ Rearmed(s.faults)[i].times \in Nat
  BY <1>2 DEF Rearmed, Fault
<1>6. Rearmed(s.latencies) \in Seq(Latency)
  <2>1. Rearmed(s.latencies) = [i \in 1..Len(s.latencies) |-> Rearmed(s.latencies)[i]]
    BY <1>1 DEF Rearmed
  <2>2. Rearmed(s.latencies) \in [1..Len(s.latencies) -> Latency]
    BY <1>1, <1>4, <2>1
  <2> QED BY <1>1, <2>2, SeqDef
<1>7. Rearmed(s.faults) \in Seq(Fault)
  <2>1. Rearmed(s.faults) = [i \in 1..Len(s.faults) |-> Rearmed(s.faults)[i]]
    BY <1>2 DEF Rearmed
  <2>2. Rearmed(s.faults) \in [1..Len(s.faults) -> Fault]
    BY <1>2, <1>5, <2>1
  <2> QED BY <1>2, <2>2, SeqDef
<1>8. \A i \in DOMAIN s.faults : i # 0
  BY RulesTyped
<1> QED BY <1>3, <1>4, <1>5, <1>6, <1>7, <1>8

\* It fails, and another object takes the state back.
LEMMA SeedFailsSound ==
  ASSUME Sound, SeedFails
  PROVE  Sound'
<1> DEFINE saved == seeding.store
<1>1. /\ seeding.on /\ seeding' = NoSeed /\ epoch' = epoch + 1 /\ ClockReset
      /\ store' = [saved EXCEPT !.latencies = Rearmed(@), !.faults = Rearmed(@)]
      /\ UNCHANGED <<session, counters>>
  BY DEF SeedFails
<1>2. /\ epoch \in Nat \ {0} /\ seeds \in 0..MaxSeeds /\ MaxSeeds \in Nat /\ saved \in Store
  <2>1. saved \in Store
    <3>1. seeding # NoSeed
      BY <1>1 DEF NoSeed
    <3>2. seeding \in Saved
      BY <3>1 DEF Sound, TypeOK
    <3> QED BY <3>2 DEF Saved
  <2> QED BY <2>1, IntakeAssumption DEF Sound, TypeOK
<1>3. epoch + 1 <= 2 * seeds + 1
  BY <1>1 DEF Sound, EpochSound
<1>4. /\ store' \in Store /\ store'.latencies = Rearmed(saved.latencies)
      /\ store'.faults = Rearmed(saved.faults) /\ store'.outbound = saved.outbound
      /\ store'.bounces = saved.bounces /\ store'.inbound = saved.inbound
  <2>1. Rearmed(saved.latencies) \in Seq(Latency) /\ Rearmed(saved.faults) \in Seq(Fault)
    BY <1>2, RearmedIs
  <2> QED BY <1>1, <1>2, <2>1 DEF Store
<1>5. TypeOK'
  <2>1. calls' \in [CallIds -> Call]
    BY <1>1, ClockResetIs
  <2>2. epoch' \in 1..2 * MaxSeeds + 1
    BY <1>1, <1>2, <1>3
  <2> QED BY <1>1, <1>4, <2>1, <2>2 DEF Sound, TypeOK, Call, counters
<1>6. EpochSound'
  <2>1. ~ seeding'.on /\ seeds' = seeds
    BY <1>1 DEF NoSeed, counters
  <2> QED BY <1>1, <1>2, <1>3, <2>1 DEF EpochSound
<1>7. LatenciesSound' /\ FaultsSound'
  <2>1. epoch' \in Nat \ {0}
    BY <1>1, <1>2
  <2>2. \A n \in CallIds : ~ TookIn(calls'[n], epoch') /\ ~ HitIn(calls'[n], epoch')
    BY <1>1, NewEpoch
  <2> HIDE DEF saved
  <2>3. \A i \in DOMAIN store'.latencies :
          store'.latencies[i].remaining = store'.latencies[i].times /\ store'.latencies[i].times \in Nat
    <3>1. \A i \in DOMAIN Rearmed(saved.latencies) :
            /\ Rearmed(saved.latencies)[i].remaining = Rearmed(saved.latencies)[i].times
            /\ Rearmed(saved.latencies)[i].times \in Nat
      BY <1>2, RearmedIs
    <3> QED BY <1>4, <3>1
  <2>4. \A i \in DOMAIN store'.faults :
          i # 0 /\ store'.faults[i].remaining = store'.faults[i].times /\ store'.faults[i].times \in Nat
    <3>1. \A i \in DOMAIN Rearmed(saved.faults) :
            /\ i # 0
            /\ Rearmed(saved.faults)[i].remaining = Rearmed(saved.faults)[i].times
            /\ Rearmed(saved.faults)[i].times \in Nat
      BY <1>2, RearmedIs
    <3> QED BY <1>4, <3>1
  <2> QED BY <2>1, <2>2, <2>3, <2>4, RulesAfresh
<1>8. CallsSound'
  <2>1. \A n \in CallIds : calls[n].at \in Unserved => Untouched(seeding.store, n)
    BY <1>1 DEF Sound, CallsSound, CallSound
  <2>2. \A n \in CallIds : calls[n].at \in Unserved => Untouched(store, n)'
    BY <1>4, <2>1 DEF Untouched
  <2>3. ~ seeding'.on
    BY <1>1 DEF NoSeed
  <2>4. \A n \in CallIds : CallSound(n)'
    BY <1>1, <2>2, <2>3, NewEpoch
  <2> QED BY <2>4 DEF CallsSound, CallIds
<1> QED BY <1>5, <1>6, <1>7, <1>8 DEF Sound

-----------------------------------------------------------------------------
(***************************************************************************)
(* The theorems.                                                           *)
(***************************************************************************)
\* The state that the server starts with.
LEMMA InitSound ==
  ASSUME Init
  PROVE  Sound
<1>1. /\ store = Fill(Empty) /\ epoch = 1 /\ calls = [n \in CallIds |-> NoCall]
      /\ session = [at |-> "closed", as |-> "server", to |-> {}]
      /\ seeding = NoSeed /\ controls = 0 /\ seeds = 0
  BY DEF Init
<1>2. /\ store \in Store /\ store.latencies = <<>> /\ store.faults = <<>>
      /\ store.outbound = {} /\ store.bounces = {} /\ store.inbound = {}
  <2>1. <<>> \in Seq(Latency) /\ <<>> \in Seq(Fault) /\ <<>> \in Seq(SmtpFault) /\ <<>> \in Seq(CallIds)
    BY EmptySeq
  <2> QED BY <1>1, <2>1, WorldsTyped DEF Fill, Empty, Store
<1>3. TypeOK
  BY <1>1, <1>2, IntakeAssumption DEF TypeOK, Session
<1>4. EpochSound
  BY <1>1 DEF EpochSound, NoSeed
<1>5. LatenciesSound /\ FaultsSound
  <2>1. DOMAIN store.latencies = {} /\ DOMAIN store.faults = {}
    <3>1. Len(<<>>) = 0 /\ <<>> \in Seq(Nat)
      BY EmptySeq
    <3>2. DOMAIN <<>> = 1..0
      BY <3>1, LenProperties
    <3> QED BY <1>2, <3>2
  <2>2. \A n \in CallIds : ~ TookIn(calls[n], epoch) /\ ~ HitIn(calls[n], epoch)
    BY <1>1 DEF TookIn, HitIn, NoCall
  <2> QED BY <2>1, <2>2 DEF LatenciesSound, FaultsSound, InTurn
<1>6. CallsSound
  BY <1>1, <1>2 DEF CallsSound, CallSound, Untouched, NoCall, NoSeed
<1> QED BY <1>3, <1>4, <1>5, <1>6 DEF Sound

\* Nothing happens.
LEMMA StutterSound ==
  ASSUME Sound, UNCHANGED vars
  PROVE  Sound'
<1>1. store \in Store /\ session \in Session /\ controls \in 0..MaxControls
  BY DEF Sound, TypeOK
<1>2. /\ UNCHANGED <<calls, epoch, seeding, seeds>> /\ store' = store /\ session' = session
      /\ controls' = controls
  BY DEF vars
<1> QED BY <1>1, <1>2, AsideSound

\* No step breaks the invariant.
LEMMA NextSound ==
  ASSUME Sound, [Next]_vars
  PROVE  Sound'
<1>1. ASSUME NEW n \in CallIds, NEW request \in Requests, Arrive(n, request)
      PROVE  Sound'
  BY <1>1, ArriveSound
<1>2. ASSUME NEW n \in CallIds, NEW from \in Writers, ReceiveInbound(n, from)
      PROVE  Sound'
  BY <1>2, ReceiveInboundSound
<1>3. ASSUME NEW n \in CallIds, Proceed(n)
      PROVE  Sound'
  BY <1>3, HoldEndsSound, GiveUpSound, MailParsedSound, BounceSound, InboundParsedSound DEF Proceed
<1>4. CASE Smtp
  BY <1>4, SessionSound, DataSound DEF Smtp
<1>5. CASE Controls
  BY <1>5, ControlsSound
<1>6. ASSUME NEW reset \in BOOLEAN, SeedStart(reset)
      PROVE  Sound'
  BY <1>6, SeedStartSound
<1>7. CASE SeedEnds
  BY <1>7, SeedDoneSound, SeedFailsSound DEF SeedEnds
<1>8. CASE UNCHANGED vars
  BY <1>8, StutterSound
<1> QED BY <1>1, <1>2, <1>3, <1>4, <1>5, <1>6, <1>7, <1>8 DEF Next

\* The invariant holds in every state.
LEMMA AlwaysSound == Spec => []Sound
<1>1. Init => Sound
  BY InitSound
<1>2. Sound /\ [Next]_vars => Sound'
  BY NextSound
<1> QED BY <1>1, <1>2, PTL DEF Spec

\* The server, its calls and its session are what they are said to be, however
\* the state is replaced (createApiApp, the SMTP server, receiveInbound).
THEOREM TypeCorrect == Spec => []TypeOK
<1>1. Sound => TypeOK
  BY DEF Sound
<1> QED BY <1>1, AlwaysSound, PTL

\* "Each match uses one of the rule's times": a rule has lost as many times as
\* requests were held or answered by it, and an earlier one goes first.
THEOREM RulesAlwaysCounted == Spec => []RulesCounted
<1>1. Sound => RulesCounted
  BY DEF Sound, LatenciesSound, FaultsSound, RulesCounted
<1> QED BY <1>1, AlwaysSound, PTL

\* What a client was told is what the state holds: of each item of a batch, of
\* each recipient of a mail over SMTP, and of inbound mail.
THEOREM AnswersAlwaysHold == Spec => []AnswersHold
<1>1. Sound => AnswersHold
  <2> SUFFICES ASSUME Sound, NEW n \in CallIds, calls[n].at = "answered"
               PROVE  \/ calls[n].kind = "http" /\ (calls[n].servedIn = epoch => HttpAnswerHolds(n))
                      \/ calls[n].kind = "mail" /\ (calls[n].since = epoch => MailAnswerHolds(n))
                      \/ calls[n].kind = "inbound" /\
                           (calls[n].state = epoch => (n \in store.inbound <=> calls[n].status # "refused"))
    BY DEF AnswersHold
  <2>1. calls[n] \in Call /\ CallSound(n)
    BY DEF Sound, TypeOK, Call, CallsSound
  <2>2. calls[n].kind \in {"http", "mail", "inbound"}
    BY <2>1 DEF Call, Http, Mail, Inbound, NoCall
  <2> QED BY <2>1, <2>2 DEF CallSound, HttpSound, MailSound, InboundSound
<1> QED BY <1>1, AlwaysSound, PTL
=============================================================================
