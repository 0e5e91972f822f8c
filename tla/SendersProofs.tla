----------------------------- MODULE SendersProofs -----------------------------
(***************************************************************************)
(* Proofs about Senders: the keys of every domain and signature are sound  *)
(* after any number of rotations, and a From that may be used stays so.    *)
(***************************************************************************)
EXTENDS Senders, TLAPS

(***************************************************************************)
(* What makes KeysSound inductive: no key is newer than the last one made, *)
(* so that a rotation puts a new one behind all of them, and no entity has *)
(* an ID above the last one given.                                         *)
(***************************************************************************)
Good(auth, last) ==
  /\ auth \in Authentication
  /\ KeysInOrder(auth)
  /\ auth.active <= last /\ auth.pending <= last /\ auth.revoked <= last

MadeOK == made \in [entities: 0..MaxEntities, keys: 0..MaxKeys]

DomainsSound ==
  /\ \E S \in SUBSET (1..made.entities) : domains \in [S -> Domain]
  /\ \A d \in DOMAIN domains : Good(domains[d].auth, made.keys)
  /\ \A d, e \in DOMAIN domains : domains[d].name = domains[e].name => d = e

SendersSound ==
  /\ \E S \in SUBSET (1..made.entities) : senders \in [S -> Sender]
  /\ \A s \in DOMAIN senders : Good(senders[s].auth, made.keys)
  /\ \A r, s \in DOMAIN senders : senders[r].email = senders[s].email => r = s

Sound == MadeOK /\ DomainsSound /\ SendersSound

-----------------------------------------------------------------------------
(***************************************************************************)
(* Authentication: each operator of the code keeps the keys in order.      *)
(***************************************************************************)
LEMMA GoodLater ==
  ASSUME NEW auth, NEW k \in Nat, NEW l \in Nat, k <= l, Good(auth, k)
  PROVE  Good(auth, l)
  BY SendersAssumption DEF Good, Authentication, KeysInOrder

LEMMA NewIsGood ==
  ASSUME MadeOK, made.keys < MaxKeys, NEW path \in Paths
  PROVE  Good(NewAuthentication(path), made.keys + 1)
  BY SendersAssumption
  DEF MadeOK, Good, NewAuthentication, NextKey, NoKey, KeysInOrder, Authentication

LEMMA RotatedIsGood ==
  ASSUME MadeOK, made.keys < MaxKeys, NEW auth, Good(auth, made.keys), ~ Renewing(auth)
  PROVE  Good(Rotated(auth), made.keys + 1)
  BY SendersAssumption
  DEF MadeOK, Good, Rotated, Renewing, NextKey, NoKey, KeysInOrder, Authentication

LEMMA ConfirmedIsGood ==
  ASSUME MadeOK, NEW auth, Good(auth, made.keys), Renewing(auth)
  PROVE  Good(ConfirmedKey(auth), made.keys)
<1>1. /\ auth \in Authentication
      /\ auth.pending # 0 /\ auth.pending \in 0..MaxKeys /\ auth.active \in 0..MaxKeys
      /\ auth.pending > auth.active
  BY SendersAssumption DEF Good, Renewing, NoKey, KeysInOrder, Authentication
<1> DEFINE active == [auth EXCEPT !.active = auth.pending]
           renewed == [active EXCEPT !.pending = 0]
           verified == [renewed EXCEPT !.verified = TRUE]
           revoked == [verified EXCEPT !.revoked = auth.active]
<1>a. active \in Authentication /\ active.active = auth.pending
      /\ active.revoked = auth.revoked /\ active.safe = auth.safe
      /\ active.path = auth.path /\ active.pathVerified = auth.pathVerified
  BY <1>1 DEF Authentication
<1> HIDE DEF active
<1>2. renewed \in Authentication /\ renewed.active = auth.pending /\ renewed.pending = 0
      /\ renewed.revoked = auth.revoked /\ renewed.safe = auth.safe
      /\ renewed.path = auth.path /\ renewed.pathVerified = auth.pathVerified
  BY <1>1, <1>a, SendersAssumption DEF Authentication
<1> HIDE DEF renewed
<1>3. verified \in Authentication /\ verified.active = auth.pending /\ verified.pending = 0
      /\ verified.revoked = auth.revoked /\ verified.safe = auth.safe /\ verified.verified
      /\ verified.path = auth.path /\ verified.pathVerified = auth.pathVerified
  BY <1>2 DEF Authentication
<1>4. CASE auth.active = 0
  <2>1. ConfirmedKey(auth) = verified
    BY <1>1, <1>4 DEF ConfirmedKey, NoKey, Authentication, renewed, active
  <2> HIDE DEF verified
  <2> QED BY <1>1, <1>3, <1>4, <2>1 DEF Good, MadeOK, KeysInOrder, NoKey, Authentication
<1>5. CASE auth.active # 0
  <2>1. ConfirmedKey(auth) = [revoked EXCEPT !.safe = TRUE]
    BY <1>1, <1>5 DEF ConfirmedKey, NoKey, Authentication, renewed, active
  <2> HIDE DEF verified
  <2>2. revoked \in Authentication /\ revoked.active = auth.pending /\ revoked.pending = 0
        /\ revoked.revoked = auth.active /\ revoked.verified
        /\ revoked.path = auth.path /\ revoked.pathVerified = auth.pathVerified
    BY <1>1, <1>3 DEF Authentication
  <2> DEFINE safe == [revoked EXCEPT !.safe = TRUE]
  <2> HIDE DEF revoked
  <2>3. safe \in Authentication /\ safe.active = auth.pending /\ safe.pending = 0
        /\ safe.revoked = auth.active /\ safe.verified /\ safe.safe
        /\ safe.path = auth.path /\ safe.pathVerified = auth.pathVerified
    BY <2>2 DEF Authentication
  <2> HIDE DEF safe
  <2>4. ConfirmedKey(auth) = safe
    BY <2>1 DEF safe
  <2> QED BY <1>1, <1>5, <2>3, <2>4 DEF Good, MadeOK, KeysInOrder, NoKey, Authentication
<1> QED BY <1>4, <1>5

LEMMA PathIsGood ==
  ASSUME MadeOK, NEW auth, Good(auth, made.keys), NEW path \in Paths
  PROVE  Good(WithPath(auth, path), made.keys)
  BY SendersAssumption
  DEF MadeOK, Good, WithPath, NoKey, KeysInOrder, Authentication

LEMMA SpfIsGood ==
  ASSUME MadeOK, NEW auth, Good(auth, made.keys)
  PROVE  Good([auth EXCEPT !.spf = TRUE], made.keys)
  BY SendersAssumption DEF MadeOK, Good, NoKey, KeysInOrder, Authentication

LEMMA VerifiedIsGood ==
  ASSUME MadeOK, NEW auth, Good(auth, made.keys), NEW what \in What, Verifiable(auth, what)
  PROVE  Good(Verified(auth, what), made.keys)
<1> DEFINE keyed == IF "dkim" \in what THEN ConfirmedKey(auth) ELSE auth
<1>1. Good(keyed, made.keys)
  BY ConfirmedIsGood DEF Verifiable
<1>2. keyed.path = auth.path
  BY DEF ConfirmedKey, Good, Authentication
<1>3. CASE "returnPath" \in what
  <2>1. keyed.path # NoPath
    BY <1>2, <1>3 DEF Verifiable
  <2>2. Good([keyed EXCEPT !.pathVerified = TRUE], made.keys)
    <3> HIDE DEF keyed
    <3> QED BY <1>1, <2>1 DEF Good, NoKey, KeysInOrder, Authentication
  <2> QED BY <1>3, <2>2 DEF Verified
<1>4. CASE "returnPath" \notin what
  BY <1>1, <1>4 DEF Verified
<1> QED BY <1>3, <1>4

-----------------------------------------------------------------------------
(***************************************************************************)
(* The two tables.                                                         *)
(***************************************************************************)
LEMMA MakeCounts ==
  ASSUME MadeOK, Make
  PROVE  /\ MadeOK' /\ made.keys \in Nat /\ made.entities \in Nat
         /\ made'.entities = made.entities + 1 /\ made'.keys = made.keys + 1
         /\ made.keys < MaxKeys
  BY SendersAssumption DEF MadeOK, Make

LEMMA DomainsKept ==
  ASSUME MadeOK, DomainsSound, Make \/ UNCHANGED made, UNCHANGED domains
  PROVE  DomainsSound'
<1>1. CASE Make
  <2>1. made.keys \in Nat /\ made'.keys \in Nat /\ made.keys <= made'.keys
    BY <1>1, MakeCounts
  <2>2. \A d \in DOMAIN domains : Good(domains[d].auth, made'.keys)
    BY <2>1, GoodLater DEF DomainsSound
  <2>3. 1..made.entities \subseteq 1..made'.entities
    BY <1>1, MakeCounts
  <2> QED BY <2>2, <2>3 DEF DomainsSound
<1>2. CASE UNCHANGED made
  BY <1>2 DEF DomainsSound, Good
<1> QED BY <1>1, <1>2

LEMMA SendersKept ==
  ASSUME MadeOK, SendersSound, Make \/ UNCHANGED made, UNCHANGED senders
  PROVE  SendersSound'
<1>1. CASE Make
  <2>1. made.keys \in Nat /\ made'.keys \in Nat /\ made.keys <= made'.keys
    BY <1>1, MakeCounts
  <2>2. \A s \in DOMAIN senders : Good(senders[s].auth, made'.keys)
    BY <2>1, GoodLater DEF SendersSound
  <2>3. 1..made.entities \subseteq 1..made'.entities
    BY <1>1, MakeCounts
  <2> QED BY <2>2, <2>3 DEF SendersSound
<1>2. CASE UNCHANGED made
  BY <1>2 DEF SendersSound, Good
<1> QED BY <1>1, <1>2

\* Another authentication in the place of one domain's.
LEMMA DomainSet ==
  ASSUME MadeOK, MadeOK', DomainsSound, NEW d \in DOMAIN domains, NEW auth,
         made.keys <= made'.keys, made'.entities = made.entities,
         Good(auth, made'.keys), domains' = [domains EXCEPT ![d].auth = auth]
  PROVE  DomainsSound'
<1>1. PICK S \in SUBSET (1..made.entities) : domains \in [S -> Domain]
  BY DEF DomainsSound
<1>2. auth \in Authentication
  BY DEF Good
<1>3. domains' \in [S -> Domain]
  BY <1>1, <1>2 DEF Domain
<1>4. \A e \in S : /\ domains'[e].name = domains[e].name
                    /\ domains'[e].auth = IF e = d THEN auth ELSE domains[e].auth
  BY <1>1 DEF Domain
<1>5. \A e \in S : Good(domains[e].auth, made'.keys)
  BY <1>1, GoodLater, SendersAssumption DEF DomainsSound, MadeOK
<1>6. \A e \in S : Good(domains'[e].auth, made'.keys)
  BY <1>4, <1>5
<1>7. \A e, f \in S : domains'[e].name = domains'[f].name => e = f
  BY <1>1, <1>4 DEF DomainsSound
<1>8. DOMAIN domains' = S
  BY <1>3
<1> QED BY <1>3, <1>6, <1>7, <1>8 DEF DomainsSound

LEMMA SenderSet ==
  ASSUME MadeOK, SendersSound, NEW s \in DOMAIN senders, NEW auth, UNCHANGED made,
         Good(auth, made.keys), senders' = [senders EXCEPT ![s].auth = auth]
  PROVE  SendersSound'
<1>1. PICK S \in SUBSET (1..made.entities) : senders \in [S -> Sender]
  BY DEF SendersSound
<1>2. auth \in Authentication
  BY DEF Good
<1>3. senders' \in [S -> Sender]
  BY <1>1, <1>2 DEF Sender
<1>4. \A r \in S : /\ senders'[r].email = senders[r].email
                    /\ senders'[r].auth = IF r = s THEN auth ELSE senders[r].auth
  BY <1>1 DEF Sender
<1>5. \A r \in S : Good(senders'[r].auth, made.keys)
  BY <1>1, <1>4 DEF SendersSound
<1>6. \A q, r \in S : senders'[q].email = senders'[r].email => q = r
  BY <1>1, <1>4 DEF SendersSound
<1>7. DOMAIN senders' = S
  BY <1>3
<1> QED BY <1>3, <1>5, <1>6, <1>7 DEF SendersSound, Good

-----------------------------------------------------------------------------
(***************************************************************************)
(* The steps.                                                              *)
(***************************************************************************)
LEMMA CreateDomainSound ==
  ASSUME Sound, NEW name \in Domains, NEW path \in Paths, CreateDomain(name, path)
  PROVE  Sound'
<1> DEFINE id == made.entities + 1
           auth == NewAuthentication(path)
<1>1. MadeOK' /\ made.keys \in Nat /\ made.entities \in Nat /\ made'.entities = id
      /\ made'.keys = made.keys + 1 /\ made.keys < MaxKeys
  BY MakeCounts DEF Sound, CreateDomain
<1>2. Good(auth, made'.keys)
  BY <1>1, NewIsGood DEF Sound
<1>3. SendersSound'
  BY SendersKept DEF Sound, CreateDomain
<1>4. PICK S \in SUBSET (1..made.entities) : domains \in [S -> Domain]
  BY DEF Sound, DomainsSound
<1>5. DOMAIN domains' = S \union {id}
  BY <1>4 DEF CreateDomain, Added
<1>6. \A e \in S \union {id} :
        domains'[e] = IF e \in S THEN domains[e] ELSE [name |-> name, auth |-> auth]
  BY <1>4 DEF CreateDomain, Added
<1> HIDE DEF auth
<1>7. id \notin S /\ S \union {id} \in SUBSET (1..made'.entities)
  <2>1. \A i \in S : i \in 1..made.entities
    BY <1>4
  <2>2. id \notin S
    BY <1>1, <2>1
  <2>3. \A i \in S \union {id} : i \in 1..id
    BY <1>1, <2>1
  <2> QED BY <1>1, <2>2, <2>3
<1>8. domains' \in [S \union {id} -> Domain]
  <2>1. auth \in Authentication
    BY <1>2 DEF Good
  <2>2. [name |-> name, auth |-> auth] \in Domain
    BY <2>1 DEF Domain
  <2>3. domains' = [e \in S \union {id} |-> domains'[e]]
    BY <1>4 DEF CreateDomain, Added
  <2> QED BY <1>4, <1>6, <2>2, <2>3
<1>9. \A e \in S \union {id} : Good(domains'[e].auth, made'.keys)
  <2>1. \A e \in S : Good(domains[e].auth, made'.keys)
    BY <1>1, <1>4, GoodLater DEF Sound, DomainsSound
  <2> QED BY <1>2, <1>6, <2>1
<1>10. \A e, f \in S \union {id} : domains'[e].name = domains'[f].name => e = f
  <2>1. \A e \in S : domains[e].name # name
    BY <1>4 DEF CreateDomain
  <2>2. \A e, f \in S : domains[e].name = domains[f].name => e = f
    BY <1>4 DEF Sound, DomainsSound
  <2> QED BY <1>6, <1>7, <2>1, <2>2
<1>11. DomainsSound'
  BY <1>5, <1>7, <1>8, <1>9, <1>10 DEF DomainsSound
<1> QED BY <1>1, <1>3, <1>11 DEF Sound

LEMMA CreateSenderSound ==
  ASSUME Sound, NEW email \in Emails, NEW path \in Paths, CreateSender(email, path)
  PROVE  Sound'
<1> DEFINE id == made.entities + 1
           auth == NewAuthentication(path)
           new == [email |-> email, confirmed |-> FALSE, auth |-> auth]
<1>1. MadeOK' /\ made.keys \in Nat /\ made.entities \in Nat /\ made'.entities = id
      /\ made'.keys = made.keys + 1 /\ made.keys < MaxKeys
  BY MakeCounts DEF Sound, CreateSender
<1>2. Good(auth, made'.keys)
  BY <1>1, NewIsGood DEF Sound
<1>3. DomainsSound'
  BY DomainsKept DEF Sound, CreateSender
<1>4. PICK S \in SUBSET (1..made.entities) : senders \in [S -> Sender]
  BY DEF Sound, SendersSound
<1>5. DOMAIN senders' = S \union {id}
  BY <1>4 DEF CreateSender, Added
<1>6. \A r \in S \union {id} : senders'[r] = IF r \in S THEN senders[r] ELSE new
  BY <1>4 DEF CreateSender, Added
<1> HIDE DEF auth
<1>7. id \notin S /\ S \union {id} \in SUBSET (1..made'.entities)
  <2>1. \A i \in S : i \in 1..made.entities
    BY <1>4
  <2>2. id \notin S
    BY <1>1, <2>1
  <2>3. \A i \in S \union {id} : i \in 1..id
    BY <1>1, <2>1
  <2> QED BY <1>1, <2>2, <2>3
<1>8. senders' \in [S \union {id} -> Sender]
  <2>1. auth \in Authentication
    BY <1>2 DEF Good
  <2>2. new \in Sender
    BY <2>1 DEF Sender
  <2>3. senders' = [r \in S \union {id} |-> senders'[r]]
    BY <1>4 DEF CreateSender, Added
  <2> QED BY <1>4, <1>6, <2>2, <2>3
<1>9. \A r \in S \union {id} : Good(senders'[r].auth, made'.keys)
  <2>1. \A r \in S : Good(senders[r].auth, made'.keys)
    BY <1>1, <1>4, GoodLater DEF Sound, SendersSound
  <2> QED BY <1>2, <1>6, <2>1
<1>10. \A q, r \in S \union {id} : senders'[q].email = senders'[r].email => q = r
  <2>1. \A r \in S : senders[r].email # email
    BY <1>4 DEF CreateSender
  <2>2. \A q, r \in S : senders[q].email = senders[r].email => q = r
    BY <1>4 DEF Sound, SendersSound
  <2> QED BY <1>6, <1>7, <2>1, <2>2
<1>11. SendersSound'
  BY <1>5, <1>7, <1>8, <1>9, <1>10 DEF SendersSound
<1> QED BY <1>1, <1>3, <1>11 DEF Sound

\* A step that gives a domain another authentication, and maybe makes a key.
LEMMA SetDomainSound ==
  ASSUME Sound, NEW d \in DOMAIN domains, NEW auth, SetDomain(d, auth),
         MadeOK', made.keys <= made'.keys, made'.entities = made.entities,
         Good(auth, made'.keys)
  PROVE  Sound'
<1>1. DomainsSound'
  BY DomainSet DEF Sound, SetDomain
<1>2. \A s \in DOMAIN senders : Good(senders[s].auth, made'.keys)
  BY GoodLater, SendersAssumption DEF Sound, SendersSound, MadeOK
<1>3. SendersSound'
  BY <1>2 DEF Sound, SendersSound, SetDomain
<1> QED BY <1>1, <1>3 DEF Sound

LEMMA SetSenderSound ==
  ASSUME Sound, NEW s \in DOMAIN senders, NEW auth, SetSender(s, auth),
         UNCHANGED made, Good(auth, made.keys)
  PROVE  Sound'
<1>1. SendersSound'
  BY SenderSet DEF Sound, SetSender
<1>2. DomainsSound'
  BY DomainsKept DEF Sound, SetSender
<1> QED BY <1>1, <1>2 DEF Sound, MadeOK

LEMMA SoundNow ==
  ASSUME Sound
  PROVE  /\ made.keys \in Nat /\ made.keys <= made.keys /\ MadeOK
         /\ \A d \in DOMAIN domains : Good(domains[d].auth, made.keys)
         /\ \A s \in DOMAIN senders : Good(senders[s].auth, made.keys)
  BY SendersAssumption DEF Sound, MadeOK, DomainsSound, SendersSound

LEMMA InitSound == Init => Sound
<1> SUFFICES ASSUME Init PROVE Sound
  OBVIOUS
<1>1. MadeOK
  BY SendersAssumption DEF Init, MadeOK
<1>2. domains \in [{} -> Domain] /\ senders \in [{} -> Sender]
  BY DEF Init
<1>3. {} \in SUBSET (1..made.entities)
  OBVIOUS
<1>4. DomainsSound
  BY <1>2, <1>3 DEF DomainsSound
<1>5. SendersSound
  BY <1>2, <1>3 DEF SendersSound
<1> QED BY <1>1, <1>4, <1>5 DEF Sound

LEMMA StepSound == Sound /\ [Next]_vars => Sound'
<1> SUFFICES ASSUME Sound, [Next]_vars PROVE Sound'
  OBVIOUS
<1> USE SoundNow
<1>1. ASSUME NEW name \in Domains, NEW path \in Paths, CreateDomain(name, path)
      PROVE  Sound'
  BY <1>1, CreateDomainSound
<1>2. ASSUME NEW email \in Emails, NEW path \in Paths, CreateSender(email, path)
      PROVE  Sound'
  BY <1>2, CreateSenderSound
<1>3. ASSUME NEW d \in DOMAIN domains, NEW path \in Paths, EditDomain(d, path)
      PROVE  Sound'
  <2>1. Good(WithPath(domains[d].auth, path), made.keys)
    BY PathIsGood
  <2> QED BY <1>3, <2>1, SetDomainSound DEF EditDomain, MadeOK
<1>4. ASSUME NEW s \in DOMAIN senders, NEW path \in Paths, EditSender(s, path)
      PROVE  Sound'
  <2>1. Good(WithPath(senders[s].auth, path), made.keys)
    BY PathIsGood
  <2> QED BY <1>4, <2>1, SetSenderSound DEF EditSender
<1>5. CASE VerifySpf
  <2>1. ASSUME NEW d \in DOMAIN domains, SetDomain(d, [domains[d].auth EXCEPT !.spf = TRUE])
        PROVE  Sound'
    <3>1. Good([domains[d].auth EXCEPT !.spf = TRUE], made.keys)
      BY SpfIsGood
    <3> QED BY <1>5, <2>1, <3>1, SetDomainSound DEF VerifySpf, MadeOK
  <2>2. ASSUME NEW s \in DOMAIN senders, SetSender(s, [senders[s].auth EXCEPT !.spf = TRUE])
        PROVE  Sound'
    <3>1. Good([senders[s].auth EXCEPT !.spf = TRUE], made.keys)
      BY SpfIsGood
    <3> QED BY <1>5, <2>2, <3>1, SetSenderSound DEF VerifySpf
  <2> QED BY <1>5, <2>1, <2>2 DEF VerifySpf
<1>6. ASSUME NEW d \in DOMAIN domains, RotateDkim(d)
      PROVE  Sound'
  <2>1. MadeOK' /\ made'.keys = made.keys + 1 /\ made'.entities = made.entities
    BY <1>6, SendersAssumption DEF RotateDkim, NextKey, MadeOK
  <2>2. Good(Rotated(domains[d].auth), made'.keys)
    BY <1>6, <2>1, RotatedIsGood DEF RotateDkim
  <2> QED BY <1>6, <2>1, <2>2, SetDomainSound DEF RotateDkim
<1>7. ASSUME NEW d \in DOMAIN domains, DeleteDomain(d)
      PROVE  Sound'
  <2>1. PICK S \in SUBSET (1..made.entities) : domains \in [S -> Domain]
    BY DEF Sound, DomainsSound
  <2>2. domains' \in [S \ {d} -> Domain]
    BY <1>7, <2>1 DEF DeleteDomain
  <2>3. \A e \in S \ {d} : domains'[e] = domains[e]
    BY <1>7, <2>1 DEF DeleteDomain
  <2>4. DomainsSound'
    BY <1>7, <2>1, <2>2, <2>3 DEF DeleteDomain, Sound, DomainsSound, Good
  <2>5. SendersSound'
    BY <1>7, SendersKept DEF DeleteDomain, Sound
  <2> QED BY <1>7, <2>4, <2>5 DEF DeleteDomain, Sound, MadeOK
<1>8. ASSUME NEW d \in DOMAIN domains, NEW what \in What, VerifyDomain(d, what)
      PROVE  Sound'
  <2>1. Good(Verified(domains[d].auth, what), made.keys)
    BY <1>8, VerifiedIsGood DEF VerifyDomain
  <2> QED BY <1>8, <2>1, SetDomainSound DEF VerifyDomain, MadeOK
<1>9. ASSUME NEW s \in DOMAIN senders, NEW what \in What, VerifySender(s, what)
      PROVE  Sound'
  <2>1. Good(Verified(senders[s].auth, what), made.keys)
    BY <1>9, VerifiedIsGood DEF VerifySender
  <2> QED BY <1>9, <2>1, SetSenderSound DEF VerifySender
<1>10. ASSUME NEW s \in DOMAIN senders, ConfirmSender(s)
       PROVE  Sound'
  <2>1. PICK S \in SUBSET (1..made.entities) : senders \in [S -> Sender]
    BY DEF Sound, SendersSound
  <2>2. senders' \in [S -> Sender]
    BY <1>10, <2>1 DEF ConfirmSender, Sender
  <2>3. \A r \in S : senders'[r].auth = senders[r].auth /\ senders'[r].email = senders[r].email
    BY <1>10, <2>1 DEF ConfirmSender, Sender
  <2>4. SendersSound'
    BY <1>10, <2>1, <2>2, <2>3 DEF ConfirmSender, Sound, SendersSound, Good
  <2>5. DomainsSound'
    BY <1>10, DomainsKept DEF ConfirmSender, Sound
  <2> QED BY <1>10, <2>4, <2>5 DEF ConfirmSender, Sound, MadeOK
<1>11. ASSUME NEW s \in DOMAIN senders, DeleteSender(s)
       PROVE  Sound'
  <2>1. PICK S \in SUBSET (1..made.entities) : senders \in [S -> Sender]
    BY DEF Sound, SendersSound
  <2>2. senders' \in [S \ {s} -> Sender]
    BY <1>11, <2>1 DEF DeleteSender
  <2>3. \A r \in S \ {s} : senders'[r] = senders[r]
    BY <1>11, <2>1 DEF DeleteSender
  <2>4. SendersSound'
    BY <1>11, <2>1, <2>2, <2>3 DEF DeleteSender, Sound, SendersSound, Good
  <2>5. DomainsSound'
    BY <1>11, DomainsKept DEF DeleteSender, Sound
  <2> QED BY <1>11, <2>4, <2>5 DEF DeleteSender, Sound, MadeOK
<1>12. CASE UNCHANGED vars
  BY <1>12 DEF vars, Sound, MadeOK, DomainsSound, SendersSound, Good
<1> QED
  BY <1>1, <1>2, <1>3, <1>4, <1>5, <1>6, <1>7, <1>8, <1>9, <1>10, <1>11, <1>12 DEF Next

LEMMA SoundIsSound == Sound => KeysSound
<1> SUFFICES ASSUME Sound PROVE KeysSound
  OBVIOUS
<1>1. \A S \in SUBSET (1..made.entities) : S \in SUBSET EntityIDs
  BY SendersAssumption DEF Sound, MadeOK, EntityIDs
<1>2. TypeOK
  BY <1>1 DEF Sound, MadeOK, DomainsSound, SendersSound, TypeOK
<1> QED BY <1>2 DEF Sound, DomainsSound, SendersSound, KeysSound, Good

\* The keys of each domain and signature stay in order, whatever is rotated,
\* verified, edited and deleted (authentication.ts).
THEOREM KeysAlwaysSound == Spec => []KeysSound
<1>1. Spec => []Sound
  BY InitSound, StepSound, PTL DEF Spec
<1> QED BY <1>1, SoundIsSound, PTL

-----------------------------------------------------------------------------
(***************************************************************************)
(* Authorization.                                                          *)
(***************************************************************************)
\* A domain or a signature that allows an address goes on to do so.
Keeps ==
  /\ \A d \in DOMAIN domains \intersect DOMAIN domains' :
       /\ domains'[d].name = domains[d].name
       /\ domains[d].auth.verified => domains'[d].auth.verified
  /\ \A s \in DOMAIN senders \intersect DOMAIN senders' :
       /\ senders'[s].email = senders[s].email
       /\ senders[s].confirmed => senders'[s].confirmed

LEMMA KeepsAuthorized ==
  ASSUME Keeps, DOMAIN domains \subseteq DOMAIN domains',
         DOMAIN senders \subseteq DOMAIN senders',
         NEW email, SenderState(email) = "authorized"
  PROVE  SenderState(email)' = "authorized"
<1>1. CASE \E s \in SignaturesOf(email) : senders[s].confirmed
  BY <1>1 DEF Keeps, SenderState, SignaturesOf
<1>2. CASE \E d \in DomainsOf(email) : domains[d].auth.verified
  BY <1>2 DEF Keeps, SenderState, DomainsOf
<1> QED BY <1>1, <1>2 DEF SenderState

LEMMA SetDomainKeeps ==
  ASSUME Sound, NEW d \in DOMAIN domains, NEW auth, SetDomain(d, auth),
         domains[d].auth.verified => auth.verified
  PROVE  Keeps
<1>1. PICK S \in SUBSET (1..made.entities) : domains \in [S -> Domain]
  BY DEF Sound, DomainsSound
<1>2. \A e \in S : /\ domains'[e].name = domains[e].name
                    /\ domains'[e].auth = IF e = d THEN auth ELSE domains[e].auth
  BY <1>1 DEF Domain, SetDomain
<1> QED BY <1>1, <1>2 DEF Keeps, SetDomain

LEMMA SetSenderKeeps ==
  ASSUME Sound, NEW s \in DOMAIN senders, NEW auth, SetSender(s, auth)
  PROVE  Keeps
<1>1. PICK S \in SUBSET (1..made.entities) : senders \in [S -> Sender]
  BY DEF Sound, SendersSound
<1>2. \A r \in S : /\ senders'[r].email = senders[r].email
                    /\ senders'[r].confirmed = senders[r].confirmed
  BY <1>1 DEF Sender, SetSender
<1> QED BY <1>1, <1>2 DEF Keeps, SetSender

LEMMA StepKeeps ==
  ASSUME Sound, [Next]_vars
  PROVE  Keeps
<1> USE SoundNow
<1>1. ASSUME NEW name \in Domains, NEW path \in Paths, CreateDomain(name, path)
      PROVE  Keeps
  BY <1>1 DEF CreateDomain, Added, Keeps
<1>2. ASSUME NEW email \in Emails, NEW path \in Paths, CreateSender(email, path)
      PROVE  Keeps
  BY <1>2 DEF CreateSender, Added, Keeps
<1>3. ASSUME NEW d \in DOMAIN domains, NEW path \in Paths, EditDomain(d, path)
      PROVE  Keeps
  <2>1. WithPath(domains[d].auth, path).verified = domains[d].auth.verified
    BY DEF WithPath, Good, Authentication
  <2> QED BY <1>3, <2>1, SetDomainKeeps DEF EditDomain
<1>4. ASSUME NEW s \in DOMAIN senders, NEW path \in Paths, EditSender(s, path)
      PROVE  Keeps
  BY <1>4, SetSenderKeeps DEF EditSender
<1>5. CASE VerifySpf
  <2>1. ASSUME NEW d \in DOMAIN domains, SetDomain(d, [domains[d].auth EXCEPT !.spf = TRUE])
        PROVE  Keeps
    <3>1. [domains[d].auth EXCEPT !.spf = TRUE].verified = domains[d].auth.verified
      BY DEF Good, Authentication
    <3> QED BY <2>1, <3>1, SetDomainKeeps
  <2> QED BY <1>5, <2>1, SetSenderKeeps DEF VerifySpf
<1>6. ASSUME NEW d \in DOMAIN domains, RotateDkim(d)
      PROVE  Keeps
  <2>1. Rotated(domains[d].auth).verified = domains[d].auth.verified
    BY DEF Rotated, Good, Authentication
  <2> QED BY <1>6, <2>1, SetDomainKeeps DEF RotateDkim
<1>7. ASSUME NEW d \in DOMAIN domains, DeleteDomain(d)
      PROVE  Keeps
  BY <1>7 DEF DeleteDomain, Keeps
<1>8. ASSUME NEW d \in DOMAIN domains, NEW what \in What, VerifyDomain(d, what)
      PROVE  Keeps
  <2>1. ConfirmedKey(domains[d].auth).verified
    BY DEF ConfirmedKey, Good, Authentication
  <2>2. domains[d].auth.verified => Verified(domains[d].auth, what).verified
    <3> DEFINE keyed == IF "dkim" \in what THEN ConfirmedKey(domains[d].auth) ELSE domains[d].auth
    <3>1. domains[d].auth.verified => keyed.verified
      BY <2>1
    <3>2. [keyed EXCEPT !.pathVerified = TRUE].verified = keyed.verified
      OBVIOUS
    <3> QED BY <3>1, <3>2 DEF Verified
  <2> QED BY <1>8, <2>2, SetDomainKeeps DEF VerifyDomain
<1>9. ASSUME NEW s \in DOMAIN senders, NEW what \in What, VerifySender(s, what)
      PROVE  Keeps
  BY <1>9, SetSenderKeeps DEF VerifySender
<1>10. ASSUME NEW s \in DOMAIN senders, ConfirmSender(s)
       PROVE  Keeps
  <2>1. PICK S \in SUBSET (1..made.entities) : senders \in [S -> Sender]
    BY DEF Sound, SendersSound
  <2>2. \A r \in S : /\ senders'[r].email = senders[r].email
                      /\ senders[r].confirmed => senders'[r].confirmed
    BY <1>10, <2>1 DEF ConfirmSender, Sender
  <2> QED BY <1>10, <2>1, <2>2 DEF ConfirmSender, Keeps
<1>11. ASSUME NEW s \in DOMAIN senders, DeleteSender(s)
       PROVE  Keeps
  BY <1>11 DEF DeleteSender, Keeps
<1>12. CASE UNCHANGED vars
  BY <1>12 DEF vars, Keeps
<1> QED
  BY <1>1, <1>2, <1>3, <1>4, <1>5, <1>6, <1>7, <1>8, <1>9, <1>10, <1>11, <1>12 DEF Next

\* A From that the account may use it may use until one of its domains or
\* signatures is deleted (senderAuthorized with the rotation of keys).
THEOREM AuthorizedStays == Spec => StaysAuthorized
<1>1. ASSUME Sound, [Next]_vars
      PROVE  [\A email \in Emails :
                SenderState(email) = "authorized" /\ DOMAIN domains \subseteq DOMAIN domains'
                  /\ DOMAIN senders \subseteq DOMAIN senders'
                => SenderState(email)' = "authorized"]_vars
  BY <1>1, StepKeeps, KeepsAuthorized
<1>2. Spec => []Sound
  BY InitSound, StepSound, PTL DEF Spec
<1> QED BY <1>1, <1>2, PTL DEF Spec, StaysAuthorized
=============================================================================
