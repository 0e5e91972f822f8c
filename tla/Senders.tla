-------------------------------- MODULE Senders --------------------------------
(***************************************************************************)
(* Domains and sender signatures (src/api/account/domains.ts, senders.ts)  *)
(* with the DKIM keys, Return-Path and SPF that they share                 *)
(* (authentication.ts), the control calls that stand for DNS and for a     *)
(* click on a confirmation mail (src/control/endpoints/account.ts), and    *)
(* whether a send may use a From (senderAuthorized in pipeline/submit.ts). *)
(* No handler waits: each is one step.                                     *)
(***************************************************************************)
EXTENDS Naturals

CONSTANTS
  Domains,      \* names of domains that differ without case
  Emails,       \* addresses that may send
  DomainOf,     \* address -> the name after its @
  ParentOf,     \* name -> the names that it is a subdomain of
  ReturnPaths,  \* subdomains that may serve as a Return-Path
  MaxEntities,  \* bound: domains and signatures ever created
  MaxKeys       \* bound: DKIM keys ever made

NoKey == 0
Keys == 1..MaxKeys
NoPath == "none"
Paths == ReturnPaths \union {NoPath}

ASSUME SendersAssumption ==
  /\ MaxEntities \in Nat /\ MaxKeys \in Nat
  /\ NoPath \notin ReturnPaths

VARIABLES
  domains, senders,  \* ID -> domain, ID -> signature
  made               \* how many entities and keys were made

vars == <<domains, senders, made>>

EntityIDs == 1..MaxEntities
Authentication ==
  [spf: BOOLEAN, verified: BOOLEAN, active: 0..MaxKeys, pending: 0..MaxKeys,
   revoked: 0..MaxKeys, safe: BOOLEAN, path: Paths, pathVerified: BOOLEAN]
Domain == [name: Domains, auth: Authentication]
Sender == [email: Emails, confirmed: BOOLEAN, auth: Authentication]

TypeOK ==
  /\ \E S \in SUBSET EntityIDs : domains \in [S -> Domain]
  /\ \E S \in SUBSET EntityIDs : senders \in [S -> Sender]
  /\ made \in [entities: 0..MaxEntities, keys: 0..MaxKeys]

-----------------------------------------------------------------------------
(***************************************************************************)
(* Authentication.  Keys are numbered in the order of their making.        *)
(***************************************************************************)
NextKey == made.keys + 1

NewAuthentication(path) ==
  [spf |-> FALSE, verified |-> FALSE, active |-> NoKey, pending |-> NextKey,
   revoked |-> NoKey, safe |-> FALSE, path |-> path, pathVerified |-> FALSE]

\* A slip: a new key waits in the place of the old one.
RotatedAway(auth) == [auth EXCEPT !.pending = NextKey, !.active = NoKey, !.verified = FALSE]
Rotated(auth) == [auth EXCEPT !.pending = NextKey]

Renewing(auth) == auth.pending # NoKey

\* A slip: the pending key stays pending.
ConfirmedAgain(auth) == [auth EXCEPT !.active = auth.pending, !.verified = TRUE]
\* `confirmDkim`: the pending key becomes active and revokes the one it was.
ConfirmedKey(auth) ==
  [auth EXCEPT !.active = auth.pending, !.pending = NoKey, !.verified = TRUE,
               !.revoked = IF auth.active # NoKey THEN auth.active ELSE @,
               !.safe = IF auth.active # NoKey THEN TRUE ELSE @]

WithPath(auth, path) ==
  IF path = auth.path THEN auth ELSE [auth EXCEPT !.path = path, !.pathVerified = FALSE]

\* POST /control/.../verify names one of the two or both; none is done when one fails.
Verifiable(auth, what) ==
  /\ "dkim" \in what => Renewing(auth)
  /\ "returnPath" \in what => auth.path # NoPath
Verified(auth, what) ==
  LET keyed == IF "dkim" \in what THEN ConfirmedKey(auth) ELSE auth
  IN  IF "returnPath" \in what THEN [keyed EXCEPT !.pathVerified = TRUE] ELSE keyed

-----------------------------------------------------------------------------
(***************************************************************************)
(* Domains and signatures.                                                 *)
(***************************************************************************)
Make ==
  /\ made.entities < MaxEntities /\ made.keys < MaxKeys
  /\ made' = [entities |-> made.entities + 1, keys |-> made.keys + 1]
Added(f, x) == [id \in DOMAIN f \union {made.entities + 1} |->
                  IF id \in DOMAIN f THEN f[id] ELSE x]

CreateDomain(name, path) ==
  /\ \A d \in DOMAIN domains : domains[d].name # name
  /\ Make
  /\ domains' = Added(domains, [name |-> name, auth |-> NewAuthentication(path)])
  /\ UNCHANGED senders

CreateSender(email, path) ==
  /\ \A s \in DOMAIN senders : senders[s].email # email
  /\ Make
  /\ senders' = Added(senders, [email |-> email, confirmed |-> FALSE,
                                auth |-> NewAuthentication(path)])
  /\ UNCHANGED domains

SetDomain(d, auth) == domains' = [domains EXCEPT ![d].auth = auth] /\ UNCHANGED senders
SetSender(s, auth) == senders' = [senders EXCEPT ![s].auth = auth] /\ UNCHANGED domains

EditDomain(d, path) ==
  SetDomain(d, WithPath(domains[d].auth, path)) /\ UNCHANGED made
EditSender(s, path) ==
  SetSender(s, WithPath(senders[s].auth, path)) /\ UNCHANGED made

VerifySpf ==
  /\ \/ \E d \in DOMAIN domains : SetDomain(d, [domains[d].auth EXCEPT !.spf = TRUE])
     \/ \E s \in DOMAIN senders : SetSender(s, [senders[s].auth EXCEPT !.spf = TRUE])
  /\ UNCHANGED made

\* POST /domains/:id/rotatedkim.  That of a signature has no captured answer.
RotateDkim(d) ==
  /\ ~ Renewing(domains[d].auth)
  /\ made.keys < MaxKeys
  /\ SetDomain(d, Rotated(domains[d].auth))
  /\ made' = [made EXCEPT !.keys = NextKey]

VerifyDomain(d, what) ==
  /\ Verifiable(domains[d].auth, what)
  /\ SetDomain(d, Verified(domains[d].auth, what))
  /\ UNCHANGED made
VerifySender(s, what) ==
  /\ Verifiable(senders[s].auth, what)
  /\ SetSender(s, Verified(senders[s].auth, what))
  /\ UNCHANGED made

ConfirmSender(s) ==
  /\ ~ senders[s].confirmed
  /\ senders' = [senders EXCEPT ![s].confirmed = TRUE]
  /\ UNCHANGED <<domains, made>>

DeleteDomain(d) ==
  /\ domains' = [e \in DOMAIN domains \ {d} |-> domains[e]]
  /\ UNCHANGED <<senders, made>>
DeleteSender(s) ==
  /\ senders' = [r \in DOMAIN senders \ {s} |-> senders[r]]
  /\ UNCHANGED <<domains, made>>

-----------------------------------------------------------------------------
(***************************************************************************)
(* `senderAuthorized`: a confirmed signature of the address or a domain    *)
(* with a verified key; an entity that is neither, or a parent domain, has *)
(* no captured answer.                                                     *)
(***************************************************************************)
SignaturesOf(email) == {s \in DOMAIN senders : senders[s].email = email}
DomainsOf(email) == {d \in DOMAIN domains : domains[d].name = DomainOf[email]}

SenderState(email) ==
  IF \/ \E s \in SignaturesOf(email) : senders[s].confirmed
     \/ \E d \in DomainsOf(email) : domains[d].auth.verified
  THEN "authorized"
  ELSE IF \/ SignaturesOf(email) \union DomainsOf(email) # {}
          \/ \E d \in DOMAIN domains : domains[d].name \in ParentOf[DomainOf[email]]
  THEN "pending" ELSE "unknown"

-----------------------------------------------------------------------------
Init ==
  /\ domains = <<>> /\ senders = <<>>
  /\ made = [entities |-> 0, keys |-> 0]

What == {{"dkim"}, {"returnPath"}, {"dkim", "returnPath"}}

Next ==
  \/ \E name \in Domains, path \in Paths : CreateDomain(name, path)
  \/ \E email \in Emails, path \in Paths : CreateSender(email, path)
  \/ \E d \in DOMAIN domains, path \in Paths : EditDomain(d, path)
  \/ \E s \in DOMAIN senders, path \in Paths : EditSender(s, path)
  \/ VerifySpf
  \/ \E d \in DOMAIN domains : RotateDkim(d) \/ DeleteDomain(d)
  \/ \E d \in DOMAIN domains, what \in What : VerifyDomain(d, what)
  \/ \E s \in DOMAIN senders, what \in What : VerifySender(s, what)
  \/ \E s \in DOMAIN senders : ConfirmSender(s) \/ DeleteSender(s)

Spec == Init /\ [][Next]_vars

-----------------------------------------------------------------------------
(***************************************************************************)
(* Properties.                                                             *)
(***************************************************************************)
\* The keys of a domain tell one story through all rotations: a key is verified
\* once it was pending, the active one came after the revoked one and before
\* the pending one, one that may be removed from DNS is not one that still
\* signs, and a verified Return-Path is one that is set (authentication.ts).
KeysInOrder(auth) ==
  /\ auth.verified <=> auth.active # NoKey
  /\ auth.active = NoKey => auth.pending # NoKey
  /\ auth.pending # NoKey => auth.pending > auth.active
  /\ auth.revoked # NoKey => auth.revoked < auth.active
  /\ auth.safe <=> auth.revoked # NoKey
  /\ auth.pathVerified => auth.path # NoPath

\* The same for all domains and signatures, of which no two have one name.
KeysSound ==
  /\ TypeOK
  /\ \A d \in DOMAIN domains : KeysInOrder(domains[d].auth)
  /\ \A s \in DOMAIN senders : KeysInOrder(senders[s].auth)
  /\ \A d, e \in DOMAIN domains : domains[d].name = domains[e].name => d = e
  /\ \A r, s \in DOMAIN senders : senders[r].email = senders[s].email => r = s

\* A From that the account may use it may use until one of its domains or
\* signatures is deleted: neither the rotation of a key nor its confirmation,
\* nor a new domain or signature that is not verified yet, takes it away
\* (senderAuthorized with rotateDkim and confirmDkim).
StaysAuthorized ==
  [][\A email \in Emails :
       SenderState(email) = "authorized" /\ DOMAIN domains \subseteq DOMAIN domains'
         /\ DOMAIN senders \subseteq DOMAIN senders'
       => SenderState(email)' = "authorized"]_vars
=============================================================================
