---------------------------- MODULE TemplatesProofs ----------------------------
(***************************************************************************)
(* Proofs about Templates: what a server's templates are good for, after   *)
(* any sequence of calls, and that a push leaves nothing to push.          *)
(***************************************************************************)
EXTENDS Templates, FiniteSetTheorems, TLAPS

-----------------------------------------------------------------------------
(***************************************************************************)
(* Ranks in finite sets of naturals.                                       *)
(***************************************************************************)
\* The rank of an element in a finite set of naturals numbers the set from 1.
Rank(S, u) == Cardinality({v \in S : v <= u})

\* It is between one and their number.
LEMMA RankType ==
  ASSUME NEW S \in SUBSET Nat, IsFiniteSet(S), NEW u \in S
  PROVE  Rank(S, u) \in 1..Cardinality(S)
<1> DEFINE upTo == {v \in S : v <= u}
<1>1. upTo \in SUBSET S /\ upTo # {}
  OBVIOUS
<1> HIDE DEF upTo
<1>2. IsFiniteSet(upTo) /\ Cardinality(upTo) <= Cardinality(S)
  BY <1>1, FS_Subset
<1>3. Cardinality(upTo) \in Nat /\ Cardinality(S) \in Nat /\ Cardinality(upTo) # 0
  BY <1>1, <1>2, FS_CardinalityType, FS_EmptySet
<1> QED BY <1>2, <1>3 DEF Rank, upTo

\* A greater element has a greater rank.
LEMMA RankOrder ==
  ASSUME NEW S \in SUBSET Nat, IsFiniteSet(S), NEW u \in S, NEW v \in S, u < v
  PROVE  Rank(S, u) < Rank(S, v)
<1> DEFINE A == {w \in S : w <= u}
           B == {w \in S : w <= v}
<1>1. A \in SUBSET B /\ B \in SUBSET S /\ A # B
  <2>1. \A w \in S : w <= u => w <= v
    OBVIOUS
  <2>2. v \in B /\ v \notin A
    OBVIOUS
  <2> QED BY <2>1, <2>2
<1> HIDE DEF A, B
<1>2. IsFiniteSet(B)
  BY <1>1, FS_Subset
<1>3. IsFiniteSet(A) /\ Cardinality(A) <= Cardinality(B) /\ Cardinality(A) # Cardinality(B)
  BY <1>1, <1>2, FS_Subset
<1>4. Cardinality(A) \in Nat /\ Cardinality(B) \in Nat
  BY <1>2, <1>3, FS_CardinalityType
<1> QED BY <1>3, <1>4 DEF Rank, A, B

\* So the rank tells the element.
LEMMA RankInjective ==
  ASSUME NEW S \in SUBSET Nat, IsFiniteSet(S), NEW u \in S, NEW v \in S, Rank(S, u) = Rank(S, v)
  PROVE  u = v
<1>1. Rank(S, u) \in Nat /\ u \in Nat /\ v \in Nat
  BY RankType
<1>2. CASE u < v
  BY <1>1, <1>2, RankOrder
<1>3. CASE v < u
  BY <1>1, <1>3, RankOrder
<1> QED BY <1>1, <1>2, <1>3

\* Each number up to theirs is the rank of one.
LEMMA RankOnto ==
  ASSUME NEW S \in SUBSET Nat, IsFiniteSet(S), NEW k \in 1..Cardinality(S)
  PROVE  \E u \in S : Rank(S, u) = k
<1> DEFINE N == 1..Cardinality(S)
           f == [u \in S |-> Rank(S, u)]
<1>1. Cardinality(S) \in Nat
  BY FS_CardinalityType
<1>2. IsFiniteSet(N) /\ Cardinality(N) = Cardinality(S)
  <2>1. 1 \in Int /\ Cardinality(S) \in Int
    BY <1>1
  <2> QED BY <1>1, <2>1, FS_Interval
<1>3. f \in Injection(S, N)
  <2>1. \A u \in S : Rank(S, u) \in N
    BY RankType
  <2>2. \A u, v \in S : f[u] = f[v] => u = v
    BY RankInjective
  <2> QED BY <2>1, <2>2 DEF Injection, IsInjective
<1>4. f \in Surjection(S, N)
  <2> HIDE DEF f, N
  <2> QED BY <1>2, <1>3, FS_Injection
<1> QED BY <1>4 DEF Surjection
\* The element of rank one is the least.
LEMMA LeastOfFinite ==
  ASSUME NEW S \in SUBSET Nat, IsFiniteSet(S), S # {}
  PROVE  \E u \in S : \A v \in S : u <= v
<1>1. Cardinality(S) \in Nat \ {0}
  BY FS_CardinalityType, FS_EmptySet
<1>2. PICK u \in S : Rank(S, u) = 1
  BY <1>1, RankOnto
<1>3. ASSUME NEW v \in S, v < u
      PROVE  FALSE
  <2>1. Rank(S, v) < 1 /\ Rank(S, v) \in 1..Cardinality(S)
    BY <1>2, <1>3, RankOrder, RankType
  <2> QED BY <1>1, <2>1
<1>4. \A v \in S : u <= v
  BY <1>3
<1> QED BY <1>4

-----------------------------------------------------------------------------
(***************************************************************************)
(* The inductive invariant, and the templates of a server.                 *)
(***************************************************************************)
\* No two aliases differ in case only.  A push finds templates of the destination
\* without their case, while a layout is found by its alias as it is.
NoCases == \A a, b \in Alias : Folded(a) = Folded(b) => a = b

IDsGiven ==
  /\ DOMAIN servers \subseteq 1..maxIds.server
  /\ DOMAIN templates \subseteq 1..maxIds.template

\* The parts of TemplatesUsable, for any table of templates.
UniqueIn(T) ==
  \A t, u \in DOMAIN T :
    T[t].active /\ T[u].active /\ T[t].server = T[u].server /\ T[t].alias = T[u].alias => t = u

IsLayout(T, l, server, alias) ==
  /\ l \in DOMAIN T
  /\ T[l].active /\ T[l].server = server /\ T[l].type = "Layout" /\ T[l].alias = alias

LayoutsIn(T) ==
  \A t \in DOMAIN T :
    T[t].active /\ T[t].layout.by = "alias" =>
      \E l : IsLayout(T, l, T[t].server, T[t].layout.alias)

LimitKept == \A s \in DOMAIN servers : Cardinality(Active(s)) <= Limit
Owned == \A t \in DOMAIN templates : templates[t].server \in DOMAIN servers
NamesDiffer == \A r, s \in DOMAIN servers : servers[r] = servers[s] => r = s

Sound ==
  /\ TypeOK
  /\ IDsGiven
  /\ UniqueIn(templates)
  /\ LayoutsIn(templates)
  /\ LimitKept
  /\ Owned
  /\ NamesDiffer

-----------------------------------------------------------------------------
(***************************************************************************)
(* References and types.                                                   *)
(***************************************************************************)
\* A reference is none, by ID, or names an alias.
LEMMA LayoutForm ==
  ASSUME NEW ref \in Layouts
  PROVE  /\ ref = None \/ ref.by = "alias" \/ ref.by = "id"
         /\ ref.by = "alias" => ref.alias \in Alias /\ ref = ByAlias(ref.alias)
<1>1. CASE ref \in {ByAlias(a) : a \in Alias}
  BY <1>1 DEF ByAlias
<1>2. CASE ref \in {ByID(i) : i \in TemplateIDs}
  BY <1>2 DEF ByID
<1> QED BY <1>1, <1>2 DEF Layouts, None

\* What a reference by alias finds.
LEMMA FoundByAlias ==
  ASSUME NEW s, NEW ref, ref.by = "alias", NEW l
  PROVE  l \in LayoutFound(s, ref) <=> IsLayout(templates, l, s, ref.alias)
BY DEF LayoutFound, Found, Active, Own, IsLayout

LEMMA SoundUsable ==
  ASSUME Sound
  PROVE  TemplatesUsable
<1>1. \A s \in DOMAIN servers : \A t, u \in Active(s) : templates[t].alias = templates[u].alias => t = u
  BY DEF Sound, UniqueIn, Active, Own
<1>2. ASSUME NEW s \in DOMAIN servers, NEW t \in Active(s), templates[t].layout.by # "id"
      PROVE  Renders(t)
  <2> DEFINE ref == templates[t].layout
  <2>1. t \in DOMAIN templates /\ templates[t].active
    BY DEF Active, Own
  <2>2. ref \in Layouts
    BY <2>1 DEF Sound, TypeOK, Template
  <2>3. ref = None \/ ref.by = "alias"
    BY <1>2, <2>2, LayoutForm
  <2>4. CASE ref.by = "alias"
    <3>1. PICK l : IsLayout(templates, l, templates[t].server, ref.alias)
      BY <2>1, <2>4 DEF Sound, LayoutsIn
    <3>2. l \in LayoutFound(templates[t].server, ref)
      BY <2>4, <3>1, FoundByAlias
    <3> QED BY <3>2 DEF Renders
  <2> QED BY <2>3, <2>4 DEF Renders
<1> QED BY <1>1, <1>2 DEF Sound, LimitKept, Owned, NamesDiffer, TemplatesUsable

\* The references that a client writes are typed.
LEMMA RefsTyped ==
  ASSUME Sound, NEW s, NEW ref \in Refs(s) \union {None}
  PROVE  ref \in Layouts
<1>1. \A t \in Own(s) : templates[t].alias \in Alias /\ t \in TemplateIDs
  BY DEF Sound, TypeOK, Template, Own
<1> QED BY <1>1 DEF Refs, Layouts

\* There are fewer templates than numbers for a generated alias, so one is free.
LEMMA GeneratedTyped ==
  ASSUME Sound, NEW s, NEW type \in Types, NextTemplate \in TemplateIDs
  PROVE  GeneratedAlias(s, type, NextTemplate) \in Alias
<1> DEFINE candidate(n) == [type |-> type, id |-> NextTemplate, n |-> n]
           N == 0..MaxTemplates
           free == {n \in N : \A t \in Active(s) : templates[t].alias # candidate(n)}
<1>1. MaxTemplates \in Nat /\ N \subseteq Nat
  BY TemplatesAssumption
<1>2. free # {}
  <2> SUFFICES ASSUME free = {} PROVE FALSE
    OBVIOUS
  <2>1. \A n \in N : \E t \in Active(s) : templates[t].alias = candidate(n)
    OBVIOUS
  <2> DEFINE f == [n \in N |-> CHOOSE t \in Active(s) : templates[t].alias = candidate(n)]
  <2>2. \A n \in N : f[n] \in Active(s) /\ templates[f[n]].alias = candidate(n)
    BY <2>1
  <2>3. Active(s) \subseteq TemplateIDs
    BY DEF Active, Own, Sound, TypeOK
  <2>4. f \in [N -> TemplateIDs]
    BY <2>2, <2>3
  <2>5. /\ IsFiniteSet(N) /\ Cardinality(N) = MaxTemplates + 1
        /\ IsFiniteSet(TemplateIDs) /\ Cardinality(TemplateIDs) = MaxTemplates
    <3>1. 0 \in Int /\ 1 \in Int /\ MaxTemplates \in Int
      BY <1>1
    <3> QED BY <1>1, <3>1, FS_Interval DEF TemplateIDs
  <2>6. Cardinality(TemplateIDs) < Cardinality(N)
    BY <1>1, <2>5
  <2>7. PICK x, y \in N : x # y /\ f[x] = f[y]
    <3> HIDE DEF f, N
    <3> QED BY <2>4, <2>5, <2>6, FS_PigeonHole
  <2>8. candidate(x) = candidate(y)
    <3> HIDE DEF f, candidate
    <3> QED BY <2>2, <2>7
  <2>9. candidate(x).n = x /\ candidate(y).n = y
    OBVIOUS
  <2> QED BY <2>7, <2>8, <2>9
<1> DEFINE least == CHOOSE n \in free : \A m \in free : n <= m
<1>3. least \in free
  <2>1. free \in SUBSET Nat
    BY <1>1
  <2>2. IsFiniteSet(free)
    <3>1. 0 \in Int /\ MaxTemplates \in Int
      BY <1>1
    <3> QED BY <3>1, FS_Interval, FS_Subset
  <2> HIDE DEF free
  <2>3. \E n \in free : \A m \in free : n <= m
    BY <1>2, <2>1, <2>2, LeastOfFinite
  <2> QED BY <2>3
<1>4. GeneratedAlias(s, type, NextTemplate) = candidate(least)
  BY DEF GeneratedAlias
<1>5. candidate(least) \in Generated
  <2>1. least \in N
    BY <1>3
  <2> HIDE DEF least
  <2> QED BY <2>1 DEF Generated
<1> QED BY <1>4, <1>5 DEF Alias

\* The active templates of a server are finitely many.
LEMMA ActiveFinite ==
  ASSUME TypeOK, NEW s
  PROVE  /\ IsFiniteSet(Active(s)) /\ Cardinality(Active(s)) \in Nat
         /\ Active(s) \subseteq TemplateIDs
<1>1. IsFiniteSet(TemplateIDs)
  <2>1. 1 \in Int /\ MaxTemplates \in Int
    BY TemplatesAssumption
  <2> QED BY <2>1, FS_Interval DEF TemplateIDs
<1>2. Active(s) \in SUBSET TemplateIDs
  BY DEF Active, Own, TypeOK
<1> QED BY <1>1, <1>2, FS_Subset, FS_CardinalityType

LEMMA InitSound == Init => Sound
<1> SUFFICES ASSUME Init PROVE Sound
  OBVIOUS
<1>1. DOMAIN templates = {} /\ servers \in [{1} -> ServerNames] /\ maxIds = [server |-> 1, template |-> 0]
  BY DEF Init
<1>2. TypeOK
  <2>1. {1} \in SUBSET ServerIDs
    BY TemplatesAssumption DEF ServerIDs
  <2>2. \E S \in SUBSET ServerIDs : servers \in [S -> ServerNames]
    BY <1>1, <2>1
  <2>3. maxIds \in [server: 0..MaxServers, template: 0..MaxTemplates]
    BY <1>1, TemplatesAssumption
  <2> QED BY <1>1, <2>2, <2>3 DEF Init, TypeOK
<1>3. \A s : Active(s) = {}
  BY <1>1 DEF Active, Own
<1>4. LimitKept
  BY <1>3, FS_EmptySet, TemplatesAssumption DEF LimitKept
<1> QED
  BY <1>1, <1>2, <1>4 DEF Sound, IDsGiven, UniqueIn, LayoutsIn, Owned, NamesDiffer

-----------------------------------------------------------------------------
(***************************************************************************)
(* Create, edit and delete.                                                *)
(***************************************************************************)
\* A template that passes the checks finds the layout that it names by alias.
LEMMA CheckedLayout ==
  ASSUME NEW self, NEW template, Checked(self, template), template.layout.by = "alias",
         template.type \in Types
  PROVE  /\ template.type = "Standard"
         /\ \E l : IsLayout(templates, l, template.server, template.layout.alias)
<1>1. template.layout # None
  BY DEF None
<1>2. template.type # "Layout" /\ LayoutFound(template.server, template.layout) # {}
  BY <1>1 DEF Checked
<1>3. PICK l : l \in LayoutFound(template.server, template.layout)
  BY <1>2
<1>4. IsLayout(templates, l, template.server, template.layout.alias)
  BY <1>3, FoundByAlias
<1> QED BY <1>2, <1>4 DEF Types

LEMMA CreateSound ==
  ASSUME Sound, NEW s \in DOMAIN servers, NEW type \in Types, NEW content \in Contents,
         NEW given \in {{}} \union {{a} : a \in Aliases}, NEW layout \in Refs(s) \union {None},
         CreateTemplate(s, type, given, layout, content)
  PROVE  Sound'
<1> DEFINE N == NextTemplate
           alias == IF given = {} THEN GeneratedAlias(s, type, N) ELSE CHOOSE a \in given : TRUE
           new == [server |-> s, type |-> type, alias |-> alias, content |-> content,
                   layout |-> layout, active |-> TRUE]
<1>1. /\ N <= MaxTemplates /\ CanCreate(s) /\ Checked(0, new)
      /\ templates' = With(templates, N, new)
      /\ maxIds' = [maxIds EXCEPT !.template = N]
      /\ serverDeletionEnabled' = serverDeletionEnabled /\ servers' = servers
  BY DEF CreateTemplate
<1>2. /\ maxIds.template \in Nat /\ N = maxIds.template + 1 /\ N \in TemplateIDs /\ N # 0
      /\ N \notin DOMAIN templates /\ N \notin Active(s) /\ 0 \notin Active(s)
  BY <1>1, TemplatesAssumption DEF Sound, TypeOK, IDsGiven, NextTemplate, TemplateIDs, Active, Own
<1>3. new \in Template
  <2>1. alias \in Alias
    <3>1. CASE given = {}
      BY <1>2, <3>1, GeneratedTyped
    <3>2. CASE given # {}
      BY <3>2 DEF Alias
    <3> QED BY <3>1, <3>2
  <2>2. layout \in Layouts
    BY RefsTyped
  <2>3. s \in ServerIDs
    BY DEF Sound, TypeOK
  <2> HIDE DEF alias
  <2> QED BY <2>1, <2>2, <2>3 DEF Template
<1>4. new.server = s /\ new.type = type /\ new.alias = alias /\ new.layout = layout /\ new.active
  OBVIOUS
<1> HIDE DEF new
<1>5. /\ DOMAIN templates' = DOMAIN templates \union {N} /\ templates'[N] = new
      /\ \A t \in DOMAIN templates : templates'[t] = templates[t]
  BY <1>1, <1>2 DEF With
<1>6. maxIds' \in [server: 0..MaxServers, template: 0..MaxTemplates]
      /\ maxIds'.server = maxIds.server /\ maxIds'.template = N
  BY <1>1, <1>2 DEF Sound, TypeOK, TemplateIDs
<1> HIDE DEF N
<1>7. TypeOK'
  BY <1>1, <1>2, <1>3, <1>5, <1>6 DEF Sound, TypeOK
<1>8. IDsGiven'
  BY <1>1, <1>2, <1>5, <1>6 DEF Sound, IDsGiven
<1>9. UniqueIn(templates')
  <2>1. \A t \in Active(s) : templates[t].alias # alias
    BY <1>1, <1>2, <1>4 DEF Checked, AliasFree
  <2>2. \A t \in DOMAIN templates :
          templates[t].active /\ templates[t].server = s => templates[t].alias # alias
    BY <2>1 DEF Active, Own
  <2> HIDE DEF alias
  <2> QED BY <1>2, <1>4, <1>5, <2>2 DEF Sound, UniqueIn
<1>10. LayoutsIn(templates')
  <2>1. \A l, r, a : IsLayout(templates, l, r, a) => IsLayout(templates', l, r, a)
    BY <1>5 DEF IsLayout
  <2>2. new.layout.by = "alias" => \E l : IsLayout(templates, l, s, new.layout.alias)
    BY <1>1, <1>4, CheckedLayout
  <2> SUFFICES ASSUME NEW t \in DOMAIN templates', templates'[t].active,
                      templates'[t].layout.by = "alias"
               PROVE  \E l : IsLayout(templates', l, templates'[t].server, templates'[t].layout.alias)
    BY DEF LayoutsIn
  <2>3. CASE t = N
    BY <1>4, <1>5, <2>1, <2>2, <2>3
  <2>4. CASE t \in DOMAIN templates
    BY <1>5, <2>1, <2>4 DEF Sound, LayoutsIn
  <2> QED BY <1>5, <2>3, <2>4
<1>11. LimitKept'
  <2>1. \A r : r # s => Active(r)' = Active(r)
    BY <1>2, <1>4, <1>5 DEF Active, Own
  <2>2. Active(s)' = Active(s) \union {N}
    BY <1>2, <1>4, <1>5 DEF Active, Own
  <2>3. IsFiniteSet(Active(s)) /\ Cardinality(Active(s)) \in Nat
    BY ActiveFinite DEF Sound
  <2>4. Cardinality(Active(s) \union {N}) = Cardinality(Active(s)) + 1
    BY <1>2, <2>3, FS_AddElement
  <2>5. Cardinality(Active(s)) + 1 <= Limit
    BY <1>1, <2>3, TemplatesAssumption DEF CanCreate
  <2>6. ASSUME NEW r \in DOMAIN servers PROVE Cardinality(Active(r)') <= Limit
    <3>1. CASE r = s
      BY <2>2, <2>4, <2>5, <3>1
    <3>2. CASE r # s
      BY <2>1, <3>2 DEF Sound, LimitKept
    <3> QED BY <3>1, <3>2
  <2> QED BY <1>1, <2>6 DEF LimitKept
<1>12. Owned' /\ NamesDiffer'
  BY <1>1, <1>4, <1>5 DEF Sound, Owned, NamesDiffer
<1> QED BY <1>7, <1>8, <1>9, <1>10, <1>11, <1>12 DEF Sound

\* Fields of a template that is edited, deleted, copied to or copied from.
Edited(a, alias, layout, content) ==
  [a EXCEPT !.alias = alias, !.layout = layout, !.content = content]
Moved(a, s) == [a EXCEPT !.server = s]

LEMMA EditedFields ==
  ASSUME NEW a \in Template, NEW alias \in Alias, NEW layout \in Layouts, NEW content \in Contents
  PROVE  LET b == Edited(a, alias, layout, content)
         IN  /\ b \in Template /\ b.server = a.server /\ b.type = a.type
             /\ (b.active <=> a.active) /\ b.alias = alias /\ b.layout = layout
BY DEF Template, Edited

LEMMA DeletedFields ==
  ASSUME NEW a \in Template
  PROVE  LET b == [a EXCEPT !.active = FALSE]
         IN  b \in Template /\ b.server = a.server /\ ~ b.active
BY DEF Template

LEMMA CopiedFields ==
  ASSUME NEW a \in Template, NEW c \in Template
  PROVE  LET b == Copied(a, c)
         IN  /\ b \in Template /\ b.server = a.server /\ b.type = a.type /\ b.alias = a.alias
             /\ (b.active <=> a.active) /\ b.content = c.content /\ b.layout = c.layout
<1>1. c.content \in Contents /\ c.layout \in Layouts
  BY DEF Template
<1> QED BY <1>1 DEF Template, Copied

LEMMA MovedFields ==
  ASSUME NEW a \in Template, NEW s \in ServerIDs
  PROVE  LET b == Moved(a, s)
         IN  /\ b \in Template /\ b.server = s /\ b.type = a.type /\ b.alias = a.alias
             /\ (b.active <=> a.active) /\ b.content = a.content /\ b.layout = a.layout
BY DEF Template, Moved

LEMMA EditSound ==
  ASSUME Sound, NEW s \in DOMAIN servers, NEW t \in Active(s),
         NEW alias \in Aliases \union {templates[t].alias},
         NEW layout \in Refs(s) \union {None, templates[t].layout}, NEW content \in Contents,
         EditTemplate(s, t, alias, layout, content)
  PROVE  Sound'
<1> DEFINE after == [templates[t] EXCEPT !.alias = alias, !.layout = layout, !.content = content]
<1>1. /\ t \in DOMAIN templates /\ templates[t] \in Template
      /\ templates[t].active /\ templates[t].server = s
  BY DEF Active, Own, Sound, TypeOK
<1>2. /\ Checked(t, after) /\ KeptInUse(t, alias)
      /\ templates' = [templates EXCEPT ![t] = after]
      /\ serverDeletionEnabled' = serverDeletionEnabled /\ servers' = servers /\ maxIds' = maxIds
  BY DEF EditTemplate
<1>3. alias \in Alias /\ layout \in Layouts
  <2>1. templates[t].alias \in Alias /\ templates[t].layout \in Layouts
    BY <1>1 DEF Template
  <2> QED BY <2>1, RefsTyped DEF Alias
<1>4. /\ after \in Template /\ after.server = s /\ after.type = templates[t].type
      /\ after.active /\ after.alias = alias /\ after.layout = layout
  <2>1. after = Edited(templates[t], alias, layout, content)
    BY DEF Edited
  <2> HIDE DEF after
  <2>2. LET b == Edited(templates[t], alias, layout, content)
        IN  /\ b \in Template /\ b.server = templates[t].server /\ b.type = templates[t].type
            /\ (b.active <=> templates[t].active) /\ b.alias = alias /\ b.layout = layout
    BY <1>1, <1>3, EditedFields
  <2> QED BY <1>1, <2>1, <2>2
<1> HIDE DEF after
<1>5. /\ DOMAIN templates' = DOMAIN templates /\ templates'[t] = after
      /\ \A u \in DOMAIN templates : u # t => templates'[u] = templates[u]
  BY <1>1, <1>2
<1>6. \A u \in DOMAIN templates : /\ templates'[u].server = templates[u].server
                                  /\ templates'[u].type = templates[u].type
                                  /\ (templates'[u].active <=> templates[u].active)
  BY <1>1, <1>4, <1>5
<1>7. TypeOK' /\ IDsGiven'
  BY <1>2, <1>4, <1>5 DEF Sound, TypeOK, IDsGiven
<1>8. UniqueIn(templates')
  <2>1. \A u \in Active(s) : u # t => templates[u].alias # alias
    BY <1>2, <1>4 DEF Checked, AliasFree
  <2>2. \A u \in DOMAIN templates :
          u # t /\ templates[u].active /\ templates[u].server = s => templates[u].alias # alias
    BY <2>1 DEF Active, Own
  <2> QED BY <1>1, <1>4, <1>5, <2>2 DEF Sound, UniqueIn
<1>9. LayoutsIn(templates')
  <2> SUFFICES ASSUME NEW u \in DOMAIN templates, templates'[u].active,
                      templates'[u].layout.by = "alias"
               PROVE  \E l : IsLayout(templates', l, templates'[u].server, templates'[u].layout.alias)
    BY <1>5 DEF LayoutsIn
  <2>1. CASE u = t
    <3>1. after.layout.by = "alias" /\ after.type \in Types
      BY <1>4, <1>5, <2>1 DEF Template
    <3>2. after.type = "Standard" /\ \E l : IsLayout(templates, l, s, after.layout.alias)
      BY <1>2, <1>4, <3>1, CheckedLayout
    <3>3. PICK l : IsLayout(templates, l, s, after.layout.alias)
      BY <3>2
    <3>4. l # t
      BY <1>4, <3>2, <3>3 DEF IsLayout
    <3>5. IsLayout(templates', l, s, after.layout.alias)
      BY <1>5, <3>3, <3>4 DEF IsLayout
    <3> QED BY <1>4, <1>5, <2>1, <3>5
  <2>2. CASE u # t
    <3>1. templates'[u] = templates[u] /\ templates[u].active /\ templates[u].layout.by = "alias"
      BY <1>5, <2>2
    <3>2. PICK l : IsLayout(templates, l, templates[u].server, templates[u].layout.alias)
      BY <3>1 DEF Sound, LayoutsIn
    <3>3. CASE l # t
      BY <1>5, <3>1, <3>2, <3>3 DEF IsLayout
    <3>4. CASE l = t
      <4>1. /\ templates[t].type = "Layout" /\ templates[u].server = s
            /\ templates[t].alias = templates[u].layout.alias
        BY <1>1, <3>2, <3>4 DEF IsLayout
      <4>2. templates[u].layout = ByAlias(templates[t].alias)
        <5>1. templates[u].layout \in Layouts
          BY DEF Sound, TypeOK, Template
        <5> QED BY <3>1, <4>1, <5>1, LayoutForm
      <4>3. u \in LayoutUsers(t)
        BY <1>1, <3>1, <4>1, <4>2 DEF LayoutUsers, Active, Own
      <4>4. alias = templates[t].alias
        BY <1>2, <4>1, <4>3 DEF KeptInUse
      <4>5. IsLayout(templates', t, s, alias)
        BY <1>1, <1>4, <1>5, <4>1 DEF IsLayout
      <4> QED BY <3>1, <4>1, <4>4, <4>5
    <3> QED BY <3>3, <3>4
  <2> QED BY <2>1, <2>2
<1>10. LimitKept'
  <2>1. \A r : Active(r)' = Active(r)
    BY <1>5, <1>6 DEF Active, Own
  <2> QED BY <1>2, <2>1 DEF Sound, LimitKept
<1>11. Owned' /\ NamesDiffer'
  BY <1>2, <1>5, <1>6 DEF Sound, Owned, NamesDiffer
<1> QED BY <1>7, <1>8, <1>9, <1>10, <1>11 DEF Sound

LEMMA DeleteSound ==
  ASSUME Sound, NEW s \in DOMAIN servers, NEW t \in Active(s), DeleteTemplate(s, t)
  PROVE  Sound'
<1> DEFINE after == [templates[t] EXCEPT !.active = FALSE]
<1>1. /\ t \in DOMAIN templates /\ templates[t] \in Template
      /\ templates[t].active /\ templates[t].server = s
  BY DEF Active, Own, Sound, TypeOK
<1>2. /\ ~ (templates[t].type = "Layout" /\ LayoutUsers(t) # {})
      /\ templates' = [templates EXCEPT ![t] = after]
      /\ serverDeletionEnabled' = serverDeletionEnabled /\ servers' = servers /\ maxIds' = maxIds
  BY <1>1 DEF DeleteTemplate
<1>3. after \in Template /\ after.server = s /\ ~ after.active
  BY <1>1, DeletedFields
<1> HIDE DEF after
<1>4. /\ DOMAIN templates' = DOMAIN templates /\ templates'[t] = after
      /\ \A u \in DOMAIN templates : u # t => templates'[u] = templates[u]
  BY <1>1, <1>2
<1>5. TypeOK' /\ IDsGiven'
  BY <1>2, <1>3, <1>4 DEF Sound, TypeOK, IDsGiven
<1>6. UniqueIn(templates')
  BY <1>3, <1>4 DEF Sound, UniqueIn
<1>7. LayoutsIn(templates')
  <2> SUFFICES ASSUME NEW u \in DOMAIN templates, templates'[u].active,
                      templates'[u].layout.by = "alias"
               PROVE  \E l : IsLayout(templates', l, templates'[u].server, templates'[u].layout.alias)
    BY <1>4 DEF LayoutsIn
  <2>1. u # t /\ templates'[u] = templates[u] /\ templates[u].active
        /\ templates[u].layout.by = "alias"
    BY <1>3, <1>4
  <2>2. PICK l : IsLayout(templates, l, templates[u].server, templates[u].layout.alias)
    BY <2>1 DEF Sound, LayoutsIn
  <2>3. l # t
    <3> SUFFICES ASSUME l = t PROVE FALSE
      OBVIOUS
    <3>1. /\ templates[t].type = "Layout" /\ templates[u].server = s
          /\ templates[t].alias = templates[u].layout.alias
      BY <1>1, <2>2 DEF IsLayout
    <3>2. templates[u].layout = ByAlias(templates[t].alias)
      <4>1. templates[u].layout \in Layouts
        BY DEF Sound, TypeOK, Template
      <4> QED BY <2>1, <3>1, <4>1, LayoutForm
    <3>3. u \in LayoutUsers(t)
      BY <1>1, <2>1, <3>1, <3>2 DEF LayoutUsers, Active, Own
    <3> QED BY <1>2, <3>1, <3>3
  <2> QED BY <1>4, <2>1, <2>2, <2>3 DEF IsLayout
<1>8. LimitKept'
  <2>1. ASSUME NEW r \in DOMAIN servers PROVE Cardinality(Active(r)') <= Limit
    <3>1. Active(r)' \in SUBSET Active(r)
      BY <1>3, <1>4 DEF Active, Own
    <3>2. IsFiniteSet(Active(r)) /\ Cardinality(Active(r)) \in Nat
      BY ActiveFinite DEF Sound
    <3>3. Cardinality(Active(r)') <= Cardinality(Active(r)) /\ IsFiniteSet(Active(r)')
      BY <3>1, <3>2, FS_Subset
    <3>4. Cardinality(Active(r)') \in Nat
      BY <3>3, FS_CardinalityType
    <3> QED BY <3>2, <3>3, <3>4, TemplatesAssumption DEF Sound, LimitKept
  <2> QED BY <1>2, <2>1 DEF LimitKept
<1>9. Owned' /\ NamesDiffer'
  BY <1>1, <1>2, <1>3, <1>4 DEF Sound, Owned, NamesDiffer
<1> QED BY <1>5, <1>6, <1>7, <1>8, <1>9 DEF Sound

-----------------------------------------------------------------------------
(***************************************************************************)
(* Push.                                                                   *)
(***************************************************************************)
\* A push finds for a template the one active template with its alias, or none.
LEMMA TargetByAlias ==
  ASSUME Sound, NoCases, NEW from, NEW to, NEW t \in Active(from)
  PROVE  /\ \A u : u \in Matches(t, to) <=> u \in Active(to) /\ templates[u].alias = templates[t].alias
         /\ \A u \in Matches(t, to) : Target(t, to) = u
         /\ HasTarget(t, to) =>
              Target(t, to) \in Active(to) /\ templates[Target(t, to)].alias = templates[t].alias
<1>1. \A s : \A u \in Active(s) : u \in DOMAIN templates /\ templates[u].alias \in Alias
                                   /\ templates[u].server = s /\ templates[u].active /\ u \in Nat
  BY DEF Active, Own, Sound, TypeOK, Template, TemplateIDs
<1>2. \A u : u \in Matches(t, to) <=> u \in Active(to) /\ templates[u].alias = templates[t].alias
  BY <1>1 DEF Matches, NoCases
<1>3. ASSUME NEW u \in Matches(t, to) PROVE Target(t, to) = u
  <2>1. \A v \in Matches(t, to) : v = u
    BY <1>1, <1>2 DEF Sound, UniqueIn
  <2>2. u <= u
    BY <1>1, <1>2
  <2>3. \E v \in Matches(t, to) : \A w \in Matches(t, to) : w <= v
    BY <2>1, <2>2
  <2>4. Target(t, to) \in Matches(t, to)
    BY <2>3 DEF Target
  <2> QED BY <2>1, <2>4
<1> QED BY <1>2, <1>3 DEF HasTarget

\* A template that has a target has one of its own alias.
LEMMA TargetIsAlike ==
  ASSUME Sound, NoCases, NEW from, NEW to, NEW t \in Active(from), HasTarget(t, to)
  PROVE  templates[Target(t, to)].alias = templates[t].alias
<1> DEFINE u == Target(t, to)
<1>1. HasTarget(t, to) => u \in Active(to) /\ templates[u].alias = templates[t].alias
  BY TargetByAlias
<1> HIDE DEF u
<1> QED BY <1>1 DEF u

\* The IDs that a push gives.
NewIDs(from, to) ==
  (maxIds.template + 1)..(maxIds.template + Cardinality(Creates(from, to)))

\* After a push a template is as it was, or has the contents of a source.
OldOnes(from, to) ==
  \A t \in DOMAIN templates :
    \/ templates'[t] = templates[t]
    \/ \E u \in Edits(from, to) : /\ templates'[t] = Copied(templates[t], templates[u])
                                  /\ t \in Active(to) /\ Target(u, to) = t
EditsDone(from, to) ==
  \A u \in Edits(from, to) :
    templates'[Target(u, to)] = Copied(templates[Target(u, to)], templates[u])

\* A new one is the copy of a source, and each source that had no target has a copy.
NewOnes(from, to) ==
  \A k \in NewIDs(from, to) : \E u \in Creates(from, to) :
    k = maxIds.template + Rank(Creates(from, to), u) /\ templates'[k] = Moved(templates[u], to)
CreatesDone(from, to) ==
  \A u \in Creates(from, to) : \E k \in NewIDs(from, to) : templates'[k] = Moved(templates[u], to)

\* The table after a push: what there was, with the contents of a source or as it
\* was, and one copy of each source that the destination lacks.
LEMMA Pushed ==
  ASSUME Sound, NoCases, NEW from \in DOMAIN servers, NEW to \in DOMAIN servers, Push(from, to)
  PROVE  /\ IsFiniteSet(Creates(from, to)) /\ Cardinality(Creates(from, to)) \in Nat
         /\ maxIds.template + Cardinality(Creates(from, to)) <= MaxTemplates
         /\ DOMAIN templates' = DOMAIN templates \union NewIDs(from, to)
         /\ NewIDs(from, to) \intersect DOMAIN templates = {}
         /\ OldOnes(from, to) /\ EditsDone(from, to)
         /\ NewOnes(from, to) /\ CreatesDone(from, to)
<1> DEFINE creates == Creates(from, to)
           m == maxIds.template
           last == m + Cardinality(creates)
           new == (m + 1)..last
           newID(t) == m + Cardinality({u \in creates : u <= t})
           sourcesOf(t) == {u \in Edits(from, to) : Target(u, to) = t}
           edited(t) == IF sourcesOf(t) = {} THEN templates[t]
                        ELSE Copied(templates[t], templates[CHOOSE u \in sourcesOf(t) :
                                                             \A v \in sourcesOf(t) : v <= u])
<1>1. /\ m \in Nat /\ m <= MaxTemplates /\ MaxTemplates \in Nat
      /\ DOMAIN templates \subseteq 1..m /\ DOMAIN templates \subseteq Nat
  BY TemplatesAssumption DEF Sound, TypeOK, IDsGiven
<1>2. creates \in SUBSET Active(from) /\ creates \in SUBSET Nat /\ IsFiniteSet(creates)
      /\ Cardinality(creates) \in Nat
  <2>1. creates \in SUBSET Active(from) /\ Active(from) \subseteq DOMAIN templates
    BY DEF Creates, Active, Own
  <2>2. IsFiniteSet(Active(from))
    BY ActiveFinite DEF Sound
  <2>3. IsFiniteSet(creates)
    <3> HIDE DEF creates
    <3> QED BY <2>1, <2>2, FS_Subset
  <2> QED BY <1>1, <2>1, <2>3, FS_CardinalityType
<1>3. /\ last <= MaxTemplates
      /\ templates' = [t \in DOMAIN templates \union new |->
                         IF t \in DOMAIN templates THEN edited(t)
                         ELSE LET source == CHOOSE u \in creates : newID(u) = t
                              IN  [templates[source] EXCEPT !.server = to]]
  BY DEF Push
<1>4. new \intersect DOMAIN templates = {}
  BY <1>1, <1>2
<1>5. ASSUME NEW t \in DOMAIN templates
      PROVE  /\ sourcesOf(t) = {} => templates'[t] = templates[t]
             /\ \A u \in sourcesOf(t) : /\ u \in Active(from) /\ t \in Active(to)
                                        /\ templates'[t] = Copied(templates[t], templates[u])
  <2>1. templates'[t] = edited(t)
    <3> HIDE DEF edited, new, newID
    <3> QED BY <1>3
  <2>2. CASE sourcesOf(t) = {}
    BY <2>1, <2>2
  <2>3. ASSUME NEW u \in sourcesOf(t)
        PROVE  /\ u \in Active(from) /\ t \in Active(to)
               /\ templates'[t] = Copied(templates[t], templates[u])
    <3>1. \A v \in sourcesOf(t) : /\ v \in Active(from) /\ t \in Active(to)
                                  /\ templates[t].alias = templates[v].alias
      <4> SUFFICES ASSUME NEW v \in sourcesOf(t)
                   PROVE  /\ v \in Active(from) /\ t \in Active(to)
                          /\ templates[t].alias = templates[v].alias
        OBVIOUS
      <4>1. v \in Active(from) /\ HasTarget(v, to) /\ Target(v, to) = t
        BY DEF Edits, Creates
      <4> QED BY <4>1, TargetByAlias
    <3>2. \A v \in sourcesOf(t) : v = u /\ v \in Nat
      BY <1>1, <3>1 DEF Sound, UniqueIn, Active, Own
    <3> HIDE DEF sourcesOf
    <3>3. (CHOOSE v \in sourcesOf(t) : \A w \in sourcesOf(t) : w <= v) = u
      <4>1. u <= u
        BY <3>2
      <4>2. \E v \in sourcesOf(t) : \A w \in sourcesOf(t) : w <= v
        BY <3>2, <4>1
      <4> QED BY <3>2, <4>2
    <3>4. edited(t) = Copied(templates[t], templates[u])
      BY <3>3
    <3> QED BY <2>1, <3>1, <3>4
  <2> QED BY <2>2, <2>3
<1>6. ASSUME NEW t \in DOMAIN templates
      PROVE  \/ templates'[t] = templates[t]
             \/ \E u \in Edits(from, to) : /\ templates'[t] = Copied(templates[t], templates[u])
                                          /\ t \in Active(to) /\ Target(u, to) = t
  <2>1. CASE sourcesOf(t) = {}
    BY <1>5, <2>1
  <2>2. CASE sourcesOf(t) # {}
    <3>1. PICK u : u \in sourcesOf(t)
      BY <2>2
    <3>2. Target(u, to) = t /\ u \in Edits(from, to)
      BY <3>1
    <3> HIDE DEF sourcesOf
    <3> QED BY <1>5, <3>1, <3>2
  <2> QED BY <2>1, <2>2
<1>7. ASSUME NEW u \in Edits(from, to)
      PROVE  templates'[Target(u, to)] = Copied(templates[Target(u, to)], templates[u])
  <2>1. u \in Active(from) /\ HasTarget(u, to)
    BY DEF Edits, Creates
  <2>2. Target(u, to) \in DOMAIN templates
    BY <2>1, TargetByAlias DEF Active, Own
  <2>3. u \in sourcesOf(Target(u, to))
    OBVIOUS
  <2> HIDE DEF sourcesOf
  <2> QED BY <1>5, <2>2, <2>3
<1>8. \A u : newID(u) = m + Rank(creates, u)
  BY DEF Rank
<1>9. ASSUME NEW k \in new, NEW u \in creates, newID(u) = k
      PROVE  templates'[k] = Moved(templates[u], to)
  <2>1. \A v \in creates : newID(v) = k => v = u
    <3> HIDE DEF creates, newID, m
    <3> SUFFICES ASSUME NEW v \in creates, newID(v) = k PROVE v = u
      OBVIOUS
    <3>1. Rank(creates, v) \in Nat /\ Rank(creates, u) \in Nat
      BY <1>2, RankType
    <3>2. Rank(creates, v) = Rank(creates, u)
      BY <1>1, <1>8, <1>9, <3>1
    <3> QED BY <1>2, <3>2, RankInjective
  <2>2. (CHOOSE v \in creates : newID(v) = k) = u
    <3> HIDE DEF creates, newID
    <3> QED BY <1>9, <2>1
  <2>3. k \notin DOMAIN templates
    <3> HIDE DEF new
    <3> QED BY <1>4
  <2> HIDE DEF creates, newID, new, edited
  <2> QED BY <1>3, <2>2, <2>3 DEF Moved
<1>10. ASSUME NEW k \in new
       PROVE  \E u \in creates : k = m + Rank(creates, u)
                                 /\ templates'[k] = Moved(templates[u], to)
  <2>1. k - m \in 1..Cardinality(creates) /\ k = m + (k - m)
    BY <1>1, <1>2
  <2>2. PICK u \in creates : Rank(creates, u) = k - m
    <3> HIDE DEF creates
    <3> QED BY <1>2, <2>1, RankOnto
  <2>3. newID(u) = k
    <3> HIDE DEF newID, creates
    <3> QED BY <1>8, <2>1, <2>2
  <2> HIDE DEF newID, creates, new
  <2> QED BY <1>8, <1>9, <2>3
<1>11. ASSUME NEW u \in creates
       PROVE  \E k \in new : templates'[k] = Moved(templates[u], to)
  <2>1. Rank(creates, u) \in 1..Cardinality(creates)
    <3> HIDE DEF creates
    <3> QED BY <1>2, RankType
  <2>2. newID(u) \in new
    <3> HIDE DEF newID, creates
    <3> QED BY <1>1, <1>2, <1>8, <2>1
  <2> HIDE DEF newID, creates, new
  <2> QED BY <1>9, <2>2
<1>12. DOMAIN templates' = DOMAIN templates \union new
  <2> HIDE DEF edited, new, newID
  <2> QED BY <1>3
<1>13. NewIDs(from, to) = new
  BY DEF NewIDs
<1>14. OldOnes(from, to) /\ EditsDone(from, to)
  <2> HIDE DEF sourcesOf, edited, newID, new, creates
  <2> QED BY <1>6, <1>7 DEF OldOnes, EditsDone
<1>15. NewOnes(from, to)
  <2> HIDE DEF sourcesOf, edited, newID, new
  <2> QED BY <1>10, <1>13 DEF NewOnes
<1>16. CreatesDone(from, to)
  <2> HIDE DEF sourcesOf, edited, newID, new
  <2> QED BY <1>11, <1>13 DEF CreatesDone
<1> HIDE DEF sourcesOf, edited, newID
<1> QED BY <1>2, <1>3, <1>4, <1>12, <1>13, <1>14, <1>15, <1>16

\* Each source has after the push an active template like it at the destination.
LEMMA Mirrored ==
  ASSUME Sound, NoCases, NEW from \in DOMAIN servers, NEW to \in DOMAIN servers, Push(from, to),
         NEW u \in Active(from)
  PROVE  \E x \in DOMAIN templates' :
           /\ templates'[x].active /\ templates'[x].server = to
           /\ templates'[x].alias = templates[u].alias /\ templates'[x].type = templates[u].type
           /\ templates'[x].content = templates[u].content
           /\ templates'[x].layout = templates[u].layout
<1>1. to \in ServerIDs
  BY DEF Sound, TypeOK
<1>2. templates[u] \in Template /\ templates[u].active
  BY DEF Sound, TypeOK, Active, Own
<1>3. CASE u \in Creates(from, to)
  <2>1. PICK k \in DOMAIN templates' : templates'[k] = Moved(templates[u], to)
    <3>1. CreatesDone(from, to) /\ NewIDs(from, to) \subseteq DOMAIN templates'
      BY Pushed
    <3> QED BY <1>3, <3>1 DEF CreatesDone
  <2> QED BY <1>1, <1>2, <2>1, MovedFields
<1>4. CASE u \notin Creates(from, to)
  <2> DEFINE x == Target(u, to)
  <2>1. HasTarget(u, to)
    BY <1>4 DEF Creates
  <2>2. /\ x \in DOMAIN templates /\ templates[x].active /\ templates[x].server = to
        /\ templates[x].alias = templates[u].alias /\ templates[x] \in Template
    BY <2>1, TargetByAlias DEF Active, Own, Sound, TypeOK
  <2>3. templates[x].type = templates[u].type
    BY <2>1 DEF Push, Pushable
  <2>4. x \in DOMAIN templates'
    <3> HIDE DEF x
    <3> QED BY <2>2, Pushed
  <2>5. CASE u \in Edits(from, to)
    <3>1. templates'[x] = Copied(templates[x], templates[u])
      <4>1. EditsDone(from, to)
        BY Pushed
      <4> QED BY <2>5, <4>1 DEF EditsDone
    <3> HIDE DEF x
    <3> QED BY <1>2, <2>2, <2>3, <2>4, <3>1, CopiedFields
  <2>6. CASE u \notin Edits(from, to)
    <3>1. templates[x].content = templates[u].content /\ templates[x].layout = templates[u].layout
      BY <1>4, <2>6 DEF Edits
    <3> HIDE DEF x
    <3>2. ASSUME NEW v \in Edits(from, to), x \in Active(to), Target(v, to) = x
          PROVE  FALSE
      <4>1. v \in Active(from) /\ HasTarget(v, to)
        BY DEF Edits, Creates
      <4>2. templates[v].alias = templates[u].alias
        <5>1. templates[Target(v, to)].alias = templates[v].alias
          BY <4>1, TargetIsAlike
        <5> QED BY <2>2, <3>2, <5>1
      <4>3. v = u
        BY <4>1, <4>2 DEF Sound, UniqueIn, Active, Own
      <4> QED BY <2>6, <4>3
    <3>3. templates'[x] = templates[x]
      <4>1. OldOnes(from, to)
        BY Pushed
      <4> QED BY <2>2, <3>2, <4>1 DEF OldOnes
    <3> QED BY <2>2, <2>3, <2>4, <3>1, <3>3
  <2> QED BY <2>5, <2>6
<1> QED BY <1>3, <1>4

LEMMA PushSound ==
  ASSUME Sound, NoCases, NEW from \in DOMAIN servers, NEW to \in DOMAIN servers, Push(from, to)
  PROVE  Sound'
<1> DEFINE creates == Creates(from, to)
           m == maxIds.template
           last == m + Cardinality(creates)
           new == (m + 1)..last
<1>1. /\ IsFiniteSet(creates) /\ Cardinality(creates) \in Nat /\ last <= MaxTemplates
      /\ DOMAIN templates' = DOMAIN templates \union new /\ new \intersect DOMAIN templates = {}
      /\ new = NewIDs(from, to)
  BY Pushed DEF NewIDs
<1>2. m \in Nat /\ MaxTemplates \in Nat /\ m <= last
  BY <1>1, TemplatesAssumption DEF Sound, TypeOK
<1>3. /\ maxIds' = [maxIds EXCEPT !.template = last]
      /\ serverDeletionEnabled' = serverDeletionEnabled /\ servers' = servers
  BY DEF Push
<1>4. to \in ServerIDs
  BY DEF Sound, TypeOK
<1>5. \A s : \A u \in Active(s) : u \in DOMAIN templates /\ templates[u].active
                                   /\ templates[u].server = s /\ templates[u] \in Template
  BY DEF Active, Own, Sound, TypeOK
<1>6. Creates(from, to) \subseteq Active(from) /\ Edits(from, to) \subseteq Active(from)
  BY DEF Creates, Edits
\* What existed keeps its name, its server and its type.
<1>7. ASSUME NEW t \in DOMAIN templates
      PROVE  /\ templates'[t] \in Template
             /\ templates'[t].server = templates[t].server /\ templates'[t].type = templates[t].type
             /\ templates'[t].alias = templates[t].alias
             /\ (templates'[t].active <=> templates[t].active)
             /\ \/ templates'[t].layout = templates[t].layout
                \/ /\ templates[t].server = to
                   /\ \E u \in Active(from) : templates'[t].layout = templates[u].layout
  <2>1. templates[t] \in Template
    BY DEF Sound, TypeOK
  <2>2. CASE templates'[t] = templates[t]
    BY <2>1, <2>2
  <2>3. ASSUME NEW u \in Edits(from, to), templates'[t] = Copied(templates[t], templates[u]),
               t \in Active(to)
        PROVE  /\ templates'[t] \in Template
               /\ templates'[t].server = templates[t].server /\ templates'[t].type = templates[t].type
               /\ templates'[t].alias = templates[t].alias
               /\ (templates'[t].active <=> templates[t].active)
               /\ templates'[t].layout = templates[u].layout
               /\ templates[t].server = to /\ u \in Active(from)
    <3>1. u \in Active(from) /\ templates[u] \in Template /\ templates[t].server = to
      BY <1>5, <1>6, <2>3
    <3> QED BY <2>1, <2>3, <3>1, CopiedFields
  <2>4. OldOnes(from, to)
    BY Pushed
  <2> QED BY <2>2, <2>3, <2>4 DEF OldOnes
\* What is new is a copy of a source that has no match.
<1>8. ASSUME NEW k \in new
      PROVE  \E u \in Creates(from, to) :
               /\ k = m + Rank(creates, u)
               /\ templates'[k] \in Template /\ templates'[k].server = to
               /\ templates'[k].type = templates[u].type /\ templates'[k].alias = templates[u].alias
               /\ templates'[k].active /\ templates'[k].layout = templates[u].layout
  <2>1. PICK u \in Creates(from, to) : k = m + Rank(creates, u) /\ templates'[k] = Moved(templates[u], to)
    <3>1. NewOnes(from, to)
      BY Pushed
    <3> QED BY <1>1, <3>1 DEF NewOnes
  <2>2. templates[u] \in Template /\ templates[u].active
    BY <1>5, <1>6
  <2> QED BY <1>4, <2>1, <2>2, MovedFields
<1>9. maxIds' \in [server: 0..MaxServers, template: 0..MaxTemplates]
      /\ maxIds'.server = maxIds.server /\ maxIds'.template = last
  <2>1. last \in 0..MaxTemplates
    BY <1>1, <1>2
  <2> HIDE DEF last
  <2> QED BY <1>3, <2>1 DEF Sound, TypeOK
<1>10. new \subseteq TemplateIDs /\ new \subseteq 1..last /\ 1..m \subseteq 1..last
  BY <1>1, <1>2 DEF TemplateIDs
<1> HIDE DEF new, last, m, creates
<1>11. TypeOK'
  BY <1>1, <1>3, <1>7, <1>8, <1>9, <1>10 DEF Sound, TypeOK
<1>12. IDsGiven'
  <2>1. DOMAIN templates \subseteq 1..m
    BY DEF Sound, IDsGiven, m
  <2> QED BY <1>1, <1>3, <1>9, <1>10, <2>1 DEF Sound, IDsGiven
<1>13. UniqueIn(templates')
  <2> SUFFICES ASSUME NEW t \in DOMAIN templates', NEW u \in DOMAIN templates',
                      templates'[t].active, templates'[u].active,
                      templates'[t].server = templates'[u].server,
                      templates'[t].alias = templates'[u].alias
               PROVE  t = u
    BY DEF UniqueIn
  <2>1. CASE t \in DOMAIN templates /\ u \in DOMAIN templates
    BY <1>7, <2>1 DEF Sound, UniqueIn
  \* A new one has a name that the destination lacked.
  <2>2. ASSUME NEW x \in DOMAIN templates, NEW k \in new, templates'[x].active,
               templates'[x].server = templates'[k].server, templates'[x].alias = templates'[k].alias
        PROVE  FALSE
    <3>1. PICK v \in Creates(from, to) :
            templates'[k].server = to /\ templates'[k].alias = templates[v].alias
      BY <1>8
    <3>2. x \in Active(to) /\ templates[x].alias = templates[v].alias
      BY <1>7, <2>2, <3>1 DEF Active, Own
    <3>3. x \in Matches(v, to)
      BY <1>6, <3>2, TargetByAlias
    <3> QED BY <3>1, <3>3 DEF Creates, HasTarget
  <2>3. CASE t \in new /\ u \in new
    <3>1. PICK v \in Creates(from, to) : t = m + Rank(creates, v) /\ templates'[t].alias = templates[v].alias
      BY <1>8, <2>3
    <3>2. PICK w \in Creates(from, to) : u = m + Rank(creates, w) /\ templates'[u].alias = templates[w].alias
      BY <1>8, <2>3
    <3>3. v = w
      BY <1>5, <1>6, <3>1, <3>2 DEF Sound, UniqueIn
    <3> QED BY <3>1, <3>2, <3>3
  <2> QED BY <1>1, <2>1, <2>2, <2>3
<1>14. LayoutsIn(templates')
  \* A layout that a source finds is, after the push, at the destination too.
  <2>1. ASSUME NEW u \in Active(from), templates[u].layout.by = "alias"
        PROVE  \E l : IsLayout(templates', l, to, templates[u].layout.alias)
    <3>1. PICK l : IsLayout(templates, l, from, templates[u].layout.alias)
      BY <1>5, <2>1 DEF Sound, LayoutsIn
    <3>2. l \in Active(from)
      BY <3>1 DEF IsLayout, Active, Own
    <3>3. PICK x \in DOMAIN templates' :
            /\ templates'[x].active /\ templates'[x].server = to
            /\ templates'[x].alias = templates[l].alias /\ templates'[x].type = templates[l].type
      BY <3>2, Mirrored
    <3> QED BY <3>1, <3>3 DEF IsLayout
  <2>2. \A l, r, a : IsLayout(templates, l, r, a) => IsLayout(templates', l, r, a)
    BY <1>1, <1>7 DEF IsLayout
  <2> SUFFICES ASSUME NEW t \in DOMAIN templates', templates'[t].active,
                      templates'[t].layout.by = "alias"
               PROVE  \E l : IsLayout(templates', l, templates'[t].server, templates'[t].layout.alias)
    BY DEF LayoutsIn
  <2>3. CASE t \in DOMAIN templates
    <3>1. templates'[t].server = templates[t].server /\ templates[t].active
      BY <1>7, <2>3
    <3>2. CASE templates'[t].layout = templates[t].layout
      BY <2>2, <2>3, <3>1, <3>2 DEF Sound, LayoutsIn
    <3>3. CASE templates[t].server = to
               /\ \E u \in Active(from) : templates'[t].layout = templates[u].layout
      BY <2>1, <3>1, <3>3
    <3> QED BY <1>7, <2>3, <3>2, <3>3
  <2>4. CASE t \in new
    <3>1. PICK u \in Creates(from, to) :
            templates'[t].server = to /\ templates'[t].layout = templates[u].layout
      BY <1>8, <2>4
    <3> QED BY <1>6, <2>1, <3>1
  <2> QED BY <1>1, <2>3, <2>4
<1>15. LimitKept'
  <2>1. \A r : r # to => Active(r)' = Active(r)
    BY <1>1, <1>7, <1>8 DEF Active, Own
  <2>2. Active(to)' = Active(to) \union new
    BY <1>1, <1>7, <1>8 DEF Active, Own
  <2>3. IsFiniteSet(Active(to)) /\ Cardinality(Active(to)) \in Nat
    BY ActiveFinite DEF Sound
  <2>4. IsFiniteSet(new) /\ Cardinality(new) = Cardinality(creates)
    <3>1. m + 1 \in Int /\ last \in Int
      BY <1>1, <1>2 DEF last
    <3>2. IsFiniteSet(new) /\ Cardinality(new) = IF m + 1 > last THEN 0 ELSE last - (m + 1) + 1
      BY <3>1, FS_Interval DEF new
    <3> QED BY <1>1, <1>2, <3>2 DEF last
  <2>5. Active(to) \intersect new = {}
    BY <1>1, <1>5
  <2>6. Cardinality(Active(to) \union new) = Cardinality(Active(to)) + Cardinality(creates)
    <3>1. Cardinality(Active(to) \intersect new) = 0
      BY <2>5, FS_EmptySet
    <3>2. Cardinality(Active(to) \union new) =
            Cardinality(Active(to)) + Cardinality(new) - Cardinality(Active(to) \intersect new)
      BY <2>3, <2>4, FS_Union
    <3> QED BY <1>1, <2>3, <2>4, <3>1, <3>2
  <2>7. Cardinality(Active(to)) + Cardinality(creates) <= Limit
    BY DEF Push, Pushable, creates
  <2>8. ASSUME NEW r \in DOMAIN servers PROVE Cardinality(Active(r)') <= Limit
    <3>1. CASE r = to
      BY <2>2, <2>6, <2>7, <3>1
    <3>2. CASE r # to
      BY <2>1, <3>2 DEF Sound, LimitKept
    <3> QED BY <3>1, <3>2
  <2> QED BY <1>3, <2>8 DEF LimitKept
<1>16. Owned' /\ NamesDiffer'
  BY <1>1, <1>3, <1>7, <1>8 DEF Sound, Owned, NamesDiffer
<1> QED BY <1>11, <1>12, <1>13, <1>14, <1>15, <1>16 DEF Sound

-----------------------------------------------------------------------------
(***************************************************************************)
(* Servers, and the theorems.                                              *)
(***************************************************************************)
LEMMA CreateServerSound ==
  ASSUME Sound, NEW name \in ServerNames, CreateServer(name)
  PROVE  Sound'
<1> DEFINE id == maxIds.server + 1
<1>1. /\ id <= MaxServers /\ NameFree(0, name) /\ servers' = With(servers, id, name)
      /\ maxIds' = [maxIds EXCEPT !.server = id]
      /\ serverDeletionEnabled' = serverDeletionEnabled /\ templates' = templates
  BY DEF CreateServer
<1>2. PICK S \in SUBSET ServerIDs : servers \in [S -> ServerNames]
  BY DEF Sound, TypeOK
<1>3. maxIds.server \in Nat /\ id \in ServerIDs /\ id \notin S /\ 0 \notin S
  BY <1>1, <1>2, TemplatesAssumption DEF Sound, TypeOK, IDsGiven, ServerIDs
<1>4. servers' \in [S \union {id} -> ServerNames] /\ servers'[id] = name
      /\ \A s \in S : servers'[s] = servers[s]
  BY <1>1, <1>2, <1>3 DEF With
<1>5. maxIds' \in [server: 0..MaxServers, template: 0..MaxTemplates]
      /\ maxIds'.server = id /\ maxIds'.template = maxIds.template
  BY <1>1, <1>3 DEF Sound, TypeOK, ServerIDs
<1>6. TypeOK'
  <2>1. S \union {id} \in SUBSET ServerIDs
    BY <1>3
  <2> HIDE DEF id
  <2> QED BY <1>1, <1>4, <1>5, <2>1 DEF Sound, TypeOK
<1>7. IDsGiven'
  BY <1>1, <1>2, <1>3, <1>4, <1>5 DEF Sound, IDsGiven
<1>8. \A s : Active(s)' = Active(s)
  BY <1>1 DEF Active, Own
<1>9. LimitKept'
  <2>1. Active(id) = {}
    BY <1>2, <1>3 DEF Sound, Owned, Active, Own
  <2>2. Cardinality(Active(id)) <= Limit
    BY <2>1, FS_EmptySet, TemplatesAssumption
  <2> HIDE DEF id
  <2> QED BY <1>2, <1>4, <1>8, <2>2 DEF Sound, LimitKept
<1>10. Owned' /\ NamesDiffer'
  <2>1. \A s \in S : servers[s] # name
    BY <1>1, <1>2, <1>3 DEF NameFree
  <2> HIDE DEF id
  <2> QED BY <1>1, <1>2, <1>4, <2>1 DEF Sound, Owned, NamesDiffer
<1> QED BY <1>1, <1>6, <1>7, <1>9, <1>10 DEF Sound

LEMMA ServersSound ==
  ASSUME Sound,
         \/ \E s \in DOMAIN servers, name \in ServerNames : EditServer(s, name)
         \/ \E enabled \in BOOLEAN : SetServerDeletion(enabled)
  PROVE  Sound'
<1>1. templates' = templates /\ maxIds' = maxIds
  BY DEF EditServer, SetServerDeletion
<1>2. PICK S \in SUBSET ServerIDs : servers \in [S -> ServerNames]
  BY DEF Sound, TypeOK
<1>3. servers' \in [S -> ServerNames] /\ serverDeletionEnabled' \in BOOLEAN /\ NamesDiffer'
  <2>1. ASSUME NEW s \in DOMAIN servers, NEW name \in ServerNames, EditServer(s, name)
        PROVE  servers' \in [S -> ServerNames] /\ serverDeletionEnabled' \in BOOLEAN /\ NamesDiffer'
    <3>1. servers' = [servers EXCEPT ![s] = name] /\ serverDeletionEnabled' = serverDeletionEnabled
          /\ \A r \in S \ {s} : servers[r] # name
      BY <1>2, <2>1 DEF EditServer, NameFree
    <3> QED BY <1>2, <3>1 DEF Sound, TypeOK, NamesDiffer
  <2>2. ASSUME NEW enabled \in BOOLEAN, SetServerDeletion(enabled)
        PROVE  servers' \in [S -> ServerNames] /\ serverDeletionEnabled' \in BOOLEAN /\ NamesDiffer'
    BY <1>2, <2>2 DEF SetServerDeletion, Sound, NamesDiffer
  <2> QED BY <2>1, <2>2
<1>4. DOMAIN servers' = DOMAIN servers
  BY <1>2, <1>3
<1>5. TypeOK'
  BY <1>1, <1>3 DEF Sound, TypeOK
<1>6. LimitKept'
  <2>1. \A s : Active(s)' = Active(s)
    BY <1>1 DEF Active, Own
  <2> QED BY <1>4, <2>1 DEF Sound, LimitKept
<1> QED BY <1>1, <1>3, <1>4, <1>5, <1>6 DEF Sound, IDsGiven, Owned

LEMMA DeleteServerSound ==
  ASSUME Sound, NEW s \in DOMAIN servers, DeleteServer(s)
  PROVE  Sound'
<1>1. /\ servers' = Without(servers, {s}) /\ templates' = Without(templates, Own(s))
      /\ serverDeletionEnabled' = serverDeletionEnabled /\ maxIds' = maxIds
  BY DEF DeleteServer
<1>2. PICK S \in SUBSET ServerIDs : servers \in [S -> ServerNames]
  BY DEF Sound, TypeOK
<1>3. servers' \in [S \ {s} -> ServerNames] /\ \A r \in S \ {s} : servers'[r] = servers[r]
  BY <1>1, <1>2 DEF Without
<1>4. /\ DOMAIN templates' \subseteq DOMAIN templates
      /\ \A t \in DOMAIN templates' : templates'[t] = templates[t] /\ templates[t].server # s
      /\ \A t \in DOMAIN templates : templates[t].server # s => t \in DOMAIN templates'
  BY <1>1 DEF Without, Own
<1>5. TypeOK'
  <2>1. S \ {s} \in SUBSET ServerIDs
    OBVIOUS
  <2> QED BY <1>1, <1>3, <1>4, <2>1 DEF Sound, TypeOK
<1>6. IDsGiven'
  BY <1>1, <1>2, <1>3, <1>4 DEF Sound, IDsGiven
<1>7. UniqueIn(templates')
  BY <1>4 DEF Sound, UniqueIn
<1>8. LayoutsIn(templates')
  <2> SUFFICES ASSUME NEW t \in DOMAIN templates', templates'[t].active,
                      templates'[t].layout.by = "alias"
               PROVE  \E l : IsLayout(templates', l, templates'[t].server, templates'[t].layout.alias)
    BY DEF LayoutsIn
  <2>1. PICK l : IsLayout(templates, l, templates[t].server, templates[t].layout.alias)
    BY <1>4 DEF Sound, LayoutsIn
  <2> QED BY <1>4, <2>1 DEF IsLayout
<1>9. LimitKept'
  <2>1. \A r : r # s => Active(r)' = Active(r)
    BY <1>4 DEF Active, Own
  <2> QED BY <1>2, <1>3, <2>1 DEF Sound, LimitKept
<1>10. Owned' /\ NamesDiffer'
  BY <1>2, <1>3, <1>4 DEF Sound, Owned, NamesDiffer
<1> QED BY <1>5, <1>6, <1>7, <1>8, <1>9, <1>10 DEF Sound

LEMMA NextSound ==
  ASSUME Sound, NoCases, [Next]_vars
  PROVE  Sound'
<1>1. ASSUME NEW s \in DOMAIN servers, NEW type \in Types, NEW content \in Contents,
             NEW given \in {{}} \union {{a} : a \in Aliases}, NEW layout \in Refs(s) \union {None},
             CreateTemplate(s, type, given, layout, content)
      PROVE  Sound'
  BY <1>1, CreateSound
<1>2. ASSUME NEW s \in DOMAIN servers, NEW t \in Active(s),
             NEW alias \in Aliases \union {templates[t].alias},
             NEW layout \in Refs(s) \union {None, templates[t].layout}, NEW content \in Contents,
             EditTemplate(s, t, alias, layout, content)
      PROVE  Sound'
  BY <1>2, EditSound
<1>3. ASSUME NEW s \in DOMAIN servers, NEW t \in Active(s), DeleteTemplate(s, t) PROVE Sound'
  BY <1>3, DeleteSound
<1>4. ASSUME NEW from \in DOMAIN servers, NEW to \in DOMAIN servers, Push(from, to) PROVE Sound'
  BY <1>4, PushSound
<1>5. ASSUME NEW name \in ServerNames, CreateServer(name) PROVE Sound'
  BY <1>5, CreateServerSound
<1>6. ASSUME NEW s \in DOMAIN servers, DeleteServer(s) PROVE Sound'
  BY <1>6, DeleteServerSound
<1>7. CASE UNCHANGED vars
  BY <1>7 DEF vars, Sound, TypeOK, IDsGiven, LimitKept, Active, Own, Owned, NamesDiffer
<1> QED
  BY <1>1, <1>2, <1>3, <1>4, <1>5, <1>6, <1>7, ServersSound DEF Next

\* Where aliases do not differ in case only: after any creates, edits, deletions and
\* pushes, an alias names one template, no server is over the limit, and a send with an
\* active template that names its layout by alias finds it (src/api/templates).
THEOREM TemplatesStayUsable == NoCases => (Spec => []TemplatesUsable)
<1> SUFFICES ASSUME NoCases PROVE Spec => []TemplatesUsable
  OBVIOUS
<1>1. Sound /\ [Next]_vars => Sound'
  BY NextSound
<1> QED BY <1>1, InitSound, SoundUsable, PTL DEF Spec

\* A push leaves the destination with everything the source has.
LEMMA PushLeavesNothing ==
  ASSUME Sound, Sound', NoCases, NEW from \in DOMAIN servers, NEW to \in DOMAIN servers,
         from # to, Push(from, to)
  PROVE  Creates(from, to)' = {} /\ Edits(from, to)' = {}
<1>1. \A t \in Active(from) : t \in DOMAIN templates /\ templates'[t] = templates[t]
  <2>1. \A t \in Active(from) : t \in DOMAIN templates /\ t \notin Active(to)
    BY DEF Active, Own
  <2>2. OldOnes(from, to)
    BY Pushed
  <2> QED BY <2>1, <2>2 DEF OldOnes
<1>2. Active(from)' \subseteq Active(from)
  <2> SUFFICES ASSUME NEW t \in Active(from)' PROVE t \in Active(from)
    OBVIOUS
  <2>1. t \in DOMAIN templates' /\ templates'[t].server = from /\ templates'[t].active
    BY DEF Active, Own
  <2>2. to \in ServerIDs /\ \A u \in DOMAIN templates : templates[u] \in Template
    BY DEF Sound, TypeOK
  <2>3. \A u \in Creates(from, to) : templates[u] \in Template
    BY <2>2 DEF Creates, Active, Own
  <2>0. OldOnes(from, to) /\ NewOnes(from, to)
        /\ DOMAIN templates' = DOMAIN templates \union NewIDs(from, to)
    BY Pushed
  <2>4. t \in DOMAIN templates
    <3> SUFFICES ASSUME t \in NewIDs(from, to) PROVE FALSE
      BY <2>0, <2>1
    <3>1. PICK u \in Creates(from, to) : templates'[t] = Moved(templates[u], to)
      BY <2>0 DEF NewOnes
    <3> QED BY <2>1, <2>2, <2>3, <3>1, MovedFields
  <2>5. CASE templates'[t] = templates[t]
    BY <2>1, <2>4, <2>5 DEF Active, Own
  <2>6. CASE t \in Active(to)
    <3>1. templates[t].server = to
      BY <2>6 DEF Active, Own
    <3>2. templates'[t] = templates[t] \/ \E u \in Edits(from, to) : templates'[t] = Copied(templates[t], templates[u])
      BY <2>0, <2>4 DEF OldOnes
    <3>3. \A u \in Edits(from, to) : templates[u] \in Template
      BY <2>2 DEF Edits, Active, Own
    <3>4. templates'[t].server = to
      BY <2>2, <2>4, <3>1, <3>2, <3>3, CopiedFields
    <3> QED BY <2>1, <3>4
  <2> QED BY <2>0, <2>4, <2>5, <2>6 DEF OldOnes
<1>3. ASSUME NEW t \in Active(from)'
      PROVE  \E x : /\ x \in Matches(t, to)' /\ Target(t, to)' = x
                    /\ templates'[x].content = templates'[t].content
                    /\ templates'[x].layout = templates'[t].layout
  <2>1. t \in Active(from) /\ templates'[t] = templates[t]
    BY <1>1, <1>2
  <2>2. PICK x \in DOMAIN templates' :
          /\ templates'[x].active /\ templates'[x].server = to
          /\ templates'[x].alias = templates[t].alias
          /\ templates'[x].content = templates[t].content
          /\ templates'[x].layout = templates[t].layout
    BY <2>1, Mirrored
  <2>3. x \in Active(to)' /\ templates'[x].alias = templates'[t].alias
    BY <2>1, <2>2 DEF Active, Own
  <2>4. \A s : \A y \in Active(s)' : /\ y \in DOMAIN templates' /\ y \in Nat
                                     /\ templates'[y].alias \in Alias
                                     /\ templates'[y].server = s /\ templates'[y].active
    BY DEF Active, Own, Sound, TypeOK, Template, TemplateIDs
  <2>5. \A y : y \in Matches(t, to)' <=> y \in Active(to)' /\ templates'[y].alias = templates'[t].alias
    BY <2>4 DEF Matches, NoCases
  <2>6. x \in Matches(t, to)' /\ \A y \in Matches(t, to)' : y = x
    BY <2>3, <2>4, <2>5 DEF Sound, UniqueIn
  <2>7. Target(t, to)' = x
    <3>1. x <= x
      BY <2>3, <2>4
    <3>2. \E y \in Matches(t, to)' : \A z \in Matches(t, to)' : z <= y
      BY <2>6, <3>1
    <3>3. Target(t, to)' \in Matches(t, to)'
      BY <3>2 DEF Target
    <3> QED BY <2>6, <3>3
  <2> QED BY <2>1, <2>2, <2>6, <2>7
<1> QED BY <1>3 DEF Creates, Edits, HasTarget

\* Where aliases do not differ in case only: after a push (src/api/account/push.ts)
\* the same push has nothing to create or to edit, whatever the two servers had.
THEOREM PushesConverge == NoCases => (Spec => PushConverges)
<1> SUFFICES ASSUME NoCases PROVE Spec => PushConverges
  OBVIOUS
<1>1. Sound /\ [Next]_vars => Sound'
  BY NextSound
<1>2. Sound /\ Sound' =>
        [\A from, to \in DOMAIN servers :
           from # to /\ Push(from, to) => Creates(from, to)' = {} /\ Edits(from, to)' = {}]_templates
  BY PushLeavesNothing
<1> QED BY <1>1, <1>2, InitSound, PTL DEF Spec, PushConverges
=============================================================================
