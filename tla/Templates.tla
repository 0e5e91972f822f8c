------------------------------- MODULE Templates -------------------------------
(***************************************************************************)
(* Templates and layouts (src/api/templates), the push of the templates of *)
(* one server to another (src/api/account/push.ts) and the servers that    *)
(* own them (src/api/account/servers.ts, src/state/servers.ts).            *)
(*                                                                         *)
(* A template is named by a string: digits are an ID, anything else is an  *)
(* alias.  A name, an alias or a content is a value; `Fold` gives what is  *)
(* left of an alias without its case.  No handler waits: each is one step. *)
(***************************************************************************)
EXTENDS Naturals, FiniteSets

CONSTANTS
  ServerNames,  \* names that differ without case
  Aliases,      \* aliases that clients give
  Fold,         \* alias -> the alias in lower case
  Contents,     \* Name, Subject and bodies of a template, well-formed
  LayoutForms,  \* how clients name a layout: by "alias", by "id"
  Limit,        \* MAX_TEMPLATES, TEMPLATE_LIMIT
  MaxServers,   \* bound: servers ever created
  MaxTemplates  \* bound: templates ever created

Types == {"Standard", "Layout"}
ServerIDs == 1..MaxServers
TemplateIDs == 1..MaxTemplates

\* The alias of a template that was created without one.
Generated == [type: Types, id: TemplateIDs, n: 0..MaxTemplates]
Alias == Aliases \union Generated
Folded(alias) == IF alias \in Aliases THEN Fold[alias] ELSE alias

\* The two forms of a reference, and none.
None == [by |-> "none"]
ByAlias(alias) == [by |-> "alias", alias |-> alias]
ByID(id) == [by |-> "id", id |-> id]
Layouts == {ByAlias(a) : a \in Alias} \union {ByID(i) : i \in TemplateIDs} \union {None}

Template == [server: ServerIDs, type: Types, alias: Alias, content: Contents,
             layout: Layouts, active: BOOLEAN]

ASSUME TemplatesAssumption ==
  /\ Limit \in Nat /\ MaxServers \in Nat \ {0} /\ MaxTemplates \in Nat
  /\ DOMAIN Fold = Aliases
  /\ LayoutForms \subseteq {"alias", "id"}

VARIABLES
  serverDeletionEnabled,
  servers,    \* server ID -> its name
  templates,  \* template ID -> template
  maxIds      \* the last ID given to a server and to a template

vars == <<serverDeletionEnabled, servers, templates, maxIds>>

TypeOK ==
  /\ serverDeletionEnabled \in BOOLEAN
  /\ \E S \in SUBSET ServerIDs : servers \in [S -> ServerNames]
  /\ DOMAIN templates \subseteq TemplateIDs
  /\ \A t \in DOMAIN templates : templates[t] \in Template
  /\ maxIds \in [server: 0..MaxServers, template: 0..MaxTemplates]

With(f, x, v) == [y \in DOMAIN f \union {x} |-> IF y = x THEN v ELSE f[y]]
Without(f, S) == [y \in DOMAIN f \ S |-> f[y]]

-----------------------------------------------------------------------------
(***************************************************************************)
(* Finding a template.  An alias matches exactly, the active one first.    *)
(***************************************************************************)
Own(s) == {t \in DOMAIN templates : templates[t].server = s}
Active(s) == {t \in Own(s) : templates[t].active}

\* The active templates that a reference finds: one, or none.
Found(s, ref) ==
  CASE ref.by = "none" -> {}
    [] ref.by = "id" -> Active(s) \intersect {ref.id}
    [] ref.by = "alias" -> {t \in Active(s) : templates[t].alias = ref.alias}

LayoutFound(s, ref) == {t \in Found(s, ref) : templates[t].type = "Layout"}

\* The references that a client of a server may write.
Refs(s) ==
  {ref \in {ByAlias(templates[t].alias) : t \in Own(s)} \union {ByID(t) : t \in Own(s)} :
     ref.by \in LayoutForms}

LayoutUsers(l) ==
  {t \in Active(templates[l].server) : templates[t].layout = ByAlias(templates[l].alias)}

-----------------------------------------------------------------------------
(***************************************************************************)
(* Create, edit and delete.  `self` is the ID of the template, 0 for a new *)
(* one.                                                                    *)
(***************************************************************************)
AliasFree(self, s, alias) == \A t \in Active(s) \ {self} : templates[t].alias # alias

Checked(self, template) ==
  /\ AliasFree(self, template.server, template.alias)
  /\ IF template.type = "Layout" THEN template.layout = None
     ELSE template.layout = None \/ LayoutFound(template.server, template.layout) # {}

CanCreate(s) == Cardinality(Active(s)) < Limit

\* `generatedAlias`: the first that no active template has.
GeneratedAlias(s, type, id) ==
  LET candidate(n) == [type |-> type, id |-> id, n |-> n]
      free == {n \in 0..MaxTemplates : \A t \in Active(s) : templates[t].alias # candidate(n)}
  IN  candidate(CHOOSE n \in free : \A m \in free : n <= m)

NextTemplate == maxIds.template + 1

\* POST /templates; `given` is the set of the alias that the body names, if any.
CreateTemplate(s, type, given, layout, content) ==
  LET alias == IF given = {} THEN GeneratedAlias(s, type, NextTemplate)
               ELSE CHOOSE a \in given : TRUE
      template == [server |-> s, type |-> type, alias |-> alias, content |-> content,
                   layout |-> layout, active |-> TRUE]
  IN  /\ NextTemplate <= MaxTemplates
      /\ CanCreate(s)
      /\ Checked(0, template)
      /\ templates' = With(templates, NextTemplate, template)
      /\ maxIds' = [maxIds EXCEPT !.template = NextTemplate]
      /\ UNCHANGED <<serverDeletionEnabled, servers>>

\* A slip: only the deletion of a layout is checked.
KeptByEdit(t, alias) == TRUE
\* `checkLayoutChange`
KeptInUse(t, alias) ==
  templates[t].type = "Layout" /\ LayoutUsers(t) # {} => alias = templates[t].alias

\* PUT /templates/:idOrAlias changes the fields it names.
EditTemplate(s, t, alias, layout, content) ==
  LET after == [templates[t] EXCEPT !.alias = alias, !.layout = layout, !.content = content]
  IN  /\ t \in Active(s)
      /\ Checked(t, after)
      /\ KeptInUse(t, alias)
      /\ templates' = [templates EXCEPT ![t] = after]
      /\ UNCHANGED <<serverDeletionEnabled, servers, maxIds>>

\* DELETE /templates/:idOrAlias; the template stays readable.
DeleteTemplate(s, t) ==
  /\ t \in Active(s)
  /\ ~ (templates[t].type = "Layout" /\ LayoutUsers(t) # {})
  /\ templates' = [templates EXCEPT ![t].active = FALSE]
  /\ UNCHANGED <<serverDeletionEnabled, servers, maxIds>>

-----------------------------------------------------------------------------
(***************************************************************************)
(* PUT /templates/push.  Aliases compare without case; of several active   *)
(* templates of the destination the one with the highest ID matches.       *)
(***************************************************************************)
Matches(source, to) ==
  {t \in Active(to) : Folded(templates[t].alias) = Folded(templates[source].alias)}
HasTarget(source, to) == Matches(source, to) # {}
Target(source, to) == CHOOSE t \in Matches(source, to) : \A u \in Matches(source, to) : u <= t

\* A slip: the layout is not copied to a template that exists.
CopiedBody(target, source) == [target EXCEPT !.content = source.content]
Copied(target, source) == [target EXCEPT !.content = source.content, !.layout = source.layout]

\* The sources that the destination lacks or has with other contents.
Creates(from, to) == {t \in Active(from) : ~ HasTarget(t, to)}
Edits(from, to) ==
  {t \in Active(from) \ Creates(from, to) :
     LET target == templates[Target(t, to)]
     IN  target.content # templates[t].content \/ target.layout # templates[t].layout}

Pushable(from, to) ==
  /\ {from, to} \subseteq DOMAIN servers
  /\ Active(from) # {}
  /\ \A t \in Active(from) :
       HasTarget(t, to) => templates[Target(t, to)].type = templates[t].type
  /\ Cardinality(Active(to)) + Cardinality(Creates(from, to)) <= Limit

\* With PerformChanges.  New templates get their IDs in the order of the sources.
Push(from, to) ==
  LET creates == Creates(from, to)
      newID(t) == maxIds.template + Cardinality({u \in creates : u <= t})
      last == maxIds.template + Cardinality(creates)
      \* Of two sources with one target, the later one is copied last.
      sourcesOf(t) == {u \in Edits(from, to) : Target(u, to) = t}
      edited(t) == IF sourcesOf(t) = {} THEN templates[t]
                   ELSE Copied(templates[t], templates[CHOOSE u \in sourcesOf(t) :
                                                        \A v \in sourcesOf(t) : v <= u])
  IN  /\ Pushable(from, to)
      /\ last <= MaxTemplates
      /\ templates' =
           [t \in DOMAIN templates \union (maxIds.template + 1)..last |->
              IF t \in DOMAIN templates THEN edited(t)
              ELSE LET source == CHOOSE u \in creates : newID(u) = t
                   IN  [templates[source] EXCEPT !.server = to]]
      /\ maxIds' = [maxIds EXCEPT !.template = last]
      /\ UNCHANGED <<serverDeletionEnabled, servers>>

-----------------------------------------------------------------------------
(***************************************************************************)
(* Servers.                                                                *)
(***************************************************************************)
NameFree(self, name) == \A s \in DOMAIN servers \ {self} : servers[s] # name

CreateServer(name) ==
  LET id == maxIds.server + 1
  IN  /\ id <= MaxServers
      /\ NameFree(0, name)
      /\ servers' = With(servers, id, name)
      /\ maxIds' = [maxIds EXCEPT !.server = id]
      /\ UNCHANGED <<serverDeletionEnabled, templates>>

EditServer(s, name) ==
  /\ NameFree(s, name)
  /\ servers' = [servers EXCEPT ![s] = name]
  /\ UNCHANGED <<serverDeletionEnabled, templates, maxIds>>

SetServerDeletion(enabled) ==
  /\ serverDeletionEnabled' = enabled
  /\ UNCHANGED <<servers, templates, maxIds>>

\* The server goes with the templates it owns, the deleted ones too.
DeleteServer(s) ==
  /\ serverDeletionEnabled
  /\ servers' = Without(servers, {s})
  /\ templates' = Without(templates, Own(s))
  /\ UNCHANGED <<serverDeletionEnabled, maxIds>>

-----------------------------------------------------------------------------
\* The default seed makes one server.
Init ==
  /\ serverDeletionEnabled = FALSE
  /\ servers \in [{1} -> ServerNames] /\ templates = <<>>
  /\ maxIds = [server |-> 1, template |-> 0]

Next ==
  \/ \E s \in DOMAIN servers, type \in Types, content \in Contents :
       \E given \in {{}} \union {{a} : a \in Aliases}, layout \in Refs(s) \union {None} :
         CreateTemplate(s, type, given, layout, content)
  \/ \E s \in DOMAIN servers : \E t \in Active(s) :
       \E alias \in Aliases \union {templates[t].alias},
          layout \in Refs(s) \union {None, templates[t].layout}, content \in Contents :
         EditTemplate(s, t, alias, layout, content)
  \/ \E s \in DOMAIN servers : \E t \in Active(s) : DeleteTemplate(s, t)
  \/ \E from, to \in DOMAIN servers : Push(from, to)
  \/ \E name \in ServerNames : CreateServer(name)
  \/ \E s \in DOMAIN servers, name \in ServerNames : EditServer(s, name)
  \/ \E enabled \in BOOLEAN : SetServerDeletion(enabled)
  \/ \E s \in DOMAIN servers : DeleteServer(s)

Spec == Init /\ [][Next]_vars

-----------------------------------------------------------------------------
(***************************************************************************)
(* Properties.                                                             *)
(***************************************************************************)
\* `sendTemplate` finds the template that a send names, and its layout.
Renders(t) ==
  templates[t].layout = None \/ LayoutFound(templates[t].server, templates[t].layout) # {}

\* What a server's templates are good for, after any mix of creates, edits,
\* deletions and pushes from other servers: an alias names one active template,
\* there are no more than the limit, each belongs to a server, and every active
\* one that names its layout by alias finds it, so that a send with it is not
\* answered 1101 (checkTemplate, checkLayoutChange, pushTemplates).
TemplatesUsable ==
  /\ TypeOK
  /\ \A s \in DOMAIN servers :
       /\ \A t, u \in Active(s) : templates[t].alias = templates[u].alias => t = u
       /\ Cardinality(Active(s)) <= Limit
       /\ \A t \in Active(s) : templates[t].layout.by # "id" => Renders(t)
  /\ \A t \in DOMAIN templates : templates[t].server \in DOMAIN servers
  /\ \A r, s \in DOMAIN servers : servers[r] = servers[s] => r = s

\* A push leaves nothing to push: the same push finds no change left, though
\* it copies templates together with the layouts that they refer to.
PushConverges ==
  [][\A from, to \in DOMAIN servers :
       from # to /\ Push(from, to) => Creates(from, to)' = {} /\ Edits(from, to)' = {}]_templates
=============================================================================
