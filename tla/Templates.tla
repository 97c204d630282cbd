----------------------------- MODULE Templates -----------------------------
(***************************************************************************)
(* Message templates, the history of their contents and the reminder that  *)
(* refers to one: the "Templates & Versions" part of store/repository.go,  *)
(* the handlers that call it, the seeding of the first template and the    *)
(* choice that scheduler.go makes when a reminder fires.  An SQL statement *)
(* is a step and may fail, a request keeps what it has read, a restart     *)
(* ends the requests that run.                                             *)
(*                                                                         *)
(* Who may edit a template is left out: its owner never changes.           *)
(*                                                                         *)
(* Bounds: MaxTemplates templates, Requests at once, and no update while   *)
(* a template has MaxVersions entries in its history.                      *)
(***************************************************************************)
EXTENDS Naturals, Sequences, FiniteSets, FiniteSetsExt

CONSTANTS Requests, MaxTemplates, MaxVersions,
          Contents,    \* texts of forms
          Seed,        \* the text of the seed, one of them
          Blank        \* no text: a new template is refused it, an update is not

VARIABLES template,    \* the rows by id; an id is never given out again
          versions,    \* the history of each, in the order of insertion
          silent,      \* the step was a reminder that could read a template and found no text
          request,     \* what each request is doing
          had,         \* the contents each template has had (history)
          overlapped,  \* two requests have run at once (history)
          lost         \* the contents of each whose last INSERT into the history failed, or
                       \* never came: a restart cut the request short (history)

vars == <<template, versions, silent, request, had, overlapped, lost>>

Tids  == 1..MaxTemplates
Texts == Contents \cup {Blank}

\* The number of an entry; 0 when the greatest could not be read.
Numbers == 0..MaxVersions + Cardinality(Requests)

NoTemplate == [row |-> "never", content |-> Blank, is_default |-> FALSE]

\* What a request does next: INSERT the template, its first version; UPDATE it,
\* read the greatest version, INSERT the next.
Steps == {"idle", "insert", "first", "update", "number", "record"}

\* Its template is written, its entry in the history is not.
Owing == {"first", "number", "record"}

Resting == [at |-> "idle", t |-> 0, content |-> Blank, is_default |-> FALSE, version |-> 0]

TypeOK ==
    /\ template \in [Tids -> [row : {"never", "here", "gone"}, content : Texts, is_default : BOOLEAN]]
    /\ versions \in [Tids -> Seq([version : Numbers, content : Texts])]
    /\ silent \in BOOLEAN
    /\ request \in [Requests -> [at : Steps, t : 0..MaxTemplates, content : Texts,
                                 is_default : BOOLEAN, version : Numbers]]
    /\ had \in [Tids -> SUBSET Texts]
    /\ overlapped \in BOOLEAN
    /\ lost \in [Tids -> SUBSET Texts]

Init ==
    /\ template = [t \in Tids |-> IF t # 1 THEN NoTemplate
                                  ELSE [row |-> "here", content |-> Seed, is_default |-> TRUE]]
    /\ versions = [t \in Tids |-> IF t # 1 THEN <<>> ELSE <<[version |-> 1, content |-> Seed]>>]
    /\ silent = FALSE
    /\ request = [r \in Requests |-> Resting]
    /\ had = [t \in Tids |-> IF t # 1 THEN {} ELSE {Seed}]
    /\ overlapped = FALSE
    /\ lost = [t \in Tids |-> {}]

Kept  == {t \in Tids : template[t].row = "here"}
Room  == \E t \in Tids : template[t].row = "never"
NewId == Min({t \in Tids : template[t].row = "never"})

Spoken == silent' = FALSE

\* A request will put the content into the history.
Owed(t, c) == \E r \in Requests : request[r].at \in Owing /\ request[r].t = t /\ request[r].content = c

At(r, s)     == request[r].at = s
Busy         == {r \in Requests : request[r].at # "idle"}
Become(r, q) == /\ request' = [request EXCEPT ![r] = q]
                /\ overlapped' = (overlapped \/ Busy \ {r} # {})
Goto(r, s)   == Become(r, [request[r] EXCEPT !.at = s])

----------------------------------------------------------------------------
(* Statements.                                                             *)

\* UPDATE templates SET is_default = 0 [WHERE id != t]; the code goes on when it fails.
Cleared(t) == [v \in Tids |-> IF v = t THEN template[v] ELSE [template[v] EXCEPT !.is_default = FALSE]]

Inserted(r, q) ==
    /\ Room
    /\ template' = [template EXCEPT ![NewId] = [row |-> "here", content |-> q.content,
                                                is_default |-> q.is_default]]
    /\ had' = [had EXCEPT ![NewId] = {q.content}]
    /\ Become(r, [q EXCEPT !.at = "first", !.t = NewId, !.is_default = FALSE])

Updated(r, q) ==
    /\ IF q.t \in Kept
       THEN /\ template' = [template EXCEPT ![q.t].content = q.content, ![q.t].is_default = q.is_default]
            /\ had' = [had EXCEPT ![q.t] = @ \cup {q.content}]
       ELSE UNCHANGED <<template, had>>
    /\ Become(r, [q EXCEPT !.at = "number", !.is_default = FALSE])

\* Mutant of the code: an entry with the number of another replaces it.
RecordedOver(vs, v) == Append(SelectSeq(vs, LAMBDA w : w.version # v.version), v)

\* INSERT INTO template_versions: two entries may have one number.
Recorded(vs, v) == Append(vs, v)

\* Nobody looks whether it fails, as it must when the template has gone.
AddVersion(t, n, content) ==
    \/ /\ t \in Kept
       /\ versions' = [versions EXCEPT ![t] = Recorded(@, [version |-> n, content |-> content])]
       /\ lost' = [lost EXCEPT ![t] = @ \ {content}]
    \/ /\ lost' = [lost EXCEPT ![t] = @ \cup (had[t] \cap {content})]
       /\ UNCHANGED versions

\* COALESCE(MAX(version), 0) + 1
NextVersion(vs) == Max({0} \cup {vs[i].version : i \in DOMAIN vs}) + 1

----------------------------------------------------------------------------
(* Handlers.                                                               *)

\* CreateTemplate; a form without text is turned away.
CreateTemplate(r) ==
    /\ At(r, "idle") /\ Room
    /\ \E c \in Contents, d \in BOOLEAN :
         LET q == [Resting EXCEPT !.content = c, !.is_default = d] IN
         IF d THEN /\ template' \in {Cleared(0), template} /\ UNCHANGED had
                   /\ Become(r, [q EXCEPT !.at = "insert"])
         ELSE Inserted(r, q)
    /\ UNCHANGED <<versions, lost>> /\ Spoken

InsertTemplate(r) == At(r, "insert") /\ Inserted(r, request[r]) /\ UNCHANGED <<versions, lost>> /\ Spoken

FirstVersion(r) ==
    /\ At(r, "first")
    /\ AddVersion(request[r].t, 1, request[r].content)
    /\ Become(r, Resting)
    /\ UNCHANGED <<template, had>> /\ Spoken

\* UpdateTemplate, of a template the handler has found; the form may be blank.
UpdateTemplate(r) ==
    /\ At(r, "idle")
    /\ \E t \in Kept, c \in Texts, d \in BOOLEAN :
         LET q == [Resting EXCEPT !.t = t, !.content = c, !.is_default = d] IN
         /\ \A u \in Tids : Len(versions[u]) < MaxVersions
         /\ IF d THEN /\ template' \in {Cleared(t), template} /\ UNCHANGED had
                      /\ Become(r, [q EXCEPT !.at = "update"])
            ELSE Updated(r, q)
    /\ UNCHANGED <<versions, lost>> /\ Spoken

WriteTemplate(r) == At(r, "update") /\ Updated(r, request[r]) /\ UNCHANGED <<versions, lost>> /\ Spoken

\* A greatest number that cannot be read leaves the next at 0.
ReadVersion(r) ==
    /\ At(r, "number")
    /\ \E n \in {NextVersion(versions[request[r].t]), 0} :
         Become(r, [request[r] EXCEPT !.at = "record", !.version = n])
    /\ UNCHANGED <<template, versions, had, lost>> /\ Spoken

RecordVersion(r) ==
    /\ At(r, "record")
    /\ AddVersion(request[r].t, request[r].version, request[r].content)
    /\ Become(r, Resting)
    /\ UNCHANGED <<template, had>> /\ Spoken

\* The INSERT or the UPDATE of the template fails: an error, with the marks of the
\* others perhaps cleared.
Fails(r) ==
    /\ At(r, "insert") \/ At(r, "update")
    /\ Become(r, Resting)
    /\ UNCHANGED <<template, versions, had, lost>> /\ Spoken

\* DeleteTemplate; the history goes with it by its foreign key.
DeleteTemplate(t) ==
    /\ t \in Kept
    /\ template' = [template EXCEPT ![t] = [NoTemplate EXCEPT !.row = "gone"]]
    /\ versions' = [versions EXCEPT ![t] = <<>>]
    /\ had' = [had EXCEPT ![t] = {}]
    /\ lost' = [lost EXCEPT ![t] = {}]
    /\ UNCHANGED <<request, overlapped>> /\ Spoken

Defaults == {t \in Kept : template[t].is_default}

\* Mutant of the code: without a default there is nothing.
DefaultOnly == Defaults

\* GetDefaultTemplate: a default, any of them, or, without one or when they cannot be
\* read, the first template.
DefaultTemplates == Defaults \cup IF Kept # {} THEN {Min(Kept)} ELSE {}

\* fireSchedule: the text of the reminder's own template, t, NULL (0), unreadable or
\* gone since the reminder was read at worst, or of the default one; without a text
\* it is not sent.  (When neither query of GetDefaultTemplate is answered it is not
\* sent in this minute either, and that is no matter of the templates.)
FireSchedule(t) ==
    /\ silent' \in IF t \in Kept /\ template[t].content # Blank THEN {FALSE}
                   ELSE IF DefaultTemplates = {} THEN {TRUE}
                   ELSE {template[d].content = Blank : d \in DefaultTemplates}
    /\ UNCHANGED <<template, versions, request, had, overlapped, lost>>

\* A restart, which seeds a template when there is none, if its statements succeed.
Restart ==
    /\ request' = [r \in Requests |-> Resting]
    /\ LET cut == [t \in Tids |-> lost[t] \cup {c \in had[t] : Owed(t, c)}] IN
       \/ lost' = cut /\ UNCHANGED <<template, versions, had>>
       \/ /\ Kept = {} /\ Room
          /\ template' = [template EXCEPT ![NewId] = [row |-> "here", content |-> Seed, is_default |-> TRUE]]
          /\ had' = [had EXCEPT ![NewId] = {Seed}]
          /\ \/ lost' = cut /\ versions' = [versions EXCEPT ![NewId] = <<[version |-> 1, content |-> Seed]>>]
             \/ lost' = [cut EXCEPT ![NewId] = {Seed}] /\ UNCHANGED versions
    /\ UNCHANGED overlapped /\ Spoken

Next ==
    \/ \E r \in Requests :
         \/ CreateTemplate(r) \/ InsertTemplate(r) \/ FirstVersion(r)
         \/ UpdateTemplate(r) \/ WriteTemplate(r) \/ ReadVersion(r) \/ RecordVersion(r)
         \/ Fails(r)
    \/ \E t \in Tids : DeleteTemplate(t)
    \/ \E t \in 0..MaxTemplates : FireSchedule(t)
    \/ Restart

Spec == Init /\ [][Next]_vars

----------------------------------------------------------------------------
(* Properties.                                                             *)

\* The audit trail: each content a template has had is in its history, or in the
\* hands of the request that will put it there, however updates overlap; what is
\* missing is what an INSERT that failed or a restart before it has lost.
EveryContentKept ==
    \A t \in Kept : \A c \in had[t] :
      \/ c \in lost[t]
      \/ \E i \in DOMAIN versions[t] : versions[t][i].content = c
      \/ Owed(t, c)

\* An entry whose number could not be read.
Unnumbered(vs) == \E i \in DOMAIN vs : vs[i].version = 0

\* While requests come one by one the newest version is the content in use, unless
\* that very content was lost, and the numbers have no gap, unless one could not
\* be read.
NewestIsCurrent ==
    ~overlapped /\ Busy = {} => \A t \in Kept :
      LET vs == versions[t] IN
      /\ template[t].content \in lost[t] \/ (vs # <<>> /\ vs[Len(vs)].content = template[t].content)
      /\ Unnumbered(vs) \/ \A i \in DOMAIN vs : vs[i].version = i

\* The history of a template can be trusted.
AuditTrail == EveryContentKept /\ NewestIsCurrent

\* A reminder goes out, its own template deleted or blank, the default deleted or
\* unmarked, as long as there is a template and none is blank.
AlwaysAText ==
    [][silent' =>
         Kept = {} \/ \E t \in Kept : template[t].content = Blank]_vars
=============================================================================
