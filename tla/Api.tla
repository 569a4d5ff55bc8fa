--------------------------------- MODULE Api ---------------------------------
(***************************************************************************)
(* The API around its core: requests to the small features, which share    *)
(* the pipeline, the filter and the audit trail, and the documentation.    *)
(***************************************************************************)
EXTENDS BugReports, Todos, Inbox, Consents, ResponseCache, ApiDocs

apiVars == <<requestVars, auditVars, reports, todos, noteVars, consentVars, cacheVars, docsVars>>

Init ==
    /\ \E mix \in Mixes : RequestInit(mix)
    /\ AuditInit
    /\ ReportsInit /\ TodosInit /\ NotesInit /\ ConsentsInit /\ CacheInit /\ DocsInit

\* The pipeline, in front of and behind any handler.
Pipeline(r) ==
    /\ \/ Reject(r) \/ Admit(r) \/ Fault(r) \/ Die(r)
       \/ Route(r) # "evictingWrite" /\ Reply(r)
    /\ UNCHANGED <<reports, todos, noteVars, consentVars, cacheVars, docsVars>>

Audit ==
    /\ \E e \in auditing : LogChange(e) \/ LoseChange(e)
    /\ UNCHANGED <<requestVars, reports, todos, noteVars, consentVars, cacheVars, docsVars>>

Handler(r) ==
    \/ ReportStep(r) /\ UNCHANGED <<todos, noteVars, consentVars, cacheVars, docsVars>>
    \/ TodoStep(r) /\ UNCHANGED <<reports, noteVars, consentVars, cacheVars, docsVars>>
    \/ NoteStep(r) /\ UNCHANGED <<reports, todos, consentVars, cacheVars, docsVars>>
    \/ ConsentStep(r) /\ UNCHANGED <<reports, todos, noteVars, cacheVars, docsVars>>
    \/ CacheStep(r) /\ UNCHANGED <<reports, todos, noteVars, consentVars, docsVars>>
    \/ GetDocs(r) /\ UNCHANGED <<reports, todos, noteVars, consentVars, cacheVars>>

Background ==
    \/ Publish /\ UNCHANGED <<reports, todos, noteVars, cacheVars, docsVars>>
    \/ /\ \/ \E f \in filling : WriteCache(f)
          \/ \E r \in evicting : Evict(r)
          \/ Expire
       /\ UNCHANGED <<reports, todos, noteVars, consentVars, docsVars>>
    \/ /\ Release \/ Generate \/ \E m \in Mount : Converted(m)
       /\ UNCHANGED <<reports, todos, noteVars, consentVars, cacheVars>>

Next ==
    \/ \E r \in Request : Pipeline(r) \/ Handler(r)
    \/ Audit
    \/ Background

Spec == Init /\ [][Next]_apiVars

-----------------------------------------------------------------------------

\* Whose rows an answer of a user's own routes shows.
Shown(r) ==
    LET data == req[r].answer.data
    IN  CASE Route(r) = "listTodos" -> {todos[i].user : i \in {j \in data.ids : todos[j] # NoRow}}
          [] Route(r) \in {"listNotes", "unreadCount"} -> {notes[i].user : i \in data.ids}
          [] Route(r) = "listConsents" -> {c.user : c \in {d \in consents : d.id \in data.ids}}
          [] OTHER -> IF "user" \in DOMAIN data THEN {data.user} ELSE {}

\* What a request was told it did stays done, whatever the others do and
\* however their statements interleave with its own: a removed report or todo
\* does not come back, a patched field is not reset, a notification is read
\* from then on unless its id was guessed before it had a row, and one that was
\* pushed says how the push ended.
AcknowledgedStands ==
    /\ RemovedStaysHidden /\ PatchKept
    /\ TodoGone
    /\ ReadStays /\ NotifiedSettled

\* An answer is true of what happened.  A request that was refused, or told
\* its row is not there, has changed nothing: only an internal error may hide
\* a change.  Nobody changes a row of someone else, or is shown one.  The
\* status is the one of the code, except for a throttled request.
AnswersTrue ==
    \A r \in Request :
        LET answer == req[r].answer
        IN  /\ Failed(answer) /\ answer.code # "INTERNAL_ERROR" => \A t \in trace : t.by # r
            /\ \A t \in trace : t.by = r => t.owner = Caller(r)
            /\ \A u \in Shown(r) : u = Caller(r)
            /\ answer.code # NoCode /\ answer.status # 429 => Registry[answer.code] = answer.status

\* The trail tells what happened.  An entry is of a request that succeeded,
\* under its caller's name and about its row.  A request that succeeded on an
\* audited route has one entry, unless it was lost; and a change without an
\* entry is of a request that has not returned yet, or whose process died or
\* lost the reply.
AuditAccounted ==
    /\ \A e \in Trail :
        /\ Done(e.request)
        /\ e.actor = Caller(e.request)
        /\ e.id = IF e.action = "CREATE" THEN e.request ELSE Target(e.request)
        /\ e.action = Action(Route(e.request))
    /\ \A r \in Request :
        LET entries == {e \in Trail : e.request = r}
        IN  /\ Done(r) /\ Action(Route(r)) # "none" => Cardinality(entries) = 1
            /\ (\E t \in trace : t.by = r) /\ Action(Route(r)) # "none" /\ entries = {} =>
                \/ req[r].pc \in {"reply", "lost"}
                \/ req[r].answer.code = "INTERNAL_ERROR"
==============================================================================
